\* Forwarding-domain resolution for an EpGroup over one domain of each
\* class, chains shaped FD -> BD -> RD, under every interleaving of commits
\* and "dl" tasks.
CONSTANTS
    Groups = {g1}
    Doms = {fd1, bd1, rd1}
    fd1 = fd1
    bd1 = bd1
    rd1 = rd1
    v1 = v1
    v2 = v2
    v3 = v3
    Vnids = {v1, v2, v3}
    NoEncap = noEncap
    NoCtx = noCtx
    NoRef = noRef
    Absent = absent
    DomClass <- MCDomClass
    EpgChoices <- MCEpgChoices
    DomChoices <- SchemaDomChoices
SPECIFICATION Spec
INVARIANTS TypeOK DomainListenersUpToDate QuiescentDomainsAgree
