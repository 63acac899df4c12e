\* Contract indexer, contract GC and contract notifications under every
\* interleaving of EpGroup / Contract commits and the tasks they queue.
CONSTANTS
    Groups = {g1, g2}
    Contracts = {c1, c2}
    RuleLists = {noRules, r1}
    NoRules = noRules
    Vnids = {}
    NoVnid = noVnid
    Absent = absent
    EpgChoices <- ContractEpgChoices
SPECIFICATION Spec
INVARIANT TypeOK
INVARIANT ContractRefIntegrity
INVARIANT ListenersUpToDate
INVARIANT QuiescentIndexAgrees
SYMMETRY Symmetry
