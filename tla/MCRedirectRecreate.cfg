\* Two redirect groups, never deleted; two contracts.  A contract's entry for
\* a group that does not resolve yet is erased by another group's
\* updateRedirectDestGroups, and the group's later creation notifies nobody.
CONSTANTS
    Contracts = {c1, c2}
    DestLists = {noDests, l1, l2}
    NoDests = noDests
    Absent = absent
    rg1 = rg1
    rg2 = rg2
    c1 = c1
    c2 = c2
    l1 = l1
    l2 = l2
    Groups = {rg1, rg2}
SPECIFICATION SpecNoGroupRemoval
SYMMETRY FullSymmetry
INVARIANT RedirectListenersUpToDate
