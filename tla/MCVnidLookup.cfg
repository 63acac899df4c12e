\* vnid index when EpGroups change encap id and are never deleted
\* (spec 8.1, first half).
CONSTANTS
    Groups = {g1, g2}
    Contracts = {}
    RuleLists = {noRules}
    NoRules = noRules
    Vnids = {v1, v2}
    NoVnid = noVnid
    Absent = absent
    EpgChoices <- VnidNoDeleteChoices
SPECIFICATION SpecDistinctVnids
INVARIANT VnidLookupCorrect
