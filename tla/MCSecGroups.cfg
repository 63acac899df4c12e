\* Three security groups, two non-empty rule lists; the groups are
\* interchangeable.
CONSTANTS
    SecGroups = {s1, s2, s3}
    RuleLists = {noRules, r1, r2}
    NoRules = noRules
    Absent = absent
    s1 = s1
    s2 = s2
    s3 = s3
    r1 = r1
    r2 = r2
SPECIFICATION Spec
INVARIANTS SecListenersUpToDate QuiescentSecAgrees
SYMMETRY Symmetry
