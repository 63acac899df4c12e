\* findSubnetForEp and resolveSubnets over every subnet_map of up to two
\* subnets, in every iteration order, for every endpoint address.
CONSTANTS
    W4 = 3
    W6 = 2
    MaxSubnets = 2
    Unset = unset
    Bad = bad
    None = none
    SubnetVals <- ParsedVals
SPECIFICATION Spec
INVARIANT FindSubnetFirstMatch
\* findSubnetForEp returns; nothing runs after it
CHECK_DEADLOCK FALSE
