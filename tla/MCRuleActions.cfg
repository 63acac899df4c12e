CONSTANTS
    MaxSubjects = 1
    MaxActions = 3
    MaxClassifiers = 1
    Orders = {1, 2}
SPECIFICATION Spec
INVARIANT AllowByLeastOrder
