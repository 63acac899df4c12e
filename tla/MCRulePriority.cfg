\* Priorities of updatePolicyRules for two subjects of any number of rules
\* (rulePrio reaches its floor of 128 after 63 rules) with up to 130
\* classifiers a rule (clsPrio saturates at 127 after 127).
CONSTANTS
    MaxSubjects = 2
    MaxActions = 0
    MaxClassifiers = 130
    Orders = {}
SPECIFICATION Spec
INVARIANT TypeOK
INVARIANT PriorityInRange
PROPERTY SubjectPriorityOrder
