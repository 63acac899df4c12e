--------------------------- MODULE MCExternalNets --------------------------
EXTENDS ExternalNets

CONSTANTS r1, n1, n2, c1, e1, e2

\* Two networks under r1: they can share a NAT EpGroup slot
MCNetRd == (n1 :> r1) @@ (n2 :> r1)

NoRel == [r \in Role |-> {}]
ProvC1 == [NoRel EXCEPT !["prov"] = {c1}]

\* Every NAT relation a network can carry; provided contract c1 or none
AllNetChoices ==
    {[nat |-> x, rel |-> rl] : x \in NatEpgs \cup {NoRef, NoTarget},
                               rl \in {NoRel, ProvC1}} \cup {Absent}

\* NAT relations always carry their target
TargetedNetChoices ==
    {[nat |-> x, rel |-> NoRel] : x \in NatEpgs \cup {NoRef}} \cup {Absent}

\* The controller never deletes a routing domain once it has created it
RdNeverDeleted == \A rd \in RDs : rdObj[rd] => rdObj'[rd]

SpecRdKept == Init /\ [][Next /\ RdNeverDeleted]_vars
=============================================================================
