-------------------------- MODULE MCSpanRenderer ---------------------------
EXTENDS SpanRenderer

CONSTANTS s1, s2, p1, d1, d2

\* The behaviours in which SpanManager never deletes a session
NextNoRemoval ==
    \/ \E s \in Sessions, v \in SessVal : SpanUpdated(s, v)
    \/ ConnectionChanged
    \/ TimerExpires
    \/ UpdateConnectCb
    \/ DelConnectPtrCb

SpecNoRemoval == Init /\ [][NextNoRemoval]_vars
=============================================================================
