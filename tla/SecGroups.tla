----------------------------- MODULE SecGroups ------------------------------
(***************************************************************************)
(* The security-group index of PolicyManager                               *)
(* (src/agent-ovs/lib/PolicyManager.cpp): SecGroupListener adds a          *)
(* SecGroup's URI to secGrpMap and dispatches the "secgroup" task, which   *)
(* recompiles the rules of every group in secGrpMap (updateSecGrps) and    *)
(* notifies the PolicyListeners, which read them back with                 *)
(* getSecGroupRules.  A compiled rule list is a model value of RuleLists   *)
(* as in ContractIndex, whose change test updatePolicyRules shares.        *)
(***************************************************************************)
EXTENDS FiniteSets, Functions, TLC

CONSTANTS
    SecGroups,     \* SecGroup URIs
    RuleLists,     \* compiled rule lists a SecGroup can have
    NoRules,       \* the empty rule list
    Absent         \* the SecGroup does not resolve

VARIABLES
    secObj,        \* the store: compiled rules of each SecGroup, or Absent
    secGrpMap,     \* PolicyManager::secGrpMap
    pending,       \* the task queue
    secView        \* what a PolicyListener last read for each SecGroup

vars == <<secObj, secGrpMap, pending, secView>>

CI == INSTANCE ContractIndex WITH Contracts <- SecGroups, GroupUris <- {}
TQ == INSTANCE TaskQueue WITH Keys <- {"secgroup"}

\* getSecGroupRules(s): the entry's rules, none when there is no entry
SecGroupRules(m, s) == IF s \in DOMAIN m THEN m[s] ELSE NoRules

Init ==
    /\ secObj = [s \in SecGroups |-> Absent]
    /\ secGrpMap = <<>>
    /\ pending = {}
    /\ secView = [s \in SecGroups |-> NoRules]

-----------------------------------------------------------------------------
\* Mutant: the listener dispatches without adding the URI to secGrpMap
SecGroupUpdatedNoIndex(s, r) ==
    /\ r # secObj[s]
    /\ secObj' = [secObj EXCEPT ![s] = r]
    /\ TQ!Dispatch({"secgroup"})
    /\ UNCHANGED <<secGrpMap, secView>>

\* A SecGroup is created, changed or deleted: SecGroupListener adds its URI
\* to secGrpMap under state_mutex, then dispatches "secgroup".
SecGroupUpdated(s, r) ==
    /\ r # secObj[s]
    /\ secObj' = [secObj EXCEPT ![s] = r]
    /\ secGrpMap' = IF s \in DOMAIN secGrpMap THEN secGrpMap
                    ELSE (s :> NoRules) @@ secGrpMap
    /\ TQ!Dispatch({"secgroup"})
    /\ UNCHANGED secView

\* A SecGroupSubject, SecGroupRule, L24Classifier or Subnet of a resolvable
\* group changes: the listener dispatches "secgroup" only.
RulesChanged(s, r) ==
    /\ secObj[s] \notin {Absent, r}
    /\ secObj' = [secObj EXCEPT ![s] = r]
    /\ TQ!Dispatch({"secgroup"})
    /\ UNCHANGED <<secGrpMap, secView>>

\* Mutant: a SecGroup that is notFound is erased without being notified
UpdateSecGrpsNoNotFoundNotify(m) ==
    LET found == {s \in DOMAIN m : secObj[s] # Absent}
    IN [map    |-> [s \in found |->
                       IF CI!RulesUpdated(m[s], secObj[s]) THEN secObj[s]
                       ELSE m[s]],
        notify |-> {s \in found : CI!RulesUpdated(m[s], secObj[s])}]

(***************************************************************************)
(* updateSecGrps: each group of secGrpMap is recompiled                    *)
(* (updateSecGrpRules); an updated one is notified, one that does not     *)
(* resolve is notified and erased.                                         *)
(***************************************************************************)
UpdateSecGrps(m) ==
    LET found == {s \in DOMAIN m : secObj[s] # Absent}
    IN [map    |-> [s \in found |->
                       IF CI!RulesUpdated(m[s], secObj[s]) THEN secObj[s]
                       ELSE m[s]],
        notify |-> {s \in found : CI!RulesUpdated(m[s], secObj[s])}
                   \cup (DOMAIN m \ found)]

\* notifySecGroup(s) for each s of ss: every listener reads s back
NotifySecGroup(ss, m) ==
    secView' = [s \in SecGroups |-> IF s \in ss THEN SecGroupRules(m, s) ELSE secView[s]]

\* The "secgroup" task; notifySecGroup for each group of the result
SecGrpsTask ==
    LET res == UpdateSecGrps(secGrpMap) IN
    /\ TQ!Take("secgroup")
    /\ secGrpMap' = res.map
    /\ NotifySecGroup(res.notify, res.map)
    /\ UNCHANGED secObj

Next ==
    \/ \E s \in SecGroups, r \in RuleLists \cup {Absent} : SecGroupUpdated(s, r)
    \/ \E s \in SecGroups, r \in RuleLists : RulesChanged(s, r)
    \/ SecGrpsTask

Spec == Init /\ [][Next]_vars /\ WF_vars(SecGrpsTask)

-----------------------------------------------------------------------------
TypeOK ==
    /\ secObj \in [SecGroups -> RuleLists \cup {Absent}]
    /\ DOMAIN secGrpMap \subseteq SecGroups
    /\ \A s \in DOMAIN secGrpMap : secGrpMap[s] \in RuleLists
    /\ pending \subseteq {"secgroup"}
    /\ secView \in [SecGroups -> RuleLists]

(***************************************************************************)
(* Notification completeness for security groups: after every step, what a *)
(* listener last read for a SecGroup is what getSecGroupRules returns now. *)
(***************************************************************************)
SecListenersUpToDate ==
    \A s \in SecGroups : secView[s] = SecGroupRules(secGrpMap, s)

(***************************************************************************)
(* Once the "secgroup" task has run, secGrpMap has an entry for exactly    *)
(* the SecGroups that resolve, holding their compiled rules.               *)
(***************************************************************************)
SecAgrees ==
    /\ DOMAIN secGrpMap = {s \in SecGroups : secObj[s] # Absent}
    /\ \A s \in DOMAIN secGrpMap : secGrpMap[s] = secObj[s]

QuiescentSecAgrees == TQ!Idle => SecAgrees
=============================================================================
