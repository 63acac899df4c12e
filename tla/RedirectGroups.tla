--------------------------- MODULE RedirectGroups --------------------------
(***************************************************************************)
(* The redirect-destination index of PolicyManager                         *)
(* (src/agent-ovs/lib/PolicyManager.cpp): redirGrpMap maps a              *)
(* RedirectDestGroup URI to its resolved next-hop list and to ctrctSet,    *)
(* the contracts whose rules redirect to it.  updateContractRules keeps   *)
(* ctrctSet, updateRedirectDestGroup(s) keep the list and notify the       *)
(* contracts of ctrctSet, and a PolicyListener notified of a contract      *)
(* reads the list of each group its rules redirect to (getPolicyDestGroup).*)
(*                                                                         *)
(* A resolved next-hop list, together with the group's hash parameters, is *)
(* a model value of DestLists; NoDests is the empty list.  Hash parameters *)
(* are not told apart when the list is empty, so a change of hashAlgo or   *)
(* resilientHashEnabled on a group without next hops, which notifies       *)
(* ctrctSet in the code, is no change in the model.  A contract is         *)
(* abstracted to the set of groups its rules redirect to; it always has at *)
(* least one rule, so updatePolicyRules reports every recompile as an      *)
(* update (the lists are compared by pointer).  EpGroup references to      *)
(* contracts are the PolicyManager module's and are left out.              *)
(***************************************************************************)
EXTENDS FiniteSets, SequencesExt, TLC

CONSTANTS
    Groups,        \* RedirectDestGroup URIs
    Contracts,     \* Contract URIs
    DestLists,     \* resolved next-hop lists (with hash parameters)
    NoDests,       \* the empty list
    Absent         \* the object does not resolve

ASSUME NoDests \in DestLists

VARIABLES
    grpObj,        \* the store: each group's resolved list, or Absent
    ctrObj,        \* the store: each contract's redirect targets, or Absent
    contractMap,   \* contract URI -> groups its compiled rules redirect to
    redirGrpMap,   \* group URI -> [dests, ctrct]
    pending,       \* the task queue
    contractView,  \* per contract, what a listener last read for its groups
    iterErased     \* updateRedirectDestGroups erased the entry it was at

store == <<grpObj, ctrObj>>
vars  == <<store, contractMap, redirGrpMap, pending, contractView, iterErased>>

\* "cl"+uri of a group, "cl"+uri of a RedirectDest (one per group), "contract"
CL(g) == <<"cl", g>>
DK(g) == <<"dest", g>>
ContractKey == <<"contract", "contract">>
TaskKeys == {CL(g) : g \in Groups} \cup {DK(g) : g \in Groups} \cup {ContractKey}
TQ == INSTANCE TaskQueue WITH Keys <- TaskKeys

DestsOf(x) == IF x = Absent THEN NoDests ELSE x

\* A default-constructed RedirectDestGrpState, as redirGrpMap[uri] creates it
NoGrpState == [dests |-> NoDests, ctrct |-> {}]

GrpEntry(rgm, g) == IF g \in DOMAIN rgm THEN rgm[g] ELSE NoGrpState

(***************************************************************************)
(* getPolicyDestGroup(g) for each group c redirects to, as a listener      *)
(* reads it after contractUpdated(c): the list, or Absent when the lookup  *)
(* fails.                                                                  *)
(***************************************************************************)
ViewOf(cm, rgm, c) ==
    [g \in IF c \in DOMAIN cm THEN cm[c] ELSE {} |->
        IF g \in DOMAIN rgm THEN rgm[g].dests ELSE Absent]

NotifyContracts(cs) ==
    contractView' = [c \in Contracts |->
                        IF c \in cs THEN ViewOf(contractMap', redirGrpMap', c)
                        ELSE contractView[c]]

Init ==
    /\ grpObj = [g \in Groups |-> Absent]
    /\ ctrObj = [c \in Contracts |-> Absent]
    /\ contractMap = <<>>
    /\ redirGrpMap = <<>>
    /\ pending = {}
    /\ contractView = [c \in Contracts |-> <<>>]
    /\ iterErased = FALSE

-----------------------------------------------------------------------------
(***************************************************************************)
(* The next-hop list changes when RedirectDest children are created,       *)
(* deleted or changed; pointers of fresh lists never match, so any         *)
(* non-empty list on either side counts as a change.                       *)
(***************************************************************************)
DestsChanged(old, new) == old # NoDests \/ new # NoDests

UpdateRedirectDestGroup(rgm, g, obj) ==
    LET st == GrpEntry(rgm, g) IN
    IF obj = Absent
    THEN [rgm |-> Restrict(rgm, DOMAIN rgm \ {g}), notify |-> st.ctrct]
    ELSE [rgm |-> (g :> [st EXCEPT !.dests = obj]) @@ rgm,
          notify |-> IF DestsChanged(st.dests, obj) THEN st.ctrct ELSE {}]

(***************************************************************************)
(* updateRedirectDestGroups: updateRedirectDestGroup for each entry, in    *)
(* the map's iteration order; an entry whose group no longer resolves is   *)
(* erased while the loop's iterator points at it.                          *)
(***************************************************************************)
UpdateRedirectDestGroups(rgm) ==
    { FoldLeft(LAMBDA acc, g :
                   LET r == UpdateRedirectDestGroup(acc.rgm, g, grpObj[g])
                   IN [rgm |-> r.rgm, notify |-> acc.notify \cup r.notify],
               [rgm |-> rgm, notify |-> {}], o)
      : o \in SetToSeqs(DOMAIN rgm) }

(***************************************************************************)
(* The redirect bookkeeping of updateContractRules(c) for a contract that  *)
(* resolves: c leaves the ctrctSet of each group its old rules redirected  *)
(* to (when the entry exists), then joins that of each group its new rules *)
(* redirect to (the entry created on demand).                              *)
(***************************************************************************)
UpdateContractRedirects(rgm, c, oldGrps, newGrps) ==
    LET rgm1 == [g \in DOMAIN rgm |->
                    IF g \in oldGrps THEN [rgm[g] EXCEPT !.ctrct = @ \ {c}]
                    ELSE rgm[g]]
    IN [g \in DOMAIN rgm1 \cup newGrps |->
           IF g \in newGrps THEN [GrpEntry(rgm1, g) EXCEPT !.ctrct = @ \cup {c}]
           ELSE rgm1[g]]

(***************************************************************************)
(* updateContracts, as far as redirects go: every contract of contractMap  *)
(* is recompiled and notified.  One that does not resolve returns before   *)
(* its redirect groups are collected, so ctrctSet keeps it; its rules are  *)
(* cleared (the entry is erased when no EpGroup references it: either way *)
(* it redirects nowhere).                                                  *)
(***************************************************************************)
UpdateContracts(cm, rgm) ==
    LET found == {c \in DOMAIN cm : ctrObj[c] # Absent}
    IN [cm     |-> [c \in found |-> ctrObj[c]],
        rgm    |-> FoldSet(LAMBDA c, acc :
                               UpdateContractRedirects(acc, c, cm[c], ctrObj[c]),
                           rgm, found),
        notify |-> DOMAIN cm]

-----------------------------------------------------------------------------
\* A RedirectDestGroup is created, changed or deleted: ContractListener
\* dispatches cl+uri for it, and cl+uri for a RedirectDest whose change
\* alters the list.
GroupUpdated(g, v) ==
    /\ v # grpObj[g]
    /\ grpObj' = [grpObj EXCEPT ![g] = v]
    /\ TQ!Dispatch({CL(g)} \cup
                   IF DestsOf(v) # DestsOf(grpObj[g]) THEN {DK(g)} ELSE {})
    /\ UNCHANGED <<ctrObj, contractMap, redirGrpMap, contractView, iterErased>>

\* A Contract (or a rule's RedirectAction) changes: ContractListener adds
\* the contract to contractMap under state_mutex and dispatches "contract".
ContractUpdated(c, r) ==
    /\ r # ctrObj[c]
    /\ ctrObj' = [ctrObj EXCEPT ![c] = r]
    /\ contractMap' = IF c \in DOMAIN contractMap THEN contractMap
                      ELSE (c :> {}) @@ contractMap
    /\ TQ!Dispatch({ContractKey})
    /\ UNCHANGED <<grpObj, redirGrpMap, contractView, iterErased>>

\* executeAndNotifyContract(updateRedirectDestGroup(g))
GroupTask(g) ==
    LET res == UpdateRedirectDestGroup(redirGrpMap, g, grpObj[g]) IN
    /\ TQ!Take(CL(g))
    /\ redirGrpMap' = res.rgm
    /\ UNCHANGED <<store, contractMap, iterErased>>
    /\ NotifyContracts(res.notify)

\* executeAndNotifyContract(updateRedirectDestGroups)
DestsTask(g) ==
    /\ TQ!Take(DK(g))
    /\ iterErased' = (iterErased \/
                      \E h \in DOMAIN redirGrpMap : grpObj[h] = Absent)
    /\ UNCHANGED <<store, contractMap>>
    /\ \E res \in UpdateRedirectDestGroups(redirGrpMap) :
           /\ redirGrpMap' = res.rgm
           /\ NotifyContracts(res.notify)

\* updateContracts()
ContractsTask ==
    LET res == UpdateContracts(contractMap, redirGrpMap) IN
    /\ TQ!Take(ContractKey)
    /\ contractMap' = res.cm
    /\ redirGrpMap' = res.rgm
    /\ NotifyContracts(res.notify)
    /\ UNCHANGED <<store, iterErased>>

StoreNext ==
    \/ \E g \in Groups, v \in DestLists \cup {Absent} : GroupUpdated(g, v)
    \/ \E c \in Contracts, r \in SUBSET Groups \cup {Absent} : ContractUpdated(c, r)

WorkerNext ==
    \/ \E g \in Groups : GroupTask(g)
    \/ \E g \in Groups : DestsTask(g)
    \/ ContractsTask

Next == StoreNext \/ WorkerNext

(***************************************************************************)
(* The single worker runs every queued task: the task queue is FIFO, so    *)
(* each task, once dispatched, is eventually taken.                        *)
(***************************************************************************)
Fairness ==
    /\ \A g \in Groups : WF_vars(GroupTask(g)) /\ WF_vars(DestsTask(g))
    /\ WF_vars(ContractsTask)

Spec == Init /\ [][Next]_vars /\ Fairness

-----------------------------------------------------------------------------
TypeOK ==
    /\ grpObj \in [Groups -> DestLists \cup {Absent}]
    /\ ctrObj \in [Contracts -> SUBSET Groups \cup {Absent}]
    /\ DOMAIN contractMap \subseteq Contracts
    /\ \A c \in DOMAIN contractMap : contractMap[c] \in SUBSET Groups
    /\ DOMAIN redirGrpMap \subseteq Groups
    /\ \A g \in DOMAIN redirGrpMap :
           redirGrpMap[g] \in [dests : DestLists, ctrct : SUBSET Contracts]
    /\ pending \subseteq TaskKeys
    /\ iterErased \in BOOLEAN

(***************************************************************************)
(* Redirect notification: after every step, what a listener last read for  *)
(* the redirect groups of a contract is what getPolicyDestGroup returns    *)
(* now.  A list that changes without its contracts being notified leaves   *)
(* the renderer forwarding to stale next-hops.                             *)
(***************************************************************************)
RedirectListenersUpToDate ==
    \A c \in Contracts : contractView[c] = ViewOf(contractMap, redirGrpMap, c)

NoEraseWhileIterating == ~iterErased
=============================================================================
