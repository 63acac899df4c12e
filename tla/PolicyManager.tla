--------------------------- MODULE PolicyManager ---------------------------
(***************************************************************************)
(* The policy manager of the agent (src/agent-ovs/lib/PolicyManager.cpp): *)
(* the MO store's object-updated callbacks, the listeners that turn them   *)
(* into keyed tasks, the single worker running the tasks, and the indices  *)
(* the tasks maintain under state_mutex.                                   *)
(*                                                                         *)
(* Each store step is a commit by the controller together with the        *)
(* objectUpdated callbacks of the listeners registered for the object's   *)
(* class (start(), lines 63-90).  Each worker step is one task run to      *)
(* completion under state_mutex, followed by its notifications.  Readers   *)
(* take state_mutex for one lookup, so they see only the states between    *)
(* steps and need no action of their own.                                  *)
(***************************************************************************)
EXTENDS FiniteSets, Functions, TLC

CONSTANTS
    Groups,        \* EpGroup URIs
    Contracts,     \* Contract URIs
    RuleLists,     \* compiled rule lists a contract can have
    NoRules,       \* the empty rule list
    Vnids,         \* encap ids
    NoVnid,        \* no encap id
    Absent,        \* the object does not resolve in the store
    EpgChoices     \* the EpGroup values the controller may commit

VARIABLES
    epgObj,            \* the store: EpGroup per URI, or Absent
    contractObj,       \* the store: compiled rules of each Contract, or Absent
    group_map,         \* PolicyManager::group_map
    vnid_map,          \* PolicyManager::vnid_map
    contractMap,       \* PolicyManager::contractMap
    groupContractMap,  \* PolicyManager::groupContractMap
    pending,           \* the task queue
    contractView       \* what a PolicyListener last read for each contract

store   == <<epgObj, contractObj>>
indices == <<group_map, vnid_map, contractMap, groupContractMap>>
vars    == <<store, indices, pending, contractView>>

CI == INSTANCE ContractIndex WITH GroupUris <- Groups
DR == INSTANCE DomainResolver

Role == CI!Role

(***************************************************************************)
(* Task ids: "dl"+uri (DomainListener), "cl"+uri (ContractListener for     *)
(* EpGroup) and the constant "contract" (whole-world contract recompute).  *)
(***************************************************************************)
DL(g) == <<"dl", g>>
CL(g) == <<"cl", g>>
ContractKey == <<"contract", "contract">>
TaskKeys == {DL(g) : g \in Groups} \cup {CL(g) : g \in Groups} \cup {ContractKey}

TQ == INSTANCE TaskQueue WITH Keys <- TaskKeys

EpgValue == [vnid : Vnids \cup {NoVnid}, rel : [Role -> SUBSET Contracts]]

ASSUME EpgChoices \subseteq EpgValue \cup {Absent}

PresentGroups    == {g \in Groups : epgObj[g] # Absent}
PresentContracts == {c \in Contracts : contractObj[c] # Absent}
VnidOf           == [g \in PresentGroups |-> epgObj[g].vnid]
RelOf(g)         == IF g \in PresentGroups THEN epgObj[g].rel ELSE CI!NoContracts

\* getGroupForVnid: the group vnid_map holds for v, as a set of at most one
GroupForVnid(vm, v) == IF v \in DOMAIN vm THEN {vm[v]} ELSE {}

\* getContractProviders/Consumers/Intra: the entry's group sets, or none
ContractGroups(cm, c) == IF c \in DOMAIN cm THEN cm[c].groups ELSE CI!NoGroups

\* getContractRules: the entry's rule list, or an empty one
ContractRules(cm, c) == IF c \in DOMAIN cm THEN cm[c].rules ELSE NoRules

\* What a listener reads back for a contract through those four getters
View(cm, c) == [groups |-> ContractGroups(cm, c), rules |-> ContractRules(cm, c)]

\* notifyContract(u) for every u: each listener re-reads the contract
NotifyContracts(cs) ==
    contractView' = [c \in Contracts |->
                           IF c \in cs THEN View(contractMap', c)
                           ELSE contractView[c]]

Init ==
    /\ epgObj = [g \in Groups |-> Absent]
    /\ contractObj = [c \in Contracts |-> Absent]
    /\ group_map = <<>>
    /\ vnid_map = <<>>
    /\ contractMap = <<>>
    /\ groupContractMap = <<>>
    /\ pending = {}
    /\ contractView = [c \in Contracts |-> CI!EmptyContractState]

-----------------------------------------------------------------------------
(***************************************************************************)
(* Store steps: a commit and the objectUpdated callbacks it triggers.      *)
(***************************************************************************)

\* An EpGroup is created, changed or deleted: DomainListener::objectUpdated
\* and ContractListener::objectUpdated each dispatch a task for it.
EpgUpdated(g, v) ==
    /\ v # epgObj[g]
    /\ epgObj' = [epgObj EXCEPT ![g] = v]
    /\ TQ!Dispatch({DL(g), CL(g)})
    /\ UNCHANGED <<contractObj, indices, contractView>>

\* A Contract is created, changed or deleted: ContractListener adds the URI
\* to contractMap under state_mutex, then dispatches the recompute.
ContractUpdated(c, r) ==
    /\ r # contractObj[c]
    /\ contractObj' = [contractObj EXCEPT ![c] = r]
    /\ contractMap' = IF c \in DOMAIN contractMap THEN contractMap
                      ELSE (c :> CI!EmptyContractState) @@ contractMap
    /\ TQ!Dispatch({ContractKey})
    /\ UNCHANGED <<epgObj, group_map, vnid_map, groupContractMap,
                   contractView>>

\* A Subject, Rule or L24Classifier of a resolvable contract changes: the
\* ContractListener dispatches the recompute without touching contractMap.
RulesChanged(c, r) ==
    /\ contractObj[c] \notin {Absent, r}
    /\ contractObj' = [contractObj EXCEPT ![c] = r]
    /\ TQ!Dispatch({ContractKey})
    /\ UNCHANGED <<epgObj, indices, contractView>>

-----------------------------------------------------------------------------
(***************************************************************************)
(* Worker steps: one task of the queue, run to completion.                 *)
(***************************************************************************)

\* updateDomain(EpGroup::CLASS_ID, g); egDomainUpdated is not modelled
DomainTask(g) ==
    /\ TQ!Take(DL(g))
    /\ \E res \in DR!UpdateDomain(group_map, vnid_map, TRUE, g,
                                  PresentGroups, VnidOf) :
           /\ group_map' = res.group_map
           /\ vnid_map' = res.vnid_map
    /\ UNCHANGED <<store, contractMap, groupContractMap, contractView>>

\* executeAndNotifyContract(updateGroupContracts(EpGroup::CLASS_ID, g))
GroupContractsTask(g) ==
    LET res == CI!UpdateGroupContracts(contractMap, groupContractMap, g,
                                       g \in PresentGroups, RelOf(g),
                                       PresentContracts)
    IN /\ TQ!Take(CL(g))
       /\ contractMap' = res.contractMap
       /\ groupContractMap' = res.groupContractMap
       /\ NotifyContracts(res.notify)
       /\ UNCHANGED <<store, group_map, vnid_map>>

\* updateContracts()
ContractsTask ==
    LET res == CI!UpdateContracts(contractMap, PresentContracts, contractObj)
    IN /\ TQ!Take(ContractKey)
       /\ contractMap' = res.contractMap
       /\ NotifyContracts(res.notify)
       /\ UNCHANGED <<store, group_map, vnid_map, groupContractMap>>

-----------------------------------------------------------------------------
StoreNext ==
    \/ \E g \in Groups, v \in EpgChoices : EpgUpdated(g, v)
    \/ \E c \in Contracts, r \in RuleLists \cup {Absent} : ContractUpdated(c, r)
    \/ \E c \in Contracts, r \in RuleLists : RulesChanged(c, r)

WorkerNext ==
    \/ \E g \in Groups : DomainTask(g)
    \/ \E g \in Groups : GroupContractsTask(g)
    \/ ContractsTask

Next == StoreNext \/ WorkerNext

(***************************************************************************)
(* The worker is the io_service thread; a queued task is never dropped and *)
(* no task blocks, so every task that stays queued eventually runs.  The   *)
(* controller is under no obligation to commit anything.                  *)
(***************************************************************************)
Fairness ==
    /\ \A g \in Groups : WF_vars(DomainTask(g)) /\ WF_vars(GroupContractsTask(g))
    /\ WF_vars(ContractsTask)

Spec == Init /\ [][Next]_vars /\ Fairness

-----------------------------------------------------------------------------
TypeOK ==
    /\ epgObj \in [Groups -> EpgValue \cup {Absent}]
    /\ contractObj \in [Contracts -> RuleLists \cup {Absent}]
    /\ DOMAIN group_map \subseteq Groups
    /\ \A g \in DOMAIN group_map : group_map[g] \in [vnid : Vnids \cup {NoVnid}]
    /\ DOMAIN vnid_map \subseteq Vnids
    /\ \A v \in DOMAIN vnid_map : vnid_map[v] \in Groups
    /\ DOMAIN contractMap \subseteq Contracts
    /\ \A c \in DOMAIN contractMap :
           contractMap[c] \in [groups : [Role -> SUBSET Groups], rules : RuleLists]
    /\ DOMAIN groupContractMap \subseteq Groups
    /\ \A g \in DOMAIN groupContractMap :
           groupContractMap[g] \in [Role -> SUBSET Contracts]
    /\ pending \subseteq TaskKeys

(***************************************************************************)
(* Contract reference integrity (spec 8.2): a group is in the provider     *)
(* (consumer, intra) set of a contract's entry exactly when the contract   *)
(* is in the provided (consumed, intra) set of the group's entry.  The two *)
(* maps are edited separately by updateGroupContracts and pruned by        *)
(* removeContractIfRequired and updateContracts, under every interleaving  *)
(* of store commits and tasks.                                             *)
(***************************************************************************)
ContractRefIntegrity ==
    \A g \in Groups, c \in Contracts, r \in Role :
        (g \in DOMAIN groupContractMap /\ c \in groupContractMap[g][r])
            <=> (c \in DOMAIN contractMap /\ g \in contractMap[c].groups[r])

(***************************************************************************)
(* Notification completeness: after every step, what the listeners last    *)
(* read for a contract (on contractUpdated) is what getContract* returns   *)
(* now, i.e. no task changes a contract's providers, consumers, intra      *)
(* groups or rules without notifying it.                                   *)
(***************************************************************************)
ListenersUpToDate == \A c \in Contracts : contractView[c] = View(contractMap, c)

(***************************************************************************)
(* What the indices must be once every queued task has run: one entry per  *)
(* resolvable EpGroup in group_map and groupContractMap holding its        *)
(* contract relations; a contract entry exactly for the contracts that     *)
(* resolve or are referenced (contract GC, spec 8.3), holding the          *)
(* contract's compiled rules, or none when it does not resolve.            *)
(***************************************************************************)
Referenced == UNION {UNION {RelOf(g)[r] : r \in Role} : g \in PresentGroups}

IndexAgrees ==
    /\ DOMAIN group_map = PresentGroups
    /\ DOMAIN groupContractMap = PresentGroups
    /\ \A g \in PresentGroups : groupContractMap[g] = RelOf(g)
    /\ DOMAIN contractMap = PresentContracts \cup Referenced
    /\ \A c \in DOMAIN contractMap :
           contractMap[c].rules =
               IF c \in PresentContracts THEN contractObj[c] ELSE NoRules

\* Event-driven maintenance converges: whenever the queue is empty, the
\* indices are the ones the current store determines.
QuiescentIndexAgrees == TQ!Idle => IndexAgrees

(***************************************************************************)
(* vnid index (spec 8.1): every group with an encap id is found by         *)
(* getGroupForVnid, and every vnid_map entry names a group of group_map    *)
(* that has that encap id.                                                 *)
(***************************************************************************)
VnidLookupCorrect ==
    \A g \in DOMAIN group_map :
        group_map[g].vnid # NoVnid => GroupForVnid(vnid_map, group_map[g].vnid) = {g}

VnidMapSound ==
    \A v \in DOMAIN vnid_map :
        /\ vnid_map[v] \in DOMAIN group_map
        /\ group_map[vnid_map[v]].vnid = v
=============================================================================
