------------------------------ MODULE Domains -------------------------------
(***************************************************************************)
(* The forwarding-domain resolver of PolicyManager                         *)
(* (src/agent-ovs/lib/PolicyManager.cpp): DomainListener turns a commit of *)
(* an EpGroup, FloodDomain, BridgeDomain or RoutingDomain into the task    *)
(* "dl"+uri; the task, updateDomain, re-resolves every group of group_map  *)
(* by walking its forwarding-domain chain (updateEPGDomains), keeps        *)
(* vnid_map, and notifies the EPG-domain listeners of every group whose    *)
(* state changed; the listeners read the group back through the getters.  *)
(*                                                                         *)
(* An object of the store is a record: its instance context (a child      *)
(* object, delivered to the listeners of its parent) abstracted to its     *)
(* encap id, NoEncap for a context without one, NoCtx for none; and the    *)
(* target of its Network reference, NoRef for none.  A domain's class is   *)
(* fixed by its URI (DomClass); a FloodDomain's ctx field stands for its   *)
(* FloodContext.  A resolved object is held in GroupState as a handle,     *)
(* compared by identity: the URI with the object value it was read at.     *)
(* Subnets and endpoint-retention policies are left out.                   *)
(***************************************************************************)
EXTENDS FiniteSets, SequencesExt, TLC

CONSTANTS
    Groups,        \* EpGroup URIs
    Doms,          \* FloodDomain, BridgeDomain and RoutingDomain URIs
    DomClass,      \* the class of each domain
    Vnids,         \* encap ids
    NoEncap,       \* an instance context without an encap id
    NoCtx,         \* no instance context (no FloodContext for a FD)
    NoRef,         \* no Network reference
    Absent,        \* the object does not resolve
    EpgChoices,    \* EpGroup values the controller may commit
    DomChoices     \* DomChoices[d]: values it may commit for domain d

Ctx  == Vnids \cup {NoEncap}
None == [none |-> TRUE]   \* an empty handle or an absent entry

ASSUME DomClass \in [Doms -> {"FD", "BD", "RD"}]
ASSUME EpgChoices \subseteq [ctx : Ctx \cup {NoCtx}, net : Doms \cup {NoRef}]
ASSUME \A d \in Doms :
         DomChoices[d] \subseteq [ctx : Ctx \cup {NoCtx}, net : Doms \cup {NoRef}]

VARIABLES
    epgObj,        \* the store: each EpGroup, or Absent
    domObj,        \* the store: each domain, or Absent
    group_map,     \* EpGroup URI -> GroupState
    vnid_map,      \* encap id -> EpGroup URI
    pending,       \* the task queue: URIs with a "dl" task queued
    groupView,     \* what the listeners last read for each group
    hung,          \* the worker is stuck in a chain walk
    stopped        \* stop() has run: the listeners are unregistered

store == <<epgObj, domObj>>
vars  == <<epgObj, domObj, group_map, vnid_map, pending, groupView, hung, stopped>>

DR == INSTANCE DomainResolver WITH NoVnid <- NoCtx
TQ == INSTANCE TaskQueue WITH Keys <- Groups \cup Doms

Handle(u, obj) == IF obj = Absent THEN None ELSE [uri |-> u, obj |-> obj]

\* A default-constructed GroupState, as group_map[uri] creates it
NoGroupState == [epg |-> None, inst |-> NoCtx, fd |-> None, fdctx |-> NoCtx,
                 bd |-> None, rd |-> None, bdInst |-> NoCtx, rdInst |-> NoCtx]

Init ==
    /\ epgObj = [g \in Groups |-> Absent]
    /\ domObj = [d \in Doms |-> Absent]
    /\ group_map = <<>>
    /\ vnid_map = <<>>
    /\ pending = {}
    /\ groupView = [g \in Groups |-> None]
    /\ hung = FALSE
    /\ stopped = FALSE

-----------------------------------------------------------------------------
(***************************************************************************)
(* The loop "walk up the chain of forwarding domains" of updateEPGDomains: *)
(* a RoutingDomain ends the chain and gives the RD instance context; a     *)
(* BridgeDomain gives the BD instance context and the next link; a         *)
(* FloodDomain its FloodContext and the next link; a domain that does not  *)
(* resolve ends the chain.  The BD and RD contexts start as the EpGroup's. *)
(* The walk is deterministic in the domain it is at, so a walk longer than *)
(* the number of domains has met a domain twice and never ends: it gives  *)
(* Loops after Cardinality(Doms) + 1 links.                                *)
(***************************************************************************)
Loops == [loops |-> TRUE]

RECURSIVE Walk(_, _, _)
Walk(acc, d, fuel) ==
    IF d = NoRef THEN acc
    ELSE IF fuel = 0 THEN Loops
    ELSE LET o == domObj[d]
             h == Handle(d, o)
         IN CASE DomClass[d] = "RD" ->
                   IF o = Absent THEN [acc EXCEPT !.rd = None]
                   ELSE [acc EXCEPT !.rd = h, !.rdInst = o.ctx]
              [] DomClass[d] = "BD" ->
                   IF o = Absent THEN [acc EXCEPT !.bd = None]
                   ELSE Walk([acc EXCEPT !.bd = h, !.bdInst = o.ctx],
                             o.net, fuel - 1)
              [] DomClass[d] = "FD" ->
                   IF o = Absent THEN [acc EXCEPT !.fd = None]
                   ELSE Walk([acc EXCEPT !.fd = h, !.fdctx = o.ctx],
                             o.net, fuel - 1)

\* The GroupState updateEPGDomains(g) computes for a resolving EpGroup
Resolve(g) ==
    LET e == epgObj[g]
    IN Walk([NoGroupState EXCEPT !.epg = Handle(g, e), !.inst = e.ctx,
             !.bdInst = e.ctx, !.rdInst = e.ctx],
            e.net, Cardinality(Doms) + 1)

EncapOf(c) == IF c \in Vnids THEN c ELSE NoCtx

(***************************************************************************)
(* getBDVnidForGroup: when the group has a BD instance context it returns  *)
(* the encap id of instContext, the group's own context, dereferenced      *)
(* without a test that there is one (Deref: undefined behaviour).          *)
(***************************************************************************)
Deref == "deref"
BDVnidOf(gs) ==
    IF gs.bdInst = NoCtx THEN NoCtx
    ELSE IF gs.inst = NoCtx THEN Deref
    ELSE EncapOf(gs.inst)

\* getRDVnidForGroup: the encap id of the RD instance context
RDVnidOf(gs) == EncapOf(gs.rdInst)

\* What a listener reads for a group through getRDForGroup, getBDForGroup,
\* getFDForGroup, getFloodContextForGroup and getVnidForGroup,
\* getBDVnidForGroup, getRDVnidForGroup; None for a group not in group_map.
GroupViewOf(gm, g) ==
    IF g \notin DOMAIN gm THEN None
    ELSE [rd |-> gm[g].rd, bd |-> gm[g].bd, fd |-> gm[g].fd,
          fdctx |-> gm[g].fdctx, vnid |-> EncapOf(gm[g].inst),
          bdVnid |-> BDVnidOf(gm[g]), rdVnid |-> RDVnidOf(gm[g])]

\* notifyEPGDomain(g) for each g of gs: every listener reads g back
NotifyEPGDomain(gs, gm) ==
    groupView' = [g \in Groups |-> IF g \in gs THEN GroupViewOf(gm, g) ELSE groupView[g]]

\* updateEPGDomains' updated flag: any field differs from the old state
Updated(old, new) == old # new

\* Mutant: only the group the task is named after is re-resolved
VisitedOnlyUri(gm0, u) == DOMAIN gm0 \cap {u}

\* The loop of updateDomain visits every group of group_map
Visited(gm0, u) == DOMAIN gm0

\* Mutant: a removed group is not notified (toRemove returns false)
NotifyGroupsNoRemoved(gm0, vis, live, gm1) ==
    {g \in live : Updated(gm0[g], gm1[g])}

\* notifyGroups: the groups removed, and those whose state was updated
NotifyGroups(gm0, vis, live, gm1) ==
    (vis \ live) \cup {g \in live : Updated(gm0[g], gm1[g])}

(***************************************************************************)
(* updateDomain(class_id, uri): for an EpGroup the URI is first added to   *)
(* group_map; every group is re-resolved, in the unordered_map's order     *)
(* (vnid_map depends on it), and erased when its EpGroup no longer         *)
(* resolves; a removed or updated group is notified and its listeners read *)
(* it back.  When a walk never ends the worker stays in it, state_mutex    *)
(* held.  The routing domains of NAT external networks it also notifies    *)
(* are the ExternalNets module's; no state of this module changes there.   *)
(***************************************************************************)
UpdateDomainTask(u) ==
    LET gm0  == IF u \in Groups /\ u \notin DOMAIN group_map
                THEN (u :> NoGroupState) @@ group_map ELSE group_map
        vis  == Visited(gm0, u)
        live == {g \in vis : epgObj[g] # Absent}
        res  == [g \in live |-> Resolve(g)]
        gm1  == [g \in (DOMAIN gm0 \ vis) \cup live |->
                    IF g \in live THEN res[g] ELSE gm0[g]]
        notify == NotifyGroups(gm0, vis, live, gm1)
        VStep(vm, g) == DR!UpdateEPGDomains(vm, g, EncapOf(gm0[g].inst),
                                            g \in live,
                                            IF g \in live THEN EncapOf(gm1[g].inst)
                                            ELSE NoCtx)
    IN /\ ~hung
       /\ TQ!Take(u)
       /\ IF \E g \in live : res[g] = Loops
          THEN /\ hung' = TRUE
               /\ UNCHANGED <<group_map, vnid_map, groupView>>
          ELSE /\ group_map' = gm1
               /\ \E order \in SetToSeqs(vis) :
                      vnid_map' = FoldLeft(VStep, vnid_map, order)
               /\ NotifyEPGDomain(notify, gm1)
               /\ UNCHANGED hung
       /\ UNCHANGED <<epgObj, domObj, stopped>>

-----------------------------------------------------------------------------
\* DomainListener::objectUpdated dispatches "dl"+uri while it is registered
DomainListenerDispatch(u) ==
    IF stopped THEN UNCHANGED pending ELSE TQ!Dispatch({u})

\* An EpGroup (or its instance context) is committed: DomainListener
\* dispatches "dl"+uri
EpgCommitted(g, v) ==
    /\ v # epgObj[g]
    /\ epgObj' = [epgObj EXCEPT ![g] = v]
    /\ DomainListenerDispatch(g)
    /\ UNCHANGED <<domObj, group_map, vnid_map, groupView, hung, stopped>>

\* A domain (or its instance context or FloodContext) is committed
DomCommitted(d, v) ==
    /\ v # domObj[d]
    /\ domObj' = [domObj EXCEPT ![d] = v]
    /\ DomainListenerDispatch(d)
    /\ UNCHANGED <<epgObj, group_map, vnid_map, groupView, hung, stopped>>

(***************************************************************************)
(* stop(): the listeners are unregistered, then group_map and vnid_map are *)
(* cleared under state_mutex, which a worker stuck in a walk never         *)
(* releases.  The tasks already queued are left to run; nothing is         *)
(* notified.                                                               *)
(***************************************************************************)
Stop ==
    /\ ~stopped
    /\ ~hung
    /\ stopped' = TRUE
    /\ group_map' = <<>>
    /\ vnid_map' = <<>>
    /\ UNCHANGED <<epgObj, domObj, pending, groupView, hung>>

Next ==
    \/ Stop
    \/ \E g \in Groups, v \in EpgChoices \cup {Absent} : EpgCommitted(g, v)
    \/ \E d \in Doms : \E v \in DomChoices[d] \cup {Absent} : DomCommitted(d, v)
    \/ \E u \in Groups \cup Doms : UpdateDomainTask(u)

\* The single worker runs every queued task (see PolicyManager)
Spec == Init /\ [][Next]_vars /\ \A u \in Groups \cup Doms : WF_vars(UpdateDomainTask(u))

-----------------------------------------------------------------------------
GroupStates == [epg : {None} \cup [uri : Groups, obj : EpgChoices],
                inst : Ctx \cup {NoCtx}, fd : {None} \cup [uri : Doms, obj : UNION
                   {DomChoices[d] : d \in Doms}],
                fdctx : Ctx \cup {NoCtx},
                bd : {None} \cup [uri : Doms, obj : UNION {DomChoices[d] : d \in Doms}],
                rd : {None} \cup [uri : Doms, obj : UNION {DomChoices[d] : d \in Doms}],
                bdInst : Ctx \cup {NoCtx}, rdInst : Ctx \cup {NoCtx}]

TypeOK ==
    /\ epgObj \in [Groups -> EpgChoices \cup {Absent}]
    /\ \A d \in Doms : domObj[d] \in DomChoices[d] \cup {Absent}
    /\ DOMAIN group_map \subseteq Groups
    /\ \A g \in DOMAIN group_map : group_map[g] \in GroupStates
    /\ DOMAIN vnid_map \subseteq Vnids
    /\ pending \subseteq Groups \cup Doms
    /\ hung \in BOOLEAN
    /\ stopped \in BOOLEAN

(***************************************************************************)
(* Notification completeness for EPG domains: after every step, what the   *)
(* listeners last read for a group (on epgDomainUpdated) is what the       *)
(* getters return now.  A task that changes a group's resolved domains or  *)
(* contexts, or removes the group, always notifies it, until stop().       *)
(***************************************************************************)
DomainListenersUpToDate ==
    ~stopped => \A g \in Groups : groupView[g] = GroupViewOf(group_map, g)

(***************************************************************************)
(* Once every queued task has run, group_map holds exactly the EpGroups    *)
(* that resolve, each with the state its chain resolves to in the current  *)
(* store.  A commit to any domain of the chain, not only to the group,     *)
(* must lead to the group being re-resolved.                               *)
(***************************************************************************)
DomainsAgree ==
    /\ DOMAIN group_map = {g \in Groups : epgObj[g] # Absent}
    /\ \A g \in DOMAIN group_map : group_map[g] = Resolve(g)

QuiescentDomainsAgree == TQ!Idle /\ ~hung /\ ~stopped => DomainsAgree

(***************************************************************************)
(* The chain walk of updateEPGDomains ends, whatever Network references    *)
(* the controller commits: the worker is never stuck in it with            *)
(* state_mutex held.                                                       *)
(***************************************************************************)
WalkTerminates == ~hung

(***************************************************************************)
(* getBDVnidForGroup never dereferences an empty instContext: a group with *)
(* a BD instance context has an instance context of its own.               *)
(***************************************************************************)
BDVnidDefined ==
    \A g \in DOMAIN group_map : BDVnidOf(group_map[g]) # Deref

(***************************************************************************)
(* Spec 4.9 (Cancellation): stopping the manager clears the indices, after *)
(* the tasks in flight complete.  Once stopped, group_map and vnid_map     *)
(* stay empty.                                                             *)
(***************************************************************************)
StoppedIndicesEmpty == stopped => group_map = <<>> /\ vnid_map = <<>>
=============================================================================
