--------------------------- MODULE ExternalNets ----------------------------
(***************************************************************************)
(* The external-network part of PolicyManager: RoutingDomain and           *)
(* L3ExternalNetwork commits, the ContractListener tasks they dispatch     *)
(* ("cl"+uri: updateL3Nets for a RoutingDomain, updateGroupContracts for   *)
(* a network), and the indices those tasks maintain, l3n_map,              *)
(* nat_epg_l3_ext and rd_map together with the contract index entries of   *)
(* the networks.                                                           *)
(*                                                                         *)
(* A network's URI lies under its routing domain's, so its routing domain  *)
(* is fixed (NetRd); deleting a routing domain deletes its subtree, and a  *)
(* commit to a network is also delivered to the listeners of its routing   *)
(* domain (spec section 6, test 6).  Contract objects are left out: no     *)
(* contract resolves here, their recompute is the PolicyManager module's.  *)
(***************************************************************************)
EXTENDS FiniteSets, SequencesExt, TLC

CONSTANTS
    RDs,           \* RoutingDomain URIs
    Nets,          \* L3ExternalNetwork URIs
    NetRd,         \* the routing domain each network lies under
    NatEpgs,       \* EpGroup URIs a NAT relation may target
    Contracts,     \* Contract URIs a network may provide or consume
    NoNat, NoRef, NoTarget,
    Absent,        \* the network does not resolve
    NetChoices     \* the L3ExternalNetwork values the controller may commit

VARIABLES
    rdObj,             \* the store: does each RoutingDomain resolve
    netObj,            \* the store: each L3ExternalNetwork, or Absent
    l3n_map,
    nat_epg_l3_ext,
    rd_map,
    contractMap,
    groupContractMap,
    pending            \* the task queue

store   == <<rdObj, netObj>>
indices == <<l3n_map, nat_epg_l3_ext, rd_map, contractMap, groupContractMap>>
vars    == <<store, indices, pending>>

NoRules == "noRules"
CI == INSTANCE ContractIndex WITH GroupUris <- Nets, RuleLists <- {NoRules}
LT == INSTANCE L3NetTracker

Role == CI!Role

CL(u) == <<"cl", u>>
TaskKeys == {CL(u) : u \in RDs \cup Nets}
TQ == INSTANCE TaskQueue WITH Keys <- TaskKeys

NetValue == [nat : NatEpgs \cup {NoRef, NoTarget}, rel : [Role -> SUBSET Contracts]]

ASSUME NetChoices \subseteq NetValue \cup {Absent}
ASSUME NetRd \in [Nets -> RDs]

NetsOf(rd)      == {n \in Nets : NetRd[n] = rd}
PresentNets(rd) == {n \in NetsOf(rd) : netObj[n] # Absent}
RefOf           == [n \in Nets |-> IF netObj[n] = Absent THEN NoRef
                                   ELSE netObj[n].nat]
RelOf(n)        == IF netObj[n] = Absent THEN CI!NoContracts ELSE netObj[n].rel

Init ==
    /\ rdObj = [rd \in RDs |-> FALSE]
    /\ netObj = [n \in Nets |-> Absent]
    /\ l3n_map = <<>>
    /\ nat_epg_l3_ext = <<>>
    /\ rd_map = <<>>
    /\ contractMap = <<>>
    /\ groupContractMap = <<>>
    /\ pending = {}

-----------------------------------------------------------------------------
\* A RoutingDomain is created, or deleted with its subtree; the
\* ContractListener dispatches cl+uri for it and for each deleted network.
RdUpdated(rd) ==
    /\ rdObj' = [rdObj EXCEPT ![rd] = ~@]
    /\ netObj' = IF rdObj[rd]
                 THEN [n \in Nets |-> IF n \in NetsOf(rd) THEN Absent
                                      ELSE netObj[n]]
                 ELSE netObj
    /\ TQ!Dispatch({CL(rd)} \cup {CL(n) : n \in PresentNets(rd)})
    /\ UNCHANGED indices

\* A network under a resolvable routing domain is created, changed or
\* deleted: cl+uri for the network and for its routing domain.
NetUpdated(n, v) ==
    /\ rdObj[NetRd[n]]
    /\ v # netObj[n]
    /\ netObj' = [netObj EXCEPT ![n] = v]
    /\ TQ!Dispatch({CL(n), CL(NetRd[n])})
    /\ UNCHANGED <<rdObj, indices>>

\* updateGroupContracts(L3ExternalNetwork::CLASS_ID, n) on a pair of maps
NetContracts(acc, n) ==
    LET r == CI!UpdateGroupContracts(acc.cm, acc.gcm, n, netObj[n] # Absent,
                                     RelOf(n), {})
    IN [cm |-> r.contractMap, gcm |-> r.groupContractMap]

\* executeAndNotifyContract(updateL3Nets(rd))
L3NetsTask(rd) ==
    /\ TQ!Take(CL(rd))
    /\ \E res \in LT!UpdateL3Nets(l3n_map, nat_epg_l3_ext, rd_map, rd,
                                   rdObj[rd], PresentNets(rd), RefOf) :
           LET acc == FoldLeft(NetContracts,
                               [cm |-> contractMap, gcm |-> groupContractMap],
                               res.calls)
           IN /\ l3n_map' = res.l3n
              /\ nat_epg_l3_ext' = res.nat
              /\ rd_map' = res.rd_map
              /\ contractMap' = acc.cm
              /\ groupContractMap' = acc.gcm
    /\ UNCHANGED store

\* executeAndNotifyContract(updateGroupContracts(L3ExternalNetwork, n))
NetContractsTask(n) ==
    LET acc == NetContracts([cm |-> contractMap, gcm |-> groupContractMap], n)
    IN /\ TQ!Take(CL(n))
       /\ contractMap' = acc.cm
       /\ groupContractMap' = acc.gcm
       /\ UNCHANGED <<store, l3n_map, nat_epg_l3_ext, rd_map>>

Next ==
    \/ \E rd \in RDs : RdUpdated(rd)
    \/ \E n \in Nets, v \in NetChoices : NetUpdated(n, v)
    \/ \E rd \in RDs : L3NetsTask(rd)
    \/ \E n \in Nets : NetContractsTask(n)

\* The single worker runs every queued task (see PolicyManager)
Fairness ==
    \A u \in RDs \cup Nets :
        /\ u \in RDs => WF_vars(L3NetsTask(u))
        /\ u \in Nets => WF_vars(NetContractsTask(u))

Spec == Init /\ [][Next]_vars /\ Fairness

-----------------------------------------------------------------------------
TypeOK ==
    /\ rdObj \in [RDs -> BOOLEAN]
    /\ netObj \in [Nets -> NetValue \cup {Absent}]
    /\ DOMAIN l3n_map \subseteq Nets
    /\ \A n \in DOMAIN l3n_map :
           l3n_map[n] \in [rd : RDs, nat : NatEpgs \cup {NoNat}]
    \* nat_epg_l3_ext has no empty slot (spec 8.4)
    /\ DOMAIN nat_epg_l3_ext \subseteq NatEpgs
    /\ \A e \in DOMAIN nat_epg_l3_ext :
           nat_epg_l3_ext[e] \in SUBSET Nets \ {{}}
    /\ DOMAIN rd_map \subseteq RDs
    /\ \A rd \in DOMAIN rd_map : rd_map[rd] \subseteq Nets
    /\ pending \subseteq TaskKeys

(***************************************************************************)
(* Routing-domain state (spec section 3): every network in the extNets of  *)
(* an rd_map entry has an l3n_map entry pointing back at that routing      *)
(* domain, and every l3n_map entry is in the extNets of its routing        *)
(* domain.  updateL3Nets edits the two maps in separate loops, and a       *)
(* network's entry is erased by the task of its routing domain only.       *)
(***************************************************************************)
RdNetsConsistent ==
    /\ \A rd \in DOMAIN rd_map :
           \A n \in rd_map[rd] : n \in DOMAIN l3n_map /\ l3n_map[n].rd = rd
    /\ \A n \in DOMAIN l3n_map :
           l3n_map[n].rd \in DOMAIN rd_map /\ n \in rd_map[l3n_map[n].rd]

(***************************************************************************)
(* Once every queued task has run, the tracker agrees with the store: an   *)
(* l3n_map entry for exactly the resolvable networks, with their routing   *)
(* domain and, when the NAT relation is absent or has a target, the NAT    *)
(* EpGroup it names; an rd_map entry for exactly the resolvable routing    *)
(* domains; and the contract index entry of each resolvable network       *)
(* holding its contract relations.                                         *)
(***************************************************************************)
\* getRDForL3ExtNet: the routing domain of the network's entry, if any
RDForL3ExtNet(m, n) == IF n \in DOMAIN m THEN {m[n].rd} ELSE {}

ResolvedNets == UNION {PresentNets(rd) : rd \in {r \in RDs : rdObj[r]}}

NatOfRef(ref) == IF ref = NoRef THEN NoNat ELSE ref

QuiescentL3Agrees ==
    TQ!Idle =>
        /\ DOMAIN l3n_map = ResolvedNets
        /\ \A n \in ResolvedNets :
               /\ RDForL3ExtNet(l3n_map, n) = {NetRd[n]}
               /\ RefOf[n] # NoTarget => l3n_map[n].nat = NatOfRef(RefOf[n])
        /\ DOMAIN rd_map = {rd \in RDs : rdObj[rd]}
        /\ DOMAIN groupContractMap = ResolvedNets
        /\ \A n \in ResolvedNets : groupContractMap[n] = RelOf(n)

(***************************************************************************)
(* NAT reverse index (spec 8.4): an l3n_map entry names a NAT EpGroup      *)
(* exactly when the network is in that EpGroup's nat_epg_l3_ext slot.      *)
(***************************************************************************)
NatIndexConsistent ==
    /\ \A n \in DOMAIN l3n_map :
           l3n_map[n].nat # NoNat =>
               /\ l3n_map[n].nat \in DOMAIN nat_epg_l3_ext
               /\ n \in nat_epg_l3_ext[l3n_map[n].nat]
    /\ \A e \in DOMAIN nat_epg_l3_ext :
           \A n \in nat_epg_l3_ext[e] : n \in DOMAIN l3n_map /\ l3n_map[n].nat = e
=============================================================================
