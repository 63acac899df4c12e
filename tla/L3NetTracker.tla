--------------------------- MODULE L3NetTracker ----------------------------
(***************************************************************************)
(* The external-network tracker of PolicyManager (updateL3Nets in          *)
(* src/agent-ovs/lib/PolicyManager.cpp) as pure operators on               *)
(*                                                                         *)
(*   l3n_map         L3ExternalNetwork URI -> L3NetworkState               *)
(*                   (routing domain, optional NAT EpGroup)                *)
(*   nat_epg_l3_ext  NAT EpGroup URI -> set of L3ExternalNetwork URIs      *)
(*   rd_map          RoutingDomain URI -> RoutingDomainState (extNets)     *)
(*                                                                         *)
(* The routing domain of an l3n_map entry is abstracted to its URI; it is  *)
(* always set on an entry the code reads.                                  *)
(***************************************************************************)
EXTENDS SequencesExt, TLC

CONSTANTS
    Nets,          \* L3ExternalNetwork URIs
    NatEpgs,       \* EpGroup URIs a NAT relation may target
    NoNat,         \* natEpg is boost::none
    NoRef,         \* the network has no L3ExternalNetworkToNatEPGroupRSrc
    NoTarget       \* it has one, without a target URI

ASSUME {NoNat, NoRef, NoTarget} \cap NatEpgs = {}

\* Mutant: the slot is left in place when it becomes empty
NatRemoveNoErase(nat, e, n) ==
    IF e \notin DOMAIN nat THEN nat ELSE [nat EXCEPT ![e] = @ \ {n}]

\* nat_epg_l3_ext[e].erase(n), the slot erased when it becomes empty
NatRemove(nat, e, n) ==
    IF e \notin DOMAIN nat THEN nat
    ELSE IF nat[e] = {n} THEN Restrict(nat, DOMAIN nat \ {e})
    ELSE [nat EXCEPT ![e] = @ \ {n}]

\* nat_epg_l3_ext[e].insert(n), the slot created on demand
NatInsert(nat, e, n) ==
    IF e \in DOMAIN nat THEN [nat EXCEPT ![e] = @ \cup {n}]
    ELSE (e :> {n}) @@ nat

OldNat(st, n) == IF n \in DOMAIN st.l3n THEN st.l3n[n].nat ELSE NoNat

\* Mutant: a network that loses its NAT relation keeps its old NAT EpGroup
NetStepKeepNat(st, n, rd, ref) ==
    LET nat1   == IF OldNat(st, n) # NoNat
                  THEN NatRemove(st.nat, OldNat(st, n), n) ELSE st.nat
        newNat == IF ref \in NatEpgs THEN ref ELSE OldNat(st, n)
    IN [l3n |-> (n :> [rd |-> rd, nat |-> newNat]) @@ st.l3n,
        nat |-> IF ref \in NatEpgs THEN NatInsert(nat1, ref, n) ELSE nat1]

(***************************************************************************)
(* The body of the loop over the networks of a resolvable routing domain:  *)
(* the network is taken out of the slot of its old NAT EpGroup, its entry  *)
(* is pointed at rd, and its NAT EpGroup is set from the relation: none    *)
(* without a relation, the target (inserted in its slot) when there is     *)
(* one, and left as it was when the relation has no target.                *)
(***************************************************************************)
NetStep(st, n, rd, ref) ==
    LET nat1   == IF OldNat(st, n) # NoNat
                  THEN NatRemove(st.nat, OldNat(st, n), n) ELSE st.nat
        newNat == CASE ref = NoRef    -> NoNat
                    [] ref = NoTarget -> OldNat(st, n)
                    [] OTHER          -> ref
    IN [l3n |-> (n :> [rd |-> rd, nat |-> newNat]) @@ st.l3n,
        nat |-> IF ref \in NatEpgs THEN NatInsert(nat1, ref, n) ELSE nat1]

\* A network the routing domain no longer has: slot cleaned, entry erased
DropStep(st, n) ==
    [l3n |-> Restrict(st.l3n, DOMAIN st.l3n \ {n}),
     nat |-> IF OldNat(st, n) # NoNat
             THEN NatRemove(st.nat, OldNat(st, n), n) ELSE st.nat]

\* The routing domain is gone: the entry is erased, the slot is not touched
PurgeStep(st, n) ==
    [l3n |-> Restrict(st.l3n, DOMAIN st.l3n \ {n}), nat |-> st.nat]

\* Mutant: rds.extNets keeps the vanished networks (the assignment unions)
UpdateL3NetsKeepVanished(l3n, nat, rdm, rd, rdPresent, present, refOf) ==
    LET old == IF rd \in DOMAIN rdm THEN rdm[rd] ELSE {}
        st0 == [l3n |-> l3n, nat |-> nat]
    IN IF rdPresent
       THEN { LET st1 == FoldLeft(LAMBDA st, n : NetStep(st, n, rd, refOf[n]),
                                  st0, o1)
                  st2 == FoldLeft(DropStep, st1, o2)
              IN [l3n |-> st2.l3n, nat |-> st2.nat,
                  rd_map |-> (rd :> present \cup old) @@ rdm,
                  calls |-> o1 \o o2]
            : o1 \in SetToSeqs(present), o2 \in SetToSeqs(old \ present) }
       ELSE { [l3n |-> FoldLeft(PurgeStep, st0, o).l3n, nat |-> nat,
               rd_map |-> Restrict(rdm, DOMAIN rdm \ {rd}), calls |-> o]
            : o \in SetToSeqs(old) }

(***************************************************************************)
(* updateL3Nets(rd): rdPresent says whether the RoutingDomain resolves,    *)
(* present is the set of its networks (through its L3ExternalDomains) and  *)
(* refOf the NAT relation of each.  The networks are visited in the order  *)
(* of the store's child lists and the vanished ones in the order of an     *)
(* unordered_set, so the result is one outcome per pair of orders; calls   *)
(* is the sequence of networks updateGroupContracts is then run for.       *)
(***************************************************************************)
UpdateL3Nets(l3n, nat, rdm, rd, rdPresent, present, refOf) ==
    LET old == IF rd \in DOMAIN rdm THEN rdm[rd] ELSE {}
        st0 == [l3n |-> l3n, nat |-> nat]
    IN IF rdPresent
       THEN { LET st1 == FoldLeft(LAMBDA st, n : NetStep(st, n, rd, refOf[n]),
                                  st0, o1)
                  st2 == FoldLeft(DropStep, st1, o2)
              IN [l3n |-> st2.l3n, nat |-> st2.nat,
                  rd_map |-> (rd :> present) @@ rdm, calls |-> o1 \o o2]
            : o1 \in SetToSeqs(present), o2 \in SetToSeqs(old \ present) }
       ELSE { [l3n |-> FoldLeft(PurgeStep, st0, o).l3n, nat |-> nat,
               rd_map |-> Restrict(rdm, DOMAIN rdm \ {rd}), calls |-> o]
            : o \in SetToSeqs(old) }
=============================================================================
