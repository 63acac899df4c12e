--------------------------- MODULE DomainResolver --------------------------
(***************************************************************************)
(* The domain resolver of PolicyManager (updateDomain, updateEPGDomains in *)
(* src/agent-ovs/lib/PolicyManager.cpp) as pure operators on               *)
(*                                                                         *)
(*   group_map  EPG URI -> GroupState                                      *)
(*   vnid_map   encap id -> EPG URI                                        *)
(*                                                                         *)
(* GroupState is abstracted to the encap id of its instance context        *)
(* (NoVnid when there is no context or it has no encap id).  The store is  *)
(* given by present, the EPGs that resolve, and vnidOf, the encap id of    *)
(* each one's instance context.                                            *)
(***************************************************************************)
EXTENDS SequencesExt, TLC

CONSTANTS
    Groups,        \* EPG URIs
    Vnids,         \* encap ids (compared only for equality)
    NoVnid         \* no instance context, or no encap id on it

ASSUME NoVnid \notin Vnids

\* A default-constructed GroupState, as group_map[uri] creates it
NoGroupState == [vnid |-> NoVnid]

EraseVnid(vm, v) == Restrict(vm, DOMAIN vm \ {v})

\* Mutant: the new context is inserted without checking it has an encap id
UpdateEPGDomainsNoEncapCheck(vm, g, oldVnid, resolved, newVnid) ==
    IF ~resolved THEN vm
    ELSE LET vm1 == IF oldVnid # NoVnid THEN EraseVnid(vm, oldVnid) ELSE vm
         IN  IF newVnid \notin DOMAIN vm1 THEN (newVnid :> g) @@ vm1 ELSE vm1

(***************************************************************************)
(* The vnid index maintenance of updateEPGDomains(g): nothing when the     *)
(* EpGroup does not resolve (the function returns toRemove before it gets  *)
(* there); otherwise erase the entry of the old encap id, whatever group   *)
(* it maps to, then insert the new one, which std::map::insert does only   *)
(* when the key is absent.                                                 *)
(***************************************************************************)
UpdateEPGDomains(vm, g, oldVnid, resolved, newVnid) ==
    IF ~resolved THEN vm
    ELSE LET vm1 == IF oldVnid # NoVnid THEN EraseVnid(vm, oldVnid) ELSE vm
         IN  IF newVnid # NoVnid /\ newVnid \notin DOMAIN vm1
             THEN (newVnid :> g) @@ vm1
             ELSE vm1

(***************************************************************************)
(* updateDomain(class_id, uri): for an EpGroup the URI is first added to   *)
(* group_map; then every group of group_map is re-resolved in the map's    *)
(* iteration order (unordered_map: any order), each removed from the map   *)
(* when its EpGroup no longer resolves.  The set of possible outcomes, one *)
(* per iteration order.                                                    *)
(***************************************************************************)
UpdateDomain(gm, vm, isEpg, uri, present, vnidOf) ==
    LET gm0 == IF isEpg /\ uri \notin DOMAIN gm
               THEN (uri :> NoGroupState) @@ gm ELSE gm
        Step(acc, g) ==
            UpdateEPGDomains(acc, g, gm0[g].vnid, g \in present,
                             IF g \in present THEN vnidOf[g] ELSE NoVnid)
    IN { [group_map |-> [g \in DOMAIN gm0 \cap present |->
                            [vnid |-> vnidOf[g]]],
          vnid_map  |-> FoldLeft(Step, vm, order),
          notify    |-> DOMAIN gm0] : order \in SetToSeqs(DOMAIN gm0) }
=============================================================================
