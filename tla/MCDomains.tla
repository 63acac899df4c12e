----------------------------- MODULE MCDomains ------------------------------
(***************************************************************************)
(* Model-checking instances of Domains: one domain of each class, and the  *)
(* values the controller may commit for each.                              *)
(***************************************************************************)
EXTENDS Domains

CONSTANTS fd1, bd1, rd1, v1, v2, v3

MCDomClass == (fd1 :> "FD") @@ (bd1 :> "BD") @@ (rd1 :> "RD")

\* An EpGroup with or without an encap-carrying context, on any domain
MCEpgChoices == [ctx : {NoCtx, v1}, net : Doms \cup {NoRef}]

(***************************************************************************)
(* The chain shape of the policy model: a FloodDomain on a BridgeDomain, a *)
(* BridgeDomain on a RoutingDomain, each reference possibly unset.         *)
(***************************************************************************)
SchemaDomChoices ==
    (fd1 :> [ctx : {NoCtx, NoEncap}, net : {bd1, NoRef}]) @@
    (bd1 :> [ctx : {NoCtx, v2}, net : {rd1, NoRef}]) @@
    (rd1 :> [ctx : {v3}, net : {NoRef}])

\* A BridgeDomain may also name a FloodDomain as its network
CyclicDomChoices ==
    [SchemaDomChoices EXCEPT ![bd1] = [ctx : {NoCtx, v2}, net : {rd1, fd1}]]

=============================================================================
