------------------------------ MODULE MCSubnets -----------------------------
EXTENDS Subnets

(***************************************************************************)
(* Subnets of either family with every address and every prefix length up *)
(* to one past the width, and one Subnet each with its address or prefix  *)
(* length unset.                                                           *)
(***************************************************************************)
WellFormedVals ==
    UNION {[fam : {f}, addr : Addrs(f), plen : 0 .. Width(f) + 1] : f \in Fams}

UnsetVals == {[fam |-> "v4", addr |-> Unset, plen |-> 1],
              [fam |-> "v4", addr |-> 0, plen |-> Unset]}

ParsedVals == WellFormedVals \cup UnsetVals

\* A Subnet whose address string does not parse, with each prefix length
BadVals == {[fam |-> "v4", addr |-> Bad, plen |-> p] : p \in 0 .. W4 + 1}
=============================================================================
