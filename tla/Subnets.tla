------------------------------ MODULE Subnets -------------------------------
(***************************************************************************)
(* Subnet matching in PolicyManager.cpp: findSubnetForEp, which iterates   *)
(* a group's subnet_map and returns the first subnet containing an         *)
(* endpoint address.                                                       *)
(*                                                                         *)
(* An address is a family and a number of W4 (IPv4) or W6 (IPv6) bits: the *)
(* mask arithmetic of the code is the same for any width, and W4 = 32,     *)
(* W6 = 128 are scaled down.  A Subnet's address is a number, Unset, or    *)
(* Bad (a string address::from_string cannot parse).  The loop of          *)
(* findSubnetForEp is one step per iteration, over every order of the      *)
(* subnet_map (an unordered_map) and every endpoint address.              *)
(***************************************************************************)
EXTENDS Integers, Sequences, FiniteSets, Bitwise

CONSTANTS
    W4, W6,        \* address widths of the two families
    SubnetVals,    \* the Subnet objects a group's subnet_map may hold
    MaxSubnets,    \* bound on the size of a subnet_map
    Unset,         \* the address or prefix length property is not set
    Bad,           \* an address string that does not parse
    None           \* findSubnetForEp returns boost::none

Fams == {"v4", "v6"}
Width(f) == IF f = "v4" THEN W4 ELSE W6
Addrs(f) == 0 .. 2^Width(f) - 1

IPs == UNION {[fam : {f}, addr : Addrs(f)] : f \in Fams}

ASSUME W4 \in Nat \ {0} /\ W6 \in Nat \ {0}
ASSUME \A v \in SubnetVals :
         /\ v.fam \in Fams
         /\ v.addr \in Addrs(v.fam) \cup {Unset, Bad}
         /\ v.plen \in Nat \cup {Unset}

VARIABLES
    order,     \* the subnet_map's values in its iteration order
    ip,        \* the endpoint address looked up
    i,         \* the iterator, as a position in order
    result,    \* the subnet returned, or None
    pc         \* "loop" while iterating, "done" once it returned

vars == <<order, ip, i, result, pc>>

\* The orders a subnet_map of at most MaxSubnets entries can be visited in
Orders == UNION {[1 .. n -> SubnetVals] : n \in 0 .. MaxSubnets}

Init ==
    /\ order \in Orders
    /\ ip \in IPs
    /\ i = 1
    /\ result = None
    /\ pc = "loop"

-----------------------------------------------------------------------------
\* "if (prefixLen > 32) prefixLen = 32" (and 128 for IPv6)
Clamp(p, f) == IF p > Width(f) THEN Width(f) ELSE p

(***************************************************************************)
(* The IPv4 mask: ~((uint32_t)0) << (32 - prefixLen), and 0 for a prefix   *)
(* of 0, where the shift by the full width would be undefined.             *)
(***************************************************************************)
MaskV4NoZeroCase(p) == ((2^W4 - 1) * 2^((W4 - p) % W4)) % 2^W4

MaskV4(p) == IF p # 0 THEN ((2^W4 - 1) * 2^(W4 - p)) % 2^W4 ELSE 0

(***************************************************************************)
(* The IPv6 mask of network::compute_ipv6_subnet (not under src/): the top *)
(* prefixLen bits set.                                                     *)
(***************************************************************************)
MaskV6(p) == ((2^W6 - 1) * 2^(W6 - p)) % 2^W6

(***************************************************************************)
(* address::from_string(s, ec) with ec ignored: an address that does not   *)
(* parse is the default address, IPv4 0.0.0.0.                             *)
(***************************************************************************)
NetAddr(v) == IF v.addr = Bad THEN [fam |-> "v4", addr |-> 0]
              ELSE [fam |-> v.fam, addr |-> v.addr]

\* One iteration of the loop of findSubnetForEp, at the subnet v
FindStep ==
    LET v   == order[i]
        net == NetAddr(v)
        p   == Clamp(v.plen, net.fam)
        m   == IF net.fam = "v4" THEN MaskV4(p) ELSE MaskV6(p)
    IN /\ pc = "loop"
       /\ i <= Len(order)
       /\ IF v.addr = Unset \/ v.plen = Unset \/ net.fam # ip.fam
             \/ (net.addr & m) # (ip.addr & m)
          THEN /\ i' = i + 1
               /\ UNCHANGED <<result, pc>>
          ELSE /\ result' = v
               /\ pc' = "done"
               /\ UNCHANGED i
       /\ UNCHANGED <<order, ip>>

\* The loop ends without a match: boost::none
FindExhausted ==
    /\ pc = "loop"
    /\ i > Len(order)
    /\ pc' = "done"
    /\ UNCHANGED <<order, ip, i, result>>

Next == FindStep \/ FindExhausted

\* findSubnetForEp returns; nothing follows, so the run may stop
Spec == Init /\ [][Next]_vars

-----------------------------------------------------------------------------
(***************************************************************************)
(* Reference definitions.  A subnet contains an address of its family when *)
(* their first prefix-length bits agree (a prefix beyond the width is the *)
(* width).  The subnet spec 4.9 says findSubnetForEp returns is the first, *)
(* in iteration order, of the well-formed subnets containing the address.  *)
(***************************************************************************)
WellFormed(v) == v.addr \notin {Unset, Bad} /\ v.plen # Unset

Top(a, p, f) == a \div 2^(Width(f) - Clamp(p, f))

Contains(v, a) == v.fam = a.fam /\ Top(v.addr, v.plen, v.fam) = Top(a.addr, v.plen, a.fam)

RefFind(o, a) ==
    LET hits == {k \in DOMAIN o : WellFormed(o[k]) /\ Contains(o[k], a)}
    IN IF hits = {} THEN None
       ELSE o[CHOOSE k \in hits : \A j \in hits : k <= j]

TypeOK ==
    /\ order \in Orders
    /\ ip \in IPs
    /\ i \in 1 .. Len(order) + 1
    /\ result \in SubnetVals \cup {None}
    /\ pc \in {"loop", "done"}

(***************************************************************************)
(* findSubnetForEp returns the first subnet of the iteration that contains *)
(* the endpoint's address, and none when no subnet does: the v4 mask       *)
(* arithmetic, the prefix clamp, the /0 case and the family test agree     *)
(* with plain prefix comparison.                                           *)
(***************************************************************************)
FindSubnetFirstMatch == pc = "done" => result = RefFind(order, ip)

=============================================================================
