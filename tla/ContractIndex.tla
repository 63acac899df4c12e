--------------------------- MODULE ContractIndex ---------------------------
(***************************************************************************)
(* The contract indexer and contract-rule recompute of PolicyManager       *)
(* (src/agent-ovs/lib/PolicyManager.cpp), as pure operators on the two     *)
(* index maps so that every handler that calls them can compose them:     *)
(*                                                                         *)
(*   contractMap       contract URI -> ContractState                       *)
(*                     (providerGroups, consumerGroups, intraGroups,       *)
(*                      compiled rules)                                    *)
(*   groupContractMap  group URI -> GroupContractState                     *)
(*                     (contractsProvided, contractsConsumed,              *)
(*                      contractsIntra)                                    *)
(*                                                                         *)
(* A std::unordered_map is a function whose DOMAIN is its key set.  The    *)
(* three roles are indexed by Role: "prov" stands for providerGroups /     *)
(* contractsProvided, "cons" for consumer..., "intra" for intra....        *)
(* A compiled rule list is abstracted to a model value of RuleLists;       *)
(* NoRules is the empty list.                                              *)
(***************************************************************************)
EXTENDS FiniteSets, Functions, TLC

CONSTANTS
    Contracts,     \* contract URIs
    GroupUris,     \* URIs of groups that reference contracts (EPGs, L3 nets)
    RuleLists,     \* compiled rule lists a contract object can produce
    NoRules        \* the empty rule list

ASSUME NoRules \in RuleLists

Role == {"prov", "cons", "intra"}

NoGroups == [r \in Role |-> {}]

\* A default-constructed ContractState, as contractMap[u] creates it
EmptyContractState == [groups |-> NoGroups, rules |-> NoRules]

\* A default-constructed GroupContractState
NoContracts == [r \in Role |-> {}]

\* map[key] on a std::unordered_map: the entry, or a default one
EntryOf(cm, c) == IF c \in DOMAIN cm THEN cm[c] ELSE EmptyContractState

Unreferenced(cs) == \A r \in Role : cs.groups[r] = {}

EraseKeys(f, ks) == Restrict(f, DOMAIN f \ ks)

\* Mutant: removeContractIfRequired never erases (the GC call is dropped)
RemoveContractIfRequiredNever(cm, cs, present) == cm

(***************************************************************************)
(* removeContractIfRequired, applied to each contract in cs: the entry is  *)
(* erased when the contract object does not resolve (present is the set    *)
(* of resolvable contracts) and no group references it in any role.       *)
(***************************************************************************)
RemoveContractIfRequired(cm, cs, present) ==
    EraseKeys(cm, {c \in cs \cap DOMAIN cm :
                       c \notin present /\ Unreferenced(cm[c])})

\* Mutant: groupContractMap.erase(groupURI) is dropped for a group that no
\* longer resolves
UpdateGroupContractsKeepEntry(cm, gcm, g, resolved, rel, present) ==
    LET old     == IF g \in DOMAIN gcm THEN gcm[g] ELSE NoContracts
        new     == IF resolved THEN rel ELSE NoContracts
        added   == [r \in Role |-> new[r] \ old[r]]
        removed == [r \in Role |-> old[r] \ new[r]]
        touched == UNION {added[r] \cup removed[r] : r \in Role}
        cm1 == [c \in DOMAIN cm \cup touched |->
                   IF c \in touched
                   THEN [EntryOf(cm, c) EXCEPT !.groups =
                           [r \in Role |->
                              IF c \in added[r] THEN @[r] \cup {g}
                              ELSE IF c \in removed[r] THEN @[r] \ {g}
                              ELSE @[r]]]
                   ELSE cm[c]]
    IN [contractMap      |->
            RemoveContractIfRequired(cm1,
                UNION {removed[r] : r \in Role}, present),
        groupContractMap |-> IF resolved THEN (g :> new) @@ gcm ELSE gcm,
        notify           |-> touched]

(***************************************************************************)
(* updateGroupContracts(groupType, g, updatedContracts).  resolved says    *)
(* whether the EpGroup / L3ExternalNetwork object resolves and rel gives   *)
(* the contract targets of its three relations (an L3 network has no       *)
(* intra relation: rel["intra"] = {}).  Returns the new maps and the set   *)
(* of contracts added to updatedContracts.                                 *)
(*                                                                         *)
(* All additions are applied before the removals, and the GC check runs    *)
(* after each removal; the sets of a contract only shrink during the       *)
(* removals, so checking every removed contract at the end is the same.    *)
(***************************************************************************)
UpdateGroupContracts(cm, gcm, g, resolved, rel, present) ==
    LET old     == IF g \in DOMAIN gcm THEN gcm[g] ELSE NoContracts
        new     == IF resolved THEN rel ELSE NoContracts
        added   == [r \in Role |-> new[r] \ old[r]]
        removed == [r \in Role |-> old[r] \ new[r]]
        touched == UNION {added[r] \cup removed[r] : r \in Role}
        cm1 == [c \in DOMAIN cm \cup touched |->
                   IF c \in touched
                   THEN [EntryOf(cm, c) EXCEPT !.groups =
                           [r \in Role |->
                              IF c \in added[r] THEN @[r] \cup {g}
                              ELSE IF c \in removed[r] THEN @[r] \ {g}
                              ELSE @[r]]]
                   ELSE cm[c]]
    IN [contractMap      |->
            RemoveContractIfRequired(cm1,
                UNION {removed[r] : r \in Role}, present),
        groupContractMap |->
            IF resolved THEN (g :> new) @@ gcm ELSE EraseKeys(gcm, {g}),
        notify           |-> touched]

(***************************************************************************)
(* The change test at the end of updatePolicyRules: old and new lists are  *)
(* walked together while the shared_ptrs are identical.  Every PolicyRule  *)
(* of the new list is a fresh make_shared, so no pointer ever matches and  *)
(* the lists count as different unless both are empty.                     *)
(***************************************************************************)
RulesUpdatedOldOnly(old, new) == old # NoRules   \* Mutant: only the old end is tested

RulesUpdated(old, new) == old # NoRules \/ new # NoRules

(***************************************************************************)
(* updateContractRules(c): compile the contract's rules (updatePolicyRules)*)
(* into the entry.  A contract that does not resolve is notFound and its   *)
(* rules are left alone; otherwise the new list is swapped in when         *)
(* RulesUpdated.  rulesOf gives the list a resolvable contract compiles to.*)
(***************************************************************************)
UpdateContractRules(cs, c, present, rulesOf) ==
    LET notFound == c \notin present
        updated  == ~notFound /\ RulesUpdated(cs.rules, rulesOf[c])
    IN [state    |-> IF updated THEN [cs EXCEPT !.rules = rulesOf[c]] ELSE cs,
        updated  |-> updated,
        notFound |-> notFound]

\* Mutant: a contract that is notFound is not added to contractsToNotify
UpdateContractsNoNotFoundNotify(cm, present, rulesOf) ==
    LET res(c)   == UpdateContractRules(cm[c], c, present, rulesOf)
        erased   == {c \in DOMAIN cm : res(c).notFound /\ Unreferenced(cm[c])}
    IN [contractMap |->
            [c \in DOMAIN cm \ erased |->
                IF res(c).notFound THEN [cm[c] EXCEPT !.rules = NoRules]
                ELSE res(c).state],
        notify      |-> {c \in DOMAIN cm : res(c).updated}]

(***************************************************************************)
(* updateContracts: recompute the rules of every contract in contractMap.  *)
(* A contract that is notFound is notified; its entry is erased when no    *)
(* group references it, else only its rules are cleared.                   *)
(***************************************************************************)
UpdateContracts(cm, present, rulesOf) ==
    LET res(c)   == UpdateContractRules(cm[c], c, present, rulesOf)
        erased   == {c \in DOMAIN cm : res(c).notFound /\ Unreferenced(cm[c])}
    IN [contractMap |->
            [c \in DOMAIN cm \ erased |->
                IF res(c).notFound THEN [cm[c] EXCEPT !.rules = NoRules]
                ELSE res(c).state],
        notify      |-> {c \in DOMAIN cm : res(c).updated \/ res(c).notFound}]
=============================================================================
