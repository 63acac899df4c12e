-------------------------- MODULE MCPolicyManager --------------------------
(***************************************************************************)
(* Model-checking instances of PolicyManager: which EpGroup values the     *)
(* controller may commit in each run.                                      *)
(***************************************************************************)
EXTENDS PolicyManager

\* Contract index run: no encap ids; a group references no contract or one
\* contract in one role, or is deleted.
ContractEpgChoices ==
    {[vnid |-> NoVnid, rel |-> CI!NoContracts]}
    \cup {[vnid |-> NoVnid, rel |-> [CI!NoContracts EXCEPT ![r] = {c}]] :
              r \in Role, c \in Contracts}
    \cup {Absent}

\* vnid runs: no contract relations; any encap id, and deletion.
VnidEpgChoices ==
    {[vnid |-> v, rel |-> CI!NoContracts] : v \in Vnids \cup {NoVnid}}
    \cup {Absent}

\* vnid run without deletion: groups are created and change encap id only.
VnidNoDeleteChoices ==
    {[vnid |-> v, rel |-> CI!NoContracts] : v \in Vnids \cup {NoVnid}}

\* The controller never gives two resolvable EpGroups the same encap id at
\* the same time (a state constraint on the store, not on the agent).
DistinctStoreVnids ==
    \A g, h \in PresentGroups :
        g # h /\ epgObj[g].vnid # NoVnid => epgObj[g].vnid # epgObj[h].vnid

\* The behaviours whose every store state has distinct encap ids
SpecDistinctVnids == Init /\ [][Next /\ DistinctStoreVnids']_vars

\* Groups and contracts are interchangeable model values (safety runs only)
Symmetry == Permutations(Groups) \cup Permutations(Contracts)

=============================================================================
