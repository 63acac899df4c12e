-------------------------- MODULE MCRedirectGroups --------------------------
EXTENDS RedirectGroups

CONSTANTS rg1, rg2, c1, c2, l1, l2

\* The behaviours in which no RedirectDestGroup is ever deleted
NextNoGroupRemoval ==
    \/ \E g \in Groups, v \in DestLists : GroupUpdated(g, v)
    \/ \E c \in Contracts, r \in SUBSET Groups \cup {Absent} : ContractUpdated(c, r)
    \/ WorkerNext

SpecNoGroupRemoval == Init /\ [][NextNoGroupRemoval]_vars /\ Fairness

Symmetry == Permutations(Contracts)

\* Groups, contracts and the non-empty lists are each interchangeable
FullSymmetry ==
    { p @@ q @@ r : p \in Permutations(Contracts), q \in Permutations(Groups),
                    r \in Permutations(DestLists \ {NoDests}) }
=============================================================================
