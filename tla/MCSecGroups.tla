---------------------------- MODULE MCSecGroups -----------------------------
EXTENDS SecGroups

CONSTANTS s1, s2, s3, r1, r2

\* Security groups are interchangeable model values
Symmetry == Permutations(SecGroups)

=============================================================================
