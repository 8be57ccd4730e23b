---------------------------- MODULE MCDeployment ----------------------------
EXTENDS Deployment, TLC

CONSTANTS w1, w2

Pair == {w1, w2}
Symmetry == Permutations(Pair)
AnyVersion == 0..Len(AllMigrations)

=============================================================================
