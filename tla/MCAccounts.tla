----------------------------- MODULE MCAccounts -----------------------------
EXTENDS Accounts, TLC

Symmetry == Permutations(Accounts) \union Permutations(Tokens) \union Permutations(Handlers)

=============================================================================
