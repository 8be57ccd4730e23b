---------------------------- MODULE MCCatalogue ----------------------------
(* One table of any kind, with three rows and three names. *)
EXTENDS Catalogue, TLC

CONSTANTS a, b, c, i1, i2, i3, h1, h2

\* The slug of b is that of a; or, for points: a customer, a customer with a
\* shoemaker, a shoemaker.
MCFolded == a :> a @@ b :> a @@ c :> c

Symmetry == Permutations(Ids) \union Permutations(Handlers)

=============================================================================
