----------------------------- MODULE MCGameRoom -----------------------------
(* Instances of GameRoom for TLC: users and items are interchangeable.       *)
EXTENDS GameRoom, TLC

Symmetry == Permutations(Users) \cup Permutations(Items)
=============================================================================
