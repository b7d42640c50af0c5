------------------------------ MODULE MCApiKeys ------------------------------
(* ApiKeys on a small instance: interchangeable requests, keys and users.  *)
EXTENDS ApiKeys, TLC

Symmetry == Permutations(Requests) \cup Permutations(Keys) \cup Permutations(Users)
==============================================================================
