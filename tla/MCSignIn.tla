------------------------------ MODULE MCSignIn ------------------------------
(* SignIn on a small instance: interchangeable people, states, ids.           *)
EXTENDS SignIn, TLC

Symmetry == Permutations(Subjects) \cup Permutations(Logins) \cup Permutations(Ids)
==============================================================================
