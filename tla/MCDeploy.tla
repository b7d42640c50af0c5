------------------------------- MODULE MCDeploy -------------------------------
EXTENDS Deploy, TLC

Symmetry == Permutations(Deployments)
==============================================================================
