------------------------------- MODULE MCDmCalls -------------------------------
(* Small instances of DmCalls: a 1-1 conversation or a group of three.        *)
EXTENDS DmCalls, TLC

MCSymmetry == Permutations(Users) \cup Permutations(Handlers) \cup Permutations(Instances)
================================================================================
