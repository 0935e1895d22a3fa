-------------------------- MODULE MCBiasedLocking --------------------------
(***************************************************************************)
(* Two threads and two objects, and three threads and one object.          *)
(***************************************************************************)
EXTENDS BiasedLocking, TLC

CONSTANTS t1, t2, t3, o1, o2

MCPrograms ==
  {[threads |-> T, objects |-> Objects] : T \in kSubset(2, Threads)}
  \cup {[threads |-> Threads, objects |-> {o}] : o \in Objects}

Symmetry == Permutations(Threads) \cup Permutations(Objects)
=============================================================================
