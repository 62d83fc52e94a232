---------------------------- MODULE MCKeyedQueue ----------------------------
(***************************************************************************)
(* Small instances of KeyedQueue.                                          *)
(***************************************************************************)
EXTENDS KeyedQueue, TLC

\* The workers are interchangeable.
Symmetric == Permutations(Workers)
=============================================================================
