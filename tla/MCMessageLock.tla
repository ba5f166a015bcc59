-------------------------- MODULE MCMessageLock --------------------------
(***************************************************************************)
(* Small instances of MessageLock for TLC.                                 *)
(***************************************************************************)
EXTENDS MessageLock, TLC

\* Users are interchangeable, and so are walkers.
Symmetry == Permutations(Users) \union Permutations(Walkers)
==========================================================================
