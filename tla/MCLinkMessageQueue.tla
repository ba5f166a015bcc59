------------------------ MODULE MCLinkMessageQueue ------------------------
(***************************************************************************)
(* Small instances of LinkMessageQueue for TLC.                            *)
(***************************************************************************)
EXTENDS LinkMessageQueue, TLC

\* The queue's own consumers are interchangeable, and so are the strangers.
Symmetry == Permutations(Consumers \ Strangers) \union Permutations(Strangers)
===========================================================================
