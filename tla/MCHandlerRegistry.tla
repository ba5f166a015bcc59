------------------------- MODULE MCHandlerRegistry -------------------------
(***************************************************************************)
(* Small instances of HandlerRegistry for TLC.                             *)
(***************************************************************************)
EXTENDS HandlerRegistry, TLC

\* Application threads are interchangeable, and so are handlers.
Symmetry == Permutations(Apps) \union Permutations(Handlers)
============================================================================
