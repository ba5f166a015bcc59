--------------------------- MODULE MCReceiveLoop ---------------------------
(***************************************************************************)
(* Small instances of ReceiveLoop for TLC.                                 *)
(***************************************************************************)
EXTENDS ReceiveLoop
============================================================================
