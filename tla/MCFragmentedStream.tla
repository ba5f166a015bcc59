------------------------- MODULE MCFragmentedStream -------------------------
(***************************************************************************)
(* Small instances of FragmentedStream for TLC.                            *)
(***************************************************************************)
EXTENDS FragmentedStream, TLC

CONSTANTS s1, s2, r1, r2

\* One receiver that collects both senders' messages.
MCBoth == r1 :> {s1, s2}

\* Two receivers of one sender; the second collects nothing.
MCOne == r1 :> {s1} @@ r2 :> {}

\* Pages of 6 with 2 and 3 for their own use: the longest payload that fits,
\* two chunks of 3 the last of which is not full and full, three chunks of 1,
\* and a header that leaves no room.
MCSizes == {<<4, 4>>, <<5, 0>>, <<6, 0>>, <<5, 2>>, <<6, 3>>}
=============================================================================
