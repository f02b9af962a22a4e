------------------------------ MODULE MCConsole ------------------------------
(* Console with SSIDs of up to 2 characters.                               *)
EXTENDS Console

CONSTANTS a, b, c

\* Short names, one that fills its field, and one that is too long.
MCNames == {<<a>>, <<b>>, <<c>>, <<a, b>>, <<a, b, c>>}
MCIndexes == -1 .. 3
=============================================================================
