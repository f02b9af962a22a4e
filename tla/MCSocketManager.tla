--------------------------- MODULE MCSocketManager ---------------------------
(* SocketManager with 2 bits for a port and 4 for a long.                  *)
EXTENDS SocketManager

\* Numbers that wrap, fit, are too large for a port, and for a long.
MCTexts == {-2, 2, 5, 9}
=============================================================================
