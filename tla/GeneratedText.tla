--------------------------- MODULE GeneratedText ---------------------------
(***************************************************************************)
(* The text a generation has produced so far.  The streaming callback of   *)
(* the server and the terminal stream both read it as it grows.            *)
(***************************************************************************)
EXTENDS Markup

VARIABLE text

End == Len(text) + 1
=============================================================================
