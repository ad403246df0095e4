---------------------------- MODULE MCConvHistory ----------------------------
(***************************************************************************)
(* Small instances of ConvHistory with the real kernel width of four.      *)
(***************************************************************************)
EXTENDS ConvHistory

\* From less than the kernel to more than two tiles of eight.
ThreeTiles == 1 .. 19

=============================================================================
