----------------------------- MODULE MCSwapMap -----------------------------
(* Small instances of SwapMap: three images of up to three units in a swap   *)
(* area of eight, so that runs of every size lie between them.  MapSize is   *)
(* only compared with.                                                       *)
EXTENDS SwapMap
=============================================================================
