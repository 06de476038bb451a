------------------------------ MODULE MCSwap ------------------------------
(* Small instances of Swap.  With three processes one can fork to disk while *)
(* the swapper moves another, so that the two meet at the swap lock; with    *)
(* two, swap errors, the residency time and images of up to three segments,  *)
(* not only two, are affordable.                                             *)
EXTENDS Swap
===========================================================================
