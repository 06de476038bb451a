-------------------------------- MODULE MCMw --------------------------------
(* Three requests on two drives for TLC: r1 of two sectors and r2 on drive  *)
(* d1, r3 on d2, on three cylinders; r4 is past the end of its drive.       *)
EXTENDS Mw, TLC

CONSTANTS r1, r2, r3, r4, d1, d2

MCDriveOf == (r1 :> d1 @@ r2 :> d1 @@ r3 :> d2 @@ r4 :> d2)
MCCylOf   == (r1 :> 0 @@ r2 :> 2 @@ r3 :> 1 @@ r4 :> 3)
MCCount   == (r1 :> 2 @@ r2 :> 1 @@ r3 :> 1 @@ r4 :> 1)
=============================================================================
