------------------------------- MODULE MCBuf -------------------------------
(* Small instances of Buf for TLC: the superblock and block X are on the    *)
(* root device, Y on a device that is opened and closed.                    *)
EXTENDS Buf, TLC

CONSTANTS SB, X, Y, Root, Floppy

MCBlock  == {SB, X, Y}
MCDevOf  == [k \in MCBlock |-> IF k = Y THEN Floppy ELSE Root]
Symmetry == Permutations(Proc)
=============================================================================
