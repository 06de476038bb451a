------------------------------ MODULE MCInode ------------------------------
(* Two or three processes, a root file system with one file F and a device  *)
(* mounted on a directory, and one free inode.                              *)
EXTENDS Inode

CONSTANTS a, b, c, F, N

MCPath == [p \in Proc |-> IF p = a THEN {<<Mnt, F>>, <<New>>} ELSE {<<New>>}]
MCOps  == [p \in Proc |->
            CASE p = a -> {"creat", "read", "close"}
              [] p = b -> {"creat", "fstat"}
              [] OTHER -> {"sync"}]

\* Two processes look for the same file while a slot is modified.
TwicePath == [p \in Proc |-> {<<F>>, <<Mnt, F>>}]
TwiceOps  == [p \in Proc |-> {"open", "read", "close"}]

\* A file that one process makes and another opens is unlinked by the third.
UnlinkPath == [p \in Proc |-> {<<New>>}]
UnlinkOps  == [p \in Proc |->
                CASE p = a -> {"open", "close"}
                  [] p = b -> {"creat", "close"}
                  [] OTHER -> {"unlink"}]
=============================================================================
