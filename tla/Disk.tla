-------------------------------- MODULE Disk --------------------------------
(***************************************************************************)
(* What a block device owes the buffer cache (sys/uio.c, strat and iodone):*)
(* a request handed to the strategy routine is answered once, in an order  *)
(* of the driver's own, and is answered without BERROR only after all of   *)
(* its sectors have been transferred.  The disk of Buf is such a device.   *)
(***************************************************************************)
CONSTANT Req

VARIABLES
  ioq,      \* the requests at the device
  moved,    \* those of them whose sectors have all been transferred
  answer    \* the last iodone: the request, and whether BERROR was set

vars == <<ioq, moved, answer>>

Init ==
  /\ ioq = {}
  /\ moved = {}
  /\ answer = <<>>

Strat(r) ==
  /\ r \notin ioq
  /\ ioq' = ioq \cup {r}
  /\ UNCHANGED <<moved, answer>>

\* A request the device cannot take is answered at once.
Refuse(r) ==
  /\ r \notin ioq
  /\ answer' = <<r, "error">>
  /\ UNCHANGED <<ioq, moved>>

Transfer(r) ==
  /\ r \in ioq
  /\ moved' = moved \cup {r}
  /\ UNCHANGED <<ioq, answer>>

Iodone(r, a) ==
  /\ r \in ioq
  /\ a = "ok" => r \in moved
  /\ ioq' = ioq \ {r}
  /\ moved' = moved \ {r}
  /\ answer' = <<r, a>>

Next ==
  \E r \in Req : Strat(r) \/ Refuse(r) \/ Transfer(r) \/ Iodone(r, "ok") \/ Iodone(r, "error")

Spec == Init /\ [][Next]_vars
=============================================================================
