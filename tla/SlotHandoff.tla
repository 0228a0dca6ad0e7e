---------------------------- MODULE SlotHandoff ----------------------------
(***************************************************************************)
(* What one direction of an IpcShmChannel promises: a place for a single   *)
(* packet between the process that sends and the process that receives.    *)
(*                                                                         *)
(* A packet is put into the empty place and taken out once, in the order   *)
(* of the puts.  Taking the farewell packet closes the receiving side for  *)
(* good, and so does leaving.  The one excuse for losing a packet is a     *)
(* flap: the sending side's connection status was lowered and raised again *)
(* while the segment was in use, and a put may then replace a packet that  *)
(* nobody took.                                                            *)
(***************************************************************************)
EXTENDS Naturals, Sequences

CONSTANTS
  Packet,     \* the packets that can be put
  Farewell    \* those with which the sending side says goodbye

VARIABLES
  inFlight,   \* the packet put and not yet taken, as a sequence of length <= 1
  taken,      \* every packet taken so far, in order
  closed,     \* the receiving side takes no more packets
  flapped     \* the status of the sending side was raised again after a fall

vars == <<inFlight, taken, closed, flapped>>

Init ==
  /\ inFlight = <<>>
  /\ taken = <<>>
  /\ closed = FALSE
  /\ flapped = FALSE

Put(p) ==
  /\ inFlight = <<>> \/ flapped
  /\ inFlight' = <<p>>
  /\ UNCHANGED <<taken, closed, flapped>>

Take ==
  /\ inFlight # <<>>
  /\ ~closed
  /\ taken' = Append(taken, Head(inFlight))
  /\ inFlight' = <<>>
  /\ closed' = (Head(inFlight) \in Farewell)
  /\ UNCHANGED flapped

Close ==
  /\ ~closed
  /\ closed' = TRUE
  /\ UNCHANGED <<inFlight, taken, flapped>>

Flap ==
  /\ flapped' = TRUE
  /\ UNCHANGED <<inFlight, taken, closed>>

Next ==
  \/ \E p \in Packet : Put(p)
  \/ Take
  \/ Close
  \/ Flap

Spec == Init /\ [][Next]_vars
=============================================================================
