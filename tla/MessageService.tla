--------------------------- MODULE MessageService ---------------------------
(***************************************************************************)
(* What one direction of an IpcShmChannel promises to its users, the       *)
(* caller of PostMsg and the receive callback.                             *)
(*                                                                         *)
(* A message is posted, accepted once its last part is queued, and         *)
(* delivered at most once.  It can be damaged on the way, when a part of   *)
(* it is queued again or lost: then it may never arrive, arrive late, or   *)
(* arrive without its data, but never with data that has a hole.  A        *)
(* message that is not damaged arrives as it was posted, and after every   *)
(* such message that was accepted before it.                               *)
(***************************************************************************)
EXTENDS Naturals, Sequences

CONSTANTS
  Contents,   \* what a message can be
  Null        \* a message without data

VARIABLES
  posted,     \* the contents of the messages posted, by message number
  accepted,   \* the numbers of the messages accepted, in order
  damaged,    \* the numbers of the messages with a part queued again or lost
  delivered   \* what the callback was given: numbers and data, in order

vars == <<posted, accepted, damaged, delivered>>

Messages == 1..Len(posted)
Accepted(m) == \E i \in 1..Len(accepted) : accepted[i] = m
Delivered(m) == \E i \in 1..Len(delivered) : delivered[i].msg = m

Init ==
  /\ posted = <<>>
  /\ accepted = <<>>
  /\ damaged = {}
  /\ delivered = <<>>

Post(c) ==
  /\ posted' = Append(posted, c)
  /\ UNCHANGED <<accepted, damaged, delivered>>

Accept(m) ==
  /\ ~Accepted(m)
  /\ accepted' = Append(accepted, m)
  /\ UNCHANGED <<posted, damaged, delivered>>

Damage(hit) ==
  /\ damaged' = damaged \union hit
  /\ UNCHANGED <<posted, accepted, delivered>>

(* Every message accepted before m has been delivered or damaged.          *)
InTurn(m) ==
  \A i, j \in 1..Len(accepted) :
    i < j /\ accepted[j] = m => accepted[i] \in damaged \/ Delivered(accepted[i])

Deliver(m, data) ==
  /\ Accepted(m) /\ ~Delivered(m)
  /\ m \notin damaged => data = posted[m] /\ InTurn(m)
  /\ delivered' = Append(delivered, [msg |-> m, data |-> data])
  /\ UNCHANGED <<posted, accepted, damaged>>

Next ==
  \/ \E c \in Contents : Post(c)
  \/ \E m \in Messages : Accept(m) \/ \E data \in {posted[m], Null} : Deliver(m, data)
  \/ \E hit \in SUBSET Messages : Damage(hit)

Spec == Init /\ [][Next]_vars
=============================================================================
