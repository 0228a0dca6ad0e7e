------------------------- MODULE ChannelDataProofs -------------------------
(***************************************************************************)
(* Proofs about ChannelData, for any number of sending threads and calls.  *)
(*                                                                         *)
(* The inductive invariant IInv of ChannelData is a conjunction of parts.  *)
(* The first section says what a step can do at all (StepCases: it is one  *)
(* of five steps that touch a packet, or Quiet); the second proves for     *)
(* each part that every step preserves it; the third draws the theorems.   *)
(***************************************************************************)
EXTENDS ChannelData, TLAPS

USE ThreadAssumption DEF ReceiverSide, Threads

(***************************************************************************)
(* A step that neither moves a packet nor changes who may move one.        *)
(***************************************************************************)
Quiet ==
  /\ UNCHANGED <<slot, newMsg, senderWorking, sawWorking>>
  /\ UNCHANGED <<pkt, calls, written, taken, late>>
  /\ recverWorking' => recverWorking
  /\ flapped => flapped'
  /\ \A s \in Senders :
       /\ Unpublished(s)' => Unpublished(s)
       /\ pc'[s] = "s_publish" <=> pc[s] = "s_publish"
  /\ pc'[Receiver] = "r_clear" <=> pc[Receiver] = "r_clear"
  /\ pc[Receiver] \in {"r_kick", "r_left"} => pc'[Receiver] = pc[Receiver] \/ RecvKick
  /\ pc[Receiver] = "r_quit" => pc'[Receiver] \in {"r_quit", "r_left"}
  /\ flapped' = flapped \/ pc'[Receiver] = pc[Receiver]

(* Every step of ChannelData is one of five steps that handle a packet, or *)
(* Quiet.                                                                  *)
LEMMA StepCases ==
  ASSUME TypeOK, [Next]_vars
  PROVE  \/ \E s \in Senders : Call(s) \/ SendCommit(s) \/ SendPublish(s)
         \/ RecvTake \/ RecvClear \/ Quiet
<1> USE DEF TypeOK, ControlOK, FlagsOK, PC, SenderPC, ReceiverPC, MonitorPC, StopperPC
<1> USE DEF Quiet, Unpublished, Goto, Return, Leave, segment, memory, flags, locals, history
<1>1. ASSUME NEW s \in Senders, SendAcquire(s) \/ SendBlock(s) \/ SendTimeout(s)
      PROVE  Quiet
  BY <1>1 DEF SendAcquire, SendBlock, SendTimeout
<1>2. ASSUME NEW s \in Senders, SendExpired(s) \/ SendRefused(s) \/ SendToStopped(s)
      PROVE  Quiet
  BY <1>2 DEF SendExpired, SendRefused, SendToStopped
<1>3. ASSUME NEW s \in Senders, SendNotifyAll(s) \/ SendKick(s)
      PROVE  Quiet
  BY <1>3 DEF SendNotifyAll, SendKick
<1>4. CASE RecvLoopTest \/ RecvAcquire \/ RecvBlock
  BY <1>4 DEF RecvLoopTest, RecvAcquire, RecvBlock
<1>5. CASE RecvRefused \/ RecvQuit \/ RecvKick
  BY <1>5 DEF RecvRefused, RecvQuit, RecvKick
<1>6. CASE GiveUpPeer \/ HearHello \/ HelloNotify
  BY <1>6 DEF GiveUpPeer, HearHello, HelloNotify
<1>7. CASE StopSending \/ ResetSendChannel
  BY <1>7 DEF StopSending, ResetSendChannel
<1>8. CASE Disconnect \/ DisconnectNotify \/ StopReceiving
  BY <1>8 DEF Disconnect, DisconnectNotify, StopReceiving
<1>9. CASE StopRecverWorking \/ StopNotify
  BY <1>9 DEF StopRecverWorking, StopNotify
<1>10. CASE \E t \in Threads : SpuriousWakeup(t)
  BY <1>10 DEF SpuriousWakeup
<1>11. CASE UNCHANGED vars
  BY <1>11 DEF vars
<1> QED
  BY <1>1, <1>2, <1>3, <1>4, <1>5, <1>6, <1>7, <1>8, <1>9, <1>10, <1>11
  DEF Next, SenderNext, ReceiverNext, SendStep, RecvStep
-----------------------------------------------------------------------------
(***************************************************************************)
(* Every step preserves every part of the invariant.                       *)
(***************************************************************************)

(* Every thread stays inside its own control points.                       *)
LEMMA ControlStep ==
  ASSUME TypeOK, [Next]_vars
  PROVE  ControlOK'
<1> USE DEF TypeOK, ControlOK, PC, SenderPC, ReceiverPC, MonitorPC, StopperPC
<1> USE DEF Goto, Return, Leave, Acquire, Release, NotifyOne, NotifyAll
<1> USE DEF segment, memory, flags, locals, history
<1>1. ASSUME NEW s \in Senders,
             Call(s) \/ SendAcquire(s) \/ SendBlock(s) \/ SendTimeout(s)
      PROVE  ControlOK'
  BY <1>1 DEF Call, SendAcquire, SendBlock, SendTimeout
<1>2. ASSUME NEW s \in Senders,
             SendExpired(s) \/ SendRefused(s) \/ SendToStopped(s) \/ SendCommit(s)
      PROVE  ControlOK'
  BY <1>2 DEF SendExpired, SendRefused, SendToStopped, SendCommit
<1>3. ASSUME NEW s \in Senders, SendPublish(s) \/ SendNotifyAll(s) \/ SendKick(s)
      PROVE  ControlOK'
  BY <1>3 DEF SendPublish, SendNotifyAll, SendKick
<1>4. CASE RecvLoopTest \/ RecvAcquire \/ RecvBlock \/ RecvRefused
  BY <1>4 DEF RecvLoopTest, RecvAcquire, RecvBlock, RecvRefused
<1>5. CASE RecvQuit \/ RecvTake \/ RecvClear \/ RecvKick
  BY <1>5 DEF RecvQuit, RecvTake, RecvClear, RecvKick
<1>6. CASE GiveUpPeer \/ HearHello \/ HelloNotify \/ StopSending \/ ResetSendChannel
  BY <1>6 DEF GiveUpPeer, HearHello, HelloNotify, StopSending, ResetSendChannel
<1>7. CASE Disconnect \/ DisconnectNotify \/ StopReceiving
  BY <1>7 DEF Disconnect, DisconnectNotify, StopReceiving
<1>8. CASE StopRecverWorking \/ StopNotify
  BY <1>8 DEF StopRecverWorking, StopNotify
<1>9. CASE \E t \in Threads : SpuriousWakeup(t)
  BY <1>9 DEF SpuriousWakeup
<1>10. CASE UNCHANGED vars
  BY <1>10 DEF vars
<1> QED
  BY <1>1, <1>2, <1>3, <1>4, <1>5, <1>6, <1>7, <1>8, <1>9, <1>10
  DEF Next, SenderNext, ReceiverNext, SendStep, RecvStep

(* The flags stay flags.                                                   *)
LEMMA FlagsStep ==
  ASSUME TypeOK, [Next]_vars
  PROVE  FlagsOK'
<1> USE DEF TypeOK, FlagsOK, Leave, segment, memory, flags, locals, history
<1>1. ASSUME NEW s \in Senders,
             Call(s) \/ SendAcquire(s) \/ SendBlock(s) \/ SendTimeout(s)
      PROVE  FlagsOK'
  BY <1>1 DEF Call, SendAcquire, SendBlock, SendTimeout
<1>2. ASSUME NEW s \in Senders,
             SendExpired(s) \/ SendRefused(s) \/ SendToStopped(s) \/ SendCommit(s)
      PROVE  FlagsOK'
  BY <1>2 DEF SendExpired, SendRefused, SendToStopped, SendCommit
<1>3. ASSUME NEW s \in Senders, SendPublish(s) \/ SendNotifyAll(s) \/ SendKick(s)
      PROVE  FlagsOK'
  BY <1>3 DEF SendPublish, SendNotifyAll, SendKick, WorkingAfter
<1>4. CASE RecvLoopTest \/ RecvAcquire \/ RecvBlock \/ RecvRefused
  <2>1. CASE RecvLoopTest
    BY <2>1 DEF RecvLoopTest
  <2>2. CASE RecvAcquire
    BY <2>2 DEF RecvAcquire
  <2>3. CASE RecvBlock
    BY <2>3 DEF RecvBlock
  <2>4. CASE RecvRefused
    BY <2>4 DEF RecvRefused
  <2> QED  BY <1>4, <2>1, <2>2, <2>3, <2>4
<1>5. CASE RecvQuit \/ RecvTake \/ RecvClear \/ RecvKick
  <2>1. CASE RecvQuit
    BY <2>1 DEF RecvQuit
  <2>2. CASE RecvTake
    BY <2>2 DEF RecvTake
  <2>3. CASE RecvClear
    BY <2>3 DEF RecvClear
  <2>4. CASE RecvKick
    BY <2>4 DEF RecvKick
  <2> QED  BY <1>5, <2>1, <2>2, <2>3, <2>4
<1>6. CASE GiveUpPeer \/ HearHello \/ HelloNotify \/ StopSending \/ ResetSendChannel
  <2>1. CASE GiveUpPeer
    BY <2>1 DEF GiveUpPeer
  <2>2. CASE HearHello
    BY <2>2 DEF HearHello
  <2>3. CASE HelloNotify
    BY <2>3 DEF HelloNotify
  <2>4. CASE StopSending
    BY <2>4 DEF StopSending
  <2>5. CASE ResetSendChannel
    BY <2>5 DEF ResetSendChannel
  <2> QED  BY <1>6, <2>1, <2>2, <2>3, <2>4, <2>5
<1>7. CASE Disconnect \/ DisconnectNotify \/ StopReceiving
  BY <1>7 DEF Disconnect, DisconnectNotify, StopReceiving
<1>8. CASE StopRecverWorking \/ StopNotify
  BY <1>8 DEF StopRecverWorking, StopNotify
<1>9. CASE \E t \in Threads : SpuriousWakeup(t)
  BY <1>9 DEF SpuriousWakeup
<1>10. CASE UNCHANGED vars
  BY <1>10 DEF vars
<1> QED
  BY <1>1, <1>2, <1>3, <1>4, <1>5, <1>6, <1>7, <1>8, <1>9, <1>10
  DEF Next, SenderNext, ReceiverNext, SendStep, RecvStep

(* The packets stay packets.                                               *)
LEMMA PacketsStep ==
  ASSUME TypeOK, SlotInv, WaitInv, [Next]_vars
  PROVE  PacketsOK'
<1> USE DEF TypeOK, PacketsOK, SlotInv, Unpublished, segment, memory, flags, locals, history
<1>1. ASSUME NEW s \in Senders, Call(s) PROVE PacketsOK'
  <2>1. calls[s] + 1 \in 1..MaxCalls
    BY <1>1 DEF Call
  <2>2. <<s, calls[s] + 1>> \in Packet
    BY <2>1 DEF Packet
  <2> QED
    BY <1>1, <2>1, <2>2 DEF Call
<1>2. ASSUME NEW s \in Senders, SendCommit(s) PROVE PacketsOK'
  BY <1>2 DEF SendCommit
<1>3. ASSUME NEW s \in Senders, SendPublish(s) PROVE PacketsOK'
  <2>1. pkt[s] = <<s, calls[s]>> /\ calls[s] \in 1..MaxCalls
    BY <1>3 DEF SendPublish
  <2>2. pkt[s] \in Packet
    BY <2>1 DEF Packet
  <2> QED
    BY <1>3, <2>2 DEF SendPublish
<1>4. CASE RecvTake
  <2>1. slot \in Packet
    BY <1>4 DEF RecvTake, WaitInv
  <2> QED
    BY <1>4, <2>1 DEF RecvTake
<1>5. CASE RecvClear
  BY <1>5 DEF RecvClear
<1>6. CASE Quiet
  BY <1>6 DEF Quiet
<1> QED
  BY <1>1, <1>2, <1>3, <1>4, <1>5, <1>6, StepCases

(* Who is in a critical section, and nobody else, owns the mutex.          *)
LEMMA LockStep ==
  ASSUME TypeOK, LockInv, [Next]_vars
  PROVE  LockInv'
<1> USE DEF TypeOK, ControlOK, PC, SenderPC, ReceiverPC, MonitorPC, StopperPC
<1> USE DEF LockInv, Holds, Goto, Return, Leave, Free, Acquire, Release
<1> USE DEF segment, memory, flags, locals, history
<1>1. ASSUME NEW s \in Senders,
             Call(s) \/ SendAcquire(s) \/ SendBlock(s) \/ SendTimeout(s)
      PROVE  LockInv'
  BY <1>1 DEF Call, SendAcquire, SendBlock, SendTimeout
<1>2. ASSUME NEW s \in Senders,
             SendExpired(s) \/ SendRefused(s) \/ SendToStopped(s) \/ SendCommit(s)
      PROVE  LockInv'
  BY <1>2 DEF SendExpired, SendRefused, SendToStopped, SendCommit
<1>3. ASSUME NEW s \in Senders, SendPublish(s) \/ SendNotifyAll(s) \/ SendKick(s)
      PROVE  LockInv'
  BY <1>3 DEF SendPublish, SendNotifyAll, SendKick
<1>4. CASE RecvLoopTest \/ RecvAcquire \/ RecvBlock \/ RecvRefused
  BY <1>4 DEF RecvLoopTest, RecvAcquire, RecvBlock, RecvRefused
<1>5. CASE RecvQuit \/ RecvTake \/ RecvClear \/ RecvKick
  BY <1>5 DEF RecvQuit, RecvTake, RecvClear, RecvKick
<1>6. CASE GiveUpPeer \/ HearHello \/ HelloNotify \/ StopSending \/ ResetSendChannel
  BY <1>6 DEF GiveUpPeer, HearHello, HelloNotify, StopSending, ResetSendChannel
<1>7. CASE Disconnect \/ DisconnectNotify \/ StopReceiving
  BY <1>7 DEF Disconnect, DisconnectNotify, StopReceiving
<1>8. CASE StopRecverWorking \/ StopNotify
  BY <1>8 DEF StopRecverWorking, StopNotify
<1>9. CASE \E t \in Threads : SpuriousWakeup(t)
  BY <1>9 DEF SpuriousWakeup
<1>10. CASE UNCHANGED vars
  BY <1>10 DEF vars
<1> QED
  BY <1>1, <1>2, <1>3, <1>4, <1>5, <1>6, <1>7, <1>8, <1>9, <1>10
  DEF Next, SenderNext, ReceiverNext, SendStep, RecvStep

(* The slot holds the packet of the thread that writes it, and whoever is  *)
(* about to write still has the packet of its last call.                   *)
LEMMA SlotStep ==
  ASSUME TypeOK, LockInv, SlotInv, [Next]_vars
  PROVE  SlotInv'
<1> USE DEF TypeOK, ControlOK, PacketsOK, SlotInv, Unpublished, Goto, Return
<1> USE DEF segment, memory, flags, locals, history
<1>1. ASSUME NEW s \in Senders, Call(s) PROVE SlotInv'
  <2>1. pkt'[s] = <<s, calls'[s]>> /\ calls'[s] >= 1
    BY <1>1 DEF Call
  <2>2. \A u \in Senders \ {s} : /\ pkt'[u] = pkt[u] /\ calls'[u] = calls[u]
                                 /\ pc'[u] = pc[u]
    BY <1>1 DEF Call
  <2>3. pc'[s] = "s_lock" /\ UNCHANGED <<slot, newMsg>>
    BY <1>1 DEF Call
  <2> QED
    BY <2>1, <2>2, <2>3
<1>2. ASSUME NEW s \in Senders, SendCommit(s) PROVE SlotInv'
  <2>1. pkt[s] = <<s, calls[s]>> /\ calls[s] \in 1..MaxCalls
    BY <1>2 DEF SendCommit
  <2>2. pkt[s] \in Packet
    BY <2>1 DEF Packet
  <2>3. \A u \in Senders : pc'[u] = "s_publish" => u = s
    BY <1>2 DEF SendCommit, LockInv, Holds
  <2> QED
    BY <1>2, <2>2, <2>3 DEF SendCommit
<1>3. ASSUME NEW s \in Senders, SendPublish(s) PROVE SlotInv'
  <2>1. pkt[s] = <<s, calls[s]>> /\ calls[s] \in 1..MaxCalls /\ slot = pkt[s]
    BY <1>3 DEF SendPublish
  <2>2. slot \in Packet
    BY <2>1 DEF Packet
  <2> QED
    BY <1>3, <2>2 DEF SendPublish
<1>4. CASE RecvTake
  BY <1>4 DEF RecvTake
<1>5. CASE RecvClear
  BY <1>5 DEF RecvClear
<1>6. CASE Quiet
  BY <1>6 DEF Quiet
<1> QED
  BY <1>1, <1>2, <1>3, <1>4, <1>5, <1>6, StepCases

(* The receiver's decision, taken under the mutex, stays right until it    *)
(* has acted on it.                                                        *)
LEMMA WaitStep ==
  ASSUME TypeOK, LockInv, WaitInv, [Next]_vars
  PROVE  WaitInv'
<1> USE DEF TypeOK, ControlOK, PC, SenderPC, ReceiverPC, MonitorPC, StopperPC
<1> USE DEF WaitInv, Goto, Return, Leave, segment, memory, flags, locals, history
<1>1. ASSUME NEW s \in Senders, SendPublish(s) PROVE WaitInv'
  BY <1>1 DEF SendPublish, LockInv, Holds
<1>2. ASSUME NEW s \in Senders,
             Call(s) \/ SendAcquire(s) \/ SendBlock(s) \/ SendTimeout(s)
      PROVE  WaitInv'
  BY <1>2 DEF Call, SendAcquire, SendBlock, SendTimeout
<1>3. ASSUME NEW s \in Senders,
             SendExpired(s) \/ SendRefused(s) \/ SendToStopped(s) \/ SendCommit(s)
      PROVE  WaitInv'
  BY <1>3 DEF SendExpired, SendRefused, SendToStopped, SendCommit
<1>4. ASSUME NEW s \in Senders, SendNotifyAll(s) \/ SendKick(s)
      PROVE  WaitInv'
  BY <1>4 DEF SendNotifyAll, SendKick
<1>5. CASE RecvAcquire
  BY <1>5 DEF RecvAcquire, MayRecv
<1>6. CASE RecvLoopTest \/ RecvBlock \/ RecvRefused
  BY <1>6 DEF RecvLoopTest, RecvBlock, RecvRefused
<1>7. CASE RecvQuit \/ RecvTake \/ RecvClear \/ RecvKick
  BY <1>7 DEF RecvQuit, RecvTake, RecvClear, RecvKick
<1>8. CASE GiveUpPeer \/ HearHello \/ HelloNotify \/ StopSending \/ ResetSendChannel
  BY <1>8 DEF GiveUpPeer, HearHello, HelloNotify, StopSending, ResetSendChannel
<1>9. CASE Disconnect \/ DisconnectNotify \/ StopReceiving
  BY <1>9 DEF Disconnect, DisconnectNotify, StopReceiving
<1>10. CASE StopRecverWorking \/ StopNotify
  BY <1>10 DEF StopRecverWorking, StopNotify
<1>11. CASE \E t \in Threads : SpuriousWakeup(t)
  BY <1>11 DEF SpuriousWakeup
<1>12. CASE UNCHANGED vars
  BY <1>12 DEF vars
<1> QED
  BY <1>1, <1>2, <1>3, <1>4, <1>5, <1>6, <1>7, <1>8, <1>9, <1>10, <1>11, <1>12
  DEF Next, SenderNext, ReceiverNext, SendStep, RecvStep

(* As long as nothing flapped, a sender past the wait has an empty slot.   *)
LEMMA EmptyStep ==
  ASSUME TypeOK, LockInv, EmptyInv, [Next]_vars
  PROVE  EmptyInv'
<1> USE DEF TypeOK, ControlOK, FlagsOK, PC, SenderPC, ReceiverPC, MonitorPC, StopperPC
<1> USE DEF EmptyInv, Goto, Return, Leave, segment, memory, flags, locals, history
<1>1. ASSUME NEW s \in Senders, SendAcquire(s) PROVE EmptyInv'
  BY <1>1 DEF SendAcquire, MaySend
<1>2. ASSUME NEW s \in Senders, SendExpired(s) PROVE EmptyInv'
  BY <1>2 DEF SendExpired, MaySend
<1>3. ASSUME NEW s \in Senders, SendPublish(s) PROVE EmptyInv'
  BY <1>3 DEF SendPublish, LockInv, Holds
<1>4. ASSUME NEW s \in Senders,
             Call(s) \/ SendBlock(s) \/ SendTimeout(s) \/ SendRefused(s)
      PROVE  EmptyInv'
  BY <1>4 DEF Call, SendBlock, SendTimeout, SendRefused
<1>5. ASSUME NEW s \in Senders,
             SendToStopped(s) \/ SendCommit(s) \/ SendNotifyAll(s) \/ SendKick(s)
      PROVE  EmptyInv'
  BY <1>5 DEF SendToStopped, SendCommit, SendNotifyAll, SendKick
<1>6. CASE HearHello
  BY <1>6 DEF HearHello
<1>7. CASE RecvLoopTest \/ RecvAcquire \/ RecvBlock \/ RecvRefused
  BY <1>7 DEF RecvLoopTest, RecvAcquire, RecvBlock, RecvRefused
<1>8. CASE RecvQuit \/ RecvTake \/ RecvClear \/ RecvKick
  BY <1>8 DEF RecvQuit, RecvTake, RecvClear, RecvKick
<1>9. CASE GiveUpPeer \/ HelloNotify \/ StopSending \/ ResetSendChannel
  BY <1>9 DEF GiveUpPeer, HelloNotify, StopSending, ResetSendChannel
<1>10. CASE Disconnect \/ DisconnectNotify \/ StopReceiving
  BY <1>10 DEF Disconnect, DisconnectNotify, StopReceiving
<1>11. CASE StopRecverWorking \/ StopNotify
  BY <1>11 DEF StopRecverWorking, StopNotify
<1>12. CASE \E t \in Threads : SpuriousWakeup(t)
  BY <1>12 DEF SpuriousWakeup
<1>13. CASE UNCHANGED vars
  BY <1>13 DEF vars
<1> QED
  BY <1>1, <1>2, <1>3, <1>4, <1>5, <1>6, <1>7, <1>8, <1>9, <1>10, <1>11, <1>12, <1>13
  DEF Next, SenderNext, ReceiverNext, SendStep, RecvStep

(* As long as nothing flapped, what was published is what was taken, and   *)
(* the packet in the slot.                                                 *)
LEMMA OrderStep ==
  ASSUME TypeOK, LockInv, SlotInv, WaitInv, EmptyInv, NoPacketLost, [Next]_vars
  PROVE  NoPacketLost'
<1> USE DEF TypeOK, PacketsOK, NoPacketLost, Pending, Goto, Return
<1> USE DEF segment, memory, flags, locals, history
<1>1. ASSUME NEW s \in Senders, Call(s) PROVE NoPacketLost'
  BY <1>1 DEF Call, ControlOK
<1>2. ASSUME NEW s \in Senders, SendCommit(s) PROVE NoPacketLost'
  BY <1>2 DEF SendCommit, EmptyInv, ControlOK
<1>3. ASSUME NEW s \in Senders, SendPublish(s) PROVE NoPacketLost'
  <2>1. pc[Receiver] # "r_clear" /\ pc'[Receiver] = pc[Receiver]
    BY <1>3 DEF SendPublish, LockInv, Holds, ControlOK
  <2>2. slot = pkt[s] /\ pkt[s] \in Packet
    <3>1. pkt[s] = <<s, calls[s]>> /\ calls[s] \in 1..MaxCalls /\ slot = pkt[s]
      BY <1>3 DEF SendPublish, SlotInv, Unpublished
    <3> QED
      BY <3>1 DEF Packet
  <2>3. ~flapped => written = taken
    <3>1. ~flapped => ~newMsg
      BY <1>3 DEF SendPublish, EmptyInv
    <3>2. taken \o <<>> = taken
      OBVIOUS
    <3> QED
      BY <3>1, <3>2
  <2> QED
    BY <1>3, <2>1, <2>2, <2>3 DEF SendPublish
<1>4. CASE RecvTake
  <2>1. newMsg /\ slot \in Packet
    BY <1>4 DEF RecvTake, WaitInv, SlotInv
  <2>2. pc[Receiver] = "r_check" /\ pc'[Receiver] = "r_clear"
    BY <1>4 DEF RecvTake, ControlOK
  <2> QED
    BY <1>4, <2>1, <2>2 DEF RecvTake
<1>5. CASE RecvClear
  BY <1>5 DEF RecvClear, ControlOK
<1>6. CASE Quiet
  BY <1>6 DEF Quiet
<1> QED
  BY <1>1, <1>2, <1>3, <1>4, <1>5, <1>6, StepCases

(* An unread packet and a sleeping receiver: the notify_all is to come.    *)
LEMMA WakeupStep ==
  ASSUME TypeOK, LockInv, WaitInv, NoMissedWakeup, [Next]_vars
  PROVE  NoMissedWakeup'
<1> DEFINE Undisturbed ==
             /\ newMsg' => newMsg
             /\ Receiver \in waiters' => Receiver \in waiters
             /\ \A s \in Senders : pc[s] = "s_notify" => pc'[s] = "s_notify"
<1> USE DEF TypeOK, ControlOK, PC, SenderPC, ReceiverPC, MonitorPC, StopperPC
<1> USE DEF Goto, Return, Leave, NotifyOne, segment, memory, flags, locals, history
<1>1. ASSUME NEW s \in Senders, SendPublish(s) PROVE NoMissedWakeup'
  BY <1>1 DEF SendPublish, NoMissedWakeup
<1>2. ASSUME NEW s \in Senders, SendNotifyAll(s) PROVE NoMissedWakeup'
  BY <1>2 DEF SendNotifyAll, NotifyAll, NoMissedWakeup
<1>3. ASSUME NEW s \in Senders,
             Call(s) \/ SendAcquire(s) \/ SendBlock(s) \/ SendTimeout(s)
      PROVE  Undisturbed
  BY <1>3 DEF Call, SendAcquire, SendBlock, SendTimeout
<1>4. ASSUME NEW s \in Senders,
             SendExpired(s) \/ SendRefused(s) \/ SendToStopped(s) \/ SendCommit(s)
      PROVE  Undisturbed
  BY <1>4 DEF SendExpired, SendRefused, SendToStopped, SendCommit
<1>5. ASSUME NEW s \in Senders, SendKick(s) PROVE Undisturbed
  BY <1>5 DEF SendKick
<1>6. CASE RecvBlock
  BY <1>6 DEF RecvBlock, WaitInv, NoMissedWakeup
<1>7. ASSUME RecvLoopTest \/ RecvAcquire \/ RecvRefused PROVE Undisturbed
  BY <1>7 DEF RecvLoopTest, RecvAcquire, RecvRefused
<1>8. ASSUME RecvQuit \/ RecvTake \/ RecvClear \/ RecvKick PROVE Undisturbed
  BY <1>8 DEF RecvQuit, RecvTake, RecvClear, RecvKick
<1>9. ASSUME GiveUpPeer \/ HearHello \/ HelloNotify \/ StopSending \/ ResetSendChannel PROVE Undisturbed
  BY <1>9 DEF GiveUpPeer, HearHello, HelloNotify, StopSending, ResetSendChannel
<1>10. ASSUME Disconnect \/ DisconnectNotify \/ StopReceiving PROVE Undisturbed
  BY <1>10 DEF Disconnect, DisconnectNotify, StopReceiving
<1>11. ASSUME StopRecverWorking \/ StopNotify PROVE Undisturbed
  BY <1>11 DEF StopRecverWorking, StopNotify, NotifyAll
<1>12. ASSUME \E t \in Threads : SpuriousWakeup(t) PROVE Undisturbed
  BY <1>12 DEF SpuriousWakeup
<1>13. CASE UNCHANGED vars
  BY <1>13 DEF vars, NoMissedWakeup
<1>14. Undisturbed => NoMissedWakeup'
  BY DEF NoMissedWakeup
<1> QED
  BY <1>1, <1>2, <1>3, <1>4, <1>5, <1>6, <1>7, <1>8, <1>9, <1>10, <1>11, <1>12,
     <1>13, <1>14
  DEF Next, SenderNext, ReceiverNext, SendStep, RecvStep

(* The farewell is the last packet the receiver takes.                     *)
LEMMA ByeStep ==
  ASSUME TypeOK, LockInv, SlotInv, WaitInv, ByeInv, [Next]_vars
  PROVE  ByeInv'
<1> USE DEF TypeOK, ControlOK, PacketsOK, SlotInv, ByeInv, Goto, Return
<1> USE DEF segment, memory, flags, locals, history
<1>1. ASSUME NEW s \in Senders, Call(s) PROVE ByeInv'
  BY <1>1 DEF Call
<1>2. ASSUME NEW s \in Senders, SendCommit(s) PROVE ByeInv'
  BY <1>2 DEF SendCommit
<1>3. ASSUME NEW s \in Senders, SendPublish(s) PROVE ByeInv'
  BY <1>3 DEF SendPublish, WorkingAfter
<1>4. CASE RecvTake
  <2>1. \A s \in Senders : pc[s] # "s_publish"
    BY <1>4 DEF RecvTake, LockInv, Holds
  <2>2. \A i \in 1..Len(taken) : taken[i] \notin Farewell
    BY <1>4 DEF RecvTake
  <2>3. newMsg /\ (slot \in Farewell => ~senderWorking)
    BY <1>4, <2>1 DEF RecvTake, WaitInv
  <2> QED
    BY <1>4, <2>1, <2>2, <2>3 DEF RecvTake
<1>5. CASE RecvClear
  BY <1>5 DEF RecvClear
<1>6. CASE Quiet
  <2>1. /\ UNCHANGED <<newMsg, slot, senderWorking, taken, sawWorking>>
        /\ \A s \in Senders : pc'[s] = "s_publish" <=> pc[s] = "s_publish"
    BY <1>6 DEF Quiet
  <2>2. ASSUME NEW i \in 1..Len(taken), taken[i] \in Farewell
        PROVE  pc'[Receiver] \in {"r_clear", "r_kick", "r_left"}
    <3>1. CASE RecvKick
      BY <2>2, <3>1 DEF RecvKick, Leave, Farewell, MaybeChunk
    <3>2. CASE ~RecvKick
      BY <1>6, <2>2, <3>2 DEF Quiet
    <3> QED
      BY <3>1, <3>2
  <2> QED
    BY <2>1, <2>2
<1> QED
  BY <1>1, <1>2, <1>3, <1>4, <1>5, <1>6, StepCases

(* At most one packet is published behind the receiver's stop.             *)
LEMMA LateStep ==
  ASSUME TypeOK, LockInv, LateInv, [Next]_vars
  PROVE  LateInv'
<1> USE DEF TypeOK, ControlOK, FlagsOK, PacketsOK, LateInv, Goto, Return
<1> USE DEF segment, memory, flags, locals, history
<1>1. ASSUME NEW s \in Senders, Call(s) PROVE LateInv'
  BY <1>1 DEF Call
<1>2. ASSUME NEW s \in Senders, SendCommit(s) PROVE LateInv'
  BY <1>2 DEF SendCommit, Stopping
<1>3. ASSUME NEW s \in Senders, SendPublish(s) PROVE LateInv'
  BY <1>3 DEF SendPublish, LockInv, Holds
<1>4. CASE RecvTake
  BY <1>4 DEF RecvTake
<1>5. CASE RecvClear
  BY <1>5 DEF RecvClear
<1>6. CASE Quiet
  BY <1>6 DEF Quiet
<1> QED
  BY <1>1, <1>2, <1>3, <1>4, <1>5, <1>6, StepCases

(* A packet about to be published is unknown to the receiver.              *)
LEMMA FreshStep ==
  ASSUME TypeOK, LockInv, SlotInv, WaitInv, FreshInv, [Next]_vars
  PROVE  FreshInv'
<1> USE DEF TypeOK, ControlOK, PacketsOK, SlotInv, FreshInv, Unpublished, Goto, Return
<1> USE DEF segment, memory, flags, locals, history
<1>1. ASSUME NEW s \in Senders, Call(s) PROVE FreshInv'
  <2> DEFINE p == <<s, calls[s] + 1>>
  <2>1. /\ calls' = [calls EXCEPT ![s] = calls[s] + 1]
        /\ pkt' = [pkt EXCEPT ![s] = p]
        /\ pc' = [pc EXCEPT ![s] = "s_lock"]
        /\ UNCHANGED <<taken, newMsg, slot>>
    BY <1>1 DEF Call
  <2>2. \A q \in Packet : q[2] <= calls[q[1]] => q # p /\ q[2] <= calls'[q[1]]
    BY <2>1 DEF Packet
  <2>3. \A i \in 1..Len(taken) : taken[i] \in Packet
    OBVIOUS
  <2> QED
    BY <2>1, <2>2, <2>3
<1>2. ASSUME NEW s \in Senders, SendCommit(s) PROVE FreshInv'
  <2>1. \A u \in Senders : Unpublished(u)' => Unpublished(u)
    BY <1>2 DEF SendCommit
  <2>2. \A u \in Senders \ {s} : Unpublished(u) => pkt[u] # pkt[s]
    BY <1>2 DEF SendCommit
  <2>3. pkt[s][2] = calls[s] /\ pkt[s][1] = s
    BY <1>2 DEF SendCommit
  <2> QED
    BY <1>2, <2>1, <2>2, <2>3 DEF SendCommit
<1>3. ASSUME NEW s \in Senders, SendPublish(s) PROVE FreshInv'
  <2>1. \A u \in Senders : Unpublished(u)' => Unpublished(u) /\ u # s
    BY <1>3 DEF SendPublish
  <2>2. /\ slot = <<s, calls[s]>> /\ pkt[s] = slot /\ Unpublished(s)
        /\ UNCHANGED <<slot, pkt, calls, taken>>
    BY <1>3 DEF SendPublish
  <2>3. \A u \in Senders : Unpublished(u)' => pkt'[u] # slot'
    BY <2>1, <2>2
  <2>4. \A i \in 1..Len(taken) : taken[i] # slot
    BY <2>2
  <2>5. slot[1] = s /\ slot[2] = calls[s] /\ calls[s] \in Nat
    BY <2>2
  <2> HIDE DEF Unpublished
  <2> QED
    BY <2>1, <2>2, <2>3, <2>4, <2>5
<1>4. CASE RecvTake
  <2>1. newMsg /\ slot \in Packet
    BY <1>4 DEF RecvTake, WaitInv
  <2>2. \A s \in Senders : Unpublished(s) => slot # pkt[s]
    BY <1>4, <2>1 DEF RecvTake, LockInv, Holds
  <2> QED
    BY <1>4, <2>1, <2>2 DEF RecvTake
<1>5. CASE RecvClear
  BY <1>5 DEF RecvClear
<1>6. CASE Quiet
  BY <1>6 DEF Quiet
<1> QED
  BY <1>1, <1>2, <1>3, <1>4, <1>5, <1>6, StepCases

(* The receiver takes no packet twice.                                     *)
LEMMA OnceStep ==
  ASSUME TypeOK, SlotInv, WaitInv, FreshInv, TakenOnce, [Next]_vars
  PROVE  TakenOnce'
<1> USE DEF TypeOK, PacketsOK, TakenOnce, segment, memory, flags, locals, history
<1>1. ASSUME NEW s \in Senders, Call(s) \/ SendCommit(s) \/ SendPublish(s)
      PROVE  TakenOnce'
  BY <1>1 DEF Call, SendCommit, SendPublish
<1>2. CASE RecvTake
  <2>1. newMsg /\ slot \in Packet /\ taken' = Append(taken, slot)
    BY <1>2 DEF RecvTake, WaitInv, SlotInv
  <2>2. \A i \in 1..Len(taken) : taken[i] # slot
    BY <1>2, <2>1 DEF RecvTake, FreshInv
  <2> QED
    BY <2>1, <2>2
<1>3. CASE RecvClear
  BY <1>3 DEF RecvClear
<1>4. CASE Quiet
  BY <1>4 DEF Quiet
<1> QED
  BY <1>1, <1>2, <1>3, <1>4, StepCases
-----------------------------------------------------------------------------
(***************************************************************************)
(* Theorems.                                                               *)
(***************************************************************************)

(* The segment as the two processes find it satisfies the invariant.       *)
LEMMA InitIInv == Init => IInv
<1> SUFFICES ASSUME Init PROVE IInv
  OBVIOUS
<1> USE DEF Init
<1>1. ControlOK
  BY DEF ControlOK, PC, SenderPC, ReceiverPC, MonitorPC, StopperPC
<1>2. FlagsOK
  BY DEF FlagsOK
<1>3. PacketsOK
  BY DEF PacketsOK
<1>4. pc[Receiver] = "r_top" /\ \A s \in Senders : pc[s] = "idle"
  OBVIOUS
<1>5. LockInv
  BY DEF LockInv, Holds
<1>6. SlotInv /\ FreshInv
  BY <1>4 DEF SlotInv, FreshInv, Unpublished
<1>7. WaitInv /\ EmptyInv /\ NoMissedWakeup /\ NoPacketLost
  BY <1>4 DEF WaitInv, EmptyInv, NoMissedWakeup, NoPacketLost, Pending
<1>8. ByeInv /\ LateInv /\ TakenOnce
  BY <1>4 DEF ByeInv, LateInv, TakenOnce
<1> QED
  BY <1>1, <1>2, <1>3, <1>5, <1>6, <1>7, <1>8 DEF IInv, TypeOK

(* ... and every step keeps it.                                            *)
LEMMA NextIInv == IInv /\ [Next]_vars => IInv'
BY ControlStep, FlagsStep, PacketsStep, LockStep, SlotStep, WaitStep, EmptyStep,
   OrderStep, WakeupStep, ByeStep, LateStep, FreshStep, OnceStep
DEF IInv, TypeOK

(* The inductive invariant holds in every state of every behaviour.        *)
THEOREM Invariance == Spec => []IInv
BY InitIInv, NextIInv, PTL DEF Spec

(* Type correctness: threads stay inside their handlers and only packets   *)
(* of send_packet calls are ever in the segment.                           *)
THEOREM TypeCorrect == Spec => []TypeOK
<1>1. IInv => TypeOK
  BY DEF IInv
<1> QED
  BY <1>1, Invariance, PTL

(* No two threads, of either process, are ever in the segment's buffer and *)
(* flags at the same time.                                                 *)
THEOREM Exclusion == Spec => []MutualExclusion
<1>1. IInv => MutualExclusion
  BY DEF IInv, LockInv, MutualExclusion
<1> QED
  BY <1>1, Invariance, PTL

(* Whatever send_packet reported as sent reaches the receiver once and in  *)
(* order, as long as the sender's connection status has not flapped.       *)
THEOREM InOrder == Spec => []NoPacketLost
<1>1. IInv => NoPacketLost
  BY DEF IInv
<1> QED
  BY <1>1, Invariance, PTL

(* Flap or not, no packet reaches the receiver twice.                      *)
THEOREM AtMostOnce == Spec => []TakenOnce
<1>1. IInv => TakenOnce
  BY DEF IInv
<1> QED
  BY <1>1, Invariance, PTL

(* recv never sleeps on an unread packet without a wake-up under way.      *)
THEOREM AlwaysWoken == Spec => []NoMissedWakeup
<1>1. IInv => NoMissedWakeup
  BY DEF IInv
<1> QED
  BY <1>1, Invariance, PTL

(* Nothing is taken behind the farewell.                                   *)
THEOREM NothingAfterBye == Spec => []ByeIsLast
<1>1. IInv => ByeIsLast
  BY DEF IInv, ByeInv, ByeIsLast
<1> QED
  BY <1>1, Invariance, PTL

(* Stop of the receiver lets at most one more packet in.                   *)
THEOREM OneLateWrite == Spec => []LateWrites
<1>1. IInv => LateWrites
  BY DEF IInv, LateInv, LateWrites
<1> QED
  BY <1>1, Invariance, PTL
-----------------------------------------------------------------------------
(***************************************************************************)
(* The segment implements SlotHandoff.                                     *)
(***************************************************************************)

(* The initial segment is an empty, open place.                            *)
LEMMA HandoffInit == Init => Handoff!Init
BY DEF Init, Handoff!Init, Pending, Closed

(* Every step of the segment is a step of the abstract place, or none.     *)
LEMMA HandoffStep == IInv /\ [Next]_vars => [Handoff!Next]_(Handoff!vars)
<1> SUFFICES ASSUME IInv, [Next]_vars PROVE [Handoff!Next]_(Handoff!vars)
  OBVIOUS
<1> USE DEF IInv, TypeOK, ControlOK, PacketsOK
<1> USE DEF segment, memory, flags, locals, history
<1>1. ASSUME NEW s \in Senders, Call(s)
      PROVE  UNCHANGED Handoff!vars
  BY <1>1 DEF Call, Goto, Pending, Closed, Handoff!vars
<1>2. ASSUME NEW s \in Senders, SendCommit(s)
      PROVE  [Handoff!Next]_(Handoff!vars)
  <2>1. UNCHANGED <<taken, Closed, flapped>>
    BY <1>2 DEF SendCommit, Goto, Closed
  <2>2. pkt[s] \in Packet
    <3>1. pkt[s] = <<s, calls[s]>> /\ calls[s] \in 1..MaxCalls
      BY <1>2 DEF SendCommit, SlotInv, Unpublished
    <3> QED
      BY <3>1 DEF Packet
  <2>3. CASE newMsg
    <3>1. flapped
      BY <1>2, <2>3 DEF SendCommit, EmptyInv
    <3>2. Pending' = <<pkt[s]>>
      BY <1>2, <2>3 DEF SendCommit, Pending, LockInv, Holds, Goto
    <3>3. Handoff!Put(pkt[s])
      BY <2>1, <3>1, <3>2 DEF Handoff!Put
    <3> QED
      BY <2>2, <3>3 DEF Handoff!Next
  <2>4. CASE ~newMsg
    <3>1. UNCHANGED Pending
      BY <1>2, <2>4 DEF SendCommit, Pending
    <3> QED
      BY <2>1, <3>1 DEF Handoff!vars
  <2> QED
    BY <2>3, <2>4
<1>3. ASSUME NEW s \in Senders, SendPublish(s)
      PROVE  [Handoff!Next]_(Handoff!vars)
  <2>1. UNCHANGED <<taken, Closed, flapped>>
    BY <1>3 DEF SendPublish, Goto, Closed
  <2>2. slot \in Packet
    <3>1. pkt[s] = <<s, calls[s]>> /\ calls[s] \in 1..MaxCalls /\ slot = pkt[s]
      BY <1>3 DEF SendPublish, SlotInv, Unpublished
    <3> QED
      BY <3>1 DEF Packet
  <2>3. Pending' = <<slot>>
    BY <1>3 DEF SendPublish, Pending, LockInv, Holds, Goto
  <2>4. CASE Pending = <<>>
    <3>1. Handoff!Put(slot)
      BY <2>1, <2>3, <2>4 DEF Handoff!Put
    <3> QED
      BY <2>2, <3>1 DEF Handoff!Next
  <2>5. CASE Pending # <<>>
    <3>1. UNCHANGED Pending
      BY <2>3, <2>5 DEF Pending
    <3> QED
      BY <2>1, <3>1 DEF Handoff!vars
  <2> QED
    BY <2>4, <2>5
<1>4. CASE RecvTake
  <2>1. /\ pc[Receiver] = "r_check" /\ pc'[Receiver] = "r_clear"
        /\ taken' = Append(taken, slot)
        /\ UNCHANGED flapped
    BY <1>4 DEF RecvTake, Goto
  <2>2. newMsg /\ slot \in Packet
    BY <1>4 DEF RecvTake, WaitInv, SlotInv
  <2>3. Pending = <<slot>> /\ Pending' = <<>>
    BY <2>1, <2>2 DEF Pending
  <2>4. \A i \in 1..Len(taken) : taken[i] \notin Farewell
    BY <2>1 DEF ByeInv
  <2>5. ~Closed /\ Closed' = (slot \in Farewell)
    <3>1. ~Closed
      BY <2>1, <2>4 DEF Closed
    <3>2. \A i \in 1..Len(taken') :
            taken'[i] \in Farewell <=> i = Len(taken') /\ slot \in Farewell
      BY <2>1, <2>2, <2>4
    <3>3. Len(taken') \in 1..Len(taken')
      BY <2>1, <2>2
    <3>4. Closed' <=> slot \in Farewell
      BY <2>1, <3>2, <3>3 DEF Closed
    <3>5. CASE slot \in Farewell
      <4>1. Closed' = TRUE /\ (slot \in Farewell) = TRUE
        BY <3>4, <3>5 DEF Closed
      <4> QED
        BY <3>1, <4>1
    <3>6. CASE slot \notin Farewell
      <4>1. Closed' = FALSE /\ (slot \in Farewell) = FALSE
        BY <3>4, <3>6 DEF Closed
      <4> QED
        BY <3>1, <4>1
    <3> QED
      BY <3>5, <3>6
  <2>6. Handoff!Take
    BY <2>1, <2>3, <2>5 DEF Handoff!Take
  <2> QED
    BY <2>6 DEF Handoff!Next
<1>5. CASE RecvClear
  BY <1>5 DEF RecvClear, Goto, Pending, Closed, Handoff!vars
<1>6. CASE Quiet
  <2>1. UNCHANGED <<Pending, taken>>
    BY <1>6 DEF Quiet, Pending
  <2>2. Closed => Closed'
    BY <1>6, <2>1 DEF Quiet, Closed, RecvKick
  <2>3. flapped' = flapped \/ (flapped' = TRUE /\ Closed' = Closed)
    <3>1. flapped' \in BOOLEAN /\ flapped \in BOOLEAN /\ (flapped => flapped')
      BY <1>6, FlagsStep DEF Quiet, FlagsOK
    <3>2. pc'[Receiver] = pc[Receiver] => Closed' = Closed
      BY <2>1 DEF Closed
    <3> QED
      BY <1>6, <3>1, <3>2 DEF Quiet
  <2>4. CASE flapped' # flapped
    BY <2>1, <2>3, <2>4 DEF Handoff!Flap, Handoff!Next
  <2>5. CASE flapped' = flapped /\ Closed' # Closed
    <3>1. ~Closed /\ Closed' = TRUE
      BY <2>2, <2>5 DEF Closed
    <3> QED
      BY <2>1, <2>5, <3>1 DEF Handoff!Close, Handoff!Next
  <2>6. CASE flapped' = flapped /\ Closed' = Closed
    BY <2>1, <2>6 DEF Handoff!vars
  <2> QED
    BY <2>4, <2>5, <2>6
<1> QED
  BY <1>1, <1>2, <1>3, <1>4, <1>5, <1>6, StepCases

(* One direction of a channel is a place for one packet: every packet that *)
(* is put is taken once and in order, nothing is taken behind the farewell *)
(* or after the receiver left, and only a flap may replace a packet.       *)
THEOREM Implementation == Spec => HandoffSpec
BY HandoffInit, HandoffStep, Invariance, PTL DEF Spec, HandoffSpec, Handoff!Spec
=============================================================================
