---------------------------- MODULE ChannelData ----------------------------
(***************************************************************************)
(* One direction of an IpcShmChannel: the ChannelData segment that the     *)
(* receiving process created in shared memory, from the moment both sides  *)
(* have it (the receiver in the inner loop of recv_loop, the sender in the *)
(* inner loop of send_loop) until both have left it.                       *)
(*                                                                         *)
(* The segment holds one packet, an interprocess mutex and an interprocess *)
(* condition on which BOTH sides wait: the receiver (without a deadline)   *)
(* for new_msg, every thread of the sending process that is in send_packet *)
(* (for at most CHANNEL_TIME_OUT) for its absence.  The two connection     *)
(* flags and the two running_ flags are process-local atomics that other   *)
(* threads write without the mutex.                                        *)
(*                                                                         *)
(* An action is a stretch of code between two points at which another      *)
(* thread can interfere.  Taking a mutex is joined with the evaluation of  *)
(* the wait predicate that follows it; entering a wait, the copy of a      *)
(* packet, its publication and each notification are steps of their own.   *)
(***************************************************************************)
EXTENDS Naturals, Sequences

CONSTANTS
  Senders,    \* threads of the sending process that call send_packet
  SendLoop,   \* ... the one in send_loop, which also unmaps the segment
  HeartBeat,  \* ... the one in heart_beat_loop, which gives the peer up
  PeerRecv,   \* ... the one in recv_loop: pong, and the peer's hello
  App,        \* ... the one in Stop: bye
  Receiver,   \* the thread of the receiving process in recv_loop
  Monitor,    \* the thread of the receiving process in heart_beat_loop
  Stopper,    \* the thread of the receiving process in Stop
  None,       \* no thread, no packet
  MaxCalls    \* bound: send_packet calls of each sending thread

ReceiverSide == {Receiver, Monitor, Stopper}
Threads == Senders \union ReceiverSide

ASSUME ThreadAssumption ==
  /\ {SendLoop, HeartBeat, PeerRecv, App} \subseteq Senders
  /\ App \notin {SendLoop, HeartBeat, PeerRecv}
  /\ Senders \intersect ReceiverSide = {}
  /\ Receiver # Monitor /\ Receiver # Stopper /\ Monitor # Stopper
  /\ None \notin Threads
  /\ MaxCalls \in Nat

(***************************************************************************)
(* A packet is named by the thread that sends it and the number of that    *)
(* thread's call; only Stop sends the farewell (client_byebye or           *)
(* server_byebye), only send_loop sends messages, which may be cut into    *)
(* chunks.                                                                 *)
(***************************************************************************)
Packet == Senders \X (1..MaxCalls)
Farewell == {p \in Packet : p[1] = App}
MaybeChunk == {p \in Packet : p[1] = SendLoop}

VARIABLES
  mutex,          \* the thread that owns ChannelData::mutex
  waiters,        \* threads blocked on ChannelData::cond
  slot,           \* ChannelData::buffer, size and ev_type: the packet in it
  newMsg,         \* ChannelData::new_msg
  senderWorking,  \* ChannelData::sender_working
  recverWorking,  \* ChannelData::recver_working
  sendConnected,  \* send_channel_connected_ of the sending process
  sendRunning,    \* running_ of the sending process
  mapped,         \* the sending process has the segment in send_region_
  recvConnected,  \* recv_channel_connected_ of the receiving process
  recvRunning,    \* running_ of the receiving process
  pc,             \* where each thread is
  pkt,            \* the packet each sending thread is in send_packet with
  calls,          \* send_packet calls made by each sending thread
  sawWorking,     \* the receiver's local sender_working
  written,        \* history: packets published, in order
  taken,          \* history: packets copied out, in order
  flapped,        \* history: sendConnected went from FALSE back to TRUE
  late            \* history: packets published after recverWorking fell

memory == <<slot, newMsg, senderWorking, recverWorking>>
segment == <<mutex, waiters, memory>>
flags == <<sendConnected, sendRunning, mapped, recvConnected, recvRunning>>
locals == <<pkt, calls, sawWorking>>
history == <<written, taken, flapped, late>>
vars == <<segment, flags, pc, locals, history>>

SenderPC == {"idle", "s_lock", "s_block", "s_wait", "s_expired", "s_commit",
             "s_publish", "s_notify", "s_kick", "h_notify", "closing", "stopped"}
ReceiverPC == {"r_top", "r_lock", "r_block", "r_wait", "r_check", "r_clear",
               "r_kick", "r_quit", "r_left"}
MonitorPC == {"m_idle", "m_notify", "m_done"}
StopperPC == {"t_idle", "t_flag", "t_notify", "t_done"}

PC == SenderPC \union ReceiverPC \union MonitorPC \union StopperPC

(* The one type invariant of the module: where the threads are, and what   *)
(* the variables hold.                                                     *)
ControlOK ==
  /\ mutex \in Threads \union {None}
  /\ waiters \subseteq Threads
  /\ pc \in [Threads -> PC]
  /\ \A s \in Senders : pc[s] \in SenderPC
  /\ pc[Receiver] \in ReceiverPC
  /\ pc[Monitor] \in MonitorPC
  /\ pc[Stopper] \in StopperPC

FlagsOK ==
  /\ newMsg \in BOOLEAN
  /\ senderWorking \in BOOLEAN
  /\ recverWorking \in BOOLEAN
  /\ sendConnected \in BOOLEAN
  /\ sendRunning \in BOOLEAN
  /\ mapped \in BOOLEAN
  /\ recvConnected \in BOOLEAN
  /\ recvRunning \in BOOLEAN
  /\ sawWorking \in BOOLEAN
  /\ flapped \in BOOLEAN

PacketsOK ==
  /\ slot \in Packet \union {None}
  /\ pkt \in [Senders -> Packet \union {None}]
  /\ calls \in [Senders -> 0..MaxCalls]
  /\ written \in Seq(Packet)
  /\ taken \in Seq(Packet)
  /\ late \in Nat

TypeOK == ControlOK /\ FlagsOK /\ PacketsOK

Goto(t, label) == pc' = [pc EXCEPT ![t] = label]

(***************************************************************************)
(* The mutex and the condition.  pthread_cond_wait may return without a    *)
(* notification (SpuriousWakeup below); notify_one wakes any one waiter,   *)
(* of either process.                                                      *)
(***************************************************************************)
Free == mutex = None
Acquire_Barging(t) == mutex' = t  \* mutant: does not wait for the owner
Acquire(t) == Free /\ mutex' = t
Release == mutex' = None

NotifyOne ==
  IF waiters = {}
  THEN UNCHANGED waiters
  ELSE \E t \in waiters : waiters' = waiters \ {t}

NotifyAll == waiters' = {}

Awake(t) == t \notin waiters
-----------------------------------------------------------------------------
(***************************************************************************)
(* send_packet, in any thread of the sending process.  Every step after    *)
(* the null check of send_channel_ touches the segment, hence the guard    *)
(* `mapped': the program faults where the segment is gone, and the model   *)
(* gives the thread no further step.                                       *)
(***************************************************************************)

(* The predicate of the wait in send_packet.                               *)
MaySend_IgnoresSlot == sendConnected  \* mutant: does not wait for the slot
MaySend == ~sendConnected \/ ~newMsg

(* What keeps send_packet from writing once it is connected.               *)
Stopping_LocalOnly == ~sendRunning  \* mutant: forgets the receiver's flag
Stopping == ~sendRunning \/ ~recverWorking

(* sender_working after the packet: the farewell clears it.                *)
WorkingAfter_NoBye(p) == senderWorking  \* mutant: forgets the farewell
WorkingAfter(p) == senderWorking /\ p \notin Farewell

(* send_packet returns; Stop goes on to clear running_.                    *)
Return(s) == Goto(s, IF s = App THEN "closing" ELSE "idle")

(* The call, with the null check of send_channel_.  send_loop calls only   *)
(* with a packet that pop_packet returned while connected; Stop calls once,*)
(* with bye.                                                               *)
Call(s) ==
  /\ mapped
  /\ pc[s] = "idle"
  /\ s = SendLoop => sendConnected
  /\ calls[s] < MaxCalls
  /\ calls' = [calls EXCEPT ![s] = @ + 1]
  /\ pkt' = [pkt EXCEPT ![s] = <<s, calls[s] + 1>>]
  /\ Goto(s, "s_lock")
  /\ UNCHANGED <<segment, flags, sawWorking, history>>

(* scoped_lock, or the re-acquisition inside the wait after a wake-up, and *)
(* the predicate.                                                          *)
SendAcquire(s) ==
  /\ mapped
  /\ pc[s] \in {"s_lock", "s_wait"}
  /\ Awake(s)
  /\ Acquire(s)
  /\ Goto(s, IF MaySend THEN "s_commit" ELSE "s_block")
  /\ UNCHANGED <<waiters, memory, flags, locals, history>>

(* The wait gives up the mutex and joins the waiters in one step.          *)
SendBlock(s) ==
  /\ mapped
  /\ pc[s] = "s_block"
  /\ Release
  /\ waiters' = waiters \union {s}
  /\ Goto(s, "s_wait")
  /\ UNCHANGED <<memory, flags, locals, history>>

(* CHANNEL_TIME_OUT elapses: the waiter leaves the condition by itself.    *)
SendTimeout_Never(s) == FALSE /\ UNCHANGED vars  \* mutant: no deadline
SendTimeout(s) ==
  /\ mapped
  /\ pc[s] = "s_wait"
  /\ s \in waiters
  /\ waiters' = waiters \ {s}
  /\ Goto(s, "s_expired")
  /\ UNCHANGED <<mutex, memory, flags, locals, history>>

(* ... takes the mutex back and asks the predicate once more; if it is     *)
(* still false, send_packet returns false and the lock's destructor        *)
(* releases the mutex.                                                     *)
SendExpired(s) ==
  /\ mapped
  /\ pc[s] = "s_expired"
  /\ Free
  /\ IF MaySend
     THEN mutex' = s /\ Goto(s, "s_commit")
     ELSE UNCHANGED mutex /\ Return(s)
  /\ UNCHANGED <<waiters, memory, flags, locals, history>>

(* Under the mutex: not connected; or this process is stopping or the      *)
(* receiver no longer working; or the packet is copied into the buffer.    *)
SendRefused(s) ==
  /\ mapped
  /\ pc[s] = "s_commit"
  /\ ~sendConnected
  /\ Release
  /\ Return(s)
  /\ UNCHANGED <<waiters, memory, flags, locals, history>>

SendToStopped(s) ==
  /\ mapped
  /\ pc[s] = "s_commit"
  /\ sendConnected
  /\ Stopping
  /\ Release
  /\ Goto(s, "s_kick")
  /\ UNCHANGED <<waiters, memory, flags, locals, history>>

SendCommit(s) ==
  /\ mapped
  /\ pc[s] = "s_commit"
  /\ sendConnected
  /\ ~Stopping
  /\ slot' = pkt[s]
  /\ Goto(s, "s_publish")
  /\ UNCHANGED <<mutex, waiters, newMsg, senderWorking, recverWorking>>
  /\ UNCHANGED <<flags, locals, history>>

(* new_msg, and sender_working with the farewell; unlock.                  *)
SendPublish(s) ==
  /\ mapped
  /\ pc[s] = "s_publish"
  /\ newMsg' = TRUE
  /\ senderWorking' = WorkingAfter(pkt[s])
  /\ Release
  /\ Goto(s, "s_notify")
  /\ written' = Append(written, pkt[s])
  /\ late' = IF recverWorking THEN late ELSE late + 1
  /\ UNCHANGED <<waiters, slot, recverWorking>>
  /\ UNCHANGED <<flags, locals, taken, flapped>>

SendNotifyAll(s) ==
  /\ mapped
  /\ pc[s] = "s_notify"
  /\ NotifyAll
  /\ Return(s)
  /\ UNCHANGED <<mutex, memory, flags, locals, history>>

SendKick(s) ==
  /\ mapped
  /\ pc[s] = "s_kick"
  /\ NotifyOne
  /\ Return(s)
  /\ UNCHANGED <<mutex, memory, flags, locals, history>>
-----------------------------------------------------------------------------
(***************************************************************************)
(* What else the sending process does to its flags and its mapping.        *)
(***************************************************************************)

(* heart_beat_loop gives the peer up: set_send_channel_status(false).  It  *)
(* notifies the packet queue, not the waiters of the segment.              *)
GiveUpPeer ==
  /\ pc[HeartBeat] = "idle"
  /\ sendConnected
  /\ sendConnected' = FALSE
  /\ UNCHANGED <<segment, sendRunning, mapped, recvConnected, recvRunning>>
  /\ UNCHANGED <<pc, locals, history>>

(* recv_loop of the sending process hears the peer's hello:                *)
(* set_send_channel_status(true) stores the flag, then notifies one waiter *)
(* of the segment it still holds.                                          *)
HearHello ==
  /\ mapped
  /\ pc[PeerRecv] = "idle"
  /\ sendConnected' = TRUE
  /\ flapped' = (flapped \/ ~sendConnected)
  /\ Goto(PeerRecv, "h_notify")
  /\ UNCHANGED <<segment, sendRunning, mapped, recvConnected, recvRunning>>
  /\ UNCHANGED <<locals, written, taken, late>>

HelloNotify ==
  /\ pc[PeerRecv] = "h_notify"
  /\ IF mapped THEN NotifyOne ELSE UNCHANGED waiters
  /\ Goto(PeerRecv, "idle")
  /\ UNCHANGED <<mutex, memory, flags, locals, history>>

(* Stop, after bye has returned: running_ = false.                         *)
StopSending ==
  /\ pc[App] = "closing"
  /\ sendRunning' = FALSE
  /\ Goto(App, "stopped")
  /\ UNCHANGED <<segment, sendConnected, mapped, recvConnected, recvRunning>>
  /\ UNCHANGED <<locals, history>>

(* send_loop sees the lowered flag and resets the send channel, which      *)
(* unmaps the segment whatever the other threads are doing in it.          *)
ResetSendChannel ==
  /\ mapped
  /\ pc[SendLoop] = "idle"
  /\ ~sendConnected
  /\ mapped' = FALSE
  /\ UNCHANGED <<segment, sendConnected, sendRunning, recvConnected, recvRunning>>
  /\ UNCHANGED <<pc, locals, history>>
-----------------------------------------------------------------------------
(***************************************************************************)
(* recv_loop and recv of the receiving process.                            *)
(***************************************************************************)

(* The predicate of the wait in recv.                                      *)
MayRecv_Always == TRUE  \* mutant: takes whatever is in the slot
MayRecv == newMsg \/ ~recvConnected

(* recv_loop leaves the segment and reports stop_listen, which lowers the  *)
(* flag.                                                                   *)
Leave ==
  /\ Goto(Receiver, "r_left")
  /\ recvConnected' = FALSE
  /\ UNCHANGED <<sendConnected, sendRunning, mapped, recvRunning>>

(* while (recv_channel_connected_)                                         *)
RecvLoopTest ==
  /\ pc[Receiver] = "r_top"
  /\ IF recvConnected
     THEN Goto(Receiver, "r_lock") /\ UNCHANGED flags
     ELSE Leave
  /\ UNCHANGED <<segment, locals, history>>

RecvAcquire ==
  /\ pc[Receiver] \in {"r_lock", "r_wait"}
  /\ Awake(Receiver)
  /\ Acquire(Receiver)
  /\ Goto(Receiver, IF MayRecv THEN "r_check" ELSE "r_block")
  /\ UNCHANGED <<waiters, memory, flags, locals, history>>

RecvBlock ==
  /\ pc[Receiver] = "r_block"
  /\ Release
  /\ waiters' = waiters \union {Receiver}
  /\ Goto(Receiver, "r_wait")
  /\ UNCHANGED <<memory, flags, locals, history>>

(* Not connected or not running: unlock, notify_one, return false.         *)
RecvRefused ==
  /\ pc[Receiver] = "r_check"
  /\ ~recvConnected \/ ~recvRunning
  /\ Release
  /\ Goto(Receiver, "r_quit")
  /\ UNCHANGED <<waiters, memory, flags, locals, history>>

RecvQuit ==
  /\ pc[Receiver] = "r_quit"
  /\ NotifyOne
  /\ Leave
  /\ UNCHANGED <<mutex, memory, locals, history>>

(* Copies the packet and sender_working out of the segment.                *)
RecvTake ==
  /\ pc[Receiver] = "r_check"
  /\ recvConnected
  /\ recvRunning
  /\ taken' = Append(taken, slot)
  /\ sawWorking' = senderWorking
  /\ Goto(Receiver, "r_clear")
  /\ UNCHANGED <<segment, flags, pkt, calls, written, flapped, late>>

(* new_msg = false; unlock.                                                *)
RecvClear_NoReset ==  \* mutant: leaves new_msg set
  /\ pc[Receiver] = "r_clear"
  /\ Release
  /\ Goto(Receiver, "r_kick")
  /\ UNCHANGED <<waiters, memory, flags, locals, history>>

RecvClear ==
  /\ pc[Receiver] = "r_clear"
  /\ newMsg' = FALSE
  /\ Release
  /\ Goto(Receiver, "r_kick")
  /\ UNCHANGED <<waiters, slot, senderWorking, recverWorking>>
  /\ UNCHANGED <<flags, locals, history>>

(* notify_one; recv returns the sender_working it saw, or true if the      *)
(* packet does not complete a message, and recv_loop goes on if it is true.*)
RecvKick ==
  /\ pc[Receiver] = "r_kick"
  /\ NotifyOne
  /\ \/ /\ sawWorking \/ taken[Len(taken)] \in MaybeChunk
        /\ Goto(Receiver, "r_top")
        /\ UNCHANGED flags
     \/ ~sawWorking /\ Leave
  /\ UNCHANGED <<mutex, memory, locals, history>>
-----------------------------------------------------------------------------
(***************************************************************************)
(* The other threads of the receiving process.                             *)
(***************************************************************************)

(* heart_beat_loop gives the peer up: set_recv_channel_status(false)       *)
(* stores the flag without the mutex, then notifies one waiter.            *)
Disconnect ==
  /\ pc[Monitor] = "m_idle"
  /\ recvConnected' = FALSE
  /\ Goto(Monitor, "m_notify")
  /\ UNCHANGED <<segment, sendConnected, sendRunning, mapped, recvRunning>>
  /\ UNCHANGED <<locals, history>>

DisconnectNotify ==
  /\ pc[Monitor] = "m_notify"
  /\ NotifyOne
  /\ Goto(Monitor, "m_done")
  /\ UNCHANGED <<mutex, memory, flags, locals, history>>

(* Stop: running_ = false, recver_working = false (no mutex), notify_all.  *)
StopReceiving ==
  /\ pc[Stopper] = "t_idle"
  /\ recvRunning' = FALSE
  /\ Goto(Stopper, "t_flag")
  /\ UNCHANGED <<segment, sendConnected, sendRunning, mapped, recvConnected>>
  /\ UNCHANGED <<locals, history>>

StopRecverWorking ==
  /\ pc[Stopper] = "t_flag"
  /\ recverWorking' = FALSE
  /\ Goto(Stopper, "t_notify")
  /\ UNCHANGED <<mutex, waiters, slot, newMsg, senderWorking>>
  /\ UNCHANGED <<flags, locals, history>>

StopNotify ==
  /\ pc[Stopper] = "t_notify"
  /\ NotifyAll
  /\ Goto(Stopper, "t_done")
  /\ UNCHANGED <<mutex, memory, flags, locals, history>>

(* A condition wait may end without a notification.                        *)
SpuriousWakeup(t) ==
  /\ t \in waiters
  /\ waiters' = waiters \ {t}
  /\ UNCHANGED <<mutex, memory, flags, pc, locals, history>>
-----------------------------------------------------------------------------
Init ==
  /\ mutex = None
  /\ waiters = {}
  /\ slot = None
  /\ newMsg = FALSE
  /\ senderWorking = TRUE
  /\ recverWorking = TRUE
  /\ sendConnected = TRUE
  /\ sendRunning = TRUE
  /\ mapped = TRUE
  /\ recvConnected = TRUE
  /\ recvRunning = TRUE
  /\ pc = [t \in Threads |-> CASE t \in Senders -> "idle"
                               [] t = Receiver  -> "r_top"
                               [] t = Monitor   -> "m_idle"
                               [] OTHER         -> "t_idle"]
  /\ pkt = [s \in Senders |-> None]
  /\ calls = [s \in Senders |-> 0]
  /\ sawWorking = TRUE
  /\ written = <<>>
  /\ taken = <<>>
  /\ flapped = FALSE
  /\ late = 0

(* The steps inside send_packet that need neither the mutex nor time.      *)
SendStep(s) ==
  \/ SendBlock(s)
  \/ SendRefused(s)
  \/ SendToStopped(s)
  \/ SendCommit(s)
  \/ SendPublish(s)
  \/ SendNotifyAll(s)
  \/ SendKick(s)

RecvStep ==
  \/ RecvLoopTest
  \/ RecvBlock
  \/ RecvRefused
  \/ RecvQuit
  \/ RecvTake
  \/ RecvClear
  \/ RecvKick

SenderNext ==
  \/ \E s \in Senders : \/ Call(s) \/ SendStep(s)
                        \/ SendAcquire(s) \/ SendTimeout(s) \/ SendExpired(s)
  \/ GiveUpPeer
  \/ HearHello
  \/ HelloNotify
  \/ StopSending
  \/ ResetSendChannel

ReceiverNext ==
  \/ RecvAcquire
  \/ RecvStep
  \/ Disconnect
  \/ DisconnectNotify
  \/ StopReceiving
  \/ StopRecverWorking
  \/ StopNotify

Next ==
  \/ SenderNext
  \/ ReceiverNext
  \/ \E t \in Threads : SpuriousWakeup(t)

(***************************************************************************)
(* Fairness: a thread that can run does run, and a thread that waits for   *)
(* the mutex gets it if the mutex keeps becoming free.  The deadline of    *)
(* the wait in send_packet is an absolute time, so it is reached even if   *)
(* wake-ups interrupt the wait again and again: strong fairness of the     *)
(* timeout.  Nothing obliges anybody to call, to give a peer up, to say    *)
(* hello or to stop, and no wait has to end spuriously.                    *)
(***************************************************************************)
Fairness ==
  /\ \A s \in Senders : /\ WF_vars(SendStep(s))
                        /\ SF_vars(SendAcquire(s) \/ SendExpired(s))
                        /\ SF_vars(SendTimeout(s))
  /\ WF_vars(HelloNotify)
  /\ WF_vars(StopSending)
  /\ WF_vars(ResetSendChannel)
  /\ SF_vars(RecvAcquire)
  /\ WF_vars(RecvStep)
  /\ WF_vars(DisconnectNotify)
  /\ WF_vars(StopRecverWorking \/ StopNotify)

Spec == Init /\ [][Next]_vars
FairSpec == Spec /\ Fairness
-----------------------------------------------------------------------------
(***************************************************************************)
(* Properties.                                                             *)
(***************************************************************************)

(* Inside send_packet, between its null check and its return.              *)
InSend(s) == pc[s] \in {"s_lock", "s_block", "s_wait", "s_expired", "s_commit",
                        "s_publish", "s_notify", "s_kick"}

(* Between the acquisition of the segment's mutex and its release.         *)
Holds(t) == pc[t] \in {"s_block", "s_commit", "s_publish",
                       "r_block", "r_check", "r_clear"}

(* The packet published and not yet copied out.                            *)
Pending == IF newMsg /\ pc[Receiver] # "r_clear" THEN <<slot>> ELSE <<>>

(* The segment's buffer and flags are never in the hands of two threads,   *)
(* of the same or of different processes: no copy into the buffer overlaps *)
(* another or the copy out of it.                                          *)
MutualExclusion == \A t, u \in Threads : Holds(t) /\ Holds(u) => t = u

(* As long as the sender's connection status has not flapped, the receiver *)
(* gets every packet send_packet reported as sent, once and in order; only *)
(* the last one can still be in the buffer.                                *)
NoPacketLost == ~flapped => written = taken \o Pending

(* Even when a flap lets a sender overwrite an unread packet, no packet is *)
(* handed to the receiver twice.                                           *)
TakenOnce == \A i, j \in 1..Len(taken) : taken[i] = taken[j] => i = j

(* The receiver never sleeps on an unread packet unless the notification   *)
(* that will wake it is still to come: recv waits without a deadline, so a *)
(* wake-up that went to somebody else would leave the packet there.        *)
NoMissedWakeup ==
  newMsg /\ Receiver \in waiters => \E s \in Senders : pc[s] = "s_notify"

(* Nothing is taken from a segment after the farewell: whatever a sender   *)
(* still manages to publish behind it (Stop clears running_ only after bye *)
(* returned) belongs to no session the receiver would continue.            *)
ByeIsLast == \A i \in 1..Len(taken) : taken[i] \in Farewell => i = Len(taken)

(* Once Stop of the receiver has cleared recver_working, at most one       *)
(* packet still gets in: the one whose sender had already passed the test. *)
LateWrites == late <= 1

(* Nobody is inside send_packet when send_loop unmaps the segment.         *)
MappedWhileUsed == ~mapped => \A s \in Senders : ~InSend(s)

(* Every send_packet call ends, unless the segment was unmapped under it:  *)
(* the deadline of the wait covers all the lost and misdirected wake-ups.  *)
SendReturns == \A s \in Senders : InSend(s) ~> (~InSend(s) \/ ~mapped)

(* A published packet is taken, or abandoned by a receiver that left or a  *)
(* sending process that unmapped the segment under its own threads.        *)
PacketConsumed == newMsg ~> (~newMsg \/ pc[Receiver] = "r_left" \/ ~mapped)

(* A receiver whose peer was given up leaves the segment (unless a sender  *)
(* that lost its mapping died with the mutex).                             *)
DisconnectHeeded == ~recvConnected ~> (pc[Receiver] = "r_left" \/ ~mapped)

(* The receiver takes no more: it is leaving, or has heard the farewell.   *)
Closed ==
  \/ pc[Receiver] \in {"r_quit", "r_left"}
  \/ \E i \in 1..Len(taken) : taken[i] \in Farewell

(* The segment implements a place for one packet: publishing is the put,   *)
(* the copy out of the buffer the take.                                    *)
Handoff == INSTANCE SlotHandoff WITH inFlight <- Pending, closed <- Closed
HandoffSpec == Handoff!Spec
-----------------------------------------------------------------------------
(***************************************************************************)
(* The inductive invariant behind the safety properties.                   *)
(***************************************************************************)

(* In send_packet with a packet that is not yet published.                 *)
Unpublished(s) == pc[s] \in {"s_lock", "s_block", "s_wait", "s_expired",
                             "s_commit", "s_publish"}

(* The owner of the mutex, and no other thread, is in a critical section:  *)
(* no way out of send_packet or recv leaves the mutex locked.              *)
LockInv == \A t \in Threads : Holds(t) <=> mutex = t

(* What the slot holds, and which packet a sending thread is about to put. *)
SlotInv ==
  /\ newMsg => slot \in Packet
  /\ \A s \in Senders : Unpublished(s) => pkt[s] = <<s, calls[s]>> /\ calls[s] >= 1
  /\ \A s \in Senders : pc[s] = "s_publish" => slot = pkt[s]

(* The receiver copies only a packet that is there, and goes to sleep only *)
(* on an empty slot.                                                       *)
WaitInv ==
  /\ pc[Receiver] = "r_check" /\ recvConnected => newMsg
  /\ pc[Receiver] = "r_block" => ~newMsg

(* Until a flap, a sender that goes on to write finds the slot empty.      *)
EmptyInv ==
  ~flapped =>
    \A s \in Senders :
      \/ pc[s] = "s_publish"
      \/ pc[s] = "s_commit" /\ sendConnected
      => ~newMsg

(* The farewell in the slot goes with sender_working = FALSE, and the      *)
(* receiver that took it is on its way out.                                *)
ByeInv ==
  /\ newMsg /\ slot \in Farewell /\ (\A s \in Senders : pc[s] # "s_publish")
       => ~senderWorking
  /\ \A i \in 1..Len(taken) :
       taken[i] \in Farewell =>
         /\ i = Len(taken)
         /\ ~sawWorking
         /\ pc[Receiver] \in {"r_clear", "r_kick", "r_left"}

(* A sender between test and publication can be late only as the first.    *)
LateInv ==
  \/ late = 0
  \/ late = 1 /\ ~recverWorking /\ \A s \in Senders : pc[s] # "s_publish"

(* A packet is new to the receiver until it is taken: packets carry the    *)
(* number of their call, and the slot is emptied before it is filled again.*)
FreshInv ==
  /\ \A i \in 1..Len(taken) : taken[i][2] <= calls[taken[i][1]]
  /\ \A s \in Senders : Unpublished(s) => \A i \in 1..Len(taken) : taken[i] # pkt[s]
  /\ newMsg => slot[2] <= calls[slot[1]]
  /\ newMsg /\ pc[Receiver] # "r_clear" => \A i \in 1..Len(taken) : taken[i] # slot
  /\ \A s \in Senders : Unpublished(s) /\ newMsg /\ slot = pkt[s] => pc[s] = "s_publish"

IInv ==
  /\ TypeOK
  /\ LockInv
  /\ SlotInv
  /\ WaitInv
  /\ EmptyInv
  /\ NoPacketLost
  /\ NoMissedWakeup
  /\ ByeInv
  /\ LateInv
  /\ FreshInv
  /\ TakenOnce
=============================================================================
