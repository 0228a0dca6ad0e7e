-------------------------- MODULE ChannelLifecycle -------------------------
(***************************************************************************)
(* The life of one IpcShmChannel object in its own process: a user that    *)
(* calls Start, Stop and the destructor, and the three threads that Start  *)
(* creates and Stop joins.  The peer is the environment: it comes and goes,*)
(* and puts packets into the segment this process receives from.           *)
(*                                                                         *)
(* A call of send_packet (bye, hello, ping, pong, the packets of the       *)
(* queue) is one step here: ChannelData shows that it ends, because its    *)
(* wait has a deadline.  The two waits without a deadline, of recv and of  *)
(* pop_packet, are modelled step by step.                                  *)
(***************************************************************************)
EXTENDS Naturals

CONSTANTS
  MaxStarts,   \* bound: calls of Start
  MaxQueued    \* bound: packets in the queue when one more is posted

ASSUME StartAssumption == MaxStarts \in Nat /\ MaxQueued \in Nat

Send == "send_thread_"
Recv == "recv_thread_"
Beat == "heart_beat_thread_"
Workers == {Send, Recv, Beat}

VARIABLES
  running,        \* running_
  sendConnected,  \* send_channel_connected_
  recvConnected,  \* recv_channel_connected_
  queued,         \* number of packets in packet_que_
  newMsg,         \* new_msg of the segment this process receives from
  recverWorking,  \* recver_working of that segment
  peerHere,       \* the peer has its segment up, and can use ours
  asleep,         \* threads blocked on a condition without a deadline
  pc,             \* where each of the three threads is
  joinable,       \* the std::thread members that own a thread
  user,           \* where the user is
  dying,          \* the user is in the destructor
  starts,         \* calls of Start
  terminated,     \* how the process was brought down, if it was
  raised,         \* a hello raised sendConnected since the last predicate of
                  \* pop_packet
  poster          \* where the application's thread that posts is

flags == <<running, sendConnected, recvConnected>>
channel == <<queued, newMsg, recverWorking, peerHere>>
object == <<joinable, user, dying, starts, terminated>>
vars == <<flags, channel, asleep, pc, object, raised, poster>>

Goto(t, label) == pc' = [pc EXCEPT ![t] = label]
Wake(t) == asleep' = asleep \ {t}

(* notify_one on the condition of the receive segment wakes the receive    *)
(* thread, or one of the peer's senders that wait on the same condition.   *)
WakeRecvOrPeer == Wake(Recv) \/ (peerHere /\ UNCHANGED asleep)

Alive == terminated = "no"
-----------------------------------------------------------------------------
(***************************************************************************)
(* recv_loop and recv.                                                     *)
(***************************************************************************)

RecvTop ==
  /\ pc[Recv] = "top"
  /\ Goto(Recv, IF running THEN "create" ELSE "ended")
  /\ UNCHANGED <<flags, channel, asleep, object, raised, poster>>

(* A new segment, in which the receiver says that it works; the thread     *)
(* ends when the segment cannot be made.                                   *)
RecvCreate ==
  /\ pc[Recv] = "create"
  /\ \/ newMsg' = FALSE /\ recverWorking' = TRUE /\ Goto(Recv, "listen")
     \/ UNCHANGED <<newMsg, recverWorking>> /\ Goto(Recv, "ended")
  /\ UNCHANGED <<flags, queued, peerHere, asleep, object, raised, poster>>

(* start_listen raises the flag.                                           *)
RecvListen ==
  /\ pc[Recv] = "listen"
  /\ recvConnected' = TRUE
  /\ Goto(Recv, "test")
  /\ UNCHANGED <<running, sendConnected, channel, asleep, object, raised, poster>>

RecvTest ==
  /\ pc[Recv] = "test"
  /\ Goto(Recv, IF recvConnected THEN "predicate" ELSE "leave")
  /\ UNCHANGED <<flags, channel, asleep, object, raised, poster>>

(* The predicate of the wait in recv, under the segment's mutex ...        *)
MustRecv == newMsg \/ ~recvConnected
RecvPredicate ==
  /\ pc[Recv] = "predicate"
  /\ Goto(Recv, IF MustRecv THEN "take" ELSE "block")
  /\ UNCHANGED <<flags, channel, asleep, object, raised, poster>>

(* ... and the wait, which has no deadline.                                *)
RecvBlock ==
  /\ pc[Recv] = "block"
  /\ asleep' = asleep \union {Recv}
  /\ Goto(Recv, "asleep")
  /\ UNCHANGED <<flags, channel, object, raised, poster>>

RecvAwake ==
  /\ pc[Recv] = "asleep"
  /\ Recv \notin asleep
  /\ Goto(Recv, "predicate")
  /\ UNCHANGED <<flags, channel, asleep, object, raised, poster>>

RecvRefused ==
  /\ pc[Recv] = "take"
  /\ ~recvConnected \/ ~running
  /\ Goto(Recv, "leave")
  /\ UNCHANGED <<flags, channel, asleep, object, raised, poster>>

(* A packet.  The receiver handles it outside the mutex, and leaves after  *)
(* the peer's farewell.                                                    *)
RecvTake ==
  /\ pc[Recv] = "take"
  /\ recvConnected /\ running
  /\ newMsg' = FALSE
  /\ \E next \in {"test", "hello", "leave"} : Goto(Recv, next)
  /\ UNCHANGED <<flags, queued, recverWorking, peerHere, asleep, object, raised, poster>>

(* notify of a hello raises the flag of the other direction, and wakes     *)
(* pop_packet.                                                             *)
RecvHello ==
  /\ pc[Recv] = "hello"
  /\ sendConnected' = TRUE
  /\ Wake(Send)
  /\ raised' = TRUE
  /\ Goto(Recv, "test")
  /\ UNCHANGED <<running, recvConnected, channel, object, poster>>

(* stop_listen lowers the flag.                                            *)
RecvLeave ==
  /\ pc[Recv] = "leave"
  /\ recvConnected' = FALSE
  /\ Goto(Recv, "top")
  /\ UNCHANGED <<running, sendConnected, channel, asleep, object, raised, poster>>
-----------------------------------------------------------------------------
(***************************************************************************)
(* send_loop and pop_packet.                                               *)
(***************************************************************************)
SendTop ==
  /\ pc[Send] = "top"
  /\ Goto(Send, IF running THEN "open" ELSE "ended")
  /\ UNCHANGED <<flags, channel, asleep, object, raised, poster>>

(* Bug: the search for the segment does not look at running_.              *)
SendOpen_Forever ==
  /\ pc[Send] = "open"
  /\ peerHere
  /\ sendConnected' = TRUE
  /\ Goto(Send, "test")
  /\ UNCHANGED <<running, recvConnected, channel, asleep, object, raised, poster>>

(* open_shared_memory tries until the peer's segment is there, but not     *)
(* longer than running_; any other error ends send_loop.  A segment whose  *)
(* receiver does not work is unlinked, and the loop starts again.          *)
SendOpen ==
  /\ pc[Send] = "open"
  /\ \/ running /\ peerHere /\ sendConnected' = TRUE /\ Goto(Send, "test")
     \/ peerHere /\ UNCHANGED sendConnected /\ Goto(Send, "top")
     \/ ~(running /\ ~peerHere) /\ UNCHANGED sendConnected /\ Goto(Send, "ended")
  /\ UNCHANGED <<running, recvConnected, channel, asleep, object, raised, poster>>

SendTest ==
  /\ pc[Send] = "test"
  /\ Goto(Send, IF sendConnected THEN "predicate" ELSE "reset")
  /\ UNCHANGED <<flags, channel, asleep, object, raised, poster>>

(* The predicate of the wait in pop_packet, under pkt_que_mtx_ ...         *)
MustPop == queued > 0 \/ ~sendConnected
SendPredicate ==
  /\ pc[Send] = "predicate"
  /\ Goto(Send, IF MustPop THEN "pop" ELSE "block")
  /\ raised' = FALSE
  /\ UNCHANGED <<flags, channel, asleep, object, poster>>

(* ... and the wait, which has no deadline either.                         *)
SendBlock ==
  /\ pc[Send] = "block"
  /\ asleep' = asleep \union {Send}
  /\ Goto(Send, "asleep")
  /\ UNCHANGED <<flags, channel, object, raised, poster>>

SendAwake ==
  /\ pc[Send] = "asleep"
  /\ Send \notin asleep
  /\ Goto(Send, "predicate")
  /\ UNCHANGED <<flags, channel, asleep, object, raised, poster>>

(* The flag is read again: it may have been raised since the predicate.    *)
(* Taking the front of an empty queue is undefined; here it ends the       *)
(* process.                                                                *)
SendPop ==
  /\ pc[Send] = "pop"
  /\ \/ ~sendConnected /\ Goto(Send, "test") /\ UNCHANGED <<queued, terminated>>
     \/ /\ sendConnected /\ queued > 0
        /\ queued' = queued - 1
        /\ Goto(Send, "send")
        /\ UNCHANGED terminated
     \/ /\ sendConnected /\ queued = 0
        /\ terminated' = "pop"
        /\ UNCHANGED <<queued, pc>>
  /\ UNCHANGED <<flags, newMsg, recverWorking, peerHere, asleep>>
  /\ UNCHANGED <<joinable, user, dying, starts, raised, poster>>

(* send_packet; a packet that was not sent goes back to the queue, unless  *)
(* the direction is down or push_packet refuses it.                        *)
SendPacket ==
  /\ pc[Send] = "send"
  /\ \/ UNCHANGED queued
     \/ sendConnected /\ running /\ queued' = queued + 1
  /\ Goto(Send, "test")
  /\ UNCHANGED <<flags, newMsg, recverWorking, peerHere, asleep, object, raised, poster>>

SendReset ==
  /\ pc[Send] = "reset"
  /\ Goto(Send, "top")
  /\ UNCHANGED <<flags, channel, asleep, object, raised, poster>>
-----------------------------------------------------------------------------
(***************************************************************************)
(* heart_beat_loop.                                                        *)
(***************************************************************************)
BeatTop ==
  /\ pc[Beat] = "top"
  /\ Goto(Beat, IF ~running THEN "ended"
                ELSE IF sendConnected /\ recvConnected THEN "ping" ELSE "pause")
  /\ UNCHANGED <<flags, channel, asleep, object, raised, poster>>

(* Bug: the pause is a wait on the condition of the queue.                 *)
BeatPause_Waits ==
  /\ pc[Beat] = "pause"
  /\ asleep' = asleep \union {Beat}
  /\ Goto(Beat, "top")
  /\ UNCHANGED <<flags, channel, object, raised, poster>>

BeatPause ==
  /\ pc[Beat] = "pause"
  /\ Goto(Beat, "top")
  /\ UNCHANGED <<flags, channel, asleep, object, raised, poster>>

(* After a second, ping.  send_packet refuses to send for a process that   *)
(* stops or a direction that is down, and may fail at any time.            *)
BeatPing ==
  /\ pc[Beat] = "ping"
  /\ \/ running /\ sendConnected /\ Goto(Beat, "top")
     \/ Goto(Beat, "lower_recv")
  /\ UNCHANGED <<flags, channel, asleep, object, raised, poster>>

(* Give the peer up: each flag is stored, then its condition notified.     *)
BeatLowerRecv ==
  /\ pc[Beat] = "lower_recv"
  /\ recvConnected' = FALSE
  /\ Goto(Beat, "wake_recv")
  /\ UNCHANGED <<running, sendConnected, channel, asleep, object, raised, poster>>

BeatWakeRecv ==
  /\ pc[Beat] = "wake_recv"
  /\ WakeRecvOrPeer
  /\ Goto(Beat, "lower_send")
  /\ UNCHANGED <<flags, channel, object, raised, poster>>

BeatLowerSend ==
  /\ pc[Beat] = "lower_send"
  /\ sendConnected' = FALSE
  /\ Goto(Beat, "wake_send")
  /\ UNCHANGED <<running, recvConnected, channel, asleep, object, raised, poster>>

BeatWakeSend ==
  /\ pc[Beat] = "wake_send"
  /\ Wake(Send)
  /\ Goto(Beat, "top")
  /\ UNCHANGED <<flags, channel, object, raised, poster>>
-----------------------------------------------------------------------------
(***************************************************************************)
(* The user: Start, PostMsg, Stop and the destructor.                      *)
(***************************************************************************)
SendHoldsQueue_NotToSleep == pc[Send] = "pop"  \* mutant: unlocks, then waits
SendHoldsQueue == pc[Send] \in {"block", "pop"}    \* pkt_que_mtx_
RecvHoldsSegment == pc[Recv] \in {"block", "take"} \* mutex of the segment

(* A std::thread member that owns a thread must not be assigned to.        *)
Start ==
  /\ user = "idle"
  /\ starts < MaxStarts
  /\ starts' = starts + 1
  /\ \/ /\ joinable = {}
        /\ joinable' = Workers
        /\ pc' = [t \in Workers |-> "top"]
        /\ UNCHANGED terminated
     \/ /\ joinable # {}
        /\ terminated' = "assign"
        /\ UNCHANGED <<joinable, pc>>
  /\ UNCHANGED <<flags, channel, asleep, user, dying, raised, poster>>

(* PostMsg, up to push_packet: the test of running_ stands before the      *)
(* mutex of the queue, and the notification after it.                      *)
PostMsg ==
  /\ poster = "away"
  /\ ~dying
  /\ running
  /\ poster' = "push"
  /\ UNCHANGED <<flags, channel, asleep, pc, object, raised>>

Push ==
  /\ poster = "push"
  /\ ~SendHoldsQueue
  /\ queued < MaxQueued
  /\ queued' = queued + 1
  /\ poster' = "notify"
  /\ UNCHANGED <<flags, newMsg, recverWorking, peerHere, asleep, pc, object, raised>>

PostNotify ==
  /\ poster = "notify"
  /\ Wake(Send)
  /\ poster' = "away"
  /\ UNCHANGED <<flags, channel, pc, object, raised>>

(* Bug: Stop does not look at running_.                                    *)
StopCalled_Always(return) == user' = "bye"

(* The guard of Stop: where it goes on, or where it returns to.            *)
StopCalled(return) == user' = IF running THEN "bye" ELSE return
Stop ==
  /\ user = "idle"
  /\ StopCalled("idle")
  /\ UNCHANGED <<flags, channel, asleep, pc, joinable, dying, starts, terminated, raised, poster>>

(* Whoever destroys the object has seen to it that nobody is posting.      *)
Destroy ==
  /\ user = "idle"
  /\ poster = "away"
  /\ dying' = TRUE
  /\ StopCalled("last_join")
  /\ UNCHANGED <<flags, channel, asleep, pc, joinable, starts, terminated, raised, poster>>

(* After bye, which is over within the deadline of send_packet.            *)
StopRunning ==
  /\ user = "bye"
  /\ running' = FALSE
  /\ user' = "clear"
  /\ UNCHANGED <<sendConnected, recvConnected, channel, asleep, pc>>
  /\ UNCHANGED <<joinable, dying, starts, terminated, raised, poster>>

(* Bug: the queue is emptied without its mutex. *)
ClearSendQueue_Unlocked ==
  /\ user = "clear"
  /\ queued' = 0
  /\ Wake(Send)
  /\ user' = "hush"
  /\ UNCHANGED <<flags, newMsg, recverWorking, peerHere, pc>>
  /\ UNCHANGED <<joinable, dying, starts, terminated, raised, poster>>

ClearSendQueue ==
  /\ user = "clear"
  /\ ~SendHoldsQueue
  /\ queued' = 0
  /\ Wake(Send)
  /\ user' = "hush"
  /\ UNCHANGED <<flags, newMsg, recverWorking, peerHere, pc>>
  /\ UNCHANGED <<joinable, dying, starts, terminated, raised, poster>>

(* recver_working is lowered without the mutex.                            *)
HushReceiver ==
  /\ user = "hush"
  /\ recverWorking' = FALSE
  /\ Wake(Recv)
  /\ user' = Send
  /\ UNCHANGED <<flags, queued, newMsg, peerHere, pc>>
  /\ UNCHANGED <<joinable, dying, starts, terminated, raised, poster>>

(* Bug: the thread is let go of instead of joined.                         *)
Joined_Detaches(t) == joinable' = joinable \ {t}

(* The joins, in the order of the code.  join throws when there is no      *)
(* thread to join.                                                         *)
AfterJoin(t) == CASE t = Send -> Recv
                  [] t = Recv -> Beat
                  [] t = Beat -> IF dying THEN "last_join" ELSE "idle"
Joined(t) ==
  /\ pc[t] = "ended"
  /\ joinable' = joinable \ {t}
Join(t) ==
  /\ user = t
  /\ \/ t \in joinable /\ Joined(t) /\ user' = AfterJoin(t) /\ UNCHANGED terminated
     \/ t \notin joinable /\ terminated' = "join" /\ UNCHANGED <<user, joinable>>
  /\ UNCHANGED <<flags, channel, asleep, pc, dying, starts, raised, poster>>

(* The rest of the destructor ...                                          *)
LastJoin ==
  /\ user = "last_join"
  /\ \/ Recv \notin joinable /\ UNCHANGED joinable
     \/ Recv \in joinable /\ Joined(Recv)
  /\ user' = "members"
  /\ UNCHANGED <<flags, channel, asleep, pc, dying, starts, terminated, raised, poster>>

(* ... and of the members: a std::thread must not own a thread by now.     *)
DestroyMembers ==
  /\ user = "members"
  /\ \/ joinable = {} /\ user' = "gone" /\ UNCHANGED terminated
     \/ joinable # {} /\ terminated' = "destroy" /\ UNCHANGED user
  /\ UNCHANGED <<flags, channel, asleep, pc, joinable, dying, starts, raised, poster>>
-----------------------------------------------------------------------------
(***************************************************************************)
(* The environment.                                                        *)
(***************************************************************************)
PeerComesAndGoes ==
  /\ peerHere' = ~peerHere
  /\ UNCHANGED <<flags, queued, newMsg, recverWorking, asleep, pc, object, raised, poster>>

PeerSends ==
  /\ peerHere /\ recverWorking /\ ~newMsg
  /\ ~RecvHoldsSegment
  /\ newMsg' = TRUE
  /\ Wake(Recv)
  /\ UNCHANGED <<flags, queued, recverWorking, peerHere, pc, object, raised, poster>>

SpuriousWakeup ==
  /\ \E t \in asleep : Wake(t)
  /\ UNCHANGED <<flags, channel, pc, object, raised, poster>>
-----------------------------------------------------------------------------
(* The constructor does not initialise the flags of the two directions.    *)
Init ==
  /\ running = TRUE
  /\ sendConnected \in BOOLEAN
  /\ recvConnected \in BOOLEAN
  /\ queued = 0
  /\ newMsg = FALSE
  /\ recverWorking = FALSE
  /\ peerHere \in BOOLEAN
  /\ asleep = {}
  /\ pc = [t \in Workers |-> "ended"]
  /\ joinable = {}
  /\ user = "idle"
  /\ dying = FALSE
  /\ starts = 0
  /\ terminated = "no"
  /\ raised = FALSE
  /\ poster = "away"

RecvLoop == \/ RecvTop \/ RecvCreate \/ RecvListen \/ RecvTest \/ RecvPredicate
            \/ RecvBlock \/ RecvAwake \/ RecvRefused \/ RecvTake \/ RecvHello
            \/ RecvLeave
SendLoop == \/ SendTop \/ SendOpen \/ SendTest \/ SendPredicate \/ SendBlock
            \/ SendAwake \/ SendPop \/ SendPacket \/ SendReset
HeartBeatLoop == \/ BeatTop \/ BeatPause \/ BeatPing \/ BeatLowerRecv
                 \/ BeatWakeRecv \/ BeatLowerSend \/ BeatWakeSend
UserGoesOn == \/ StopRunning \/ ClearSendQueue \/ HushReceiver
              \/ (\E t \in Workers : Join(t))
              \/ LastJoin \/ DestroyMembers

Next ==
  \/ /\ Alive
     /\ \/ RecvLoop \/ SendLoop \/ HeartBeatLoop \/ UserGoesOn
        \/ Start \/ PostMsg \/ Push \/ PostNotify \/ Stop \/ Destroy
        \/ PeerSends \/ SpuriousWakeup
  \/ PeerComesAndGoes

Spec == Init /\ [][Next]_vars

(* Every thread that can run runs, and so does the user inside Stop and    *)
(* the destructor.  pkt_que_mtx_ is not kept from Stop forever.  Nothing   *)
(* obliges the user to call, the peer to come or to send.                  *)
Fairness ==
  /\ WF_vars(Alive /\ RecvLoop)
  /\ WF_vars(Alive /\ SendLoop)
  /\ WF_vars(Alive /\ HeartBeatLoop)
  /\ WF_vars(Alive /\ UserGoesOn)
  /\ SF_vars(Alive /\ ClearSendQueue)
FairSpec == Spec /\ Fairness
-----------------------------------------------------------------------------
TypeOK ==
  /\ running \in BOOLEAN /\ sendConnected \in BOOLEAN /\ recvConnected \in BOOLEAN
  /\ queued \in Nat /\ newMsg \in BOOLEAN
  /\ recverWorking \in BOOLEAN /\ peerHere \in BOOLEAN
  /\ asleep \subseteq {Send, Recv}
  /\ \A t \in asleep : pc[t] = "asleep"
  /\ pc \in [Workers -> {"top", "create", "listen", "test", "predicate", "block",
                         "asleep", "take", "hello", "leave", "open", "pop", "send",
                         "reset", "pause", "ping", "lower_recv", "wake_recv",
                         "lower_send", "wake_send", "ended"}]
  /\ joinable \subseteq Workers
  /\ user \in {"idle", "bye", "clear", "hush", "last_join", "members", "gone"}
              \union Workers
  /\ dying \in BOOLEAN
  /\ starts \in 0 .. MaxStarts
  /\ terminated \in {"no", "pop", "assign", "join", "destroy"}
  /\ raised \in BOOLEAN
  /\ poster \in {"away", "push", "notify"}

(* No thread outlives what it runs on: a thread that has not ended is      *)
(* owned by a member of the object, and once the object is gone, or Stop   *)
(* has returned to a user who started it once, all three have ended.       *)
NoThreadSurvives ==
  /\ \A t \in Workers : pc[t] # "ended" => t \in joinable
  /\ user = "gone" => \A t \in Workers : pc[t] = "ended"
  /\ (user = "idle" /\ ~running /\ starts <= 1 /\ Alive) =>
        \A t \in Workers : pc[t] = "ended"

(* A user who starts the object exactly once is never brought down by a    *)
(* thread handle, in whatever order and however often Stop and the         *)
(* destructor are called: only join before a Start, and assigning or       *)
(* destroying a handle after a second one, end the process.                *)
OneStartIsSafe ==
  /\ terminated = "join" => starts = 0
  /\ terminated \in {"assign", "destroy"} => starts > 1

(* pop_packet takes the front of an empty queue, which is undefined, only  *)
(* if a hello raised the flag between the predicate and the second look at *)
(* it (393-398): pkt_que_mtx_ keeps Stop, which empties the queue, and the *)
(* heartbeat, which lowers the flag, from doing the same.                  *)
EmptyPopNeedsHello == terminated = "pop" => raised

(* What has come waits for nobody who sleeps: send_loop does not sleep in  *)
(* pop_packet with a message in the queue, but for the poster that is on   *)
(* its way to wake it (384, 393), nor recv_loop in recv with an unread     *)
(* packet (495), whoever else stops, gives up or says hello meanwhile.     *)
NothingWaitsForASleeper ==
  /\ Send \in asleep /\ queued > 0 => poster = "notify"
  /\ Recv \in asleep => ~newMsg

(* The only way for Stop and the destructor not to come back is a thread   *)
(* that sleeps in recv or in pop_packet: they get past bye, the queue, the *)
(* segment and the heart-beat thread, and past the send thread that looks  *)
(* for a segment nobody has.                                               *)
HangsOnlyAsleep ==
  /\ \A t \in {Send, Recv} : []<>(user # t \/ t \in asleep \/ ~Alive)
  /\ []<>(user \notin {"bye", "clear", "hush", Beat, "members"} \/ ~Alive)

(* Stop returns.  It does not: a receiver that sleeps with no peer, or     *)
(* whose peer is silent, is woken by Stop but finds its predicate false    *)
(* and sleeps again (running_ is not part of it).                          *)
StopReturns == user = "bye" ~> (user \in {"idle", "gone"} \/ ~Alive)
=============================================================================
