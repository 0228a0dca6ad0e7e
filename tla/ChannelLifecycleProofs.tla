----------------------- MODULE ChannelLifecycleProofs -----------------------
(***************************************************************************)
(* Proofs about ChannelLifecycle, for any number of calls of Start.        *)
(*                                                                         *)
(* The inductive invariant adds to TypeOK who owns the threads: until Stop *)
(* lowers running_, all of them or none (Owners), and from then on what    *)
(* the joins have left, position by position of the user (Joins).          *)
(***************************************************************************)
EXTENDS ChannelLifecycle, TLAPS

USE StartAssumption

LEMMA Threads ==
  /\ Send \in Workers /\ Recv \in Workers /\ Beat \in Workers
  /\ Send # Recv /\ Send # Beat /\ Recv # Beat
  /\ \A t \in Workers : t = Send \/ t = Recv \/ t = Beat
  /\ \A t \in Workers : t \notin {"idle", "bye", "clear", "hush", "last_join", "members", "gone"}
  BY DEF Send, Recv, Beat, Workers

Owned == \A t \in Workers : pc[t] # "ended" => t \in joinable

Owners ==
  /\ starts = 0 => joinable = {}
  /\ running /\ starts > 0 => joinable = Workers
  /\ user = "bye" => running
  /\ user \notin {"idle", "bye"} => ~running

Joins ==
  /\ user \in {"clear", "hush", Send} /\ starts > 0 => joinable = Workers
  /\ user = Recv => joinable = {Recv, Beat} /\ starts > 0
  /\ user = Beat => joinable = {Beat} /\ starts > 0
  /\ ~running /\ user \in {"idle", "last_join", "members"} /\ starts <= 1
       => joinable = {}
  /\ ~running /\ user \in {"idle", "last_join", "members", "gone"} => starts > 0
  /\ user = "gone" => joinable = {}

Pops == pc[Send] = "pop" => queued > 0 \/ ~sendConnected \/ raised

IInv ==
  /\ TypeOK /\ Owned /\ Owners /\ Joins /\ Pops
  /\ OneStartIsSafe /\ EmptyPopNeedsHello

(* The two halves of TypeOK. *)
Booleans ==
  /\ running \in BOOLEAN /\ sendConnected \in BOOLEAN /\ recvConnected \in BOOLEAN
  /\ newMsg \in BOOLEAN
  /\ recverWorking \in BOOLEAN /\ peerHere \in BOOLEAN
  /\ dying \in BOOLEAN /\ raised \in BOOLEAN
Labels ==
  {"top", "create", "listen", "test", "predicate", "block", "asleep", "take",
   "hello", "leave", "open", "pop", "send", "reset", "pause", "ping",
   "lower_recv", "wake_recv", "lower_send", "wake_send", "ended"}
Places ==
  /\ asleep \subseteq {Send, Recv}
  /\ \A t \in asleep : pc[t] = "asleep"
  /\ pc \in [Workers -> Labels]
  /\ joinable \subseteq Workers
  /\ user \in {"idle", "bye", "clear", "hush", "last_join", "members", "gone"}
              \union Workers
  /\ starts \in 0 .. MaxStarts
  /\ queued \in Nat
  /\ poster \in {"away", "push", "notify"}
  /\ terminated \in {"no", "pop", "assign", "join", "destroy"}

LEMMA Halves ==
  /\ TypeOK <=> Booleans /\ Places
  /\ TypeOK' <=> Booleans' /\ Places'
  BY Zenon DEF TypeOK, Booleans, Places, Labels

LEMMA InitHolds == Init => IInv
  <1> SUFFICES ASSUME Init PROVE IInv
    OBVIOUS
  <1>1. Booleans
    BY Zenon DEF Init, Booleans
  <1>2. Places
    BY DEF Init, Places, Labels
  <1>3. Owned /\ Owners /\ Joins
    BY Threads DEF Init, Owned, Owners, Joins
  <1>4. Pops /\ OneStartIsSafe /\ EmptyPopNeedsHello
    BY Threads DEF Init, Pops, OneStartIsSafe, EmptyPopNeedsHello
  <1>. QED  BY <1>1, <1>2, <1>3, <1>4, Halves DEF IInv

-----------------------------------------------------------------------------
(* Steps of the three threads.  Each moves its own pc, from where it has   *)
(* not ended, and leaves to the user what is the user's.                   *)

Own(t) ==
  /\ pc[t] # "ended"
  /\ \A u \in Workers : u # t => pc'[u] = pc[u]
  /\ UNCHANGED <<running, joinable, user, dying, starts>>
  /\ terminated' # terminated => terminated' = "pop" /\ raised'

LEMMA RecvLoopTyped ==
  ASSUME TypeOK, RecvLoop
  PROVE  TypeOK'
  <1> USE Threads DEF TypeOK, flags, channel, object, Goto, Wake
  <1>1. CASE RecvTop
    BY <1>1 DEF RecvTop
  <1>2. CASE RecvCreate
    <2>1. Booleans'
      BY <1>2, Zenon DEF Booleans, RecvCreate
    <2>2. Places'
      BY <1>2, SMT DEF Places, Labels, RecvCreate
    <2>. QED  BY <2>1, <2>2, Halves, Zenon
  <1>3. CASE RecvListen
    BY <1>3 DEF RecvListen
  <1>4. CASE RecvTest
    BY <1>4 DEF RecvTest
  <1>5. CASE RecvPredicate
    BY <1>5 DEF RecvPredicate
  <1>6. CASE RecvBlock
    BY <1>6 DEF RecvBlock
  <1>7. CASE RecvAwake
    BY <1>7 DEF RecvAwake
  <1>8. CASE RecvRefused
    BY <1>8 DEF RecvRefused
  <1>9. CASE RecvTake
    <2>1. Booleans'
      BY <1>9, Zenon DEF Booleans, RecvTake
    <2>2. Places'
      BY <1>9, SMT DEF Places, Labels, RecvTake
    <2>. QED  BY <2>1, <2>2, Halves, Zenon
  <1>10. CASE RecvHello
    BY <1>10 DEF RecvHello
  <1>11. CASE RecvLeave
    <2>1. Booleans'
      BY <1>11, Zenon DEF Booleans, RecvLeave
    <2>2. Places'
      BY <1>11, SMT DEF Places, Labels, RecvLeave
    <2>. QED  BY <2>1, <2>2, Halves, Zenon
  <1>. QED  BY <1>1, <1>2, <1>3, <1>4, <1>5, <1>6, <1>7, <1>8, <1>9, <1>10, <1>11 DEF RecvLoop

LEMMA RecvLoopOwn ==
  ASSUME TypeOK, Pops, RecvLoop
  PROVE  Own(Recv)
  <1> USE Threads DEF TypeOK, Own, flags, channel, object, Goto, Wake
  <1>1. CASE RecvTop
    BY <1>1 DEF RecvTop
  <1>2. CASE RecvCreate
    BY <1>2 DEF RecvCreate
  <1>3. CASE RecvListen
    BY <1>3 DEF RecvListen
  <1>4. CASE RecvTest
    BY <1>4 DEF RecvTest
  <1>5. CASE RecvPredicate
    BY <1>5 DEF RecvPredicate
  <1>6. CASE RecvBlock
    BY <1>6 DEF RecvBlock
  <1>7. CASE RecvAwake
    BY <1>7 DEF RecvAwake
  <1>8. CASE RecvRefused
    BY <1>8 DEF RecvRefused
  <1>9. CASE RecvTake
    BY <1>9 DEF RecvTake
  <1>10. CASE RecvHello
    BY <1>10 DEF RecvHello
  <1>11. CASE RecvLeave
    BY <1>11 DEF RecvLeave
  <1>. QED  BY <1>1, <1>2, <1>3, <1>4, <1>5, <1>6, <1>7, <1>8, <1>9, <1>10, <1>11 DEF RecvLoop

LEMMA RecvLoopPops ==
  ASSUME TypeOK, Pops, RecvLoop
  PROVE  Pops'
  <1> USE Threads DEF TypeOK, Pops, flags, channel, object, Goto, Wake
  <1>1. CASE RecvTop
    BY <1>1 DEF RecvTop
  <1>2. CASE RecvCreate
    BY <1>2 DEF RecvCreate
  <1>3. CASE RecvListen
    BY <1>3 DEF RecvListen
  <1>4. CASE RecvTest
    BY <1>4 DEF RecvTest
  <1>5. CASE RecvPredicate
    BY <1>5 DEF RecvPredicate
  <1>6. CASE RecvBlock
    BY <1>6 DEF RecvBlock
  <1>7. CASE RecvAwake
    BY <1>7 DEF RecvAwake
  <1>8. CASE RecvRefused
    BY <1>8 DEF RecvRefused
  <1>9. CASE RecvTake
    BY <1>9 DEF RecvTake
  <1>10. CASE RecvHello
    BY <1>10 DEF RecvHello
  <1>11. CASE RecvLeave
    BY <1>11 DEF RecvLeave
  <1>. QED  BY <1>1, <1>2, <1>3, <1>4, <1>5, <1>6, <1>7, <1>8, <1>9, <1>10, <1>11 DEF RecvLoop

LEMMA SendLoopTyped ==
  ASSUME TypeOK, SendLoop
  PROVE  TypeOK'
  <1> USE Threads DEF TypeOK, flags, channel, object, Goto, Wake
  <1>1. CASE SendTop
    BY <1>1 DEF SendTop
  <1>2. CASE SendOpen
    <2>1. Booleans'
      BY <1>2, Zenon DEF Booleans, SendOpen
    <2>2. Places'
      BY <1>2, SMT DEF Places, Labels, SendOpen
    <2>. QED  BY <2>1, <2>2, Halves, Zenon
  <1>3. CASE SendTest
    BY <1>3 DEF SendTest
  <1>4. CASE SendPredicate
    <2>1. Booleans'
      BY <1>4, Zenon DEF Booleans, SendPredicate
    <2>2. Places'
      BY <1>4, SMT DEF Places, Labels, SendPredicate
    <2>. QED  BY <2>1, <2>2, Halves, Zenon
  <1>5. CASE SendBlock
    BY <1>5 DEF SendBlock
  <1>6. CASE SendAwake
    BY <1>6 DEF SendAwake
  <1>7. CASE SendPop
    BY <1>7 DEF SendPop
  <1>8. CASE SendPacket
    <2>1. Booleans'
      BY <1>8, Zenon DEF Booleans, SendPacket
    <2>2. Places'
      BY <1>8, SMT DEF Places, Labels, SendPacket
    <2>. QED  BY <2>1, <2>2, Halves, Zenon
  <1>9. CASE SendReset
    BY <1>9 DEF SendReset
  <1>. QED  BY <1>1, <1>2, <1>3, <1>4, <1>5, <1>6, <1>7, <1>8, <1>9 DEF SendLoop

LEMMA SendLoopOwn ==
  ASSUME TypeOK, Pops, SendLoop
  PROVE  Own(Send)
  <1> USE Threads DEF TypeOK, Own, flags, channel, object, Goto, Wake
  <1>1. CASE SendTop
    BY <1>1 DEF SendTop
  <1>2. CASE SendOpen
    BY <1>2 DEF SendOpen
  <1>3. CASE SendTest
    BY <1>3 DEF SendTest
  <1>4. CASE SendPredicate
    BY <1>4 DEF SendPredicate
  <1>5. CASE SendBlock
    BY <1>5 DEF SendBlock
  <1>6. CASE SendAwake
    BY <1>6 DEF SendAwake
  <1>7. CASE SendPop
    BY <1>7 DEF SendPop, Pops
  <1>8. CASE SendPacket
    BY <1>8 DEF SendPacket
  <1>9. CASE SendReset
    BY <1>9 DEF SendReset
  <1>. QED  BY <1>1, <1>2, <1>3, <1>4, <1>5, <1>6, <1>7, <1>8, <1>9 DEF SendLoop

LEMMA SendLoopPops ==
  ASSUME TypeOK, Pops, SendLoop
  PROVE  Pops'
  <1> USE Threads DEF TypeOK, Pops, flags, channel, object, Goto, Wake
  <1>1. CASE SendTop
    BY <1>1 DEF SendTop
  <1>2. CASE SendOpen
    BY <1>2 DEF SendOpen
  <1>3. CASE SendTest
    BY <1>3 DEF SendTest
  <1>4. CASE SendPredicate
    BY <1>4 DEF SendPredicate, MustPop
  <1>5. CASE SendBlock
    BY <1>5 DEF SendBlock
  <1>6. CASE SendAwake
    BY <1>6 DEF SendAwake
  <1>7. CASE SendPop
    BY <1>7 DEF SendPop
  <1>8. CASE SendPacket
    BY <1>8 DEF SendPacket
  <1>9. CASE SendReset
    BY <1>9 DEF SendReset
  <1>. QED  BY <1>1, <1>2, <1>3, <1>4, <1>5, <1>6, <1>7, <1>8, <1>9 DEF SendLoop

LEMMA HeartBeatLoopTyped ==
  ASSUME TypeOK, HeartBeatLoop
  PROVE  TypeOK'
  <1> USE Threads DEF TypeOK, flags, channel, object, Goto, Wake
  <1>1. CASE BeatTop
    BY <1>1 DEF BeatTop
  <1>2. CASE BeatPause
    BY <1>2 DEF BeatPause
  <1>3. CASE BeatPing
    BY <1>3 DEF BeatPing
  <1>4. CASE BeatLowerRecv
    <2>1. Booleans'
      BY <1>4, Zenon DEF Booleans, BeatLowerRecv
    <2>2. Places'
      BY <1>4, SMT DEF Places, Labels, BeatLowerRecv
    <2>. QED  BY <2>1, <2>2, Halves, Zenon
  <1>5. CASE BeatWakeRecv
    BY <1>5 DEF BeatWakeRecv, WakeRecvOrPeer
  <1>6. CASE BeatLowerSend
    <2>1. Booleans'
      BY <1>6, Zenon DEF Booleans, BeatLowerSend
    <2>2. Places'
      BY <1>6, SMT DEF Places, Labels, BeatLowerSend
    <2>. QED  BY <2>1, <2>2, Halves, Zenon
  <1>7. CASE BeatWakeSend
    BY <1>7 DEF BeatWakeSend
  <1>. QED  BY <1>1, <1>2, <1>3, <1>4, <1>5, <1>6, <1>7 DEF HeartBeatLoop

LEMMA HeartBeatLoopOwn ==
  ASSUME TypeOK, Pops, HeartBeatLoop
  PROVE  Own(Beat)
  <1> USE Threads DEF TypeOK, Own, flags, channel, object, Goto, Wake
  <1>1. CASE BeatTop
    BY <1>1 DEF BeatTop
  <1>2. CASE BeatPause
    BY <1>2 DEF BeatPause
  <1>3. CASE BeatPing
    BY <1>3 DEF BeatPing
  <1>4. CASE BeatLowerRecv
    BY <1>4 DEF BeatLowerRecv
  <1>5. CASE BeatWakeRecv
    BY <1>5 DEF BeatWakeRecv, WakeRecvOrPeer
  <1>6. CASE BeatLowerSend
    BY <1>6 DEF BeatLowerSend
  <1>7. CASE BeatWakeSend
    BY <1>7 DEF BeatWakeSend
  <1>. QED  BY <1>1, <1>2, <1>3, <1>4, <1>5, <1>6, <1>7 DEF HeartBeatLoop

LEMMA HeartBeatLoopPops ==
  ASSUME TypeOK, Pops, HeartBeatLoop
  PROVE  Pops'
  <1> USE Threads DEF TypeOK, Pops, flags, channel, object, Goto, Wake
  <1>1. CASE BeatTop
    BY <1>1 DEF BeatTop
  <1>2. CASE BeatPause
    BY <1>2 DEF BeatPause
  <1>3. CASE BeatPing
    BY <1>3 DEF BeatPing
  <1>4. CASE BeatLowerRecv
    BY <1>4 DEF BeatLowerRecv
  <1>5. CASE BeatWakeRecv
    BY <1>5 DEF BeatWakeRecv, WakeRecvOrPeer
  <1>6. CASE BeatLowerSend
    BY <1>6 DEF BeatLowerSend
  <1>7. CASE BeatWakeSend
    BY <1>7 DEF BeatWakeSend
  <1>. QED  BY <1>1, <1>2, <1>3, <1>4, <1>5, <1>6, <1>7 DEF HeartBeatLoop

(* What a thread does leaves the user's part of the invariant as it was.    *)
LEMMA ThreadStep ==
  ASSUME IInv, Alive, NEW t \in Workers, Own(t), TypeOK', Pops'
  PROVE  IInv'
  <1> USE Threads DEF IInv, Own
  <1>1. Owned'
    BY DEF Owned
  <1>2. Owners'
    BY DEF Owners
  <1>3. Joins'
    BY DEF Joins
  <1>4. OneStartIsSafe'
    BY DEF OneStartIsSafe
  <1>5. EmptyPopNeedsHello'
    BY DEF EmptyPopNeedsHello, Alive
  <1>. QED  BY <1>1, <1>2, <1>3, <1>4, <1>5

-----------------------------------------------------------------------------
(* Steps of the user outside Stop. *)

LEMMA StartHolds ==
  ASSUME IInv, Alive, Start
  PROVE  IInv'
  <1> USE Threads DEF IInv, Start, flags, channel, object
  <1>1. Booleans'
    BY Halves, Zenon DEF Booleans
  <1>2. Places'
    BY Halves DEF Places, Labels, Owned
  <1>3. Owned'
    BY DEF Owned, Owners, TypeOK
  <1>4. Owners'
    BY DEF Owners, TypeOK
  <1>5. Joins'
    BY DEF Joins, Owners, TypeOK
  <1>6. Pops'
    BY DEF Pops, TypeOK
  <1>7. OneStartIsSafe'
    BY DEF OneStartIsSafe, Owners, TypeOK, Alive
  <1>8. EmptyPopNeedsHello'
    BY DEF EmptyPopNeedsHello, Alive
  <1>. QED  BY <1>1, <1>2, <1>3, <1>4, <1>5, <1>6, <1>7, <1>8, Halves

(* Stop and Destroy: the guard sends the user into Stop or past it. *)
LEMMA StopHolds ==
  ASSUME IInv, Alive, Stop \/ Destroy
  PROVE  IInv'
  <1> USE Threads DEF IInv, Stop, Destroy, StopCalled, flags, channel, object
  <1>1. Booleans'
    BY Halves, Zenon DEF Booleans
  <1>2. Places'
    BY Halves DEF Places, Labels
  <1>3. Owned' /\ Owners' /\ Joins'
    BY DEF Owned, Owners, Joins, TypeOK
  <1>4. Pops' /\ OneStartIsSafe' /\ EmptyPopNeedsHello'
    BY DEF Pops, OneStartIsSafe, EmptyPopNeedsHello
  <1>. QED  BY <1>1, <1>2, <1>3, <1>4, Halves

LEMMA PostMsgHolds ==
  ASSUME IInv, Alive, PostMsg \/ Push \/ PostNotify
  PROVE  IInv'
  <1> USE Threads DEF IInv, PostMsg, Push, PostNotify, flags, channel, object, Wake
  <1>1. Booleans'
    BY Halves, Zenon DEF Booleans
  <1>2. Places'
    BY Halves DEF Places, Labels
  <1>3. Owned' /\ Owners' /\ Joins'
    BY DEF Owned, Owners, Joins
  <1>4. Pops' /\ OneStartIsSafe' /\ EmptyPopNeedsHello'
    BY DEF Pops, OneStartIsSafe, EmptyPopNeedsHello, SendHoldsQueue
  <1>. QED  BY <1>1, <1>2, <1>3, <1>4, Halves

-----------------------------------------------------------------------------
(* Steps of the user inside Stop and the destructor. *)

LEMMA StopRunningHolds ==
  ASSUME IInv, Alive, StopRunning
  PROVE  IInv'
  <1> USE Threads DEF IInv, StopRunning, flags, channel, object
  <1>1. Booleans'
    BY Halves, Zenon DEF Booleans
  <1>2. Places'
    BY Halves DEF Places, Labels
  <1>3. Owned' /\ Owners' /\ Joins'
    BY DEF Owned, Owners, Joins, TypeOK
  <1>4. Pops' /\ OneStartIsSafe' /\ EmptyPopNeedsHello'
    BY DEF Pops, OneStartIsSafe, EmptyPopNeedsHello
  <1>. QED  BY <1>1, <1>2, <1>3, <1>4, Halves

(* The mutex keeps Stop from emptying the queue between predicate and pop. *)
LEMMA ClearSendQueueHolds ==
  ASSUME IInv, Alive, ClearSendQueue
  PROVE  IInv'
  <1> USE Threads DEF IInv, ClearSendQueue, flags, channel, object, Wake
  <1>1. Booleans'
    BY Halves, Zenon DEF Booleans
  <1>2. Places'
    BY Halves DEF Places, Labels
  <1>3. Owned' /\ Owners' /\ Joins'
    BY DEF Owned, Owners, Joins, TypeOK
  <1>4. Pops'
    BY DEF Pops, SendHoldsQueue
  <1>5. OneStartIsSafe' /\ EmptyPopNeedsHello'
    BY DEF OneStartIsSafe, EmptyPopNeedsHello
  <1>. QED  BY <1>1, <1>2, <1>3, <1>4, <1>5, Halves

LEMMA HushReceiverHolds ==
  ASSUME IInv, Alive, HushReceiver
  PROVE  IInv'
  <1> USE Threads DEF IInv, HushReceiver, flags, channel, object, Wake
  <1>1. Booleans'
    BY Halves, Zenon DEF Booleans
  <1>2. Places'
    BY Halves DEF Places, Labels
  <1>3. Owned' /\ Owners' /\ Joins'
    BY DEF Owned, Owners, Joins, TypeOK
  <1>4. Pops' /\ OneStartIsSafe' /\ EmptyPopNeedsHello'
    BY DEF Pops, OneStartIsSafe, EmptyPopNeedsHello
  <1>. QED  BY <1>1, <1>2, <1>3, <1>4, Halves

LEMMA JoinHolds ==
  ASSUME IInv, Alive, NEW t \in Workers, Join(t)
  PROVE  IInv'
  <1> USE Threads DEF IInv, Join, Joined, flags, channel, object
  <1>1. Booleans'
    BY Halves, Zenon DEF Booleans
  <1>2. Places'
    BY Halves DEF Places, Labels, AfterJoin
  <1>3. Owned'
    BY DEF Owned
  <1>4. CASE t \notin joinable
    <2>1. starts = 0
      BY <1>4 DEF Joins, TypeOK
    <2>2. terminated' = "join" /\ UNCHANGED <<user, joinable, running, starts>>
      BY <1>4
    <2>3. Owners' /\ Joins'
      BY <2>2 DEF Owners, Joins
    <2>4. OneStartIsSafe' /\ EmptyPopNeedsHello'
      BY <2>1, <2>2 DEF OneStartIsSafe, EmptyPopNeedsHello
    <2>5. Pops'
      BY DEF Pops
    <2>. QED  BY <1>1, <1>2, <1>3, <2>3, <2>4, <2>5, Halves
  <1>5. CASE t \in joinable
    <2>1. /\ user = t /\ user' = AfterJoin(t) /\ joinable' = joinable \ {t}
          /\ UNCHANGED <<terminated, running, starts, pc, queued, sendConnected, raised>>
      BY <1>5
    <2>2. ~running /\ starts > 0
      BY <1>5, <2>1 DEF Owners, Joins, TypeOK
    <2>3. Owners'
      BY <2>1, <2>2 DEF Owners, AfterJoin
    <2>4. Joins'
      BY <1>5, <2>1, <2>2 DEF Joins, AfterJoin, Workers
    <2>5. OneStartIsSafe' /\ EmptyPopNeedsHello' /\ Pops'
      BY <2>1 DEF OneStartIsSafe, EmptyPopNeedsHello, Pops
    <2>. QED  BY <1>1, <1>2, <1>3, <2>3, <2>4, <2>5, Halves
  <1>. QED  BY <1>4, <1>5

LEMMA LastJoinHolds ==
  ASSUME IInv, Alive, LastJoin
  PROVE  IInv'
  <1> USE Threads DEF IInv, LastJoin, Joined, flags, channel, object
  <1>1. Booleans'
    BY Halves, Zenon DEF Booleans
  <1>2. Places'
    BY Halves DEF Places, Labels
  <1>3. Owned'
    BY DEF Owned
  <1>4. Owners'
    BY DEF Owners
  <1>5. Joins'
    BY DEF Joins, Owners
  <1>6. Pops' /\ OneStartIsSafe' /\ EmptyPopNeedsHello'
    BY DEF Pops, OneStartIsSafe, EmptyPopNeedsHello
  <1>. QED  BY <1>1, <1>2, <1>3, <1>4, <1>5, <1>6, Halves

LEMMA DestroyMembersHolds ==
  ASSUME IInv, Alive, DestroyMembers
  PROVE  IInv'
  <1> USE Threads DEF IInv, DestroyMembers, flags, channel, object
  <1>1. Booleans'
    BY Halves, Zenon DEF Booleans
  <1>2. Places'
    BY Halves DEF Places, Labels
  <1>3. Owned' /\ Owners' /\ Joins'
    BY DEF Owned, Owners, Joins
  <1>4. OneStartIsSafe'
    BY DEF OneStartIsSafe, Owners, Joins, TypeOK
  <1>5. Pops' /\ EmptyPopNeedsHello'
    BY DEF Pops, EmptyPopNeedsHello
  <1>. QED  BY <1>1, <1>2, <1>3, <1>4, <1>5, Halves

-----------------------------------------------------------------------------
(* Steps of the environment. *)

LEMMA EnvironmentHolds ==
  ASSUME IInv, PeerSends \/ SpuriousWakeup \/ PeerComesAndGoes
  PROVE  IInv'
  <1> USE Threads DEF IInv, PeerSends, SpuriousWakeup, PeerComesAndGoes, Wake,
                      flags, channel, object
  <1>1. Booleans'
    BY Halves, Zenon DEF Booleans
  <1>2. Places'
    BY Halves DEF Places, Labels
  <1>3. Owned' /\ Owners' /\ Joins'
    BY DEF Owned, Owners, Joins
  <1>4. Pops' /\ OneStartIsSafe' /\ EmptyPopNeedsHello'
    BY DEF Pops, OneStartIsSafe, EmptyPopNeedsHello
  <1>. QED  BY <1>1, <1>2, <1>3, <1>4, Halves

-----------------------------------------------------------------------------
LEMMA StepHolds == IInv /\ [Next]_vars => IInv'
  <1> SUFFICES ASSUME IInv, [Next]_vars PROVE IInv'
    OBVIOUS
  <1>1. CASE Alive /\ RecvLoop
    <2>1. TypeOK /\ Pops
      BY DEF IInv
    <2>. QED  BY <1>1, <2>1, RecvLoopTyped, RecvLoopOwn, RecvLoopPops, ThreadStep, Threads
  <1>2. CASE Alive /\ SendLoop
    <2>1. TypeOK /\ Pops
      BY DEF IInv
    <2>. QED  BY <1>2, <2>1, SendLoopTyped, SendLoopOwn, SendLoopPops, ThreadStep, Threads
  <1>3. CASE Alive /\ HeartBeatLoop
    <2>1. TypeOK /\ Pops
      BY DEF IInv
    <2>. QED  BY <1>3, <2>1, HeartBeatLoopTyped, HeartBeatLoopOwn, HeartBeatLoopPops,
                 ThreadStep, Threads
  <1>4. CASE Alive /\ UserGoesOn
    BY <1>4, StopRunningHolds, ClearSendQueueHolds, HushReceiverHolds, JoinHolds,
       LastJoinHolds, DestroyMembersHolds DEF UserGoesOn
  <1>5. CASE Alive /\ (Start \/ PostMsg \/ Push \/ PostNotify \/ Stop \/ Destroy)
    BY <1>5, StartHolds, PostMsgHolds, StopHolds
  <1>6. CASE PeerSends \/ SpuriousWakeup \/ PeerComesAndGoes
    BY <1>6, EnvironmentHolds
  <1>7. CASE UNCHANGED vars
    <2> USE <1>7 DEF vars, flags, channel, object, IInv
    <2>1. Booleans'
      BY Halves, Zenon DEF Booleans
    <2>2. Places'
      BY Halves DEF Places
    <2>3. Owned' /\ Owners' /\ Joins'
      BY DEF Owned, Owners, Joins
    <2>4. Pops' /\ OneStartIsSafe' /\ EmptyPopNeedsHello'
      BY DEF Pops, OneStartIsSafe, EmptyPopNeedsHello
    <2>. QED  BY <2>1, <2>2, <2>3, <2>4, Halves
  <1>. QED  BY <1>1, <1>2, <1>3, <1>4, <1>5, <1>6, <1>7 DEF Next

LEMMA Invariance == Spec => []IInv
  BY InitHolds, StepHolds, PTL DEF Spec

(* Every variable of the object, of its channel and of its threads stays   *)
(* in its type: only the two waits without a deadline put a thread to      *)
(* sleep, however Start, Stop and the destructor follow one another.       *)
THEOREM TypeCorrect == Spec => []TypeOK
  <1>1. IInv => TypeOK
    BY DEF IInv
  <1>. QED  BY <1>1, Invariance, PTL

(* No thread outlives the object or a Stop that has returned: Start hands  *)
(* all three to the members (278-289) and Stop joins them (308-318).       *)
THEOREM ThreadsEnd == Spec => []NoThreadSurvives
  <1>1. IInv => NoThreadSurvives
    <2> SUFFICES ASSUME IInv PROVE NoThreadSurvives
      OBVIOUS
    <2>1. user = "gone" => joinable = {}
      BY DEF IInv, Joins
    <2>2. user = "idle" /\ ~running /\ starts <= 1 => joinable = {}
      BY DEF IInv, Joins
    <2>3. Owned
      BY DEF IInv
    <2>. QED  BY <2>1, <2>2, <2>3 DEF Owned, NoThreadSurvives
  <1>. QED  BY <1>1, Invariance, PTL

(* Started once, the object is never brought down by one of its thread     *)
(* handles, whatever else the user calls and whatever the threads do.      *)
THEOREM OneStart == Spec => []OneStartIsSafe
  <1>1. IInv => OneStartIsSafe
    BY DEF IInv
  <1>. QED  BY <1>1, Invariance, PTL

(* pop_packet finds the queue empty behind its predicate only when a hello *)
(* raised the flag in between: the one window of the second look (393-398).*)
THEOREM EmptyPop == Spec => []EmptyPopNeedsHello
  <1>1. IInv => EmptyPopNeedsHello
    BY DEF IInv
  <1>. QED  BY <1>1, Invariance, PTL

-----------------------------------------------------------------------------
(* Who sleeps.  The predicate of a wait and the wait are one, because the  *)
(* mutex is held from the one to the other (block), and whoever brings     *)
(* something takes the mutex and wakes the sleeper.                        *)
Idle ==
  /\ pc[Send] = "block" => queued = 0
  /\ Send \in asleep => queued = 0 \/ poster = "notify"
  /\ pc[Recv] = "block" \/ Recv \in asleep => ~newMsg

(* A step that brings nothing and puts nobody to sleep. *)
LEMMA BringsNothing ==
  ASSUME Idle, queued' \in {0, queued}, newMsg' => newMsg, asleep' \subseteq asleep,
         poster = "notify" => poster' = "notify" \/ Send \notin asleep',
         \A t \in {Send, Recv} : pc'[t] = "block" => pc[t] = "block"
  PROVE  Idle'
  BY DEF Idle

LEMMA RecvLoopIdle ==
  ASSUME TypeOK, Idle, RecvLoop
  PROVE  Idle'
  <1> USE Threads DEF flags, channel, object, Goto, Wake
  <1>1. CASE RecvPredicate
    BY <1>1 DEF TypeOK, RecvPredicate, MustRecv, Idle
  <1>2. CASE RecvBlock
    BY <1>2 DEF TypeOK, RecvBlock, Idle
  <1>3. CASE RecvTop \/ RecvCreate \/ RecvListen \/ RecvTest
    BY <1>3, BringsNothing DEF TypeOK, RecvTop, RecvCreate, RecvListen, RecvTest
  <1>4. CASE RecvAwake \/ RecvRefused \/ RecvTake \/ RecvHello \/ RecvLeave
    BY <1>4, BringsNothing DEF TypeOK, RecvAwake, RecvRefused, RecvTake, RecvHello, RecvLeave
  <1>. QED  BY <1>1, <1>2, <1>3, <1>4 DEF RecvLoop

LEMMA SendLoopIdle ==
  ASSUME TypeOK, Idle, SendLoop
  PROVE  Idle'
  <1> USE Threads DEF flags, channel, object, Goto
  <1>1. CASE SendPredicate
    BY <1>1 DEF TypeOK, SendPredicate, MustPop, Idle
  <1>2. CASE SendBlock
    BY <1>2 DEF TypeOK, SendBlock, Idle
  <1>3. CASE SendTop \/ SendOpen \/ SendTest \/ SendAwake \/ SendReset
    BY <1>3, BringsNothing DEF TypeOK, SendTop, SendOpen, SendTest, SendAwake, SendReset
  <1>4. CASE SendPop \/ SendPacket
    <2>1. Send \notin asleep /\ pc'[Send] # "block" /\ pc'[Recv] = pc[Recv]
          /\ newMsg' = newMsg /\ asleep' = asleep
      BY <1>4 DEF TypeOK, SendPop, SendPacket
    <2>. QED  BY <2>1 DEF Idle
  <1>. QED  BY <1>1, <1>2, <1>3, <1>4 DEF SendLoop

LEMMA HeartBeatLoopIdle ==
  ASSUME TypeOK, Idle, HeartBeatLoop
  PROVE  Idle'
  <1>1. UNCHANGED <<queued, newMsg, poster>> /\ asleep' \subseteq asleep
    BY DEF HeartBeatLoop, BeatTop, BeatPause, BeatPing, BeatLowerRecv, BeatWakeRecv,
           BeatLowerSend, BeatWakeSend, channel, Wake, WakeRecvOrPeer
  <1>2. \A t \in {Send, Recv} : pc'[t] = pc[t]
    BY Threads DEF TypeOK, HeartBeatLoop, BeatTop, BeatPause, BeatPing, BeatLowerRecv,
           BeatWakeRecv, BeatLowerSend, BeatWakeSend, Goto
  <1>. QED  BY <1>1, <1>2, BringsNothing

LEMMA UserIdle ==
  ASSUME IInv, Idle,
         UserGoesOn \/ Start \/ PostMsg \/ Push \/ PostNotify \/ Stop \/ Destroy
  PROVE  Idle'
  <1> USE DEF flags, channel, object
  <1>1. CASE UserGoesOn
    BY <1>1, BringsNothing DEF UserGoesOn, StopRunning, ClearSendQueue, HushReceiver,
       Join, LastJoin, DestroyMembers, Wake
  <1>2. CASE Start
    BY <1>2, BringsNothing, Threads DEF Start
  <1>3. CASE Push
    BY <1>3 DEF Push, SendHoldsQueue, Idle
  <1>4. CASE PostMsg \/ PostNotify \/ Stop \/ Destroy
    BY <1>4, BringsNothing DEF PostMsg, PostNotify, Stop, Destroy, Wake
  <1>. QED  BY <1>1, <1>2, <1>3, <1>4

LEMMA EnvironmentIdle ==
  ASSUME Idle, PeerSends \/ SpuriousWakeup \/ PeerComesAndGoes
  PROVE  Idle'
  <1> USE DEF flags, channel, object
  <1>1. CASE PeerSends
    <2>1. pc[Recv] # "block" /\ Recv \notin asleep'
      BY <1>1 DEF PeerSends, RecvHoldsSegment, Wake
    <2>2. UNCHANGED <<queued, pc, poster>> /\ asleep' \subseteq asleep
      BY <1>1 DEF PeerSends, Wake
    <2>. QED  BY <2>1, <2>2 DEF Idle
  <1>2. CASE SpuriousWakeup \/ PeerComesAndGoes
    BY <1>2, BringsNothing DEF SpuriousWakeup, PeerComesAndGoes, Wake
  <1>. QED  BY <1>1, <1>2

LEMMA StepIdle == IInv /\ Idle /\ [Next]_vars => Idle'
  <1> SUFFICES ASSUME IInv, Idle, [Next]_vars PROVE Idle'
    OBVIOUS
  <1>0. TypeOK
    BY DEF IInv
  <1>1. CASE RecvLoop \/ SendLoop \/ HeartBeatLoop
    BY <1>0, <1>1, RecvLoopIdle, SendLoopIdle, HeartBeatLoopIdle
  <1>2. CASE UserGoesOn \/ Start \/ PostMsg \/ Push \/ PostNotify \/ Stop \/ Destroy
    BY <1>2, UserIdle
  <1>3. CASE PeerSends \/ SpuriousWakeup \/ PeerComesAndGoes
    BY <1>3, EnvironmentIdle
  <1>4. CASE UNCHANGED vars
    BY <1>4, BringsNothing DEF vars, flags, channel, object
  <1>. QED  BY <1>1, <1>2, <1>3, <1>4 DEF Next

(* Neither of the two threads with a wait without a deadline sleeps while  *)
(* there is something for it to do: what lets them sleep for ever is only  *)
(* the flag, whose fall is notified without the mutex (245).               *)
THEOREM SleepersHaveNothingToDo == Spec => []NothingWaitsForASleeper
  <1>1. Init => Idle
    BY Threads DEF Init, Idle
  <1>2. Idle => NothingWaitsForASleeper
    BY DEF Idle, NothingWaitsForASleeper
  <1>. QED  BY <1>1, <1>2, StepIdle, Invariance, PTL DEF Spec
=============================================================================
