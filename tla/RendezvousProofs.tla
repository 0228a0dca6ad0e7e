-------------------------- MODULE RendezvousProofs --------------------------
(***************************************************************************)
(* Proofs about Rendezvous, for any number of ends and reconnects: TypeOK  *)
(* with FoundWhereItListens is inductive.                                  *)
(***************************************************************************)
EXTENDS Rendezvous, TLAPS

USE EndAssumption

LEMMA Sides ==
  ASSUME NEW p \in Role
  PROVE  /\ Other(p) \in Role /\ Other(p) # p /\ Other(Other(p)) = p
         /\ \A r \in Role : r = p \/ r = Other(p)
  BY DEF Role, Other

LEMMA BehindTyped ==
  ASSUME TypeOK, NEW p \in Role
  PROVE  /\ Stage(p) \in Orphans
         /\ Behind(p) \in {"none"} \cup Orphans
  BY DEF TypeOK, Behind, Stage, Orphans

-----------------------------------------------------------------------------
(* Types. *)

LEMMA InitTyped == Init => TypeOK
  BY DEF Init, TypeOK

LEMMA LifeTyped ==
  ASSUME TypeOK, NEW p \in Role, Start(p) \/ Crash(p) \/ Stop(p)
  PROVE  TypeOK'
  <1>1. CASE Start(p)
    BY <1>1, Sides DEF TypeOK, Start, Running, Sending
  <1>2. CASE Crash(p)
    BY <1>2, Sides, BehindTyped DEF TypeOK, Crash, Running, Orphans, Sending
  <1>3. CASE Stop(p)
    BY <1>3, Sides DEF TypeOK, Stop, Running, Orphans, Notified
  <1>. QED  BY <1>1, <1>2, <1>3

LEMMA RecvTyped ==
  ASSUME TypeOK, NEW p \in Role, Recv(p)
  PROVE  TypeOK'
  <1>1. CASE Create(p)
    BY <1>1, Sides DEF TypeOK, Create
  <1>2. CASE Size(p)
    BY <1>2, Sides DEF TypeOK, Size
  <1>3. CASE Work(p)
    BY <1>3, Sides DEF TypeOK, Work
  <1>4. CASE Listen(p)
    BY <1>4, Sides DEF TypeOK, Listen
  <1>5. CASE HearHello(p)
    BY <1>5, Sides DEF TypeOK, HearHello, Sending
  <1>6. CASE HearBye(p)
    BY <1>6, Sides DEF TypeOK, HearBye
  <1>7. CASE Leave(p)
    BY <1>7, Sides DEF TypeOK, Leave
  <1>. QED  BY <1>1, <1>2, <1>3, <1>4, <1>5, <1>6, <1>7 DEF Recv

LEMMA SendTyped ==
  ASSUME TypeOK, NEW p \in Role, Send(p)
  PROVE  TypeOK'
  <1>1. CASE Open(p)
    BY <1>1, Sides DEF TypeOK, Open, Sending
  <1>2. CASE Test(p)
    BY <1>2, Sides DEF TypeOK, Test, Sending
  <1>3. CASE Drop(p)
    BY <1>3, Sides DEF TypeOK, Drop, Sending
  <1>4. CASE Connect(p)
    BY <1>4, Sides DEF TypeOK, Connect, Sending
  <1>5. CASE Hello(p)
    <2>1. link[p] = "own" => recv[Other(p)] # "off"
      BY DEF TypeOK
    <2>. QED  BY <1>5, <2>1, Sides DEF TypeOK, Hello, Notified, Sending
  <1>6. CASE HelloTimesOut(p)
    BY <1>6, Sides DEF TypeOK, HelloTimesOut, Sending
  <1>7. CASE ResetSend(p)
    BY <1>7, Sides DEF TypeOK, ResetSend, Sending
  <1>. QED  BY <1>1, <1>2, <1>3, <1>4, <1>5, <1>6, <1>7 DEF Send

LEMMA BeatTyped ==
  ASSUME TypeOK, NEW p \in Role, GiveUp(p) \/ LowerSend(p) \/ Woken(p)
  PROVE  TypeOK'
  <1>1. CASE GiveUp(p)
    BY <1>1, Sides DEF TypeOK, GiveUp, RecvMayMiss
  <1>2. CASE LowerSend(p)
    BY <1>2, Sides DEF TypeOK, LowerSend, SendMayMiss, Sending
  <1>3. CASE RecvWoken(p)
    BY <1>3, Sides DEF TypeOK, RecvWoken
  <1>4. CASE SendWoken(p)
    BY <1>4, Sides DEF TypeOK, SendWoken, Sending
  <1>. QED  BY <1>1, <1>2, <1>3, <1>4 DEF Woken

LEMMA NextTyped == TypeOK /\ [Next]_vars => TypeOK'
  <1> SUFFICES ASSUME TypeOK, [Next]_vars PROVE TypeOK'
    OBVIOUS
  <1>1. CASE Next
    BY <1>1, LifeTyped, RecvTyped, SendTyped, BeatTyped DEF Next
  <1>2. CASE UNCHANGED vars
    BY <1>2 DEF TypeOK, vars
  <1>. QED  BY <1>1, <1>2

(* Every thread stays inside its own loop, and a mapping, a name and an    *)
(* unread packet belong to a process that lives or lived, through any       *)
(* number of ends.                                                         *)
THEOREM TypeCorrect == Spec => []TypeOK
  BY InitTyped, NextTyped, PTL DEF Spec

-----------------------------------------------------------------------------
(* What a sender finds. *)

LEMMA InitFound == Init => FoundWhereItListens
  BY Sides DEF Init, FoundWhereItListens

LEMMA LifeFound ==
  ASSUME TypeOK, FoundWhereItListens, NEW p \in Role, Start(p) \/ Crash(p) \/ Stop(p)
  PROVE  FoundWhereItListens'
  <1> SUFFICES ASSUME NEW r \in Role
               PROVE  /\ recv'[r] \notin {"off", "create"} => name'[r] \in {"none", "own"}
                      /\ link'[Other(r)] = "own"
                         /\ send'[Other(r)] \in {"connect", "hello"} \cup Sending
                           => recv'[r] \in {"listen", "recv", "asleep", "create"}
    BY DEF FoundWhereItListens
  <1>1. CASE Start(p)
    BY <1>1, Sides DEF TypeOK, Start, Sending, Running, FoundWhereItListens
  <1>2. CASE Crash(p)
    BY <1>2, Sides DEF TypeOK, Crash, Sending, Running, FoundWhereItListens
  <1>3. CASE Stop(p)
    BY <1>3, Sides DEF TypeOK, Stop, Running, Notified, Sending, FoundWhereItListens
  <1>. QED  BY <1>1, <1>2, <1>3

LEMMA RecvFound ==
  ASSUME TypeOK, FoundWhereItListens, NEW p \in Role, Recv(p)
  PROVE  FoundWhereItListens'
  <1> SUFFICES ASSUME NEW r \in Role
               PROVE  /\ recv'[r] \notin {"off", "create"} => name'[r] \in {"none", "own"}
                      /\ link'[Other(r)] = "own"
                         /\ send'[Other(r)] \in {"connect", "hello"} \cup Sending
                           => recv'[r] \in {"listen", "recv", "asleep", "create"}
    BY DEF FoundWhereItListens
  <1>1. CASE Create(p)
    BY <1>1, Sides DEF TypeOK, Create, FoundWhereItListens
  <1>2. CASE Size(p)
    BY <1>2, Sides DEF TypeOK, Size, FoundWhereItListens
  <1>3. CASE Work(p)
    BY <1>3, Sides DEF TypeOK, Work, FoundWhereItListens
  <1>4. CASE Listen(p)
    BY <1>4, Sides DEF TypeOK, Listen, FoundWhereItListens
  <1>5. CASE HearHello(p)
    BY <1>5, Sides DEF TypeOK, HearHello, Sending, FoundWhereItListens
  <1>6. CASE HearBye(p)
    BY <1>6, Sides DEF TypeOK, HearBye, FoundWhereItListens
  <1>7. CASE Leave(p)
    BY <1>7, Sides DEF TypeOK, Leave, FoundWhereItListens
  <1>. QED  BY <1>1, <1>2, <1>3, <1>4, <1>5, <1>6, <1>7 DEF Recv

LEMMA SendFound ==
  ASSUME TypeOK, FoundWhereItListens, NEW p \in Role, Send(p)
  PROVE  FoundWhereItListens'
  <1> SUFFICES ASSUME NEW r \in Role
               PROVE  /\ recv'[r] \notin {"off", "create"} => name'[r] \in {"none", "own"}
                      /\ link'[Other(r)] = "own"
                         /\ send'[Other(r)] \in {"connect", "hello"} \cup Sending
                           => recv'[r] \in {"listen", "recv", "asleep", "create"}
    BY DEF FoundWhereItListens
  <1>1. CASE Open(p)
    BY <1>1, Sides DEF TypeOK, Open, Sending, FoundWhereItListens
  <1>2. CASE Test(p)
    <2>1. name' = name /\ recv' = recv /\ link' = link
          /\ send' = [send EXCEPT ![p] = IF RecverWorking(p) THEN "connect" ELSE "drop"]
      BY <1>2 DEF Test
    <2>2. ASSUME link[p] = "own", send'[p] \in {"connect", "hello"} \cup Sending
          PROVE  recv[Other(p)] \in {"listen", "recv", "asleep", "create"}
      <3>1. RecverWorking(p)
        BY <2>1, <2>2 DEF TypeOK, Sending
      <3>2. recv[Other(p)] \notin {"size", "work"}
        BY <2>2, <3>1 DEF RecverWorking, Stage
      <3>. QED  BY <2>2, <3>2, Sides DEF TypeOK
    <2>. QED  BY <2>1, <2>2, Sides DEF TypeOK, FoundWhereItListens
  <1>3. CASE Drop(p)
    BY <1>3, Sides DEF TypeOK, Drop, Sending, FoundWhereItListens
  <1>4. CASE Connect(p)
    BY <1>4, Sides DEF TypeOK, Connect, Sending, FoundWhereItListens
  <1>5. CASE Hello(p)
    BY <1>5, Sides DEF TypeOK, Hello, Notified, Sending, FoundWhereItListens
  <1>6. CASE HelloTimesOut(p)
    BY <1>6, Sides DEF TypeOK, HelloTimesOut, Sending, FoundWhereItListens
  <1>7. CASE ResetSend(p)
    BY <1>7, Sides DEF TypeOK, ResetSend, Sending, FoundWhereItListens
  <1>. QED  BY <1>1, <1>2, <1>3, <1>4, <1>5, <1>6, <1>7 DEF Send

LEMMA BeatFound ==
  ASSUME TypeOK, FoundWhereItListens, NEW p \in Role,
         GiveUp(p) \/ LowerSend(p) \/ Woken(p)
  PROVE  FoundWhereItListens'
  <1>1. CASE GiveUp(p)
    BY <1>1, Sides DEF TypeOK, GiveUp, RecvMayMiss, FoundWhereItListens
  <1>2. CASE LowerSend(p)
    BY <1>2, Sides DEF TypeOK, LowerSend, SendMayMiss, Sending, FoundWhereItListens
  <1>3. CASE RecvWoken(p)
    BY <1>3, Sides DEF TypeOK, RecvWoken, FoundWhereItListens
  <1>4. CASE SendWoken(p)
    BY <1>4, Sides DEF TypeOK, SendWoken, Sending, FoundWhereItListens
  <1>. QED  BY <1>1, <1>2, <1>3, <1>4 DEF Woken

LEMMA NextFound == TypeOK /\ FoundWhereItListens /\ [Next]_vars => FoundWhereItListens'
  <1> SUFFICES ASSUME TypeOK, FoundWhereItListens, [Next]_vars
               PROVE  FoundWhereItListens'
    OBVIOUS
  <1>1. CASE Next
    BY <1>1, LifeFound, RecvFound, SendFound, BeatFound DEF Next
  <1>2. CASE UNCHANGED vars
    BY <1>2 DEF FoundWhereItListens, vars
  <1>. QED  BY <1>1, <1>2

(* However often processes are killed and come back, a process that has    *)
(* created its segment is not found under that of an earlier life, and a   *)
(* sender connects to a living receiver's segment only once it works.      *)
THEOREM FoundListening == Spec => []FoundWhereItListens
  BY InitTyped, NextTyped, InitFound, NextFound, PTL DEF Spec
=============================================================================
