-------------------------- MODULE MessageLossProofs --------------------------
(***************************************************************************)
(* What can be lost on the way, and what recv makes of the chunks that do  *)
(* arrive: they are copied into buffers that have room for them, and       *)
(* without a stop or a break only a message that was cut into chunks and   *)
(* queued again can get lost.                                              *)
(*                                                                         *)
(* The invariant adds two things to FullInv: a message of one packet is    *)
(* delivered with that packet, disturbed or not (ShortDone), and before    *)
(* the first stop or break nothing is known as lost (Calm).                *)
(***************************************************************************)
EXTENDS MessagePipelineProofs

(***************************************************************************)
(* The entries of recv_msg_map_.                                           *)
(***************************************************************************)

(* The last chunk of a message is not empty, unless the message is.        *)
LEMMA LastHoldsBytes ==
  ASSUME NEW n \in Sizes, n # 0
  PROVE  (ChunkTotalCount(n) - 1) * Cap < n
  <1>1. n \in Nat \ {0} /\ Cap \in Nat \ {0}
    BY Counts, SizeAssumption
  <1>2. CASE ~(n > Cap)
    BY <1>1, <1>2 DEF ChunkTotalCount
  <1>3. CASE n > Cap
    <2> DEFINE x == n + Cap - 1  q == x \div Cap
    <2>1. x \in Int
      BY <1>1
    <2>2. q \in Int /\ x % Cap \in 0..(Cap - 1) /\ x = q * Cap + (x % Cap)
      <3> HIDE DEF x
      <3>. QED  BY <1>1, <2>1, DivMod
    <2>3. x = n + Cap - 1 /\ ChunkTotalCount(n) = q
      BY <1>3 DEF ChunkTotalCount
    <2> HIDE DEF x, q
    <2>4. (q - 1) * Cap = q * Cap - Cap /\ q * Cap \in Int
      BY <1>1, <2>2
    <2>5. (q - 1) * Cap < n
      BY <1>1, <2>2, <2>3, <2>4
    <2>. QED  BY <2>3, <2>5
  <1>. QED  BY <1>2, <1>3

(* Every chunk of a message lies within it.                                *)
LEMMA ChunkLiesWithin ==
  ASSUME NEW n \in Sizes, NEW s \in 0..(ChunkTotalCount(n) - 1)
  PROVE  s * Cap + ChunkSize(n, s) <= n
  <1> DEFINE l == ChunkTotalCount(n) - 1
  <1>1. /\ n \in Nat /\ Cap \in Nat \ {0} /\ ChunkTotalCount(n) \in Nat
        /\ l \in Nat /\ s \in Nat /\ s <= l /\ ChunkTotalCount(n) = l + 1
    BY Counts, SizeAssumption
  <1>2. CASE s = l
    <2>1. ChunkSize(n, s) = n - s * Cap
      BY <1>1, <1>2, ChunkSizes
    <2>2. s * Cap \in Nat
      BY <1>1
    <2>. QED  BY <1>1, <2>1, <2>2
  <1>3. CASE s # l
    <2>1. s + 1 <= l /\ s < ChunkTotalCount(n) /\ s + 1 < ChunkTotalCount(n)
      BY <1>1, <1>3
    <2>2. ChunkSize(n, s) = Cap
      BY <1>1, <2>1, ChunkSizes
    <2>3. n # 0
      BY <1>1, <2>1, SizeAssumption DEF ChunkTotalCount
    <2>4. l * Cap < n
      BY <2>3, LastHoldsBytes
    <2> HIDE DEF l
    <2>5. (s + 1) * Cap <= l * Cap
      BY <1>1, <2>1
    <2>6. (s + 1) * Cap = s * Cap + Cap /\ s * Cap \in Nat /\ l * Cap \in Nat
      BY <1>1
    <2>. QED  BY <1>1, <2>2, <2>4, <2>5, <2>6
  <1>. QED  BY <1>2, <1>3

(* The buffer recv finds for a chunk has the length of its message.        *)
LEMMA BufferIsOfMessage ==
  ASSUME TypeOK, Whole, NEW m \in Posted, NEW s \in 0..Last(m),
         NEW h, h = OnTheWire(HeaderOf([msg |-> m, seq |-> s])),
         h.msgSeq \in DOMAIN Opened(h)
  PROVE  h.chunkSeq = s /\ Opened(h)[h.msgSeq].len = size[m]
  <1>1. h = [type |-> 0, totalLen |-> size[m], chunkSeq |-> s,
             chunkTotalCount |-> Last(m) + 1, msgSeq |-> Key(m)]
    BY HeaderArrives
  <1>2. h.totalLen = size[m] /\ h.chunkSeq = s /\ h.msgSeq = Key(m)
    BY <1>1
  <1> DEFINE new == [second |-> 0, first |-> {}, len |-> size[m]]
  <1>3. CASE s = 0 /\ size[m] # 0
    <2>1. Opened(h)[Key(m)] = new
      BY <1>2, <1>3 DEF Opened, Enter
    <2>. QED  BY <1>2, <2>1
  <1>4. CASE ~(s = 0 /\ size[m] # 0)
    <2>1. Opened(h) = entries
      BY <1>2, <1>4 DEF Opened
    <2>2. Counted(m, entries[Key(m)])
      BY <1>2, <2>1 DEF Whole
    <2>. QED  BY <1>2, <2>1, <2>2 DEF Counted
  <1>. QED  BY <1>3, <1>4

(* Retries, sessions and messages that were given up do not make recv copy *)
(* a chunk into the buffer of another message, or past the end of its own, *)
(* as long as the header can count what is posted (WidthAssumption).       *)
THEOREM CopiesStayInside == Spec => []CopiesInside
  <1>1. Init => RecvInv
    BY RecvInit
  <1>2. RecvInv /\ [Next]_vars => RecvInv'
    BY RecvStep
  <1>3. ASSUME RecvInv PROVE CopiesInside
    <2>1. TypeOK /\ Known /\ Whole
      BY <1>3 DEF RecvInv, WayInv
    <2> SUFFICES ASSUME NEW i \in 1..Len(inFlight), inFlight[i] # Bye,
                        NEW h, h = OnTheWire(HeaderOf(inFlight[i])),
                        h.msgSeq \in DOMAIN Opened(h)
                 PROVE  h.chunkSeq * Cap + ChunkSize(size[inFlight[i].msg], inFlight[i].seq)
                          <= Opened(h)[h.msgSeq].len
      BY DEF CopiesInside
    <2> DEFINE p == inFlight[i]  m == p.msg  s == p.seq
    <2>2. m \in Posted /\ s \in 0..Last(m) /\ p = [msg |-> m, seq |-> s]
      BY <2>1 DEF Known, Real, Chunk, TypeOK
    <2> HIDE DEF p
    <2>3. h.chunkSeq = s /\ Opened(h)[h.msgSeq].len = size[m]
      <3>1. h = OnTheWire(HeaderOf([msg |-> m, seq |-> s]))
        BY <2>2 DEF p
      <3> HIDE DEF m, s
      <3>. QED  BY <2>1, <2>2, <3>1, BufferIsOfMessage
    <2>4. s * Cap + ChunkSize(size[m], s) <= size[m]
      <3>1. size[m] \in Sizes /\ s \in 0..(ChunkTotalCount(size[m]) - 1)
        BY <2>1, <2>2, PostedSize DEF Last
      <3>. QED  BY <3>1, ChunkLiesWithin
    <2>. QED  BY <2>3, <2>4 DEF p
  <1>. QED  BY <1>1, <1>2, <1>3, PTL DEF Spec

-----------------------------------------------------------------------------
(***************************************************************************)
(* A message of one packet.                                                *)
(***************************************************************************)
Delivered(m) ==
  \E i \in 1..Len(delivered) : delivered[i].msg = m /\ delivered[i].data = Content(m)

(* No retry harms it: its packet is first and last chunk in one.           *)
ShortDone == \A m \in Posted : Last(m) = 0 /\ Taken(LastChunk(m)) => Delivered(m)

LEMMA DeliveredStays ==
  ASSUME RecvInv, StepCase, NEW m \in Posted, Delivered(m)
  PROVE  Delivered(m)'
  <1> USE DEF RecvInv, WayInv
  <1>1. Content(m)' = Content(m)
    BY ChunksStay DEF Content
  <1>2. PICK i \in 1..Len(delivered) : delivered[i].msg = m /\ delivered[i].data = Content(m)
    BY DEF Delivered
  <1>3. i \in 1..Len(delivered') /\ delivered'[i] = delivered[i]
    <2>1. CASE delivered' = delivered
      BY <2>1
    <2>2. ASSUME NEW n \in Posted, NEW s \in 0..Last(n), Takes(n, s), delivered' # delivered
          PROVE  i \in 1..Len(delivered') /\ delivered'[i] = delivered[i]
      <3>1. \E d : delivered' = Append(delivered, d)
        BY <2>2, Zenon DEF Takes, Received
      <3>. QED  BY <3>1 DEF TypeOK
    <2>. QED  BY <2>1, <2>2, DeliveredKeeps
  <1>. QED  BY <1>1, <1>2, <1>3 DEF Delivered

(* What recv makes of the only packet of a message.                        *)
LEMMA ShortIsDelivered ==
  ASSUME RecvInv, StepCase, NEW m \in Posted, Takes(m, 0), Last(m) = 0
  PROVE  Delivered(m)'
  <1> USE DEF RecvInv, WayInv
  <1>1. size[m] \in Sizes /\ size[m] \in Nat /\ ChunkTotalCount(size[m]) = 1
    BY PostedSize, Counts
  <1>2. HasEntry(m, 0) <=> size[m] # 0
    BY DEF HasEntry, Whole, Counted
  <1>3. ASSUME size[m] # 0 PROVE Grown(m, 0).second = size[m] /\ Grown(m, 0).first = {0}
    <2>1. ChunkSize(size[m], 0) = size[m] - 0 * Cap
      BY <1>1, ChunkSizes
    <2>2. 0 * Cap = 0 /\ size[m] - 0 = size[m] /\ 0 + size[m] = size[m]
      BY <1>1, SizeAssumption
    <2>3. Grown(m, 0) = [second |-> 0 + ChunkSize(size[m], 0), first |-> {} \union {0},
                         len |-> size[m]]
      BY <1>3 DEF Grown
    <2>. QED  BY <2>1, <2>2, <2>3
  <1>4. Content(m) = IF size[m] = 0 THEN Null ELSE {0}
    <2>1. 0..Last(m) = {0}
      OBVIOUS
    <2>. QED  BY <2>1 DEF Content
  <1>5. delivered' = Append(delivered, [msg |-> m, data |-> Content(m)])
    <2>1. delivered' = IF 0 # Last(m) \/ (HasEntry(m, 0) /\ Grown(m, 0).second # size[m])
                       THEN delivered
                       ELSE Append(delivered, [msg |-> m, data |-> IF HasEntry(m, 0)
                                                         THEN Grown(m, 0).first ELSE Null])
      BY Zenon DEF Takes, Received
    <2>2. CASE size[m] = 0
      BY <1>2, <1>4, <2>1, <2>2
    <2>3. CASE size[m] # 0
      <3>1. HasEntry(m, 0) /\ Grown(m, 0).second = size[m] /\ Grown(m, 0).first = {0}
        BY <1>2, <1>3, <2>3
      <3>. QED  BY <1>4, <2>1, <2>3, <3>1
    <2>. QED  BY <2>2, <2>3
  <1>6. Content(m)' = Content(m)
    BY ChunksStay DEF Content
  <1> DEFINE d == [msg |-> m, data |-> Content(m)]
  <1>7. d.msg = m /\ d.data = Content(m)
    OBVIOUS
  <1>8. delivered' = Append(delivered, d)
    BY <1>5
  <1> HIDE DEF d
  <1>9. Len(delivered') = Len(delivered) + 1 /\ Len(delivered) \in Nat
        /\ delivered'[Len(delivered) + 1] = d
    BY <1>8 DEF TypeOK
  <1>10. \E i \in 1..Len(delivered') : delivered'[i] = d
    BY <1>9
  <1>. QED  BY <1>6, <1>7, <1>10 DEF Delivered

LEMMA ShortDoneStep ==
  ASSUME RecvInv, ShortDone, StepCase
  PROVE  ShortDone'
  <1> USE DEF RecvInv, WayInv
  <1>1. SUFFICES ASSUME NEW m \in Posted', Last(m)' = 0, Taken(LastChunk(m))'
                 PROVE  Delivered(m)'
    BY DEF ShortDone
  <1>2. CASE m \notin Posted
    <2>1. PICK t \in Posters, n \in Sizes : Posts(t, n)
      BY <1>2 DEF StepCase, Posted, Idles, way, Pushes, Refuses, Pops, Sends, Drops, Retries,
                  Clears, Replaces, TakesBye, Takes
    <2>2. \A s : ~Taken([msg |-> m, seq |-> s])'
      BY <1>2, <2>1, NewMessage
    <2>. QED  BY <1>1, <2>2 DEF LastChunk, Taken
  <1>3. CASE m \in Posted
    <2> DEFINE p == [msg |-> m, seq |-> 0]
    <2>1. /\ Last(m) = 0 /\ LastChunk(m) = p /\ LastChunk(m)' = p /\ p \in Chunk
          /\ Taken(p)'
      <3>1. Last(m)' = Last(m) /\ LastChunk(m) \in Chunk
        BY <1>3, ChunksStay, LastIsChunk
      <3>2. LastChunk(m) = p /\ LastChunk(m)' = p
        BY <1>1, <3>1 DEF LastChunk
      <3>. QED  BY <1>1, <3>1, <3>2 DEF Taken
    <2>2. CASE Taken(p)
      BY <1>3, <2>1, <2>2, DeliveredStays DEF ShortDone
    <2>3. CASE ~Taken(p)
      <3>1. taken' # taken
        BY <2>1, <2>3 DEF Taken
      <3>2. TakesBye \/ \E n \in Posted : \E s \in 0..Last(n) : Takes(n, s)
        BY <3>1 DEF StepCase, Idles, way, Posts, Pushes, Refuses, Pops, Sends, Drops,
                    Retries, Clears, Replaces
      <3>3. ~TakesBye
        <4> HIDE DEF p
        <4>. QED  BY <2>1, <2>3, Moves
      <3>4. PICK n \in Posted : \E s \in 0..Last(n) : Takes(n, s)
        BY <3>2, <3>3
      <3>5. PICK s \in 0..Last(n) : Takes(n, s)
        BY <3>4
      <3>6. p = [msg |-> n, seq |-> s]
        <4> HIDE DEF p
        <4>1. Taken(p)' <=> Taken(p) \/ Sent(p)
          BY <2>1, <3>5, Moves
        <4>2. Sent(p) <=> p = [msg |-> n, seq |-> s]
          BY <2>1, <3>5, Moves
        <4>. QED  BY <2>1, <2>3, <4>1, <4>2
      <3>7. n = m /\ s = 0
        BY <3>6
      <3>. QED  BY <1>3, <2>1, <3>5, <3>7, ShortIsDelivered
    <2>. QED  BY <2>2, <2>3
  <1>. QED  BY <1>2, <1>3

-----------------------------------------------------------------------------
(***************************************************************************)
(* Before the first stop and the first break.                              *)
(***************************************************************************)

(* The send loop stays in its inner loop, the segment is written only when *)
(* it is empty, and nothing is known as lost.                              *)
Calm ==
  NeverBroken =>
    /\ running /\ connected /\ ~closed /\ ~flapped
    /\ sendPc \in {"pop", "send", "failed", "requeue"}
    /\ inFlight # <<>> => inFlight[1] # Bye
    /\ lost = {}

LEMMA CalmStep ==
  ASSUME TypeOK, Calm, [Next]_vars
  PROVE  Calm'
  <1> USE DEF vars, sender, segment, receiver, history
  <1>1. breaks \in Nat /\ (NeverBroken' => breaks' = 0 /\ stopPc' = "up")
    BY SizeAssumption DEF TypeOK, NeverBroken
  <1>2. CASE UNCHANGED vars
    BY <1>2 DEF Calm, NeverBroken
  <1>3. ASSUME NEW t \in Posters, Post(t) \/ Push(t) \/ PushRefused(t)
        PROVE  Calm'
    BY <1>3 DEF Post, Push, PushRefused, Calm, NeverBroken
  <1>4. CASE SayBye \/ StopRunning \/ ClearSendQueue
    BY <1>4 DEF SayBye, StopRunning, ClearSendQueue, Calm, NeverBroken
  <1>5. CASE Pop \/ PopDisconnected \/ SendFails \/ Retry \/ Requeue
    BY <1>5 DEF Pop, PopDisconnected, SendFails, Retry, Requeue, Calm, NeverBroken
  <1>6. CASE Drop \/ Reset \/ Reconnect \/ OpenGivesUp
    BY <1>6 DEF Drop, Reset, Reconnect, OpenGivesUp, Calm, NeverBroken
  <1>7. CASE SendSucceeds
    <2>1. popped # Bye /\ MsgsOf(<<>>) = {}
      BY <1>7, ByeIsNoChunk DEF SendSucceeds, TypeOK, MsgsOf
    <2>. QED  BY <1>7, <2>1 DEF SendSucceeds, Handoff!Put, Calm, NeverBroken
  <1>8. CASE Disconnect \/ RecvLeaves
    BY <1>1, <1>8 DEF Disconnect, RecvLeaves, NeverBroken, Calm
  <1>9. CASE HearHello
    BY <1>9 DEF HearHello, Calm, NeverBroken
  <1>10. CASE RecvMessage
    BY <1>10 DEF RecvMessage, Handoff!Take, Calm, NeverBroken
  <1>11. CASE RecvBye
    BY <1>11 DEF RecvBye, Handoff!Take, Calm, NeverBroken
  <1>. QED
    BY <1>2, <1>3, <1>4, <1>5, <1>6, <1>7, <1>8, <1>9, <1>10, <1>11
       DEF Next, Application, SendLoop

LossInv == FullInv /\ ShortDone /\ Calm

LEMMA LossInit ==
  ASSUME Init
  PROVE  LossInv
  <1>1. /\ size = <<>> /\ running = TRUE /\ connected = TRUE /\ closed = FALSE
        /\ flapped = FALSE /\ sendPc = "pop" /\ inFlight = <<>> /\ lost = {}
    BY DEF Init, Handoff!Init
  <1>. QED  BY <1>1, FullInit DEF LossInv, ShortDone, Calm, Posted

LEMMA LossStep ==
  ASSUME LossInv, [Next]_vars
  PROVE  LossInv'
  <1>1. RecvInv /\ TypeOK /\ StepCase
    BY StepCases DEF LossInv, FullInv, RecvInv, WayInv
  <1>. QED  BY <1>1, FullStep, ShortDoneStep, CalmStep DEF LossInv

(* As long as nobody stops and the connection holds, what was posted and   *)
(* is no longer on its way was received, whole; the only exceptions are    *)
(* messages of several chunks one of which was queued again.               *)
THEOREM OnlyARetryLoses == Spec => []OnlyRetriesLose
  <1>1. Init => LossInv
    BY LossInit
  <1>2. LossInv /\ [Next]_vars => LossInv'
    BY LossStep
  <1>3. ASSUME LossInv PROVE OnlyRetriesLose
    <2> SUFFICES ASSUME NeverBroken, AllThrough,
                        NEW m \in Posted, m \notin retried \/ Last(m) = 0
                 PROVE  Delivered(m)
      BY DEF OnlyRetriesLose, Delivered
    <2>1. TypeOK /\ Known /\ Somewhere /\ FullInv
      BY <1>3 DEF LossInv, FullInv, RecvInv, WayInv
    <2>2. lost = {}
      BY <1>3 DEF LossInv, Calm
    <2> DEFINE p == LastChunk(m)
    <2>3. p \in Chunks(m) /\ p \in Chunk
      BY <2>1, LastIsChunk
    <2> HIDE DEF p
    <2>4. Taken(p)
      <3>1. ToCome(p) \/ Queued(p) \/ popped = p \/ Sent(p) \/ Taken(p)
        BY <2>1, <2>2, <2>3 DEF Somewhere
      <3>. QED  BY <2>3, <3>1, ByeIsNoChunk DEF AllThrough, ToCome, Queued, Sent
    <2>5. CASE Last(m) = 0
      BY <1>3, <2>4, <2>5 DEF LossInv, ShortDone, p
    <2>6. CASE m \notin retried
      <3>1. m \in Posted \ Disturbed
        BY <2>2, <2>6 DEF Disturbed
      <3>2. UndisturbedArrives
        BY <2>1, FullInvGives
      <3>. QED  BY <2>4, <3>1, <3>2 DEF UndisturbedArrives, Delivered, p
    <2>. QED  BY <2>5, <2>6
  <1>. QED  BY <1>1, <1>2, <1>3, PTL DEF Spec
=============================================================================
