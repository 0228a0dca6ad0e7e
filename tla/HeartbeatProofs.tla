--------------------------- MODULE HeartbeatProofs ---------------------------
(***************************************************************************)
(* Proofs about Heartbeat, for every width of the counter, every limit and *)
(* any number of connections.  The inductive invariant is TypeOK with      *)
(* CountExplained.                                                         *)
(***************************************************************************)
EXTENDS Heartbeat, TLAPS

USE CounterAssumption

-----------------------------------------------------------------------------
(* Arithmetic.                                                             *)

LEMMA DivMod ==
  ASSUME NEW m \in Nat \ {0}, NEW x \in Int
  PROVE  /\ x \div m \in Int /\ x % m \in 0..(m - 1)
         /\ x = (x \div m) * m + (x % m)
  BY SMT

LEMMA Remainder ==
  ASSUME NEW m \in Nat \ {0}, NEW x \in Int, NEW q \in Int, NEW r \in 0..(m - 1),
         x = q * m + r
  PROVE  x % m = r
  BY SMT

(* One more, with the wrap of ++. *)
LEMMA Up ==
  ASSUME NEW m \in Nat \ {0}, NEW x \in Int
  PROVE  (x + 1) % m = IF x % m = m - 1 THEN 0 ELSE (x % m) + 1
  <1> DEFINE q == x \div m  r == x % m
  <1>1. q \in Int /\ r \in 0..(m - 1) /\ x = q * m + r
    BY DivMod
  <1> HIDE DEF q, r
  <1>2. ASSUME r = m - 1 PROVE (x + 1) % m = 0
    <2>1. x + 1 = (q + 1) * m + 0
      BY <1>1, <1>2
    <2>. QED  BY <2>1, <1>1, <1>2, Remainder
  <1>3. ASSUME r # m - 1 PROVE (x + 1) % m = r + 1
    <2>1. x + 1 = q * m + (r + 1) /\ r + 1 \in 0..(m - 1)
      BY <1>1, <1>3
    <2>. QED  BY <2>1, <1>1, <1>3, Remainder
  <1>. QED  BY <1>1, <1>2, <1>3 DEF r

(* One less, with the wrap of --. *)
LEMMA Down ==
  ASSUME NEW m \in Nat \ {0}, NEW x \in Int
  PROVE  (x - 1) % m = IF x % m = 0 THEN m - 1 ELSE (x % m) - 1
  <1> DEFINE q == x \div m  r == x % m
  <1>1. q \in Int /\ r \in 0..(m - 1) /\ x = q * m + r
    BY DivMod
  <1> HIDE DEF q, r
  <1>2. ASSUME r = 0 PROVE (x - 1) % m = m - 1
    <2>1. x - 1 = (q - 1) * m + (m - 1)
      BY <1>1, <1>2
    <2>2. x - 1 \in Int /\ q - 1 \in Int /\ m - 1 \in 0..(m - 1)
      BY <1>1
    <2>. QED  BY <2>1, <2>2, Remainder
  <1>3. ASSUME r # 0 PROVE (x - 1) % m = r - 1
    <2>1. x - 1 = q * m + (r - 1) /\ r - 1 \in 0..(m - 1)
      BY <1>1, <1>3
    <2>. QED  BY <2>1, <1>1, <1>3, Remainder
  <1>. QED  BY <1>1, <1>2, <1>3 DEF r

(* The remainder of a number that is not negative is not above it. *)
LEMMA NotAbove ==
  ASSUME NEW m \in Nat \ {0}, NEW x \in Nat
  PROVE  x % m <= x
  <1> DEFINE q == x \div m  r == x % m
  <1>1. q \in Int /\ r \in 0..(m - 1) /\ x = q * m + r
    BY DivMod
  <1> HIDE DEF q, r
  <1>2. q >= 0
    <2>1. CASE q <= -1
      <3>1. q * m <= -m
        BY <2>1, <1>1, SMT
      <3>. QED  BY <3>1, <1>1
    <2>. QED  BY <2>1, <1>1
  <1>3. q * m >= 0
    BY <1>1, <1>2, SMT
  <1>. QED  BY <1>1, <1>3 DEF r

LEMMA ZeroMod == ASSUME NEW m \in Nat \ {0} PROVE 0 % m = 0
  BY Remainder, 0 = 0 * m + 0

-----------------------------------------------------------------------------
(* The two sides.                                                          *)
LEMMA Sides ==
  ASSUME NEW p \in Role
  PROVE  /\ Other(p) \in Role /\ Other(p) # p /\ Other(Other(p)) = p
         /\ \A r \in Role : r = p \/ r = Other(p)
  BY DEF Role, Other

(* The packets are told apart. *)
LEMMA Kinds ==
  /\ Fresh("ping") \in Packet /\ Fresh("pong") \in Packet
  /\ Old("ping") \in Packet /\ Old("pong") \in Packet
  /\ Fresh("hello") \in Packet /\ Fresh("raised") \in Packet
  /\ Fresh("ping").type = "ping" /\ Fresh("pong").type = "pong"
  /\ Fresh("hello").type = "hello" /\ Fresh("raised").type = "raised"
  /\ Old("ping").type = "ping" /\ Old("pong").type = "pong" /\ None.type = "none"
  /\ Fresh("ping").old = FALSE /\ Fresh("pong").old = FALSE
  /\ Old("ping").old = TRUE /\ Old("pong").old = TRUE
  BY DEF Packet, Fresh, Old, None

LEMMA OfAKind ==
  ASSUME NEW k \in Packet
  PROVE  \/ k = Fresh("hello") \/ k = Fresh("raised")
         \/ k = Fresh("ping") \/ k = Old("ping")
         \/ k = Fresh("pong") \/ k = Old("pong")
  BY DEF Packet

-----------------------------------------------------------------------------
(* Types.                                                                  *)

LEMMA InitTyped == Init => TypeOK
  BY DEF Init, TypeOK, Packet, None

LEMMA PutTyped ==
  ASSUME TypeOK, NEW p \in Role, NEW k \in Packet, Put(p, k)
  PROVE  slot' \in [Role -> Packet \cup {None}]
  BY Sides DEF TypeOK, Put

LEMMA BeatTyped ==
  ASSUME TypeOK, NEW p \in Role, Beat(p)
  PROVE  TypeOK'
  <1> USE DEF channels, counts
  <1>1. CASE BeatStart(p)
    BY <1>1 DEF TypeOK, BeatStart
  <1>2. CASE Ping(p)
    BY <1>2, PutTyped, Kinds DEF TypeOK, Ping
  <1>3. CASE PingFails(p)
    BY <1>3 DEF TypeOK, PingFails, PutFails
  <1>4. CASE Count(p)
    BY <1>4 DEF TypeOK, Count
  <1>5. CASE LowerRecv(p)
    BY <1>5 DEF TypeOK, LowerRecv
  <1>6. CASE LowerSend(p)
    BY <1>6 DEF TypeOK, LowerSend
  <1>. QED  BY <1>1, <1>2, <1>3, <1>4, <1>5, <1>6 DEF Beat

LEMMA RecvTyped ==
  ASSUME TypeOK, NEW p \in Role, Recv(p)
  PROVE  TypeOK'
  <1> USE DEF channels, counts
  <1>1. CASE Take(p)
    BY <1>1 DEF TypeOK, Take
  <1>2. CASE Pong(p)
    <2>1. PICK k \in Packet : Put(p, k)
      BY <1>2, Kinds DEF Pong, Answer
    <2>. QED  BY <1>2, <2>1, PutTyped DEF TypeOK, Pong
  <1>3. CASE PongFails(p)
    BY <1>3 DEF TypeOK, PongFails, PutFails
  <1>4. CASE HearPong(p)
    BY <1>4 DEF TypeOK, HearPong, AfterPong
  <1>5. CASE HearHello(p)
    BY <1>5, Kinds DEF TypeOK, HearHello
  <1>6. CASE ResetCount(p)
    BY <1>6, Sides, Kinds DEF TypeOK, ResetCount, Aged
  <1>7. CASE Leave(p)
    BY <1>7, Sides DEF TypeOK, Leave
  <1>. QED  BY <1>1, <1>2, <1>3, <1>4, <1>5, <1>6, <1>7 DEF Recv, Handle

LEMMA SendTyped ==
  ASSUME TypeOK, NEW p \in Role, Send(p)
  PROVE  TypeOK'
  <1> USE DEF channels, counts
  <1>1. CASE Connect(p)
    BY <1>1 DEF TypeOK, Connect
  <1>2. CASE Hello(p)
    BY <1>2, PutTyped, Kinds DEF TypeOK, Hello, PutFails
  <1>3. CASE HelloReplaces(p)
    BY <1>3, Sides, Kinds DEF TypeOK, HelloReplaces
  <1>4. CASE ResetSend(p)
    BY <1>4 DEF TypeOK, ResetSend
  <1>. QED  BY <1>1, <1>2, <1>3, <1>4 DEF Send

LEMMA NextTyped == TypeOK /\ [Next]_vars => TypeOK'
  <1> SUFFICES ASSUME TypeOK, [Next]_vars PROVE TypeOK'
    OBVIOUS
  <1>1. CASE Next
    BY <1>1, BeatTyped, RecvTyped, SendTyped DEF Next
  <1>2. CASE UNCHANGED vars
    BY <1>2 DEF TypeOK, vars, channels, counts
  <1>. QED  BY <1>1, <1>2

(* Every variable keeps its type, however often the processes reconnect:   *)
(* in particular the unsigned count stays in its range through every wrap. *)
THEOREM TypeCorrect == Spec => []TypeOK
  BY InitTyped, NextTyped, PTL DEF Spec

-----------------------------------------------------------------------------
(* What the count means.                                                   *)

LEMMA WidthNotZero == W \in Nat \ {0}
  BY SMT

LEMMA UnderWayNat ==
  ASSUME NEW r \in Role
  PROVE  UnderWay(r) \in Nat
  BY DEF UnderWay, One

(* A step that leaves the counts of r alone, and its heartbeat outside the *)
(* count, has only the packets under way to account for. *)
LEMMA Untouched ==
  ASSUME NEW r \in Role, Explained(r), owed[r] \in Int,
         pend'[r] = pend[r], owed'[r] = owed[r], late'[r] = late[r],
         beat[r] = "count" => beat'[r] = "count",
         UnderWay(r)' <= UnderWay(r)
  PROVE  Explained(r)'
  <1>1. UnderWay(r) \in Nat /\ UnderWay(r)' \in Nat
    BY DEF UnderWay, One
  <1>2. One(beat[r] = "count") <= One(beat'[r] = "count")
        /\ One(beat[r] = "count") \in Int /\ One(beat'[r] = "count") \in Int
    BY DEF One
  <1>3. owed'[r] + One(beat'[r] = "count") >= UnderWay(r)'
    BY <1>1, <1>2, SMT DEF Explained
  <1>. QED  BY <1>3 DEF Explained

LEMMA InitExplained == Init => CountExplained
  <1> SUFFICES ASSUME Init, NEW p \in Role PROVE Explained(p)
    BY DEF CountExplained
  <1>1. pend[p] = (owed[p] - late[p]) % W
    BY ZeroMod, WidthNotZero DEF Init
  <1>2. UnderWay(p) = 0
    BY Sides DEF Init, UnderWay, One, None, Fresh
  <1>. QED  BY <1>1, <1>2 DEF Init, Explained, One

(* A put other than a ping or a pong in answer to a fresh ping adds nothing *)
(* to what is under way. *)
LEMMA PutUnderWay ==
  ASSUME TypeOK, NEW p \in Role, NEW k \in Packet, Put(p, k) \/ PutFails,
         NEW r \in Role, hand' = hand,
         k # Fresh("ping") \/ r # p, k # Fresh("pong")
  PROVE  UnderWay(r)' <= UnderWay(r)
  BY Sides, SMT DEF TypeOK, Put, PutFails, UnderWay, One

LEMMA BeatExplained ==
  ASSUME TypeOK, CountExplained, NEW p \in Role, Beat(p)
  PROVE  CountExplained'
  <1> SUFFICES ASSUME NEW r \in Role PROVE Explained(r)'
    BY DEF CountExplained
  <1>0. Explained(r) /\ owed[r] \in Int /\ late[r] \in Nat /\ UnderWay(r) \in Nat
    BY UnderWayNat DEF CountExplained, TypeOK
  <1>1. ASSUME slot' = slot, hand' = hand PROVE UnderWay(r)' <= UnderWay(r)
    BY <1>0, <1>1, SMT DEF UnderWay
  <1>2. CASE BeatStart(p)
    BY <1>0, <1>1, <1>2, Untouched DEF BeatStart, channels, counts, TypeOK
  <1>3. CASE Ping(p)
    <2>1. CASE r = p
      <3>1. /\ owed'[p] = owed[p] /\ pend'[p] = pend[p] /\ late'[p] = late[p]
            /\ beat[p] # "count" /\ beat'[p] = "count" /\ hand' = hand
        BY <1>3 DEF Ping, counts, TypeOK
      <3>2. UnderWay(p)' <= UnderWay(p) + 1 /\ UnderWay(p)' \in Nat
        BY <1>3, <3>1, Sides, SMT DEF Ping, Put, UnderWay, One, TypeOK
      <3>3. owed[p] >= UnderWay(p)
        BY <1>0, <2>1, <3>1, SMT DEF Explained, One
      <3>4. owed'[p] + One(beat'[p] = "count") >= UnderWay(p)'
        BY <1>0, <2>1, <3>1, <3>2, <3>3, SMT DEF One
      <3>. QED  BY <1>0, <2>1, <3>1, <3>4 DEF Explained
    <2>2. CASE r # p
      <3>1. UnderWay(r)' <= UnderWay(r)
        BY <1>3, <2>2, PutUnderWay, Kinds DEF Ping
      <3>. QED  BY <1>0, <1>3, <2>2, <3>1, Untouched DEF Ping, counts, TypeOK
    <2>. QED  BY <2>1, <2>2
  <1>4. CASE PingFails(p)
    BY <1>0, <1>1, <1>4, Untouched DEF PingFails, PutFails, counts, TypeOK
  <1>5. CASE Count(p)
    <2>1. slot' = slot /\ hand' = hand /\ late' = late
      BY <1>5 DEF Count, channels
    <2>2. CASE r = p
      <3>1. owed'[p] = owed[p] + 1 /\ beat[p] = "count" /\ beat'[p] # "count"
            /\ pend'[p] = IF pend[p] = W - 1 THEN 0 ELSE pend[p] + 1
        BY <1>5 DEF Count, TypeOK
      <3>2. owed'[p] - late'[p] = (owed[p] - late[p]) + 1
        BY <1>0, <2>1, <2>2, <3>1
      <3>3. pend'[p] = (owed'[p] - late'[p]) % W
        <4>1. owed[p] - late[p] \in Int
          BY <1>0, <2>2
        <4>2. ((owed[p] - late[p]) + 1) % W =
                IF (owed[p] - late[p]) % W = W - 1 THEN 0 ELSE ((owed[p] - late[p]) % W) + 1
          BY <4>1, Up, WidthNotZero
        <4>3. pend[p] = (owed[p] - late[p]) % W
          BY <1>0, <2>2 DEF Explained
        <4>. QED  BY <3>1, <3>2, <4>2, <4>3, Zenon
      <3>4. owed'[p] >= UnderWay(p)'
        <4>1. UnderWay(p)' <= UnderWay(p) /\ UnderWay(p)' \in Nat
          BY <1>1, <2>1, <2>2 DEF UnderWay, One
        <4>2. owed[p] + 1 >= UnderWay(p)
          BY <1>0, <2>2, <3>1 DEF Explained, One
        <4>. QED  BY <1>0, <2>2, <3>1, <4>1, <4>2, SMT
      <3>5. owed'[p] + One(beat'[p] = "count") >= UnderWay(p)'
        BY <1>0, <2>2, <3>1, <3>4, SMT DEF One
      <3>. QED  BY <2>2, <3>3, <3>5 DEF Explained
    <2>3. CASE r # p
      BY <1>0, <1>1, <1>5, <2>1, <2>3, Untouched DEF Count, TypeOK
    <2>. QED  BY <2>2, <2>3
  <1>6. CASE LowerRecv(p)
    BY <1>0, <1>1, <1>6, Untouched DEF LowerRecv, channels, counts, TypeOK
  <1>7. CASE LowerSend(p)
    BY <1>0, <1>1, <1>7, Untouched DEF LowerSend, channels, counts, TypeOK
  <1>. QED  BY <1>2, <1>3, <1>4, <1>5, <1>6, <1>7 DEF Beat

LEMMA RecvExplained ==
  ASSUME TypeOK, CountExplained, NEW p \in Role, Recv(p)
  PROVE  CountExplained'
  <1> SUFFICES ASSUME NEW r \in Role PROVE Explained(r)'
    BY DEF CountExplained
  <1>0. Explained(r) /\ owed[r] \in Int /\ late[r] \in Nat /\ UnderWay(r) \in Nat
    BY UnderWayNat DEF CountExplained, TypeOK
  <1>1. CASE Take(p)
    <2>1. UnderWay(r)' <= UnderWay(r)
      BY <1>1, Sides, Kinds, SMT DEF Take, UnderWay, One, TypeOK, None, Fresh
    <2>. QED  BY <1>0, <1>1, <2>1, Untouched DEF Take, counts
  <1>2. CASE Pong(p)
    <2> DEFINE reply == Answer(hand[p])
    <2>1. hand[p] = Fresh("ping") \/ hand[p] = Old("ping")
      BY <1>2, OfAKind, Kinds DEF Pong, TypeOK
    <2>2. /\ hand[p] = Fresh("ping") => reply = Fresh("pong")
          /\ hand[p] = Old("ping") => reply = Old("pong")
      BY DEF Fresh, Old, Answer
    <2>3. hand' = [hand EXCEPT ![p] = None] /\ Put(p, reply)
      BY <1>2 DEF Pong
    <2>4. Fresh("ping") # Fresh("pong") /\ Old("ping") # Fresh("ping")
          /\ Old("pong") # Fresh("pong") /\ Old("pong") # Fresh("ping")
          /\ None # Fresh("ping") /\ None # Fresh("pong")
          /\ Old("ping") # Fresh("pong")
      BY DEF Fresh, Old, None
    <2> HIDE DEF reply
    <2>5. UnderWay(r)' <= UnderWay(r)
      <3>1. CASE hand[p] = Fresh("ping")
        BY <2>2, <2>3, <2>4, <3>1, Sides, SMT DEF Put, UnderWay, One, TypeOK
      <3>2. CASE hand[p] = Old("ping")
        BY <2>2, <2>3, <2>4, <3>2, Sides, SMT DEF Put, UnderWay, One, TypeOK
      <3>. QED  BY <2>1, <3>1, <3>2
    <2>. QED  BY <1>0, <1>2, <2>5, Untouched DEF Pong, counts
  <1>3. CASE PongFails(p)
    <2>1. UnderWay(r)' <= UnderWay(r)
      BY <1>3, Sides, SMT DEF PongFails, PutFails, UnderWay, One, TypeOK, None, Fresh
    <2>. QED  BY <1>0, <1>3, <2>1, Untouched DEF PongFails, counts
  <1>4. CASE HearPong(p)
    <2>1. /\ hand' = [hand EXCEPT ![p] = None] /\ slot' = slot /\ beat' = beat
          /\ hand[p] = Fresh("pong") \/ hand[p] = Old("pong")
      BY <1>4, OfAKind, Kinds DEF HearPong, TypeOK
    <2>2. None # Fresh("ping") /\ None # Fresh("pong") /\ Old("pong") # Fresh("pong")
      BY DEF Fresh, Old, None
    <2>3. CASE r # p
      <3>1. UnderWay(r)' <= UnderWay(r)
        BY <2>1, <2>2, Sides, SMT DEF UnderWay, One, TypeOK
      <3>2. pend'[r] = pend[r] /\ owed'[r] = owed[r] /\ late'[r] = late[r]
        BY <1>4, <2>3 DEF HearPong, TypeOK
      <3>. QED  BY <1>0, <2>1, <3>1, <3>2, Untouched
    <2>4. CASE r = p
      <3>1. pend'[p] = IF pend[p] = 0 THEN W - 1 ELSE pend[p] - 1
        BY <1>4 DEF HearPong, TypeOK, AfterPong
      <3>2. owed'[p] - late'[p] = (owed[p] - late[p]) - 1
        BY <1>0, <1>4, <2>4 DEF HearPong, TypeOK
      <3>3. pend'[p] = (owed'[p] - late'[p]) % W
        <4>1. owed[p] - late[p] \in Int
          BY <1>0, <2>4
        <4>2. ((owed[p] - late[p]) - 1) % W =
                IF (owed[p] - late[p]) % W = 0 THEN W - 1 ELSE ((owed[p] - late[p]) % W) - 1
          BY <4>1, Down, WidthNotZero
        <4>3. pend[p] = (owed[p] - late[p]) % W
          BY <1>0, <2>4 DEF Explained
        <4>. QED  BY <3>1, <3>2, <4>2, <4>3, Zenon
      <3>4. owed'[p] + One(beat'[p] = "count") >= UnderWay(p)'
        <4>1. CASE hand[p] = Old("pong")
          <5>1. owed'[p] = owed[p]
            BY <1>4, <4>1 DEF HearPong
          <5>2. UnderWay(p)' <= UnderWay(p) /\ UnderWay(p)' \in Nat
            BY <2>1, <2>2, Sides, SMT DEF UnderWay, One, TypeOK
          <5>. QED  BY <1>0, <2>1, <2>4, <5>1, <5>2, SMT DEF Explained, One
        <4>2. CASE hand[p] # Old("pong")
          <5>1. owed'[p] = owed[p] - 1
            BY <1>4, <4>2 DEF HearPong, TypeOK
          <5>2. hand[p] = Fresh("pong")
            BY <2>1, <4>2
          <5>3. UnderWay(p)' <= UnderWay(p) - 1 /\ UnderWay(p)' \in Nat
            BY <2>1, <2>2, <5>2, Sides, SMT DEF UnderWay, One, TypeOK
          <5>. QED  BY <1>0, <2>1, <2>4, <5>1, <5>3, SMT DEF Explained, One
        <4>. QED  BY <4>1, <4>2
      <3>. QED  BY <2>4, <3>3, <3>4 DEF Explained
    <2>. QED  BY <2>3, <2>4
  <1>5. CASE HearHello(p)
    <2>1. UnderWay(r)' <= UnderWay(r)
      BY <1>5, Sides, SMT DEF HearHello, UnderWay, One, TypeOK, Fresh
    <2>. QED  BY <1>0, <1>5, <2>1, Untouched DEF HearHello, counts
  <1>6. CASE ResetCount(p)
    <2>1. /\ hand'[p] = None /\ hand'[Other(p)] = Aged(hand[Other(p)], "ping")
          /\ slot'[p] = Aged(slot[p], "pong")
          /\ slot'[Other(p)] = Aged(slot[Other(p)], "ping") /\ beat' = beat
      BY <1>6, Sides DEF ResetCount, TypeOK
    <2>2. hand[p] = Fresh("raised")
      BY <1>6, OfAKind, Kinds DEF ResetCount, TypeOK
    <2>3. Fresh("ping") # Fresh("pong") /\ Old("ping") # Fresh("ping")
          /\ Old("pong") # Fresh("pong") /\ Old("pong") # Fresh("ping")
          /\ None # Fresh("ping") /\ None # Fresh("pong")
          /\ Old("ping") # Fresh("pong")
      BY DEF Fresh, Old, None
    <2>4. CASE r = p
      <3>1. UnderWay(p)' = 0
        BY <2>1, <2>3, Sides DEF UnderWay, One, Aged
      <3>2. pend'[p] = 0 /\ owed'[p] = 0 /\ late'[p] = 0
        BY <1>6 DEF ResetCount, TypeOK
      <3>3. pend'[p] = (owed'[p] - late'[p]) % W
        BY <3>2, ZeroMod, WidthNotZero
      <3>. QED  BY <2>4, <3>1, <3>2, <3>3 DEF Explained, One
    <2>5. CASE r = Other(p)
      <3>1. UnderWay(r)' <= UnderWay(r)
        BY <2>1, <2>3, <2>5, Sides DEF UnderWay, One, Aged
      <3>2. pend'[r] = pend[r] /\ owed'[r] = owed[r] /\ late'[r] = late[r]
        BY <1>6, <2>5, Sides DEF ResetCount, TypeOK
      <3>. QED  BY <1>0, <2>1, <3>1, <3>2, Untouched
    <2>. QED  BY <2>4, <2>5, Sides
  <1>7. CASE Leave(p)
    <2>1. UnderWay(r)' <= UnderWay(r)
      BY <1>7, Sides, SMT DEF Leave, UnderWay, One, TypeOK, None, Fresh
    <2>. QED  BY <1>0, <1>7, <2>1, Untouched DEF Leave, counts
  <1>. QED  BY <1>1, <1>2, <1>3, <1>4, <1>5, <1>6, <1>7 DEF Recv, Handle

LEMMA SendExplained ==
  ASSUME TypeOK, CountExplained, NEW p \in Role, Send(p)
  PROVE  CountExplained'
  <1> SUFFICES ASSUME NEW r \in Role PROVE Explained(r)'
    BY DEF CountExplained
  <1>0. Explained(r) /\ owed[r] \in Int /\ late[r] \in Nat /\ UnderWay(r) \in Nat
    BY UnderWayNat DEF CountExplained, TypeOK
  <1>1. CASE Connect(p)
    <2>1. UnderWay(r)' <= UnderWay(r)
      BY <1>0, <1>1, SMT DEF Connect, UnderWay
    <2>. QED  BY <1>0, <1>1, <2>1, Untouched DEF Connect, counts
  <1>2. CASE Hello(p)
    <2>1. Fresh("hello") # Fresh("ping") /\ Fresh("hello") # Fresh("pong")
      BY DEF Fresh
    <2>2. UnderWay(r)' <= UnderWay(r)
      BY <1>2, <2>1, PutUnderWay, Kinds DEF Hello
    <2>. QED  BY <1>0, <1>2, <2>2, Untouched DEF Hello, counts
  <1>3. CASE HelloReplaces(p)
    <2>1. Fresh("hello") # Fresh("ping") /\ Fresh("hello") # Fresh("pong")
      BY DEF Fresh
    <2>2. UnderWay(r)' <= UnderWay(r)
      BY <1>3, <2>1, Sides, SMT DEF HelloReplaces, UnderWay, One, TypeOK
    <2>. QED  BY <1>0, <1>3, <2>2, Untouched DEF HelloReplaces, counts
  <1>4. CASE ResetSend(p)
    <2>1. UnderWay(r)' <= UnderWay(r)
      BY <1>0, <1>4, SMT DEF ResetSend, UnderWay
    <2>. QED  BY <1>0, <1>4, <2>1, Untouched DEF ResetSend, counts
  <1>. QED  BY <1>1, <1>2, <1>3, <1>4 DEF Send

LEMMA NextExplained == TypeOK /\ CountExplained /\ [Next]_vars => CountExplained'
  <1> SUFFICES ASSUME TypeOK, CountExplained, [Next]_vars PROVE CountExplained'
    OBVIOUS
  <1>1. CASE Next
    BY <1>1, BeatExplained, RecvExplained, SendExplained DEF Next
  <1>2. CASE UNCHANGED vars
    BY <1>2 DEF CountExplained, Explained, UnderWay, vars, channels, counts
  <1>. QED  BY <1>1, <1>2

(* pend_pong_count_ is, up to its wraps, what the peer owes less the late   *)
(* answers, and the pings under way are accounted for: for every width of   *)
(* the counter and any number of reconnects.                                *)
THEOREM CountMeansWhatIsOwed == Spec => []CountExplained
  BY InitTyped, NextTyped, InitExplained, NextExplained, PTL DEF Spec

-----------------------------------------------------------------------------
(* Late answers. *)

Spent(r) == late[r] + OldUnderWay(r)

(* Every step but the reset by a hello at most moves old packets on. *)
LEMMA OldAndLate ==
  ASSUME NEW r \in Role, FewLateAnswers, TypeOK,
         late'[r] = late[r], OldUnderWay(r)' <= OldUnderWay(r)
  PROVE  Spent(r)' <= 3
  <1>1. OldUnderWay(r) \in Nat /\ OldUnderWay(r)' \in Nat /\ late[r] \in Nat
    BY DEF OldUnderWay, One, TypeOK
  <1>. QED  BY <1>1, SMT DEF Spent, FewLateAnswers

LEMMA NewOnes ==
  /\ Fresh("hello") # Old("ping") /\ Fresh("hello") # Old("pong")
  /\ Fresh("raised") # Old("ping") /\ Fresh("raised") # Old("pong")
  /\ Fresh("ping") # Old("ping") /\ Fresh("ping") # Old("pong")
  /\ Fresh("pong") # Old("ping") /\ Fresh("pong") # Old("pong")
  /\ None # Old("ping") /\ None # Old("pong") /\ Old("ping") # Old("pong")
  BY DEF Fresh, Old, None

(* A put of anything but an answer to an old ping adds no old packet. *)
LEMMA PutAddsNoOld ==
  ASSUME TypeOK, NEW p \in Role, NEW k, Put(p, k) \/ PutFails, hand' = hand,
         k # Old("ping"), k # Old("pong"), NEW r \in Role
  PROVE  OldUnderWay(r)' <= OldUnderWay(r)
  BY Sides, SMT DEF TypeOK, Put, PutFails, OldUnderWay, One

LEMMA BeatFewLate ==
  ASSUME TypeOK, FewLateAnswers, NEW p \in Role, Beat(p), NEW r \in Role
  PROVE  Spent(r)' <= 3
  <1>0. late'[r] = late[r]
    BY DEF Beat, BeatStart, Ping, PingFails, Count, LowerRecv, LowerSend, counts
  <1>1. CASE Ping(p) \/ PingFails(p)
    <2>1. /\ Put(p, Fresh("ping")) \/ PutFails
          /\ hand' = hand
      BY <1>1 DEF Ping, PingFails
    <2>2. OldUnderWay(r)' <= OldUnderWay(r)
      BY <2>1, NewOnes, PutAddsNoOld
    <2>. QED  BY <1>0, <2>2, OldAndLate
  <1>2. CASE BeatStart(p) \/ Count(p) \/ LowerRecv(p) \/ LowerSend(p)
    <2>1. slot' = slot /\ hand' = hand
      BY <1>2 DEF BeatStart, Count, LowerRecv, LowerSend, channels
    <2>2. OldUnderWay(r)' <= OldUnderWay(r)
      BY <2>1, SMT DEF OldUnderWay, One
    <2>. QED  BY <1>0, <2>2, OldAndLate
  <1>. QED  BY <1>1, <1>2 DEF Beat

LEMMA HandleFewLate ==
  ASSUME TypeOK, FewLateAnswers, NEW p \in Role, Handle(p), NEW r \in Role
  PROVE  Spent(r)' <= 3
  <1>1. CASE Pong(p)
    <2> DEFINE reply == Answer(hand[p])
    <2>1. hand[p] = Fresh("ping") \/ hand[p] = Old("ping")
      BY <1>1, OfAKind, Kinds DEF Pong, TypeOK
    <2>2. /\ hand[p] = Fresh("ping") => reply = Fresh("pong")
          /\ hand[p] = Old("ping") => reply = Old("pong")
      BY NewOnes DEF Answer
    <2>3. hand' = [hand EXCEPT ![p] = None] /\ Put(p, reply) /\ late' = late
      BY <1>1 DEF Pong, counts
    <2> HIDE DEF reply
    <2>4. OldUnderWay(r)' <= OldUnderWay(r)
      <3>1. CASE hand[p] = Fresh("ping")
        BY <2>2, <2>3, NewOnes, <3>1, Sides, SMT DEF Put, OldUnderWay, One, TypeOK
      <3>2. CASE hand[p] = Old("ping")
        BY <2>2, <2>3, NewOnes, <3>2, Sides, SMT DEF Put, OldUnderWay, One, TypeOK
      <3>. QED  BY <2>1, <3>1, <3>2
    <2>. QED  BY <2>3, <2>4, OldAndLate
  <1>2. CASE PongFails(p)
    <2>1. OldUnderWay(r)' <= OldUnderWay(r)
      BY <1>2, Sides, NewOnes, SMT DEF PongFails, PutFails, OldUnderWay, One, TypeOK
    <2>. QED  BY <1>2, <2>1, OldAndLate DEF PongFails, counts
  <1>3. CASE HearPong(p)
    <2>1. /\ hand' = [hand EXCEPT ![p] = None] /\ slot' = slot
          /\ hand[p] = Fresh("pong") \/ hand[p] = Old("pong")
      BY <1>3, OfAKind, Kinds DEF HearPong, TypeOK
    <2>2. CASE r = p /\ hand[p] = Old("pong")
      <3>1. late'[r] = late[r] + 1 /\ late[r] \in Nat
        BY <1>3, <2>2 DEF HearPong, TypeOK
      <3>2. OldUnderWay(r)' + 1 <= OldUnderWay(r)
        BY <2>1, <2>2, NewOnes, Sides, SMT DEF OldUnderWay, One, TypeOK
      <3>3. OldUnderWay(r) \in Nat /\ OldUnderWay(r)' \in Nat
        BY DEF OldUnderWay, One
      <3>. QED  BY <3>1, <3>2, <3>3, SMT DEF Spent, FewLateAnswers
    <2>3. CASE ~(r = p /\ hand[p] = Old("pong"))
      <3>1. late'[r] = late[r]
        BY <1>3, <2>3 DEF HearPong, TypeOK
      <3>2. OldUnderWay(r)' <= OldUnderWay(r)
        BY <2>1, NewOnes, Sides, SMT DEF OldUnderWay, One, TypeOK
      <3>. QED  BY <3>1, <3>2, OldAndLate
    <2>. QED  BY <2>2, <2>3
  <1>4. CASE HearHello(p)
    <2>1. OldUnderWay(r)' <= OldUnderWay(r)
      BY <1>4, Sides, NewOnes, SMT DEF HearHello, OldUnderWay, One, TypeOK
    <2>. QED  BY <1>4, <2>1, OldAndLate DEF HearHello, counts
  <1>5. CASE ResetCount(p)
    <2>1. /\ hand'[p] = None /\ hand'[Other(p)] = Aged(hand[Other(p)], "ping")
          /\ slot'[p] = Aged(slot[p], "pong")
          /\ slot'[Other(p)] = Aged(slot[Other(p)], "ping")
      BY <1>5, Sides DEF ResetCount, TypeOK
    <2>2. CASE r = p
      <3>1. late'[p] = 0 /\ hand'[p] # Old("pong")
        BY <1>5, <2>1, NewOnes DEF ResetCount, TypeOK
      <3>. QED  BY <2>2, <3>1, SMT DEF Spent, OldUnderWay, One
    <2>3. CASE r = Other(p)
      <3>1. hand[p] # Old("ping")
        BY <1>5, Kinds, NewOnes DEF ResetCount, Fresh, Old
      <3>2. OldUnderWay(r)' <= OldUnderWay(r)
        BY <2>1, <2>3, <3>1, NewOnes, Sides, SMT DEF OldUnderWay, One, Aged
      <3>3. late'[r] = late[r]
        BY <1>5, <2>3, Sides DEF ResetCount, TypeOK
      <3>. QED  BY <3>2, <3>3, OldAndLate
    <2>. QED  BY <2>2, <2>3, Sides
  <1>. QED  BY <1>1, <1>2, <1>3, <1>4, <1>5 DEF Handle

LEMMA OthersFewLate ==
  ASSUME TypeOK, FewLateAnswers, NEW p \in Role, Take(p) \/ Leave(p) \/ Send(p), NEW r \in Role
  PROVE  Spent(r)' <= 3
  <1>0. late'[r] = late[r]
    BY DEF Take, Leave, Send, Connect, Hello, HelloReplaces, ResetSend, counts
  <1>1. CASE Take(p)
    <2>1. OldUnderWay(r)' <= OldUnderWay(r)
      BY <1>1, Sides, NewOnes, SMT DEF Take, OldUnderWay, One, TypeOK
    <2>. QED  BY <1>0, <2>1, OldAndLate
  <1>2. CASE Leave(p)
    <2>1. OldUnderWay(r)' <= OldUnderWay(r)
      BY <1>2, Sides, NewOnes, SMT DEF Leave, OldUnderWay, One, TypeOK
    <2>. QED  BY <1>0, <2>1, OldAndLate
  <1>3. CASE Hello(p)
    <2>1. OldUnderWay(r)' <= OldUnderWay(r)
      BY <1>3, NewOnes, PutAddsNoOld DEF Hello
    <2>. QED  BY <1>0, <2>1, OldAndLate
  <1>4. CASE Connect(p) \/ ResetSend(p)
    <2>1. slot' = slot /\ hand' = hand
      BY <1>4 DEF Connect, ResetSend
    <2>2. OldUnderWay(r)' <= OldUnderWay(r)
      BY <2>1, SMT DEF OldUnderWay, One
    <2>. QED  BY <1>0, <2>2, OldAndLate
  <1>5. CASE HelloReplaces(p)
    <2>1. OldUnderWay(r)' <= OldUnderWay(r)
      BY <1>5, NewOnes, Sides, SMT DEF HelloReplaces, OldUnderWay, One, TypeOK
    <2>. QED  BY <1>0, <2>1, OldAndLate
  <1>. QED  BY <1>1, <1>2, <1>3, <1>4, <1>5 DEF Send

LEMMA InitFewLate == Init => FewLateAnswers
  BY Sides, NewOnes, SMT DEF Init, FewLateAnswers, OldUnderWay, One

LEMMA NextFewLate == TypeOK /\ FewLateAnswers /\ [Next]_vars => FewLateAnswers'
  <1> SUFFICES ASSUME TypeOK, FewLateAnswers, [Next]_vars, NEW r \in Role
               PROVE  Spent(r)' <= 3
    BY DEF FewLateAnswers, Spent
  <1>1. CASE Next
    BY <1>1, BeatFewLate, HandleFewLate, OthersFewLate DEF Next, Recv
  <1>2. CASE UNCHANGED vars
    BY <1>2, SMT DEF FewLateAnswers, Spent, OldUnderWay, One, vars, channels, counts
  <1>. QED  BY <1>1, <1>2

(* However many pings went unanswered and however often the sides connected *)
(* anew: after a hello at most three answers to pings from before it come.  *)
THEOREM ThreeLateAtMost == Spec => []FewLateAnswers
  BY InitTyped, NextTyped, InitFewLate, NextFewLate, PTL DEF Spec

-----------------------------------------------------------------------------
(* heart_beat_loop gives its peer up by the count only when the peer owes   *)
(* more answers than the limit, or late answers have wrapped the count.     *)
LEMMA StepForAReason ==
  ASSUME TypeOK, CountExplained, CountExplained', TypeOK', [Next]_vars,
         NEW p \in Role, beat[p] = "count", beat'[p] = "out", late'[p] <= owed'[p]
  PROVE  owed'[p] - late'[p] > MAX_HEART_BEAT_FAILED_TIME
  <1>1. Count(p)
    <2>1. beat' # beat
      OBVIOUS
    <2>2. PICK q \in Role : Beat(q)
      BY <2>1 DEF Next, Recv, Handle, Send, Take, Pong, PongFails, HearPong, HearHello,
                  ResetCount, Leave, Connect, Hello, HelloReplaces, ResetSend, vars
    <2>3. q = p
      BY <2>2 DEF Beat, BeatStart, Ping, PingFails, Count, LowerRecv, LowerSend, TypeOK
    <2>. QED  BY <2>2, <2>3 DEF Beat, BeatStart, Ping, PingFails, LowerRecv, LowerSend
  <1>2. pend'[p] > MAX_HEART_BEAT_FAILED_TIME
    BY <1>1 DEF Count, GivenUpAt, TypeOK
  <1>3. pend'[p] = (owed'[p] - late'[p]) % W
    BY DEF CountExplained, Explained
  <1>4. owed'[p] - late'[p] \in Nat
    BY DEF TypeOK
  <1>5. pend'[p] <= owed'[p] - late'[p]
    BY <1>3, <1>4, NotAbove, WidthNotZero
  <1>. QED  BY <1>2, <1>4, <1>5 DEF TypeOK

THEOREM GivesUpForAReason == Spec => GivenUpForAReason
  <1>1. TypeOK /\ CountExplained /\ TypeOK' /\ CountExplained' /\ [Next]_vars
          => [\A p \in Role :
                beat[p] = "count" /\ beat'[p] = "out" =>
                  \/ owed'[p] - late'[p] > MAX_HEART_BEAT_FAILED_TIME
                  \/ late'[p] > owed'[p]]_vars
    <2> SUFFICES ASSUME TypeOK, CountExplained, TypeOK', CountExplained', [Next]_vars,
                        NEW p \in Role, beat[p] = "count", beat'[p] = "out",
                        ~(late'[p] > owed'[p])
                 PROVE  owed'[p] - late'[p] > MAX_HEART_BEAT_FAILED_TIME
      OBVIOUS
    <2>1. late'[p] <= owed'[p]
      BY DEF TypeOK
    <2>. QED  BY <2>1, StepForAReason
  <1>. QED
    BY <1>1, TypeCorrect, CountMeansWhatIsOwed, PTL DEF Spec, GivenUpForAReason
=============================================================================
