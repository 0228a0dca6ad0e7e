------------------------ MODULE MessagePipelineProofs ------------------------
(***************************************************************************)
(* Safety of MessagePipeline, for any posters, sizes and number of         *)
(* messages and breaks.                                                    *)
(***************************************************************************)
EXTENDS MessagePipeline, PacketHeaderProofs, FiniteSetTheorems

(***************************************************************************)
(* Facts about the definitions.                                            *)
(***************************************************************************)

(* A message has at least one chunk, and the header can count them all.    *)
LEMMA Counts ==
  ASSUME NEW n \in Sizes
  PROVE  /\ n \in Nat /\ n < B3
         /\ ChunkTotalCount(n) \in Nat \ {0}
         /\ 2 * ChunkTotalCount(n) < B2
  <1>1. n \in Nat /\ Cap \in Nat \ {0} /\ n < B3 /\ 2 * ChunkTotalCount(n) < B2
    BY SizeAssumption, WidthAssumption
  <1>2. CASE n > Cap
    <2> DEFINE x == n + Cap - 1
    <2>1. x \in Int /\ x >= Cap
      BY <1>1, <1>2
    <2>2. x \div Cap \in Int /\ x % Cap \in 0..(Cap - 1) /\ x = (x \div Cap) * Cap + (x % Cap)
      BY <1>1, <2>1, DivMod
    <2> DEFINE q == x \div Cap
    <2> HIDE DEF x, q
    <2>3. x < (q + 1) * Cap /\ q \in Int
      BY <1>1, <2>2, <2>1 DEF q
    <2>4. q >= 1
      <3>1. SUFFICES ASSUME q + 1 <= 1
                     PROVE  FALSE
        BY <2>3
      <3>2. (q + 1) * Cap <= Cap
        BY <3>1, <2>3, <1>1
      <3>. QED  BY <3>2, <2>1, <2>3, <1>1
    <2>. QED  BY <2>4, <2>3, <1>1, <1>2 DEF ChunkTotalCount, x, q
  <1>3. CASE ~(n > Cap)
    BY <1>1, <1>3 DEF ChunkTotalCount
  <1>. QED  BY <1>1, <1>2, <1>3

(* All chunks but the last are full, and together they are the message.    *)
LEMMA ChunkSizes ==
  ASSUME NEW n \in Sizes, NEW i \in Nat, i < ChunkTotalCount(n)
  PROVE  /\ ChunkSize(n, i) \in Nat
         /\ i + 1 < ChunkTotalCount(n) => ChunkSize(n, i) = Cap
         /\ i + 1 = ChunkTotalCount(n) => ChunkSize(n, i) = n - i * Cap
  <1>1. n \in Nat /\ Cap \in Nat \ {0} /\ i * Cap \in Nat
    BY SizeAssumption
  <1>2. CASE ~(n > Cap)
    <2>1. i = 0 /\ i * Cap = 0
      BY <1>1, <1>2 DEF ChunkTotalCount
    <2>. QED  BY <1>1, <1>2, <2>1 DEF ChunkTotalCount, ChunkSize
  <1>3. CASE n > Cap
    <2> DEFINE x == n + Cap - 1  q == x \div Cap  r == x % Cap
    <2>0. x \in Int
      BY <1>1
    <2>1. q \in Int /\ r \in 0..(Cap - 1) /\ x = q * Cap + r /\ x \in Int
      <3> HIDE DEF x
      <3>. QED  BY <1>1, <2>0, DivMod
    <2>2. ChunkTotalCount(n) = q
      BY <1>3 DEF ChunkTotalCount
    <2>3. q * Cap \in Int /\ (i + 1) * Cap = i * Cap + Cap /\ (i + 2) * Cap = i * Cap + 2 * Cap
      <3>1. \A k \in Nat : k * Cap \in Int /\ (k + 1) * Cap = k * Cap + Cap
        BY <1>1
      <3>2. (i + 1) * Cap = i * Cap + Cap /\ (i + 1) + 1 = i + 2
        BY <3>1
      <3>3. (i + 2) * Cap = (i + 1) * Cap + Cap
        BY <3>1, <3>2
      <3>4. q * Cap \in Int
        BY <2>1, <1>1
      <3>. QED  BY <1>1, <3>2, <3>3, <3>4
    <2>4. n = q * Cap + r - Cap + 1
      BY <1>1, <2>1
    <2> HIDE DEF x, q, r
    <2>5. CASE i + 1 = q
      <3>1. q * Cap = i * Cap + Cap
        BY <2>3, <2>5
      <3>2. n - i * Cap = r + 1
        BY <3>1, <2>4, <2>1, <1>1
      <3>. QED  BY <3>2, <2>1, <2>2, <2>5, <1>1 DEF ChunkSize
    <2>6. CASE i + 1 < q
      <3>1. (i + 2) * Cap <= q * Cap
        BY <2>6, <2>1, <1>1
      <3>2. n - i * Cap > Cap
        BY <3>1, <2>3, <2>4, <2>1, <1>1
      <3>. QED  BY <3>2, <2>6, <2>2, <1>1 DEF ChunkSize
    <2>. QED  BY <2>5, <2>6, <2>1, <2>2
  <1>. QED  BY <1>2, <1>3

(* Numbers that differ by less than m are told apart by their remainders.  *)
LEMMA RemainderInjective ==
  ASSUME NEW m \in Nat \ {0}, NEW x \in Int, NEW y \in Int,
         x % m = y % m, x - y < m, y - x < m
  PROVE  x = y
  <1> DEFINE p == x \div m  q == y \div m
  <1>1. p \in Int /\ q \in Int /\ x % m \in Int
        /\ x = p * m + (x % m) /\ y = q * m + (y % m)
    BY DivMod
  <1> DEFINE r == x % m
  <1>2. r \in Int /\ x = p * m + r /\ y = q * m + r
    BY <1>1
  <1> HIDE DEF p, q, r
  <1>3. x - y = (p - q) * m
    <2>1. (p - q) * m = p * m - q * m /\ p * m \in Int /\ q * m \in Int
      BY <1>1
    <2>. QED  BY <2>1, <1>1, <1>2
  <1>4. p - q < 1
    <2>1. SUFFICES ASSUME p - q >= 1 PROVE FALSE
      BY <1>1
    <2>2. (p - q) * m >= m
      BY <2>1, <1>1
    <2>. QED  BY <2>2, <1>3
  <1>5. q - p < 1
    <2>1. SUFFICES ASSUME q - p >= 1 PROVE FALSE
      BY <1>1
    <2>2. (q - p) * m >= m /\ (q - p) * m = -((p - q) * m)
      BY <2>1, <1>1
    <2>. QED  BY <2>2, <1>3
  <1>. QED  BY <1>4, <1>5, <1>1, <1>2

-----------------------------------------------------------------------------
(***************************************************************************)
(* The inductive invariant.                                                *)
(***************************************************************************)
Real(p) == p \in Chunk /\ p.msg \in Posted /\ p.seq \in 0..Last(p.msg)

Queued(p) == \E i \in 1..Len(queue) : queue[i] = p
Sent(p)   == inFlight # <<>> /\ inFlight[1] = p
ToCome(p) == \E t \in Posters : posting[t] # Null /\ posting[t].msg = p.msg
                                                 /\ posting[t].seq <= p.seq

(* Only chunks of messages that were posted are on their way.              *)
Known ==
  /\ Len(size) <= MaxMsgs
  /\ \A t \in Posters : posting[t] # Null => Real(posting[t])
  /\ \A i \in 1..Len(queue) : Real(queue[i])
  /\ popped # Null => Real(popped)
  /\ inFlight # <<>> => inFlight[1] = Bye \/ Real(inFlight[1])
  /\ \A i \in 1..Len(taken) : taken[i] = Bye \/ Real(taken[i])
  /\ lost \subseteq Posted

(* A poster has its message for itself, and only the chunks before the one *)
(* it is about to queue have left it.                                      *)
Ahead ==
  \A t \in Posters : posting[t] # Null =>
    /\ \A u \in Posters : u # t /\ posting[u] # Null => posting[u].msg # posting[t].msg
    /\ \A p \in Chunk : /\ p.msg = posting[t].msg
                        /\ Queued(p) \/ popped = p \/ Sent(p) \/ Taken(p)
                       => p.seq < posting[t].seq

(* No chunk is in two places.                                              *)
Single ==
  /\ \A i, j \in 1..Len(queue) : queue[i] = queue[j] => i = j
  /\ \A i, j \in 1..Len(taken) : taken[i] = taken[j] /\ taken[i] # Bye => i = j
  /\ popped # Null => ~Queued(popped) /\ ~Sent(popped) /\ ~Taken(popped)
  /\ inFlight # <<>> /\ inFlight[1] # Bye =>
        ~Queued(inFlight[1]) /\ ~Taken(inFlight[1])
  /\ \A i \in 1..Len(queue) : ~Taken(queue[i])

(* Every chunk is somewhere, or its message is known as lost.              *)
Somewhere ==
  \A m \in Posted \ lost : \A p \in Chunks(m) :
    ToCome(p) \/ Queued(p) \/ popped = p \/ Sent(p) \/ Taken(p)

-----------------------------------------------------------------------------
(***************************************************************************)
(* Types.                                                                  *)
(***************************************************************************)
LEMMA PostedSize ==
  ASSUME TypeOK, NEW m \in Posted
  PROVE  /\ size[m] \in Sizes /\ m \in Nat
         /\ ChunkTotalCount(size[m]) = Last(m) + 1 /\ Last(m) \in Nat
         /\ 2 * (Last(m) + 1) < B2
  <1>1. size[m] \in Sizes /\ m \in Nat
    BY DEF TypeOK, Posted
  <1>. QED  BY <1>1, Counts DEF Last

LEMMA Widths == B2 \in Nat \ {0} /\ B3 \in Nat \ {0} /\ B4 \in Nat \ {0}
  BY Value2Of, Value3Of, Value4Of, 0 \in Int

(* What the receiver reads from the header of a chunk is what post wrote,  *)
(* but for the number of the message, which it knows by its key.           *)
LEMMA HeaderArrives ==
  ASSUME TypeOK, NEW m \in Posted, NEW s \in 0..Last(m)
  PROVE  OnTheWire(HeaderOf([msg |-> m, seq |-> s])) =
           [type |-> 0, totalLen |-> size[m], chunkSeq |-> s,
            chunkTotalCount |-> Last(m) + 1, msgSeq |-> Key(m)]
  <1> DEFINE n == size[m]
             h(i) == [type |-> 0, totalLen |-> n, chunkSeq |-> i,
                      chunkTotalCount |-> Last(m) + 1, msgSeq |-> FirstSeq + m]
             k == Signed((FirstSeq + m) % B4, B4)
  <1>1. n \in Nat /\ n < B3 /\ Last(m) \in Nat /\ 2 * (Last(m) + 1) < B2 /\ m \in Nat
    BY PostedSize, Counts
  <1>2. ASSUME NEW i \in 0..Last(m)
        PROVE  HeaderOf([msg |-> m, seq |-> i]) = h(i) /\ h(i) \in Header
    <2>1. HeaderOf([msg |-> m, seq |-> i]) = h(i)
      BY PostedSize DEF HeaderOf
    <2>2. FirstSeq + m \in Int /\ 0 \in 0..(B - 1)
      BY <1>1, SizeAssumption, ByteAssumption
    <2>3. i \in Int /\ Last(m) + 1 \in Int /\ -B2 <= 2 * i /\ 2 * i < B2
          /\ -B2 <= 2 * (Last(m) + 1)
      BY <1>1, Widths
    <2>. QED  BY <2>1, <2>2, <2>3, <1>1 DEF Header
  <1>3. n % B3 = n
    BY <1>1, Widths, Small
  <1>4. ASSUME NEW i \in 0..Last(m)
        PROVE  OnTheWire(HeaderOf([msg |-> m, seq |-> i])) =
                 [type |-> 0, totalLen |-> n, chunkSeq |-> i,
                  chunkTotalCount |-> Last(m) + 1, msgSeq |-> k]
    BY <1>2, <1>3, Wire
  <1>5. Key(m) = k
    <2>1. 0 \in 0..Last(m)
      BY <1>1
    <2>2. OnTheWire(HeaderOf([msg |-> m, seq |-> 0])).msgSeq = k
      <3> HIDE DEF n, k
      <3>1. OnTheWire(HeaderOf([msg |-> m, seq |-> 0])) =
              [type |-> 0, totalLen |-> n, chunkSeq |-> 0,
               chunkTotalCount |-> Last(m) + 1, msgSeq |-> k]
        BY <2>1, <1>4, Zenon
      <3>. QED  BY <3>1
    <2>. QED  BY <2>2 DEF Key
  <1>. QED  BY <1>4, <1>5

(* The key of a message is its number as the receiver reads it, and other  *)
(* messages have other ones.                                               *)
Number(m) == Signed((FirstSeq + m) % B4, B4)

LEMMA NumberOnTheWire ==
  ASSUME NEW m \in Nat, NEW n \in Sizes
  PROVE  OnTheWire([type |-> 0, totalLen |-> n, chunkSeq |-> 0,
                    chunkTotalCount |-> ChunkTotalCount(n), msgSeq |-> FirstSeq + m]).msgSeq
           = Number(m)
  <1> DEFINE h == [type |-> 0, totalLen |-> n, chunkSeq |-> 0,
                   chunkTotalCount |-> ChunkTotalCount(n), msgSeq |-> FirstSeq + m]
  <1>1. n \in Nat /\ ChunkTotalCount(n) \in Nat \ {0} /\ 2 * ChunkTotalCount(n) < B2
    BY Counts
  <1>2. h \in Header
    <2>1. FirstSeq + m \in Int /\ 0 \in 0..(B - 1)
      BY SizeAssumption, ByteAssumption
    <2>2. -B2 <= 2 * 0 /\ 2 * 0 < B2 /\ -B2 <= 2 * ChunkTotalCount(n)
          /\ ChunkTotalCount(n) \in Int
      BY <1>1, Widths
    <2>. QED  BY <1>1, <2>1, <2>2 DEF Header
  <1>. QED  BY <1>2, Wire DEF Number

LEMMA NumberInjective ==
  ASSUME NEW m \in Msg, NEW n \in Msg
  PROVE  Number(m) \in Int /\ (Number(m) = Number(n) => m = n)
  <1> DEFINE x == FirstSeq + m  y == FirstSeq + n
  <1>1. x \in Int /\ y \in Int /\ x - y < B4 /\ y - x < B4 /\ (x = y => m = n)
    BY SizeAssumption, WidthAssumption, Widths DEF Msg
  <1> HIDE DEF x, y
  <1>2. x % B4 \in 0..(B4 - 1) /\ y % B4 \in 0..(B4 - 1)
    BY <1>1, Widths, DivMod
  <1>3. x % B4 = y % B4 => x = y
    BY <1>1, Widths, RemainderInjective
  <1>4. Number(m) = Signed(x % B4, B4) /\ Number(n) = Signed(y % B4, B4)
    BY DEF Number, x, y
  <1>. QED  BY <1>1, <1>2, <1>3, <1>4, Widths DEF Signed

LEMMA KeyIsNumber ==
  ASSUME TypeOK, NEW m \in Posted
  PROVE  Key(m) = Number(m)
  BY PostedSize, NumberOnTheWire DEF Key, HeaderOf

LEMMA KeyInjective ==
  ASSUME TypeOK, Len(size) <= MaxMsgs, NEW m \in Posted, NEW n \in Posted
  PROVE  Key(m) \in Int /\ (Key(m) = Key(n) => m = n)
  <1>1. m \in Msg /\ n \in Msg
    BY SizeAssumption DEF Posted, TypeOK, Msg
  <1>. QED  BY <1>1, KeyIsNumber, NumberInjective

LEMMA ByeIsNoChunk == Bye \notin Chunk /\ Bye.msg = 0 /\ Null \notin Chunk /\ Null # Bye
  BY NullAssumption DEF Bye, Chunk, Msg

(* The messages of what is on its way were posted.                         *)
LEMMA MsgsPosted ==
  ASSUME TypeOK, Known
  PROVE  MsgsOf(queue) \subseteq Posted /\ MsgsOf(inFlight) \subseteq Posted
  BY ByeIsNoChunk DEF TypeOK, Known, MsgsOf, Real

(* What recv makes of a chunk: the entry its message has or gets, and how  *)
(* the entry grows.                                                        *)
HasEntry(m, s) == Key(m) \in DOMAIN entries \/ (s = 0 /\ size[m] # 0)
Grown(m, s) ==
  LET e == IF s = 0 /\ size[m] # 0 THEN [second |-> 0, first |-> {}, len |-> size[m]]
           ELSE entries[Key(m)]
  IN  [second |-> e.second + ChunkSize(size[m], s), first |-> e.first \union {s},
       len |-> e.len]
Received(m, s) ==
  /\ inFlight # <<>> /\ inFlight[1] = [msg |-> m, seq |-> s]
  /\ inFlight' = <<>>
  /\ taken' = Append(taken, [msg |-> m, seq |-> s])
  /\ DOMAIN entries' = IF s = Last(m) THEN DOMAIN entries \ {Key(m)}
                       ELSE IF HasEntry(m, s) THEN DOMAIN entries \union {Key(m)}
                       ELSE DOMAIN entries
  /\ \A k \in DOMAIN entries' :
       entries'[k] = IF k = Key(m) THEN Grown(m, s) ELSE entries[k]
  /\ delivered' = IF s # Last(m) \/ (HasEntry(m, s) /\ Grown(m, s).second # size[m])
                  THEN delivered
                  ELSE Append(delivered, [msg |-> m, data |-> IF HasEntry(m, s)
                                                    THEN Grown(m, s).first ELSE Null])

LEMMA Reception ==
  ASSUME TypeOK, Known, RecvMessage
  PROVE  \E m \in Posted : \E s \in 0..Last(m) : Received(m, s)
  <1> DEFINE p == inFlight[1]  m == p.msg  s == p.seq
             h == OnTheWire(HeaderOf(p))
             new == s = 0 /\ size[m] # 0
             map == Copied(h, ChunkSize(size[m], s))
  <1>1. inFlight # <<>> /\ inFlight' = <<>> /\ taken' = Append(taken, p)
        /\ p # Bye /\ Receive(p)
    BY DEF RecvMessage, Handoff!Take
  <1>2. Real(p) /\ m \in Posted /\ s \in 0..Last(m) /\ p = [msg |-> m, seq |-> s]
    BY <1>1 DEF Known, Real, Chunk
  <1>3. h = [type |-> 0, totalLen |-> size[m], chunkSeq |-> s,
             chunkTotalCount |-> Last(m) + 1, msgSeq |-> Key(m)]
    BY <1>2, HeaderArrives
  <1>4. Last(m) \in Nat
    BY <1>2, PostedSize
  <1> HIDE DEF p
  <1>5. Opened(h) = IF new
                    THEN Enter(entries, Key(m), [second |-> 0, first |-> {}, len |-> size[m]])
                    ELSE entries
    BY <1>3 DEF Opened
  <1>6. map = IF HasEntry(m, s) THEN Enter(Opened(h), Key(m), Grown(m, s)) ELSE entries
    <2> DEFINE open == Opened(h)  k == Key(m)
    <2>1. h.msgSeq = k /\ h.chunkSeq = s
      BY <1>3
    <2>2. map = IF k \in DOMAIN open
                THEN Enter(open, k, [second |-> open[k].second + ChunkSize(size[m], s),
                                     first  |-> open[k].first \union {s},
                                     len    |-> open[k].len])
                ELSE open
      BY <2>1 DEF Copied
    <2>3. open = IF new THEN Enter(entries, k, [second |-> 0, first |-> {}, len |-> size[m]])
                 ELSE entries
      BY <1>5
    <2> HIDE DEF h, m, s, map
    <2>4. CASE new
      <3>1. k \in DOMAIN open /\ open[k] = [second |-> 0, first |-> {}, len |-> size[m]]
        BY <2>3, <2>4 DEF Enter
      <3>2. [second |-> open[k].second + ChunkSize(size[m], s),
             first  |-> open[k].first \union {s},
             len    |-> open[k].len] = Grown(m, s)
        BY <2>4, <3>1 DEF Grown
      <3>. QED  BY <2>2, <2>4, <3>1, <3>2 DEF HasEntry
    <2>5. CASE ~new
      <3>1. open = entries /\ (HasEntry(m, s) <=> k \in DOMAIN open)
        BY <2>3, <2>5 DEF HasEntry
      <3>2. [second |-> open[k].second + ChunkSize(size[m], s),
             first  |-> open[k].first \union {s},
             len    |-> open[k].len] = Grown(m, s)
        BY <2>5, <3>1 DEF Grown
      <3>. QED  BY <2>2, <3>1, <3>2
    <2>. QED  BY <2>4, <2>5
  <1>7. /\ DOMAIN map = IF HasEntry(m, s) THEN DOMAIN entries \union {Key(m)} ELSE DOMAIN entries
        /\ \A k \in DOMAIN map : map[k] = IF k = Key(m) THEN Grown(m, s) ELSE entries[k]
    BY <1>5, <1>6 DEF HasEntry, Enter
  <1>8. Incomplete(map, h) <=> HasEntry(m, s) /\ Grown(m, s).second # size[m]
    BY <1>3, <1>7 DEF Incomplete, HasEntry
  <1>9. \/ /\ s # Last(m)
           /\ entries' = map /\ delivered' = delivered
        \/ /\ s = Last(m)
           /\ entries' = Erase(map, Key(m))
           /\ delivered' = IF Incomplete(map, h) THEN delivered
                           ELSE Append(delivered,
                             [msg |-> m, data |-> IF Key(m) \in DOMAIN map
                                                  THEN map[Key(m)].first ELSE Null])
    <2> HIDE DEF m, s, map
    <2>1. s \in Nat /\ s <= Last(m)
      BY <1>2, <1>4
    <2>2. Receive(p) <=>
            \/ /\ s + 1 < Last(m) + 1
               /\ entries' = map /\ delivered' = delivered
            \/ /\ s + 1 >= Last(m) + 1
               /\ entries' = Erase(map, Key(m))
               /\ IF Incomplete(map, h)
                  THEN delivered' = delivered
                  ELSE delivered' = Append(delivered,
                             [msg |-> m, data |-> IF Key(m) \in DOMAIN map
                                                  THEN map[Key(m)].first ELSE Null])
      BY <1>3 DEF Receive, m, s, map
    <2>. QED  BY <2>1, <2>2, <1>1, <1>4
  <1> HIDE DEF m, s, map, h
  <1>10. DOMAIN Erase(map, Key(m)) = DOMAIN entries \ {Key(m)}
         /\ \A k \in DOMAIN entries \ {Key(m)} : Erase(map, Key(m))[k] = entries[k]
    BY <1>7 DEF Erase, HasEntry
  <1>11. /\ inFlight # <<>> /\ inFlight[1] = [msg |-> m, seq |-> s]
         /\ inFlight' = <<>>
         /\ taken' = Append(taken, [msg |-> m, seq |-> s])
    BY <1>1, <1>2 DEF p
  <1> HIDE DEF new
  <1>12. ASSUME s # Last(m) PROVE Received(m, s)
    <2>1. entries' = map /\ delivered' = delivered
      BY <1>9, <1>12
    <2>2. DOMAIN entries' = IF HasEntry(m, s) THEN DOMAIN entries \union {Key(m)}
                            ELSE DOMAIN entries
      BY <1>7, <2>1
    <2>3. \A k \in DOMAIN entries' :
            entries'[k] = IF k = Key(m) THEN Grown(m, s) ELSE entries[k]
      BY <1>7, <2>1
    <2>. QED  BY <1>11, <1>12, <2>1, <2>2, <2>3, Zenon DEF Received
  <1>13. ASSUME s = Last(m) PROVE Received(m, s)
    <2>1. entries' = Erase(map, Key(m))
      BY <1>9, <1>13
    <2>2. DOMAIN entries' = DOMAIN entries \ {Key(m)}
      BY <1>10, <2>1
    <2>3. \A k \in DOMAIN entries' :
            entries'[k] = IF k = Key(m) THEN Grown(m, s) ELSE entries[k]
      BY <1>10, <2>1, <2>2
    <2>4. Key(m) \in DOMAIN map <=> HasEntry(m, s)
      BY <1>7 DEF HasEntry
    <2>5. HasEntry(m, s) => map[Key(m)] = Grown(m, s)
      BY <1>7, <2>4
    <2>6. delivered' = IF HasEntry(m, s) /\ Grown(m, s).second # size[m]
                       THEN delivered
                       ELSE Append(delivered, [msg |-> m, data |-> IF HasEntry(m, s)
                                                         THEN Grown(m, s).first ELSE Null])
      BY <1>8, <1>9, <1>13, <2>4, <2>5
    <2>. QED  BY <1>11, <1>13, <2>2, <2>3, <2>6 DEF Received
  <1>. QED  BY <1>2, <1>12, <1>13

-----------------------------------------------------------------------------
(***************************************************************************)
(* The steps, by what they do to the chunks on their way.                  *)
(***************************************************************************)
way == <<size, posting, queue, popped, inFlight, taken, entries, delivered>>

Idles == UNCHANGED <<way, completed, lost, retried>>
Posts(t, n) ==
  /\ posting[t] = Null /\ Len(size) < MaxMsgs
  /\ size' = Append(size, n)
  /\ posting' = [posting EXCEPT ![t] = [msg |-> Len(size) + 1, seq |-> 0]]
  /\ UNCHANGED <<queue, popped, inFlight, taken, entries, delivered, completed, lost, retried>>
Pushes(t) ==
  /\ posting[t] # Null
  /\ queue' = Append(queue, posting[t])
  /\ posting' = [posting EXCEPT ![t] =
                   IF posting[t].seq < Last(posting[t].msg)
                   THEN [msg |-> posting[t].msg, seq |-> posting[t].seq + 1] ELSE Null]
  /\ completed' = IF posting[t].seq < Last(posting[t].msg)
                  THEN completed ELSE Append(completed, posting[t].msg)
  /\ UNCHANGED <<size, popped, inFlight, taken, entries, delivered, lost, retried>>
Refuses(t) ==
  /\ posting[t] # Null
  /\ posting' = [posting EXCEPT ![t] = Null]
  /\ lost' = lost \union {posting[t].msg}
  /\ UNCHANGED <<size, queue, popped, inFlight, taken, entries, delivered, completed, retried>>
Pops ==
  /\ queue # <<>> /\ popped = Null
  /\ popped' = queue[1] /\ queue' = Tail(queue)
  /\ UNCHANGED <<size, posting, inFlight, taken, entries, delivered, completed, lost, retried>>
Sends ==
  /\ popped # Null
  /\ inFlight' = <<popped>> /\ popped' = Null
  /\ lost' = lost \union MsgsOf(inFlight)
  /\ UNCHANGED <<size, posting, queue, taken, entries, delivered, completed, retried>>
Drops ==
  /\ popped # Null
  /\ popped' = Null
  /\ lost' = lost \union {popped.msg}
  /\ UNCHANGED <<size, posting, queue, inFlight, taken, entries, delivered, completed, retried>>
Retries ==
  /\ popped # Null
  /\ queue' = Append(queue, popped) /\ popped' = Null
  /\ retried' = retried \union {popped.msg}
  /\ UNCHANGED <<size, posting, inFlight, taken, entries, delivered, completed, lost>>
Clears ==
  /\ queue' = <<>>
  /\ lost' = lost \union MsgsOf(queue)
  /\ UNCHANGED <<size, posting, popped, inFlight, taken, entries, delivered, completed, retried>>
Replaces ==
  /\ inFlight' \in {<<>>, <<Bye>>}
  /\ lost' = lost \union MsgsOf(inFlight)
  /\ UNCHANGED <<size, posting, queue, popped, taken, entries, delivered, completed, retried>>
TakesBye ==
  /\ inFlight # <<>> /\ inFlight[1] = Bye
  /\ inFlight' = <<>> /\ taken' = Append(taken, Bye)
  /\ UNCHANGED <<size, posting, queue, popped, entries, delivered, completed, lost, retried>>
Takes(m, s) ==
  /\ Received(m, s)
  /\ UNCHANGED <<size, posting, queue, popped, completed, lost, retried>>

StepCase ==
  \/ Idles
  \/ \E t \in Posters : (\E n \in Sizes : Posts(t, n)) \/ Pushes(t) \/ Refuses(t)
  \/ Pops \/ Sends \/ Drops \/ Retries \/ Clears \/ Replaces \/ TakesBye
  \/ \E m \in Posted : \E s \in 0..Last(m) : Takes(m, s)

LEMMA StepCases ==
  ASSUME TypeOK, Known, [Next]_vars
  PROVE  StepCase
  <1> USE DEF way, vars, sender, segment, receiver, history
  <1>1. ASSUME UNCHANGED vars PROVE StepCase
    BY <1>1 DEF StepCase, Idles
  <1>2. ASSUME NEW t \in Posters, Post(t) PROVE StepCase
    <2>1. \E n \in Sizes : Posts(t, n)
      BY <1>2 DEF Post, Posts
    <2>. QED  BY <2>1 DEF StepCase
  <1>3. ASSUME NEW t \in Posters, Push(t) PROVE StepCase
    <2>1. posting[t] # Null /\ posting \in [Posters -> Chunk \union {Null}]
      BY <1>3 DEF Push, TypeOK
    <2>2. Pushes(t)
      BY <1>3, <2>1 DEF Push, Pushes, Chunk
    <2>. QED  BY <2>2 DEF StepCase
  <1>4. ASSUME NEW t \in Posters, PushRefused(t) PROVE StepCase
    BY <1>4 DEF PushRefused, Refuses, StepCase
  <1>5. ASSUME Pop PROVE StepCase
    <2>1. popped = Null
      BY <1>5 DEF Pop, TypeOK
    <2>. QED  BY <1>5, <2>1 DEF Pop, Pops, StepCase, TypeOK
  <1>6. ASSUME SendSucceeds PROVE StepCase
    BY <1>6 DEF SendSucceeds, Sends, StepCase, TypeOK, Handoff!Put
  <1>7. ASSUME Drop \/ Retry PROVE StepCase
    BY <1>7 DEF Drop, Retry, Drops, Idles, StepCase, TypeOK
  <1>8. ASSUME Requeue PROVE StepCase
    BY <1>8 DEF Requeue, Requeued, Retries, StepCase, TypeOK
  <1>9. ASSUME Reconnect \/ SayBye PROVE StepCase
    BY <1>9 DEF Reconnect, SayBye, Handoff!Put, Replaces, Idles, StepCase
  <1>10. ASSUME ClearSendQueue PROVE StepCase
    BY <1>10 DEF ClearSendQueue, Clears, StepCase
  <1>11. ASSUME \/ PopDisconnected \/ SendFails \/ Reset \/ OpenGivesUp \/ Disconnect
                \/ HearHello \/ StopRunning \/ RecvLeaves
         PROVE  StepCase
    BY <1>11 DEF PopDisconnected, SendFails, Reset, OpenGivesUp, Disconnect, HearHello,
                 StopRunning, RecvLeaves, Handoff!Flap, Handoff!Close, Idles, StepCase
  <1>12. ASSUME RecvMessage PROVE StepCase
    <2>1. \E m \in Posted : \E s \in 0..Last(m) : Received(m, s)
      BY <1>12, Reception
    <2>2. UNCHANGED <<size, posting, queue, popped, completed, lost, retried>>
      BY <1>12 DEF RecvMessage
    <2>. QED  BY <2>1, <2>2 DEF Takes, StepCase
  <1>13. ASSUME RecvBye PROVE StepCase
    BY <1>13 DEF RecvBye, Handoff!Take, TakesBye, StepCase, TypeOK
  <1>. QED
    BY <1>1, <1>2, <1>3, <1>4, <1>5, <1>6, <1>7, <1>8, <1>9, <1>10, <1>11, <1>12, <1>13
       DEF Next, Application, SendLoop

-----------------------------------------------------------------------------
(***************************************************************************)
(* Type correctness, together with Known.                                  *)
(***************************************************************************)
(* A chunk of a posted message stays one when messages are posted.         *)
LEMMA RealStays ==
  ASSUME TypeOK, Known, StepCase, NEW p, Real(p)
  PROVE  Real(p)' /\ Last(p.msg)' = Last(p.msg) /\ size'[p.msg] = size[p.msg]
  <1>1. CASE UNCHANGED size
    BY <1>1 DEF Real, Posted, Last
  <1>2. ASSUME NEW t \in Posters, NEW n \in Sizes, Posts(t, n)
        PROVE  Real(p)' /\ Last(p.msg)' = Last(p.msg) /\ size'[p.msg] = size[p.msg]
    <2>1. size \in Seq(Sizes) /\ size' = Append(size, n) /\ p.msg \in 1..Len(size)
      BY <1>2 DEF Posts, TypeOK, Real, Posted
    <2>2. size'[p.msg] = size[p.msg] /\ p.msg \in 1..Len(size')
      BY <2>1
    <2>. QED  BY <2>2 DEF Real, Posted, Last
  <1>. QED
    BY <1>1, <1>2 DEF StepCase, Idles, way, Pushes, Refuses, Pops, Sends, Drops, Retries,
                      Clears, Replaces, TakesBye, Takes

LEMMA PostedGrows ==
  ASSUME TypeOK, Known, StepCase
  PROVE  Posted \subseteq Posted'
  <1>1. CASE UNCHANGED size
    BY <1>1 DEF Posted
  <1>2. ASSUME NEW t \in Posters, NEW n \in Sizes, Posts(t, n)
        PROVE  Posted \subseteq Posted'
    <2>1. size \in Seq(Sizes) /\ size' = Append(size, n)
      BY <1>2 DEF Posts, TypeOK
    <2>. QED  BY <2>1 DEF Posted
  <1>. QED
    BY <1>1, <1>2 DEF StepCase, Idles, way, Pushes, Refuses, Pops, Sends, Drops, Retries,
                      Clears, Replaces, TakesBye, Takes

LEMMA TailOfQueue ==
  ASSUME TypeOK, Pops
  PROVE  /\ Len(queue) \in Nat /\ 1 \in 1..Len(queue) /\ popped' = queue[1]
         /\ Len(queue') = Len(queue) - 1
         /\ \A i \in 1..Len(queue') : /\ i + 1 \in 1..Len(queue)
                                     /\ queue'[i] = queue[i + 1]
         /\ queue' \in Seq(Chunk)
  BY DEF TypeOK, Pops

LEMMA KnownStep ==
  ASSUME TypeOK, Known, StepCase
  PROVE  Known'
  <1> DEFINE Chunked(x) == x = Null \/ x = Bye \/ Real(x)
  <1>0. \A p : Real(p) => Real(p)'
    BY RealStays
  <1>1. CASE Idles
    BY <1>1 DEF Idles, way, Known, Real, Posted, Last
  <1>2. ASSUME NEW t \in Posters, NEW n \in Sizes, Posts(t, n) PROVE Known'
    <2> DEFINE R(q) == /\ q \in Chunk /\ q.msg \in 1..Len(size')
                       /\ q.seq \in 0..(ChunkTotalCount(size'[q.msg]) - 1)
               p == [msg |-> Len(size) + 1, seq |-> 0]
    <2>1. size \in Seq(Sizes) /\ size' = Append(size, n) /\ Len(size) + 1 <= MaxMsgs
          /\ MaxMsgs \in Nat
      BY <1>2, SizeAssumption DEF Posts, TypeOK
    <2>2. Len(size') = Len(size) + 1 /\ size'[Len(size) + 1] = n /\ Len(size) \in Nat
          /\ \A i \in 1..Len(size) : size'[i] = size[i]
      BY <2>1
    <2>3. \A q : Real(q) => R(q)
      BY <2>2 DEF Real, Posted, Last
    <2>4. R(p)
      <3>1. 0 \in 0..(ChunkTotalCount(n) - 1)
        BY Counts
      <3>. QED  BY <2>1, <2>2, <3>1 DEF Chunk, Msg
    <2>5. UNCHANGED <<queue, popped, inFlight, taken, lost>>
          /\ \A u \in Posters : posting'[u] = IF u = t THEN p ELSE posting[u]
      BY <1>2 DEF Posts, TypeOK
    <2> HIDE DEF R, p
    <2>6. /\ \A u \in Posters : posting'[u] # Null => R(posting'[u])
          /\ \A i \in 1..Len(queue') : R(queue'[i])
          /\ popped' # Null => R(popped')
          /\ inFlight' # <<>> => inFlight'[1] = Bye \/ R(inFlight'[1])
          /\ \A i \in 1..Len(taken') : taken'[i] = Bye \/ R(taken'[i])
      BY <2>3, <2>4, <2>5 DEF Known
    <2>7. lost' \subseteq 1..Len(size') /\ Len(size') <= MaxMsgs
      BY <2>1, <2>2, <2>5 DEF Known, Posted
    <2>. QED  BY <2>6, <2>7 DEF Known, R, Real, Posted, Last
  <1>3. CASE UNCHANGED size /\ ~Idles
    <2>1. \A p : Real(p)' <=> Real(p)
      BY <1>3 DEF Real, Posted, Last
    <2>2. Posted' = Posted
      BY <1>3 DEF Posted
    <2>3. MsgsOf(queue) \subseteq Posted /\ MsgsOf(inFlight) \subseteq Posted
      BY MsgsPosted
    <2> USE ByeIsNoChunk
    <2>4. ASSUME NEW t \in Posters, Pushes(t) PROVE Known'
      <3> DEFINE p == posting[t]
      <3>1. Real(p) /\ p # Null
        BY <2>4 DEF Pushes, Known
      <3>2. ASSUME p.seq < Last(p.msg)
            PROVE  Real([msg |-> p.msg, seq |-> p.seq + 1])
        <4>1. p \in Chunk /\ p.msg \in Posted /\ p.seq \in 0..Last(p.msg) /\ Last(p.msg) \in Nat
          BY <3>1, PostedSize DEF Real
        <4>. QED  BY <4>1, <3>2 DEF Real, Chunk
      <3>3. \A u \in Posters : posting'[u] # Null => Real(posting'[u])
        BY <2>4, <3>2 DEF Pushes, TypeOK, Known
      <3>4. \A i \in 1..Len(queue') : Real(queue'[i])
        BY <2>4, <3>1 DEF Pushes, TypeOK, Known
      <3>. QED  BY <2>1, <2>2, <2>4, <3>3, <3>4 DEF Pushes, Known
    <2>5. ASSUME NEW t \in Posters, Refuses(t) PROVE Known'
      BY <2>1, <2>2, <2>5 DEF Refuses, Known, TypeOK, Real
    <2>6. ASSUME Pops PROVE Known'
      BY <2>1, <2>2, <2>6, TailOfQueue DEF Pops, Known
    <2>7. ASSUME Sends PROVE Known'
      BY <2>1, <2>2, <2>3, <2>7 DEF Sends, Known, TypeOK
    <2>8. ASSUME Drops PROVE Known'
      BY <2>1, <2>2, <2>8 DEF Drops, Known, TypeOK, Real
    <2>9. ASSUME Retries PROVE Known'
      BY <2>1, <2>2, <2>9 DEF Retries, Known, TypeOK
    <2>10. ASSUME Clears PROVE Known'
      BY <2>1, <2>2, <2>3, <2>10 DEF Clears, Known, TypeOK
    <2>11. ASSUME Replaces PROVE Known'
      BY <2>1, <2>2, <2>3, <2>11 DEF Replaces, Known, TypeOK
    <2>12. ASSUME TakesBye PROVE Known'
      BY <2>1, <2>2, <2>12 DEF TakesBye, Known, TypeOK
    <2>13. ASSUME NEW m \in Posted, NEW s \in 0..Last(m), Takes(m, s) PROVE Known'
      <3>1. inFlight # <<>> /\ Real(inFlight[1]) /\ taken' = Append(taken, inFlight[1])
            /\ inFlight' = <<>> /\ UNCHANGED <<posting, queue, popped, lost>>
        <4>1. inFlight[1] # Bye
          BY <2>13, PostedSize DEF Takes, Received, Bye, Posted
        <4>. QED  BY <4>1, <2>13 DEF Takes, Received, Known
      <3>. QED  BY <1>3, <2>1, <2>2, <3>1 DEF Known, TypeOK
    <2>. QED
      BY <1>3, <2>4, <2>5, <2>6, <2>7, <2>8, <2>9, <2>10, <2>11, <2>12, <2>13, SizeAssumption
         DEF StepCase, Posts, TypeOK
  <1>. QED
    BY <1>1, <1>2, <1>3 DEF StepCase, Pushes, Refuses, Pops, Sends, Drops, Retries,
                            Clears, Replaces, TakesBye, Takes

(* What the receiver knows of a message stays within its type.             *)
LEMMA GrownType ==
  ASSUME TypeOK, Known, NEW m \in Posted, NEW s \in 0..Last(m), HasEntry(m, s)
  PROVE  Grown(m, s) \in Entry
  <1>1. Last(m) \in Nat /\ s \in Nat /\ s < ChunkTotalCount(size[m]) /\ size[m] \in Sizes
    BY PostedSize
  <1>2. ChunkSize(size[m], s) \in Nat
    BY <1>1, ChunkSizes
  <1> DEFINE e == IF s = 0 /\ size[m] # 0 THEN [second |-> 0, first |-> {}, len |-> size[m]]
                  ELSE entries[Key(m)]
  <1>3. e \in Entry
    BY <1>1, SizeAssumption DEF TypeOK, HasEntry, Entry
  <1> HIDE DEF e
  <1>4. [second |-> e.second + ChunkSize(size[m], s), first |-> e.first \union {s},
         len |-> e.len] \in Entry
    BY <1>1, <1>2, <1>3 DEF Entry
  <1>. QED  BY <1>4 DEF Grown, e

LEMMA WayTypes ==
  ASSUME TypeOK, Known, StepCase
  PROVE  /\ size' \in Seq(Sizes)
         /\ posting' \in [Posters -> Chunk \union {Null}]
         /\ queue' \in Seq(Chunk)
         /\ popped' \in Chunk \union {Null}
         /\ inFlight' \in Seq(Chunk \union {Bye}) /\ Len(inFlight') <= 1
         /\ taken' \in Seq(Chunk \union {Bye})
         /\ DOMAIN entries' \subseteq Int
         /\ \A k \in DOMAIN entries' : entries'[k] \in Entry
         /\ delivered' \in Seq([msg : Msg, data : (SUBSET Nat) \union {Null}])
         /\ retried' \subseteq Msg /\ lost' \subseteq Msg
  <1> DEFINE G == /\ size' \in Seq(Sizes)
                  /\ posting' \in [Posters -> Chunk \union {Null}]
                  /\ queue' \in Seq(Chunk)
                  /\ popped' \in Chunk \union {Null}
                  /\ inFlight' \in Seq(Chunk \union {Bye}) /\ Len(inFlight') <= 1
                  /\ taken' \in Seq(Chunk \union {Bye})
                  /\ DOMAIN entries' \subseteq Int
                  /\ \A k \in DOMAIN entries' : entries'[k] \in Entry
                  /\ delivered' \in Seq([msg : Msg, data : (SUBSET Nat) \union {Null}])
                  /\ retried' \subseteq Msg /\ lost' \subseteq Msg
  <1>0. /\ Posted \subseteq Msg /\ MsgsOf(queue) \subseteq Msg /\ MsgsOf(inFlight) \subseteq Msg
        /\ \A p \in Chunk : p.msg \in Msg
    <2>1. Posted \subseteq Msg
      BY SizeAssumption DEF TypeOK, Known, Posted, Msg
    <2>. QED  BY <2>1, MsgsPosted DEF Chunk
  <1>1. ASSUME Idles PROVE G
    BY <1>1 DEF Idles, way, TypeOK
  <1>2. ASSUME NEW t \in Posters, NEW n \in Sizes, Posts(t, n) PROVE G
    <2>1. [msg |-> Len(size) + 1, seq |-> 0] \in Chunk
      BY <1>2, SizeAssumption DEF Posts, TypeOK, Chunk, Msg
    <2>. QED  BY <1>2, <2>1 DEF Posts, TypeOK
  <1>3. ASSUME NEW t \in Posters, Pushes(t) PROVE G
    <2>1. posting[t] \in Chunk /\ [msg |-> posting[t].msg, seq |-> posting[t].seq + 1] \in Chunk
      BY <1>3 DEF Pushes, TypeOK, Chunk
    <2>. QED  BY <1>3, <2>1 DEF Pushes, TypeOK
  <1>4. ASSUME NEW t \in Posters, Refuses(t) PROVE G
    BY <1>0, <1>4 DEF Refuses, TypeOK
  <1>5. ASSUME Pops PROVE G
    BY <1>5, TailOfQueue DEF Pops, TypeOK
  <1>6. ASSUME Sends PROVE G
    BY <1>0, <1>6 DEF Sends, TypeOK
  <1>7. ASSUME Drops PROVE G
    BY <1>0, <1>7 DEF Drops, TypeOK
  <1>8. ASSUME Retries PROVE G
    BY <1>0, <1>8 DEF Retries, TypeOK
  <1>9. ASSUME Clears PROVE G
    BY <1>0, <1>9 DEF Clears, TypeOK
  <1>10. ASSUME Replaces PROVE G
    <2>1. CASE inFlight' = <<>>
      BY <1>0, <1>10, <2>1 DEF Replaces, TypeOK
    <2>2. CASE inFlight' = <<Bye>>
      BY <1>0, <1>10, <2>2 DEF Replaces, TypeOK
    <2>. QED  BY <1>10, <2>1, <2>2 DEF Replaces
  <1>11. ASSUME TakesBye PROVE G
    BY <1>11 DEF TakesBye, TypeOK
  <1>12. ASSUME NEW m \in Posted, NEW s \in 0..Last(m), Takes(m, s) PROVE G
    <2>1. Key(m) \in Int
      BY KeyInjective DEF Known
    <2>2. HasEntry(m, s) => Grown(m, s) \in Entry
      BY GrownType
    <2>3. DOMAIN entries' \subseteq Int /\ \A k \in DOMAIN entries' : entries'[k] \in Entry
      <3>1. DOMAIN entries \subseteq Int /\ \A k \in DOMAIN entries : entries[k] \in Entry
        BY DEF TypeOK
      <3>2. \A k \in DOMAIN entries' : entries'[k] \in Entry
        <4> SUFFICES ASSUME NEW k \in DOMAIN entries' PROVE entries'[k] \in Entry
          OBVIOUS
        <4>1. CASE k = Key(m)
          <5>1. HasEntry(m, s)
            BY <1>12, <4>1 DEF Takes, Received, HasEntry
          <5>. QED  BY <5>1, <1>12, <4>1, <2>2 DEF Takes, Received
        <4>2. CASE k # Key(m)
          BY <1>12, <4>2, <3>1 DEF Takes, Received
        <4>. QED  BY <4>1, <4>2
      <3>. QED  BY <1>12, <2>1, <3>1, <3>2 DEF Takes, Received
    <2>4. inFlight[1] \in Chunk
      BY <1>12, PostedSize, <1>0 DEF Takes, Received, Chunk
    <2>5. delivered' \in Seq([msg : Msg, data : (SUBSET Nat) \union {Null}])
      <3> DEFINE d == [msg |-> m, data |-> IF HasEntry(m, s) THEN Grown(m, s).first ELSE Null]
      <3>1. d \in [msg : Msg, data : (SUBSET Nat) \union {Null}]
        BY <2>2, <1>0 DEF Entry
      <3>2. delivered' = delivered \/ delivered' = Append(delivered, d)
        BY <1>12 DEF Takes, Received
      <3> DEFINE D == [msg : Msg, data : (SUBSET Nat) \union {Null}]
      <3>3. delivered \in Seq(D) /\ d \in D
        BY <3>1 DEF TypeOK
      <3> HIDE DEF d, D
      <3>4. delivered' \in Seq(D)
        BY <3>2, <3>3
      <3>. QED  BY <3>4 DEF D
    <2>6. taken' \in Seq(Chunk \union {Bye}) /\ inFlight' = <<>>
      <3>1. taken' = Append(taken, inFlight[1])
        BY <1>12 DEF Takes, Received
      <3>. QED  BY <3>1, <2>4, <1>12 DEF TypeOK, Takes, Received
    <2>. QED  BY <1>12, <2>3, <2>5, <2>6 DEF Takes, TypeOK
  <1>. QED
    BY <1>1, <1>2, <1>3, <1>4, <1>5, <1>6, <1>7, <1>8, <1>9, <1>10, <1>11, <1>12 DEF StepCase

LEMMA ControlTypes ==
  ASSUME TypeOK, Known, [Next]_vars
  PROVE  /\ running' \in BOOLEAN /\ connected' \in BOOLEAN
         /\ admitted' \subseteq {t \in Posters : posting'[t] # Null}
         /\ sendPc' \in ControlPc
         /\ sendPc' \in {"send", "failed", "requeue"} <=> popped' # Null
         /\ stopPc' \in {"up", "bye", "clear", "stopped"}
         /\ closed' \in BOOLEAN /\ flapped' \in BOOLEAN
         /\ completed' \in Seq(Msg)
         /\ breaks' \in 0..MaxBreaks
  <1> USE DEF vars, sender, segment, receiver, history, TypeOK, ControlPc
  <1> USE ByeIsNoChunk, SizeAssumption
  <1>1. CASE UNCHANGED vars
    BY <1>1
  <1>2. ASSUME NEW t \in Posters, Post(t)
        PROVE  admitted' \subseteq {u \in Posters : posting'[u] # Null}
               /\ UNCHANGED <<running, connected, sendPc, popped, stopPc, closed, flapped,
                              completed, breaks>>
    <2>1. [msg |-> Len(size) + 1, seq |-> 0] \in Chunk
      BY <1>2 DEF Post, Chunk, Msg
    <2>. QED  BY <1>2, <2>1 DEF Post
  <1>3. ASSUME NEW t \in Posters, Push(t)
        PROVE  /\ admitted' \subseteq {u \in Posters : posting'[u] # Null}
               /\ completed' \in Seq(Msg)
               /\ UNCHANGED <<running, connected, sendPc, popped, stopPc, closed, flapped, breaks>>
    <2>1. \A u \in Posters : u # t => posting'[u] = posting[u]
      BY <1>3 DEF Push
    <2>2. completed' \in Seq(Msg)
      <3>1. posting[t].msg \in Msg
        BY <1>3 DEF Push, Chunk
      <3>2. completed' = completed \/ completed' = Append(completed, posting[t].msg)
        BY <1>3 DEF Push
      <3>3. completed \in Seq(Msg)
        OBVIOUS
      <3> DEFINE m == posting[t].msg  M == Msg
      <3> HIDE DEF m, M
      <3>4. m \in M /\ completed \in Seq(M) /\ (completed' = completed \/ completed' = Append(completed, m))
        BY <3>1, <3>2, <3>3 DEF m, M
      <3>5. completed' \in Seq(M)
        BY ONLY <3>4
      <3>. QED  BY <3>5 DEF M
    <2>. QED  BY <1>3, <2>1, <2>2 DEF Push
  <1>4. ASSUME NEW t \in Posters, PushRefused(t)
        PROVE  /\ admitted' \subseteq {u \in Posters : posting'[u] # Null}
               /\ UNCHANGED <<running, connected, sendPc, popped, stopPc, closed, flapped,
                              completed, breaks>>
    BY <1>4 DEF PushRefused
  <1>5. CASE Pop
    <2>1. popped' \in Chunk /\ sendPc' = "send"
          /\ UNCHANGED <<running, connected, admitted, posting, stopPc, closed, flapped,
                         completed, breaks>>
      BY <1>5 DEF Pop
    <2>. QED  BY <2>1
  <1>6. CASE PopDisconnected \/ SendFails \/ Retry \/ Requeue \/ Drop \/ Reset \/ OpenGivesUp
    BY <1>6 DEF PopDisconnected, SendFails, Retry, Requeue, Drop, Reset, OpenGivesUp
  <1>7. CASE SendSucceeds
    <2>1. popped' = Null /\ sendPc' = "pop"
          /\ UNCHANGED <<running, connected, admitted, posting, stopPc, closed, flapped,
                         completed, breaks>>
      BY <1>7 DEF SendSucceeds, Handoff!Put
    <2>. QED  BY <2>1
  <1>8. CASE Reconnect \/ Disconnect \/ HearHello
    <2>1. CASE Reconnect
      <3>1. connected' = TRUE /\ closed' = FALSE /\ flapped' = FALSE /\ sendPc' = "pop"
            /\ UNCHANGED <<running, admitted, posting, popped, stopPc, completed, breaks>>
            /\ sendPc = "open"
        BY <2>1 DEF Reconnect
      <3>. QED  BY <3>1
    <2>2. CASE Disconnect
      <3>1. connected' = FALSE /\ breaks' = breaks + 1 /\ breaks < MaxBreaks
            /\ UNCHANGED <<running, admitted, posting, sendPc, popped, stopPc, closed,
                           flapped, completed>>
        BY <2>2 DEF Disconnect
      <3>2. breaks' \in 0..MaxBreaks
        BY <3>1
      <3>3. connected' \in BOOLEAN
        BY <3>1
      <3>. QED  BY <3>1, <3>2, <3>3, Zenon
    <2>3. CASE HearHello
      <3>1. connected' = TRUE /\ flapped' = TRUE
            /\ UNCHANGED <<running, admitted, posting, sendPc, popped, stopPc, closed,
                           completed, breaks>>
        BY <2>3 DEF HearHello, Handoff!Flap
      <3>. QED  BY <3>1
    <2>. QED  BY <1>8, <2>1, <2>2, <2>3
  <1>9. CASE SayBye \/ StopRunning \/ ClearSendQueue
    BY <1>9 DEF SayBye, Handoff!Put, StopRunning, ClearSendQueue
  <1>10. CASE RecvMessage \/ RecvBye \/ RecvLeaves
    <2>1. CASE RecvMessage \/ RecvBye
      <3>1. closed' = (Head(inFlight) \in {Bye})
            /\ UNCHANGED <<running, connected, admitted, posting, sendPc, popped, stopPc,
                           flapped, completed, breaks>>
        BY <2>1, Zenon DEF RecvMessage, RecvBye, Handoff!Take
      <3>2. closed' \in BOOLEAN
        <4>1. CASE Head(inFlight) \in {Bye}
          BY <3>1, <4>1
        <4>2. CASE Head(inFlight) \notin {Bye}
          BY <3>1, <4>2
        <4>. QED  BY <4>1, <4>2
      <3>. QED  BY <3>1, <3>2
    <2>2. CASE RecvLeaves
      BY <2>2 DEF RecvLeaves, Handoff!Close
    <2>. QED  BY <1>10, <2>1, <2>2
  <1>. QED
    BY <1>1, <1>2, <1>3, <1>4, <1>5, <1>6, <1>7, <1>8, <1>9, <1>10
       DEF Next, Application, SendLoop

LEMMA TypeStep ==
  ASSUME TypeOK, Known, [Next]_vars
  PROVE  TypeOK' /\ Known'
  <1>1. StepCase
    BY StepCases
  <1>. QED  BY <1>1, KnownStep, WayTypes, ControlTypes DEF TypeOK

LEMMA TypeInit ==
  ASSUME Init
  PROVE  TypeOK /\ Known
  <1>1. TypeOK
    <2>1. /\ size = <<>> /\ queue = <<>> /\ inFlight = <<>> /\ taken = <<>>
          /\ delivered = <<>> /\ completed = <<>> /\ entries = <<>> /\ popped = Null
          /\ posting = [t \in Posters |-> Null] /\ admitted = {} /\ breaks = 0
          /\ retried = {} /\ lost = {} /\ running = TRUE /\ connected = TRUE
          /\ closed = FALSE /\ flapped = FALSE /\ sendPc = "pop" /\ stopPc = "up"
      BY DEF Init, Handoff!Init
    <2>2. size \in Seq(Sizes) /\ queue \in Seq(Chunk) /\ delivered \in Seq([msg : Msg, data : (SUBSET Nat) \union {Null}])
          /\ completed \in Seq(Msg) /\ taken \in Seq(Chunk \union {Bye})
          /\ inFlight \in Seq(Chunk \union {Bye}) /\ Len(inFlight) <= 1
      BY <2>1
    <2>3. DOMAIN entries = {}
      BY <2>1
    <2>4. /\ breaks \in 0..MaxBreaks /\ sendPc \in ControlPc
          /\ sendPc \in {"send", "failed", "requeue"} <=> popped # Null
          /\ popped \in Chunk \union {Null}
      BY <2>1, SizeAssumption DEF ControlPc
    <2>5. posting \in [Posters -> Chunk \union {Null}]
      BY <2>1
    <2>. QED  BY <2>1, <2>2, <2>3, <2>4, <2>5, Zenon DEF TypeOK
  <1>2. Known
    BY SizeAssumption DEF Init, Handoff!Init, Known
  <1>. QED  BY <1>1, <1>2

(* Every variable keeps its type: no packet of an unknown message, and no  *)
(* packet left in send_loop's hands when it waits for the next.            *)
THEOREM TypeCorrect == Spec => []TypeOK
  <1>1. Init => TypeOK /\ Known
    BY TypeInit
  <1>2. TypeOK /\ Known /\ [Next]_vars => TypeOK' /\ Known'
    BY TypeStep
  <1>. QED  BY <1>1, <1>2, PTL DEF Spec

-----------------------------------------------------------------------------
(***************************************************************************)
(* Where a chunk is.                                                       *)
(***************************************************************************)
LEMMA Appended ==
  ASSUME NEW S, NEW s \in Seq(S), NEW x \in S, NEW p
  PROVE  (\E i \in 1..Len(Append(s, x)) : Append(s, x)[i] = p)
           <=> (\E i \in 1..Len(s) : s[i] = p) \/ p = x
  <1>1. Len(Append(s, x)) = Len(s) + 1 /\ Append(s, x)[Len(s) + 1] = x
        /\ Len(s) \in Nat /\ \A i \in 1..Len(s) : Append(s, x)[i] = s[i]
    OBVIOUS
  <1>. QED  BY <1>1

LEMMA AppendedSingle ==
  ASSUME NEW S, NEW s \in Seq(S), NEW x \in S,
         \A i, j \in 1..Len(s) : s[i] = s[j] => i = j,
         ~ \E i \in 1..Len(s) : s[i] = x
  PROVE  \A i, j \in 1..Len(Append(s, x)) : Append(s, x)[i] = Append(s, x)[j] => i = j
  <1>1. Len(Append(s, x)) = Len(s) + 1 /\ Append(s, x)[Len(s) + 1] = x
        /\ Len(s) \in Nat /\ \A i \in 1..Len(s) : Append(s, x)[i] = s[i]
    OBVIOUS
  <1>. QED  BY <1>1

(* What is on its way is a chunk of a message that was posted.             *)
LEMMA WayIsReal ==
  ASSUME TypeOK, Known, NEW p, p \in Chunk,
         Queued(p) \/ popped = p \/ Sent(p) \/ Taken(p)
  PROVE  Real(p)
  BY ByeIsNoChunk DEF Known, Queued, Sent, Taken

(* How each step moves the chunks.                                         *)
LEMMA Moves ==
  ASSUME TypeOK, Known, StepCase, NEW p \in Chunk
  PROVE  /\ Idles => (Queued(p)' <=> Queued(p)) /\ (Sent(p)' <=> Sent(p)) /\ (Taken(p)' <=> Taken(p))
         /\ \A t \in Posters : Pushes(t) =>
              (Queued(p)' <=> Queued(p) \/ p = posting[t]) /\ (Sent(p)' <=> Sent(p)) /\ (Taken(p)' <=> Taken(p))
         /\ Pops => (Queued(p) <=> Queued(p)' \/ p = popped') /\ (Sent(p)' <=> Sent(p)) /\ (Taken(p)' <=> Taken(p))
         /\ Sends => (Queued(p)' <=> Queued(p)) /\ (Sent(p)' <=> p = popped) /\ (Taken(p)' <=> Taken(p))
         /\ Retries => (Queued(p)' <=> Queued(p) \/ p = popped) /\ (Sent(p)' <=> Sent(p)) /\ (Taken(p)' <=> Taken(p))
         /\ Clears => ~Queued(p)' /\ (Sent(p)' <=> Sent(p)) /\ (Taken(p)' <=> Taken(p))
         /\ Replaces => (Queued(p)' <=> Queued(p)) /\ ~Sent(p)' /\ (Taken(p)' <=> Taken(p))
         /\ TakesBye => (Queued(p)' <=> Queued(p)) /\ ~Sent(p)' /\ (Taken(p)' <=> Taken(p)) /\ ~Sent(p)
         /\ \A m \in Posted : \A s \in 0..Last(m) : Takes(m, s) =>
              (Queued(p)' <=> Queued(p)) /\ ~Sent(p)' /\ (Taken(p)' <=> Taken(p) \/ Sent(p))
              /\ Sent([msg |-> m, seq |-> s]) /\ (Sent(p) <=> p = [msg |-> m, seq |-> s])
  <1>1. queue \in Seq(Chunk) /\ taken \in Seq(Chunk \union {Bye}) /\ p # Bye /\ p # Null
    BY ByeIsNoChunk DEF TypeOK
  <1>2. ASSUME Idles
        PROVE (Queued(p)' <=> Queued(p)) /\ (Sent(p)' <=> Sent(p)) /\ (Taken(p)' <=> Taken(p))
    BY <1>2 DEF Idles, way, Queued, Sent, Taken
  <1>3. ASSUME NEW t \in Posters, Pushes(t)
        PROVE  (Queued(p)' <=> Queued(p) \/ p = posting[t]) /\ (Sent(p)' <=> Sent(p)) /\ (Taken(p)' <=> Taken(p))
    <2>1. posting[t] \in Chunk /\ queue' = Append(queue, posting[t]) /\ UNCHANGED <<inFlight, taken>>
      BY <1>3 DEF Pushes, TypeOK
    <2>2. Queued(p)' <=> Queued(p) \/ p = posting[t]
      BY <1>1, <2>1, Appended DEF Queued
    <2>. QED  BY <2>1, <2>2 DEF Sent, Taken
  <1>4. ASSUME Pops
        PROVE  (Queued(p) <=> Queued(p)' \/ p = popped') /\ (Sent(p)' <=> Sent(p)) /\ (Taken(p)' <=> Taken(p))
    <2>1. Queued(p) <=> Queued(p)' \/ p = popped'
      <3>1. Len(queue) \in Nat /\ 1 \in 1..Len(queue) /\ popped' = queue[1]
            /\ Len(queue') = Len(queue) - 1
            /\ \A i \in 1..Len(queue') : i + 1 \in 1..Len(queue) /\ queue'[i] = queue[i + 1]
        BY <1>4, TailOfQueue
      <3>2. ASSUME NEW i \in 1..Len(queue), queue[i] = p PROVE Queued(p)' \/ p = popped'
        <4>1. CASE i = 1
          BY <3>1, <3>2, <4>1
        <4>2. CASE i # 1
          <5>1. i - 1 \in 1..Len(queue') /\ (i - 1) + 1 = i
            BY <3>1, <4>2
          <5>2. queue'[i - 1] = p
            BY <3>1, <3>2, <5>1
          <5>. QED  BY <5>1, <5>2 DEF Queued
        <4>. QED  BY <4>1, <4>2
      <3>. QED  BY <3>1, <3>2 DEF Queued
    <2>. QED  BY <1>4, <2>1 DEF Pops, Sent, Taken
  <1>5. ASSUME Sends
        PROVE  (Queued(p)' <=> Queued(p)) /\ (Sent(p)' <=> p = popped) /\ (Taken(p)' <=> Taken(p))
    BY <1>5 DEF Sends, Queued, Sent, Taken
  <1>6. ASSUME Retries
        PROVE  (Queued(p)' <=> Queued(p) \/ p = popped) /\ (Sent(p)' <=> Sent(p)) /\ (Taken(p)' <=> Taken(p))
    <2>1. popped \in Chunk /\ queue' = Append(queue, popped) /\ UNCHANGED <<inFlight, taken>>
      BY <1>6 DEF Retries, TypeOK
    <2>2. Queued(p)' <=> Queued(p) \/ p = popped
      BY <1>1, <2>1, Appended DEF Queued
    <2>. QED  BY <2>1, <2>2 DEF Sent, Taken
  <1>7. ASSUME Clears
        PROVE  ~Queued(p)' /\ (Sent(p)' <=> Sent(p)) /\ (Taken(p)' <=> Taken(p))
    BY <1>7 DEF Clears, Queued, Sent, Taken
  <1>8. ASSUME Replaces
        PROVE  (Queued(p)' <=> Queued(p)) /\ ~Sent(p)' /\ (Taken(p)' <=> Taken(p))
    BY <1>1, <1>8 DEF Replaces, Queued, Sent, Taken
  <1>9. ASSUME TakesBye
        PROVE  (Queued(p)' <=> Queued(p)) /\ ~Sent(p)' /\ (Taken(p)' <=> Taken(p)) /\ ~Sent(p)
    <2>1. Taken(p)' <=> Taken(p)
      BY <1>1, <1>9, Appended DEF TakesBye, Taken
    <2>. QED  BY <1>1, <1>9, <2>1 DEF TakesBye, Queued, Sent
  <1>10. ASSUME NEW m \in Posted, NEW s \in 0..Last(m), Takes(m, s)
         PROVE  (Queued(p)' <=> Queued(p)) /\ ~Sent(p)' /\ (Taken(p)' <=> Taken(p) \/ Sent(p))
                /\ Sent([msg |-> m, seq |-> s]) /\ (Sent(p) <=> p = [msg |-> m, seq |-> s])
    <2>1. inFlight # <<>> /\ inFlight[1] = [msg |-> m, seq |-> s] /\ inFlight' = <<>>
          /\ taken' = Append(taken, [msg |-> m, seq |-> s]) /\ queue' = queue
      BY <1>10 DEF Takes, Received
    <2>2. [msg |-> m, seq |-> s] \in Chunk \union {Bye}
      BY <2>1 DEF TypeOK
    <2>3. Taken(p)' <=> Taken(p) \/ p = [msg |-> m, seq |-> s]
      BY <1>1, <2>1, <2>2, Appended DEF Taken
    <2>. QED  BY <2>1, <2>3 DEF Queued, Sent
  <1>. QED  BY <1>2, <1>3, <1>4, <1>5, <1>6, <1>7, <1>8, <1>9, <1>10, Zenon

(* No step but Posts and Pushes gives a poster another chunk.              *)
LEMMA AheadStep ==
  ASSUME TypeOK, Known, Ahead, StepCase
  PROVE  Ahead'
  <1> DEFINE Held(p) == Queued(p) \/ popped = p \/ Sent(p) \/ Taken(p)
             HeldNext(p) == Queued(p)' \/ popped' = p \/ Sent(p)' \/ Taken(p)'
  <1>1. ASSUME \A p \in Chunk : HeldNext(p) => Held(p),
               \A t \in Posters : posting'[t] # Null => posting'[t] = posting[t]
        PROVE  Ahead'
    BY <1>1 DEF Ahead
  <1>2. ASSUME NEW t \in Posters, NEW n \in Sizes, Posts(t, n)
        PROVE  Ahead'
    <2> DEFINE m == Len(size) + 1
    <2>1. /\ UNCHANGED <<queue, popped, inFlight, taken>>
          /\ posting'[t] = [msg |-> m, seq |-> 0]
          /\ \A u \in Posters : u # t => posting'[u] = posting[u]
          /\ m \in Nat /\ m \notin Posted
      BY <1>2 DEF Posts, TypeOK, Posted
    <2>2. \A p \in Chunk : HeldNext(p) <=> Held(p)
      BY <2>1 DEF Queued, Sent, Taken
    <2>3. \A p \in Chunk : Held(p) => p.msg \in Posted
      BY WayIsReal DEF Real
    <2>4. \A u \in Posters : posting[u] # Null => posting[u].msg \in Posted
      BY DEF Known, Real
    <2> HIDE DEF m, Held, HeldNext
    <2>5. \A p \in Chunk : HeldNext(p) => p.msg # posting'[t].msg
      BY <2>1, <2>2, <2>3
    <2>6. \A u \in Posters : u # t /\ posting'[u] # Null =>
            /\ posting'[u].msg # posting'[t].msg
            /\ \A p \in Chunk : p.msg = posting'[u].msg /\ HeldNext(p) => p.seq < posting'[u].seq
      BY <2>1, <2>2, <2>4 DEF Ahead, Held
    <2>7. \A u, v \in Posters : u # v /\ posting'[u] # Null /\ posting'[v] # Null
             => posting'[u].msg # posting'[v].msg
      BY <2>1, <2>6 DEF Ahead
    <2>. QED  BY <2>1, <2>5, <2>6, <2>7 DEF Ahead, HeldNext
  <1>3. ASSUME NEW t \in Posters, Pushes(t)
        PROVE  Ahead'
    <2> DEFINE q == posting[t]
    <2>1. /\ posting[t] # Null /\ popped' = popped /\ q \in Chunk
          /\ posting'[t] # Null => posting'[t] = [msg |-> q.msg, seq |-> q.seq + 1]
          /\ \A u \in Posters : u # t => posting'[u] = posting[u]
      BY <1>3 DEF Pushes, TypeOK
    <2>2. \A p \in Chunk : HeldNext(p) <=> Held(p) \/ p = q
      BY <1>3, <2>1, Moves
    <2>3. \A p \in Chunk : p.msg = q.msg /\ Held(p) => p.seq < q.seq
      BY <2>1 DEF Ahead
    <2>4. q.seq \in Nat /\ \A p \in Chunk : p.seq \in Nat
      BY <2>1 DEF Chunk
    <2> HIDE DEF Held, HeldNext
    <2>5. \A p \in Chunk : p.msg = q.msg /\ HeldNext(p) => p.seq < q.seq + 1
      BY <2>2, <2>3, <2>4
    <2>6. \A u \in Posters : u # t /\ posting'[u] # Null =>
            /\ posting'[u].msg # q.msg
            /\ \A p \in Chunk : p.msg = posting'[u].msg /\ HeldNext(p) => p.seq < posting'[u].seq
      BY <2>1, <2>2 DEF Ahead, Held
    <2>7. \A u, v \in Posters : u # v /\ posting'[u] # Null /\ posting'[v] # Null
             => posting'[u].msg # posting'[v].msg
      BY <2>1, <2>6 DEF Ahead
    <2>8. posting'[t] # Null =>
            \A p \in Chunk : p.msg = posting'[t].msg /\ HeldNext(p) => p.seq < posting'[t].seq
      BY <2>1, <2>5
    <2>. QED  BY <2>6, <2>7, <2>8 DEF Ahead, HeldNext
  <1>4. ASSUME NEW t \in Posters, Refuses(t) PROVE Ahead'
    <2>1. \A p \in Chunk : HeldNext(p) => Held(p)
      BY <1>4 DEF Refuses, Queued, Sent, Taken
    <2>2. \A u \in Posters : posting'[u] # Null => posting'[u] = posting[u]
      BY <1>4 DEF Refuses, TypeOK
    <2>. QED  BY <1>1, <2>1, <2>2
  <1>5. ASSUME Idles \/ Pops \/ Sends \/ Drops \/ Retries \/ Clears \/ Replaces \/ TakesBye
               \/ \E m \in Posted : \E s \in 0..Last(m) : Takes(m, s)
        PROVE  Ahead'
    <2>1. posting' = posting
      BY <1>5 DEF Idles, way, Pops, Sends, Drops, Retries, Clears, Replaces, TakesBye, Takes
    <2>2. ASSUME NEW p \in Chunk, HeldNext(p) PROVE Held(p)
      <3>1. p # Null /\ p # Bye
        BY ByeIsNoChunk
      <3>2. CASE Drops
        BY <2>2, <3>1, <3>2 DEF Drops, Queued, Sent, Taken
      <3>3. CASE ~Drops
        <4>1. CASE Pops
          BY <2>2, <4>1, Moves DEF Pops
        <4>2. CASE ~Pops
          <5>1. popped' = popped \/ popped' = Null
            BY <1>5, <3>3, <4>2 DEF Idles, way, Sends, Retries, Clears, Replaces, TakesBye, Takes
          <5>. QED  BY <1>5, <2>2, <3>1, <3>3, <4>2, <5>1, Moves
        <4>. QED  BY <4>1, <4>2
      <3>. QED  BY <3>2, <3>3
    <2>. QED  BY <1>1, <2>1, <2>2
  <1>. QED  BY <1>2, <1>3, <1>4, <1>5 DEF StepCase

(* A chunk leaves one place for the next.                                  *)
LEMMA SingleStep ==
  ASSUME TypeOK, Known, Ahead, Single, StepCase
  PROVE  Single'
  <1> DEFINE Distinct(s) == \A i, j \in 1..Len(s) : s[i] = s[j] => i = j
             DistinctTaken(s) == \A i, j \in 1..Len(s) : s[i] = s[j] /\ s[i] # Bye => i = j
             Apart == \A p \in Chunk :
                        /\ popped = p => ~Queued(p) /\ ~Sent(p) /\ ~Taken(p)
                        /\ Sent(p) => ~Queued(p) /\ ~Taken(p)
                        /\ Queued(p) => ~Taken(p)
  <1>1. queue \in Seq(Chunk) /\ taken \in Seq(Chunk \union {Bye})
        /\ Distinct(queue) /\ DistinctTaken(taken)
    BY DEF TypeOK, Single
  <1>2. Apart
    <2>1. \A p \in Chunk : p # Bye /\ p # Null
      BY ByeIsNoChunk
    <2>. QED  BY <2>1 DEF Single, Queued, Sent
  <1>3. SUFFICES Distinct(queue') /\ DistinctTaken(taken') /\ Apart'
    <2>1. queue' \in Seq(Chunk) /\ popped' \in Chunk \union {Null}
          /\ inFlight' \in Seq(Chunk \union {Bye})
      BY WayTypes
    <2>2. ASSUME Apart'
          PROVE  /\ popped' # Null => ~Queued(popped)' /\ ~Sent(popped)' /\ ~Taken(popped)'
                 /\ inFlight' # <<>> /\ inFlight'[1] # Bye =>
                       ~Queued(inFlight[1])' /\ ~Taken(inFlight[1])'
                 /\ \A i \in 1..Len(queue') : ~Taken(queue[i])'
      BY <2>1, <2>2 DEF Queued, Sent, Taken
    <2>. QED  BY <2>2 DEF Single
  <1>4. ASSUME NEW t \in Posters, Pushes(t)
        PROVE  Distinct(queue') /\ DistinctTaken(taken') /\ Apart'
    <2> DEFINE q == posting[t]
    <2>1. q \in Chunk /\ q # Null /\ queue' = Append(queue, q) /\ UNCHANGED <<popped, taken>>
      BY <1>4 DEF Pushes, TypeOK
    <2>2. ~(Queued(q) \/ popped = q \/ Sent(q) \/ Taken(q))
      <3>1. q.seq \in Nat
        BY <2>1 DEF Chunk
      <3>. QED  BY <2>1, <3>1 DEF Ahead
    <2>3. Distinct(queue')
      BY <1>1, <2>1, <2>2, AppendedSingle DEF Queued
    <2>4. Apart'
      BY <1>2, <1>4, <2>1, <2>2, Moves
    <2>. QED  BY <1>1, <2>1, <2>3, <2>4
  <1>5. ASSUME Pops
        PROVE  Distinct(queue') /\ DistinctTaken(taken') /\ Apart'
    <2>1. popped = Null /\ taken' = taken
          /\ Len(queue) \in Nat /\ 1 \in 1..Len(queue) /\ popped' = queue[1]
          /\ Len(queue') = Len(queue) - 1
          /\ \A i \in 1..Len(queue') : i + 1 \in 1..Len(queue) /\ queue'[i] = queue[i + 1]
      BY <1>5, TailOfQueue DEF Pops
    <2>2. Distinct(queue')
      <3> SUFFICES ASSUME NEW i \in 1..Len(queue'), NEW j \in 1..Len(queue'), queue'[i] = queue'[j]
                   PROVE  i = j
        OBVIOUS
      <3>1. i + 1 = j + 1
        BY <1>1, <2>1
      <3>. QED  BY <3>1
    <2>3. ~ \E i \in 1..Len(queue') : queue'[i] = popped'
      <3> SUFFICES ASSUME NEW i \in 1..Len(queue'), queue'[i] = popped'
                   PROVE  FALSE
        OBVIOUS
      <3>1. i + 1 = 1
        BY <1>1, <2>1
      <3>. QED  BY <3>1
    <2>4. Apart'
      <3>1. ~Queued(popped)'
        BY <2>3 DEF Queued
      <3>2. popped' \in Chunk
        BY <1>1, <2>1
      <3>3. Queued(popped')
        BY <2>1 DEF Queued
      <3>. QED  BY <1>2, <1>5, <3>1, <3>2, <3>3, Moves
    <2>. QED  BY <1>1, <2>1, <2>2, <2>4
  <1>6. ASSUME Retries
        PROVE  Distinct(queue') /\ DistinctTaken(taken') /\ Apart'
    <2>1. popped \in Chunk /\ queue' = Append(queue, popped) /\ popped' = Null /\ taken' = taken
          /\ Null \notin Chunk
      BY <1>6, ByeIsNoChunk DEF Retries, TypeOK
    <2>2. ~Queued(popped) /\ ~Sent(popped) /\ ~Taken(popped)
      BY <1>2, <2>1
    <2>3. Distinct(queue')
      BY <1>1, <2>1, <2>2, AppendedSingle DEF Queued
    <2>4. Apart'
      BY <1>2, <1>6, <2>1, <2>2, Moves
    <2>. QED  BY <1>1, <2>1, <2>3, <2>4
  <1>7. ASSUME NEW m \in Posted, NEW s \in 0..Last(m), Takes(m, s)
        PROVE  Distinct(queue') /\ DistinctTaken(taken') /\ Apart'
    <2> DEFINE q == [msg |-> m, seq |-> s]
    <2>1. taken' = Append(taken, q) /\ UNCHANGED <<queue, popped>> /\ Sent(q)
      BY <1>7 DEF Takes, Received, Sent
    <2>2. q \in Chunk
      BY <2>1, PostedSize, KeyInjective DEF TypeOK, Sent, Bye, Chunk, Posted, Known, Msg
    <2>3. ~Taken(q)
      BY <1>2, <2>1, <2>2
    <2>4. DistinctTaken(taken')
      <3>1. Len(taken') = Len(taken) + 1 /\ taken'[Len(taken) + 1] = q
            /\ Len(taken) \in Nat /\ \A i \in 1..Len(taken) : taken'[i] = taken[i]
        BY <1>1, <2>1, <2>2
      <3>2. \A i \in 1..Len(taken) : taken[i] # q
        BY <2>3 DEF Taken
      <3> HIDE DEF q
      <3>. QED  BY <1>1, <3>1, <3>2
    <2>5. Apart'
      BY <1>2, <1>7, <2>1, <2>2, Moves
    <2>. QED  BY <1>1, <2>1, <2>4, <2>5
  <1>8. ASSUME TakesBye
        PROVE  Distinct(queue') /\ DistinctTaken(taken') /\ Apart'
    <2>1. taken' = Append(taken, Bye) /\ UNCHANGED <<queue, popped>>
      BY <1>8 DEF TakesBye
    <2>2. DistinctTaken(taken')
      <3>1. Len(taken') = Len(taken) + 1 /\ taken'[Len(taken) + 1] = Bye
            /\ Len(taken) \in Nat /\ \A i \in 1..Len(taken) : taken'[i] = taken[i]
        BY <1>1, <2>1
      <3>. QED  BY <1>1, <3>1
    <2>3. Apart'
      BY <1>2, <1>8, <2>1, Moves
    <2>. QED  BY <1>1, <2>1, <2>2, <2>3
  <1>9. ASSUME \/ Idles \/ Sends \/ Drops \/ Clears \/ Replaces
               \/ \E t \in Posters : (\E n \in Sizes : Posts(t, n)) \/ Refuses(t)
        PROVE  Distinct(queue') /\ DistinctTaken(taken') /\ Apart'
    <2>1. taken' = taken /\ (queue' = queue \/ queue' = <<>>)
      BY <1>9 DEF Idles, way, Sends, Drops, Clears, Replaces, Posts, Refuses
    <2>2. Distinct(queue') /\ DistinctTaken(taken')
      BY <1>1, <2>1
    <2>3. CASE Drops \/ \E t \in Posters : (\E n \in Sizes : Posts(t, n)) \/ Refuses(t)
      <3>1. UNCHANGED <<queue, inFlight, taken>> /\ (popped' = popped \/ popped' = Null)
        BY <2>3 DEF Drops, Posts, Refuses
      <3>. QED  BY <1>2, <2>2, <3>1, ByeIsNoChunk DEF Queued, Sent, Taken
    <2>4. CASE Idles \/ Sends \/ Clears \/ Replaces
      <3>1. (popped' = popped \/ popped' = Null) /\ (Sends => popped' = Null) /\ Null \notin Chunk
        BY <2>4, ByeIsNoChunk DEF Idles, way, Sends, Clears, Replaces
      <3>. QED  BY <1>2, <2>2, <2>4, <3>1, Moves
    <2>. QED  BY <1>9, <2>3, <2>4
  <1>. QED  BY <1>4, <1>5, <1>6, <1>7, <1>8, <1>9 DEF StepCase

(* The messages of the model are as many as its bound allows.             *)
LEMMA PostedIsMsg ==
  ASSUME TypeOK, Known, NEW m \in Posted
  PROVE  m \in Msg /\ Last(m) \in Nat
  <1>1. m \in Nat /\ Last(m) \in Nat
    BY PostedSize
  <1>2. Len(size) \in Nat
    BY DEF TypeOK
  <1>3. m <= Len(size) /\ 1 <= m
    BY <1>1, <1>2 DEF Posted
  <1>4. Len(size) <= MaxMsgs
    BY DEF Known
  <1>. QED  BY <1>1, <1>2, <1>3, <1>4, SizeAssumption DEF Msg

LEMMA ChunksAreReal ==
  ASSUME TypeOK, Known, NEW m \in Posted
  PROVE  /\ Real([msg |-> m, seq |-> 0])
         /\ \A p \in Chunks(m) : p \in Chunk /\ Real(p) /\ p.msg = m /\ p.seq \in 0..Last(m)
  <1>1. m \in Msg /\ Last(m) \in Nat /\ 0 \in 0..Last(m)
    BY PostedIsMsg
  <1>2. Real([msg |-> m, seq |-> 0])
    BY <1>1 DEF Real, Chunk
  <1>3. ASSUME NEW p \in Chunks(m)
        PROVE  p \in Chunk /\ Real(p) /\ p.msg = m /\ p.seq \in 0..Last(m)
    <2>1. p.msg = m /\ p.seq \in 0..Last(m) /\ p = [msg |-> p.msg, seq |-> p.seq]
      BY <1>3 DEF Chunks
    <2>2. p \in Chunk
      BY <1>1, <2>1 DEF Chunk
    <2>. QED  BY <2>1, <2>2 DEF Real
  <1>. QED  BY <1>2, <1>3

LEMMA ChunksStay ==
  ASSUME TypeOK, Known, StepCase, NEW m \in Posted
  PROVE  Last(m)' = Last(m) /\ Chunks(m)' = Chunks(m) /\ size'[m] = size[m]
  <1> DEFINE p == [msg |-> m, seq |-> 0]
  <1>1. Real(p) /\ p.msg = m
    BY ChunksAreReal
  <1>2. Last(p.msg)' = Last(p.msg) /\ size'[p.msg] = size[p.msg]
    BY <1>1, RealStays
  <1>3. Last(m)' = Last(m) /\ size'[m] = size[m]
    BY <1>2
  <1>. QED  BY <1>3 DEF Chunks

(* A chunk that leaves every place takes its message to the lost ones.     *)
LEMMA SomewhereStep ==
  ASSUME TypeOK, Known, Ahead, Single, Somewhere, StepCase
  PROVE  Somewhere'
  <1> DEFINE Here(p) == ToCome(p) \/ Queued(p) \/ popped = p \/ Sent(p) \/ Taken(p)
             HereNext(p) == ToCome(p)' \/ Queued(p)' \/ popped' = p \/ Sent(p)' \/ Taken(p)'
  <1>1. ASSUME \A p \in Chunk : Real(p) /\ p.msg \notin lost' /\ Here(p) => HereNext(p),
               Posted' = Posted, lost \subseteq lost'
        PROVE  Somewhere'
    <2>1. \A m \in Posted : Chunks(m)' = Chunks(m)
      BY ChunksStay
    <2>2. \A m \in Posted : \A p \in Chunks(m) : p \in Chunk /\ Real(p) /\ p.msg = m
      BY ChunksAreReal
    <2>. QED  BY <1>1, <2>1, <2>2 DEF Somewhere
  <1>2. ASSUME NEW t \in Posters, NEW n \in Sizes, Posts(t, n) PROVE Somewhere'
    <2>1. /\ size \in Seq(Sizes) /\ size' = Append(size, n)
          /\ posting[t] = Null /\ posting'[t] = [msg |-> Len(size) + 1, seq |-> 0]
          /\ \A u \in Posters : u # t => posting'[u] = posting[u]
          /\ UNCHANGED <<queue, popped, inFlight, taken, lost>>
      BY <1>2 DEF Posts, TypeOK
    <2>2. Posted' = Posted \union {Len(size) + 1} /\ Len(size) \in Nat
      BY <2>1 DEF Posted
    <2>3. ASSUME NEW m \in Posted \ lost, NEW p \in Chunks(m)' PROVE HereNext(p)
      <3>2. p \in Chunks(m)
        BY ChunksStay
      <3>3. Here(p)
        BY <3>2 DEF Somewhere
      <3>4. ToCome(p) => ToCome(p)'
        BY <2>1 DEF ToCome
      <3>. QED  BY <2>1, <3>3, <3>4 DEF Queued, Sent, Taken
    <2>4. ASSUME NEW m, m = Len(size) + 1, NEW p \in Chunks(m)' PROVE HereNext(p)
      <3>1. size'[m] = n
        BY <2>1, <2>4
      <3>2. p.msg = m /\ p.seq >= 0
        <4>1. p \in [msg : {m}, seq : 0..(ChunkTotalCount(n) - 1)]
          BY <3>1 DEF Chunks, Last
        <4>. QED  BY <4>1, Counts
      <3>3. posting'[t] # Null
        <4>1. [msg |-> Len(size) + 1, seq |-> 0] \in Chunk
          BY <1>2, SizeAssumption DEF Posts, TypeOK, Chunk, Msg
        <4>. QED  BY <2>1, <4>1, ByeIsNoChunk
      <3>. QED  BY <2>1, <2>4, <3>2, <3>3 DEF ToCome
    <2> HIDE DEF HereNext
    <2>5. \A m \in (Posted \ lost)' : \A p \in Chunks(m)' : HereNext(p)
      BY <2>1, <2>2, <2>3, <2>4
    <2>. QED  BY <2>5 DEF Somewhere, HereNext
  <1>3. ASSUME NEW t \in Posters, Pushes(t) PROVE Somewhere'
    <2> DEFINE q == posting[t]
    <2>1. q \in Chunk /\ q # Null /\ Real(q) /\ UNCHANGED <<size, popped, lost>>
          /\ posting'[t] = (IF q.seq < Last(q.msg) THEN [msg |-> q.msg, seq |-> q.seq + 1] ELSE Null)
          /\ \A u \in Posters : u # t => posting'[u] = posting[u]
      BY <1>3 DEF Pushes, TypeOK, Known
    <2>2. ASSUME NEW p \in Chunk, Real(p), ToCome(p) PROVE ToCome(p)' \/ Queued(p)'
      <3>1. PICK u \in Posters : posting[u] # Null /\ posting[u].msg = p.msg /\ posting[u].seq <= p.seq
        BY <2>2 DEF ToCome
      <3>2. CASE u # t
        BY <2>1, <3>1, <3>2 DEF ToCome
      <3>3. CASE u = t
        <4>1. p.seq \in Nat /\ q.seq \in Nat /\ p.seq <= Last(p.msg) /\ q.seq <= p.seq
              /\ p.msg = q.msg /\ Last(p.msg) \in Nat
          BY <2>1, <2>2, <3>1, <3>3, PostedSize DEF Real, Chunk
        <4>2. CASE q.seq = p.seq
          <5>1. p = q
            BY <2>1, <4>1, <4>2 DEF Chunk
          <5>. QED  BY <1>3, <5>1, Moves
        <4>3. CASE q.seq # p.seq
          <5>1. q.seq < Last(q.msg) /\ q.seq + 1 <= p.seq
            BY <4>1, <4>3
          <5>2. posting'[t] = [msg |-> q.msg, seq |-> q.seq + 1]
            BY <2>1, <5>1
          <5>3. posting'[t] # Null
            <6>1. [msg |-> q.msg, seq |-> q.seq + 1] \in Chunk
              BY <2>1, <4>1 DEF Chunk
            <6>. QED  BY <5>2, <6>1, ByeIsNoChunk
          <5>4. posting'[t].msg = p.msg /\ posting'[t].seq <= p.seq
            BY <4>1, <5>1, <5>2
          <5>. QED  BY <5>3, <5>4 DEF ToCome
        <4>. QED  BY <4>2, <4>3
      <3>. QED  BY <3>2, <3>3
    <2>3. Posted' = Posted
      BY <2>1 DEF Posted
    <2>. QED  BY <1>1, <1>3, <2>1, <2>2, <2>3, Moves
  <1>4. ASSUME NEW t \in Posters, Refuses(t) PROVE Somewhere'
    <2>1. /\ UNCHANGED <<size, queue, popped, inFlight, taken>>
          /\ lost' = lost \union {posting[t].msg}
          /\ \A u \in Posters : u # t => posting'[u] = posting[u]
      BY <1>4 DEF Refuses, TypeOK
    <2>2. ASSUME NEW p \in Chunk, p.msg \notin lost', ToCome(p) PROVE ToCome(p)'
      BY <2>1, <2>2 DEF ToCome
    <2>. QED  BY <1>1, <2>1, <2>2 DEF Posted, Queued, Sent, Taken
  <1>5. ASSUME Drops PROVE Somewhere'
    <2>1. /\ UNCHANGED <<size, posting, queue, inFlight, taken>>
          /\ lost' = lost \union {popped.msg}
      BY <1>5 DEF Drops
    <2>. QED  BY <1>1, <2>1 DEF Posted, ToCome, Queued, Sent, Taken
  <1>6. ASSUME Idles \/ Pops \/ Sends \/ Retries \/ Clears \/ Replaces \/ TakesBye
               \/ \E m \in Posted : \E s \in 0..Last(m) : Takes(m, s)
        PROVE  Somewhere'
    <2>1. UNCHANGED <<size, posting>> /\ lost \subseteq lost' /\ Null \notin Chunk
      BY <1>6, ByeIsNoChunk
         DEF Idles, way, Pops, Sends, Retries, Clears, Replaces, TakesBye, Takes
    <2>2. ASSUME NEW p \in Chunk, p.msg \notin lost', Here(p) PROVE HereNext(p)
      <3>1. ToCome(p) => ToCome(p)'
        BY <2>1 DEF ToCome
      <3>2. p.msg # 0
        BY DEF Chunk, Msg
      <3>3. Queued(p) => p.msg \in MsgsOf(queue)
        BY <3>2, ByeIsNoChunk DEF Queued, MsgsOf
      <3>4. Sent(p) => p.msg \in MsgsOf(inFlight)
        <4>1. inFlight # <<>> => 1 \in 1..Len(inFlight)
          BY DEF TypeOK
        <4>. QED  BY <3>2, <4>1, ByeIsNoChunk DEF Sent, MsgsOf
      <3>5. CASE Idles
        BY <2>2, <3>1, <3>5, Moves DEF Idles, way
      <3>6. CASE Pops
        BY <2>1, <2>2, <3>1, <3>6, Moves DEF Pops
      <3>7. CASE Sends
        BY <2>2, <3>1, <3>4, <3>7, Moves DEF Sends
      <3>8. CASE Retries
        BY <2>2, <3>1, <3>8, Moves DEF Retries
      <3>9. CASE Clears
        BY <2>2, <3>1, <3>3, <3>9, Moves DEF Clears
      <3>10. CASE Replaces
        BY <2>2, <3>1, <3>4, <3>10, Moves DEF Replaces
      <3>11. CASE TakesBye
        BY <2>2, <3>1, <3>11, Moves DEF TakesBye
      <3>12. ASSUME NEW m \in Posted, NEW s \in 0..Last(m), Takes(m, s) PROVE HereNext(p)
        BY <2>2, <3>1, <3>12, Moves DEF Takes
      <3>. QED  BY <1>6, <3>5, <3>6, <3>7, <3>8, <3>9, <3>10, <3>11, <3>12
    <2>. QED  BY <1>1, <2>1, <2>2 DEF Posted
  <1>. QED  BY <1>2, <1>3, <1>4, <1>5, <1>6 DEF StepCase

WayInv == TypeOK /\ Known /\ Ahead /\ Single /\ Somewhere

LEMMA WayInit ==
  ASSUME Init
  PROVE  WayInv
  <1>1. TypeOK /\ Known
    BY TypeInit
  <1>2. /\ size = <<>> /\ queue = <<>> /\ inFlight = <<>> /\ taken = <<>> /\ popped = Null
        /\ posting = [t \in Posters |-> Null]
    BY DEF Init, Handoff!Init
  <1>. QED  BY <1>1, <1>2 DEF WayInv, Ahead, Single, Somewhere, Posted

LEMMA WayStep ==
  ASSUME WayInv, [Next]_vars
  PROVE  WayInv'
  <1>1. StepCase /\ TypeOK' /\ Known'
    BY StepCases, TypeStep DEF WayInv
  <1>. QED  BY <1>1, AheadStep, SingleStep, SomewhereStep DEF WayInv

LEMMA OnePlace ==
  ASSUME WayInv
  PROVE  NoChunkForgotten
  <1> SUFFICES ASSUME NEW m \in Posted \ lost, NEW p \in Chunks(m)
               PROVE  \E place \in Places(p) : Places(p) = {place}
    BY DEF NoChunkForgotten
  <1> USE DEF WayInv
  <1> DEFINE Posting == {"post"} \X {t \in Posters : posting[t] # Null /\ posting[t].msg = p.msg
                                                     /\ posting[t].seq <= p.seq}
             InHand == IF popped = p THEN {<<"send_loop", 1>>} ELSE {}
  <1>1. p \in Chunk /\ p # Null /\ p # Bye
    BY ChunksAreReal, ByeIsNoChunk
  <1>2. ToCome(p) \/ Queued(p) \/ popped = p \/ Sent(p) \/ Taken(p)
    BY DEF Somewhere
  <1>3. ToCome(p) => ~Queued(p) /\ popped # p /\ ~Sent(p) /\ ~Taken(p)
    <2>1. p.seq \in Nat /\ \A t \in Posters : posting[t] # Null => posting[t].seq \in Nat
      BY <1>1 DEF TypeOK, Chunk
    <2>. QED  BY <1>1, <2>1 DEF ToCome, Ahead
  <1>4. /\ popped = p => ~Queued(p) /\ ~Sent(p) /\ ~Taken(p)
        /\ Sent(p) => ~Queued(p) /\ ~Taken(p)
        /\ Queued(p) => ~Taken(p)
    BY <1>1 DEF Single, Queued, Sent
  <1>5. /\ ~ToCome(p) => Posting = {}
        /\ ~Queued(p) => At("queue", queue, p) = {}
        /\ popped # p => InHand = {}
        /\ ~Taken(p) => At("taken", taken, p) = {}
    BY DEF ToCome, Queued, Taken, At
  <1>6. ~Sent(p) => At("segment", inFlight, p) = {}
    <2>1. inFlight = <<>> \/ 1..Len(inFlight) = {1}
      BY DEF TypeOK
    <2>. QED  BY <2>1 DEF Sent, At
  <1>7. Places(p) = Posting \union At("queue", queue, p) \union InHand
                    \union At("segment", inFlight, p) \union At("taken", taken, p)
    BY DEF Places
  <1>8. CASE ToCome(p)
    <2>1. PICK t \in Posters : posting[t] # Null /\ posting[t].msg = p.msg /\ posting[t].seq <= p.seq
      BY <1>8 DEF ToCome
    <2>2. Posting = {<<"post", t>>}
      BY <2>1 DEF Ahead
    <2> HIDE DEF Posting, InHand
    <2>. QED  BY <1>3, <1>5, <1>6, <1>7, <1>8, <2>2
  <1>9. CASE Queued(p)
    <2>1. PICK i \in 1..Len(queue) : queue[i] = p
      BY <1>9 DEF Queued
    <2>2. At("queue", queue, p) = {<<"queue", i>>}
      BY <2>1 DEF Single, At
    <2> HIDE DEF Posting, InHand
    <2>. QED  BY <1>3, <1>4, <1>5, <1>6, <1>7, <1>9, <2>2
  <1>10. CASE popped = p
    <2>2. InHand = {<<"send_loop", 1>>}
      BY <1>10
    <2> HIDE DEF Posting, InHand
    <2>. QED  BY <1>3, <1>4, <1>5, <1>6, <1>7, <1>10, <2>2
  <1>11. CASE Sent(p)
    <2>1. 1..Len(inFlight) = {1}
      BY <1>11 DEF Sent, TypeOK
    <2>2. At("segment", inFlight, p) = {<<"segment", 1>>}
      BY <1>11, <2>1 DEF Sent, At
    <2> HIDE DEF Posting, InHand
    <2>. QED  BY <1>3, <1>4, <1>5, <1>6, <1>7, <1>11, <2>2
  <1>12. CASE Taken(p)
    <2>1. PICK i \in 1..Len(taken) : taken[i] = p
      BY <1>12 DEF Taken
    <2>2. At("taken", taken, p) = {<<"taken", i>>}
      BY <1>1, <2>1 DEF Single, At
    <2> HIDE DEF Posting, InHand
    <2>. QED  BY <1>3, <1>4, <1>5, <1>6, <1>7, <1>12, <2>2
  <1>. QED  BY <1>2, <1>8, <1>9, <1>10, <1>11, <1>12

(* Retries, pushes of several posters, lost sessions: a chunk of a message *)
(* that is not known as lost is in exactly one place.                      *)
THEOREM EveryChunkInOnePlace == Spec => []NoChunkForgotten
  <1>1. Init => WayInv
    BY WayInit
  <1>2. WayInv /\ [Next]_vars => WayInv'
    BY WayStep
  <1>3. WayInv => NoChunkForgotten
    BY OnePlace
  <1>. QED  BY <1>1, <1>2, <1>3, PTL DEF Spec

-----------------------------------------------------------------------------
(***************************************************************************)
(* The receiver: what the callback gets.                                   *)
(***************************************************************************)

(* A chunk that is received is the one in the segment, and new.            *)
LEMMA Arrival ==
  ASSUME WayInv, NEW m \in Posted, NEW s \in 0..Last(m), Takes(m, s)
  PROVE  /\ [msg |-> m, seq |-> s] \in Chunk
         /\ Sent([msg |-> m, seq |-> s])
         /\ ~Taken([msg |-> m, seq |-> s])
  <1> DEFINE q == [msg |-> m, seq |-> s]
  <1>1. m \in Msg /\ s \in Nat
    BY PostedIsMsg DEF WayInv
  <1>2. q \in Chunk
    BY <1>1 DEF Chunk
  <1>3. inFlight # <<>> /\ inFlight[1] = q
    BY Zenon DEF Takes, Received
  <1>4. q # Bye
    BY <1>2, ByeIsNoChunk
  <1> HIDE DEF q
  <1>5. Sent(q) /\ ~Taken(q)
    BY <1>3, <1>4 DEF Sent, Single, WayInv
  <1>. QED  BY <1>2, <1>5 DEF q

(* The messages delivered are messages whose last chunk was received.      *)
Once ==
  /\ \A i \in 1..Len(delivered) : /\ delivered[i].msg \in Posted
                                  /\ Taken(LastChunk(delivered[i].msg))
  /\ DeliveredOnce

LEMMA TakenStays ==
  ASSUME TypeOK, Known, StepCase, NEW p \in Chunk, Taken(p)
  PROVE  Taken(p)'
  <1>1. CASE UNCHANGED taken
    BY <1>1 DEF Taken
  <1>2. CASE TakesBye \/ \E m \in Posted : \E s \in 0..Last(m) : Takes(m, s)
    BY <1>2, Moves
  <1>. QED
    BY <1>1, <1>2 DEF StepCase, Idles, way, Posts, Pushes, Refuses, Pops, Sends, Drops,
                      Retries, Clears, Replaces

LEMMA LastIsChunk ==
  ASSUME TypeOK, Known, NEW m \in Posted
  PROVE  LastChunk(m) \in Chunk /\ LastChunk(m) \in Chunks(m)
  <1>1. m \in Msg /\ Last(m) \in Nat
    BY PostedIsMsg
  <1>. QED  BY <1>1 DEF LastChunk, Chunk, Chunks

LEMMA DeliveredKeeps ==
  ASSUME StepCase, ~ \E m \in Posted : \E s \in 0..Last(m) : Takes(m, s)
  PROVE  UNCHANGED <<entries, delivered>>
  BY DEF StepCase, Idles, way, Posts, Pushes, Refuses, Pops, Sends, Drops,
         Retries, Clears, Replaces, TakesBye

LEMMA OnceStep ==
  ASSUME WayInv, Once, StepCase
  PROVE  Once'
  <1> USE DEF WayInv
  <1>1. ASSUME NEW i \in 1..Len(delivered)
        PROVE  /\ delivered[i].msg \in Posted'
               /\ Taken(LastChunk(delivered[i].msg))
               /\ \A m \in Posted : m = delivered[i].msg => Taken(LastChunk(m))'
    <2>1. ASSUME NEW m \in Posted, Taken(LastChunk(m)) PROVE Taken(LastChunk(m))'
      <3> DEFINE p == [msg |-> m, seq |-> Last(m)]
      <3>1. LastChunk(m)' = LastChunk(m)
        BY ChunksStay DEF LastChunk
      <3>2. LastChunk(m) \in Chunk
        BY LastIsChunk
      <3>3. \A q \in Chunk : Taken(q) => Taken(q)'
        BY TakenStays
      <3>. QED  BY <2>1, <3>1, <3>2, <3>3 DEF Taken
    <2>. QED  BY <2>1, PostedGrows DEF Once
  <1>2. ASSUME UNCHANGED delivered PROVE Once'
    <2>1. \A i \in 1..Len(delivered) : delivered[i].msg \in Posted
      BY DEF Once
    <2>. QED  BY <1>1, <1>2, <2>1 DEF Once, DeliveredOnce
  <1>3. ASSUME NEW m \in Posted, NEW s \in 0..Last(m), Takes(m, s), delivered' # delivered
        PROVE  Once'
    <2>1. s = Last(m) /\ \E d : d.msg = m /\ delivered' = Append(delivered, d)
      <3>1. delivered' = Append(delivered, [msg |-> m, data |-> IF HasEntry(m, s)
                                                    THEN Grown(m, s).first ELSE Null])
            /\ s = Last(m)
        BY <1>3 DEF Takes, Received
      <3>. QED  BY <3>1
    <2>2. delivered \in Seq([msg : Msg, data : (SUBSET Nat) \union {Null}])
      BY DEF TypeOK
    <2>3. /\ Len(delivered') = Len(delivered) + 1 /\ Len(delivered) \in Nat
          /\ delivered'[Len(delivered) + 1].msg = m
          /\ \A i \in 1..Len(delivered) : delivered'[i] = delivered[i]
      BY <2>1, <2>2
    <2>4. LastChunk(m) = [msg |-> m, seq |-> s] /\ LastChunk(m)' = LastChunk(m)
      BY <2>1, ChunksStay DEF LastChunk
    <2>5. Taken(LastChunk(m))'
      <3>1. \A p \in Chunk : Sent(p) => Taken(p)'
        BY <1>3, Moves
      <3>2. LastChunk(m) \in Chunk /\ Sent(LastChunk(m))
        BY <1>3, <2>4, Arrival
      <3>. QED  BY <3>1, <3>2, <2>4 DEF Taken
    <2>6. \A i \in 1..Len(delivered) : delivered[i].msg # m
      BY <1>3, <2>4, Arrival DEF Once
    <2>7. \A i \in 1..Len(delivered') : /\ delivered'[i].msg \in Posted'
                                       /\ Taken(LastChunk(delivered[i].msg))'
      <3>1. \A i \in 1..Len(delivered) : /\ delivered'[i].msg \in Posted'
                                         /\ Taken(LastChunk(delivered[i].msg))'
        <4>1. \A i \in 1..Len(delivered) : delivered[i].msg \in Posted
          BY DEF Once
        <4>. QED  BY <1>1, <2>3, <4>1
      <3>2. m \in Posted'
        BY PostedGrows
      <3>. QED  BY <2>3, <2>5, <3>1, <3>2
    <2>8. DeliveredOnce'
      BY <2>3, <2>6 DEF Once, DeliveredOnce
    <2>. QED  BY <2>7, <2>8 DEF Once
  <1>. QED  BY <1>2, <1>3, DeliveredKeeps

(* Every message has its own key, also after the next step.                *)
LEMMA NextKey ==
  ASSUME TypeOK', NEW m \in Posted'
  PROVE  Key(m)' = Number(m)
  BY NumberOnTheWire DEF TypeOK, Posted, Key, HeaderOf

(* An entry of recv_msg_map_ has a buffer for its message, and counts the  *)
(* bytes of the chunks it has, which were received before the last one.    *)
Counted(m, e) ==
  /\ size[m] # 0 /\ e.len = size[m]
  /\ e.first \subseteq 0..(Last(m) - 1)
  /\ e.second = Cardinality(e.first) * Cap
  /\ \A s \in e.first : Taken([msg |-> m, seq |-> s])

Whole ==
  /\ \A k \in DOMAIN entries : \E m \in Posted : k = Key(m)
  /\ \A m \in Posted : Key(m) \in DOMAIN entries => Counted(m, entries[Key(m)])
  /\ WholeMessages

LEMMA CountedStays ==
  ASSUME WayInv, StepCase, NEW m \in Posted, NEW e, Counted(m, e)
  PROVE  Counted(m, e)'
  <1> USE DEF WayInv
  <1>1. size'[m] = size[m] /\ Last(m)' = Last(m)
    BY ChunksStay
  <1>2. ASSUME NEW s \in e.first PROVE Taken([msg |-> m, seq |-> s])'
    <2>1. m \in Msg /\ s \in Nat
      BY <1>2, PostedIsMsg DEF Counted
    <2>2. [msg |-> m, seq |-> s] \in Chunk /\ Taken([msg |-> m, seq |-> s])
      BY <1>2, <2>1 DEF Counted, Chunk
    <2>. QED  BY <2>2, TakenStays
  <1>. QED  BY <1>1, <1>2 DEF Counted

(* The entry a new chunk leads to.                                         *)
LEMMA GrownCounted ==
  ASSUME WayInv, Whole, NEW m \in Posted, NEW s \in 0..Last(m), Takes(m, s), HasEntry(m, s)
  PROVE  /\ size[m] # 0
         /\ \E first \in SUBSET (0..(Last(m) - 1)) :
              /\ s \notin first
              /\ \A r \in first : Taken([msg |-> m, seq |-> r])
              /\ Grown(m, s).first = first \union {s}
              /\ Grown(m, s).second = Cardinality(first) * Cap + ChunkSize(size[m], s)
              /\ Grown(m, s).len = size[m]
  <1> DEFINE new == s = 0 /\ size[m] # 0
             e == IF new THEN [second |-> 0, first |-> {}, len |-> size[m]]
                  ELSE entries[Key(m)]
  <1>1. Counted(m, e)
    <2>1. CASE new
      <3>1. e = [second |-> 0, first |-> {}, len |-> size[m]]
        BY <2>1
      <3>2. e.first = {} /\ e.second = 0 /\ e.len = size[m]
        BY <3>1
      <3>3. Cardinality({}) = 0 /\ Cap \in Nat /\ 0 * Cap = 0
        BY FS_EmptySet, SizeAssumption
      <3>4. size[m] # 0
        BY <2>1
      <3>. QED  BY <3>2, <3>3, <3>4 DEF Counted
    <2>2. CASE ~new
      BY <2>2 DEF HasEntry, Whole
    <2>. QED  BY <2>1, <2>2
  <1>2. Grown(m, s) = [second |-> e.second + ChunkSize(size[m], s), first |-> e.first \union {s},
                       len |-> e.len]
    BY DEF Grown
  <1>3. s \notin e.first
    BY <1>1, Arrival DEF Counted
  <1> HIDE DEF e
  <1>. QED  BY <1>1, <1>2, <1>3 DEF Counted

LEMMA Interval ==
  ASSUME NEW n \in Nat
  PROVE  IsFiniteSet(0..(n - 1)) /\ Cardinality(0..(n - 1)) = n
  <1> DEFINE b == n - 1
  <1>1. b \in Int /\ (IF 0 > b THEN 0 ELSE b - 0 + 1) = n /\ 0 \in Int
    OBVIOUS
  <1> HIDE DEF b
  <1>2. IsFiniteSet(0..b) /\ Cardinality(0..b) = IF 0 > b THEN 0 ELSE b - 0 + 1
    BY <1>1, FS_Interval
  <1>. QED  BY <1>1, <1>2 DEF b

LEMMA WholeStep ==
  ASSUME WayInv, WayInv', Once, Whole, StepCase
  PROVE  Whole'
  <1> USE DEF WayInv
  <1>1. \A m \in Posted : /\ m \in Posted' /\ Key(m) = Number(m) /\ Last(m)' = Last(m)
                          /\ \A e : Counted(m, e) => Counted(m, e)'
    BY PostedGrows, KeyIsNumber, ChunksStay, CountedStays
  <1>2. \A m \in Posted' : Key(m)' = Number(m)
    BY NextKey
  <1>3. \A m, n \in Posted' : Number(m) = Number(n) => m = n
    <2>1. Posted' \subseteq Msg
      BY SizeAssumption DEF Posted, TypeOK, Known, Msg
    <2>. QED  BY <2>1, NumberInjective
  <1>4. /\ \A k \in DOMAIN entries : \E m \in Posted : k = Number(m)
        /\ \A m \in Posted : Number(m) \in DOMAIN entries => Counted(m, entries[Number(m)])
    BY <1>1 DEF Whole
  <1>5. SUFFICES
          /\ \A k \in DOMAIN entries' : \E m \in Posted : k = Number(m)
          /\ \A m \in Posted : Number(m) \in DOMAIN entries' => Counted(m, entries[Number(m)])'
          /\ WholeMessages'
    <2>1. \A k \in DOMAIN entries' : \E m \in Posted' : k = Key(m)'
      BY <1>1, <1>2, <1>5
    <2>2. ASSUME NEW m \in Posted', Key(m)' \in DOMAIN entries' PROVE Counted(m, entries[Key(m)])'
      <3>1. m \in Posted
        BY <1>1, <1>2, <1>3, <1>5, <2>2
      <3>. QED  BY <1>2, <1>5, <2>2, <3>1
    <2>. QED  BY <1>5, <2>1, <2>2 DEF Whole
  <1>6. \A i \in 1..Len(delivered) : delivered[i].data # Null =>
          \E m \in Posted : m = delivered[i].msg /\ delivered[i].data = 0..(Last(m)')
    <2>1. \A i \in 1..Len(delivered) : delivered[i].msg \in Posted
      BY DEF Once
    <2>. QED  BY <1>1, <2>1 DEF Whole, WholeMessages
  <1>7. ASSUME ~ \E m \in Posted : \E s \in 0..Last(m) : Takes(m, s)
        PROVE  /\ \A k \in DOMAIN entries' : \E m \in Posted : k = Number(m)
               /\ \A m \in Posted : Number(m) \in DOMAIN entries' => Counted(m, entries[Number(m)])'
               /\ WholeMessages'
    <2>1. entries' = entries /\ delivered' = delivered
      BY <1>7, DeliveredKeeps
    <2>2. \A i \in 1..Len(delivered) : delivered[i].data # Null =>
            delivered[i].data = 0..Last(delivered[i].msg)'
      BY <1>6, <2>1
    <2>. QED  BY <1>1, <1>4, <2>1, <2>2 DEF WholeMessages, Counted
  <1>8. ASSUME NEW m \in Posted, NEW s \in 0..Last(m), Takes(m, s)
        PROVE  /\ \A k \in DOMAIN entries' : \E n \in Posted : k = Number(n)
               /\ \A n \in Posted : Number(n) \in DOMAIN entries' => Counted(n, entries[Number(n)])'
               /\ WholeMessages'
    <2>1. /\ DOMAIN entries' = IF s = Last(m) THEN DOMAIN entries \ {Number(m)}
                               ELSE IF HasEntry(m, s) THEN DOMAIN entries \union {Number(m)}
                               ELSE DOMAIN entries
          /\ \A k \in DOMAIN entries' :
               entries'[k] = IF k = Number(m) THEN Grown(m, s) ELSE entries[k]
          /\ delivered' = IF s # Last(m) \/ (HasEntry(m, s) /\ Grown(m, s).second # size[m])
                          THEN delivered
                          ELSE Append(delivered, [msg |-> m, data |-> IF HasEntry(m, s)
                                                            THEN Grown(m, s).first ELSE Null])
      BY <1>1, <1>8 DEF Takes, Received
    <2>2. HasEntry(m, s) <=> Number(m) \in DOMAIN entries \/ (s = 0 /\ size[m] # 0)
      BY <1>1 DEF HasEntry
    <2>3. ASSUME NEW n \in Posted, Number(n) \in DOMAIN entries'
          PROVE  Counted(n, entries[Number(n)])'
      <3>1. CASE n # m
        <4>1. Number(n) # Number(m)
          BY <1>1, <1>3, <3>1
        <4>2. Number(n) \in DOMAIN entries /\ entries'[Number(n)] = entries[Number(n)]
          BY <2>1, <2>3, <4>1
        <4>3. \A e : Counted(n, e) => Counted(n, e)'
          BY <1>1
        <4>. QED  BY <1>4, <4>2, <4>3 DEF Counted
      <3>2. CASE n = m
        <4>1. s # Last(m) /\ HasEntry(m, s) /\ entries'[Number(m)] = Grown(m, s)
          BY <2>1, <2>2, <2>3, <3>2
        <4>2. PICK first \in SUBSET (0..(Last(m) - 1)) :
                /\ s \notin first
                /\ \A r \in first : Taken([msg |-> m, seq |-> r])
                /\ Grown(m, s).first = first \union {s}
                /\ Grown(m, s).second = Cardinality(first) * Cap + ChunkSize(size[m], s)
                /\ Grown(m, s).len = size[m] /\ size[m] # 0
          BY <1>8, <4>1, GrownCounted
        <4>3. Last(m) \in Nat /\ s \in Nat /\ s + 1 < ChunkTotalCount(size[m]) /\ size[m] \in Sizes
          BY <4>1, PostedSize
        <4>4. ChunkSize(size[m], s) = Cap
          <5>1. ChunkTotalCount(size[m]) \in Nat
            BY <4>3, Counts
          <5>2. s < ChunkTotalCount(size[m])
            BY <4>3, <5>1
          <5>. QED  BY <4>3, <5>2, ChunkSizes
        <4>5. IsFiniteSet(first)
          BY <4>2, <4>3, Interval, FS_Subset
        <4>6. Cardinality(first \union {s}) = Cardinality(first) + 1 /\ Cardinality(first) \in Nat
          BY <4>2, <4>5, FS_AddElement, FS_CardinalityType
        <4>7. (Cardinality(first) + 1) * Cap = Cardinality(first) * Cap + Cap
          BY <4>6, SizeAssumption
        <4>8. Grown(m, s).second = Cardinality(Grown(m, s).first) * Cap
          BY <4>2, <4>4, <4>6, <4>7
        <4>9. \A r \in first \union {s} : Taken([msg |-> m, seq |-> r])'
          <5>1. \A p \in Chunk : Taken(p) \/ Sent(p) => Taken(p)'
            BY <1>8, Moves
          <5>2. [msg |-> m, seq |-> s] \in Chunk /\ Sent([msg |-> m, seq |-> s])
            BY <1>8, Arrival
          <5>3. \A r \in first : [msg |-> m, seq |-> r] \in Chunk
            BY <5>2, <4>3 DEF Chunk
          <5>. QED  BY <4>2, <5>1, <5>2, <5>3
        <4>10. first \union {s} \subseteq 0..(Last(m) - 1)
          BY <4>1, <4>2, <4>3
        <4>11. Last(m)' = Last(m) /\ size'[m] = size[m]
          BY ChunksStay
        <4>. QED  BY <3>2, <4>1, <4>2, <4>8, <4>9, <4>10, <4>11 DEF Counted
      <3>. QED  BY <3>1, <3>2
    <2>4. WholeMessages'
      <3>1. CASE delivered' = delivered
        BY <1>6, <3>1 DEF WholeMessages
      <3>2. CASE delivered' # delivered
        <4> DEFINE d == [msg |-> m, data |-> IF HasEntry(m, s) THEN Grown(m, s).first ELSE Null]
        <4>1. delivered' = Append(delivered, d) /\ s = Last(m)
              /\ (HasEntry(m, s) => Grown(m, s).second = size[m])
          BY <2>1, <3>2
        <4>2. d.data # Null => d.data = 0..Last(m)
          <5> SUFFICES ASSUME HasEntry(m, s) PROVE Grown(m, s).first = 0..Last(m)
            OBVIOUS
          <5>1. PICK first \in SUBSET (0..(Last(m) - 1)) :
                  /\ Grown(m, s).first = first \union {s}
                  /\ Grown(m, s).second = Cardinality(first) * Cap + ChunkSize(size[m], s)
            BY <1>8, GrownCounted
          <5>2. Last(m) \in Nat /\ s + 1 = ChunkTotalCount(size[m]) /\ size[m] \in Sizes
                /\ size[m] \in Nat
            BY <4>1, PostedSize, Counts
          <5>3. ChunkSize(size[m], s) = size[m] - s * Cap
            BY <4>1, <5>2, ChunkSizes
          <5>4. IsFiniteSet(0..(Last(m) - 1)) /\ Cardinality(0..(Last(m) - 1)) = Last(m)
            BY <5>2, Interval
          <5>5. IsFiniteSet(first) /\ Cardinality(first) \in Nat
            BY <5>4, FS_Subset, FS_CardinalityType
          <5>6. Cardinality(first) * Cap = Last(m) * Cap
            <6> DEFINE c == Cardinality(first)
            <6>1. c * Cap \in Int /\ Last(m) * Cap \in Int
              BY <5>2, <5>5, SizeAssumption
            <6>2. size[m] = c * Cap + (size[m] - Last(m) * Cap)
              BY <4>1, <5>1, <5>3
            <6> HIDE DEF c
            <6>. QED  BY <5>2, <6>1, <6>2 DEF c
          <5>7. Cardinality(first) = Last(m)
            <6> DEFINE c == Cardinality(first)  l == Last(m)
            <6>1. c \in Nat /\ l \in Nat /\ Cap \in Nat \ {0} /\ c * Cap = l * Cap
              BY <5>2, <5>5, <5>6, SizeAssumption
            <6> HIDE DEF c, l
            <6>2. c = l
              BY <6>1
            <6>. QED  BY <6>2 DEF c, l
          <5>8. first = 0..(Last(m) - 1)
            BY <5>4, <5>7, FS_Subset
          <5>. QED  BY <4>1, <5>1, <5>2, <5>8
        <4>3. delivered \in Seq([msg : Msg, data : (SUBSET Nat) \union {Null}])
          BY DEF TypeOK
        <4>4. /\ Len(delivered') = Len(delivered) + 1 /\ Len(delivered) \in Nat
              /\ delivered'[Len(delivered) + 1] = d
              /\ \A i \in 1..Len(delivered) : delivered'[i] = delivered[i]
          <5> HIDE DEF d
          <5>. QED  BY <4>1, <4>3
        <4>5. d.msg = m /\ Last(m)' = Last(m)
          BY ChunksStay
        <4> HIDE DEF d
        <4>6. ASSUME NEW i \in 1..Len(delivered'), delivered'[i].data # Null
              PROVE  delivered'[i].data = 0..Last(delivered[i].msg)'
          <5>1. CASE i = Len(delivered) + 1
            BY <4>2, <4>4, <4>5, <4>6, <5>1
          <5>2. CASE i # Len(delivered) + 1
            <6>1. i \in 1..Len(delivered)
              BY <4>4, <5>2
            <6>. QED  BY <1>6, <4>4, <4>6, <6>1
          <5>. QED  BY <5>1, <5>2
        <4>. QED  BY <4>6 DEF WholeMessages
      <3>. QED  BY <3>1, <3>2
    <2>5. \A k \in DOMAIN entries' : \E n \in Posted : k = Number(n)
      BY <1>4, <2>1
    <2>. QED  BY <2>3, <2>4, <2>5
  <1>. QED  BY <1>7, <1>8

RecvInv == WayInv /\ Once /\ Whole

LEMMA RecvInit ==
  ASSUME Init
  PROVE  RecvInv
  <1>1. delivered = <<>> /\ entries = <<>> /\ size = <<>>
    BY DEF Init
  <1>2. Once /\ Whole
    BY <1>1 DEF Once, DeliveredOnce, Whole, WholeMessages, Posted
  <1>. QED  BY <1>2, WayInit DEF RecvInv

LEMMA RecvStep ==
  ASSUME RecvInv, [Next]_vars
  PROVE  RecvInv'
  <1>1. WayInv' /\ StepCase
    BY WayStep, StepCases DEF RecvInv, WayInv
  <1>. QED  BY <1>1, OnceStep, WholeStep DEF RecvInv

(* No sequence of retries, losses and new sessions makes the receiver      *)
(* hand a message to the callback a second time.                           *)
THEOREM NoMessageTwice == Spec => []DeliveredOnce
  <1>1. Init => RecvInv
    BY RecvInit
  <1>2. RecvInv /\ [Next]_vars => RecvInv'
    BY RecvStep
  <1>3. RecvInv => DeliveredOnce
    BY DEF RecvInv, Once
  <1>. QED  BY <1>1, <1>2, <1>3, PTL DEF Spec

(* ... nor one with a hole: counting bytes is enough to know that every    *)
(* chunk is in place, since no chunk comes twice.                          *)
THEOREM NoMessageWithHoles == Spec => []WholeMessages
  <1>1. Init => RecvInv
    BY RecvInit
  <1>2. RecvInv /\ [Next]_vars => RecvInv'
    BY RecvStep
  <1>3. RecvInv => WholeMessages
    BY DEF RecvInv, Whole
  <1>. QED  BY <1>1, <1>2, <1>3, PTL DEF Spec

-----------------------------------------------------------------------------
(***************************************************************************)
(* Messages that nothing disturbed.                                        *)
(***************************************************************************)

(* Their chunks are on their way in order: those that have come further    *)
(* are the earlier ones.                                                   *)
Follow(p, q) ==
  /\ Taken(q) /\ (Sent(p) \/ popped = p \/ Queued(p)) => q.seq < p.seq
  /\ Sent(q) /\ (popped = p \/ Queued(p)) => q.seq < p.seq
  /\ popped = q /\ Queued(p) => q.seq < p.seq

QueueInOrder ==
  \A i, j \in 1..Len(queue) :
    i < j /\ queue[i].msg = queue[j].msg /\ queue[i].msg \notin Disturbed
      => queue[i].seq < queue[j].seq

InOrder ==
  /\ \A p, q \in Chunk : p.msg = q.msg /\ p.msg \notin Disturbed => Follow(p, q)
  /\ QueueInOrder

LEMMA DisturbedGrows ==
  ASSUME StepCase
  PROVE  Disturbed \subseteq Disturbed'
  BY DEF StepCase, Idles, Posts, Pushes, Refuses, Pops, Sends, Drops, Retries, Clears,
         Replaces, TakesBye, Takes, Disturbed

LEMMA InOrderStep ==
  ASSUME WayInv, WayInv', InOrder, StepCase
  PROVE  InOrder'
  <1> USE DEF WayInv
  <1>1. /\ Disturbed \subseteq Disturbed' /\ Null \notin Chunk
        /\ queue \in Seq(Chunk) /\ popped \in Chunk \union {Null}
    BY DisturbedGrows, ByeIsNoChunk DEF TypeOK
  <1>2. ASSUME NEW t \in Posters, Pushes(t) PROVE InOrder'
    <2>1. /\ posting[t] \in Chunk /\ posting[t] # Null
          /\ queue' = Append(queue, posting[t]) /\ popped' = popped
      BY <1>2 DEF Pushes, TypeOK
    <2>2. \A p \in Chunk : p.msg = posting[t].msg /\ (Queued(p) \/ popped = p \/ Sent(p) \/ Taken(p))
            => p.seq < posting[t].seq
      BY <2>1 DEF Ahead
    <2>3. \A p, q \in Chunk : p.msg = q.msg /\ p.msg \notin Disturbed' => Follow(p, q)'
      BY <1>1, <1>2, <2>1, <2>2, Moves DEF InOrder, Follow
    <2>4. QueueInOrder'
      <3>1. Len(queue') = Len(queue) + 1 /\ Len(queue) \in Nat
            /\ queue'[Len(queue) + 1] = posting[t]
            /\ \A i \in 1..Len(queue) : queue'[i] = queue[i] /\ queue[i] \in Chunk
        BY <1>1, <2>1
      <3>2. \A i \in 1..Len(queue) : queue[i].msg = posting[t].msg => queue[i].seq < posting[t].seq
        BY <2>2, <3>1 DEF Queued
      <3> SUFFICES ASSUME NEW i \in 1..Len(queue'), NEW j \in 1..Len(queue'), i < j,
                          queue'[i].msg = queue'[j].msg, queue'[i].msg \notin Disturbed'
                   PROVE  queue'[i].seq < queue'[j].seq
        BY DEF QueueInOrder
      <3>3. i \in 1..Len(queue)
        BY <3>1
      <3>4. CASE j = Len(queue) + 1
        BY <3>1, <3>2, <3>3, <3>4
      <3>5. CASE j # Len(queue) + 1
        <4>1. j \in 1..Len(queue)
          BY <3>1, <3>5
        <4>. QED  BY <1>1, <3>1, <3>3, <4>1 DEF InOrder, QueueInOrder
      <3>. QED  BY <3>4, <3>5
    <2>. QED  BY <2>3, <2>4 DEF InOrder
  <1>3. ASSUME Pops PROVE InOrder'
    <2>1. /\ popped = Null
          /\ Len(queue) \in Nat /\ 1 \in 1..Len(queue) /\ popped' = queue[1]
          /\ Len(queue') = Len(queue) - 1
          /\ \A i \in 1..Len(queue') : i + 1 \in 1..Len(queue) /\ queue'[i] = queue[i + 1]
      BY <1>3, TailOfQueue DEF Pops
    <2>2. \A p \in Chunk : Queued(p)' /\ p.msg = popped'.msg /\ p.msg \notin Disturbed'
            => popped'.seq < p.seq
      <3> SUFFICES ASSUME NEW i \in 1..Len(queue'), queue'[i].msg = popped'.msg,
                          queue'[i].msg \notin Disturbed'
                   PROVE  popped'.seq < queue'[i].seq
        BY DEF Queued
      <3>1. i + 1 \in 1..Len(queue) /\ 1 < i + 1 /\ queue'[i] = queue[i + 1]
        BY <2>1
      <3>. QED  BY <1>1, <2>1, <3>1 DEF InOrder, QueueInOrder
    <2>3. \A p, q \in Chunk : p.msg = q.msg /\ p.msg \notin Disturbed' => Follow(p, q)'
      <3>1. \A p \in Chunk : /\ Queued(p)' \/ popped' = p => Queued(p)
                             /\ (Sent(p)' <=> Sent(p)) /\ (Taken(p)' <=> Taken(p))
        BY <1>3, Moves
      <3>. QED  BY <1>1, <2>2, <3>1 DEF InOrder, Follow
    <2>4. QueueInOrder'
      <3> SUFFICES ASSUME NEW i \in 1..Len(queue'), NEW j \in 1..Len(queue'), i < j,
                          queue'[i].msg = queue'[j].msg, queue'[i].msg \notin Disturbed'
                   PROVE  queue'[i].seq < queue'[j].seq
        BY DEF QueueInOrder
      <3>1. i + 1 \in 1..Len(queue) /\ j + 1 \in 1..Len(queue) /\ i + 1 < j + 1
            /\ queue'[i] = queue[i + 1] /\ queue'[j] = queue[j + 1]
        BY <2>1
      <3>. QED  BY <1>1, <3>1 DEF InOrder, QueueInOrder
    <2>. QED  BY <2>3, <2>4 DEF InOrder
  <1>4. ASSUME Retries PROVE InOrder'
    <2>1. /\ popped \in Chunk /\ queue' = Append(queue, popped) /\ popped' = Null
          /\ popped.msg \in Disturbed'
      BY <1>1, <1>4 DEF Retries, Disturbed
    <2>2. \A p, q \in Chunk : p.msg = q.msg /\ p.msg \notin Disturbed' => Follow(p, q)'
      BY <1>1, <1>4, <2>1, Moves DEF InOrder, Follow
    <2>3. QueueInOrder'
      <3>1. Len(queue') = Len(queue) + 1 /\ Len(queue) \in Nat
            /\ queue'[Len(queue) + 1] = popped
            /\ \A i \in 1..Len(queue) : queue'[i] = queue[i]
        BY <1>1, <2>1
      <3> SUFFICES ASSUME NEW i \in 1..Len(queue'), NEW j \in 1..Len(queue'), i < j,
                          queue'[i].msg = queue'[j].msg, queue'[i].msg \notin Disturbed'
                   PROVE  queue'[i].seq < queue'[j].seq
        BY DEF QueueInOrder
      <3>2. j # Len(queue) + 1
        BY <2>1, <3>1
      <3>3. i \in 1..Len(queue) /\ j \in 1..Len(queue)
        BY <3>1, <3>2
      <3>. QED  BY <1>1, <3>1, <3>3 DEF InOrder, QueueInOrder
    <2>. QED  BY <2>2, <2>3 DEF InOrder
  <1>5. ASSUME \/ Idles \/ Sends \/ Drops \/ Clears \/ Replaces \/ TakesBye
               \/ \E t \in Posters : (\E n \in Sizes : Posts(t, n)) \/ Refuses(t)
               \/ \E m \in Posted : \E s \in 0..Last(m) : Takes(m, s)
        PROVE  InOrder'
    <2>1. queue' = queue \/ queue' = <<>>
      BY <1>5 DEF Idles, way, Sends, Drops, Clears, Replaces, TakesBye, Posts, Refuses, Takes
    <2>2. QueueInOrder'
      <3>1. CASE queue' = queue
        BY <1>1, <3>1 DEF InOrder, QueueInOrder
      <3>2. CASE queue' = <<>>
        BY <3>2 DEF QueueInOrder
      <3>. QED  BY <2>1, <3>1, <3>2
    <2>3. CASE Drops \/ \E t \in Posters : (\E n \in Sizes : Posts(t, n)) \/ Refuses(t)
      <3>1. UNCHANGED <<queue, inFlight, taken>> /\ (popped' = popped \/ popped' = Null)
        BY <2>3 DEF Drops, Posts, Refuses
      <3>2. \A p, q \in Chunk : p.msg = q.msg /\ p.msg \notin Disturbed' => Follow(p, q)'
        BY <1>1, <3>1 DEF InOrder, Follow, Queued, Sent, Taken
      <3>. QED  BY <2>2, <3>2 DEF InOrder
    <2>4. CASE Idles \/ Sends \/ Clears \/ Replaces \/ TakesBye
      <3>1. (popped' = popped \/ popped' = Null) /\ (Sends => popped' = Null)
        BY <2>4 DEF Idles, way, Sends, Clears, Replaces, TakesBye
      <3>2. \A p, q \in Chunk : p.msg = q.msg /\ p.msg \notin Disturbed' => Follow(p, q)'
        BY <1>1, <2>4, <3>1, Moves DEF InOrder, Follow
      <3>. QED  BY <2>2, <3>2 DEF InOrder
    <2>5. ASSUME NEW m \in Posted, NEW s \in 0..Last(m), Takes(m, s) PROVE InOrder'
      <3>1. popped' = popped
        BY <2>5 DEF Takes
      <3>2. \A p, q \in Chunk : p.msg = q.msg /\ p.msg \notin Disturbed' => Follow(p, q)'
        BY <1>1, <2>5, <3>1, Moves DEF InOrder, Follow
      <3>. QED  BY <2>2, <3>2 DEF InOrder
    <2>. QED  BY <1>5, <2>3, <2>4, <2>5
  <1>. QED  BY <1>2, <1>3, <1>4, <1>5 DEF StepCase

(* The chunks before one that arrives have arrived, those after it have    *)
(* not.                                                                    *)
LEMMA ArrivesInOrder ==
  ASSUME WayInv, InOrder, NEW m \in Posted \ Disturbed, NEW s \in 0..Last(m), Takes(m, s),
         NEW r \in 0..Last(m)
  PROVE  Taken([msg |-> m, seq |-> r]) <=> r < s
  <1> USE DEF WayInv
  <1> DEFINE p == [msg |-> m, seq |-> r]  q == [msg |-> m, seq |-> s]
  <1>1. p \in Chunk /\ q \in Chunk /\ p \in Chunks(m) /\ Sent(q) /\ ~Taken(q)
        /\ m \notin lost /\ p.msg = m /\ q.msg = m /\ p.seq = r /\ q.seq = s
        /\ r \in Int /\ s \in Int
    <2>1. m \in Msg /\ Last(m) \in Nat
      BY PostedIsMsg
    <2>. QED  BY <2>1, Arrival DEF Chunk, Chunks, Disturbed
  <1>2. p = q <=> r = s
    BY <1>1
  <1> HIDE DEF p, q
  <1>3. Taken(p) => r < s
    BY <1>1 DEF InOrder, Follow
  <1>4. ASSUME r < s, ~Taken(p) PROVE FALSE
    <2>1. ToCome(p) \/ Queued(p) \/ popped = p \/ Sent(p)
      BY <1>1, <1>4 DEF Somewhere
    <2>2. CASE ToCome(p)
      <3>1. PICK t \in Posters : posting[t] # Null /\ posting[t].msg = m /\ posting[t].seq <= r
        BY <1>1, <2>2 DEF ToCome
      <3>2. s < posting[t].seq /\ posting[t].seq \in Int
        <4>1. posting[t] \in Chunk
          BY <3>1 DEF TypeOK
        <4>2. q \in Chunk /\ q.msg = posting[t].msg /\ Sent(q)
          BY <1>1, <3>1
        <4>3. q.seq < posting[t].seq
          BY <3>1, <4>2 DEF Ahead
        <4>. QED  BY <1>1, <4>1, <4>3 DEF Chunk
      <3>. QED  BY <1>1, <1>4, <3>1, <3>2
    <2>3. CASE Queued(p) \/ popped = p
      <3>1. s < r
        BY <1>1, <2>3 DEF InOrder, Follow
      <3>. QED  BY <1>1, <1>4, <3>1
    <2>4. CASE Sent(p)
      <3>1. p = q
        BY <1>1, <2>4 DEF Sent
      <3>. QED  BY <1>1, <1>2, <1>4, <3>1
    <2>. QED  BY <2>1, <2>2, <2>3, <2>4
  <1>. QED  BY <1>3, <1>4 DEF p

(* What has been received of a message waits in its entry, until the last  *)
(* chunk takes it to the callback.                                         *)
Done(m) ==
  /\ Number(m) \notin DOMAIN entries
  /\ \E i \in 1..Len(delivered) :
       /\ delivered[i].msg = m
       /\ delivered[i].data = IF size[m] = 0 THEN Null ELSE 0..Last(m)

Waiting(m) ==
  \A s \in 0..Last(m) : Taken([msg |-> m, seq |-> s]) =>
    Number(m) \in DOMAIN entries /\ s \in entries[Number(m)].first

Arrived ==
  \A m \in Posted \ Disturbed : IF Taken(LastChunk(m)) THEN Done(m) ELSE Waiting(m)

LEMMA NewMessage ==
  ASSUME WayInv, NEW t \in Posters, NEW n \in Sizes, Posts(t, n),
         NEW m \in Posted', m \notin Posted, NEW s
  PROVE  ~Taken([msg |-> m, seq |-> s])'
  <1>1. taken' = taken
    BY DEF Posts
  <1>2. m # 0
    BY DEF Posted
  <1>3. \A i \in 1..Len(taken) : taken[i] = Bye \/ taken[i].msg \in Posted
    BY DEF WayInv, Known, Real
  <1>4. \A i \in 1..Len(taken) : taken[i] # [msg |-> m, seq |-> s]
    BY <1>2, <1>3, ByeIsNoChunk
  <1>. QED  BY <1>1, <1>4 DEF Taken

LEMMA ArrivedStep ==
  ASSUME RecvInv, RecvInv', InOrder, Arrived, StepCase
  PROVE  Arrived'
  <1> USE DEF RecvInv, WayInv
  <1>1. Disturbed \subseteq Disturbed'
    BY DisturbedGrows
  <1>2. ASSUME NEW m \in Posted
        PROVE  /\ Last(m)' = Last(m) /\ size'[m] = size[m] /\ LastChunk(m)' = LastChunk(m)
               /\ \A s \in 0..Last(m) : [msg |-> m, seq |-> s] \in Chunk
               /\ LastChunk(m) \in Chunk /\ LastChunk(m) = [msg |-> m, seq |-> Last(m)]
               /\ Last(m) \in Nat
    <2>1. m \in Msg /\ Last(m) \in Nat
      BY PostedIsMsg
    <2>. QED  BY <2>1, ChunksStay, LastIsChunk DEF LastChunk, Chunk
  <1>3. ASSUME ~ \E m \in Posted : \E s \in 0..Last(m) : Takes(m, s)
        PROVE  Arrived'
    <2>1. entries' = entries /\ delivered' = delivered
      BY <1>3, DeliveredKeeps
    <2>2. \A p \in Chunk : Taken(p)' <=> Taken(p)
      <3>1. taken' = taken \/ TakesBye
        BY <1>3 DEF StepCase, Idles, way, Posts, Pushes, Refuses, Pops, Sends, Drops,
                    Retries, Clears, Replaces
      <3>. QED  BY <3>1, Moves DEF Taken
    <2>3. ASSUME NEW m \in Posted, m \notin Disturbed
          PROVE  (IF Taken(LastChunk(m)) THEN Done(m) ELSE Waiting(m))'
      <3>1. IF Taken(LastChunk(m)) THEN Done(m) ELSE Waiting(m)
        BY <2>3 DEF Arrived
      <3>2. Taken(LastChunk(m))' <=> Taken(LastChunk(m))
        <4>1. LastChunk(m)' = LastChunk(m) /\ LastChunk(m) \in Chunk
          BY <1>2
        <4>. QED  BY <2>2, <4>1 DEF Taken
      <3>3. Done(m) => Done(m)'
        BY <1>2, <2>1 DEF Done
      <3>4. Waiting(m) => Waiting(m)'
        BY <1>2, <2>1, <2>2 DEF Waiting
      <3>. QED  BY <3>1, <3>2, <3>3, <3>4
    <2>4. ASSUME NEW m \in Posted', m \notin Posted
          PROVE  (IF Taken(LastChunk(m)) THEN Done(m) ELSE Waiting(m))'
      <3>1. PICK t \in Posters, n \in Sizes : Posts(t, n)
        BY <2>4 DEF StepCase, Posted, Idles, way, Pushes, Refuses, Pops, Sends, Drops, Retries,
                    Clears, Replaces, TakesBye, Takes
      <3>2. \A s : ~Taken([msg |-> m, seq |-> s])'
        BY <2>4, <3>1, NewMessage
      <3>3. Waiting(m)'
        BY <3>2 DEF Waiting
      <3>4. ~Taken(LastChunk(m))'
        BY <3>2 DEF LastChunk, Taken
      <3>. QED  BY <3>3, <3>4
    <2>. QED  BY <1>1, <2>3, <2>4 DEF Arrived
  <1>4. ASSUME NEW m \in Posted, NEW s \in 0..Last(m), Takes(m, s)
        PROVE  Arrived'
    <2>1. /\ DOMAIN entries' = IF s = Last(m) THEN DOMAIN entries \ {Number(m)}
                               ELSE IF HasEntry(m, s) THEN DOMAIN entries \union {Number(m)}
                               ELSE DOMAIN entries
          /\ \A k \in DOMAIN entries' :
               entries'[k] = IF k = Number(m) THEN Grown(m, s) ELSE entries[k]
          /\ delivered' = IF s # Last(m) \/ (HasEntry(m, s) /\ Grown(m, s).second # size[m])
                          THEN delivered
                          ELSE Append(delivered, [msg |-> m, data |-> IF HasEntry(m, s)
                                                            THEN Grown(m, s).first ELSE Null])
          /\ Posted' = Posted
      BY <1>4, KeyIsNumber DEF Takes, Received, Posted
    <2>2. HasEntry(m, s) <=> Number(m) \in DOMAIN entries \/ (s = 0 /\ size[m] # 0)
      BY KeyIsNumber DEF HasEntry
    <2>3. \A p \in Chunk : Taken(p)' <=> Taken(p) \/ p = [msg |-> m, seq |-> s]
      BY <1>4, Moves
    <2>4. delivered \in Seq([msg : Msg, data : (SUBSET Nat) \union {Null}])
      BY DEF TypeOK
    <2>5. ASSUME NEW n \in Posted, n # m, n \notin Disturbed
          PROVE  (IF Taken(LastChunk(n)) THEN Done(n) ELSE Waiting(n))'
      <3>1. IF Taken(LastChunk(n)) THEN Done(n) ELSE Waiting(n)
        BY <2>5 DEF Arrived
      <3>2. Number(n) # Number(m)
        BY <2>5, KeyIsNumber, KeyInjective DEF Known
      <3>3. Number(n) \in DOMAIN entries' <=> Number(n) \in DOMAIN entries
        BY <2>1, <3>2
      <3>4. Number(n) \in DOMAIN entries => entries'[Number(n)] = entries[Number(n)]
        BY <2>1, <3>2, <3>3
      <3>5. \A r \in 0..Last(n) : Taken([msg |-> n, seq |-> r])' <=> Taken([msg |-> n, seq |-> r])
        <4> SUFFICES ASSUME NEW r \in 0..Last(n)
                     PROVE  Taken([msg |-> n, seq |-> r])' <=> Taken([msg |-> n, seq |-> r])
          OBVIOUS
        <4>1. [msg |-> n, seq |-> r] \in Chunk /\ [msg |-> n, seq |-> r] # [msg |-> m, seq |-> s]
          <5>1. [msg |-> n, seq |-> r].msg = n /\ [msg |-> m, seq |-> s].msg = m
            OBVIOUS
          <5>. QED  BY <1>2, <2>5, <5>1
        <4>. QED  BY <2>3, <4>1
      <3>6. Taken(LastChunk(n))' <=> Taken(LastChunk(n))
        <4>1. LastChunk(n)' = [msg |-> n, seq |-> Last(n)] /\ LastChunk(n) = [msg |-> n, seq |-> Last(n)]
              /\ Last(n) \in 0..Last(n)
          BY <1>2
        <4>. QED  BY <3>5, <4>1 DEF Taken
      <3>7. Done(n) => Done(n)'
        <4>1. ASSUME NEW i \in 1..Len(delivered)
              PROVE  i \in 1..Len(delivered') /\ delivered'[i] = delivered[i]
          BY <2>1, <2>4
        <4>. QED  BY <1>2, <3>3, <4>1 DEF Done
      <3>8. Waiting(n) => Waiting(n)'
        BY <1>2, <3>3, <3>4, <3>5 DEF Waiting
      <3>. QED  BY <3>1, <3>6, <3>7, <3>8
    <2>6. ASSUME m \notin Disturbed
          PROVE  (IF Taken(LastChunk(m)) THEN Done(m) ELSE Waiting(m))'
      <3> DEFINE c(r) == [msg |-> m, seq |-> r]
      <3>1. \A r \in 0..Last(m) : (Taken(c(r)) <=> r < s) /\ (Taken(c(r))' <=> r < s \/ r = s)
        <4> SUFFICES ASSUME NEW r \in 0..Last(m)
                     PROVE  (Taken(c(r)) <=> r < s) /\ (Taken(c(r))' <=> r < s \/ r = s)
          OBVIOUS
        <4>1. Taken(c(r)) <=> r < s
          BY <1>4, <2>6, ArrivesInOrder
        <4>2. c(r) \in Chunk /\ (c(r) = c(s) <=> r = s)
          <5>1. c(r).seq = r /\ c(s).seq = s
            OBVIOUS
          <5>. QED  BY <1>2, <5>1
        <4> HIDE DEF c
        <4>3. Taken(c(r))' <=> Taken(c(r)) \/ c(r) = c(s)
          BY <2>3, <4>2 DEF c
        <4>. QED  BY <4>1, <4>2, <4>3
      <3>2. Last(m) \in Nat /\ s \in 0..Last(m) /\ LastChunk(m) = c(Last(m))
            /\ LastChunk(m)' = c(Last(m)) /\ Last(m) \in 0..Last(m)
        BY <1>2
      <3>3. ~Taken(LastChunk(m)) /\ Waiting(m)
        <4>1. ~Taken(LastChunk(m))
          BY <3>1, <3>2
        <4>. QED  BY <2>6, <4>1 DEF Arrived
      <3>4. \A r \in 0..Last(m) : r < s => Number(m) \in DOMAIN entries /\ r \in entries[Number(m)].first
        BY <3>1, <3>3 DEF Waiting
      <3>5. size[m] = 0 => Last(m) = 0
        <4>1. size[m] \in Sizes
          BY PostedSize
        <4>2. Cap \in Nat \ {0}
          BY SizeAssumption
        <4>. QED  BY <4>2 DEF Last, ChunkTotalCount
      <3>6. size[m] # 0 => HasEntry(m, s)
        <4>1. s = 0 \/ (0 \in 0..Last(m) /\ 0 < s)
          BY <3>2
        <4>. QED  BY <2>2, <3>4, <4>1
      <3>7. HasEntry(m, s) =>
              /\ size[m] # 0
              /\ \A r \in 0..Last(m) : r < s \/ r = s => r \in Grown(m, s).first
        <4> SUFFICES ASSUME HasEntry(m, s)
                     PROVE  /\ size[m] # 0
                            /\ \A r \in 0..Last(m) : r < s \/ r = s => r \in Grown(m, s).first
          OBVIOUS
        <4> DEFINE e == IF s = 0 /\ size[m] # 0 THEN [second |-> 0, first |-> {}, len |-> size[m]]
                        ELSE entries[Key(m)]
        <4>1. Grown(m, s).first = e.first \union {s} /\ size[m] # 0
          <5>1. size[m] # 0
            BY <1>4, GrownCounted
          <5> HIDE DEF e
          <5>2. Grown(m, s) = [second |-> e.second + ChunkSize(size[m], s), first |-> e.first \union {s},
                               len |-> e.len]
            BY DEF Grown, e
          <5>. QED  BY <5>1, <5>2
        <4>2. ASSUME NEW r \in 0..Last(m), r < s PROVE r \in e.first
          <5>1. s # 0
            BY <3>2, <4>2
          <5>. QED  BY <3>4, <4>2, <5>1, KeyIsNumber
        <4>. QED  BY <4>1, <4>2
      <3>8. CASE s # Last(m)
        <4>1. ~Taken(LastChunk(m))'
          <5>1. ~(Last(m) < s \/ Last(m) = s)
            BY <3>2, <3>8
          <5>2. PICK l : l = Last(m)
            OBVIOUS
          <5>3. ~Taken(c(l))'
            BY <3>1, <3>2, <5>1, <5>2
          <5>4. LastChunk(m)' = c(l)
            BY <3>2, <5>2
          <5>. QED  BY <5>3, <5>4 DEF Taken
        <4>2. HasEntry(m, s)
          BY <3>2, <3>5, <3>6, <3>8
        <4>3. Number(m) \in DOMAIN entries' /\ entries'[Number(m)] = Grown(m, s)
          BY <2>1, <3>8, <4>2
        <4>4. Waiting(m)'
          BY <1>2, <3>1, <3>7, <4>2, <4>3 DEF Waiting
        <4>. QED  BY <4>1, <4>4
      <3>9. CASE s = Last(m)
        <4>1. Taken(LastChunk(m))'
          BY <3>1, <3>2, <3>9 DEF Taken
        <4>2. Number(m) \notin DOMAIN entries'
          BY <2>1, <3>9
        <4>3. HasEntry(m, s) => Grown(m, s).second = size[m] /\ Grown(m, s).first = 0..Last(m)
          <5> SUFFICES ASSUME HasEntry(m, s)
                       PROVE  Grown(m, s).second = size[m] /\ Grown(m, s).first = 0..Last(m)
            OBVIOUS
          <5>1. PICK first \in SUBSET (0..(Last(m) - 1)) :
                  /\ Grown(m, s).first = first \union {s} /\ s \notin first
                  /\ Grown(m, s).second = Cardinality(first) * Cap + ChunkSize(size[m], s)
            BY <1>4, GrownCounted
          <5>2. first = 0..(Last(m) - 1)
            <6>1. \A r \in 0..(Last(m) - 1) : r \in 0..Last(m) /\ r < s /\ r # s
              BY <3>2, <3>9
            <6>2. \A r \in 0..(Last(m) - 1) : r \in Grown(m, s).first
              BY <3>7, <6>1
            <6>. QED  BY <5>1, <6>1, <6>2, Zenon
          <5>3. Cardinality(first) = Last(m)
            BY <3>2, <5>2, Interval
          <5>4. s + 1 = ChunkTotalCount(size[m]) /\ size[m] \in Sizes /\ size[m] \in Nat /\ s \in Nat
            BY <3>2, <3>9, PostedSize, Counts
          <5>5. ChunkSize(size[m], s) = size[m] - s * Cap
            <6>1. s < ChunkTotalCount(size[m])
              BY <5>4
            <6>. QED  BY <5>4, <6>1, ChunkSizes
          <5>6. s * Cap \in Int
            BY <5>4, SizeAssumption
          <5>7. s * Cap + (size[m] - s * Cap) = size[m]
            <6> DEFINE k == s * Cap
            <6> HIDE DEF k
            <6>1. k \in Int /\ size[m] \in Int
              BY <5>4, <5>6 DEF k
            <6>2. k + (size[m] - k) = size[m]
              BY <6>1
            <6>. QED  BY <6>2 DEF k
          <5>. QED  BY <3>2, <3>9, <5>1, <5>2, <5>3, <5>5, <5>7
        <4>4. delivered' = Append(delivered, [msg |-> m, data |-> IF size[m] = 0 THEN Null
                                                                  ELSE 0..Last(m)])
          BY <2>1, <3>6, <3>7, <3>9, <4>3
        <4>5. \E i \in 1..Len(delivered') :
                delivered'[i] = [msg |-> m, data |-> IF size[m] = 0 THEN Null ELSE 0..Last(m)]
          <5> DEFINE d == [msg |-> m, data |-> IF size[m] = 0 THEN Null ELSE 0..Last(m)]
          <5> HIDE DEF d
          <5>1. delivered' = Append(delivered, d)
            BY <4>4 DEF d
          <5>2. Len(delivered') = Len(delivered) + 1 /\ Len(delivered) \in Nat
                /\ delivered'[Len(delivered) + 1] = d
            BY <2>4, <5>1
          <5>3. \E i \in 1..Len(delivered') : delivered'[i] = d
            BY <5>2
          <5>. QED  BY <5>3 DEF d
        <4>6. Done(m)'
          BY <1>2, <4>2, <4>5 DEF Done
        <4>. QED  BY <4>1, <4>6
      <3>. QED  BY <3>8, <3>9
    <2>. QED  BY <1>1, <2>1, <2>5, <2>6 DEF Arrived
  <1>. QED  BY <1>3, <1>4

FullInv == RecvInv /\ InOrder /\ Arrived

LEMMA FullInit ==
  ASSUME Init
  PROVE  FullInv
  <1>1. size = <<>> /\ queue = <<>> /\ taken = <<>> /\ inFlight = <<>> /\ popped = Null
    BY DEF Init, Handoff!Init
  <1>2. InOrder /\ Arrived
    BY <1>1, ByeIsNoChunk
       DEF InOrder, Follow, QueueInOrder, Taken, Sent, Queued, Arrived, Posted
  <1>. QED  BY <1>2, RecvInit DEF FullInv

LEMMA FullStep ==
  ASSUME FullInv, [Next]_vars
  PROVE  FullInv'
  <1>1. RecvInv' /\ StepCase
    BY RecvStep, StepCases DEF FullInv, RecvInv, WayInv
  <1>2. WayInv /\ WayInv'
    BY <1>1 DEF FullInv, RecvInv
  <1>. QED  BY <1>1, <1>2, InOrderStep, ArrivedStep DEF FullInv

LEMMA FullInvGives ==
  ASSUME FullInv
  PROVE  UndisturbedArrives /\ NoLeftovers
  BY KeyIsNumber DEF FullInv, RecvInv, WayInv, Arrived, Done, Content, UndisturbedArrives, NoLeftovers

(* Trouble stays local: whatever happens to the other messages, one that   *)
(* was neither queued again nor lost arrives as it was posted.             *)
THEOREM TroubleStaysLocal == Spec => []UndisturbedArrives
  <1>1. Init => FullInv
    BY FullInit
  <1>2. FullInv /\ [Next]_vars => FullInv'
    BY FullStep
  <1>3. FullInv => UndisturbedArrives
    BY FullInvGives
  <1>. QED  BY <1>1, <1>2, <1>3, PTL DEF Spec

(* ... and leaves nothing behind in recv_msg_map_.                         *)
THEOREM NothingLeftBehind == Spec => []NoLeftovers
  <1>1. Init => FullInv
    BY FullInit
  <1>2. FullInv /\ [Next]_vars => FullInv'
    BY FullStep
  <1>3. FullInv => NoLeftovers
    BY FullInvGives
  <1>. QED  BY <1>1, <1>2, <1>3, PTL DEF Spec
=============================================================================
