------------------------ MODULE MessageServiceProofs ------------------------
(***************************************************************************)
(* MessagePipeline implements MessageService: messages that were neither   *)
(* queued again nor lost arrive in the order of their last chunks, and     *)
(* every step is one of the service or invisible to it.                    *)
(*                                                                         *)
(* The invariant adds to FullInv that a message is accepted once its last  *)
(* chunk is on its way (Completion), and that the last chunk of an         *)
(* undisturbed message is never behind that of a later one (NoneOvertaken).*)
(***************************************************************************)
EXTENDS MessagePipelineProofs, SequenceTheorems

Underway(p) == Queued(p) \/ popped = p \/ Sent(p) \/ Taken(p)
IsLast(p) == p.seq = Last(p.msg)
Completed(m) == \E i \in 1..Len(completed) : completed[i] = m

Completion ==
  /\ \A i, j \in 1..Len(completed) : completed[i] = completed[j] => i = j
  /\ \A i \in 1..Len(completed) :
       /\ completed[i] \in Posted
       /\ \A t \in Posters : posting[t] # Null => posting[t].msg # completed[i]
  /\ \A p \in Chunk : Underway(p) /\ IsLast(p) => Completed(p.msg)

(* p is further on its way than q.                                         *)
Further(p, q) ==
  /\ Taken(q) \/ Sent(q) => Taken(p)
  /\ popped = q => Taken(p) \/ Sent(p)
  /\ \A b \in 1..Len(queue) : queue[b] = q =>
       Taken(p) \/ Sent(p) \/ popped = p \/ \E a \in 1..(b - 1) : queue[a] = p

NoneOvertaken ==
  \A i, j \in 1..Len(completed) : \A p, q \in Chunk :
    /\ i < j /\ p.msg = completed[i] /\ q.msg = completed[j]
    /\ IsLast(p) /\ IsLast(q)
    /\ p.msg \notin Disturbed /\ q.msg \notin Disturbed
    => Further(p, q)

OrderInv == FullInv /\ Completion /\ NoneOvertaken /\ UndisturbedInOrder

-----------------------------------------------------------------------------
(***************************************************************************)
(* Acceptance.                                                             *)
(***************************************************************************)

(* Only a push brings a chunk under way.                                   *)
LEMMA ComesByPush ==
  ASSUME TypeOK, Known, StepCase, NEW p \in Chunk, Underway(p)'
  PROVE  Underway(p) \/ \E t \in Posters : Pushes(t) /\ p = posting[t]
  <1>1. p # Null /\ p # Bye
    BY ByeIsNoChunk
  <1>2. CASE Drops \/ \E t \in Posters : (\E n \in Sizes : Posts(t, n)) \/ Refuses(t)
    BY <1>1, <1>2 DEF Drops, Posts, Refuses, Queued, Sent, Taken, Underway
  <1>3. ASSUME NEW t \in Posters, Pushes(t) PROVE Underway(p) \/ p = posting[t]
    <2>1. popped' = popped
      BY <1>3 DEF Pushes
    <2>. QED  BY <1>3, <2>1, Moves DEF Underway
  <1>4. CASE Pops
    BY <1>4, Moves DEF Underway, Pops
  <1>5. CASE Idles \/ Sends \/ Retries \/ Clears \/ Replaces \/ TakesBye
             \/ \E m \in Posted : \E s \in 0..Last(m) : Takes(m, s)
    <2>1. popped' = popped \/ popped' = Null
      BY <1>5 DEF Idles, way, Sends, Retries, Clears, Replaces, TakesBye, Takes
    <2>. QED  BY <1>1, <1>5, <2>1, Moves DEF Underway
  <1>. QED  BY <1>2, <1>3, <1>4, <1>5 DEF StepCase

(* How the accepted messages and the posters change.                       *)
LEMMA Acceptance ==
  ASSUME TypeOK, Known, StepCase
  PROVE  /\ \/ UNCHANGED completed
            \/ \E t \in Posters :
                 /\ Pushes(t) /\ IsLast(posting[t])
                 /\ completed' = Append(completed, posting[t].msg)
                 /\ posting'[t] = Null
         /\ \A t \in Posters : Pushes(t) /\ IsLast(posting[t])
              => completed' = Append(completed, posting[t].msg) /\ posting'[t] = Null
         /\ \A u \in Posters : posting'[u] # Null =>
              \/ posting[u] # Null /\ posting'[u].msg = posting[u].msg
              \/ posting'[u].msg \notin Posted
  <1>1. ASSUME NEW t \in Posters, Pushes(t)
        PROVE  /\ IsLast(posting[t]) =>
                    completed' = Append(completed, posting[t].msg) /\ posting'[t] = Null
               /\ ~IsLast(posting[t]) => completed' = completed
               /\ \A u \in Posters : posting'[u] # Null =>
                    posting[u] # Null /\ posting'[u].msg = posting[u].msg
    <2> DEFINE q == posting[t]
    <2>1. q \in Chunk /\ q # Null /\ Real(q)
      BY <1>1 DEF Pushes, TypeOK, Known
    <2>2. q.seq \in 0..Last(q.msg) /\ Last(q.msg) \in Nat /\ q = [msg |-> q.msg, seq |-> q.seq]
      BY <2>1, PostedSize DEF Real, Chunk
    <2>3. IsLast(q) <=> ~(q.seq < Last(q.msg))
      BY <2>2 DEF IsLast
    <2>4. /\ posting'[t] = (IF q.seq < Last(q.msg) THEN [msg |-> q.msg, seq |-> q.seq + 1] ELSE Null)
          /\ \A u \in Posters : u # t => posting'[u] = posting[u]
          /\ completed' = IF q.seq < Last(q.msg) THEN completed ELSE Append(completed, q.msg)
      BY <1>1 DEF Pushes, TypeOK
    <2>. QED  BY <2>1, <2>3, <2>4
  <1>2. ASSUME NEW t \in Posters, NEW n \in Sizes, Posts(t, n)
        PROVE  /\ UNCHANGED completed
               /\ \A u \in Posters : posting'[u] # Null =>
                    posting'[u] = posting[u] \/ posting'[u].msg \notin Posted
    <2>1. /\ UNCHANGED completed
          /\ posting'[t] = [msg |-> Len(size) + 1, seq |-> 0]
          /\ \A u \in Posters : u # t => posting'[u] = posting[u]
          /\ Len(size) + 1 \notin Posted
      BY <1>2 DEF Posts, TypeOK, Posted
    <2>. QED  BY <2>1
  <1>3. ASSUME NEW t \in Posters, Refuses(t)
        PROVE  /\ UNCHANGED completed
               /\ \A u \in Posters : posting'[u] # Null => posting'[u] = posting[u]
    BY <1>3 DEF Refuses, TypeOK
  <1>4. CASE Idles \/ Pops \/ Sends \/ Drops \/ Retries \/ Clears \/ Replaces \/ TakesBye
             \/ \E m \in Posted : \E s \in 0..Last(m) : Takes(m, s)
    <2>1. UNCHANGED <<posting, completed>>
      BY <1>4 DEF Idles, way, Pops, Sends, Drops, Retries, Clears, Replaces, TakesBye, Takes
    <2>. QED  BY <1>1, <2>1
  <1>5. CASE \E t \in Posters : Pushes(t)
    BY <1>1, <1>5
  <1>6. CASE \E t \in Posters : (\E n \in Sizes : Posts(t, n)) \/ Refuses(t)
    BY <1>1, <1>2, <1>3, <1>6
  <1>. QED  BY <1>4, <1>5, <1>6 DEF StepCase

(* The last chunk of a message under way is accepted with the message.     *)
LEMMA CompletionStep ==
  ASSUME WayInv, WayInv', Completion, StepCase
  PROVE  Completion'
  <1> USE DEF WayInv
  <1>1. completed \in Seq(Msg) /\ Posted \subseteq Posted'
    BY PostedGrows DEF TypeOK
  <1>2. ASSUME NEW p \in Chunk, Underway(p)', IsLast(p)'
        PROVE  \/ Underway(p) /\ IsLast(p)
               \/ \E t \in Posters : Pushes(t) /\ p = posting[t] /\ IsLast(p)
    <2>1. Underway(p) \/ \E t \in Posters : Pushes(t) /\ p = posting[t]
      BY <1>2, ComesByPush
    <2>2. Real(p)
      BY <2>1, WayIsReal DEF Underway, Pushes, Known
    <2>3. Last(p.msg)' = Last(p.msg)
      BY <2>2, RealStays
    <2>. QED  BY <1>2, <2>1, <2>3 DEF IsLast
  <1>3. CASE UNCHANGED completed
    <2>1. ASSUME NEW p \in Chunk, Underway(p)', IsLast(p)' PROVE Completed(p.msg)'
      <3>1. CASE Underway(p) /\ IsLast(p)
        BY <1>3, <3>1 DEF Completion, Completed
      <3>2. ASSUME NEW t \in Posters, Pushes(t), IsLast(posting[t]) PROVE FALSE
        <4>1. completed' = Append(completed, posting[t].msg)
          BY <3>2, Acceptance
        <4>. QED  BY <1>1, <1>3, <4>1
      <3>. QED  BY <1>2, <2>1, <3>1, <3>2
    <2>2. ASSUME NEW i \in 1..Len(completed), NEW u \in Posters, posting'[u] # Null
          PROVE  posting'[u].msg # completed[i]
      BY <2>2, Acceptance DEF Completion
    <2>. QED  BY <1>1, <1>3, <2>1, <2>2 DEF Completion
  <1>4. ASSUME NEW t \in Posters, Pushes(t), IsLast(posting[t]),
               completed' = Append(completed, posting[t].msg), posting'[t] = Null
        PROVE  Completion'
    <2> DEFINE n == posting[t].msg
    <2>1. n \in Posted /\ posting[t] # Null /\ posting[t] \in Chunk
      BY <1>4 DEF Pushes, Known, Real
    <2>2. /\ Len(completed') = Len(completed) + 1 /\ Len(completed) \in Nat
          /\ completed'[Len(completed) + 1] = n
          /\ \A i \in 1..Len(completed) : completed'[i] = completed[i]
      <3>1. n \in Msg
        BY <2>1 DEF Chunk
      <3>. QED  BY <1>1, <1>4, <3>1
    <2>3. \A i \in 1..Len(completed) : completed[i] # n
      BY <2>1 DEF Completion
    <2>4. \A u \in Posters : posting'[u] # Null => posting[u] # Null /\ u # t /\ posting'[u] = posting[u]
      BY <1>4 DEF Pushes, TypeOK
    <2>5. \A u \in Posters : posting'[u] # Null => posting'[u].msg # n
      BY <2>1, <2>4 DEF Ahead
    <2>6. ASSUME NEW p \in Chunk, Underway(p)', IsLast(p)' PROVE Completed(p.msg)'
      <3>1. CASE p.msg = n
        BY <2>2, <3>1 DEF Completed
      <3>2. CASE p.msg # n
        <4>1. Underway(p) /\ IsLast(p)
          <5>1. UNCHANGED popped
            BY <1>4 DEF Pushes
          <5>2. Underway(p)
            BY <1>4, <2>6, <3>2, <5>1, Moves DEF Underway
          <5>3. IsLast(p)
            BY <1>2, <2>6
          <5>. QED  BY <5>2, <5>3
        <4>2. Completed(p.msg)
          BY <4>1 DEF Completion
        <4>. QED  BY <2>2, <4>2 DEF Completed
      <3>. QED  BY <3>1, <3>2
    <2> HIDE DEF n
    <2>7. \A i \in 1..Len(completed') :
             completed'[i] \in Posted'
             /\ \A u \in Posters : posting'[u] # Null => posting'[u].msg # completed'[i]
      <3>1. \A i \in 1..Len(completed) : completed[i] \in Posted
              /\ \A u \in Posters : posting'[u] # Null => posting'[u].msg # completed[i]
        BY <2>4 DEF Completion
      <3>. QED  BY <1>1, <2>1, <2>2, <2>5, <3>1
    <2>8. \A i, j \in 1..Len(completed') : completed'[i] = completed'[j] => i = j
      <3>1. \A i, j \in 1..Len(completed) : completed[i] = completed[j] => i = j
        BY DEF Completion
      <3>. QED  BY <2>2, <2>3, <3>1
    <2>. QED  BY <2>6, <2>7, <2>8 DEF Completion
  <1>. QED  BY <1>3, <1>4, Acceptance

-----------------------------------------------------------------------------
(***************************************************************************)
(* Order.                                                                  *)
(***************************************************************************)

(* A chunk whose message is not known as lost goes only to the next place. *)
LEMMA NotLost ==
  ASSUME TypeOK, Known, StepCase, NEW p \in Chunk, p.msg \notin lost'
  PROVE  /\ Sends \/ Replaces => ~Sent(p)
         /\ Drops => popped # p
         /\ Clears => ~Queued(p)
  <1>1. p.msg # 0
    BY DEF Chunk, Msg
  <1>2. Queued(p) => p.msg \in MsgsOf(queue)
    BY <1>1, ByeIsNoChunk DEF Queued, MsgsOf
  <1>3. Sent(p) => p.msg \in MsgsOf(inFlight)
    <2>1. inFlight # <<>> => 1 \in 1..Len(inFlight)
      BY DEF TypeOK
    <2>. QED  BY <1>1, <2>1, ByeIsNoChunk DEF Sent, MsgsOf
  <1>. QED  BY <1>2, <1>3 DEF Sends, Replaces, Drops, Clears

(* No step takes a chunk past one that is further.                         *)
LEMMA FurtherStep ==
  ASSUME WayInv, StepCase, NEW p \in Chunk, NEW q \in Chunk, Further(p, q), p # q,
         p.msg \notin Disturbed', q.msg \notin Disturbed',
         ~ \E t \in Posters : Pushes(t) /\ posting[t] = q
  PROVE  Further(p, q)'
  <1> USE DEF WayInv
  <1>1. /\ p # Null /\ q # Null /\ queue \in Seq(Chunk) /\ popped \in Chunk \union {Null}
        /\ p.msg \notin lost' /\ q.msg \notin lost' /\ p.msg \notin retried' /\ q.msg \notin retried'
    BY ByeIsNoChunk DEF TypeOK, Disturbed
  <1>2. \A r \in Chunk : Taken(r) => Taken(r)'
    BY TakenStays
  <1>3. CASE \E t \in Posters : (\E n \in Sizes : Posts(t, n)) \/ Refuses(t)
    <2>1. UNCHANGED <<queue, popped, inFlight, taken>>
      BY <1>3 DEF Posts, Refuses
    <2>. QED  BY <2>1 DEF Further, Taken, Sent
  <1>4. CASE Idles
    <2>1. UNCHANGED <<queue, popped, inFlight, taken>>
      BY <1>4 DEF Idles, way
    <2>. QED  BY <2>1 DEF Further, Taken, Sent
  <1>5. CASE Drops
    <2>1. UNCHANGED <<queue, inFlight, taken>> /\ popped' = Null /\ popped # p
      BY <1>1, <1>5, NotLost DEF Drops
    <2>. QED  BY <1>1, <2>1 DEF Further, Taken, Sent
  <1>6. ASSUME NEW t \in Posters, Pushes(t) PROVE Further(p, q)'
    <2>1. /\ posting[t] \in Chunk /\ posting[t] # q
          /\ queue' = Append(queue, posting[t]) /\ UNCHANGED <<popped, inFlight, taken>>
      BY <1>6 DEF Pushes, TypeOK
    <2>2. Len(queue') = Len(queue) + 1 /\ Len(queue) \in Nat
          /\ queue'[Len(queue) + 1] = posting[t]
          /\ \A i \in 1..Len(queue) : queue'[i] = queue[i]
      BY <1>1, <2>1
    <2>3. ASSUME NEW b \in 1..Len(queue'), queue'[b] = q
          PROVE  Taken(p)' \/ Sent(p)' \/ popped' = p \/ \E a \in 1..(b - 1) : queue'[a] = p
      <3>1. b \in 1..Len(queue) /\ queue[b] = q
        BY <2>1, <2>2, <2>3
      <3>2. CASE Taken(p) \/ Sent(p) \/ popped = p
        BY <2>1, <3>2 DEF Taken, Sent
      <3>3. ASSUME NEW a \in 1..(b - 1), queue[a] = p PROVE queue'[a] = p
        BY <2>2, <3>1, <3>3
      <3>. QED  BY <3>1, <3>2, <3>3 DEF Further
    <2>. QED  BY <2>1, <2>3 DEF Further, Taken, Sent
  <1>7. CASE Pops
    <2>1. /\ popped = Null /\ UNCHANGED <<inFlight, taken>>
          /\ Len(queue) \in Nat /\ 1 \in 1..Len(queue) /\ popped' = queue[1]
          /\ Len(queue') = Len(queue) - 1
          /\ \A i \in 1..Len(queue') : i + 1 \in 1..Len(queue) /\ queue'[i] = queue[i + 1]
      BY <1>7, TailOfQueue DEF Pops
    <2>2. ASSUME popped' = q PROVE Taken(p) \/ Sent(p)
      <3>1. queue[1] = q /\ 1..(1 - 1) = {}
        BY <2>1, <2>2
      <3>. QED  BY <1>1, <2>1, <3>1 DEF Further
    <2>3. ASSUME NEW b \in 1..Len(queue'), queue'[b] = q
          PROVE  Taken(p) \/ Sent(p) \/ popped' = p \/ \E a \in 1..(b - 1) : queue'[a] = p
      <3>1. b + 1 \in 1..Len(queue) /\ queue[b + 1] = q
        BY <2>1, <2>3
      <3>2. ASSUME NEW a \in 1..b, queue[a] = p
            PROVE  popped' = p \/ \E c \in 1..(b - 1) : queue'[c] = p
        <4>1. CASE a = 1
          BY <2>1, <3>2, <4>1
        <4>2. CASE a # 1
          <5>1. a - 1 \in 1..(b - 1) /\ a - 1 \in 1..Len(queue') /\ (a - 1) + 1 = a
            BY <2>1, <3>1, <4>2
          <5>2. queue'[a - 1] = p
            BY <2>1, <3>2, <5>1
          <5>. QED  BY <5>1, <5>2
        <4>. QED  BY <4>1, <4>2
      <3>3. (b + 1) - 1 = b
        BY <2>1
      <3>4. Taken(p) \/ Sent(p) \/ popped = p \/ \E a \in 1..b : queue[a] = p
        BY <3>1, <3>3 DEF Further
      <3>. QED  BY <1>1, <2>1, <3>2, <3>4
    <2>. QED  BY <2>1, <2>2, <2>3 DEF Further, Taken, Sent
  <1>8. CASE Sends
    <2>1. /\ popped' = Null /\ queue' = queue /\ ~Sent(p) /\ ~Sent(q)
          /\ \A r \in Chunk : (Sent(r)' <=> r = popped) /\ (Taken(r)' <=> Taken(r))
      BY <1>1, <1>8, Moves, NotLost DEF Sends
    <2>. QED  BY <1>1, <2>1 DEF Further
  <1>9. CASE Retries
    <2>1. /\ popped \in Chunk /\ queue' = Append(queue, popped) /\ popped' = Null
          /\ popped # p /\ popped # q
          /\ \A r \in Chunk : (Sent(r)' <=> Sent(r)) /\ (Taken(r)' <=> Taken(r))
      BY <1>1, <1>9, Moves DEF Retries
    <2>2. Len(queue') = Len(queue) + 1 /\ Len(queue) \in Nat
          /\ queue'[Len(queue) + 1] = popped
          /\ \A i \in 1..Len(queue) : queue'[i] = queue[i]
      BY <1>1, <2>1
    <2>3. ASSUME NEW b \in 1..Len(queue'), queue'[b] = q
          PROVE  Taken(p) \/ Sent(p) \/ \E a \in 1..(b - 1) : queue'[a] = p
      <3>1. b \in 1..Len(queue) /\ queue[b] = q
        BY <2>1, <2>2, <2>3
      <3>2. \A a \in 1..(b - 1) : queue'[a] = queue[a]
        BY <2>2, <3>1
      <3>. QED  BY <2>1, <3>1, <3>2 DEF Further
    <2>. QED  BY <1>1, <2>1, <2>3 DEF Further
  <1>10. CASE Clears
    <2>1. /\ queue' = <<>> /\ popped' = popped
          /\ \A r \in Chunk : (Sent(r)' <=> Sent(r)) /\ (Taken(r)' <=> Taken(r))
      BY <1>10, Moves DEF Clears
    <2>. QED  BY <2>1 DEF Further
  <1>11. CASE Replaces
    <2>1. /\ UNCHANGED <<queue, popped>> /\ ~Sent(p) /\ ~Sent(q)
          /\ \A r \in Chunk : ~Sent(r)' /\ (Taken(r)' <=> Taken(r))
      BY <1>1, <1>11, Moves, NotLost DEF Replaces
    <2>. QED  BY <2>1 DEF Further
  <1>12. CASE TakesBye
    <2>1. /\ UNCHANGED <<queue, popped>>
          /\ \A r \in Chunk : ~Sent(r)' /\ ~Sent(r) /\ (Taken(r)' <=> Taken(r))
      BY <1>12, Moves DEF TakesBye
    <2>. QED  BY <2>1 DEF Further
  <1>13. ASSUME NEW m \in Posted, NEW s \in 0..Last(m), Takes(m, s) PROVE Further(p, q)'
    <2>1. /\ UNCHANGED <<queue, popped>>
          /\ \A r \in Chunk : ~Sent(r)' /\ (Taken(r)' <=> Taken(r) \/ Sent(r))
      BY <1>13, Moves DEF Takes
    <2>. QED  BY <2>1 DEF Further
  <1>. QED  BY <1>3, <1>4, <1>5, <1>6, <1>7, <1>8, <1>9, <1>10, <1>11, <1>12, <1>13 DEF StepCase

(* The last chunk of an accepted message that is not lost is under way, no *)
(* longer with its poster.                                                 *)
LEMMA AcceptedUnderway ==
  ASSUME WayInv, Completion, NEW i \in 1..Len(completed), NEW p \in Chunk,
         p.msg = completed[i], IsLast(p), p.msg \notin lost
  PROVE  Underway(p)
  <1> USE DEF WayInv
  <1>1. p.msg \in Posted /\ ~ToCome(p)
    BY DEF Completion, ToCome
  <1>2. p \in Chunks(p.msg)
    <2>1. Last(p.msg) \in Nat /\ p = [msg |-> p.msg, seq |-> Last(p.msg)]
      BY <1>1, PostedSize DEF IsLast, Chunk
    <2>. QED  BY <2>1 DEF Chunks
  <1>. QED  BY <1>1, <1>2 DEF Somewhere, Underway

LEMMA NoneOvertakenStep ==
  ASSUME WayInv, WayInv', Completion, Completion', NoneOvertaken, StepCase
  PROVE  NoneOvertaken'
  <1> USE DEF WayInv
  <1>1. completed \in Seq(Msg) /\ Disturbed \subseteq Disturbed'
    BY DisturbedGrows DEF TypeOK
  <1>2. ASSUME NEW p \in Chunk, IsLast(p)', p.msg \in Posted PROVE IsLast(p)
    <2>1. Last(p.msg)' = Last(p.msg)
      BY <1>2, ChunksStay
    <2>. QED  BY <1>2, <2>1 DEF IsLast
  <1>3. ASSUME NEW i \in 1..Len(completed), NEW j \in 1..Len(completed), NEW p \in Chunk, NEW q \in Chunk,
               i < j, p.msg = completed[i], q.msg = completed[j], IsLast(p)', IsLast(q)',
               p.msg \notin Disturbed', q.msg \notin Disturbed'
        PROVE  Further(p, q)'
    <2>1. p.msg \in Posted /\ q.msg \in Posted /\ p.msg # q.msg
      BY <1>3 DEF Completion
    <2>2. IsLast(p) /\ IsLast(q)
      BY <1>2, <1>3, <2>1
    <2>3. Further(p, q)
      BY <1>1, <1>3, <2>2 DEF NoneOvertaken
    <2>4. ~ \E t \in Posters : Pushes(t) /\ posting[t] = q
      BY <1>3 DEF Completion, Pushes
    <2>. QED  BY <1>3, <2>1, <2>3, <2>4, FurtherStep
  <1>4. CASE UNCHANGED completed
    BY <1>3, <1>4 DEF NoneOvertaken
  <1>5. ASSUME NEW t \in Posters, Pushes(t), IsLast(posting[t]),
               completed' = Append(completed, posting[t].msg), posting'[t] = Null
        PROVE  NoneOvertaken'
    <2> DEFINE n == posting[t].msg
    <2>1. n \in Posted /\ posting[t] # Null /\ posting[t] \in Chunk /\ Real(posting[t])
      BY <1>5 DEF Pushes, Known, Real
    <2>2. /\ Len(completed') = Len(completed) + 1 /\ Len(completed) \in Nat
          /\ completed'[Len(completed) + 1] = n
          /\ \A i \in 1..Len(completed) : completed'[i] = completed[i]
      <3>1. n \in Msg
        BY <2>1 DEF Chunk
      <3>. QED  BY <1>1, <1>5, <3>1
    <2>3. ASSUME NEW i \in 1..Len(completed), NEW p \in Chunk, NEW q \in Chunk,
                 p.msg = completed[i], q.msg = n, IsLast(p)', IsLast(q)', p.msg \notin Disturbed'
          PROVE  Further(p, q)'
      <3>1. p.msg \in Posted /\ p.msg # n
        BY <2>1, <2>3 DEF Completion
      <3>2. IsLast(p) /\ IsLast(q)
        BY <1>2, <2>1, <2>3, <3>1
      <3>3. Underway(p)
        BY <1>1, <2>3, <3>2, AcceptedUnderway DEF Disturbed
      <3>4. q = posting[t]
        BY <1>5, <2>1, <2>3, <3>2 DEF IsLast, Chunk
      <3>5. ~Queued(q) /\ popped # q /\ ~Sent(q) /\ ~Taken(q)
        BY <2>1, <3>4 DEF Ahead, Chunk
      <3>6. queue \in Seq(Chunk) /\ queue' = Append(queue, q) /\ UNCHANGED <<popped, inFlight, taken>>
        BY <1>5, <3>4 DEF Pushes, TypeOK
      <3>7. Len(queue') = Len(queue) + 1 /\ Len(queue) \in Nat
            /\ \A k \in 1..Len(queue) : queue'[k] = queue[k] /\ queue[k] # q
        BY <3>5, <3>6 DEF Queued
      <3>8. ASSUME NEW b \in 1..Len(queue'), queue'[b] = q
            PROVE  Taken(p) \/ Sent(p) \/ popped = p \/ \E a \in 1..(b - 1) : queue'[a] = p
        <4>1. b = Len(queue) + 1
          BY <3>7, <3>8
        <4>. QED  BY <3>3, <3>7, <4>1 DEF Underway, Queued
      <3>. QED  BY <3>5, <3>6, <3>8 DEF Further, Taken, Sent
    <2> HIDE DEF n
    <2>4. ASSUME NEW i \in 1..Len(completed'), NEW j \in 1..Len(completed'), i < j
          PROVE  i \in 1..Len(completed) /\ (j \in 1..Len(completed) \/ j = Len(completed) + 1)
      BY <2>2, <2>4
    <2>. QED  BY <1>3, <2>2, <2>3, <2>4 DEF NoneOvertaken
  <1>. QED  BY <1>4, <1>5, Acceptance

(* A message is delivered only behind those before it.                     *)
LEMMA UndisturbedInOrderStep ==
  ASSUME FullInv, FullInv', Completion, Completion', NoneOvertaken, UndisturbedInOrder, StepCase
  PROVE  UndisturbedInOrder'
  <1> USE DEF FullInv, RecvInv, WayInv
  <1>1. /\ completed \in Seq(Msg) /\ Disturbed \subseteq Disturbed'
        /\ delivered \in Seq([msg : Msg, data : (SUBSET Nat) \union {Null}])
    BY DisturbedGrows DEF TypeOK
  <1>2. CASE ~ \E m \in Posted : \E s \in 0..Last(m) : Takes(m, s)
    <2>1. delivered' = delivered
      BY <1>2, DeliveredKeeps
    <2>2. CASE UNCHANGED completed
      BY <1>1, <2>1, <2>2 DEF UndisturbedInOrder
    <2>3. ASSUME NEW t \in Posters, Pushes(t), IsLast(posting[t]),
                 completed' = Append(completed, posting[t].msg)
          PROVE  UndisturbedInOrder'
      <3> DEFINE n == posting[t].msg
      <3>1. n \in Posted /\ posting[t] # Null /\ posting[t] \in Chunk /\ n \in Msg
        BY <2>3 DEF Pushes, Known, Real, Chunk
      <3>2. /\ Len(completed') = Len(completed) + 1 /\ Len(completed) \in Nat
            /\ completed'[Len(completed) + 1] = n
            /\ \A i \in 1..Len(completed) : completed'[i] = completed[i]
        BY <1>1, <2>3, <3>1
      <3>3. ~Taken(posting[t])
        BY <3>1 DEF Ahead, Chunk
      <3>4. posting[t] = LastChunk(n)
        BY <2>3, <3>1 DEF IsLast, LastChunk, Chunk
      <3>5. \A b \in 1..Len(delivered) : delivered[b].msg # n
        BY <3>3, <3>4 DEF Once
      <3> HIDE DEF n
      <3>6. ASSUME NEW i \in 1..Len(completed'), NEW j \in 1..Len(completed'), i < j,
                   completed'[i] \notin Disturbed', completed'[j] \notin Disturbed',
                   NEW b \in 1..Len(delivered), delivered[b].msg = completed'[j]
            PROVE  \E a \in 1..(b - 1) : delivered[a].msg = completed'[i]
        <4>1. i \in 1..Len(completed) /\ j \in 1..Len(completed)
          BY <3>2, <3>5, <3>6
        <4>2. completed[i] \notin Disturbed /\ completed[j] \notin Disturbed
              /\ delivered[b].msg = completed[j]
          BY <1>1, <3>2, <3>6, <4>1
        <4>3. \E a \in 1..(b - 1) : delivered[a].msg = completed[i]
          BY <3>6, <4>1, <4>2 DEF UndisturbedInOrder
        <4>. QED  BY <3>2, <4>1, <4>3
      <3>. QED  BY <2>1, <3>6 DEF UndisturbedInOrder
    <2>. QED  BY <2>2, <2>3, Acceptance
  <1>3. ASSUME NEW m \in Posted, NEW s \in 0..Last(m), Takes(m, s)
        PROVE  UndisturbedInOrder'
    <2>1. UNCHANGED <<completed, lost, retried>>
      BY <1>3 DEF Takes
    <2>2. CASE delivered' = delivered
      BY <2>1, <2>2 DEF UndisturbedInOrder, Disturbed
    <2>3. CASE delivered' # delivered
      <3>1. s = Last(m) /\ \E d : d.msg = m /\ delivered' = Append(delivered, d)
        <4>1. delivered' = Append(delivered, [msg |-> m, data |-> IF HasEntry(m, s)
                                                      THEN Grown(m, s).first ELSE Null])
              /\ s = Last(m)
          BY <1>3, <2>3 DEF Takes, Received
        <4>. QED  BY <4>1
      <3>2. /\ Len(delivered') = Len(delivered) + 1 /\ Len(delivered) \in Nat
            /\ delivered'[Len(delivered) + 1].msg = m
            /\ \A i \in 1..Len(delivered) : delivered'[i] = delivered[i]
        BY <1>1, <3>1
      <3>3. ASSUME NEW i \in 1..Len(completed), NEW j \in 1..Len(completed), i < j,
                   completed[i] \notin Disturbed, completed[j] \notin Disturbed, completed[j] = m
            PROVE  \E a \in 1..Len(delivered) : delivered[a].msg = completed[i]
        <4> DEFINE n == completed[i]  p == LastChunk(n)  q == LastChunk(m)
        <4>1. n \in Posted
          BY DEF Completion
        <4>2. p \in Chunk /\ q \in Chunk /\ p.msg = n /\ q.msg = m
              /\ p.seq = Last(p.msg) /\ q.seq = Last(q.msg)
          BY <4>1, LastIsChunk DEF LastChunk
        <4>3. Sent(q)
          BY <1>3, <3>1, Arrival DEF LastChunk
        <4>4. Taken(p)
          <5> HIDE DEF p, q
          <5>. QED  BY <3>3, <4>2, <4>3 DEF NoneOvertaken, Further, IsLast
        <4>. QED  BY <3>3, <4>1, <4>4 DEF Arrived, Done
      <3>4. ASSUME NEW i \in 1..Len(completed), NEW j \in 1..Len(completed), i < j,
                   completed[i] \notin Disturbed, completed[j] \notin Disturbed,
                   NEW b \in 1..Len(delivered'), delivered'[b].msg = completed[j]
            PROVE  \E a \in 1..(b - 1) : delivered'[a].msg = completed[i]
        <4>1. CASE b \in 1..Len(delivered)
          <5>1. PICK a \in 1..(b - 1) : delivered[a].msg = completed[i]
            BY <3>2, <3>4, <4>1 DEF UndisturbedInOrder
          <5>. QED  BY <3>2, <4>1, <5>1
        <4>2. CASE b = Len(delivered) + 1
          <5>1. PICK a \in 1..Len(delivered) : delivered[a].msg = completed[i]
            BY <3>2, <3>3, <3>4, <4>2
          <5>. QED  BY <3>2, <4>2, <5>1
        <4>. QED  BY <3>2, <4>1, <4>2
      <3>. QED  BY <2>1, <3>4 DEF UndisturbedInOrder, Disturbed
    <2>. QED  BY <2>2, <2>3
  <1>. QED  BY <1>2, <1>3

LEMMA OrderInit ==
  ASSUME Init
  PROVE  OrderInv
  <1>1. /\ completed = <<>> /\ delivered = <<>> /\ queue = <<>> /\ taken = <<>>
        /\ inFlight = <<>> /\ popped = Null
    BY DEF Init, Handoff!Init
  <1>2. \A p \in Chunk : ~Underway(p)
    BY <1>1, ByeIsNoChunk DEF Underway, Queued, Sent, Taken
  <1>. QED  BY <1>1, <1>2, FullInit DEF OrderInv, Completion, NoneOvertaken, UndisturbedInOrder

LEMMA OrderStep ==
  ASSUME OrderInv, [Next]_vars
  PROVE  OrderInv'
  <1>1. FullInv' /\ StepCase
    BY FullStep, StepCases DEF OrderInv, FullInv, RecvInv, WayInv
  <1>2. WayInv /\ WayInv'
    BY <1>1 DEF OrderInv, FullInv, RecvInv
  <1>3. Completion' /\ NoneOvertaken'
    BY <1>1, <1>2, CompletionStep, NoneOvertakenStep DEF OrderInv
  <1>. QED  BY <1>1, <1>3, UndisturbedInOrderStep DEF OrderInv

LEMMA OrderInvariance == Spec => []OrderInv
  <1>1. Init => OrderInv
    BY OrderInit
  <1>2. OrderInv /\ [Next]_vars => OrderInv'
    BY OrderStep
  <1>. QED  BY <1>1, <1>2, PTL DEF Spec

(* Messages that were neither queued again nor lost arrive in the order of *)
(* their last chunks, whatever happens to the ones between them.           *)
THEOREM InOrderOfPosting == Spec => []UndisturbedInOrder
  <1>1. OrderInv => UndisturbedInOrder
    BY DEF OrderInv
  <1>. QED  BY <1>1, OrderInvariance, PTL

-----------------------------------------------------------------------------
(***************************************************************************)
(* The refinement.                                                         *)
(***************************************************************************)
Contents == {Null} \union {0..(ChunkTotalCount(n) - 1) : n \in Sizes}
posted == [m \in Posted |-> Content(m)]

LEMMA PostedStays ==
  ASSUME UNCHANGED size
  PROVE  UNCHANGED posted
  BY DEF posted, Posted, Content, Last

(* A step that neither accepts, nor damages, nor delivers is invisible.    *)
LEMMA Stutter ==
  ASSUME UNCHANGED <<size, completed, lost, retried, delivered>>
  PROVE  UNCHANGED Service!vars
  BY PostedStays DEF Service!vars, posted, Disturbed

LEMMA ServiceInit ==
  ASSUME Init
  PROVE  Service!Init
  <1>1. size = <<>> /\ completed = <<>> /\ retried = {} /\ lost = {} /\ delivered = <<>>
    BY DEF Init
  <1>2. posted = <<>>
    BY <1>1 DEF posted, Posted
  <1>. QED  BY <1>1, <1>2 DEF Service!Init, posted, Disturbed

LEMMA PostedMessages ==
  ASSUME TypeOK
  PROVE  /\ Len(posted) = Len(size) /\ Len(size) \in Nat /\ DOMAIN posted = Posted
         /\ posted \in Seq(Contents) /\ Service!Messages = Posted
         /\ \A m \in Posted : posted[m] = Content(m)
  <1>1. Len(size) \in Nat /\ Posted = 1..Len(size)
    BY DEF TypeOK, Posted
  <1>2. ASSUME NEW m \in Posted PROVE Content(m) \in Contents
    BY <1>2, PostedSize DEF Content, Contents, Last
  <1>3. DOMAIN posted = 1..Len(size) /\ \A m \in Posted : posted[m] = Content(m)
    BY <1>1 DEF posted
  <1>4. posted \in Seq(Contents) /\ Len(posted) = Len(size)
    BY <1>1, <1>2 DEF posted
  <1>. QED  BY <1>1, <1>3, <1>4 DEF Service!Messages, posted

LEMMA ServicePost ==
  ASSUME TypeOK, Known, NEW t \in Posters, NEW n \in Sizes, Posts(t, n)
  PROVE  \E c \in Contents : Service!Post(c)
  <1> DEFINE c == IF n = 0 THEN Null ELSE 0..(ChunkTotalCount(n) - 1)
  <1>1. c \in Contents
    BY DEF Contents
  <1>2. UNCHANGED <<completed, lost, retried, delivered>> /\ size' = Append(size, n)
    BY DEF Posts
  <1>3. /\ Len(size) \in Nat /\ Len(size') = Len(size) + 1 /\ size'[Len(size) + 1] = n
        /\ \A m \in 1..Len(size) : size'[m] = size[m]
    BY <1>2 DEF TypeOK
  <1>4. /\ DOMAIN posted' = 1..(Len(size) + 1) /\ posted'[Len(size) + 1] = c
        /\ \A m \in 1..Len(size) : posted'[m] = Content(m)
    BY <1>3 DEF posted, Posted, Content, Last
  <1>5. /\ posted \in Seq(Contents) /\ Len(posted) = Len(size)
        /\ \A m \in 1..Len(size) : posted[m] = Content(m)
    BY PostedMessages DEF Posted
  <1> HIDE DEF c
  <1>6. /\ DOMAIN Append(posted, c) = 1..(Len(size) + 1) /\ Append(posted, c)[Len(size) + 1] = c
        /\ \A m \in 1..Len(size) : Append(posted, c)[m] = Content(m)
    BY <1>1, <1>3, <1>5
  <1>7. posted' = Append(posted, c)
    <2>1. Append(posted, c) \in Seq(Contents) /\ Len(Append(posted, c)) = Len(size) + 1
      BY <1>1, <1>5
    <2>2. posted' \in Seq(Contents) /\ Len(posted') = Len(size) + 1
      <3>1. posted' = [m \in 1..(Len(size) + 1) |-> posted'[m]]
        BY <1>4 DEF posted
      <3>2. \A m \in 1..(Len(size) + 1) : posted'[m] \in Contents
        BY <1>1, <1>3, <1>4, <1>5
      <3>. QED  BY <1>3, <3>1, <3>2
    <2>3. \A m \in 1..(Len(size) + 1) : posted'[m] = Append(posted, c)[m]
      BY <1>3, <1>4, <1>6
    <2>. QED  BY <2>1, <2>2, <2>3, SeqEqual
  <1>. QED  BY <1>1, <1>2, <1>7 DEF Service!Post, posted, Disturbed

LEMMA ServiceAccept ==
  ASSUME WayInv, Completion, NEW t \in Posters, Pushes(t), IsLast(posting[t]),
         completed' = Append(completed, posting[t].msg)
  PROVE  \E m \in Posted : Service!Accept(m)
  <1>1. posting[t].msg \in Posted /\ posting[t] # Null
    BY DEF WayInv, Pushes, Known, Real
  <1>2. ~ \E i \in 1..Len(completed) : completed[i] = posting[t].msg
    BY <1>1 DEF Completion
  <1>3. UNCHANGED <<size, lost, retried, delivered>>
    BY DEF Pushes
  <1>. QED  BY <1>1, <1>2, <1>3, PostedStays DEF Service!Accept, Service!Accepted, posted, Disturbed

LEMMA ServiceDamage ==
  ASSUME TypeOK, Known, TypeOK', Known',
         \/ \E t \in Posters : Refuses(t)
         \/ Sends \/ Drops \/ Retries \/ Clears \/ Replaces
  PROVE  \E hit \in SUBSET Posted : Service!Damage(hit)
  <1>1. UNCHANGED <<size, completed, delivered>> /\ Disturbed \subseteq Disturbed'
    BY DEF Refuses, Sends, Drops, Retries, Clears, Replaces, Disturbed
  <1>2. ASSUME NEW S, Disturbed' = Disturbed \union S, S \subseteq Posted
        PROVE  \E hit \in SUBSET Posted : Service!Damage(hit)
    <2>1. Service!Damage(S)
      BY <1>1, <1>2, PostedStays DEF Service!Damage, posted, Disturbed
    <2>. QED  BY <1>2, <2>1
  <1>3. MsgsOf(queue) \subseteq Posted /\ MsgsOf(inFlight) \subseteq Posted
    BY MsgsPosted
  <1>4. ASSUME NEW t \in Posters, Refuses(t) PROVE \E hit \in SUBSET Posted : Service!Damage(hit)
    <2>1. posting[t].msg \in Posted
      BY <1>4 DEF Refuses, Known, Real
    <2>2. Disturbed' = Disturbed \union {posting[t].msg}
      BY <1>4 DEF Refuses, Disturbed
    <2>. QED  BY <1>2, <2>1, <2>2
  <1>5. CASE Drops \/ Retries
    <2>1. popped.msg \in Posted
      BY <1>5 DEF Drops, Retries, Known, Real
    <2>2. Disturbed' = Disturbed \union {popped.msg}
      BY <1>5 DEF Drops, Retries, Disturbed
    <2>. QED  BY <1>2, <2>1, <2>2
  <1>6. CASE Sends \/ Replaces
    <2>1. Disturbed' = Disturbed \union MsgsOf(inFlight)
      BY <1>6 DEF Sends, Replaces, Disturbed
    <2>. QED  BY <1>2, <1>3, <2>1
  <1>7. CASE Clears
    <2>1. Disturbed' = Disturbed \union MsgsOf(queue)
      BY <1>7 DEF Clears, Disturbed
    <2>. QED  BY <1>2, <1>3, <2>1
  <1>. QED  BY <1>4, <1>5, <1>6, <1>7

LEMMA ArrivesNext ==
  ASSUME FullInv'
  PROVE  UndisturbedArrives'
  BY DEF FullInv, Arrived, Done, Content, UndisturbedArrives

LEMMA ServiceDeliver ==
  ASSUME OrderInv, OrderInv', StepCase, NEW m \in Posted, NEW s \in 0..Last(m), Takes(m, s),
         delivered' # delivered
  PROVE  \E data \in {posted[m], Null} : Service!Deliver(m, data)
  <1> USE DEF OrderInv, FullInv, RecvInv, WayInv
  <1> DEFINE data == IF HasEntry(m, s) THEN Grown(m, s).first ELSE Null
             d == Len(delivered) + 1
  <1>1. s = Last(m) /\ delivered' = Append(delivered, [msg |-> m, data |-> data])
    <2>1. s = Last(m) /\ delivered' = Append(delivered, [msg |-> m, data |-> IF HasEntry(m, s)
                                                        THEN Grown(m, s).first ELSE Null])
      <3> HIDE DEF data, d
      <3>. QED  BY DEF Takes, Received
    <2>. QED  BY <2>1
  <1>2. UNCHANGED <<size, completed, lost, retried>>
    BY DEF Takes
  <1>3. PICK p \in Chunk : /\ p = LastChunk(m) /\ p.msg = m /\ IsLast(p)
                           /\ Sent(p) /\ ~Taken(p) /\ Taken(p)'
    <2>1. LastChunk(m) \in Chunk /\ Sent(LastChunk(m)) /\ ~Taken(LastChunk(m))
      BY <1>1, Arrival DEF LastChunk
    <2>2. ASSUME NEW r \in Chunk, r = LastChunk(m)
          PROVE  Sent(r) /\ ~Taken(r) /\ Taken(r)'
      BY <2>1, <2>2, Moves
    <2>3. ASSUME NEW r \in Chunk, r = LastChunk(m)
          PROVE  r.msg = m /\ IsLast(r)
      BY <2>3 DEF IsLast, LastChunk
    <2>. QED  BY <2>1, <2>2, <2>3
  <1>4. Service!Accepted(m)
    <2>1. Completed(m)
      BY <1>3 DEF Completion, Underway
    <2>. QED  BY <2>1 DEF Service!Accepted, Completed
  <1>5. ~Service!Delivered(m)
    BY <1>3 DEF Service!Delivered, Once
  <1>6. Last(m)' = Last(m) /\ size'[m] = size[m] /\ m \in Posted' /\ LastChunk(m)' = p
    BY <1>2, <1>3 DEF Posted, Last, LastChunk
  <1> HIDE DEF data
  <1>7. /\ d \in 1..Len(delivered') /\ Len(delivered) \in Nat /\ Len(delivered') = d
        /\ delivered'[d].msg = m /\ delivered'[d].data = data
        /\ \A i \in 1..Len(delivered) : delivered'[i] = delivered[i]
    BY <1>1 DEF TypeOK
  <1>8. data \in {Content(m), Null}
    <2>1. CASE data = Null
      BY <2>1
    <2>2. CASE data # Null
      <3>1. HasEntry(m, s)
        BY <2>2 DEF data
      <3>2. size[m] # 0
        BY <3>1, GrownCounted
      <3>3. data = 0..Last(m)
        BY <1>6, <1>7, <2>2 DEF Whole, WholeMessages
      <3>. QED  BY <3>2, <3>3 DEF Content
    <2>. QED  BY <2>1, <2>2
  <1>9. ASSUME m \notin Disturbed PROVE data = Content(m)
    <2>1. m \notin Disturbed' /\ Content(m)' = Content(m)
      BY <1>2, <1>9 DEF Disturbed, Content, Last
    <2>2. UndisturbedArrives'
      BY ArrivesNext
    <2>3. PICK i \in 1..Len(delivered') : delivered'[i].msg = m /\ delivered'[i].data = Content(m)
      <3>1. Taken(LastChunk(m))'
        BY <1>3, <1>6
      <3>. QED  BY <1>6, <2>1, <2>2, <3>1 DEF UndisturbedArrives
    <2>4. i = d
      BY <1>7, <2>3 DEF Once, DeliveredOnce
    <2>. QED  BY <1>7, <2>3, <2>4
  <1>10. ASSUME m \notin Disturbed PROVE Service!InTurn(m)
    <2> SUFFICES ASSUME NEW i \in 1..Len(completed), NEW j \in 1..Len(completed),
                        i < j, completed[j] = m, completed[i] \notin Disturbed
                 PROVE  \E a \in 1..Len(delivered) : delivered[a].msg = completed[i]
      BY DEF Service!InTurn, Service!Delivered
    <2>1. Disturbed' = Disturbed /\ completed' = completed
      BY <1>2 DEF Disturbed
    <2>2. PICK a \in 1..(d - 1) : delivered'[a].msg = completed[i]
      BY <1>7, <1>10, <2>1 DEF UndisturbedInOrder
    <2>. QED  BY <1>7, <2>2
  <1>11. posted[m] = Content(m)
    BY PostedMessages
  <1>12. Service!Deliver(m, data)
    <2>1. UNCHANGED posted /\ UNCHANGED Disturbed /\ UNCHANGED completed
      BY <1>2, PostedStays DEF Disturbed
    <2>. QED  BY <1>1, <1>4, <1>5, <1>9, <1>10, <1>11, <2>1 DEF Service!Deliver, posted
  <1>. QED  BY <1>8, <1>11, <1>12

LEMMA ServiceStep ==
  ASSUME OrderInv, OrderInv', [Next]_vars
  PROVE  [Service!Next]_(Service!vars)
  <1> USE DEF OrderInv, FullInv, RecvInv, WayInv
  <1>1. StepCase
    BY StepCases
  <1>2. Service!Messages = Posted /\ \A m \in Posted : posted[m] = Content(m)
    BY PostedMessages
  <1>3. CASE \E t \in Posters : \E n \in Sizes : Posts(t, n)
    <2>1. \E c \in Contents : Service!Post(c)
      BY <1>3, ServicePost
    <2>. QED  BY <2>1 DEF Service!Next, Contents
  <1>4. ASSUME NEW t \in Posters, Pushes(t) PROVE [Service!Next]_(Service!vars)
    <2>1. CASE IsLast(posting[t])
      <3>1. \E m \in Posted : Service!Accept(m)
        BY <1>1, <1>4, <2>1, Acceptance, ServiceAccept
      <3>. QED  BY <1>2, <3>1 DEF Service!Next
    <2>2. CASE ~IsLast(posting[t])
      <3>1. UNCHANGED <<size, lost, retried, delivered>> /\ Real(posting[t])
        BY <1>4 DEF Pushes, Known
      <3>2. posting[t].seq < Last(posting[t].msg)
        BY <2>2, <3>1, PostedSize DEF Real, IsLast
      <3>3. UNCHANGED completed
        BY <1>4, <3>2 DEF Pushes
      <3>. QED  BY <3>1, <3>3, Stutter
    <2>. QED  BY <2>1, <2>2
  <1>5. CASE (\E t \in Posters : Refuses(t)) \/ Sends \/ Drops \/ Retries \/ Clears \/ Replaces
    <2>1. \E hit \in SUBSET Posted : Service!Damage(hit)
      BY <1>5, ServiceDamage
    <2>. QED  BY <1>2, <2>1 DEF Service!Next
  <1>6. CASE Idles \/ Pops \/ TakesBye
    BY <1>6, Stutter DEF Idles, way, Pops, TakesBye
  <1>7. ASSUME NEW m \in Posted, NEW s \in 0..Last(m), Takes(m, s)
        PROVE  [Service!Next]_(Service!vars)
    <2>1. CASE delivered' = delivered
      BY <1>7, <2>1, Stutter DEF Takes
    <2>2. CASE delivered' # delivered
      <3>1. \E data \in {posted[m], Null} : Service!Deliver(m, data)
        BY <1>1, <1>7, <2>2, ServiceDeliver
      <3>. QED  BY <1>2, <3>1 DEF Service!Next, posted
    <2>. QED  BY <2>1, <2>2
  <1>. QED  BY <1>1, <1>3, <1>4, <1>5, <1>6, <1>7 DEF StepCase

(* The way of the messages through queue, segment and recv_msg_map_ gives  *)
(* the application the service that MessageService describes.              *)
THEOREM GivesTheService == Spec => ServiceSpec
  <1>1. Init => Service!Init
    BY ServiceInit
  <1>2. OrderInv /\ OrderInv' /\ [Next]_vars => [Service!Next]_(Service!vars)
    BY ServiceStep
  <1>. QED  BY <1>1, <1>2, OrderInvariance, PTL DEF Spec, ServiceSpec, Service!Spec
=============================================================================
