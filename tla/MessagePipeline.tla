-------------------------- MODULE MessagePipeline --------------------------
(***************************************************************************)
(* The way of a message in one direction of an IpcShmChannel: post cuts it *)
(* into packets and queues them, send_loop sends what it pops and queues   *)
(* again what it could not send, recv reassembles the message in           *)
(* recv_msg_map_ and hands it to the callback.                             *)
(*                                                                         *)
(* The segment between the two processes is the one-place buffer of        *)
(* SlotHandoff, which ChannelData implements.  A new session has a new     *)
(* segment; the queue and recv_msg_map_ survive.                           *)
(***************************************************************************)
EXTENDS PacketHeader, Sequences, FiniteSets

CONSTANTS
  Posters,    \* threads of the application that call PostMsg
  Sizes,      \* the sizes of the messages they post
  Cap,        \* DEFULT_BUFFER_CAP, the data a packet can carry
  FirstSeq,   \* msg_seq_picker_ at first: the constructor does not set it
  Null,       \* no message, no packet, a null pointer
  MaxMsgs,    \* bound: messages posted
  MaxBreaks   \* bound: times one side gives the other up

ASSUME SizeAssumption ==
  /\ Sizes \subseteq Nat
  /\ Cap \in Nat \ {0}
  /\ FirstSeq \in Int
  /\ MaxMsgs \in Nat /\ MaxBreaks \in Nat

(***************************************************************************)
(* A message is its msgSeq.  post cuts a message that is longer than a     *)
(* packet into chunks, all of them full but the last.                      *)
(***************************************************************************)
Msg == 1..MaxMsgs

ChunkTotalCount_Floor(n) == IF n > Cap THEN n \div Cap ELSE 1  \* mutant: rounds down
ChunkTotalCount(n) == IF n > Cap THEN (n + Cap - 1) \div Cap ELSE 1
ChunkSize_Full(n, i) == Cap  \* mutant: the last chunk is as long as the others
ChunkSize(n, i) == IF Cap < n - i * Cap THEN Cap ELSE n - i * Cap

(* Messages whose length and chunks the header can count, and fewer of     *)
(* them than it can tell apart.                                            *)
ASSUME WidthAssumption ==
  /\ \A n \in Sizes : n < B3 /\ 2 * ChunkTotalCount(n) < B2
  /\ MaxMsgs <= B4

Chunk == [msg : Msg, seq : Nat]
Bye == [msg |-> 0, seq |-> 0]

ASSUME NullAssumption == Null \notin Chunk \union {Bye}

VARIABLES
  running,     \* running_ of the sending process
  connected,   \* send_channel_connected_
  size,        \* header.totalLen of each message posted, in order of msgSeq
  posting,     \* the message each poster is queueing, and its next chunk
  admitted,    \* posters past the test of running_ when it became false
  queue,       \* packet_que_
  sendPc,      \* where send_loop is
  popped,      \* the packet send_loop has popped
  stopPc,      \* where Stop is
  inFlight,    \* the segment: see SlotHandoff
  taken,       \* ... (over all sessions)
  closed,      \* ...
  flapped,     \* ...
  entries,     \* recv_msg_map_
  delivered,   \* history: messages given to the callback, in order
  completed,   \* history: messages in the order of their last push
  retried,     \* history: messages with a chunk queued again
  lost,        \* history: messages with a chunk dropped, cleared or overwritten
  breaks       \* number of times one side has given the other up

sender == <<running, connected, size, posting, admitted, stopPc>>
segment == <<inFlight, taken, closed, flapped>>
receiver == <<entries, delivered>>
history == <<completed, retried, lost>>
vars == <<sender, queue, sendPc, popped, segment, receiver, history, breaks>>

Handoff == INSTANCE SlotHandoff WITH Packet <- Chunk \union {Bye}, Farewell <- {Bye}

Last(m) == ChunkTotalCount(size[m]) - 1

(* The header post builds for a chunk.  recv takes the type from ev_type,  *)
(* and so the header carries none here.                                    *)
HeaderOf(p) ==
  [ type |-> 0, totalLen |-> size[p.msg],
    chunkSeq |-> p.seq, chunkTotalCount |-> ChunkTotalCount(size[p.msg]),
    msgSeq |-> FirstSeq + p.msg ]

MsgsOf(packets) == {packets[i].msg : i \in 1..Len(packets)} \ {Bye.msg}
-----------------------------------------------------------------------------
(***************************************************************************)
(* The application: PostMsg.                                               *)
(***************************************************************************)

(* post draws a msgSeq and builds the header.                              *)
Post(t) ==
  /\ posting[t] = Null
  /\ Len(size) < MaxMsgs
  /\ \E n \in Sizes : size' = Append(size, n)
  /\ posting' = [posting EXCEPT ![t] = [msg |-> Len(size) + 1, seq |-> 0]]
  /\ UNCHANGED <<running, connected, admitted, stopPc, queue, sendPc, popped, segment, receiver>>
  /\ UNCHANGED <<history, breaks>>

(* push_packet of the next chunk; post goes on with the one after it.  The *)
(* test of running_ stands before the mutex of the queue: StopRunning      *)
(* chooses the posters that have passed it by then and push later.         *)
Push(t) ==
  /\ posting[t] # Null
  /\ running \/ t \in admitted
  /\ admitted' = admitted \ {t}
  /\ LET p == posting[t]
     IN  /\ queue' = Append(queue, p)
         /\ IF p.seq < Last(p.msg)
            THEN /\ posting' = [posting EXCEPT ![t].seq = @ + 1]
                 /\ UNCHANGED completed
            ELSE /\ posting' = [posting EXCEPT ![t] = Null]
                 /\ completed' = Append(completed, p.msg)
  /\ UNCHANGED <<running, connected, size, stopPc, sendPc, popped, segment, receiver>>
  /\ UNCHANGED <<retried, lost, breaks>>

(* push_packet finds running_ false, and post returns false: the chunks    *)
(* queued before stay queued.                                              *)
PushRefused(t) ==
  /\ posting[t] # Null
  /\ t \notin admitted
  /\ ~running
  /\ posting' = [posting EXCEPT ![t] = Null]
  /\ lost' = lost \union {posting[t].msg}
  /\ UNCHANGED <<running, connected, size, admitted, stopPc, queue, sendPc, popped, segment>>
  /\ UNCHANGED <<receiver, completed, retried, breaks>>
-----------------------------------------------------------------------------
(***************************************************************************)
(* send_loop.                                                              *)
(***************************************************************************)

(* pop_packet, which waits for a packet or the end of the connection.      *)
Pop_Peeks ==  \* mutant: leaves the packet in the queue
  /\ sendPc = "pop"
  /\ connected
  /\ queue # <<>>
  /\ popped' = Head(queue)
  /\ sendPc' = "send"
  /\ UNCHANGED <<sender, queue, segment, receiver, history, breaks>>

Pop_Lifo ==  \* mutant: takes the newest packet
  /\ sendPc = "pop"
  /\ connected
  /\ queue # <<>>
  /\ popped' = queue[Len(queue)]
  /\ queue' = SubSeq(queue, 1, Len(queue) - 1)
  /\ sendPc' = "send"
  /\ UNCHANGED <<sender, segment, receiver, history, breaks>>

Pop_NotTheLast ==  \* mutant: waits for more than one packet
  /\ sendPc = "pop"
  /\ connected
  /\ Len(queue) > 1
  /\ popped' = Head(queue)
  /\ queue' = Tail(queue)
  /\ sendPc' = "send"
  /\ UNCHANGED <<sender, segment, receiver, history, breaks>>

Pop ==
  /\ sendPc = "pop"
  /\ connected
  /\ queue # <<>>
  /\ popped' = Head(queue)
  /\ queue' = Tail(queue)
  /\ sendPc' = "send"
  /\ UNCHANGED <<sender, segment, receiver, history, breaks>>

PopDisconnected ==
  /\ sendPc = "pop"
  /\ ~connected
  /\ sendPc' = "reset"
  /\ UNCHANGED <<sender, queue, popped, segment, receiver, history, breaks>>

(* send_packet succeeds.  Where a put replaces an unread packet, that one  *)
(* is lost.                                                                *)
SendSucceeds ==
  /\ sendPc = "send"
  /\ running /\ connected
  /\ Handoff!Put(popped)
  /\ lost' = lost \union MsgsOf(inFlight)
  /\ popped' = Null
  /\ sendPc' = "pop"
  /\ UNCHANGED <<sender, queue, receiver, completed, retried, breaks>>

(* send_packet fails: the connection fell, this process stops, the         *)
(* receiver has left, or the deadline passed while the segment held an     *)
(* unread packet, of this queue or of a thread that sends a hello, a ping  *)
(* or a pong.  It is always possible, then.                                *)
SendFails ==
  /\ sendPc = "send"
  /\ sendPc' = "failed"
  /\ UNCHANGED <<sender, queue, popped, segment, receiver, history, breaks>>

(* The packet goes to the back of the queue, if push_packet accepts it ... *)
Retry ==
  /\ sendPc = "failed"
  /\ connected
  /\ IF running
     THEN sendPc' = "requeue" /\ UNCHANGED <<lost, popped>>
     ELSE /\ sendPc' = "pop"
          /\ lost' = lost \union {popped.msg}
          /\ popped' = Null
  /\ UNCHANGED <<sender, queue, segment, receiver, completed, retried, breaks>>

Requeued_Forgets(p) == queue  \* mutant: no retry
Requeued(p) == Append(queue, p)
Requeue ==
  /\ sendPc = "requeue"
  /\ queue' = Requeued(popped)
  /\ retried' = retried \union {popped.msg}
  /\ popped' = Null
  /\ sendPc' = "pop"
  /\ UNCHANGED <<sender, segment, receiver, completed, lost, breaks>>

(* ... or is dropped when the connection has fallen.                       *)
Drop_KeepsPacket ==  \* mutant: does not forget the packet
  /\ sendPc = "failed"
  /\ ~connected
  /\ lost' = lost \union {popped.msg}
  /\ sendPc' = "reset"
  /\ UNCHANGED <<sender, queue, popped, segment, receiver, completed, retried, breaks>>

Drop ==
  /\ sendPc = "failed"
  /\ ~connected
  /\ lost' = lost \union {popped.msg}
  /\ popped' = Null
  /\ sendPc' = "reset"
  /\ UNCHANGED <<sender, queue, segment, receiver, completed, retried, breaks>>

(* reset_send_channel; the next turn of the outer loop, if there is one.   *)
Reset ==
  /\ sendPc = "reset"
  /\ sendPc' = IF running THEN "open" ELSE "ended"
  /\ UNCHANGED <<sender, queue, popped, segment, receiver, history, breaks>>

(* open_shared_memory finds the segment the receiver created after it left *)
(* the old one; whatever was in the old one is lost.                       *)
Reconnect ==
  /\ sendPc = "open"
  /\ running
  /\ closed
  /\ connected' = TRUE
  /\ inFlight' = <<>>
  /\ closed' = FALSE
  /\ flapped' = FALSE
  /\ lost' = lost \union MsgsOf(inFlight)
  /\ sendPc' = "pop"
  /\ UNCHANGED <<running, size, posting, admitted, stopPc, queue, popped, taken, receiver>>
  /\ UNCHANGED <<completed, retried, breaks>>

OpenGivesUp ==
  /\ sendPc = "open"
  /\ ~running
  /\ sendPc' = "ended"
  /\ UNCHANGED <<sender, queue, popped, segment, receiver, history, breaks>>
-----------------------------------------------------------------------------
(***************************************************************************)
(* The other threads of the sending process.                               *)
(***************************************************************************)

(* The heartbeat gives the peer up.                                        *)
Disconnect ==
  /\ connected
  /\ breaks < MaxBreaks
  /\ connected' = FALSE
  /\ breaks' = breaks + 1
  /\ UNCHANGED <<running, size, posting, admitted, stopPc, queue, sendPc, popped, segment>>
  /\ UNCHANGED <<receiver, history>>

(* A hello of the peer raises the flag before send_loop has looked at it.  *)
(* A call of send_packet that has waited through the fall and the rise may *)
(* replace an unread packet: one of send_loop, or the bye of Stop.  No     *)
(* other can: a hello precedes every packet of its session, a ping is sent *)
(* by the only thread that lowers the flag (342), and a pong by the one    *)
(* that raises it here (213).                                              *)
HearHello ==
  /\ ~connected
  /\ connected' = TRUE
  /\ Handoff!Flap
  /\ UNCHANGED <<running, size, posting, admitted, stopPc, queue, sendPc, popped, receiver>>
  /\ UNCHANGED <<history, breaks>>

(* Stop: bye, which may fail; running_ = false; clear_send_queue.          *)
SayBye ==
  /\ stopPc = "up"
  /\ \/ /\ connected /\ sendPc \notin {"open", "ended"}
        /\ Handoff!Put(Bye)
        /\ lost' = lost \union MsgsOf(inFlight)
     \/ UNCHANGED <<segment, lost>>
  /\ stopPc' = "bye"
  /\ UNCHANGED <<running, connected, size, posting, admitted, queue, sendPc, popped, receiver>>
  /\ UNCHANGED <<completed, retried, breaks>>

StopRunning ==
  /\ stopPc = "bye"
  /\ running' = FALSE
  /\ admitted' \in SUBSET {t \in Posters : posting[t] # Null}
  /\ stopPc' = "clear"
  /\ UNCHANGED <<connected, size, posting, queue, sendPc, popped, segment, receiver>>
  /\ UNCHANGED <<history, breaks>>

ClearSendQueue ==
  /\ stopPc = "clear"
  /\ queue' = <<>>
  /\ lost' = lost \union MsgsOf(queue)
  /\ stopPc' = "stopped"
  /\ UNCHANGED <<running, connected, size, posting, admitted, sendPc, popped, segment, receiver>>
  /\ UNCHANGED <<completed, retried, breaks>>
-----------------------------------------------------------------------------
(***************************************************************************)
(* The receiver.                                                           *)
(***************************************************************************)

(* recv_msg_map_ maps the msgSeq of an incomplete message, as it came over *)
(* the wire, to the bytes received (second) and its buffer: the chunks     *)
(* copied into it (first) and the length it was allocated with (len).      *)
Enter(map, k, entry) == [x \in DOMAIN map \union {k} |-> IF x = k THEN entry ELSE map[x]]
Erase_Keeps(map, k) == map  \* mutant: leaves the entry in the map
Erase(map, k) == [x \in DOMAIN map \ {k} |-> map[x]]

(* The first chunk of a message that is not empty makes its entry; every   *)
(* chunk that finds one is copied into it.                                 *)
Opened(h) ==
  IF h.chunkSeq = 0 /\ h.totalLen # 0
  THEN Enter(entries, h.msgSeq, [second |-> 0, first |-> {}, len |-> h.totalLen])
  ELSE entries

Copied(h, dataSize) ==
  LET map == Opened(h)
      k   == h.msgSeq
  IN  IF k \in DOMAIN map
      THEN Enter(map, k, [second |-> map[k].second + dataSize,
                          first  |-> map[k].first \union {h.chunkSeq},
                          len    |-> map[k].len])
      ELSE map

Incomplete_Ignored(map, h) == FALSE  \* mutant: no test of the bytes received
Incomplete(map, h) ==
  h.msgSeq \in DOMAIN map /\ map[h.msgSeq].second # h.totalLen

(* What recv does with a packet of a message: only the last chunk ends the *)
(* message, which is dropped if bytes are missing from its entry, and      *)
(* otherwise handed to the callback, without data if it has no entry.      *)
Receive(p) ==
  LET h   == OnTheWire(HeaderOf(p))
      map == Copied(h, ChunkSize(size[p.msg], p.seq))
  IN  \/ /\ h.chunkSeq + 1 < h.chunkTotalCount
         /\ entries' = map
         /\ UNCHANGED delivered
      \/ /\ h.chunkSeq + 1 >= h.chunkTotalCount
         /\ entries' = Erase(map, h.msgSeq)
         /\ IF Incomplete(map, h)
            THEN UNCHANGED delivered
            ELSE delivered' = Append(delivered,
                   [msg  |-> p.msg,
                    data |-> IF h.msgSeq \in DOMAIN map
                             THEN map[h.msgSeq].first ELSE Null])

RecvMessage ==
  /\ Handoff!Take
  /\ Head(inFlight) # Bye
  /\ Receive(Head(inFlight))
  /\ UNCHANGED <<sender, queue, sendPc, popped, history, breaks>>

RecvBye ==
  /\ Handoff!Take
  /\ Head(inFlight) = Bye
  /\ UNCHANGED <<sender, queue, sendPc, popped, receiver, history, breaks>>

(* The receiver gives the sender up and leaves the segment.                *)
RecvLeaves ==
  /\ breaks < MaxBreaks
  /\ Handoff!Close
  /\ breaks' = breaks + 1
  /\ UNCHANGED <<sender, queue, sendPc, popped, receiver, history>>
-----------------------------------------------------------------------------
Init ==
  /\ running = TRUE
  /\ connected = TRUE
  /\ size = <<>>
  /\ posting = [t \in Posters |-> Null]
  /\ admitted = {}
  /\ queue = <<>>
  /\ sendPc = "pop"
  /\ popped = Null
  /\ stopPc = "up"
  /\ Handoff!Init
  /\ entries = <<>>
  /\ delivered = <<>>
  /\ completed = <<>>
  /\ retried = {}
  /\ lost = {}
  /\ breaks = 0

Application ==
  \/ \E t \in Posters : Post(t) \/ Push(t) \/ PushRefused(t)
  \/ SayBye \/ StopRunning \/ ClearSendQueue

SendLoop ==
  \/ Pop \/ PopDisconnected
  \/ SendSucceeds \/ SendFails \/ Retry \/ Requeue \/ Drop
  \/ Reset \/ Reconnect \/ OpenGivesUp

Next ==
  \/ Application
  \/ SendLoop
  \/ Disconnect \/ HearHello
  \/ RecvMessage \/ RecvBye \/ RecvLeaves

(***************************************************************************)
(* Fairness: every thread goes on.  That a packet with a chance to be sent *)
(* again and again is sent in the end is assumed, not shown: the receiver  *)
(* empties the segment within the deadline now and then.  Nobody has to    *)
(* post, to stop or to give the other side up.                             *)
(***************************************************************************)
Packets == UNION {[msg : Msg, seq : 0..(ChunkTotalCount(n) - 1)] : n \in Sizes}
Fairness ==
  /\ \A t \in Posters : WF_vars(Push(t) \/ PushRefused(t))
  /\ WF_vars(StopRunning \/ ClearSendQueue)
  /\ WF_vars(Pop \/ PopDisconnected \/ Retry \/ Requeue \/ Drop \/ Reset \/ OpenGivesUp)
  /\ \A p \in Packets : SF_vars(SendSucceeds /\ popped = p)
  /\ WF_vars(SendSucceeds \/ SendFails)
  /\ WF_segment(Handoff!Take)

Spec == Init /\ [][Next]_vars
FairSpec == Spec /\ Fairness
-----------------------------------------------------------------------------
(***************************************************************************)
(* Properties.                                                             *)
(***************************************************************************)
ControlPc == {"pop", "send", "failed", "requeue", "reset", "open", "ended"}
Entry == [second : Nat, first : SUBSET Nat, len : Nat]
Posted == 1..Len(size)

(* The key of a message in recv_msg_map_.                                  *)
Key(m) == OnTheWire(HeaderOf([msg |-> m, seq |-> 0])).msgSeq

TypeOK ==
  /\ running \in BOOLEAN /\ connected \in BOOLEAN
  /\ size \in Seq(Sizes)
  /\ posting \in [Posters -> Chunk \union {Null}]
  /\ admitted \subseteq {t \in Posters : posting[t] # Null}
  /\ queue \in Seq(Chunk)
  /\ sendPc \in ControlPc
  /\ popped \in Chunk \union {Null}
  /\ sendPc \in {"send", "failed", "requeue"} <=> popped # Null
  /\ stopPc \in {"up", "bye", "clear", "stopped"}
  /\ inFlight \in Seq(Chunk \union {Bye}) /\ Len(inFlight) <= 1
  /\ taken \in Seq(Chunk \union {Bye})
  /\ closed \in BOOLEAN /\ flapped \in BOOLEAN
  /\ DOMAIN entries \subseteq Int
  /\ \A k \in DOMAIN entries : entries[k] \in Entry
  /\ delivered \in Seq([msg : Msg, data : (SUBSET Nat) \union {Null}])
  /\ completed \in Seq(Msg)
  /\ retried \subseteq Msg /\ lost \subseteq Msg
  /\ breaks \in 0..MaxBreaks

Disturbed == retried \union lost
Chunks(m) == [msg : {m}, seq : 0..Last(m)]
LastChunk(m) == [msg |-> m, seq |-> Last(m)]
Taken(p) == \E i \in 1..Len(taken) : taken[i] = p

(* Every place where a chunk is: with the poster that has yet to queue it, *)
(* in the queue, in send_loop's hands, in the segment, taken out of it.    *)
At(where, packets, p) == {where} \X {i \in 1..Len(packets) : packets[i] = p}
Places(p) ==
  ({"post"} \X {t \in Posters : posting[t] # Null /\ posting[t].msg = p.msg
                                                  /\ posting[t].seq <= p.seq})
  \union At("queue", queue, p)
  \union (IF popped = p THEN {<<"send_loop", 1>>} ELSE {})
  \union At("segment", inFlight, p)
  \union At("taken", taken, p)

(* The callback never gets a message with a hole in it: data comes only    *)
(* with every chunk in place, whatever was retried, dropped or overwritten.*)
WholeMessages ==
  \A i \in 1..Len(delivered) :
    delivered[i].data # Null => delivered[i].data = 0..Last(delivered[i].msg)

(* No message reaches the callback twice.                                  *)
DeliveredOnce ==
  \A i, j \in 1..Len(delivered) : delivered[i].msg = delivered[j].msg => i = j

(* What the callback is to get of a message.                               *)
Content(m) == IF size[m] = 0 THEN Null ELSE 0..Last(m)

(* Trouble stays local: a message none of whose own chunks was queued      *)
(* again or lost arrives as it was posted, as soon as its last chunk does. *)
UndisturbedArrives ==
  \A m \in Posted \ Disturbed :
    Taken(LastChunk(m)) =>
      \E i \in 1..Len(delivered) :
        /\ delivered[i].msg = m
        /\ delivered[i].data = Content(m)

(* ... and such messages arrive in the order in which they were posted,    *)
(* which for concurrent posters is the order of their last chunks.         *)
UndisturbedInOrder ==
  \A i, j \in 1..Len(completed) :
    i < j /\ completed[i] \notin Disturbed /\ completed[j] \notin Disturbed =>
      \A b \in 1..Len(delivered) : delivered[b].msg = completed[j] =>
        \E a \in 1..(b - 1) : delivered[a].msg = completed[i]

(* All of this together is the service that MessageService describes.      *)
Service == INSTANCE MessageService
  WITH Contents  <- {Null} \union {0..(ChunkTotalCount(n) - 1) : n \in Sizes},
       posted    <- [m \in Posted |-> Content(m)],
       accepted  <- completed,
       damaged   <- Disturbed
ServiceSpec == Service!Spec

(* A retry neither loses nor doubles a packet: every chunk that post was   *)
(* given is in exactly one place, unless its message is known as lost.     *)
NoChunkForgotten ==
  \A m \in Posted \ lost : \A p \in Chunks(m) : \E place \in Places(p) : Places(p) = {place}

(* recv_msg_map_ does not grow with messages that are done: an entry       *)
(* belongs to a message that was disturbed, or that has more to come.      *)
NoLeftovers ==
  \A m \in Posted \ Disturbed : Taken(LastChunk(m)) => Key(m) \notin DOMAIN entries

(* No packet of a message that post has queued gets stuck on the way,      *)
(* however often send_loop queues it again: recv takes each of them out of *)
(* the segment in the end, unless one is lost or the session ends.         *)
SessionEnds == ~running \/ ~connected \/ closed \/ sendPc = "open"
PacketsArrive ==
  \A m \in Msg :
    (\E i \in 1..Len(completed) : completed[i] = m)
      ~> \/ m \in Posted /\ \A p \in Chunks(m) : Taken(p)
         \/ m \in lost \/ SessionEnds

(* The memcpy of recv stays inside the buffer: whatever recv finds under   *)
(* the key of the packet in the segment, after retries, sessions and       *)
(* messages that were given up, was allocated with room for this chunk.    *)
(* Messages whose length the header cannot count are not posted here (see  *)
(* TooLongArrivesShorter in PacketHeaderProofs for what becomes of them).  *)
CopiesInside ==
  \A i \in 1..Len(inFlight) : inFlight[i] # Bye =>
    LET p   == inFlight[i]
        h   == OnTheWire(HeaderOf(p))
        map == Opened(h)
    IN  h.msgSeq \in DOMAIN map =>
          h.chunkSeq * Cap + ChunkSize(size[p.msg], p.seq) <= map[h.msgSeq].len

(* Nobody stopped, the connection never broke, and nothing is on its way.  *)
NeverBroken == stopPc = "up" /\ breaks = 0
AllThrough ==
  /\ \A t \in Posters : posting[t] = Null
  /\ queue = <<>> /\ popped = Null /\ inFlight = <<>>

(* Every message that was posted is received, when nobody stopped and the  *)
(* connection never broke.                                                 *)
EveryMessageReceived ==
  NeverBroken /\ AllThrough =>
    \A m \in Posted : \E i \in 1..Len(delivered) : delivered[i].msg = m

(* What is true of it: a message that send_loop had to queue again may be  *)
(* lost, if it is cut into chunks; every other one is received, and whole. *)
OnlyRetriesLose ==
  NeverBroken /\ AllThrough =>
    \A m \in Posted : m \notin retried \/ Last(m) = 0 =>
      \E i \in 1..Len(delivered) :
        delivered[i].msg = m /\ delivered[i].data = Content(m)
=============================================================================
