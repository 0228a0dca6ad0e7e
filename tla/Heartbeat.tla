----------------------------- MODULE Heartbeat -----------------------------
(***************************************************************************)
(* The heartbeat between two processes: heart_beat_loop with ping() and    *)
(* pend_pong_count_, the answers of the recv thread (notify), the hello    *)
(* that resets the count, and the reconnects of send_loop around them.     *)
(*                                                                         *)
(* Each process receives from a one-place segment of its own and sends     *)
(* into the segment of the other.  What send_packet does inside the        *)
(* segment is module ChannelData, how a segment is found Rendezvous; here  *)
(* a put succeeds, or fails because the place stayed taken, the flag is    *)
(* down or there is no segment.                                            *)
(*                                                                         *)
(* pend_pong_count_ is an unsigned counter: W stands for the number of     *)
(* values of size_t.                                                       *)
(***************************************************************************)
EXTENDS Integers

CONSTANTS
    W,              \* values of pend_pong_count_: 2^64 in the code
    MAX_HEART_BEAT_FAILED_TIME,     \* 3 in the code
    MaxConnects     \* bound: connections each send_loop makes

ASSUME CounterAssumption ==
    /\ W \in Nat /\ MAX_HEART_BEAT_FAILED_TIME \in Nat /\ MaxConnects \in Nat
    /\ W > MAX_HEART_BEAT_FAILED_TIME + 1

Role == {"client", "server"}
Other(p) == IF p = "client" THEN "server" ELSE "client"

VARIABLES
    recvUp,     \* recv_channel_connected_
    sendUp,     \* send_channel_connected_
    pend,       \* pend_pong_count_
    slot,       \* the unread packet of the segment a process receives from
    hand,       \* the packet its recv thread has taken and is handling
    link,       \* what its send_channel_ is to the other's current segment
    sending,    \* where its send_loop is
    beat,       \* where its heart_beat_loop is
    connects,   \* connections made by its send_loop
    owed,       \* since its last hello: pings counted, less the answers to
                \* pings sent since
    late        \* since its last hello: answers to pings sent before it

channels == <<slot, hand, link, sending, connects>>
counts   == <<pend, owed, late>>
vars     == <<recvUp, sendUp, channels, beat, counts>>

-----------------------------------------------------------------------------
(***************************************************************************)
(* Packets.  "raised" is a hello between its two effects.  A ping is old,  *)
(* and so is the pong that answers it, when the process that sent the ping *)
(* has handled a hello since.                                              *)
(***************************************************************************)
Fresh(t) == [type |-> t, old |-> FALSE]
Old(t) == [type |-> t, old |-> TRUE]
None == Fresh("none")
Packet == {Fresh(t) : t \in {"hello", "raised", "ping", "pong"}}
            \cup {Old(t) : t \in {"ping", "pong"}}

Aged(pkt, t) == IF pkt = Fresh(t) THEN Old(t) ELSE pkt

TypeOK ==
    /\ recvUp \in [Role -> BOOLEAN] /\ sendUp \in [Role -> BOOLEAN]
    /\ pend \in [Role -> 0 .. W - 1]
    /\ slot \in [Role -> Packet \cup {None}]
    /\ hand \in [Role -> Packet \cup {None}]
    /\ link \in [Role -> {"none", "new", "attached", "stale"}]
    /\ sending \in [Role -> {"poll", "hello", "waited", "run"}]
    /\ beat \in [Role -> {"sleep", "ping", "count", "out", "lowered"}]
    /\ connects \in [Role -> 0 .. MaxConnects]
    /\ owed \in [Role -> Int] /\ late \in [Role -> Nat]
    /\ \A p \in Role : sending[p] = "poll" <=> link[p] \in {"none", "new"}

(* Both receivers listen; the flag for sending has no initial value. *)
Init ==
    /\ recvUp = [p \in Role |-> TRUE]
    /\ sendUp \in [Role -> BOOLEAN]
    /\ pend = [p \in Role |-> 0]
    /\ slot = [p \in Role |-> None]
    /\ hand = [p \in Role |-> None]
    /\ link = [p \in Role |-> "new"]
    /\ sending = [p \in Role |-> "poll"]
    /\ beat = [p \in Role |-> "sleep"]
    /\ connects = [p \in Role |-> 0]
    /\ owed = [p \in Role |-> 0]
    /\ late = [p \in Role |-> 0]

-----------------------------------------------------------------------------
(* send_packet by any thread of p: into the other's segment, or into one   *)
(* the other has left, where nobody reads it.                              *)
Put(p, pkt) ==
    /\ sendUp[p]
    /\ \/ /\ link[p] = "attached"
          /\ slot[Other(p)] = None
          /\ slot' = [slot EXCEPT ![Other(p)] = pkt]
       \/ /\ link[p] = "stale"
          /\ UNCHANGED slot

(* It returns false: flag down, no segment, or the place not free within   *)
(* CHANNEL_TIME_OUT.  The data packets of send_loop, which may take the    *)
(* place at any time, are not kept here: so it may fail in every state.    *)
PutFails == UNCHANGED slot

-----------------------------------------------------------------------------
(* heart_beat_loop.                                                        *)

(* Bug: no ping while an earlier one is not answered. *)
BeatStart_WhenAnswered(p) ==
    /\ beat[p] = "sleep" /\ pend[p] = 0
    /\ sendUp[p] /\ recvUp[p]
    /\ beat' = [beat EXCEPT ![p] = "ping"]
    /\ UNCHANGED <<recvUp, sendUp, channels, counts>>

BeatStart(p) ==
    /\ beat[p] = "sleep"
    /\ sendUp[p] /\ recvUp[p]
    /\ beat' = [beat EXCEPT ![p] = "ping"]
    /\ UNCHANGED <<recvUp, sendUp, channels, counts>>

Ping(p) ==
    /\ beat[p] = "ping"
    /\ Put(p, Fresh("ping"))
    /\ beat' = [beat EXCEPT ![p] = "count"]
    /\ UNCHANGED <<recvUp, sendUp, hand, link, sending, connects, counts>>

PingFails(p) ==
    /\ beat[p] = "ping"
    /\ PutFails
    /\ beat' = [beat EXCEPT ![p] = "out"]
    /\ UNCHANGED <<recvUp, sendUp, hand, link, sending, connects, counts>>

(* Bug: >= for >. *)
GivenUpAt_OffByOne(n) == n >= MAX_HEART_BEAT_FAILED_TIME
GivenUpAt(n) == n > MAX_HEART_BEAT_FAILED_TIME
(* ++pend_pong_count_ and the test, one step: the operator is atomic. *)
Count(p) ==
    /\ beat[p] = "count"
    /\ pend' = [pend EXCEPT ![p] = IF @ = W - 1 THEN 0 ELSE @ + 1]
    /\ owed' = [owed EXCEPT ![p] = @ + 1]
    /\ beat' = [beat EXCEPT ![p] = IF GivenUpAt(pend'[p]) THEN "out" ELSE "sleep"]
    /\ UNCHANGED <<recvUp, sendUp, channels, late>>

LowerRecv(p) ==
    /\ beat[p] = "out"
    /\ recvUp' = [recvUp EXCEPT ![p] = FALSE]
    /\ beat' = [beat EXCEPT ![p] = "lowered"]
    /\ UNCHANGED <<sendUp, channels, counts>>

LowerSend(p) ==
    /\ beat[p] = "lowered"
    /\ sendUp' = [sendUp EXCEPT ![p] = FALSE]
    /\ beat' = [beat EXCEPT ![p] = "sleep"]
    /\ UNCHANGED <<recvUp, channels, counts>>

-----------------------------------------------------------------------------
(* recv_loop.                                                              *)

(* What it takes it handles before it looks at the segment again.          *)
Take(p) ==
    /\ hand[p] = None /\ slot[p] # None /\ recvUp[p]
    /\ hand' = [hand EXCEPT ![p] = slot[p]]
    /\ slot' = [slot EXCEPT ![p] = None]
    /\ UNCHANGED <<recvUp, sendUp, link, sending, connects, beat, counts>>

Answer(ping) == IF ping = Fresh("ping") THEN Fresh("pong") ELSE Old("pong")

(* A ping is answered at once, by the thread that has to empty the segment *)
(* of this process; notify does not look at the result of pong().          *)
Pong(p) ==
    /\ hand[p].type = "ping"
    /\ Put(p, Answer(hand[p]))
    /\ hand' = [hand EXCEPT ![p] = None]
    /\ UNCHANGED <<recvUp, sendUp, link, sending, connects, beat, counts>>

PongFails(p) ==
    /\ hand[p].type = "ping"
    /\ PutFails
    /\ hand' = [hand EXCEPT ![p] = None]
    /\ UNCHANGED <<recvUp, sendUp, link, sending, connects, beat, counts>>

(* mutant: a pong does not lower the count. *)
AfterPong_Ignored(n) == n
(* mutant: the count is signed. *)
AfterPong_Signed(n) == n - 1
AfterPong(n) == IF n = 0 THEN W - 1 ELSE n - 1

(* mutant: a pong is notified more than once. *)
HearPong_Again(p) ==
    /\ hand[p].type = "pong"
    /\ pend' = [pend EXCEPT ![p] = AfterPong(@)]
    /\ IF hand[p] = Old("pong")
       THEN late' = [late EXCEPT ![p] = @ + 1] /\ UNCHANGED owed
       ELSE owed' = [owed EXCEPT ![p] = @ - 1] /\ UNCHANGED late
    /\ UNCHANGED <<recvUp, sendUp, channels, beat>>

HearPong(p) ==
    /\ hand[p].type = "pong"
    /\ pend' = [pend EXCEPT ![p] = AfterPong(@)]
    /\ IF hand[p] = Old("pong")
       THEN late' = [late EXCEPT ![p] = @ + 1] /\ UNCHANGED owed
       ELSE owed' = [owed EXCEPT ![p] = @ - 1] /\ UNCHANGED late
    /\ hand' = [hand EXCEPT ![p] = None]
    /\ UNCHANGED <<recvUp, sendUp, slot, link, sending, connects, beat>>

(* A hello raises the send flag.  If that had fallen, the hello of this    *)
(* process, should it wait for its place just now, notices neither.        *)
HearHello(p) ==
    /\ hand[p].type = "hello"
    /\ sendUp' = [sendUp EXCEPT ![p] = TRUE]
    /\ sending' = [sending EXCEPT ![p] = IF @ = "hello" /\ ~sendUp[p] THEN "waited" ELSE @]
    /\ hand' = [hand EXCEPT ![p] = Fresh("raised")]
    /\ UNCHANGED <<recvUp, slot, link, connects, beat, counts>>

(* Then it resets the count: the pings sent so far are old from here on.   *)
ResetCount(p) ==
    /\ hand[p].type = "raised"
    /\ pend' = [pend EXCEPT ![p] = 0]
    /\ owed' = [owed EXCEPT ![p] = 0]
    /\ late' = [late EXCEPT ![p] = 0]
    /\ hand' = [hand EXCEPT ![p] = None, ![Other(p)] = Aged(@, "ping")]
    /\ slot' = [slot EXCEPT ![p] = Aged(@, "pong"), ![Other(p)] = Aged(@, "ping")]
    /\ UNCHANGED <<recvUp, sendUp, link, sending, connects, beat>>

(* A receiver that was given up leaves its segment with what is in it, and *)
(* creates the next one under the same name.                               *)
Leave(p) ==
    /\ hand[p] = None /\ ~recvUp[p]
    /\ recvUp' = [recvUp EXCEPT ![p] = TRUE]
    /\ slot' = [slot EXCEPT ![p] = None]
    /\ link' = [link EXCEPT ![Other(p)] =
                    IF @ \in {"attached", "stale"} THEN "stale" ELSE "new"]
    /\ UNCHANGED <<sendUp, hand, sending, connects, beat, counts>>

-----------------------------------------------------------------------------
(* send_loop.                                                              *)

(* It opens the other's segment by its name; the count is not reset. *)
Connect(p) ==
    /\ sending[p] = "poll" /\ link[p] = "new"
    /\ connects[p] < MaxConnects
    /\ connects' = [connects EXCEPT ![p] = @ + 1]
    /\ link' = [link EXCEPT ![p] = "attached"]
    /\ sendUp' = [sendUp EXCEPT ![p] = TRUE]
    /\ sending' = [sending EXCEPT ![p] = "hello"]
    /\ UNCHANGED <<recvUp, slot, hand, beat, counts>>

Hello(p) ==
    /\ sending[p] \in {"hello", "waited"}
    /\ Put(p, Fresh("hello")) \/ PutFails
    /\ sending' = [sending EXCEPT ![p] = "run"]
    /\ UNCHANGED <<recvUp, sendUp, hand, link, connects, beat, counts>>

(* A hello that has waited while the flag fell and rose may see it down in *)
(* its first reading and up in its second: it replaces an unread packet.   *)
(* A ping cannot, for its own thread lowers the flag, nor a pong, for its  *)
(* own thread raises it.                                                   *)
HelloReplaces(p) ==
    /\ sending[p] = "waited" /\ sendUp[p] /\ link[p] = "attached"
    /\ slot' = [slot EXCEPT ![Other(p)] = Fresh("hello")]
    /\ sending' = [sending EXCEPT ![p] = "run"]
    /\ UNCHANGED <<recvUp, sendUp, hand, link, connects, beat, counts>>

(* The flag was seen down: reset_send_channel removes the name, whichever  *)
(* segment of the other is behind it by now.                               *)
ResetSend(p) ==
    /\ sending[p] = "run" /\ ~sendUp[p]
    /\ link' = [link EXCEPT ![p] = "none"]
    /\ sending' = [sending EXCEPT ![p] = "poll"]
    /\ UNCHANGED <<recvUp, sendUp, slot, hand, connects, beat, counts>>

-----------------------------------------------------------------------------
Beat(p) == \/ BeatStart(p) \/ Ping(p) \/ PingFails(p) \/ Count(p)
           \/ LowerRecv(p) \/ LowerSend(p)
Handle(p) == \/ Pong(p) \/ PongFails(p) \/ HearPong(p)
             \/ HearHello(p) \/ ResetCount(p)
Recv(p) == Take(p) \/ Handle(p) \/ Leave(p)
Send(p) == Connect(p) \/ Hello(p) \/ HelloReplaces(p) \/ ResetSend(p)

Next == \E p \in Role : Beat(p) \/ Recv(p) \/ Send(p)

Spec == Init /\ [][Next]_vars

(* heart_beat_loop runs whenever it can: its waits have deadlines.         *)
(* Nothing is assumed of the receive thread, of send_loop, or of the peer. *)
FairSpec == Spec /\ \A p \in Role : WF_vars(Beat(p))

-----------------------------------------------------------------------------
(***************************************************************************)
(* Properties.                                                             *)
(***************************************************************************)

One(b) == IF b THEN 1 ELSE 0

(* Pings of p sent since its last hello, or their answers, under way. *)
UnderWay(p) ==
    One(slot[Other(p)] = Fresh("ping")) + One(hand[Other(p)] = Fresh("ping"))
      + One(slot[p] = Fresh("pong")) + One(hand[p] = Fresh("pong"))

(* The unsigned count is, modulo its width, what the peer owes less the    *)
(* answers that came for pings sent before the reset; and the peer owes at *)
(* least the pings under way, but for one that is sent and not counted     *)
(* yet (222, 339).                                                         *)
Explained(p) ==
    /\ pend[p] = (owed[p] - late[p]) % W
    /\ owed[p] + One(beat[p] = "count") >= UnderWay(p)
CountExplained == \A p \in Role : Explained(p)

(* Old pings of p, or their answers, under way. *)
OldUnderWay(p) ==
    One(slot[Other(p)] = Old("ping")) + One(hand[Other(p)] = Old("ping"))
      + One(slot[p] = Old("pong")) + One(hand[p] = Old("pong"))

(* The reset of a hello forgets the pings under way, and their answers     *)
(* lower the new count (222, 226): three at most, however many pings were  *)
(* not answered by then and however often the sides connect anew.          *)
FewLateAnswers == \A p \in Role : late[p] + OldUnderWay(p) <= 3

(* The count gives a peer up only for a reason: since the last hello it    *)
(* owes more answers than the limit, the late ones not counted, or more    *)
(* late answers came than it owes and wrapped the count (222).             *)
GivenUpForAReason ==
    [][\A p \in Role :
         beat[p] = "count" /\ beat'[p] = "out" =>
           \/ owed'[p] - late'[p] > MAX_HEART_BEAT_FAILED_TIME
           \/ late'[p] > owed'[p]]_vars

(* A silent peer is given up: a process whose two flags stay up for ever   *)
(* hears a pong or a hello again and again (339).  The two are alike.      *)
Hears(p) == HearPong(p) \/ ResetCount(p)
SilenceIsNoticed ==
    LET p == "client" IN
        <>[](sendUp[p] /\ recvUp[p]) => []<><<Hears(p)>>_vars

=============================================================================
