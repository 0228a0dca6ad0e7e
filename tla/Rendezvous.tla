----------------------------- MODULE Rendezvous -----------------------------
(***************************************************************************)
(* How two processes find each other through names of shared memory:       *)
(* create_shared_memory in recv_loop, open_shared_memory and               *)
(* reset_send_channel in send_loop, the constructor of the server, and the *)
(* heartbeat that makes both loops start again.                            *)
(*                                                                         *)
(* Each process creates the segment it receives from under its own name    *)
(* and polls the other's name for the segment it sends into.  Either may   *)
(* remove either name.  Segments are told apart only as the current one of *)
(* a process and older ones, so the model needs no bound on how often they *)
(* are created; only the ends of processes are bounded.  What is inside a  *)
(* segment is in ChannelData, when a heartbeat gives up in Heartbeat.      *)
(***************************************************************************)
EXTENDS Naturals

CONSTANT MaxEnds        \* bound: processes killed or stopped

ASSUME EndAssumption == MaxEnds \in Nat

Role == {"client", "server"}
Other(p) == IF p = "client" THEN "server" ELSE "client"

VARIABLES
    name,       \* what the name a process receives under leads to
    recv,       \* where its recv_loop is
    send,       \* where its send_loop is
    link,       \* what its send_loop has mapped
    slot,       \* the hello or bye that is unread in its current segment
    recvUp,     \* recv_channel_connected_
    sendUp,     \* send_channel_connected_
    beat,       \* where its heart_beat_loop is
    ends        \* processes killed or stopped so far

vars == <<name, recv, send, link, slot, recvUp, sendUp, beat, ends>>

(* Segments that outlived their process, by how far it had got with them.  *)
Orphans == {"empty", "sized", "working"}

(* Where send_loop is inside its inner loop; it is "mute" there when its    *)
(* hello failed.  A thread is "asleep", here and in recv_loop, when it     *)
(* waits though its flag is down, because it missed the notification.      *)
Sending == {"run", "mute", "asleep"}

TypeOK ==
    /\ name \in [Role -> {"none", "own"} \cup Orphans]
    /\ recv \in [Role -> {"off", "create", "size", "work", "listen", "recv", "asleep"}]
    /\ send \in [Role -> {"off", "open", "test", "drop", "connect", "hello", "ended"}
                            \cup Sending]
    /\ link \in [Role -> {"none", "own", "idle", "old"}]
    /\ slot \in [Role -> {"none", "hello", "bye"}]
    /\ recvUp \in [Role -> BOOLEAN] /\ sendUp \in [Role -> BOOLEAN]
    /\ beat \in [Role -> {"idle", "lowered"}]
    /\ ends \in 0 .. MaxEnds
    /\ \A p \in Role :
          /\ recv[p] = "off" <=> send[p] = "off"
          /\ link[p] = "none" <=> send[p] \in {"off", "open", "ended"}
          /\ name[p] = "own" => recv[p] # "off"
          /\ slot[p] # "none" => recv[p] \notin {"off", "asleep"}
          /\ recv[p] = "asleep" => ~recvUp[p]
          /\ send[p] = "asleep" => ~sendUp[p]
          /\ link[p] = "own" => recv[Other(p)] # "off"

Init ==
    /\ name = [p \in Role |-> "none"]
    /\ recv = [p \in Role |-> "off"]
    /\ send = [p \in Role |-> "off"]
    /\ link = [p \in Role |-> "none"]
    /\ slot = [p \in Role |-> "none"]
    /\ recvUp = [p \in Role |-> FALSE]
    /\ sendUp = [p \in Role |-> FALSE]
    /\ beat = [p \in Role |-> "idle"]
    /\ ends = 0

Running(p) == recv[p] # "off"

(* How far a running process has got with its current segment: until it    *)
(* leaves the next one's creation behind, that is the last one.            *)
Stage(p) == CASE recv[p] = "size" -> "empty"
              [] recv[p] = "work" -> "sized"
              [] OTHER -> "working"

(* What is behind the name of p, for a process that opens it. *)
Behind(p) == IF name[p] = "own" THEN Stage(p) ELSE name[p]

-----------------------------------------------------------------------------
(* The life of a process.                                                  *)

(* The constructor, which removes both names for a server, and Start.  The *)
(* two flags have no initial value.                                        *)
RemovesNames(p) == p = "server"
Start(p) ==
    /\ ~Running(p)
    /\ name' = IF RemovesNames(p) THEN [q \in Role |-> "none"] ELSE name
    /\ recv' = [recv EXCEPT ![p] = "create"]
    /\ send' = [send EXCEPT ![p] = "open"]
    /\ \E r, s \in BOOLEAN : /\ recvUp' = [recvUp EXCEPT ![p] = r]
                             /\ sendUp' = [sendUp EXCEPT ![p] = s]
    /\ UNCHANGED <<link, slot, beat, ends>>

(* A process is killed: its names and its segment stay behind. *)
Crash(p) ==
    /\ Running(p) /\ ends < MaxEnds
    /\ ends' = ends + 1
    /\ name' = [name EXCEPT ![p] = Behind(p)]
    /\ link' = [link EXCEPT ![p] = "none",
                            ![Other(p)] = IF @ # "own" THEN @
                                          ELSE IF Stage(p) = "working" THEN "old" ELSE "idle"]
    /\ recv' = [recv EXCEPT ![p] = "off"]
    /\ send' = [send EXCEPT ![p] = "off"]
    /\ slot' = [slot EXCEPT ![p] = "none"]
    /\ recvUp' = [recvUp EXCEPT ![p] = FALSE]
    /\ sendUp' = [sendUp EXCEPT ![p] = FALSE]
    /\ beat' = [beat EXCEPT ![p] = "idle"]

(* A packet put into the current segment of p wakes its recv_loop. *)
Notified(p) == IF recv[p] = "asleep" THEN "recv" ELSE recv[p]

(* Stop and the destructor, as one step: recver_working is cleared, unless *)
(* recv_loop was still making a segment and set it after that (305, 476),  *)
(* and the name this process sends under is removed (275).  The bye may    *)
(* fail.                                                                   *)
Stop(p) ==
    /\ Running(p) /\ ends < MaxEnds
    /\ ends' = ends + 1
    /\ \E left \in {"sized"} \cup (IF recv[p] \in {"size", "work"} THEN {"working"} ELSE {}) :
          /\ name' = [name EXCEPT ![p] = IF @ = "own" THEN left ELSE @,
                                  ![Other(p)] = "none"]
          /\ link' = [link EXCEPT ![p] = "none",
                                  ![Other(p)] = IF @ # "own" THEN @
                                                ELSE IF left = "working" THEN "old" ELSE "idle"]
    /\ \E said \in {b \in BOOLEAN : b => sendUp[p] /\ link[p] = "own"} :
          /\ recv' = [recv EXCEPT ![p] = "off",
                                  ![Other(p)] = IF said THEN Notified(Other(p)) ELSE @]
          /\ slot' = [slot EXCEPT ![p] = "none", ![Other(p)] = IF said THEN "bye" ELSE @]
    /\ send' = [send EXCEPT ![p] = "off"]
    /\ recvUp' = [recvUp EXCEPT ![p] = FALSE]
    /\ sendUp' = [sendUp EXCEPT ![p] = FALSE]
    /\ beat' = [beat EXCEPT ![p] = "idle"]

-----------------------------------------------------------------------------
(* recv_loop.                                                              *)

(* create_shared_memory, up to the creation: a segment that has the name   *)
(* loses it.                                                               *)
Create(p) ==
    /\ recv[p] = "create"
    /\ name' = [name EXCEPT ![p] = "own"]
    /\ link' = [link EXCEPT ![Other(p)] = IF @ = "own" THEN "old" ELSE @]
    /\ slot' = [slot EXCEPT ![p] = "none"]
    /\ recv' = [recv EXCEPT ![p] = "size"]
    /\ UNCHANGED <<send, recvUp, sendUp, beat, ends>>

(* truncate, the mapping and the constructor of ChannelData. *)
Size(p) ==
    /\ recv[p] = "size"
    /\ recv' = [recv EXCEPT ![p] = "work"]
    /\ UNCHANGED <<name, send, link, slot, recvUp, sendUp, beat, ends>>

(* recver_working is set. *)
Work(p) ==
    /\ recv[p] = "work"
    /\ recv' = [recv EXCEPT ![p] = "listen"]
    /\ UNCHANGED <<name, send, link, slot, recvUp, sendUp, beat, ends>>

(* start_listen. *)
Listen(p) ==
    /\ recv[p] = "listen"
    /\ recvUp' = [recvUp EXCEPT ![p] = TRUE]
    /\ recv' = [recv EXCEPT ![p] = "recv"]
    /\ UNCHANGED <<name, send, link, slot, sendUp, beat, ends>>

(* The other's hello raises the flag for sending, connected or not, and    *)
(* wakes send_loop.                                                        *)
HearHello(p) ==
    /\ recv[p] = "recv" /\ recvUp[p] /\ slot[p] = "hello"
    /\ slot' = [slot EXCEPT ![p] = "none"]
    /\ sendUp' = [sendUp EXCEPT ![p] = TRUE]
    /\ send' = [send EXCEPT ![p] = IF @ = "asleep" THEN "run" ELSE @]
    /\ UNCHANGED <<name, recv, link, recvUp, beat, ends>>

(* The other's bye ends the session: recv returns sender_working.          *)
HearBye(p) ==
    /\ recv[p] = "recv" /\ recvUp[p] /\ slot[p] = "bye"
    /\ slot' = [slot EXCEPT ![p] = "none"]
    /\ recvUp' = [recvUp EXCEPT ![p] = FALSE]
    /\ recv' = [recv EXCEPT ![p] = "create"]
    /\ UNCHANGED <<name, send, link, sendUp, beat, ends>>

(* mutant: a receiver that was given up goes on with its segment. *)
Leave_Stays(p) ==
    /\ recv[p] = "recv" /\ ~recvUp[p]
    /\ recv' = [recv EXCEPT ![p] = "listen"]
    /\ UNCHANGED <<name, send, link, slot, recvUp, sendUp, beat, ends>>

(* The flag was seen down: stop_listen, and from the top. *)
Leave(p) ==
    /\ recv[p] = "recv" /\ ~recvUp[p]
    /\ recv' = [recv EXCEPT ![p] = "create"]
    /\ UNCHANGED <<name, send, link, slot, recvUp, sendUp, beat, ends>>

(* Any notification of the segment's condition, or none: a packet that is  *)
(* no hello, a hello the other has heard (237), a spurious wake-up.        *)
RecvWoken(p) ==
    /\ recv[p] = "asleep"
    /\ recv' = [recv EXCEPT ![p] = "recv"]
    /\ UNCHANGED <<name, send, link, slot, recvUp, sendUp, beat, ends>>

-----------------------------------------------------------------------------
(* send_loop.                                                              *)

(* open_shared_memory: it polls while there is no such name, returns false *)
(* for a segment that is not sized yet, and send_loop ends with it.        *)
Open(p) ==
    /\ send[p] = "open" /\ name[Other(p)] # "none"
    /\ IF Behind(Other(p)) = "empty"
       THEN /\ send' = [send EXCEPT ![p] = "ended"]
            /\ UNCHANGED link
       ELSE /\ send' = [send EXCEPT ![p] = "test"]
            /\ link' = [link EXCEPT ![p] =
                           IF name[Other(p)] = "own" THEN "own"
                           ELSE IF name[Other(p)] = "working" THEN "old" ELSE "idle"]
    /\ UNCHANGED <<name, recv, slot, recvUp, sendUp, beat, ends>>

(* Bug: the segment is taken as it is. *)
RecverWorking_NotTested(p) == TRUE

(* recver_working of what it mapped. *)
RecverWorking(p) ==
    \/ link[p] = "own" /\ Stage(Other(p)) = "working"
    \/ link[p] = "old"

Test(p) ==
    /\ send[p] = "test"
    /\ send' = [send EXCEPT ![p] = IF RecverWorking(p) THEN "connect" ELSE "drop"]
    /\ UNCHANGED <<name, recv, link, slot, recvUp, sendUp, beat, ends>>

(* What is taken for ownerless is removed, by name. *)
Drop(p) ==
    /\ send[p] = "drop"
    /\ link' = [link EXCEPT ![p] = "none"]
    /\ name' = [name EXCEPT ![Other(p)] = "none"]
    /\ send' = [send EXCEPT ![p] = "open"]
    /\ UNCHANGED <<recv, slot, recvUp, sendUp, beat, ends>>

(* mutant: the flag is left to the other's hello. *)
Connect_LeavesTheFlag(p) ==
    /\ send[p] = "connect"
    /\ send' = [send EXCEPT ![p] = "hello"]
    /\ UNCHANGED <<name, recv, link, slot, recvUp, sendUp, beat, ends>>

Connect(p) ==
    /\ send[p] = "connect"
    /\ sendUp' = [sendUp EXCEPT ![p] = TRUE]
    /\ send' = [send EXCEPT ![p] = "hello"]
    /\ UNCHANGED <<name, recv, link, slot, recvUp, beat, ends>>

(* hello(), whose result nobody looks at: into the other's segment, into   *)
(* an old one, or nowhere because the flag is down again ...               *)
Hello(p) ==
    /\ send[p] = "hello"
    /\ LET heard == sendUp[p] /\ link[p] = "own"
       IN  /\ slot' = [slot EXCEPT ![Other(p)] = IF heard THEN "hello" ELSE @]
           /\ recv' = [recv EXCEPT ![Other(p)] = IF heard THEN Notified(Other(p)) ELSE @]
    /\ send' = [send EXCEPT ![p] = "run"]
    /\ UNCHANGED <<name, link, recvUp, sendUp, beat, ends>>

(* ... or not at all, when the packet of another thread holds the segment  *)
(* until the deadline.                                                     *)
HelloTimesOut(p) ==
    /\ send[p] = "hello" /\ sendUp[p] /\ link[p] = "own"
    /\ send' = [send EXCEPT ![p] = "mute"]
    /\ UNCHANGED <<name, recv, link, slot, recvUp, sendUp, beat, ends>>

(* PostMsg, or a spurious wake-up. *)
SendWoken(p) ==
    /\ send[p] = "asleep"
    /\ send' = [send EXCEPT ![p] = "run"]
    /\ UNCHANGED <<name, recv, link, slot, recvUp, sendUp, beat, ends>>

(* mutant: the other's segment stays mapped. *)
ResetSend_KeepsTheMapping(p) ==
    /\ send[p] \in {"run", "mute"} /\ ~sendUp[p]
    /\ name' = [name EXCEPT ![Other(p)] = "none"]
    /\ send' = [send EXCEPT ![p] = "open"]
    /\ UNCHANGED <<recv, link, slot, recvUp, sendUp, beat, ends>>

(* The flag was seen down: reset_send_channel unmaps the segment and       *)
(* removes the name, whatever segment it leads to by now.                  *)
ResetSend(p) ==
    /\ send[p] \in {"run", "mute"} /\ ~sendUp[p]
    /\ link' = [link EXCEPT ![p] = "none"]
    /\ name' = [name EXCEPT ![Other(p)] = "none"]
    /\ send' = [send EXCEPT ![p] = "open"]
    /\ UNCHANGED <<recv, slot, recvUp, sendUp, beat, ends>>

-----------------------------------------------------------------------------
(* heart_beat_loop, without its count: it may give up whenever it is       *)
(* active, for a ping can always fail.                                     *)

(* A flag is stored and its condition notified without the mutex of those  *)
(* who wait (245, 236): a thread that has found its predicate false (495,  *)
(* 393) and does not wait yet misses both.                                 *)
RecvMayMiss(p) == recv[p] = "recv" /\ slot[p] = "none"
SendMayMiss(p) == send[p] \in {"run", "mute"}

(* mutant: pings that are not answered do not count. *)
GiveUp_OnFailedPing(p) ==
    /\ Running(p) /\ beat[p] = "idle" /\ link[p] # "own"
    /\ sendUp[p] /\ recvUp[p]
    /\ recvUp' = [recvUp EXCEPT ![p] = FALSE]
    /\ \/ UNCHANGED recv
       \/ RecvMayMiss(p) /\ recv' = [recv EXCEPT ![p] = "asleep"]
    /\ beat' = [beat EXCEPT ![p] = "lowered"]
    /\ UNCHANGED <<name, send, link, slot, sendUp, ends>>

GiveUp(p) ==
    /\ Running(p) /\ beat[p] = "idle"
    /\ sendUp[p] /\ recvUp[p]
    /\ recvUp' = [recvUp EXCEPT ![p] = FALSE]
    /\ \/ UNCHANGED recv
       \/ RecvMayMiss(p) /\ recv' = [recv EXCEPT ![p] = "asleep"]
    /\ beat' = [beat EXCEPT ![p] = "lowered"]
    /\ UNCHANGED <<name, send, link, slot, sendUp, ends>>

LowerSend_Not(p) ==  \* mutant: only the flag for receiving is lowered
    /\ beat[p] = "lowered"
    /\ beat' = [beat EXCEPT ![p] = "idle"]
    /\ UNCHANGED <<name, recv, send, link, slot, recvUp, sendUp, ends>>

LowerSend(p) ==
    /\ beat[p] = "lowered"
    /\ sendUp' = [sendUp EXCEPT ![p] = FALSE]
    /\ \/ UNCHANGED send
       \/ SendMayMiss(p) /\ send' = [send EXCEPT ![p] = "asleep"]
    /\ beat' = [beat EXCEPT ![p] = "idle"]
    /\ UNCHANGED <<name, recv, link, slot, recvUp, ends>>

-----------------------------------------------------------------------------
Recv(p) == \/ Create(p) \/ Size(p) \/ Work(p) \/ Listen(p)
           \/ HearHello(p) \/ HearBye(p) \/ Leave(p)
Send(p) == \/ Open(p) \/ Test(p) \/ Drop(p) \/ Connect(p) \/ Hello(p)
           \/ HelloTimesOut(p) \/ ResetSend(p)
Woken(p) == RecvWoken(p) \/ SendWoken(p)

Next == \E p \in Role : \/ Start(p) \/ Crash(p) \/ Stop(p) \/ Recv(p) \/ Send(p)
                        \/ GiveUp(p) \/ LowerSend(p) \/ Woken(p)

Spec == Init /\ [][Next]_vars

(* No answer to a ping of p can come: it does not reach the other, or the  *)
(* other has no segment to answer into.                                    *)
Unanswerable(p) ==
    \/ link[p] # "own" \/ recv[Other(p)] # "recv"
    \/ link[Other(p)] # "own" \/ ~sendUp[Other(p)]

(* The threads that are awake go on, a process that ended is started       *)
(* again, and a heartbeat gives up a peer that goes on not answering       *)
(* (SilenceIsNoticed of Heartbeat).  That it gives up one that answers is  *)
(* possible, never due, and nothing has to wake a thread that is asleep.   *)
FairSpec ==
    /\ Spec
    /\ \A p \in Role :
          /\ WF_vars(Start(p)) /\ WF_vars(Recv(p)) /\ WF_vars(Send(p))
          /\ WF_vars(GiveUp(p) /\ Unanswerable(p)) /\ WF_vars(LowerSend(p))

-----------------------------------------------------------------------------
(***************************************************************************)
(* Properties.                                                             *)
(***************************************************************************)

(* A process that has created its segment is never found under the segment *)
(* of an earlier life, and who found it and went on to connect found it    *)
(* working (145, 562).                                                     *)
FoundWhereItListens ==
    \A p \in Role :
        /\ recv[p] \notin {"off", "create"} => name[p] \in {"none", "own"}
        /\ link[Other(p)] = "own" /\ send[Other(p)] \in {"connect", "hello"} \cup Sending
             => recv[p] \in {"listen", "recv", "asleep", "create"}

(* A receiver nobody sends to and nobody can find: its name was removed,   *)
(* by a reset (456), as ownerless (568) or by a server that started (262). *)
Deaf(p) == /\ recv[p] \in {"listen", "recv", "asleep"}
           /\ name[p] # "own" /\ link[Other(p)] # "own"

(* A deaf receiver is replaced if its process believes that it can send:   *)
(* its heartbeat finds out and gives up; unless the receiver misses that   *)
(* (245), and then nobody is left to wake it.                              *)
DeafIsReplaced ==
    \A p \in Role :
        Deaf(p) /\ recv[p] = "recv" /\ sendUp[p] /\ beat[p] = "idle"
            ~> ~Deaf(p) \/ recv[p] = "asleep"

(* A connection in one direction alone does not last: the heartbeat of the *)
(* side that is connected tears it down (339), unless one of its own two   *)
(* threads has missed that a flag fell (236, 245).                         *)
Overslept(p) == recv[p] = "asleep" \/ send[p] = "asleep"
OneWay(p) == /\ send[p] \in Sending /\ link[p] = "own"
             /\ link[Other(p)] # "own"
OneWayEnds == \A p \in Role : []<>(~OneWay(p) \/ Overslept(p))

(* A sender does not stay with a segment its receiver has left, nor with   *)
(* one of a process that was killed or stopped, even if recver_working is  *)
(* still set in it (476): its heartbeat lowers the flag (342) and it moves *)
(* on, unless a hello is there again and again, to raise the flag before   *)
(* send_loop has looked at it (213, 574), or a thread has missed its flag. *)
Astray(p) == send[p] \in Sending /\ link[p] # "own"
StraySendersMoveOn == \A p \in Role : []<>(~Astray(p) \/ slot[p] = "hello" \/ Overslept(p))

(* A hello comes to each of two processes that were started, in the end:   *)
(* the test waits for it (test_channel.cpp:66).                            *)
HelloComes == \A p \in Role : <>(slot[p] = "hello")

(* It does come if no segment is opened before it is sized (557) or works  *)
(* (567), no hello misses its deadline and no heartbeat gives up: whatever *)
(* the order of the starts, and though a process may end.  Where a server  *)
(* that is started late removes the name of a client's segment (262), the  *)
(* heartbeats give up.                                                     *)
Undisturbed == \A p \in Role : send[p] \notin {"drop", "ended", "mute"} /\ beat[p] = "idle"
FirstContact == []Undisturbed => HelloComes

=============================================================================
