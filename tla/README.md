# A TLA+ model of IpcShmChannel

`IpcShmChannel` connects two processes, a server and a client, through two
segments of shared memory, one per direction. This directory holds TLA+ modules
that model it, the TLC configurations that check them, and theorems about them
that TLAPS proves. Line numbers refer to `src/src/IpcShmChannel.cpp` unless
another file is named.

## The system

Each process owns one `IpcShmChannel`. It **receives** from the segment it
creates itself (`<name>_UP` at the server, `<name>_DOWN` at the client) and
**sends** into the segment the peer creates. Three threads and the user work on
it:

| thread | code | does |
|---|---|---|
| receive thread | `recv_loop` 465-490, `recv` 492-552 | creates the segment, waits for packets, reassembles messages, answers pings, hears hellos, calls the user's callback |
| send thread | `send_loop` 554-591 | opens the peer's segment, says hello, sends the queued packets, tears the direction down |
| heartbeat thread | `heart_beat_loop` 333-349 | pings every second; gives the peer up when a ping fails or more than 3 stay unanswered |
| the user's threads | `PostMsg` 460, `Start` 278, `Stop` 291, destructor 268 | queue messages, start and stop the other three |

### Components, their state and what makes them correct

1. **The segment** (`ChannelData` 114-138; `send_packet` 409-439; `recv`
   492-532). State: an interprocess mutex and *one* interprocess condition on
   which both sides wait, `new_msg`, `sender_working`, `recver_working`, and one
   packet. Correct if copies never overlap, every packet reported as sent is
   taken once and in order, nobody waits for ever on work that is there, and
   nothing follows the farewell.
2. **The connection flags** (`set_send_channel_status` 234-241,
   `set_recv_channel_status` 243-249, `notify` 203-232): process-local atomics
   that any thread stores without the mutex on which their readers wait. Correct
   if every change reaches the thread that waits for it.
3. **The packet queue** (`post` 351-375, `push_packet` 377-386, `pop_packet`
   388-402, the retry 576-584, `clear_send_queue` 441-446). Correct if what was
   accepted is sent in the order of acceptance, or known to be lost.
4. **Chunking and reassembly** (`post`, `recv` 512-551, `recv_msg_map_`).
   Correct if the callback gets exactly the messages that were posted, whole.
5. **The header codec** (`DataPacketHeader` 21-68): fixed byte widths on the
   wire against `size_t`, `short` and `long` fields. Correct if decoding undoes
   encoding for every header that fits, and messages stay distinct.
6. **The lifecycle** (constructor 252-265, `Start`, `Stop` 291-319, destructor).
   Correct if `Stop` returns and leaves no thread behind.
7. **The rendezvous** (`create_shared_memory` 140-169, `open_shared_memory`
   172-201, `reset_send_channel` 448-458, 556-572): two processes find each
   other's segments by name, and remove names. Correct if two running processes
   end up connected, also after one of them restarted.
8. **The heartbeat** (`heart_beat_loop`, `ping`, `pong`, `pend_pong_count_`).
   Correct if a peer that answers is not given up, and one that does not is.

### How they interact, and what is hard

The send thread, the heartbeat (ping), the receive thread (pong) and `Stop`
(bye) all call `send_packet` on the same segment; the peer's receive thread
empties it. Hellos and pings that arrive in one direction change flags and start
sends in the other. What is hard to test is therefore: wake-ups that go to the
wrong waiter of the shared condition, flags stored between a predicate and the
wait that follows it, a segment unmapped or replaced under a thread that uses
it, retries that reorder chunks, stops that wait for threads that wait for
packets, and names removed by the side that does not own them. `PROJECT.json`
lists these hazards at their lines, with the properties that catch them.

## The modules

| module | models | proofs |
|---|---|---|
| `SlotHandoff` | what one direction of a segment promises: a place for one packet (abstract) | |
| `ChannelData` | the segment: `send_packet` and `recv` step by step, every thread of both processes that touches it, within one session | `ChannelDataProofs` |
| `PacketHeader` | `DataPacketHeader`: twelve bytes on the wire, as operators | `PacketHeaderProofs` |
| `MessageService` | what one direction of a channel promises to `PostMsg` and the callback (abstract) | |
| `MessagePipeline` | one direction end to end: `post`, the queue, `send_loop`, a segment, reassembly, callback; sessions that break and begin again | `MessagePipelineProofs`, `MessageLossProofs`, `MessageServiceProofs` |
| `Heartbeat` | both heartbeats, the receive threads that answer them, `pend_pong_count_`, and the connections around them | `HeartbeatProofs` |
| `Rendezvous` | two processes that create, open and remove segments by name, are killed, stopped and started again | `RendezvousProofs` |
| `ChannelLifecycle` | one object: `Start`, `Stop`, the destructor and the three threads, with the two waits that have no deadline | `ChannelLifecycleProofs` |
| `MC…` | the TLC instances of these | |

How they fit together:

* `ChannelData` implements `SlotHandoff`. `MessagePipeline` is built on an
  instance of `SlotHandoff`: it needs none of the mutexes and wake-ups below.
* `MessagePipeline` extends `PacketHeader`: what `recv` reads of a header is what
  comes off the wire, and the keys of `recv_msg_map_` are the numbers that do.
* `MessagePipeline` implements `MessageService`.
* `ChannelLifecycle` takes from `ChannelData` that a call of `send_packet` ends
  (`SendReturns`) and makes it one step; `Heartbeat` takes the same, and what the
  call can result in.
* `Rendezvous` takes from `Heartbeat` that a peer that stays silent is given up
  (`SilenceIsNoticed`): that is the fairness of its `GiveUp`.

### ChannelData: state and steps

| variable | code |
|---|---|
| `mutex`, `waiters` | `ChannelData::mutex`; the threads blocked on `ChannelData::cond`, of *both* processes |
| `slot`, `newMsg`, `senderWorking`, `recverWorking` | `buffer`/`size`/`ev_type`, `new_msg`, `sender_working`, `recver_working` |
| `sendConnected`, `sendRunning`, `mapped` | in the sender: `send_channel_connected_`, `running_`, whether `send_region_` maps the segment |
| `recvConnected`, `recvRunning` | in the receiver: `recv_channel_connected_`, `running_` |
| `pc`, `pkt`, `calls`, `sawWorking` | control and locals of each thread |
| `written`, `taken`, `flapped`, `late` | histories, read by properties only |

`send_packet` is `Call`, `SendAcquire`, `SendBlock`, `SendTimeout`,
`SendExpired`, `SendRefused`, `SendToStopped`, `SendCommit`, `SendPublish`,
`SendNotifyAll`, `SendKick`; `recv` and its loop are `RecvLoopTest` to
`RecvKick`. The heartbeat and a hello are `GiveUpPeer`, `HearHello`,
`HelloNotify` at the sender, `Disconnect`, `DisconnectNotify` at the receiver;
`Stop` is `StopSending` at the sender, `StopReceiving`, `StopRecverWorking`,
`StopNotify` at the receiver. Taking the mutex is joined with the first
evaluation of the wait's predicate; a flag stored without the mutex can fall
between that evaluation and the wait, or between the wait and the second test.
A thread inside `send_packet` on an unmapped segment takes no more steps (the
program faults there).

### MessagePipeline: state and steps

A message is its `msgSeq`; of its content the model keeps the size and, at the
receiver, the length of the buffer that was allocated for it, the set of chunks
that are in place and the bytes counted (`entries`, that is `recv_msg_map_`). A packet is a message and a `chunkSeq`.
`Post`, `Push`, `PushRefused` are `post` with its `push_packet` calls, by any
number of posters; `Pop` … `OpenGivesUp` are the steps of `send_loop`; `SayBye`,
`StopRunning`, `ClearSendQueue` are `Stop`; `RecvMessage` and `RecvBye` are
`recv`. `push_packet` tests `running_` before it locks the queue, so a push that
passed the test may come after `clear_send_queue` (`admitted`, and the step
`Requeue` of its own). `send_packet` succeeds (`Handoff!Put`) or fails. It may fail
in every state: besides the reasons that show here (a packet in the slot, a lowered
flag, a stopping process, a receiver that left) the hello, ping or pong of another
thread may hold the slot until the deadline. `HearHello` is a hello of the peer that
comes before `send_loop` has seen its flag fall; from then on an unread packet may be
overwritten (418-419) by a chunk of `send_loop` or by the bye of `Stop`. No other
packet can do that here: a hello precedes all packets of its session, and of a ping
and a pong the sending thread is the one that lowers the flag (342), or raises it
(213), so that it cannot wait through both.

`SetHeader` and `GetHeader` are the code's, with a byte of `B` values instead of
256 and `x \div B` for the shifts: `totalLen` keeps three bytes, `chunkSeq` and
`chunkTotalCount` two, read as signed, `msgSeq` four, sign-extended.

In `MessageService` a message is posted, accepted (its last push) and delivered.
The damage that chunks queued again or lost do to a message is a step of its own;
an undamaged message is delivered as posted and in its turn, a damaged one whole,
without data, or never.

### Heartbeat: state and steps

| variable | code |
|---|---|
| `sendUp`, `recvUp`, `pend` | `send_channel_connected_`, `recv_channel_connected_`, `pend_pong_count_` |
| `slot`, `hand` | the unread packet of the segment a process receives from; the one its receive thread has taken and handles |
| `link`, `sending` | what `send_channel_` is to the peer's current segment (no such segment mapped, a new one to be found, the current one, one the peer has left); where `send_loop` is |
| `beat` | where `heart_beat_loop` is |
| `connects` | connections made (the bound) |
| `owed`, `late` | histories: pings counted since the last hello less the answers to them; answers to pings from before it |

Both processes run the same actions. `BeatStart` … `LowerSend` are
`heart_beat_loop` (the test of the flags at 337 and the ping a second later are
two steps, and so are the two flags it lowers); `Take`, `Pong` … `Leave` are
`recv_loop` with `notify` (a hello raises the flag and resets the count in two
steps); `Connect`, `Hello`, `HelloReplaces`, `ResetSend` are `send_loop`. A send
succeeds or fails; it may fail in every state, since data packets, which are not kept
here, may take the place. A hello that waited for its place while the flag fell and
rose again (`sending` is "waited") may also replace an unread ping or pong (418-419,
`HelloReplaces`). A ping cannot, since only its own thread lowers the flag, nor a
pong, since only its own thread raises it. A ping remembers whether its sender has handled a hello since, and the
pong takes that over: only the properties look at it.

### Rendezvous: state and steps

| variable | code |
|---|---|
| `name` | what the name a process receives under leads to: nothing, its own current segment, or one of an earlier life, by how far that life had got with it |
| `recv`, `send`, `beat` | where the three threads are; "asleep" is a wait without a deadline while the flag is down; "mute" is a `send_loop` whose hello timed out |
| `link` | what `send_loop` has mapped: the peer's current segment, an older one with `recver_working` set, or one without |
| `slot` | the hello or the bye that is unread in the current segment |
| `recvUp`, `sendUp` | the two connection flags |
| `ends` | processes killed or stopped (the bound) |

Segments are told apart only as the current one of a process and older ones, so
there is no bound on reconnects. `Create`, `Size`, `Work` are the three moments of
a segment the peer can tell apart: it has a name (145), it has its size (159), it
works (476). `Open`, `Test`, `Drop` are what `send_loop` does on finding one,
`ResetSend` and `Drop` remove by name, whatever the name leads to by then.
`GiveUp` may happen whenever the heartbeat is active, since a ping can always
fail. It and `LowerSend` store a flag and notify without the mutex of the thread that
waits (245-247, 236-237), which may have evaluated its predicate (495, 393) and not
wait yet: then it falls asleep on the lowered flag, and `slot_disconnect` shows step
by step how. The next packet put into the segment wakes a receiver (a hello or a bye
here, any other as `RecvWoken`), a hello that raises the flag or `PostMsg` wakes
`send_loop` (`HearHello`, `SendWoken`); nothing is sure to. `HelloTimesOut` is a hello
that finds the segment occupied until its deadline. `HearBye` ends the session.
`Crash` leaves everything behind at any step; `Stop` is `Stop` with the
destructor, as one step (where it hangs is `ChannelLifecycle`); `Start` is the
constructor, with the server's two removals, and `Start`.

### ChannelLifecycle: state and steps

The three threads run step by step through `recv_loop`/`recv`,
`send_loop`/`pop_packet` and `heart_beat_loop`; the user calls `Start`,
`Stop` and the destructor, and a thread of its own calls `PostMsg`. The queue is
the number of packets in it (`queued`), the segment two Booleans (`newMsg`,
`recverWorking`). `push_packet` is three steps, as its mutex and its notification
have it: the test of `running_` (`PostMsg`, 379), the push under the mutex
(`Push`, 381-383), the notification after it (`PostNotify`, 384); `poster` says
which is next. The destructor does not run under a thread that is in `PostMsg`.
The peer is the environment: it comes, goes and sends. `terminated` says how the process was brought down:
`join` on a handle without a thread, `assign`ing to or `destroy`ing a handle
that owns one, or `pop` on an empty queue. The two connection flags start with
any value: the constructor does not set them, and the atomics of C++11 have none
of their own.

## What is checked

| run | instance | shows |
|---|---|---|
| `slot` | three sending threads, one call each | the properties of the segment and its inductive invariant; that it implements `SlotHandoff` |
| `slot_live` | two sending threads, two calls each, fair | every call of `send_packet` ends (`SendReturns`); every published packet is taken or given up (`PacketConsumed`) |
| `pipeline` | two posters, two messages that are empty or of two packets, two breaks, `Stop` at any time, a byte of four values, a `msgSeq` that wraps | what the callback gets comes once, in order unless disturbed; no chunk is forgotten; no entry leaks, and every copy stays inside its buffer; what can be lost while nothing breaks; that all of it implements `MessageService` |
| `pipeline_live` | one poster, one message that is empty or of three packets, fair | the callback gets no message with a hole, though the middle packet may be lost or overtaken; every packet of a message that was queued whole is taken in the end, unless its message is lost or the session ends |
| `heartbeat` | a counter of four values, a limit of one, one connection of each side | what the count means, how far late answers can put it wrong, when it gives a peer up, and that a silent peer is given up |
| `rendezvous` | one kill or stop at any moment, any number of reconnects, fair as long as awake | a process is found where it listens; a receiver nobody can reach, a connection in one direction and a sender in a segment that was left do not last, unless a thread missed that its flag fell; when the first hello comes |
| `lifecycle` | two calls of `Start`, any calls of the rest, fair | no thread survives; what can end the process; nobody sleeps on what has come; where `Stop` can hang |

Five more properties come from what the documentation, a comment or a test says.
The code does not have them, and TLC finds how:

| run | property | what happens |
|---|---|---|
| `slot_unmapped` | `MappedWhileUsed` | `reset_send_channel` unmaps the segment under a thread that is in `send_packet` |
| `slot_disconnect` | `DisconnectHeeded` | the heartbeat's store and notification fall between predicate and wait: the receiver sleeps on |
| `pipeline_received` | `EveryMessageReceived` | a retried chunk goes behind the last one, and the receiver drops the message |
| `lifecycle_stop` | `StopReturns` | `running_` is in no wait predicate: the woken thread sleeps again, `Stop` joins it for ever |
| `rendezvous_hello` | `HelloComes` | a segment opened before it has its size ends `send_loop`; one opened before it works loses its name |

The neighbouring properties say what does hold in spite of these, and name the
exceptions:

* `NoPacketLost` up to a flap and `TakenOnce` beyond it (an unread packet is
  overwritten when a hello falls between the two tests of the flag, 418-419).
* `UndisturbedArrives` and `UndisturbedInOrder` for messages none of whose chunks
  was retried or lost, `WholeMessages` and `DeliveredOnce` for all.
* `OnlyRetriesLose`: while nobody stops and nothing breaks, a message that is lost
  was cut into chunks and queued again; `EveryMessageReceived` has no other
  counterexamples.
* `CopiesInside`: what `recv` copies lies inside the buffer that it finds under the
  number of the message, whatever was lost before. That is for messages whose
  length three bytes hold (`WidthAssumption`); a longer one arrives with a shorter
  `totalLen` (`TooLongArrivesShorter`), hence with a buffer too short for it.
* `OneStartIsSafe` for an object that is started once: an object that was never
  started ends the process in its destructor (315), one started twice in `Start`.
* `EmptyPopNeedsHello`: `pop_packet` takes from an empty queue, but only when a
  hello falls between its predicate and its second look at the flag (393-394).
* `HangsOnlyAsleep`: `Stop` hangs in no other way.
* `NothingWaitsForASleeper`: a thread that sleeps has nothing to do. `send_loop`
  sleeps on a queue that is not empty only while the poster is between its push
  and its notification, `recv_loop` never on an unread packet. What the waits do miss
  is `running_` (`lifecycle_stop`) and a connection flag that falls
  (`slot_disconnect`).
* `FewLateAnswers`: of the pings that the reset of a hello forgets, and of their
  answers, at most three lower the new count (they can be under way in four
  places, and the hello that makes them old was in one of them).
* `GivenUpForAReason`: the count gives up a peer that owes no more answers than the
  limit, those that came late taken off, only because more late answers came than
  it owes and wrapped the count (222).
* `DeafIsReplaced`: only for a receiver whose process believes that it can send
  (one that waits for a first hello under a removed name waits for ever, which is
  `rendezvous_hello`), and which does not miss that its flag falls: asleep in a
  segment that has no name, it is never woken.
* `OneWayEnds`: unless a thread of the side that is connected has missed that its
  flag fell. It sleeps on, and the heartbeat is not active any more (337).
* `StraySendersMoveOn`: with the same exception, and unless hellos of the peer keep
  raising the flag before `send_loop` has seen it fall.
* `FirstContact`: the hello comes if no segment is opened before it works, no hello
  misses its deadline and no heartbeat gives up. (A server that is started after the
  client removes the name of the client's segment, 262; then the heartbeats give up.)

Each exception of these four is needed: without it TLC finds a counterexample.

### Bounds

* `MaxCalls` (calls of `send_packet` per thread): 1 with three threads, 2 with
  two. A bad hand-over needs a packet in the slot, one being sent, and a third
  thread that changes a flag or steals a wake-up; the proofs lift this bound.
  In the runs with two sending threads one thread plays `send_loop`, the
  heartbeat and the receive thread of the sending process: liveness needs a
  thief of wake-ups and a caller, not their identities.
* `Cap` 2 and sizes 0, 3 and 5: an empty message, one of two packets, one of
  three with a short last one. Three is the least with a middle chunk, which
  `WholeMessages` needs; the run with two messages has none, the proofs do. `MaxMsgs` 2: one to
  disturb and one to be disturbed by. Posters are interchangeable (symmetry), in
  the safety run only.
* `B` 4 and `FirstSeq` 126: the numbers on the wire are -128 … 127, and the two
  messages are the last one before the wrap and the first one after it.
* `MaxBreaks` 2: three sessions. No break in `pipeline_received`: the message is
  lost without one.
* `W` 4, `MAX_HEART_BEAT_FAILED_TIME` 1, `MaxConnects` 1 in `Heartbeat`: the count
  reaches the limit, passes it and wraps in both directions, and each hello may
  come while pings and pongs of both sides are under way. The theorems hold for
  every width, limit and number of connections.
* `MaxEnds` 1 in `rendezvous`: one process is killed or stopped at any step of the
  other, and started again. With 2 TLC takes longer and reports the same; the two
  theorems hold for any number. No end of a process in `rendezvous_hello`.
* `MaxQueued` 1: `PostMsg` waits in the model while a packet is queued. A second
  packet adds nothing to whether the queue is empty, which is all the predicate
  reads; a retry still comes on top of it.
* `MaxStarts` 2: the least that shows a second `Start`; 1 in `lifecycle_stop`.

Deadlock is not checked where a bound, a finished `Stop`, or waiting for a peer
that does not come makes the system come to rest (`CHECK_DEADLOCK FALSE`); in
`ChannelLifecycle` the peer can always come and go.

### Fairness, and why the code justifies it

* Every thread that can run runs (weak fairness of its steps), and one that
  waits for a mutex gets it if the mutex keeps becoming free (strong fairness of
  `SendAcquire`, `SendExpired`, `RecvAcquire`, and `ClearSendQueue` of the
  lifecycle): the scheduler's and the mutexes' promise; no critical section of
  the code blocks.
* The deadline of `send_packet` is computed once, before the predicate loop of
  `wait_for`: it is reached however often the wait is interrupted (strong
  fairness of `SendTimeout`).
* In `MessagePipeline`, a packet whose send is possible again and again is sent in
  the end (strong fairness of `SendSucceeds` for each packet): the receiver, which
  is fair itself (weak fairness of `Take`), empties the slot within the deadline
  now and then. This is assumed, not shown; a callback that always takes longer
  than the deadline is outside of it. `PacketsArrive` shows that it is enough: no
  packet is stuck behind the others, or dropped between a failed send and the next.
* In `Heartbeat` only `heart_beat_loop` is fair: its sleeps end, and so does its
  ping. Nothing is asked of the peer or of the other threads.
* In `Rendezvous` the threads are fair while they are awake, and nothing has to wake
  one that sleeps on a lowered flag. A process that ended is started again
  in the end, and `GiveUp` is fair only while no answer can come (`Unanswerable`),
  which is what `SilenceIsNoticed` gives. The heartbeat may also give up a peer
  that answers; nothing obliges it to.
* Nothing obliges the user to post, to stop or to destroy, the peer to come, to
  send or to say hello in `ChannelLifecycle`, a wait to end spuriously.

## What is proved

TLAPS proves every safety property that a passing run checks, for every value of
the constants that their assumptions allow, and both refinements. The
assumptions are named where the constants are declared and evaluated by TLC:
`ThreadAssumption`, `ByteAssumption` (a byte has an
even number of values), `SizeAssumption`, `WidthAssumption` (messages whose length
and chunk count the header can hold, and no more of them than it can number),
`NullAssumption`, `CounterAssumption` (the counter can pass the limit without
wrapping), `EndAssumption`, `StartAssumption`.

### ChannelDataProofs

For any set of sending threads, any identification of the roles and any number
of calls: the type invariant, the six safety properties of `slot`, and that
`ChannelData` implements `SlotHandoff`. The inductive invariant is `IInv`:

* `LockInv`: a thread is in a critical section exactly if it owns the mutex, so no
  way out of `send_packet` or `recv` leaves it locked. `MutualExclusion` follows, and every other part uses it to exclude the second thread.
* `SlotInv`: a packet on its way is the one of the thread's latest call, and
  between the copy and the publication it is what the slot holds.
* `WaitInv`: the receiver copies only a packet that is there and goes to sleep
  only on an empty slot. Without it `NoPacketLost` and `NoMissedWakeup` are not
  inductive: a spurious copy, or a wait begun on a full slot, would break them.
* `EmptyInv`: until a flap, a sender that will write finds the slot empty. The
  two tests of `send_connected` are the reason for the condition: only a flag
  raised in between lets a sender through on a full slot.
* `ByeInv`: a farewell in the slot comes with `sender_working` cleared, and a
  receiver that took it is on its way out; hence `ByeIsLast`.
* `LateInv`: only the sender that is between test and publication can be late,
  and the mutex allows one.
* `FreshInv`: packets carry the number of their call, so the one in the slot and
  the ones still to be published are new to the receiver; hence `TakenOnce`.

`StepCases` sorts the steps of `Next` by what they touch, one lemma per part of
`IInv` shows that each sort of step preserves it, and `NextIInv` puts them
together. `HandoffStep` then maps each step: `RecvTake` is a take, `SendPublish`
a put (`EmptyInv` gives its guard), a raised flag a flap, leaving a close, all
others stutter.

### PacketHeaderProofs

`Wire` says field by field what `GetHeader` makes of the bytes of `SetHeader`, for
every header and every even `B`: the remainder of `totalLen` by B³ and of `msgSeq`
by B⁴ read as signed, the counts as they were. `RoundTrip` is the case where both
fit, `OnlyWhatFitsComesBack` says that there is no other, and
`TooLongArrivesShorter` that a length beyond three bytes becomes smaller, never
larger. They rest on division with remainder (`Shift`, `SignedOf`), not on the value of
`B`.

### MessagePipelineProofs, MessageLossProofs and MessageServiceProofs

`StepCases` again sorts the steps: a message is posted, a chunk pushed, popped,
sent, dropped, retried, cleared, taken. The invariant grows with the claims:

* `WayInv` is about where chunks are: `Known` (only chunks of posted messages),
  `Ahead` (a poster has queued exactly the chunks before its next one), `Single`
  (no chunk is in two places), `Somewhere` (none is nowhere unless its message is
  lost). It gives `NoChunkForgotten`.
* `RecvInv` adds the receiver: `Once` (what was delivered had its last chunk
  taken, and a chunk is taken once) and `Whole` (an entry's byte count is `Cap`
  times the chunks in it, as the last chunk, the only short one, is never in an
  entry that stays). Bytes equal to the total length then mean all chunks:
  `WholeMessages`. `DeliveredOnce` follows from `Once`.
* `FullInv` adds `InOrder` (the chunks of an undisturbed message never overtake one
  another) and `Arrived` (its entry holds what was taken of it, until the last
  chunk). It gives `UndisturbedArrives` and `NoLeftovers`. Keys of `recv_msg_map_`
  do not meet because `Number` is injective on the messages `WidthAssumption`
  allows (`NumberInjective`, from `Wire`).
* `CopiesInside` follows from `RecvInv`: `Whole` records that the buffer of an entry
  is as long as the message its number belongs to, which takes that numbers are
  distinct and that a new entry reads its length from the wire (`BufferIsOfMessage`);
  the chunk in the segment is one of the same message, and lies within its length
  (`ChunkLiesWithin`).
* `LossInv` adds to `FullInv` that a message of one packet is delivered with it,
  disturbed or not (`ShortDone`), and that before the first stop or break `send_loop`
  is in its inner loop, the segment is never overwritten and nothing is lost
  (`Calm`). With every place but the receiver empty, `Somewhere` then says that
  last chunks were taken, and `UndisturbedArrives` or `ShortDone` that their
  messages were delivered: `OnlyRetriesLose`.
* `OrderInv` adds `Completion` (what is queued with its last chunk is accepted,
  once) and `NoneOvertaken` (of two undisturbed messages the one accepted first is
  further on its way). It gives `UndisturbedInOrder`.

`ServiceStep` maps each step of `MessagePipeline` to one of `MessageService`, or to
none: `Post` to a post, the last `Push` to an acceptance, whatever makes `lost` or
`retried` grow to damage, and a `RecvMessage` that calls the callback to a
delivery, whose guard is `OrderInv`.

### HeartbeatProofs

`TypeOK` with `CountExplained` is inductive: every step that moves a ping or a pong
keeps the pings under way in balance with what is owed, and `++` and `--` on `W`
values are addition and subtraction modulo `W` (`Up`, `Down`). `GivenUpForAReason`
follows: unless more late answers came than are owed, the count is a remainder of
the difference, hence not above it (`NotAbove`). `FewLateAnswers` is inductive with
`TypeOK`: a step hands an old ping or pong on or counts it, and only a hello makes
old ones. The step that handles it sets `late` to zero and empties the hand of its
receive thread, which held the hello, so that at most the other three places hold
what the reset forgets.

### RendezvousProofs

`TypeOK` is inductive alone (its last part says which mappings and names go with
which control states), and `FoundWhereItListens` with it. The argument for the
latter is the order of 145, 476 and 559: a mapping goes from the current segment to
an older one in the step that creates the next, before the new one can be opened.

### ChannelLifecycleProofs

`IInv` adds to the properties: `Owned` (a thread that runs is owned by a member),
`Owners` and `Joins` (which members own a thread while the object runs, and at each
join of `Stop`), and `Pops` (between predicate and `front()` the queue is not empty,
or the flag is down, or a hello raised it), which needs that `Stop` empties the
queue only under its mutex. `Idle` extends `NothingWaitsForASleeper` to the moment
between predicate and wait, where the mutex keeps the poster out; without that
part it is not inductive. One lemma per thread shows that its steps keep it, most
of them because they bring nothing and put nobody to sleep (`BringsNothing`).

### Only model-checked

Everything under fairness: `SendReturns`, `PacketConsumed`, `PacketsArrive`,
`SilenceIsNoticed`, `DeafIsReplaced`, `OneWayEnds`, `FirstContact`,
`StraySendersMoveOn`, `HangsOnlyAsleep`. The prover does not reason about `ENABLED`.

## Assumptions

* `interprocess_mutex` and `interprocess_condition` behave as POSIX says: a wait
  releases the mutex and sleeps in one step, may end spuriously, and
  `notify_one` wakes any one waiter.
* Creating, opening and removing a name are atomic, and a removed segment stays
  usable for those that have it mapped, as POSIX says of shared memory.
* Atomics are sequentially consistent (the code uses the default order).
  `recver_working` is a plain `bool` that `Stop` stores without the mutex; a
  store and a load of it are taken to be indivisible.
* No process is killed inside a critical section (the mutex is not robust), and
  the two processes run the same build.
* One user thread calls `Start`, `Stop` and the destructor, not from the
  callback, and the destructor only when no `PostMsg` is under way.
* `msg_seq_picker_` starts at any number. Control packets draw numbers from it too;
  they have no entries in `recv_msg_map_`, and the messages of the model are numbered
  without the gaps they leave.
* The layout of a `short` and a `long` is that of the 64-bit builds, where
  `msgSeq` is wider than the wire.

## What is not modelled

* The vendored libraries under `src/3rd` (Boost, GoogleTest, nlohmann json), which
  are nearly all of the repository's lines: their contracts are the assumptions
  above. All of `src/src/IpcShmChannel.cpp` that changes state is modelled, but for
  `SetRecvCallback`: the callback is set once, before `Start`.
* `test_shm.cpp`, which exercises the operating system's shared memory only.
  `test_channel.cpp` is where two of the properties that fail come from.
* A new segment mapped over `recv_region_` (160) while the heartbeat or `Stop` is
  between two loads of `recv_channel_`.
* A killed process that held the mutex; `Stop` called from the callback, or by two
  threads.
* A sending process that was started again meets the entries of its earlier life
  in `recv_msg_map_`: `MessagePipeline` has one life of the sender.
* Errors of the operating system other than "not found" and "already exists", which
  end a loop (156, 196), and the error of a segment that has no size yet where the
  system reports one on mapping it: as with a size that is too small, `send_loop`
  ends.
* The bytes of messages, `sender_pid`, the output on `std::cout`, allocation
  failures; Windows, but for code that is the same there.
