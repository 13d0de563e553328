# DataDumpProtocol in TLA+

A server dumps the bytes of a storage application into a buffer of a client
application: REQUEST, RESPONSE, INITIATE_BLOCK_TRANSFER, a number of
BLOCK_TRANSFER frames, BLOCK_ACK. Both ends are state machines that a thread
calls for ever; they share nothing but two queues of byte strings, and each has
a one-shot timer for the packet that does not come. Paths below are relative to
the root of the repository; `src/` in `PROJECT.json` is that root.

## 1. Inventory

| Component | State | Operations | Interacts by |
|---|---|---|---|
| `DDServer` (`dataDump/DDServer.cpp`) | current and next state, busy flag, terms of the client, read buffer and its length, frame counter, success flag | `FSMLoop` (six states), `startServer`, `stopServer` | queues, storage callback, notify callback, timer; the application thread writes the next state |
| `DDClient` (`dataDump/DDClient.cpp`) | the same, with the application's buffer and the server's terms | `FSMLoop`, `startNewTransfer` | queues, notify callback, timer; the application thread writes buffer and next state |
| `DataDump` (`dataDump/DDBase.cpp`) | the fields of both, `cur_mutex`, `nxt_mutex` | `send`, `receive`, timer calls, state getters and setters | base class of both |
| Packets (`dataDump/DDPacket.cpp`) | two headers and a payload | `serialize`, `deserialize`, conversions of every field | used by `send` and `receive` |
| `btimer` (`bTimer/bTimer.cpp`) | handle, `timerExpiry`, `resProtect` | `start`, `stop`, `isExpired`, `restart`, `timeoutCB` | FSM thread and io_service thread |
| `DDTest` (`dataDump/DDTest.cpp`) | two queues of 20 messages, storage, `startNextTransfer`, `TransactionCount` | send and receive callbacks, storage read, notify, the threads, the loop that starts transfers | everything above |
| `CRC16` (`dataDump/crc16.cpp`) | none | `generate`, which returns 0 | `receive` |
| `ClockAndTimer` (`ClockAndTimer/`) | `msTimer`'s mode, status, timeout, stopwatch, expiry; `Stopwatch`'s laps | `start`, `stop`, `isExpired`, `evaluationLoop` | owner thread and loop thread, by `resource_mutex` and a condition variable; not used by the protocol |
| `ErrorHandler`, `Logger`, `app/main.cpp` | none to speak of | | |

What is hard here, and where a test hardly reaches:

* six threads: two FSM threads, two timer threads, the main thread, all of which
  poll; the two ends never wait for each other but through the queues;
* a receive pops a message before it looks at it: whatever came at the wrong
  moment is lost, and nobody sends anything twice;
* transaction ids never change and frame numbers are never looked at, so that
  only the order of events keeps two transfers apart;
* a handler of the timer does not know which wait it belongs to;
* every lock is a `try_lock_for` whose failure is not reported, or reported as
  TERMINATE;
* a transfer is handed over through six variables, two of which have a lock;
* a condition variable is waited for without a predicate;
* pointers and lengths that move together, over several frames and transfers.

What makes each component correct: the server sends the whole batch it read and
counts it a success only when *that* batch is acknowledged; the client reports
success only with the whole batch in place, and every transfer exactly once; the
two agree on terms; a packet survives the wire; a timer is never early and its
owner hears of every expiry it needs. `PROJECT.json` lists the hazards at their
lines.

## 2. Modules

```
StateTimer  <- TimerView            abstract timer
    ^   ^----- BTimer               threads, lock and handlers of one btimer
    |             BTimer_proofs
  DDBase                            packets as records, queues, terms
   ^   ^
DDServer DDClient
    \   /
  DDProtocol -> TransferService     the two ends, timer threads, application;
    ^      ^                        what they promise
    |      '-- DDProtocol_proofs  <- DDTransfer_proofs, DDFrames_proofs
  DDLockstep                        the phases of a transfer as built
    ^      ^-- DDLockstep_proofs    (with the proofs of the two above)
MCDDProtocol
DDPacket -> PacketLink              bytes of a packet; the queue as records
    ^  ^------ DDPacket_proofs
MCDDPacket
StateHandshake -> HandshakeView     a transfer between DDTest's loop and the
    ^------ StateHandshake_proofs   client's FSM, one access at a time
MsTimer                             msTimer and its loop
    ^------ MsTimer_proofs
```

**DDServer, DDClient.** One variable per field, with the field's meaning beside
it in the module. `srvPc` / `cliPc` say where the FSM thread is: between two
calls of `FSMLoop`, or in one of its do-while loops. A state without a loop is
one action. A state with one is entered in one action (everything up to the
loop) and left in another (the pass that ends it and everything after it);
passes that drop a message are `ServerDiscards` / `ClientDiscards`, passes that
change nothing are left out. So a state of the model without successor is one
where every thread polls in vain for ever, and TLC's deadlock check means just
that. `receive` (or `send`) and the `isExpired` after it are one step: the queue
and the timer are touched by other threads under their own locks, each once per
pass, and what another thread does between the two can be moved before or after
the pass. History fields, not in the program: `srvBatch`, `srvAcked`,
`cliBatches`, `transfers`, `starts`, `stops`, and `batch` of a packet.

`startServer` and `stopServer` are two steps each, the check (`StartServerChecks`
of the busy flag, `StopServerChecks` of the current state) and the write of the
next state (`StartServerSets`, `StopServerSets`); the FSM thread goes on in
between, so that the check may be stale when the write comes. The write itself
(`SetsNext`) may be lost: to a lock timeout, or to the FSM thread, when it falls
between the look at the next state and the end of a state whose code is one step
of the model and sets the next state itself (`SetsNextItself`: TERMINATE, and a
RESPONSE with nothing to send).

**DDProtocol** puts the two together with the two timer threads and the
application. `StartNewTransfer` is called after the last outcome was notified,
as `DDTest` does, and may come before the client is idle again, when it is
refused by the busy flag.

**DDLockstep** says of the protocol as built where the two ends are at together
and what is then under way. `AsBuilt` collects what `DDTest` configures. There
are ten phases: `Resting`; `Requested`, `Answering`, `Answered`, `Accepting`,
`Initiated`, `Dumping`, `Dumped`, `Acknowledged`; and `RequestedEarly`, since a
client is through with a transfer as soon as its ACK is in the queue and may
request the next before the server has taken it. In `Dumping` the frames
stored, those queued and those cut are consecutive pieces of one batch: after `n`
frames `Cut(n)` bytes are gone, `Frame(n)` carries `Piece(n)`, the client holds
`Pieces(n)` and the server `Rest(n)`. `LockStep` is the conjunction of the phase,
what each end holds in it, and that no timer has expired.

**StateTimer** has the timer as a pair of Booleans (may still fire; has fired).
`RunServices` says which io_services a thread runs. In the program the handle
is created on the *member* `service` (`bTimer.h:32`), which hides the
constructor's argument of that name, and the threads of `DDTest` run the argument:
`RunServices = {"argument"}` is the program **as built**, in which no timer
ever expires. `{"member"}` is the configuration the design, and the declaration
of a friend `serviceTaskLoop` (`bTimer.h:54`), intend; it shows what holds once
timers run. `LockTimeouts` says whether a `try_lock_for(100us)` may give up.

**BTimer** has one timer at the grain of its critical sections: lock and body are
two steps, a handle is a number, a wait is outstanding, completed or handled, a
handler looks at the handle of the moment, calls back without the lock and takes it
again in `restart`, which only for a PERIODIC timer does anything: it cancels the
wait on the handle of the moment and waits once more. **TimerView** is StateTimer as a
specification, and `ImplementsView` the refinement: this is what entitles
DDServer and DDClient to the atomic timer. An expiry that is lost with a lock is a step
of the view as well, so this refinement does not count the losses; `ExpiryComes`
does. The refinement holds for a PERIODIC timer too,
whose owner may lose an expiry it has not asked for: the handler that a restart
cancels overwrites `timerExpiry`. `ExpiryComes` is what justifies the fairness of
`timers_live`: a pending timer does report its expiry unless a lock was given up.

**DDPacket** has the bytes: `Serialized` and `Deserialized` are the two
functions of the code with their conversions, `Send` and `Receive` the two calls
of `DataDump`, the queue a sequence of byte strings. **PacketLink** is the queue
of records used by DDBase; `ImplementsLink` is the refinement. Frame numbers are
assumed to be at most 127, which `FrameNumberFits` guarantees.

**StateHandshake** has what DDClient takes as single steps: how the main loop of
`DDTest` gives a transfer to the FSM thread and gets it back, one access to a
shared variable at a time (current and next state, `isBusy`, the application's
buffer and its length, `startNextTransfer`). The critical sections of `nxt_mutex`
are two steps, the lock and the body, so that the other thread's
`try_lock_for(1ms)` may give up in between; only the FSM thread ever takes
`cur_mutex`, which therefore never fails. What a state does with packets is left
out: it leads to any state its code can set. **HandshakeView** is the coarser
grain, and `ImplementsHandshake` the refinement: until a lock is given up, the
calls are as good as atomic, and a notification stands for the whole of
TERMINATE. After that nothing is promised, and TLC finds what happens: an idle
client that gives up in `getNextFSMState` enters TERMINATE and notifies a failure
of a transfer that never was; a `startNewTransfer` that gives up in
`setNextFSMState` still returns true (`transfer` is then "lost"), the client stays in
IDLE and `DDTest` waits for ever, which is one of the three causes in
`SleepsForAReason`; a TERMINATE whose
`setNextFSMState(IDLE)` gives up runs again and notifies the same transfer
twice, the second time as a failure.

**MsTimer** has the other timer at the grain of its lock: each accessor of
`base_timer` is one critical section of `resource_mutex`, and a call of `start`
or `stop` several of them, for the owner and for `evaluationLoop`, which calls
them too. The loop waits on the condition variable without a predicate: a
`notify_one` is heard only while it waits, and it may wake up for no reason. Time
goes by in half milliseconds, since `Stopwatch` rounds to the nearest, on a wall
clock (`high_resolution_clock`) that can be set, forward or back (`ClockIsSet`): a
running stopwatch then shows any time, and a negative one is a huge one. A PERIODIC timer is
modelled as it is: the `start` in its loop is refused because the timer still
runs, so the stopwatch is not started again and the timer, once over, calls back
in every pass (the comment in `msTimer.cpp:99` speaks of a restart); only a stop
of the owner in that moment lets the restart through, and brings the stopped
timer back to life.

**TransferService** is what an application sees: its buffer fills with a prefix
of the batch, and success means the whole of it. `ImplementsService` (in
DDProtocol) is the refinement.

## 3. Runs

| Run | Configuration | Shows |
|---|---|---|
| `as_built` | no timer expires, queues of 2, 13 bytes in frames of 6, 6, 1, three transfers in a buffer of exactly 13 | `NoMutualWait`, `TransferSucceeds`: the polling threads never wait for each other; `LockStep`: the queues hold exactly the packets of the phase the two ends are in; `DeliveredIntact`, `AckOfThisBatch`; `ReadFitsBuffer` and `FramesWithinTerms`, where the server has room for all batches and the shorter packets; the refinement `ImplementsService` |
| `timers` | timers expire at any moment, lock timeouts, queues of 3, three transfers, two starts and a stop | `TypeOK`, `BatchComplete`, `FrameNumberFits`, `BufferAccounted`, `NotifiedOnce`, `AgreedTerms`; `EndsInTerminate`: only a second start or a stop takes a running transaction past TERMINATE |
| `timers_live` | timers expire, no lock timeout, buffer of 10 so that the second frame is refused | `TransferEnds`, `ServerReturns` |
| `btimer` | both modes, three starts, any number of periods, lock timeouts, handlers left over | `TypeOK` (no more handlers than handles), `NoEarlyExpiry`, `PeriodicGoesOn`, `StopLeavesOne`, `ExpiryComes`, `ImplementsView` |
| `packets` | every type, ids with each byte at stake, frame numbers 1, 64, 127, payloads up to one that is too long for the receiver | `SizesTruthful`, `ImplementsLink` |
| `handshake` | lock timeouts, three transfers with buffers of two frames | `StoresIntoGiven`, `SleepsForAReason`, `AcceptedIsNotified`, `ImplementsHandshake` |
| `mstimer` | both modes, timeouts of 0 to 2 ms, two starts, any number of stops and wake-ups for no reason, the clock set once, forward or back | `CallbackNeedsStart`, `StopLeavesOne`, `SleepsOnlyUnheard`, `OverInTime`, `OneShotEnds` |
| `read_overrun`, `not_erased`, `long_frames`, `no_timeout`, `stop_ignored` | as built, the last with one stop | the five findings below |

*Bounds.* `Capacity` stands for the 20 messages of `DDTest`: a transaction has at
most five messages in a direction, and 2 or 3 make the queue full, so that a send
is refused and retried. Three transfers let what one transaction left behind meet
the two after it. Frames of a payload of 6 bytes and a last one of 1 give a full,
a middle and a partial frame. `MaxStarts`, `MaxStops` and `MaxTransfers` only bound
the calls of the application; in `timers` two starts and a stop let one call's check
go stale by the other, and a second start cut a transaction short (TLC finds
INITIATE_BLOCK and BLOCK followed by REQUEST, and BLOCK by IDLE). The packet lengths are the smallest that hold a transaction
packet. In `as_built` the server has room for three batches (7 blocks of 6
bytes), so that the overrun of `read_overrun` does not happen inside the run (39 of 42 bytes: a block less and it would).
In `btimer`, `MaxStarts` = 3 lets two handlers of old handles meet a third handle. In
`handshake`, three transfers let one that is running meet the flag of the one
before and the end of the program; a buffer of two frames is full, partly used
and empty. In `mstimer`, two starts with a stop between them are what it takes for
the stop inside the loop to meet a start it does not belong to; a timeout of 2 ms
is four ticks, one of which the rounding may take; once the clock was set,
setting it again shows nothing new.

*Fairness.* Weak fairness of each FSM thread (`serverTaskloop` and
`clientTaskloop` call `FSMLoop` for ever), of each timer thread (`io_service::run`
completes every wait that is due), of the first `startServer` call, and of the
second half of a call that has begun. None of a
stop or a second start, and none of the start of a transfer, except in `handshake`, where the main
loop of `DDTest` is weakly fair (`sleep(10)` returns). In `btimer` and `mstimer`: a call that
has begun goes on, the service thread or the loop goes on, time goes by; the owner
need not call. Time is abstracted, so weak fairness of
the timer thread says that a timer that is not stopped does expire; in
`as_built` these actions are never enabled.

*Deadlock* is checked except where the system may rest: in `timers` an expiry may
be lost and both ends then poll for ever, in `no_timeout` the client polls in vain,
and in `stop_ignored` a stopped server stays in IDLE. In `handshake` the process ends after its
last transfer (`DDTest` returns with joinable threads).

`timers` states less than `as_built` on purpose. Once timers expire,
`DeliveredIntact` and `ImplementsService` fail: with three transfers and a buffer
of 19 bytes a client stores frames of an abandoned transaction before those of its
own, and the last frame's flag makes this a success. `AckOfThisBatch` fails
from four transfers and queues of 3, by an ACK that arrives after its server gave
up. The two are properties of the lock step in which the program runs as it is
built, and would have to be protected by transaction ids and frame numbers
when timers are made to work. Likewise `timers_live` excludes lock timeouts:
with them one lost expiry (`bTimer.cpp:163`) leaves an end polling for ever. So do
`as_built`, `no_timeout` and `stop_ignored`: a `startServer` whose write is lost
leaves the server in IDLE although it returned true, and `TransferSucceeds` with
it; and what `no_timeout` and `stop_ignored` show does not take a lost lock.

## 4. Findings

1. `ReadFitsBuffer` without `RoomForAll`: `internalBuffer` moves with every frame
   (`DDServer.cpp:246`) and never back; a later transfer, in the run the second,
   reads behind the allocation.
2. `AckedIsErased`: the erase after an ACK asks for 0 bytes (`DDServer.cpp:298`).
3. `FramesWithinTerms` without `ServerIsNarrow`: frames are cut by the server's
   limit, not by the agreed one (`DDServer.cpp:239`).
4. `TransferEnds` as built: no timer ever expires (`bTimer.cpp:42`).
5. `StopTakesEffect`: once a stop has made IDLE the next state, no step but a
   `startServer` may take that back; the FSM thread does, when a request arrives
   (`DDServer.cpp:446`).

Two more disagreements are in the models and not in the list. A refusal,
BLOCK_ACKNOT, has no case in the conversion of types and travels as UNASSIGNED
(`DDPacket.cpp:318`): `OnWire` and `WireType` say so, and every property holds with
it, since the server takes anything but an ACK for a refusal. A PERIODIC `msTimer`
is not restarted (above).

## 5. Proofs

All are checked by TLAPS for every value of the constants that meets the named
assumptions (`TimerAssumption`, `ConfigAssumption`, `SizeAssumption`,
`BoundAssumption`, `PacketAssumption`, `HandshakeAssumption`, `MsTimerAssumption`); TLC evaluates the assumptions in the runs.

* **DDProtocol_proofs.** `TypeCorrect`: `Spec => []TypeOK`. Not inductive alone:
  the ACK names the batch of the last stored frame, so the type of what the client
  sends rests on there being one. The strengthening `ClientInLoop` says that a
  client in a loop is busy (so no transfer starts there and empties the buffer) and
  has stored a frame when it is about to send the ACK. The room left stays a natural
  number because a frame is stored only if it fits.
* **DDTransfer_proofs.** `EachTransferNotified` (`NotifiedOnce`) and
  `NothingBehindBuffer` (`BufferAccounted`), together, because the room is
  accounted for exactly while a transfer runs. Strengthening: `LoopHasNext`, a
  client in a loop has a next state other than IDLE. `TransactionsTerminate`
  (`EndsInTerminate`), from `EndsItself`: a server that was started once and never
  stopped leaves IDLE only by that start, and between two states of a transaction
  its next state is another one of it or TERMINATE (`ServerGoesOn`,
  `CallsDisturbNot`).
* **DDFrames_proofs.** `TermsAgreed`, `WholeBatchSent` and `FrameNumbersFit` from one
  invariant, `FInv`: whatever is in the queues, left-overs included, every REQUEST
  carries the client's configuration and every RESPONSE what the server makes of it
  (`ChannelsSettled`); the server holds these terms from RESPONSE to TERMINATE
  (`ServerTerms`), the client from the RESPONSE it took (`ClientTerms`); and the
  bytes left are at most the payload times the frames left (`ServerFrames`), which
  bounds the frame number by the number of blocks and leaves nothing after the last
  frame (`CutLeaves`, `FrameCount`). The timers are not used: all this holds
  whether they run or not.
  `FramesFitTerms` (`FramesWithinTerms`) has the hypothesis `ServerIsNarrow`: the
  server's packets are no longer than the client's. It is what finding 3 lacks,
  and with it the server's cut and the agreed one are the same.
* **DDLockstep_proofs.** `AlwaysInStep`: `AsBuilt /\ Spec => []LockStep`, for every
  batch, packet length, number of blocks, capacity and number of transfers. The
  invariant is `LockStep` with those of the two modules before (types, terms,
  room, frames left). Each step leads from a phase to itself or the next
  (`ServerStepInStep`, `ClientStepInStep`, `AppStepInStep`), since the phase says
  what is at the head of the queue, and that is always what the receiver waits
  for (`ServerNeverDiscards`, `ClientNeverDiscards`). The arithmetic is in
  `CutGrows`, `CutEnds`, `PartsOfRest` and `NextPiece`: cutting `Rest(n)` gives
  `Piece(n + 1)` and `Rest(n + 1)`, and the server marks as last exactly the frame
  that empties the batch.

  From it: `BatchDelivered` (`DeliveredIntact`), `AckAnswersBatch`
  (`AckOfThisBatch`), `SomebodyGoesOn` (`NoMutualWait`), `ServiceImplemented`
  (`ImplementsService`: every step of the two ends is one of the service or a
  stutter); `FewPacketsUnderWay`, at most an ACK and a request to the server and
  at most the frames of one batch to the client: 18 for the 256 bytes of `DDTest`
  in frames of 15, so that its queues of 20 are never full; `NothingThrownAway`, no
  step discards a packet or refuses a frame. `ReadsStayInside` (`ReadFitsBuffer`)
  needs `RoomForAll` as well: `srvOffset` grows by one batch with each transfer
  (`BufferMoved`), so the reads stay inside the allocation as long as it has room
  for the batches of all transfers. That is the exact reach of finding 1: the 525
  bytes `DDTest` allocates hold the first two of its reads of 256. Beyond it the
  program's behaviour is undefined, and what the other theorems say of the model
  no longer speaks of it.

  Each hypothesis of `AsBuilt` is needed, and none is beyond what `DDTest`
  configures. `~TimersRun`, `MaxStarts = 1`, `MaxStops = 0`: a transaction that is given up leaves
  packets behind, which the next takes for its own (section 3). A client with a shorter
  packet length drops the frames; a client with the id 0 declines the terms; an
  empty batch is not answered (`no_timeout`); of a batch that is larger than the
  buffer a frame is refused, and the refusal is no ACK when it arrives. In the last
  four cases one end waits for ever.
* **DDPacket_proofs.** `RoundTrip`: for every transaction packet and every frame
  with up to 250 bytes, `Deserialized(Serialized(p)) = OnWire(p)`, where `OnWire`
  changes only BLOCK_ACKNOT to UNASSIGNED. The four bytes of an id are put
  together again by division with remainder, the metadata by cases on the continue
  bit, the payload by the facts on `SubSeq` of a concatenation. `NoOverread`
  (`Spec => []SizesTruthful`) and `LinkRefinement` (`Spec => ImplementsLink`)
  follow by the invariant that the queue is a sequence of serialized packets.
* **StateHandshake_proofs.** `HandshakeTyped`, `StoredIntoGiven`,
  `StuckForAReason` and `HandshakeRefinement`. Three strengthenings: `Given` follows
  the buffer and the room through `startNewTransfer` and TERMINATE whatever locks
  are given up (room without a buffer exists only between the two halves of the
  cleanup, and no frame is stored there); `Turns` says which places the two threads
  can be at together; `HandedOver` holds only until a lock is given up and says
  what is then known of the two states, the flag and the transfer, from which each
  step is one of the coarser grain or a stutter. `Reasons`, for `StuckForAReason`,
  does hold with lost locks: it follows the flag and the next state from the call
  that lost its write to the loop that sleeps for ever.
* **MsTimer_proofs.** `MsTimerTyped`, `OneCallbackPerStart`, `OneCallbackAfterStop`,
  `RunningIsWatched` and `NotOverEarly`, from one invariant. `OneShot` counts the
  callback that the loop, by its place, already owes (`Owed`) with those made;
  `StartReady` says that the owner gets beyond the tests of `start` only with a
  timeout and a timer that stands still; `Punctual` that, while the loop slept
  through a start, the elapsed time and the time left add up to the timeout, less
  the half millisecond of the rounding.
* **BTimer_proofs.** `BTimerTyped`, from the invariant `Counted`: the waits
  outstanding, the handlers ready to run and the one that runs are together at most
  the handles created (a stop or a completion turns a wait into a handler, a
  restart the handler that runs into a wait), which needs the cardinality of the
  set of waits. `PeriodicNeverDry` and `OneCallbackAfterStop`. `NothingEarly` and `TimerRefinement`. `NoEarlyExpiry` is not
  inductive: the body of a handler is right because of what the rest of the state
  says of handles. The strengthening has: handles are numbers up to `starts`; a
  handle that is set and not due has its wait outstanding (so that its expiry is
  still to be reported: without this the view could stop being pending while the
  program can still fire); and only a service that runs has completed waits.

Only model-checked: the properties with fairness (`TransferSucceeds`,
`TransferEnds`, `ServerReturns`, `AcceptedIsNotified`, `OneShotEnds`,
`ExpiryComes`), which need ENABLED and liveness reasoning the prover does not have.
Every invariant, action property and refinement of a passing run is proved.
`NoMutualWait` is the safety half of `TransferSucceeds`: what is left to TLC is
that threads which can go on do go on.

## 6. Not modelled

* A lock of the state given up together with the packets of the state it
  repeats: StateHandshake has the locks without the packets, DDClient the packets
  without the locks. In the server the application's write of the next state may
  be given up, the FSM thread's own calls of the two locks may not; with them lost,
  a state would run twice, or TERMINATE in the middle of a transaction.
* Two threads that call `startNewTransfer`: the program has one.
* `btimer`'s `registerCB`: nothing calls it.
* `msTimer`'s `create` (a `pthread_create` whose result is not read), its destructor,
  which cancels the loop, and `registerCB`; `Stopwatch`'s laps, used by a sample only.
* CRC: `generateCRC` does nothing and `CRC16::generate` returns 0; the field is two
  zero bytes. Payloads in transaction packets and `setHeader`: never used.
* What lies behind a buffer that is overrun: the passing runs do not get there.
* `Logger`, `app/main.cpp`: output, and a call of `DDTest`. `ErrorHandler`: tables of
  codes without state; `perform_action` is empty and nothing calls `processError`.

## 7. Plan

Done: the core (DDBase, DDServer, DDClient, DDProtocol), the service it
implements, the lock step of the program as built, the timer with its refinement,
the bytes with theirs, the hand-over of a transfer with its refinement, the other
timer, and the theorems above. Left:

* With timers that run: what of the lock step survives an expiry. A bound on
  what abandoned transactions leave in the queues, and from it the frames a
  client can store that are not of its own batch.
* What the erase after an ACK would have to ask for (finding 2), as an invariant
  that relates the bytes counted down to the batch that was read.
