# A verification of the SignalR client

TLA+ modules, model-checking configurations and machine-checked proofs for the
Rust SignalR client of this repository (`src/` of the crate: paths below are
relative to it). Everything is translated from the code; documents are quoted
only as promises to check.

## The system

| component | state it keeps | operations |
|---|---|---|
| connection (`communication/client_tokio.rs`) | `_state` (NotConnected, Reconnecting, Connected with a generation), `_shutdown`, `_next_generation`, the event channel; per generation a reader task, a writer task and the writer's command channel | `connect`, `send`, `disconnect_gracefully`, `disconnect`, the monitor (`run_reconnect_monitor`, `mark_connection_lost`, `reconnect_until_connected`) |
| client handles (`client/signalr_client.rs`) | one `Arc` each, a clone of the storage | `clone`, `invoke`, `enumerate`, `send`, `register`, `on_reconnecting`, `on_reconnected`, `disconnect`, `disconnect_gracefully`, drop |
| storage (`execution/storage.rs`, `storage_tokio.rs`) | a map of actions behind one mutex, retained messages behind another, a key counter | insert, contains, update, remove, defer, replay, cancel_pending, dispose |
| actions (`execution/callback.rs`, `invocation.rs`, `enumerable.rs`) | a callback; a future's completer; a stream's completer | update_with, cancel, drop |
| completers (`completer/`) | the state of a future, the queue and waker of a stream | complete, cancel, push, close, poll |
| frames (`protocol/messages.rs`, the framing functions of `client_tokio.rs`) | the bytes of a socket not yet read | split a frame into messages, classify and dispatch each |
| message encoding (`protocol/`) | none | serialize, deserialize |
| connection setup (`communication/common.rs`, `client/configuration.rs`, `connect_socket`) | the configuration; the connection data and the attempt of a loss | the setters, negotiate, choose a transport and an endpoint, open the socket, the handshake, delay |

How they interact. A handle's `invoke` inserts an action, looks up the current
connection and queues its message for the writer task; the reader task updates
and removes the action, which completes the future the caller awaits. The
reader, the writer and failing sends report a lost connection to the monitor
through the event channel. The monitor leaves `Connected`, cancels every
pending action, and reconnects, from the negotiation on, with growing delays;
callbacks of the user run in the monitor (before and after a reconnect) and in
the reader (hub-to-client invocations, with the storage locked). Dropping the
last handle, or a graceful disconnect of any of them, sets the shutdown flag,
clears the state and sends `Shutdown`. Connections end with their last `Arc`,
which aborts their tasks.

What is hard. Calls race with the loss and the replacement of their
connection; events of old generations arrive late and in double; the flag is
tested before long awaits and not after them; reference counts decide who
disconnects, while the monitor holds a reference for a time; registration
races with the arrival of messages; a completion is processed in two critical
sections; futures and streams must wake the right sleeper; frames do not keep
the boundaries of messages, and the setup of a connection drops a frame unseen;
delays are computed in words of a fixed width. `PROJECT.json`
lists these hazards at their lines with the properties aimed at them.

What makes each part correct:

- connection: no call is left for nobody to resolve; only a lost connection is
  given up; one connection is current; reconnecting ends; shutdown ends
  everything;
- connection setup: every request goes where the configuration says, with its
  credentials; every socket is opened with the address of its own negotiation;
  the delays double up to their maximum, and the limit on attempts is exact;
- frames: every whole message reaches the storage once and in order, whatever
  surrounds it;
- callback storage: a message is delivered once, or lost for a reason the user
  can know, and the retained ones are replayed;
- calls: one result each, every item in order and then the end, no lost
  wake-up, no action left behind.

## The modules

| module | about | checked by | proved in |
|---|---|---|---|
| `ConnectionLifecycle` | handles, tasks of every generation, monitor | `MCConnectionLifecycle`, 3 passing runs, 4 that find violations | `ConnectionLifecycleProofs` |
| `ConnectionContract` | what calls may rely on; `ConnectionLifecycle` implements it | as a property of two of those runs | `ConnectionContractProofs` |
| `CallbackStorage` | hub-to-client invocations: register, dispatch, retain, replay | `MCCallbackStorage`, 1 run | `CallbackStorageProofs`, `CallbackPlacesProofs` |
| `InvocationStore` | invocations and streams: actions, futures, streams and whoever polls them | `MCInvocationStore`, 1 run | `InvocationStoreProofs` |
| `CallContract` | what a call promises its caller; `InvocationStore` implements it | as a property of that run | `InvocationStoreProofs` |
| `ConnectionSetup` | configuration, negotiation, socket requests, reconnect attempts and delays | in `Session` | `ConnectionSetupProofs` |
| `FrameReader` | the handshake's frame, the reader's loop, both splitters | in `Session` | `FrameReaderProofs` |
| `Session` | the two composed | `MCSession`, 1 passing run, 2 that find violations | `SessionProofs` |

The modules overlap where the parts of the code do. The `negotiate` and
`connect` steps of the lifecycle's monitor are one step of success or failure
there and are opened up in `ConnectionSetup`; the answers its reader sees are
messages of `FrameReader`; its `pending` set is what `InvocationStore` shows in
detail for each call.

Every module has one action per critical section: what a task does between two
lock operations, channel operations or awaits. Operators named in a comment as
mutants are deliberately wrong variants of the definition that follows them;
they are used by no specification, and serve to see that each property fails
when the code is wrong in that way.

### ConnectionLifecycle

State and code: `policy` is the `ReconnectPolicy` the client was built with,
any of `Reconnects` and `Limits`, which no step changes; `state`, `shutdown`,
`nextGen` are the fields of `SharedCommunicationClient`; `events` its channel;
`reader`, `writer`, `cmds` are the tasks and the command channel of each
`CommunicationConnection`, which is its generation number; `wire` holds the
calls whose answer may still arrive; `pending` the keys of the invocation and
stream actions; `hpc`, `key`, `op`, `conn` are the program counter and the
locals of the owner of each clone; `monPc`, `monGen`, `attempt` those of the
monitor. `Alive`, `MonitorHolds` and `Held` say which reference counts are
positive; the drop of the last reference is what enables `AbortReader`,
`AbortWriter`, `ChannelCloses` and `DisposeStorage`.

Abstractions. What an answer contains is left out, except that a completion may
be undeserializable, which leaves its action (`ReadCompletion`). Reading a
frame that carries no completion and writing pings and pongs change none of
this state; a ping that fails is `WriterFails`. A message that cannot be
serialized fails before it reaches the writer and reports no loss
(`SerializeFails`). A message of `send` is numbered
like a call, has no entry in the storage, and is not followed once written.
`negotiate`, `connect_socket` and the delay succeed or fail at any time.
A cancelled task (`abort()`) goes on until its next await, so that an old
generation's tasks overlap with their successors. The mutexes of this file are
never poisoned (no code under them panics).

The owner of a clone may drop a future at the one await in it that can last:
that of an invocation while it waits for the answer (`AbandonInvoke`), that of
`disconnect_gracefully` while it waits for the writer (`AbandonGraceful`). The
second takes the handle with it, has set the flag, and leaves state and monitor
as they were: the other clones go on with a connection whose loss nobody will
handle, or in a `Reconnecting` that nobody will end.

Callbacks of the monitor may be set at any time. The on_reconnecting callback
does nothing to the client. The on_reconnected callback either does nothing to
it either, or captures a clone, `ReplayHandle`, through which it makes calls
while the monitor awaits it; `handler` says whether the current one is of that
kind. `InstallHandler` creates the clone, `ReplaceHandler` drops it with the
old callback, or leaves that to the monitor if it runs the old one just then.
The clone keeps alive the shared client which keeps the callback: a client
whose other handles are gone never disconnects, and ends neither its monitor
nor, as long as it has a connection, its tasks.

Contract. `ConnectionContract` knows a link with a number, the links that have
broken, whether calls are to be settled, and which link carries which open
call. A link is given up only when broken or in a shutdown; then the open calls
are settled, and only then is the next number given and a link published under
it, at which time no open call waits for an answer of an earlier link. The
mapping reads the link from `state`, the broken links from the ended tasks,
`settling` from the monitor being before `cancel_pending`, and the carrier of a
pending call from `sent`. `KeepsContract` is that `ConnectionLifecycle`
implements this.

Runs:

- `lifecycle_safety` (a first handle, the clone of a callback, three
  generations, two calls, unlimited attempts; about a million states) checks
  `NoOrphan`, `OneCurrentConnection`, `LossReported`, `HealthyConnectionKept`,
  the inductive invariant `IInv` and the contract. Three generations are needed
  for a report about an old one to arrive while a newer one is current and a
  third is being opened; two calls for one to fail and one to be pending.
- `lifecycle_shutdown` (two clones, one of them disconnecting gracefully or
  deserting that, without reconnect and with unlimited attempts, two
  generations, one call) checks the same invariant and contract, that a set
  flag is always on its way to the monitor (`ShutdownAnnounced`) and ends it
  (`ShutdownStopsMonitor`), that lost calls resolve as long as nobody
  disconnects, and that without reconnect nothing survives the last clone,
  however it went (`NothingLeaks`). A second generation is one to be published,
  or not, after the flag is set.
- `lifecycle_liveness` (one handle, without reconnect and with one attempt per
  loss, three generations, one call) checks that lost calls resolve, that
  `Reconnecting` ends, and that nothing survives the handle. With one attempt
  the limit is reached after a first failure; the third generation is one
  reconnected to after an earlier reconnect. One call is enough: a second would
  only be another of those that `NoOrphan` covers in `lifecycle_safety`.

Deadlock is checked except where a callback may hold a clone
(`lifecycle_safety`, `lifecycle_v_replay`): there the client can really stop,
idle with all other handles gone, or in a callback that waits for a call of a
lost connection.
`MaxGeneration` and `MaxCalls` bound the counters; a connection of the last
generation is lost only during a shutdown (`MayBeLost`), and the last number is
not spent on a failing attempt, so that liveness is not violated by the bounds.

Fairness: every task that can run does (the Tokio scheduler), including the
owner of a handle inside a call of the library. Nothing is assumed of the user
(who need not call or drop anything), of the server (no answer is promised), or
of the network. Attempts to negotiate and connect end, one way or the other:
the code has no timeout there, and a server that accepts and never answers
would hold the monitor forever. A task that is aborted does stop.

Where documents and code disagree, each with a run that shows it:

- `lifecycle_v_graceful`: "Gracefully disconnects the underlying connection for
  all clones". One of two clones disconnects while the monitor negotiates or
  connects: after the state was cleared the monitor publishes the new
  connection, without testing the flag, and it lasts until the other clone is
  dropped.
- `lifecycle_v_pending`: "Pending invocations are completed with an error if
  the connection is lost". A clone's call that inserts its action after
  `disconnect_gracefully` cancelled the pending ones, and is sent before the
  state is cleared, waits forever.
- `lifecycle_v_replay`: the same promise. A call awaited by the on_reconnected
  callback is not cancelled when the new connection is lost, since the monitor
  that would cancel it awaits the callback. (The run's instance can deadlock
  for this reason and does not check for it.)
- `lifecycle_v_lastclone`: "The underlying connection closes when this is the
  last live clone". While the monitor reconnects it holds a reference, so the
  last drop does nothing, and a connection is opened without a client.

For these reasons `LostCallsResolve` promises something only to clients nobody
of whom disconnects gracefully, and is checked in instances without a waiting
callback; `PendingCallsCompleted` is the bare promise, which
`lifecycle_v_pending` refutes. `NothingLeaks` excepts clients with unlimited
attempts, whose monitor may go on for ever as in `lifecycle_v_lastclone`.
`ShutdownStopsMonitor` and `ReconnectingEnds` except deserted graceful
disconnects, which leave the monitor uninformed or the state as it was, and
`NoOrphan` shutdown.

### CallbackStorage

`registered` are the keys of callbacks in the data map, `deferred` the retained
messages; a reader is between `contains()` and what follows from it, a user
between the parts of `add_callback`. `delivered`, `evicted`, `lost` and
`removed` are histories. Messages of a target are numbered by arrival.
Callbacks run inside the critical section that dispatches to them and are taken
to return without touching the storage (else they would deadlock on the mutex).

`callback_dispatch` has two registering threads and one reader for one target,
a capacity of two and four messages: enough for two evictions, for a duplicate
registration, for an unregister between look-up and update, and for a message
between look-up and retention during a replay. Two readers, as an aborted one
overlapping its successor, are covered by the proofs. Nobody is obliged to send
or register, so the instance may stop: deadlock is not checked. A reader and a
registering thread finish what they began (weak fairness).

### InvocationStore and CallContract

`data` are the keys in the map; `completer`, `future`, `value` the halves of
each `ManualFuture`; `queue`, `waker`, `locked` each `ManualStream`; `caller`
and `task` whoever awaits, and with which waker; `removing` the reader between
the two critical sections of a completion. `poll_next` is two actions with the
queue locked in between; the other sections nest and are one action each.

`invocation_calls` runs one invocation and one stream of two items with two
polling tasks: both kinds of actions meet every path that resolves them (an
answer, a bad payload, a failed send, a loss, an abandoned call, the end of
the storage). The refinement mapping to `CallContract` reads a call as a
channel: `put` is what was consumed and what is queued before the end, `closed`
is a queued end or a completed future. The contract says that nothing is put
after the close, everything is taken in order, and the end is told last. Owners
poll when woken and read streams to their end (fairness); a stream polled again
after its end is not considered. Deadlock is checked.

### ConnectionSetup, FrameReader and Session

`ConnectionSetup` follows a client from the closure given to `connect_with`
(`Configure`, one setter per step) through negotiation, socket and handshake to
a connection, and after each loss through the reconnect loop. `config` is the
`ConnectionConfiguration`, kept as `source_configuration`; `data` the
`ConnectionData` of the attempt; `attempt` and `delay` the locals of the loop.
`expected`, `request` and `tried` are histories: what the answer of this
attempt's negotiation obliges it to use, the last request sent, and the
attempts since the loss. A URL is the record of its parts (scheme, port, hub,
query); the host is always the same. Ids and tokens are the number of the
negotiation that issued them, modulo two, which is enough to tell the current
one from the one before. An answer offers no transport, long polling only, or
any two entries. `DelayForAttempt` is computed in words of `WordBits` bits, as
`checked_shl`, the cast to 32 bits and `saturating_mul` do it.

`FrameReader` has the bytes of one socket after the other. A message is two
bytes and the record separator; several may share a websocket message, the
answer to the handshake among them, and the server may cut that in two
fragments anywhere. The payload of a MessagePack message may contain the
separator's byte, at the places in `SeparatorAt`; JSON escapes it. A text
fragment cut within a character fails `from_utf8` and is dropped. A piece of a
message is taken not to parse; whether the MessagePack library would accept a
longer array than the type it is asked for has is not considered. Both
splitters are recursive functions over the bytes, as the iterator chain and the
loop of the code go; `AreTheRuns` is what they are to return, the maximal runs
of bytes without a separator, stated without recursion. Pings and pongs are not
shown.

`Session` composes them: the protocol of the reader is that of the attempt's
connection data, a failed handshake and a loss drop the socket, and nothing of
one socket is there when the next is opened (`ReaderTypeOK`).

`session_setup` runs every configuration that three setter calls can make (so
any three setters in any order, a repeated one included), and on each socket
two messages in every division. `WordBits` is two: the multiplier has its last
power of two at the second attempt, its largest value from the third on, and
the attempt number wraps at the fifth (`MaxAttempt`), as they do at 32, 33 and
2^32 + 1 in the code. The durations make the delay meet its maximum, stay below
it, and saturate. The limits are none, zero and two. There is no liveness here:
that attempts go on and end is the lifecycle's business.

Documents and code disagree twice:

- `session_v_setup`: "Messages sent during connection setup, before this
  registration, are replayed automatically". `connect_socket` reads one frame
  after its handshake request and drops it whole, the messages behind the
  answer included. `LossAccounted` excepts exactly these.
- `session_v_backoff`: "Each later retry doubles the previous delay until it
  reaches `max_delay`". The multiplier has a fixed width and stays at its
  largest value, from the 33rd attempt on in the code, so that a maximum too far
  above the initial delay is never reached; at attempt 2^32 + 1 the delays start
  again. In the run the width is two bits and the delays are 1, 2, 3 with a
  maximum of 4. `BackoffDoubles` states what does hold: the doubling as far as
  the multiplier reaches, and no shrinking before the attempt wraps. No run has
  an initial delay of zero; the theorems on delays cover it.

One more observation that no property contradicts: a Close message of the hub
protocol is logged and ignored, and what it says about reconnecting is not
looked at.

## The proofs

Everything in the proof modules holds for all values of the constants that
satisfy the assumptions stated in the modules: any number of clones, calls,
generations, targets, readers, users, tasks and items, any widths and limits.

*Lifecycle.* `NoOrphan` is not inductive: a handle between its look-up and its
send will put a call on the connection it holds, so the same must be known of
the connections held (`HeldCallsCovered`); clearing the state is harmless only
because the flag was set before (`ClearingAnnounced`); a sent call must not be
confused with a later one of the same number (`CallsFresh`).
`HealthyConnectionKept` needs that every loss event in the channel is true of a
generation one of whose tasks ended (`LossReportsTrue`), and for that that
whoever sends on a connection holds one whose tasks were started, and that
numbers are not reused (`GenerationsStarted`, `OneCurrentConnection`). Their
conjunction is `IInv`, which TLC checks as well. The proof goes conjunct by
conjunct over the actions; theorem `Invariant` combines them, the others
follow, `HealthyConnectionIsKept` from the invariant by one look at each
action that changes the state.

The converse of `LossReportsTrue` is `LossReported`: no loss of the connection
in use goes unnoticed, also when it ends between its opening and its
publication. For that, whatever ends a task or the monitor without a report
must have been announced by the flag (`EndsAnnounced`: a close command, a
Shutdown event, a stopped monitor), the connection must be held, so that it is
not aborted, and the report must stay in the channel (`ReportKept`). It is what
`LostCallsResolve` rests on, beside fairness. `ShutdownAnnounced` is in the same
way the safety part of `ShutdownStopsMonitor`: who sets the flag goes on to send
the event, unless it deserts. Its proof needs that the clone of a callback never
disconnects (`CallbackOnlyCalls`), since replacing the callback ends that clone.

*The contract of the connection.* `ConnectionContractIsKept` maps every step of
the lifecycle to a step of `ConnectionContract` or to none. It uses `IInv` -
`LossReportsTrue` for `Lose`, `NoOrphan` for `Replace`, `HeldCallsCovered` for
a call that goes out, `ClearingAnnounced` for `Abandon` - and one more
invariant, `UnsentCalls`: a handle with a call still to send is the only one
with that id, and nothing was sent under it.

*Callbacks.* `NothingStranded` is inductive with the types and the bound of the
queues; `LossExplained` needs `SeenCallback`: a reader or user past its look-up
deals with a target that is registered or was removed. That every message is at
one place (`ExactlyOnePlace`) needs the six places of a target's messages to be
disjoint (`PlacesApart`), readers and replays to have different ones
(`ReadersApart`, `ReplaysApart`), and no replay to repeat one (`ReplaysTidy`).
The order of the retained messages is proved for a single reader, whose message
is then the latest to arrive (`OrderInv`); with two it does not hold, and
`RetainedInOrder` does not say so.

*Calls.* `StoreInv` is a statement about each call by itself, one for
invocations (`InvocationOK`) and one for streams (`StreamOK`): the completer is
there exactly as long as the action and an open future are, an owner asleep on
a future or a queue has its own task's waker stored and nothing to be told, a
queue is items and then ends, and a closed stream still in the storage is being
removed. The five properties of the run follow from it, and so does the
refinement of `CallContract` (`ContractIsKept`), which a second pass over the
actions shows for the view of one call.

*Setup.* The types need that the maximum delay is never below the initial one
(`PolicyOrdered`), after any setters in any order. `AsConfigured` and
`AddressesThisNegotiation` need that the connection data agree with the
configuration and with the answer just received (`DataMatches`); the limit and
the delays that the attempt number counts the attempts since the loss
(`AttemptsCounted`) and that the last delay is the one for it
(`DelayOfAttempt`). The doubling is then arithmetic of the multiplier
(`MultiplierDoubles`, `DelayDoubles`). `PowerAssumption` states what is used
of powers of two, since the prover has no arithmetic of exponents; TLC
evaluates it in the session runs. `SessionImplementsSetup` carries these
theorems to the composition.

*Frames.* What the splitters compute is proved for frames of any length, by
induction over the bytes. The library's induction theorems cannot be used (the
provers do not instantiate an operator), so induction is brought down to sets:
`StrictSubsetOrdering` of a finite set is well-founded, hence a nonempty set of
numbers has a least one (`LeastNumber`), hence a set closed under successors
holds all numbers up to a bound (`SetInduction`), hence a recursive function on
`0 .. m` is what its equation says (`Recursion`). From that `CutsDef`,
`CollectedDef`, `RoundsDef` and `DispatchedDef` give the equations of the four
recursive functions, and each splitter is followed round by round with
`RunsBefore`: the pieces so far are the runs that start before here
(`NextRun`). `TextExact` and `BinaryExact` are the results; `DispatchedFound`
says that of the runs exactly the whole messages are dispatched, in their order.

The properties of the reader follow from one invariant of the session,
`ReaderIInv` (`ReaderInvariant`). `InOrderOnce` and `LossAccounted` speak of what
has been stored, and are not inductive: the next frame could hold anything.
`FramesFit` says of the frames under way that their bytes are in the order sent,
that a later frame has none before an earlier one's, that nothing in them is
stored already, and that a message they hold in one piece is one of the whole
ones; `AllKept` that each whole message is in one readable frame under way, or
stored, except those of the frame which the handshake takes; `Begun` which frame
that is. `ServerSendsIInv` is the step that needs most: how a websocket message
is put together and cut (`WhatIsSent`, `FragmentsSent`), and that a message
whose last byte is in the first fragment stands alone between separators there
(`SentIsolated`), which is what makes it a run. TLC checked the invariant on
three messages, with the byte of the separator at either place of a payload,
before it was proved.

Only model-checked: the liveness properties (`LostCallsResolve`,
`ReconnectingEnds`, `NothingLeaks`, `ShutdownStopsMonitor`, `RetainedReplayed`,
`ClosedCallsReturn`), which are out of the prover's reach. Every safety and
action property of a passing run is proved.

## Not modelled

- the encoding of messages, TLS and HTTP, the argument builder and the
  context's accessors: conversions and builders without shared state;
- `CompletedFuture` and `ManualFutureState`, which the client does not use;
- callbacks that touch the storage or panic with its mutex locked, and the
  poisoned mutex that would follow; to the lifecycle, a clone kept by a
  registered callback is a handle that the unregister drops;
- a callback's target that equals an invocation id (they share one map);
- timeouts of negotiation, connection and handshake: the code has none.

## Plan

1. (done) the lifecycle, with its invariant proved, and the contract it keeps;
2. (done) callbacks and calls, with their invariants and the contract of calls
   proved;
3. (done) the setup of connections and the division of frames, composed;
4. the collision of callback targets and invocation ids: one map for
   `CallbackStorage` and `InvocationStore`, where a refused insert resolves its
   call and the clean-up of that call removes the callback;
5. the precedence of a completion's error over its result, and what the
   argument builder puts into an invocation, against reference definitions.
