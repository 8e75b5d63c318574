------------------------ MODULE ConnectionLifecycle ------------------------
(***************************************************************************)
(* The life of one SignalR connection shared by the clones of a client:    *)
(* the handles that call invoke, enumerate, disconnect_gracefully and      *)
(* drop; the reader and writer tasks of every connection generation; and   *)
(* the monitor task that reconnects (communication/client_tokio.rs with    *)
(* the calls of client/signalr_client.rs).                                 *)
(*                                                                         *)
(* One action is one critical section of the code: what happens between    *)
(* two lock operations, channel operations or awaits of a task.  A call    *)
(* is a number, the index create_key appends to the target; the            *)
(* connection of generation g is the number g.                             *)
(***************************************************************************)
EXTENDS Integers, Sequences, FiniteSets

CONSTANTS
    Handle,          \* the clones of the client that may ever exist
    NoHandle,        \* not a handle
    FirstHandle,     \* the handle connect() returns
    ReplayHandle,    \* the clone an on_reconnected callback captures, or
                     \* NoHandle when none is ever installed
    GracefulHandle,  \* the handles whose owner may call disconnect_gracefully
    Reconnects,      \* what ReconnectPolicy.enabled may be
    Limits,          \* what ReconnectPolicy.max_attempts may be
    NoLimit,         \* max_attempts is None
    MaxGeneration,   \* bound: connection generations ever opened
    MaxCalls         \* bound: invocation ids ever created

ASSUME HandleAssumption ==
    /\ NoHandle \notin Handle
    /\ FirstHandle \in Handle
    /\ ReplayHandle \in (Handle \cup {NoHandle}) \ {FirstHandle}
    /\ GracefulHandle \subseteq Handle \ {ReplayHandle}

ASSUME BoundAssumption ==
    /\ Reconnects \subseteq BOOLEAN
    /\ NoLimit \notin Nat
    /\ Limits \subseteq Nat \cup {NoLimit}
    /\ MaxGeneration \in Nat \ {0}
    /\ MaxCalls \in Nat

Gen  == 1 .. MaxGeneration
Call == 1 .. MaxCalls

(***************************************************************************)
(* ConnectionState, ConnectionEvent and WriterCommand.  A writer command   *)
(* is the number of the call whose message it sends, or Close.             *)
(***************************************************************************)
NotConnected == [kind |-> "NotConnected", gen |-> 0]
Reconnecting == [kind |-> "Reconnecting", gen |-> 0]
Connected(g) == [kind |-> "Connected",    gen |-> g]
ConnectionState == {NotConnected, Reconnecting} \cup {Connected(g) : g \in Gen}

Shutdown          == [kind |-> "Shutdown",       gen |-> 0]
ConnectionLost(g) == [kind |-> "ConnectionLost", gen |-> g]
ConnectionEvent == {Shutdown} \cup {ConnectionLost(g) : g \in Gen}

Close == 0

ReconnectPolicy == [enabled : Reconnects, maxAttempts : Limits]

VARIABLES
    policy,    \* the ReconnectPolicy in _configuration; nothing changes it
    state,     \* _state of SharedCommunicationClient
    shutdown,  \* _shutdown
    nextGen,   \* _next_generation
    handler,   \* whether _reconnected_handler is the callback with the clone
    events,    \* the channel from tasks and handles to the monitor
    reader,    \* reader[g]: task state of the reader of generation g
    writer,    \* writer[g]: task state of the writer of generation g
    cmds,      \* cmds[g]: the writer's command channel
    wire,      \* wire[g]: calls written whose answer the reader may still see
    pending,   \* ids of the invocation and stream actions in the storage
    index,     \* the storage's key counter
    sent,      \* history: generation a call's message was queued on, or 0
    hpc,       \* hpc[h]: where the owner of handle h is
    key,       \* key[h]: the invocation id of h's call, 0 outside a call
    op,        \* op[h]: "invoke", "enumerate" or "send", "none" outside a call
    conn,      \* conn[h]: the connection Arc h holds while using it, or 0
    monPc,     \* where the monitor task is
    monGen,    \* the generation the monitor is working on, 0 while it waits
    attempt    \* reconnect attempt of the current loss, 0 outside the loop

sharedVars == <<policy, state, shutdown, nextGen, handler>>
taskVars   == <<reader, writer, cmds, wire>>
storeVars  == <<pending, index, sent>>
handleVars == <<hpc, key, op, conn>>
monVars    == <<monPc, monGen, attempt>>
vars == <<sharedVars, events, taskVars, storeVars, handleVars, monVars>>

TaskState == {"unused", "running", "stopped"}

Operation == {"invoke", "enumerate", "send"}

HandlePc == {"absent", "idle", "stored", "holding", "failing", "awaiting",
             "gracefulFlag", "gracefulLook", "gracefulClose", "gracefulWait",
             "gracefulClear", "gracefulNotify", "leaving", "deserting",
             "dropFlag", "dropClear", "dropNotify", "released", "gone"}

MonitorPc == {"recv", "mark", "cancel", "reconnecting", "attempt", "sleep",
              "negotiate", "connect", "publish", "reconnected", "replay",
              "stopped"}

TypeOK ==
    /\ policy \in ReconnectPolicy
    /\ state \in ConnectionState
    /\ shutdown \in BOOLEAN
    /\ nextGen \in 1 .. MaxGeneration + 1
    /\ handler \in BOOLEAN
    /\ events \in Seq(ConnectionEvent)
    /\ reader \in [Gen -> TaskState]
    /\ writer \in [Gen -> TaskState]
    /\ cmds \in [Gen -> Seq(Call \cup {Close})]
    /\ wire \in [Gen -> SUBSET Call]
    /\ index \in 0 .. MaxCalls
    /\ pending \in SUBSET Call
    /\ sent \in [Call -> Gen \cup {0}]
    /\ hpc \in [Handle -> HandlePc]
    /\ key \in [Handle -> Call \cup {0}]
    /\ op \in [Handle -> Operation \cup {"none"}]
    /\ conn \in [Handle -> Gen \cup {0}]
    /\ monPc \in MonitorPc
    /\ monGen \in Gen \cup {0}
    /\ attempt \in Nat

-----------------------------------------------------------------------------
(* Who keeps what alive.                                                    *)

\* Mutant: the monitor task is given the Arc instead of a Weak reference.
MonitorKeepsClient == monPc # "stopped"

\* A strong reference to the shared client is held by every live handle, and
\* by the monitor from upgrade() to the end of the loop body.
Alive(h) == hpc[h] \notin {"absent", "gone"}
MonitorHolds == monPc \notin {"recv", "stopped"}
SharedAlive == MonitorHolds \/ \E h \in Handle : Alive(h)

\* The Arc of connection g: in the shared state, captured by a handle, or the
\* monitor's local between connect_socket and the state update.
Held(g) ==
    \/ SharedAlive /\ state = Connected(g)
    \/ \E h \in Handle : conn[h] = g
    \/ monPc = "publish" /\ monGen = g

\* Mutant: the channel holds one event, and try_send drops what does not fit.
PostIfRoom(e) ==
    events' = IF monPc = "stopped" \/ events # <<>> THEN events ELSE Append(events, e)

\* A send on the event channel; it is lost once the monitor dropped its end.
Post(e) == events' = IF monPc = "stopped" THEN events ELSE Append(events, e)

Goto(h, pc) == hpc' = [hpc EXCEPT ![h] = pc]

\* A call of h returns: its locals go out of scope.
ReturnToOwner(h) ==
    /\ Goto(h, "idle")
    /\ key' = [key EXCEPT ![h] = 0]
    /\ op' = [op EXCEPT ![h] = "none"]

\* The monitor's loop body ends: its locals, the strong reference to the
\* shared client among them, are dropped.
NextEvent ==
    /\ monPc' = "recv"
    /\ monGen' = 0
    /\ attempt' = 0

\* Bound: the last generation is only lost while shutting down.
MayBeLost(g) == g < MaxGeneration \/ shutdown

-----------------------------------------------------------------------------
(* The state connect() returns in, whatever the policy: generation 1 is     *)
(* connected, its tasks and the monitor run, and one handle exists.         *)
Init ==
    /\ policy \in ReconnectPolicy
    /\ state = Connected(1)
    /\ shutdown = FALSE
    /\ nextGen = 2
    /\ handler = FALSE
    /\ events = <<>>
    /\ reader = [g \in Gen |-> IF g = 1 THEN "running" ELSE "unused"]
    /\ writer = [g \in Gen |-> IF g = 1 THEN "running" ELSE "unused"]
    /\ cmds = [g \in Gen |-> <<>>]
    /\ wire = [g \in Gen |-> {}]
    /\ pending = {}
    /\ index = 0
    /\ sent = [k \in Call |-> 0]
    /\ hpc = [h \in Handle |-> IF h = FirstHandle THEN "idle" ELSE "absent"]
    /\ key = [h \in Handle |-> 0]
    /\ op = [h \in Handle |-> "none"]
    /\ conn = [h \in Handle |-> 0]
    /\ monPc = "recv"
    /\ monGen = 0
    /\ attempt = 0

-----------------------------------------------------------------------------
(* Handles: the owner of each clone runs one call at a time.  The owner of  *)
(* the replay handle is the callback, as long as the monitor runs it.       *)

Free(h) == hpc[h] = "idle" /\ (h = ReplayHandle => monPc = "replay")

\* SignalRClient::clone
CloneHandle(h, new) ==
    /\ Free(h)
    /\ new # ReplayHandle /\ hpc[new] = "absent"
    /\ Goto(new, "idle")
    /\ UNCHANGED <<sharedVars, events, taskVars, storeVars, key, op, conn, monVars>>

\* set_reconnected_handler with a callback that captures a clone.
InstallHandler(h) ==
    /\ Free(h)
    /\ ReplayHandle # NoHandle /\ hpc[ReplayHandle] = "absent"
    /\ Goto(ReplayHandle, "idle")
    /\ handler' = TRUE
    /\ UNCHANGED <<policy, state, shutdown, nextGen, events, taskVars, storeVars,
                   key, op,
                   conn, monVars>>

\* set_reconnected_handler with another callback: the clone goes with the old
\* one, unless the monitor runs that.  The caller has a handle, so this is not
\* the last.
ReplaceHandler(h) ==
    /\ Free(h)
    /\ handler
    /\ handler' = FALSE
    /\ IF monPc = "replay" THEN UNCHANGED hpc ELSE Goto(ReplayHandle, "gone")
    /\ UNCHANGED <<policy, state, shutdown, nextGen, events, taskVars, storeVars,
                   key, op,
                   conn, monVars>>

\* create_key and add_invocation / add_stream: the entry is in the storage
\* before the connection is looked up.  The message of send(), which has no
\* entry and no answer, is numbered like a call.
BeginCall(h, o) ==
    /\ Free(h)
    /\ index < MaxCalls
    /\ index' = index + 1
    /\ key' = [key EXCEPT ![h] = index + 1]
    /\ op' = [op EXCEPT ![h] = o]
    /\ pending' = pending \cup (IF o = "send" THEN {} ELSE {index + 1})
    /\ Goto(h, "stored")
    /\ UNCHANGED <<sharedVars, events, taskVars, sent, conn, monVars>>

\* current_connection
FindConnection(h) ==
    /\ hpc[h] = "stored"
    /\ \/ /\ state.kind = "Connected"
          /\ conn' = [conn EXCEPT ![h] = state.gen]
          /\ Goto(h, "holding")
       \/ /\ state.kind # "Connected"
          /\ Goto(h, "failing")
          /\ UNCHANGED conn
    /\ UNCHANGED <<sharedVars, events, taskVars, storeVars, key, op, monVars>>

\* connection.send on a writer that still runs: the message is queued.
QueueMessage(h) ==
    LET g == conn[h] IN
    /\ hpc[h] = "holding"
    /\ writer[g] = "running"
    /\ cmds' = [cmds EXCEPT ![g] = Append(@, key[h])]
    /\ sent' = [sent EXCEPT ![key[h]] = g]
    /\ conn' = [conn EXCEPT ![h] = 0]
    /\ \/ /\ op[h] = "invoke"
          /\ Goto(h, "awaiting")
          /\ UNCHANGED <<key, op>>
       \/ /\ op[h] # "invoke"
          /\ ReturnToOwner(h)
    /\ UNCHANGED <<sharedVars, events, reader, writer, wire, pending, index, monVars>>

\* Mutant: the generation is read after the connection was let go.
QueueFailsLate(h) ==
    /\ hpc[h] = "holding"
    /\ writer[conn[h]] # "running"
    /\ conn' = [conn EXCEPT ![h] = 0]
    /\ Post(ConnectionLost(conn'[h]))
    /\ Goto(h, "failing")
    /\ UNCHANGED <<sharedVars, taskVars, storeVars, key, op, monVars>>

\* connection.send after the writer ended: the monitor is told.
QueueFails(h) ==
    LET g == conn[h] IN
    /\ hpc[h] = "holding"
    /\ writer[g] # "running"
    /\ Post(ConnectionLost(g))
    /\ Goto(h, "failing")
    /\ conn' = [conn EXCEPT ![h] = 0]
    /\ UNCHANGED <<sharedVars, taskVars, storeVars, key, op, monVars>>

\* The message cannot be serialized: nothing is sent, and nothing is lost.
SerializeFails(h) ==
    /\ hpc[h] = "holding"
    /\ conn' = [conn EXCEPT ![h] = 0]
    /\ Goto(h, "failing")
    /\ UNCHANGED <<sharedVars, events, taskVars, storeVars, key, op, monVars>>

\* The error path of invoke_internal and enumerate_internal; send_internal
\* has nothing to remove.
RemoveFailedCall(h) ==
    /\ hpc[h] = "failing"
    /\ pending' = pending \ {key[h]}
    /\ ReturnToOwner(h)
    /\ UNCHANGED <<sharedVars, events, taskVars, index, sent, conn, monVars>>

\* The awaited future was resolved: by an answer, or by a cancellation.
ReturnFromInvoke(h) ==
    /\ hpc[h] = "awaiting"
    /\ key[h] \notin pending
    /\ ReturnToOwner(h)
    /\ UNCHANGED <<sharedVars, events, taskVars, storeVars, conn, monVars>>

\* The owner drops the future (a timeout around invoke, say):
\* PendingInvocationCleanup removes the entry.
AbandonInvoke(h) ==
    /\ hpc[h] = "awaiting"
    /\ pending' = pending \ {key[h]}
    /\ ReturnToOwner(h)
    /\ UNCHANGED <<sharedVars, events, taskVars, index, sent, conn, monVars>>

-----------------------------------------------------------------------------
(* disconnect_gracefully, one action per lock or channel operation.         *)

GracefulCancel(h) ==
    /\ hpc[h] = "idle" /\ h \in GracefulHandle
    /\ pending' = {}
    /\ Goto(h, "gracefulFlag")
    /\ UNCHANGED <<sharedVars, events, taskVars, index, sent, key, op, conn, monVars>>

\* Mutant: the flag is not set until the connection was closed.
GracefulFlagLater(h) ==
    /\ hpc[h] = "gracefulFlag"
    /\ Goto(h, "gracefulLook")
    /\ UNCHANGED <<sharedVars, events, taskVars, storeVars, key, op, conn, monVars>>

GracefulFlag(h) ==
    /\ hpc[h] = "gracefulFlag"
    /\ shutdown' = TRUE
    /\ Goto(h, "gracefulLook")
    /\ UNCHANGED <<policy, state, nextGen, handler, events, taskVars, storeVars, key,
                   op, conn, monVars>>

GracefulLook(h) ==
    /\ hpc[h] = "gracefulLook"
    /\ \/ /\ state.kind = "Connected"
          /\ conn' = [conn EXCEPT ![h] = state.gen]
          /\ Goto(h, "gracefulClose")
       \/ /\ state.kind # "Connected"
          /\ Goto(h, "gracefulClear")
          /\ UNCHANGED conn
    /\ UNCHANGED <<sharedVars, events, taskVars, storeVars, key, op, monVars>>

\* close_gracefully: queue the close command, or fail at once.
GracefulClose(h) ==
    LET g == conn[h] IN
    /\ hpc[h] = "gracefulClose"
    /\ \/ /\ writer[g] = "running"
          /\ cmds' = [cmds EXCEPT ![g] = Append(@, Close)]
          /\ Goto(h, "gracefulWait")
          /\ UNCHANGED conn
       \/ /\ writer[g] # "running"
          /\ Goto(h, "gracefulClear")
          /\ conn' = [conn EXCEPT ![h] = 0]
          /\ UNCHANGED cmds
    /\ UNCHANGED <<sharedVars, events, reader, writer, wire, storeVars, key, op,
                   monVars>>

\* The wait ends with the writer's acknowledgement, with the writer gone, or
\* with the one-second timeout, which may fire first: so at any time.
GracefulWaitEnds(h) ==
    /\ hpc[h] = "gracefulWait"
    /\ Goto(h, "gracefulClear")
    /\ conn' = [conn EXCEPT ![h] = 0]
    /\ UNCHANGED <<sharedVars, events, taskVars, storeVars, key, op, monVars>>

\* The owner drops the future during the wait, the only await in it, and its
\* handle with it: the flag is set, the state and the monitor are left alone.
AbandonGraceful(h) ==
    /\ hpc[h] = "gracefulWait"
    /\ Goto(h, "deserting")
    /\ conn' = [conn EXCEPT ![h] = 0]
    /\ UNCHANGED <<sharedVars, events, taskVars, storeVars, key, op, monVars>>

GracefulClear(h) ==
    /\ hpc[h] = "gracefulClear"
    /\ state' = NotConnected
    /\ Goto(h, "gracefulNotify")
    /\ UNCHANGED <<policy, shutdown, nextGen, handler, events, taskVars, storeVars,
                   key, op, conn, monVars>>

\* Mutant: an error of close_gracefully returns before the event is sent.
GracefulForgetsEvent(h) ==
    /\ hpc[h] = "gracefulNotify"
    /\ Goto(h, "leaving")
    /\ UNCHANGED <<sharedVars, events, taskVars, storeVars, key, op, conn, monVars>>

GracefulNotify(h) ==
    /\ hpc[h] = "gracefulNotify"
    /\ Post(Shutdown)
    /\ Goto(h, "leaving")
    /\ UNCHANGED <<sharedVars, taskVars, storeVars, key, op, conn, monVars>>

-----------------------------------------------------------------------------
(* disconnect, run when a handle is dropped.                                *)

OtherReferences(h) == MonitorHolds \/ \E other \in Handle \ {h} : Alive(other)

\* Only the holder of the last strong reference goes on.
DropHandle(h) ==
    /\ hpc[h] \in {"idle", "leaving", "deserting"} /\ h # ReplayHandle
    /\ Goto(h, IF OtherReferences(h) THEN "released" ELSE "dropFlag")
    /\ UNCHANGED <<sharedVars, events, taskVars, storeVars, key, op, conn, monVars>>

\* Mutant: the last drop clears the state first.
DropSkipsFlag(h) ==
    /\ hpc[h] = "dropFlag"
    /\ Goto(h, "dropClear")
    /\ UNCHANGED <<sharedVars, events, taskVars, storeVars, key, op, conn, monVars>>

DropFlag(h) ==
    /\ hpc[h] = "dropFlag"
    /\ shutdown' = TRUE
    /\ Goto(h, "dropClear")
    /\ UNCHANGED <<policy, state, nextGen, handler, events, taskVars, storeVars, key,
                   op, conn, monVars>>

DropClear(h) ==
    /\ hpc[h] = "dropClear"
    /\ state' = NotConnected
    /\ Goto(h, "dropNotify")
    /\ UNCHANGED <<policy, shutdown, nextGen, handler, events, taskVars, storeVars,
                   key, op, conn, monVars>>

DropNotify(h) ==
    /\ hpc[h] = "dropNotify"
    /\ Post(Shutdown)
    /\ Goto(h, "released")
    /\ UNCHANGED <<sharedVars, taskVars, storeVars, key, op, conn, monVars>>

\* After Drop::drop the fields are dropped, the Arc of the shared client too.
ReleaseHandle(h) ==
    /\ hpc[h] = "released"
    /\ Goto(h, "gone")
    /\ UNCHANGED <<sharedVars, events, taskVars, storeVars, key, op, conn, monVars>>

-----------------------------------------------------------------------------
(* The tasks of generation g.  abort() is asynchronous: a task whose        *)
(* connection is no longer held goes on until the abort reaches it.         *)

StopWriter(g) ==
    /\ writer' = [writer EXCEPT ![g] = "stopped"]
    /\ cmds' = [cmds EXCEPT ![g] = <<>>]

StopReader(g) ==
    /\ reader' = [reader EXCEPT ![g] = "stopped"]
    /\ wire' = [wire EXCEPT ![g] = {}]

\* A message is written to the socket.  It matters to the reader if an action
\* waits for the answer.
WriteMessage(g) ==
    /\ writer[g] = "running"
    /\ cmds[g] # <<>> /\ Head(cmds[g]) # Close
    /\ cmds' = [cmds EXCEPT ![g] = Tail(@)]
    /\ wire' = IF reader[g] = "running" /\ Head(cmds[g]) \in pending
               THEN [wire EXCEPT ![g] = @ \cup {Head(cmds[g])}]
               ELSE wire
    /\ UNCHANGED <<sharedVars, events, reader, writer, storeVars, handleVars, monVars>>

\* The close frame is written; the writer ends without an event.
WriteClose(g) ==
    /\ writer[g] = "running"
    /\ cmds[g] # <<>> /\ Head(cmds[g]) = Close
    /\ StopWriter(g)
    /\ UNCHANGED <<sharedVars, events, reader, wire, storeVars, handleVars, monVars>>

\* A write (of a message, a pong or the keep-alive ping) fails.
WriterFails(g) ==
    /\ writer[g] = "running" /\ MayBeLost(g)
    /\ StopWriter(g)
    /\ Post(ConnectionLost(g))
    /\ UNCHANGED <<sharedVars, reader, wire, storeVars, handleVars, monVars>>

\* A completion arrives: the action is updated and removed.  A completion
\* whose payload cannot be deserialized leaves the action where it is.
ReadCompletion(g, k) ==
    /\ reader[g] = "running"
    /\ k \in wire[g]
    /\ wire' = [wire EXCEPT ![g] = @ \ {k}]
    /\ pending' \in {pending \ {k}, pending}
    /\ UNCHANGED <<sharedVars, events, reader, writer, cmds, index, sent,
                   handleVars, monVars>>

\* A close frame or a read error.
ReaderEnds(g) ==
    /\ reader[g] = "running" /\ MayBeLost(g)
    /\ StopReader(g)
    /\ Post(ConnectionLost(g))
    /\ UNCHANGED <<sharedVars, writer, cmds, storeVars, handleVars, monVars>>

\* stop(), from the Drop of the last Arc of the connection.
AbortReader(g) ==
    /\ reader[g] = "running" /\ ~Held(g)
    /\ StopReader(g)
    /\ UNCHANGED <<sharedVars, events, writer, cmds, storeVars, handleVars, monVars>>

AbortWriter(g) ==
    /\ writer[g] = "running" /\ ~Held(g)
    /\ StopWriter(g)
    /\ UNCHANGED <<sharedVars, events, reader, wire, storeVars, handleVars, monVars>>

-----------------------------------------------------------------------------
(* The monitor: run_reconnect_monitor and reconnect_until_connected.        *)

StopMonitor ==
    /\ monPc' = "stopped"
    /\ events' = <<>>
    /\ UNCHANGED <<monGen, attempt>>  \* 0 at the head of the loop

\* recv, upgrade and the shutdown test.
ReceiveEvent ==
    /\ monPc = "recv"
    /\ events # <<>>
    /\ IF ~SharedAlive \/ Head(events) = Shutdown \/ shutdown
       THEN StopMonitor
       ELSE /\ monPc' = "mark"
            /\ monGen' = Head(events).gen
            /\ events' = Tail(events)
            /\ UNCHANGED attempt
    /\ UNCHANGED <<sharedVars, taskVars, storeVars, handleVars>>

\* Every sender is gone: those of the shared client and of the tasks.
ChannelCloses ==
    /\ monPc = "recv"
    /\ events = <<>>
    /\ ~SharedAlive
    /\ \A g \in Gen : reader[g] # "running" /\ writer[g] # "running"
    /\ StopMonitor
    /\ UNCHANGED <<sharedVars, taskVars, storeVars, handleVars>>

\* Mutants: the lost generation is not compared with the current one; the
\* function returns policy.enabled instead of TRUE; calls are cancelled only
\* when there will be no reconnect.
MarkAnyLoss ==
    /\ monPc = "mark"
    /\ \/ /\ state.kind = "Connected"
          /\ state' = IF policy.enabled THEN Reconnecting ELSE NotConnected
          /\ monPc' = "cancel"
          /\ UNCHANGED <<monGen, attempt>>
       \/ /\ state.kind # "Connected"
          /\ NextEvent
          /\ UNCHANGED state
    /\ UNCHANGED <<policy, shutdown, nextGen, handler, events, taskVars, storeVars,
                   handleVars>>

MarkReturnsEnabled ==
    /\ monPc = "mark"
    /\ state' = IF state = Connected(monGen)
                THEN IF policy.enabled THEN Reconnecting ELSE NotConnected
                ELSE state
    /\ IF state = Connected(monGen) /\ policy.enabled
       THEN monPc' = "cancel" /\ UNCHANGED <<monGen, attempt>>
       ELSE NextEvent
    /\ UNCHANGED <<policy, shutdown, nextGen, handler, events, taskVars, storeVars,
                   handleVars>>

MarkSkipsCancel ==
    /\ monPc = "mark"
    /\ IF state = Connected(monGen)
       THEN /\ state' = IF policy.enabled THEN Reconnecting ELSE NotConnected
            /\ monPc' = IF policy.enabled THEN "reconnecting" ELSE "cancel"
            /\ UNCHANGED <<monGen, attempt>>
       ELSE NextEvent /\ UNCHANGED state
    /\ UNCHANGED <<policy, shutdown, nextGen, handler, events, taskVars, storeVars,
                   handleVars>>

\* mark_connection_lost: only the loss of the current generation counts.
MarkConnectionLost ==
    /\ monPc = "mark"
    /\ \/ /\ state = Connected(monGen)
          /\ state' = IF policy.enabled THEN Reconnecting ELSE NotConnected
          /\ monPc' = "cancel"
          /\ UNCHANGED <<monGen, attempt>>
       \/ /\ state # Connected(monGen)
          /\ NextEvent
          /\ UNCHANGED state
    /\ UNCHANGED <<policy, shutdown, nextGen, handler, events, taskVars, storeVars,
                   handleVars>>

\* Mutant: a loss followed by a reconnect cancels nothing.
CancelNothing ==
    /\ monPc = "cancel"
    /\ IF policy.enabled
       THEN monPc' = "reconnecting" /\ UNCHANGED <<monGen, attempt>>
       ELSE NextEvent
    /\ UNCHANGED <<sharedVars, events, taskVars, storeVars, handleVars>>

\* cancel_pending, then the test of policy.enabled.
CancelLostCalls ==
    /\ monPc = "cancel"
    /\ pending' = {}
    /\ \/ /\ policy.enabled
          /\ monPc' = "reconnecting"
          /\ UNCHANGED <<monGen, attempt>>
       \/ /\ ~policy.enabled
          /\ NextEvent
    /\ UNCHANGED <<sharedVars, events, taskVars, index, sent, handleVars>>

\* The on_reconnecting callback, if any, has run.
RunReconnecting ==
    /\ monPc = "reconnecting"
    /\ monPc' = "attempt"
    /\ monGen' = 0
    /\ attempt' = 1
    /\ UNCHANGED <<sharedVars, events, taskVars, storeVars, handleVars>>

Exhausted == policy.maxAttempts # NoLimit /\ attempt > policy.maxAttempts

\* The head of the loop: the shutdown test and the limit.
CheckAttempts ==
    /\ monPc = "attempt"
    /\ \/ /\ shutdown
          /\ NextEvent
          /\ UNCHANGED state
       \/ /\ ~shutdown /\ Exhausted
          /\ state' = NotConnected
          /\ NextEvent
       \/ /\ ~shutdown /\ ~Exhausted
          /\ monPc' = "sleep"
          /\ UNCHANGED <<state, monGen, attempt>>
    /\ UNCHANGED <<policy, shutdown, nextGen, handler, events, taskVars, storeVars,
                   handleVars>>

\* The delay has passed; shutdown is tested once more, and never again
\* before the new connection is published.
WakeFromDelay ==
    /\ monPc = "sleep"
    /\ \/ /\ shutdown
          /\ NextEvent
       \/ /\ ~shutdown
          /\ monPc' = "negotiate"
          /\ UNCHANGED <<monGen, attempt>>
    /\ UNCHANGED <<sharedVars, events, taskVars, storeVars, handleVars>>

\* Mutant: "attempt += 1" is missing.
SameAttempt ==
    /\ attempt' = attempt
    /\ monGen' = 0
    /\ monPc' = "attempt"

\* The attempt number matters only while there is a limit.
NextAttempt ==
    /\ attempt' = IF policy.maxAttempts = NoLimit THEN attempt ELSE attempt + 1
    /\ monGen' = 0
    /\ monPc' = "attempt"

\* Mutant: the generation is loaded, not incremented.
NegotiateReusesNumber ==
    /\ monPc = "negotiate"
    /\ nextGen <= MaxGeneration
    /\ monGen' = nextGen
    /\ monPc' = "connect"
    /\ UNCHANGED <<sharedVars, events, taskVars, storeVars, handleVars, attempt>>

NegotiateSucceeds ==
    /\ monPc = "negotiate"
    /\ nextGen <= MaxGeneration
    /\ monGen' = nextGen
    /\ nextGen' = nextGen + 1
    /\ monPc' = "connect"
    /\ UNCHANGED <<policy, state, shutdown, handler, events, taskVars, storeVars,
                   handleVars, attempt>>

NegotiateFails ==
    /\ monPc = "negotiate"
    /\ NextAttempt
    /\ UNCHANGED <<sharedVars, events, taskVars, storeVars, handleVars>>

\* connect_socket returns a connection whose tasks already run.
ConnectSucceeds ==
    /\ monPc = "connect"
    /\ reader' = [reader EXCEPT ![monGen] = "running"]
    /\ writer' = [writer EXCEPT ![monGen] = "running"]
    /\ monPc' = "publish"
    /\ UNCHANGED <<sharedVars, events, cmds, wire, storeVars, handleVars, monGen,
                   attempt>>

\* Bound: the last generation is not wasted on a failed attempt.
ConnectFails ==
    /\ monPc = "connect"
    /\ nextGen <= MaxGeneration
    /\ NextAttempt
    /\ UNCHANGED <<sharedVars, events, taskVars, storeVars, handleVars>>

PublishConnection ==
    /\ monPc = "publish"
    /\ state' = Connected(monGen)
    /\ monPc' = "reconnected"
    /\ UNCHANGED <<policy, shutdown, nextGen, handler, events, taskVars, storeVars,
                   handleVars,
                   monGen, attempt>>

\* No on_reconnected callback, or one without a clone.
SkipReconnected ==
    /\ monPc = "reconnected"
    /\ ~handler
    /\ NextEvent
    /\ UNCHANGED <<sharedVars, events, taskVars, storeVars, handleVars>>

\* The callback runs: user code, which may replay calls through its clone; the
\* monitor awaits it.
BeginReplay ==
    /\ monPc = "reconnected"
    /\ handler
    /\ monPc' = "replay"
    /\ UNCHANGED <<sharedVars, events, taskVars, storeVars, handleVars, monGen,
                   attempt>>

\* It returns; if it was replaced meanwhile, it and its clone are dropped, with
\* the reference of the monitor still there.
EndReplay ==
    /\ monPc = "replay"
    /\ hpc[ReplayHandle] = "idle"
    /\ NextEvent
    /\ IF handler THEN UNCHANGED hpc ELSE Goto(ReplayHandle, "gone")
    /\ UNCHANGED <<sharedVars, events, taskVars, storeVars, key, op, conn>>

-----------------------------------------------------------------------------
(* The storage is shared by the handles, the monitor and the reader tasks.  *)
(* When the last of them drops its clone, dispose clears it, and every      *)
(* action still in it is cancelled by its Drop.                             *)
DisposeStorage ==
    /\ pending # {}
    /\ \A h \in Handle : ~Alive(h)
    /\ monPc = "stopped"
    /\ \A g \in Gen : reader[g] # "running"
    /\ pending' = {}
    /\ UNCHANGED <<sharedVars, events, taskVars, index, sent, handleVars, monVars>>

-----------------------------------------------------------------------------
\* The steps a handle takes on its own once its owner started something.
HandleProgress(h) ==
    \/ FindConnection(h) \/ QueueMessage(h) \/ QueueFails(h) \/ SerializeFails(h)
    \/ RemoveFailedCall(h) \/ ReturnFromInvoke(h)
    \/ GracefulFlag(h) \/ GracefulLook(h) \/ GracefulClose(h)
    \/ GracefulWaitEnds(h) \/ GracefulClear(h) \/ GracefulNotify(h)
    \/ hpc[h] \in {"leaving", "deserting"} /\ DropHandle(h)
    \/ DropFlag(h) \/ DropClear(h) \/ DropNotify(h) \/ ReleaseHandle(h)

\* What the owner of a handle decides to do.
HandleChoice(h) ==
    \/ \E new \in Handle : CloneHandle(h, new)
    \/ InstallHandler(h) \/ ReplaceHandler(h)
    \/ \E o \in Operation : BeginCall(h, o)
    \/ AbandonInvoke(h)
    \/ GracefulCancel(h)
    \/ AbandonGraceful(h)
    \/ hpc[h] = "idle" /\ DropHandle(h)

Network(g) ==
    \/ WriterFails(g)
    \/ ReaderEnds(g)
    \/ \E k \in Call : ReadCompletion(g, k)

TaskProgress(g) ==
    \/ WriteMessage(g) \/ WriteClose(g)
    \/ AbortReader(g)  \/ AbortWriter(g)

MonitorStep ==
    \/ ReceiveEvent \/ ChannelCloses
    \/ MarkConnectionLost \/ CancelLostCalls \/ RunReconnecting
    \/ CheckAttempts \/ WakeFromDelay
    \/ NegotiateSucceeds \/ NegotiateFails
    \/ ConnectSucceeds \/ ConnectFails
    \/ PublishConnection
    \/ SkipReconnected \/ BeginReplay \/ EndReplay

AllHandlesGone == \A h \in Handle : ~Alive(h)

\* Nothing of the client is left: no task, no monitor, no waiting caller.
TornDown ==
    /\ monPc = "stopped"
    /\ \A g \in Gen : reader[g] # "running" /\ writer[g] # "running"
    /\ pending = {}

Terminated ==
    /\ AllHandlesGone
    /\ TornDown
    /\ UNCHANGED vars

Next ==
    \/ \E h \in Handle : HandleProgress(h) \/ HandleChoice(h)
    \/ \E g \in Gen : Network(g) \/ TaskProgress(g)
    \/ MonitorStep
    \/ DisposeStorage
    \/ Terminated

\* A spawned task that can run does; what users and the network choose to do
\* (calls, drops, answers, losses) is not promised.
Fairness ==
    /\ \A h \in Handle : WF_vars(HandleProgress(h))
    /\ \A g \in Gen : /\ WF_vars(WriteMessage(g) \/ WriteClose(g))
                      /\ WF_vars(AbortReader(g))
                      /\ WF_vars(AbortWriter(g))
    /\ WF_vars(MonitorStep)
    /\ WF_vars(DisposeStorage)

Spec == Init /\ [][Next]_vars
FairSpec == Spec /\ Fairness

-----------------------------------------------------------------------------
(* Safety.                                                                  *)

\* A call whose message went out on a connection is never forgotten: as long
\* as its entry waits in the storage, that connection is the current one, or
\* the monitor is about to cancel the entry, or the client is shutting down.
\* This is what the order "insert, look up, send" of invoke_internal and the
\* order "leave Connected, then cancel_pending" of the monitor are for.
NoOrphan ==
    \A k \in pending :
        sent[k] # 0 => \/ state = Connected(sent[k])
                       \/ monPc = "cancel"
                       \/ shutdown

\* While the monitor works on a replacement the shared state refers to no
\* connection, so that publishing the new one drops none; and the current
\* connection is the newest ever numbered, so that a late event of an older
\* one cannot be taken for its loss.
Replacing == {"cancel", "reconnecting", "attempt", "sleep",
              "negotiate", "connect", "publish"}

OneCurrentConnection ==
    /\ monPc \in Replacing => state.kind # "Connected"
    /\ \A g \in Gen : state = Connected(g) => nextGen = g + 1

\* The generations one of whose tasks has ended.
Ended == {g \in Gen : reader[g] = "stopped" \/ writer[g] = "stopped"}

\* A connection is given up only when one of its tasks has ended or the
\* client shuts down: events of older generations, doubled events (reader
\* and writer each report a loss) and failing senders never cost a healthy
\* connection.
HealthyConnectionKept ==
    [][\A g \in Gen :
          (state = Connected(g) /\ state' # state) => g \in Ended \/ shutdown]_vars

\* The connection the clients use, or will as soon as the monitor publishes it.
Adopted(g) == state = Connected(g) \/ (monPc = "publish" /\ monGen = g)

\* A lost connection does not go unnoticed: when a task of the adopted one has
\* ended, its loss is in the channel or in the monitor's hands, though it ended
\* before the connection was published, behind late reports about older ones,
\* or while the monitor awaited the user's callback.  Only a shutdown, and the
\* end of the last clone, take a connection down without a report.
LossReported ==
    \A g \in Gen :
        Adopted(g) /\ g \in Ended /\ SharedAlive =>
            \/ \E i \in DOMAIN events : events[i] = ConnectionLost(g)
            \/ monPc = "mark" /\ monGen = g
            \/ shutdown

(* The inductive invariant behind the safety properties.                    *)

\* No report of a loss is false: not those waiting in the channel, and not
\* the one the monitor acts on.
LossReportsTrue ==
    /\ \A i \in 1 .. Len(events) :
          events[i].kind = "ConnectionLost" => events[i].gen \in Ended
    /\ monPc = "mark" => monGen \in Ended

\* Tasks run only for numbered generations, and whoever refers to a
\* connection refers to one whose tasks were started.
GenerationsStarted ==
    /\ \A g \in Gen : g >= nextGen => reader[g] = "unused" /\ writer[g] = "unused"
    /\ \A g \in Gen : state = Connected(g) => writer[g] # "unused"
    /\ \A h \in Handle :
          hpc[h] \in {"holding", "gracefulClose"} =>
              conn[h] \in Gen /\ writer[conn[h]] # "unused"
    /\ monPc \in {"connect", "publish"} => monGen \in Gen /\ nextGen = monGen + 1
    /\ monPc = "connect" => reader[monGen] = "unused" /\ writer[monGen] = "unused"
    /\ monPc = "publish" => writer[monGen] # "unused"

\* Invocation ids are fresh when they are handed out.
CallsFresh ==
    /\ \A k \in Call : sent[k] # 0 => k <= index
    /\ \A h \in Handle : key[h] <= index
    /\ \A k \in pending : k <= index

\* A call between the look-up of its connection and its send is covered as
\* well as one that was sent.
HeldCallsCovered ==
    \A h \in Handle :
        (hpc[h] = "holding" /\ key[h] \in pending) =>
            \/ state = Connected(conn[h])
            \/ monPc = "cancel"
            \/ shutdown

\* Whoever clears the shared state has set the flag before.
ClearingAnnounced ==
    \A h \in Handle :
        hpc[h] \in {"gracefulLook", "gracefulClose", "gracefulWait",
                   "gracefulClear", "dropClear"} => shutdown

\* Neither a close command nor a Shutdown event is sent before the flag is set;
\* a call to be sent has a number, so its message is no close command; and the
\* monitor stops in a shutdown or after the last clone.
EndsAnnounced ==
    /\ \A g \in Gen : \A i \in DOMAIN cmds[g] : cmds[g][i] = Close => shutdown
    /\ \A h \in Handle : hpc[h] \in {"stored", "holding"} => key[h] # 0
    /\ \A i \in DOMAIN events : events[i] = Shutdown => shutdown
    /\ \A h \in Handle : hpc[h] \in {"gracefulNotify", "dropNotify"} => shutdown
    /\ monPc = "stopped" => shutdown \/ ~SharedAlive

IInv ==
    /\ TypeOK
    /\ NoOrphan
    /\ OneCurrentConnection
    /\ LossReportsTrue
    /\ GenerationsStarted
    /\ CallsFresh
    /\ HeldCallsCovered
    /\ ClearingAnnounced
    /\ LossReported
    /\ EndsAnnounced

(* The contract of the connection with the calls.                           *)

CurrentLink  == IF state.kind = "Connected" THEN state.gen ELSE 0
CarrierOf(k) == IF k \in pending THEN sent[k] ELSE 0

Contract == INSTANCE ConnectionContract WITH
    link <- CurrentLink,
    numbered <- nextGen - 1,
    broken <- Ended,
    settling <- monPc = "cancel",
    over <- shutdown,
    last <- index,
    open <- pending,
    carrier <- [k \in Call |-> CarrierOf(k)]

\* Whatever handles, tasks and monitor do, and in whatever order, is a step of
\* the contract or invisible to the calls: links are numbered anew, given up
\* only when broken or in a shutdown, and replaced only after their calls were
\* settled, be they sent before the loss or while it was being handled.
KeepsContract == Contract!Spec

(* Liveness.                                                                *)

\* "Pending invocations are completed with an error if the connection is
\* lost before the server sends a completion, which prevents callers from
\* waiting forever on a response that can no longer arrive" (README).
PendingCallsCompleted ==
    \A k \in Call, g \in Gen :
        (k \in pending /\ sent[k] = g /\ reader[g] = "stopped") ~> k \notin pending

\* The code keeps that promise as long as no clone disconnects gracefully (and
\* no callback of the monitor waits for a call).
NobodyDisconnects == \A h \in Handle : hpc[h] # "gracefulFlag"
LostCallsResolve == []NobodyDisconnects => PendingCallsCompleted

\* Nobody deserts a graceful disconnect, which leaves the state as it was.
NobodyDeserts == \A h \in Handle : hpc[h] # "deserting"

\* With a limit on the attempts a client does not stay Reconnecting: it is
\* connected again or gives up.
ReconnectingEnds ==
    []NobodyDeserts =>
        (policy.maxAttempts # NoLimit /\ state = Reconnecting ~> state # Reconnecting)

\* Once every handle is gone, however it went, nothing of the client survives:
\* the monitor and the tasks end, and streams that outlive their client are
\* closed.  A monitor that may try to reconnect without limit does so, see
\* NoConnectionWithoutClones.
ReconnectsForever == policy.enabled /\ policy.maxAttempts = NoLimit
NothingLeaks == AllHandlesGone /\ ~ReconnectsForever ~> TornDown

\* Setting the shutdown flag always ends the monitor, wherever it is in its
\* reconnect loop and whatever events are queued before the Shutdown event;
\* only an owner that deserts its graceful disconnect leaves it running.
ShutdownStopsMonitor == []NobodyDeserts => (shutdown ~> monPc = "stopped")

\* A handle between setting the flag and telling the monitor.
Announcing == {"gracefulLook", "gracefulClose", "gracefulWait", "gracefulClear",
               "gracefulNotify", "dropClear", "dropNotify"}

\* The flag is never left for a monitor that sleeps on an empty channel: whoever
\* set it is still on its way to the Shutdown event, or that is in the channel,
\* or the monitor has stopped, maybe on an earlier event.
ShutdownHeard ==
    shutdown => \/ monPc = "stopped"
                \/ \E i \in DOMAIN events : events[i] = Shutdown
                \/ \E h \in Handle : hpc[h] \in Announcing
ShutdownAnnounced == []NobodyDeserts => []ShutdownHeard

(* What the documentation promises and the code does not keep.              *)

\* "Gracefully disconnects the underlying connection for all clones": after
\* disconnect_gracefully of one clone has cleared the state, another that is
\* alive is not connected again.
DisconnectedForAllClones ==
    [][\A h, other \in Handle :
          hpc[h] = "gracefulNotify" /\ hpc[other] = "idle" /\ state = NotConnected =>
              state'.kind # "Connected"]_vars

\* "The underlying connection closes when this is the last live clone":
\* without a live clone no connection is established.
NoConnectionWithoutClones ==
    [][AllHandlesGone /\ state.kind # "Connected" => state'.kind # "Connected"]_vars
=============================================================================
