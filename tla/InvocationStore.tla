-------------------------- MODULE InvocationStore --------------------------
(***************************************************************************)
(* Client-to-server invocations and streams between the storage and the    *)
(* tasks that await them: InvocationAction with its ManualFuture,          *)
(* EnumerableAction with its ManualStream, and the storage operations that *)
(* insert, update, cancel and remove them (execution/invocation.rs,        *)
(* enumerable.rs, storage.rs, storage_tokio.rs; completer/; the calls of   *)
(* client/signalr_client.rs).                                              *)
(*                                                                         *)
(* One action is one critical section of the data mutex, with the sections *)
(* of the future's or the stream's mutex nested in it, or one section of   *)
(* the latter; poll_next, which holds the queue while it locks the waker,  *)
(* is two.  Which connection carries a call, and when it is lost, is the   *)
(* matter of ConnectionLifecycle: here a loss can come at any time.        *)
(***************************************************************************)
EXTENDS Integers, Sequences

CONSTANTS
    Invocation,  \* ids of calls made by invoke
    Stream,      \* ids of calls made by enumerate
    Task,        \* whoever polls: each has its own waker
    NoTask,
    MaxItems     \* bound: items the server sends on a stream

ASSUME StoreAssumption ==
    /\ Invocation \cap Stream = {}
    /\ NoTask \notin Task
    /\ MaxItems \in Nat

Call == Invocation \cup Stream
Item == 1 .. MaxItems
End  == 0        \* the None that closes the queue of a stream

VARIABLES
    data,      \* keys of the actions in the storage
    disposed,  \* the last clone of the storage is gone
    completer, \* the invocations whose action still holds its completer
    future,    \* future[k]: the State of the ManualFuture of k
    value,     \* value[k]: what k was completed with
    queue,     \* queue[k]: the queue of the ManualStream of k
    waker,     \* waker[k]: the task whose waker is stored for k
    locked,    \* the streams whose queue a poll_next holds
    caller,    \* caller[k]: where the owner of k is
    task,      \* task[k]: the task that polls k
    consumed,  \* history: the items the owner of k has got
    server,    \* server[k]: messages the server may still send for k
    removing,  \* the key a completion being processed has still to remove
    panicked   \* a future was completed twice

ownerVars == <<locked, task, consumed>>
netVars == <<server, removing>>
vars == <<data, disposed, completer, future, value, queue, waker, caller,
          ownerVars, netVars, panicked>>

CallerState == {"new", "stored", "ready", "empty", "parked", "cleaning",
                "leaving", "returned", "left"}

TypeOK ==
    /\ data \subseteq Call
    /\ disposed \in BOOLEAN
    /\ completer \subseteq Invocation
    /\ future \in [Invocation -> {"incomplete", "waiting", "complete", "taken"}]
    /\ value \in [Invocation -> {"none", "answer", "error"}]
    /\ queue \in [Stream -> Seq(Item \cup {End})]
    /\ waker \in [Call -> Task \cup {NoTask}]
    /\ locked \subseteq Stream
    /\ caller \in [Call -> CallerState]
    /\ task \in [Call -> Task]
    /\ consumed \in [Stream -> Seq(Item)]
    /\ server \in [Call -> 0 .. MaxItems + 1]
    /\ removing \subseteq Call
    /\ panicked \in BOOLEAN

Init ==
    /\ data = {}
    /\ disposed = FALSE
    /\ completer = {}
    /\ future = [k \in Invocation |-> "incomplete"]
    /\ value = [k \in Invocation |-> "none"]
    /\ queue = [k \in Stream |-> <<>>]
    /\ waker = [k \in Call |-> NoTask]
    /\ locked = {}
    /\ caller = [k \in Call |-> "new"]
    /\ task \in [Call -> Task]
    /\ consumed = [k \in Stream |-> <<>>]
    /\ server = [k \in Call |-> 0]
    /\ removing = {}
    /\ panicked = FALSE

-----------------------------------------------------------------------------
(* What a critical section of the data mutex does to the actions of a set S *)
(* of calls.                                                                *)

\* Mutant: the completer is cloned, not taken.
CompleteClone(S, v) ==
    LET now == S \cap completer IN
    /\ future' = [k \in Invocation |-> IF k \in now THEN "complete" ELSE future[k]]
    /\ value' = [k \in Invocation |-> IF k \in now THEN v ELSE value[k]]
    /\ panicked' = (panicked \/ \E k \in now : future[k] \in {"complete", "taken"})
    /\ UNCHANGED completer

\* InvocationAction::complete and dispose_internal take the completer and
\* complete the future; without a completer nothing happens.
\* ManualFutureCompleter::complete panics when the future was complete.
Complete(S, v) ==
    LET now == S \cap completer IN
    /\ completer' = completer \ now
    /\ future' = [k \in Invocation |-> IF k \in now THEN "complete" ELSE future[k]]
    /\ value' = [k \in Invocation |-> IF k \in now THEN v ELSE value[k]]
    /\ panicked' = (panicked \/ \E k \in now : future[k] \in {"complete", "taken"})

\* Mutant: messages are put at the front of the queue.
PushFront(S, messages) ==
    /\ S \cap locked = {}
    /\ queue' = [k \in Stream |-> IF k \in S THEN messages \o queue[k] ELSE queue[k]]

\* ManualStreamState::push and close: they wait for a poll_next to end.
Push(S, messages) ==
    /\ S \cap locked = {}
    /\ queue' = [k \in Stream |-> IF k \in S THEN queue[k] \o messages ELSE queue[k]]

\* complete, push and close take the stored waker and wake its task; the
\* wake of a task that does not wait for the call changes nothing.
Wake(S) ==
    /\ waker' = [k \in Call |-> IF k \in S THEN NoTask ELSE waker[k]]
    /\ caller' = [k \in Call |->
           IF k \in S /\ caller[k] = "parked" /\ waker[k] = task[k]
           THEN "ready" ELSE caller[k]]

Touched(S) == (S \cap completer) \cup (S \cap Stream)

\* Mutant: the actions have no Drop.
DropNothing(S) ==
    /\ data' = data \ S
    /\ UNCHANGED <<completer, future, value, queue, panicked>>

\* Storage::remove: the action is dropped, which cancels an open invocation
\* and closes a stream (once more, if it was closed before).
DropActions(S) ==
    /\ data' = data \ S
    /\ Complete(S \cap data, "error")
    /\ Push(S \cap data \cap Stream, <<End>>)

-----------------------------------------------------------------------------
(* The owner of a call.                                                     *)

\* add_invocation, add_stream
Insert(k) ==
    /\ caller[k] = "new" /\ ~disposed
    /\ data' = data \cup {k}
    /\ completer' = completer \cup ({k} \cap Invocation)
    /\ caller' = [caller EXCEPT ![k] = "stored"]
    /\ UNCHANGED <<disposed, future, value, queue, waker, ownerVars, netVars, panicked>>

\* The message is queued for the socket; the owner awaits the future, or
\* gets its stream.
SendSucceeds(k) ==
    /\ caller[k] = "stored"
    /\ caller' = [caller EXCEPT ![k] = "ready"]
    /\ server' = [server EXCEPT ![k] = IF k \in Stream THEN MaxItems + 1 ELSE 1]
    /\ UNCHANGED <<data, disposed, completer, future, value, queue, waker,
                   ownerVars, removing, panicked>>

\* The action is removed: invoke returns the error, the stream just ends.
SendFails(k) ==
    /\ caller[k] = "stored"
    /\ DropActions({k})
    /\ caller' = [caller EXCEPT ![k] = IF k \in Stream THEN "ready" ELSE "cleaning"]
    /\ UNCHANGED <<disposed, waker, ownerVars, netVars>>

\* Mutant: a waker once stored is kept, whoever polls.
PollKeepsWaker(k) ==
    /\ k \in Invocation
    /\ caller[k] = "ready"
    /\ \/ /\ future[k] = "complete"
          /\ future' = [future EXCEPT ![k] = "taken"]
          /\ caller' = [caller EXCEPT ![k] = "cleaning"]
          /\ UNCHANGED waker
       \/ /\ future[k] \in {"incomplete", "waiting"}
          /\ future' = [future EXCEPT ![k] = "waiting"]
          /\ waker' = [waker EXCEPT ![k] = IF @ = NoTask THEN task[k] ELSE @]
          /\ caller' = [caller EXCEPT ![k] = "parked"]
    /\ UNCHANGED <<data, disposed, completer, value, queue, ownerVars, netVars, panicked>>

\* ManualFuture::poll. A stored waker of another task is replaced.
PollFuture(k) ==
    /\ k \in Invocation
    /\ caller[k] = "ready"
    /\ \/ /\ future[k] = "complete"
          /\ future' = [future EXCEPT ![k] = "taken"]
          /\ caller' = [caller EXCEPT ![k] = "cleaning"]
          /\ UNCHANGED waker
       \/ /\ future[k] \in {"incomplete", "waiting"}
          /\ future' = [future EXCEPT ![k] = "waiting"]
          /\ waker' = [waker EXCEPT ![k] = task[k]]
          /\ caller' = [caller EXCEPT ![k] = "parked"]
    /\ UNCHANGED <<data, disposed, completer, value, queue, ownerVars, netVars, panicked>>

\* Mutants: the queue is unlocked before the waker is stored; the None that
\* closes the queue is handed out like an item.
PollUnlocks(k) ==
    /\ k \in Stream
    /\ caller[k] = "ready"
    /\ IF queue[k] = <<>>
       THEN caller' = [caller EXCEPT ![k] = "empty"] /\ UNCHANGED <<queue, consumed>>
       ELSE /\ queue' = [queue EXCEPT ![k] = Tail(@)]
            /\ IF Head(queue[k]) = End
               THEN caller' = [caller EXCEPT ![k] = "returned"] /\ UNCHANGED consumed
               ELSE /\ consumed' = [consumed EXCEPT ![k] = Append(@, Head(queue[k]))]
                    /\ UNCHANGED caller
    /\ UNCHANGED <<data, disposed, completer, future, value, waker, locked, task,
                   netVars, panicked>>

PollHandsOutEnd(k) ==
    /\ k \in Stream
    /\ caller[k] = "ready"
    /\ IF queue[k] = <<>>
       THEN /\ caller' = [caller EXCEPT ![k] = "empty"]
            /\ locked' = locked \cup {k}
            /\ UNCHANGED <<queue, consumed>>
       ELSE /\ queue' = [queue EXCEPT ![k] = Tail(@)]
            /\ consumed' = [consumed EXCEPT ![k] = Append(@, Head(queue[k]))]
            /\ UNCHANGED <<caller, locked>>
    /\ UNCHANGED <<data, disposed, completer, future, value, waker, task,
                   netVars, panicked>>

\* ManualStream::poll_next: with the queue locked, pop a message...
PollQueue(k) ==
    /\ k \in Stream
    /\ caller[k] = "ready"
    /\ IF queue[k] = <<>>
       THEN /\ caller' = [caller EXCEPT ![k] = "empty"]
            /\ locked' = locked \cup {k}
            /\ UNCHANGED <<queue, consumed>>
       ELSE /\ queue' = [queue EXCEPT ![k] = Tail(@)]
            /\ IF Head(queue[k]) = End
               THEN /\ caller' = [caller EXCEPT ![k] = "returned"]
                    /\ UNCHANGED consumed
               ELSE /\ consumed' = [consumed EXCEPT ![k] = Append(@, Head(queue[k]))]
                    /\ UNCHANGED caller
            /\ UNCHANGED locked
    /\ UNCHANGED <<data, disposed, completer, future, value, waker, task,
                   netVars, panicked>>

\* ...or store the waker before the queue is unlocked.
ParkStream(k) ==
    /\ caller[k] = "empty"
    /\ waker' = [waker EXCEPT ![k] = task[k]]
    /\ caller' = [caller EXCEPT ![k] = "parked"]
    /\ locked' = locked \ {k}
    /\ UNCHANGED <<data, disposed, completer, future, value, queue, task,
                   consumed, netVars, panicked>>

\* The future or stream is polled without having been woken, by the same
\* task or (a combinator, a move) by another one.
PollAgain(k, t) ==
    /\ caller[k] = "parked"
    /\ task' = [task EXCEPT ![k] = t]
    /\ caller' = [caller EXCEPT ![k] = "ready"]
    /\ UNCHANGED <<data, disposed, completer, future, value, queue, waker,
                   locked, consumed, netVars, panicked>>

\* The owner drops the future (a timeout around invoke) or the stream, whose
\* action stays where it is.
Abandon(k) ==
    /\ caller[k] \in {"ready", "parked"}
    /\ caller' = [caller EXCEPT ![k] = IF k \in Stream THEN "left" ELSE "leaving"]
    /\ UNCHANGED <<data, disposed, completer, future, value, queue, waker,
                   ownerVars, netVars, panicked>>

\* Mutant: without PendingInvocationCleanup.
NoCleanup(k) ==
    /\ caller[k] \in {"cleaning", "leaving"}
    /\ caller' = [caller EXCEPT ![k] = IF @ = "cleaning" THEN "returned" ELSE "left"]
    /\ UNCHANGED <<data, disposed, completer, future, value, queue, waker,
                   ownerVars, netVars, panicked>>

\* PendingInvocationCleanup, dropped when invoke returns or is dropped.
Cleanup(k) ==
    /\ caller[k] \in {"cleaning", "leaving"}
    /\ DropActions({k})
    /\ caller' = [caller EXCEPT ![k] = IF @ = "cleaning" THEN "returned" ELSE "left"]
    /\ UNCHANGED <<disposed, waker, ownerVars, netVars>>

-----------------------------------------------------------------------------
(* The reader task: process_message.  It is never aborted in the middle,    *)
(* there is no await in it.                                                 *)

ReaderIdle == removing = {} /\ ~disposed

\* update() with a StreamItem: the next one, if it can be deserialized.
ReadItem(k) ==
    LET item == MaxItems + 2 - server[k] IN
    /\ ReaderIdle
    /\ k \in Stream /\ server[k] > 1
    /\ server' = [server EXCEPT ![k] = @ - 1]
    /\ \/ /\ k \in data
          /\ Push({k}, <<item>>)
          /\ Wake({k})
       \/ UNCHANGED <<queue, waker, caller>>
    /\ UNCHANGED <<data, disposed, completer, future, value, ownerVars,
                   removing, panicked>>

\* update() with a Completion...
ReadCompletion(k) ==
    /\ ReaderIdle
    /\ server[k] > 0
    /\ server' = [server EXCEPT ![k] = 0]
    /\ k \in data
    /\ Complete({k} \cap Invocation, "answer")
    /\ Push({k} \cap Stream, <<End>>)
    /\ Wake(Touched({k}))
    /\ removing' = {k}
    /\ UNCHANGED <<data, disposed, ownerVars>>

\* ...which fails when the action is gone or the payload cannot be
\* deserialized: then the action stays.
ReadCompletionFails(k) ==
    /\ ReaderIdle
    /\ server[k] > 0
    /\ server' = [server EXCEPT ![k] = 0]
    /\ UNCHANGED <<data, disposed, completer, future, value, queue, waker,
                   caller, ownerVars, removing, panicked>>

\* ...and then remove(), in a section of its own.
RemoveCompleted ==
    /\ removing # {}
    /\ DropActions(removing)
    /\ Wake(Touched(removing \cap data))
    /\ removing' = {}
    /\ UNCHANGED <<disposed, ownerVars, server>>

-----------------------------------------------------------------------------
(* The monitor, disconnect_gracefully, and the end of the storage.          *)

\* cancel_pending: every action is cancelled, is then completed, and is
\* removed, which closes a stream a second time.
CancelPending ==
    /\ data # {}
    /\ data' = {}
    /\ Complete(data, "error")
    /\ Push(data \cap Stream, <<End, End>>)
    /\ Wake(Touched(data))
    /\ UNCHANGED <<disposed, ownerVars, netVars>>

\* dispose, when the last clone of the storage is dropped: no call borrows
\* the client, no reader runs. Streams may outlive both.
DisposeStorage ==
    /\ ReaderIdle
    /\ \A k \in Invocation : caller[k] \in {"new", "returned", "left"}
    /\ \A k \in Stream : caller[k] # "stored"
    /\ disposed' = TRUE
    /\ DropActions(data)
    /\ Wake(Touched(data))
    /\ UNCHANGED <<ownerVars, netVars>>

Terminated ==
    /\ \A k \in Call : caller[k] \in {"returned", "left"} \/ (caller[k] = "new" /\ disposed)
    /\ UNCHANGED vars

OwnerProgress(k) ==
    \/ SendSucceeds(k) \/ SendFails(k)
    \/ PollFuture(k) \/ PollQueue(k) \/ ParkStream(k)
    \/ Cleanup(k)

Next ==
    \/ \E k \in Call :
          \/ Insert(k) \/ Abandon(k) \/ OwnerProgress(k)
          \/ \E t \in Task : PollAgain(k, t)
          \/ ReadItem(k) \/ ReadCompletion(k) \/ ReadCompletionFails(k)
    \/ RemoveCompleted
    \/ CancelPending
    \/ DisposeStorage
    \/ Terminated

\* An owner polls when it is woken and reads its stream to the end; the
\* server, the network and the monitor promise nothing.
Fairness ==
    /\ \A k \in Call : WF_vars(OwnerProgress(k))
    /\ WF_vars(RemoveCompleted)

Spec == Init /\ [][Next]_vars
FairSpec == Spec /\ Fairness

-----------------------------------------------------------------------------
\* What a caller can still learn: its call is over.
Closed(k) ==
    IF k \in Stream
    THEN caller[k] = "returned" \/ (\E i \in 1 .. Len(queue[k]) : queue[k][i] = End)
    ELSE future[k] \in {"complete", "taken"}

\* complete() is never called on a future that is complete (it would panic
\* in the reader or the monitor task, under the data mutex), and an action
\* in the storage has its completer exactly as long as its future is open.
CompletedOnce ==
    /\ ~panicked
    /\ \A k \in Invocation : k \in completer => k \in data /\ ~Closed(k)

\* An action does not leave the storage without its call being closed, on
\* any of the paths that remove it; callers "wait[ing] forever on a response
\* that can no longer arrive" (README) are only those whose action remains.
RemovedCallsClosed == \A k \in Call : caller[k] # "new" /\ k \notin data => Closed(k)

\* An owner that sleeps has nothing to find, and whoever changes that will
\* wake it: the waker stored is the one of the task that polled last.
NoLostWakeup ==
    \A k \in Call : caller[k] = "parked" =>
        /\ ~Closed(k)
        /\ k \in Stream => queue[k] = <<>>
        /\ waker[k] = task[k]

\* "dropping the awaiter alone does not remove the action from storage"
\* (signalr_client.rs): PendingInvocationCleanup does, whoever was first.
NoActionLeft ==
    \A k \in Invocation : caller[k] \in {"returned", "left"} => k \notin data

\* A call that is closed returns to its caller, who may be asleep when it
\* happens, or not yet waiting.
ClosedCallsReturn ==
    \A k \in Call : Closed(k) ~> caller[k] \in {"returned", "left"}

(* The contract of a call, which reads a call as a channel.                 *)
TheAnswer   == MaxItems + 1
Answered(k) == value[k] = "answer"
CallOver(k) == caller[k] = "returned" \/ (k \in Invocation /\ future[k] = "taken")

\* What is in a queue before its end.
Ahead(q) == [i \in {j \in 1 .. Len(q) : \A l \in 1 .. j : q[l] # End} |-> q[i]]

PutInto(k) ==
    IF k \in Stream THEN consumed[k] \o Ahead(queue[k])
    ELSE IF Answered(k) THEN <<TheAnswer>> ELSE <<>>

TakenFrom(k) ==
    IF k \in Stream THEN Len(consumed[k])
    ELSE IF CallOver(k) /\ Answered(k) THEN 1 ELSE 0

CallerOf(k) ==
    IF CallOver(k) THEN "done"
    ELSE IF caller[k] \in {"leaving", "left"} THEN "left" ELSE "waits"

Contract == INSTANCE CallContract WITH
    Item <- Item \cup {TheAnswer},
    put <- [k \in Call |-> PutInto(k)],
    taken <- [k \in Call |-> TakenFrom(k)],
    closed <- {k \in Call : Closed(k)},
    caller <- [k \in Call |-> CallerOf(k)]

KeepsContract == Contract!Spec
=============================================================================
