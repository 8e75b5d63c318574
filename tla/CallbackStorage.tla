-------------------------- MODULE CallbackStorage --------------------------
(***************************************************************************)
(* Hub-to-client invocations: registering and unregistering callbacks,     *)
(* dispatching messages to them, and the messages retained until a         *)
(* callback is registered (execution/storage.rs, storage_tokio.rs and      *)
(* callback.rs).                                                           *)
(*                                                                         *)
(* One action is one critical section of the storage: the data mutex       *)
(* guards the registered actions, a second mutex the deferred messages.    *)
(* A callback runs inside the critical section that dispatches to it.  It  *)
(* is user code and is taken to return without touching the storage; one   *)
(* that registers or unregisters would wait for the mutex its own thread   *)
(* holds.  The messages of a target are numbered in the order they arrive. *)
(***************************************************************************)
EXTENDS Integers, Sequences

CONSTANTS
    Target,       \* hub method names
    User,         \* threads that register and unregister callbacks
    Reader,       \* reader tasks; an old one may overlap its successor
    Capacity,     \* deferred_message_capacity
    MaxMessages,  \* bound: messages per target
    MaxRegisters  \* bound: calls of register per user

ASSUME StorageAssumption ==
    /\ Capacity \in Nat
    /\ MaxMessages \in Nat
    /\ MaxRegisters \in Nat

VARIABLES
    registered,  \* targets with a callback action in the data map
    deferred,    \* deferred[t]: retained messages of t, oldest first
    arrived,     \* arrived[t]: messages of t the readers received
    reader,      \* reader[r]: what r is doing with which message
    user,        \* user[u]: where u is in register, and for which target
    replay,      \* replay[u]: messages u took from deferred to replay
    registers,   \* registers[u]: calls of register so far
    delivered,   \* history: messages of t its callbacks ran for, in order
    evicted,     \* history: messages of t pushed out by the capacity
    lost,        \* history: messages of t dispatched to no callback
    removed      \* history: targets whose callback was ever unregistered

vars == <<registered, deferred, arrived, reader, user, replay, registers,
          delivered, evicted, lost, removed>>

Message == 1 .. MaxMessages
ReaderState == [pc : {"idle"}]
          \cup [pc : {"found", "missing"}, target : Target, message : Message]
UserState == [pc : {"idle"}]
        \cup [pc : {"inserted", "replaying", "registered"}, target : Target]
Idle == [pc |-> "idle"]

TypeOK ==
    /\ registered \subseteq Target
    /\ deferred \in [Target -> Seq(Message)]
    /\ arrived \in [Target -> 0 .. MaxMessages]
    /\ reader \in [Reader -> ReaderState]
    /\ user \in [User -> UserState]
    /\ replay \in [User -> Seq(Message)]
    /\ registers \in [User -> 0 .. MaxRegisters]
    /\ delivered \in [Target -> Seq(Message)]
    /\ evicted \in [Target -> SUBSET Message]
    /\ lost \in [Target -> SUBSET Message]
    /\ removed \subseteq Target

Init ==
    /\ registered = {}
    /\ deferred = [t \in Target |-> <<>>]
    /\ arrived = [t \in Target |-> 0]
    /\ reader = [r \in Reader |-> Idle]
    /\ user = [u \in User |-> Idle]
    /\ replay = [u \in User |-> <<>>]
    /\ registers = [u \in User |-> 0]
    /\ delivered = [t \in Target |-> <<>>]
    /\ evicted = [t \in Target |-> {}]
    /\ lost = [t \in Target |-> {}]
    /\ removed = {}

-----------------------------------------------------------------------------
\* CallbackAction::update_with: the callback runs.
Deliver(t, m) == delivered' = [delivered EXCEPT ![t] = Append(@, m)]

\* update(): dispatch to the callback, or fail when it is gone.
Dispatch(t, m) ==
    \/ /\ t \in registered
       /\ Deliver(t, m)
       /\ UNCHANGED lost
    \/ /\ t \notin registered
       /\ lost' = [lost EXCEPT ![t] = @ \cup {m}]
       /\ UNCHANGED delivered

(* process_message of an Invocation, by a reader task.                      *)

\* Mutant: messages are counted from zero.
ReceiveFromZero(r, t) ==
    /\ reader[r] = Idle
    /\ arrived[t] < MaxMessages
    /\ arrived' = [arrived EXCEPT ![t] = @ + 1]
    /\ reader' = [reader EXCEPT ![r] =
           [pc |-> IF t \in registered THEN "found" ELSE "missing",
            target |-> t, message |-> arrived[t]]]
    /\ UNCHANGED <<registered, deferred, user, replay, registers, delivered,
                   evicted, lost, removed>>

\* contains()
ReceiveInvocation(r, t) ==
    /\ reader[r] = Idle
    /\ arrived[t] < MaxMessages
    /\ arrived' = [arrived EXCEPT ![t] = @ + 1]
    /\ reader' = [reader EXCEPT ![r] =
           [pc |-> IF t \in registered THEN "found" ELSE "missing",
            target |-> t, message |-> arrived[t] + 1]]
    /\ UNCHANGED <<registered, deferred, user, replay, registers, delivered,
                   evicted, lost, removed>>

UpdateFound(r) ==
    /\ reader[r].pc = "found"
    /\ Dispatch(reader[r].target, reader[r].message)
    /\ reader' = [reader EXCEPT ![r] = Idle]
    /\ UNCHANGED <<registered, deferred, arrived, user, replay, registers,
                   evicted, removed>>

\* Mutants: the limit is off by one; the newest message is dropped.
RetainOneMore(t, m) ==
    LET queue == Append(deferred[t], m) IN
    IF Len(queue) > Capacity + 1
    THEN /\ deferred' = [deferred EXCEPT ![t] = Tail(queue)]
         /\ evicted' = [evicted EXCEPT ![t] = @ \cup {Head(queue)}]
    ELSE /\ deferred' = [deferred EXCEPT ![t] = queue]
         /\ UNCHANGED evicted

RetainOldest(t, m) ==
    IF Len(deferred[t]) >= Capacity
    THEN /\ evicted' = [evicted EXCEPT ![t] = @ \cup {m}]
         /\ UNCHANGED deferred
    ELSE /\ deferred' = [deferred EXCEPT ![t] = Append(@, m)]
         /\ UNCHANGED evicted

\* push_back, and pop_front beyond the capacity.
Retain(t, m) ==
    LET queue == Append(deferred[t], m) IN
    IF Len(queue) > Capacity
    THEN /\ deferred' = [deferred EXCEPT ![t] = Tail(queue)]
         /\ evicted' = [evicted EXCEPT ![t] = @ \cup {Head(queue)}]
    ELSE /\ deferred' = [deferred EXCEPT ![t] = queue]
         /\ UNCHANGED evicted

\* Mutant: the second look is missing.
DeferBlindly(r) ==
    /\ reader[r].pc = "missing"
    /\ Retain(reader[r].target, reader[r].message)
    /\ reader' = [reader EXCEPT ![r] = Idle]
    /\ UNCHANGED <<registered, arrived, user, replay, registers, delivered, lost, removed>>

\* defer_message: looks again under the data mutex, which it keeps while it
\* appends to the deferred messages.
DeferMissing(r) ==
    LET t == reader[r].target
        m == reader[r].message
    IN
    /\ reader[r].pc = "missing"
    /\ reader' = [reader EXCEPT ![r] = Idle]
    /\ \/ /\ t \in registered
          /\ Deliver(t, m)
          /\ UNCHANGED <<deferred, evicted>>
       \/ /\ t \notin registered
          /\ Retain(t, m)
          /\ UNCHANGED delivered
    /\ UNCHANGED <<registered, arrived, user, replay, registers, lost, removed>>

(* register and unregister, by a user thread.                               *)

\* insert(): a second callback for a target is refused and dropped, but its
\* caller goes on all the same.
InsertCallback(u, t) ==
    /\ user[u] = Idle
    /\ registers[u] < MaxRegisters
    /\ registers' = [registers EXCEPT ![u] = @ + 1]
    /\ registered' = registered \cup {t}
    /\ user' = [user EXCEPT ![u] = [pc |-> "inserted", target |-> t]]
    /\ UNCHANGED <<deferred, arrived, reader, replay, delivered, evicted, lost, removed>>

\* Mutant: the retained messages are copied, not taken.
CopyDeferred(u) ==
    /\ user[u].pc = "inserted"
    /\ replay' = [replay EXCEPT ![u] = deferred[user[u].target]]
    /\ user' = [user EXCEPT ![u].pc = "replaying"]
    /\ UNCHANGED <<registered, deferred, arrived, reader, registers, delivered,
                   evicted, lost, removed>>

\* replay_deferred: take all retained messages of the target...
TakeDeferred(u) ==
    LET t == user[u].target IN
    /\ user[u].pc = "inserted"
    /\ replay' = [replay EXCEPT ![u] = deferred[t]]
    /\ deferred' = [deferred EXCEPT ![t] = <<>>]
    /\ user' = [user EXCEPT ![u].pc = "replaying"]
    /\ UNCHANGED <<registered, arrived, reader, registers, delivered, evicted, lost, removed>>

\* ...and dispatch them one by one.
ReplayNext(u) ==
    /\ user[u].pc = "replaying"
    /\ replay[u] # <<>>
    /\ Dispatch(user[u].target, Head(replay[u]))
    /\ replay' = [replay EXCEPT ![u] = Tail(@)]
    /\ UNCHANGED <<registered, deferred, arrived, reader, user, registers, evicted, removed>>

\* Mutant: the replay stops early.
ReplayBreaksOff(u) ==
    /\ user[u].pc = "replaying"
    /\ user' = [user EXCEPT ![u].pc = "registered"]
    /\ UNCHANGED <<registered, deferred, arrived, reader, replay, registers,
                   delivered, evicted, lost, removed>>

ReplayDone(u) ==
    /\ user[u].pc = "replaying"
    /\ replay[u] = <<>>
    /\ user' = [user EXCEPT ![u].pc = "registered"]
    /\ UNCHANGED <<registered, deferred, arrived, reader, replay, registers,
                   delivered, evicted, lost, removed>>

\* unregister(): removes whatever callback the target has.
Unregister(u) ==
    LET t == user[u].target IN
    /\ user[u].pc = "registered"
    /\ registered' = registered \ {t}
    /\ removed' = removed \cup {t}
    /\ user' = [user EXCEPT ![u] = Idle]
    /\ UNCHANGED <<deferred, arrived, reader, replay, registers, delivered, evicted, lost>>

ReaderStep(r) == UpdateFound(r) \/ DeferMissing(r)
UserStep(u) == TakeDeferred(u) \/ ReplayNext(u) \/ ReplayDone(u)

Next ==
    \/ \E r \in Reader : ReaderStep(r) \/ \E t \in Target : ReceiveInvocation(r, t)
    \/ \E u \in User : UserStep(u) \/ Unregister(u) \/ \E t \in Target : InsertCallback(u, t)

\* What a reader or a registering thread has begun it finishes; nobody has
\* to send messages, to register or to unregister.
Fairness ==
    /\ \A r \in Reader : WF_vars(ReaderStep(r))
    /\ \A u \in User : WF_vars(UserStep(u))

Spec == Init /\ [][Next]_vars
FairSpec == Spec /\ Fairness

-----------------------------------------------------------------------------
Elements(s) == {s[i] : i \in 1 .. Len(s)}
Distinct(s) == \A i, j \in 1 .. Len(s) : s[i] = s[j] => i = j

\* The messages of t in the hands of a reader, and of a replaying user.
InReader(t) == {reader[r].message : r \in {x \in Reader : reader[x] # Idle /\ reader[x].target = t}}
InReplay(t) ==
    UNION {Elements(replay[u]) : u \in {x \in User : user[x] # Idle /\ user[x].target = t}}

\* "Messages sent [...] before this registration, are replayed automatically"
\* (README): a retained message of a registered target is about to be taken
\* by a thread that has inserted its callback and not yet replayed.  Without
\* the second look in defer_message a message would be stranded between the
\* reader's contains() and the replay.
NothingStranded ==
    \A t \in registered :
        deferred[t] # <<>> => \E u \in User : user[u] = [pc |-> "inserted", target |-> t]

\* No callback sees a message twice, and a message is at one place at a time:
\* moved, not copied, between the readers, the retained queue, a replay and
\* its fate.
ExactlyOnePlace ==
    \A t \in Target :
        LET places == <<InReader(t), Elements(deferred[t]), InReplay(t),
                        Elements(delivered[t]), evicted[t], lost[t]>>
        IN
        /\ UNION Elements(places) = 1 .. arrived[t]
        /\ \A i, j \in 1 .. Len(places) : i # j => places[i] \cap places[j] = {}
        /\ Distinct(delivered[t]) /\ Distinct(deferred[t])

\* A message is lost to a full queue, or to an unregister that overtakes it,
\* and to nothing else; and the queue never exceeds its capacity.
LossExplained ==
    \A t \in Target :
        /\ lost[t] # {} => t \in removed
        /\ Len(deferred[t]) <= Capacity

\* The retained messages of a target are its most recent ones, in the order
\* they arrived, as long as a single reader feeds it.
RetainedInOrder ==
    (\A r, s \in Reader : r = s) =>
        \A t \in Target :
            /\ \A i, j \in 1 .. Len(deferred[t]) : i < j => deferred[t][i] < deferred[t][j]
            /\ \A m \in evicted[t], n \in Elements(deferred[t]) : m < n

\* A message retained when its target gets a callback meets its fate: it is
\* not held back by whatever else the readers and users do.
RetainedReplayed ==
    \A t \in Target, m \in Message :
        (t \in registered /\ m \in Elements(deferred[t])) ~>
            m \in Elements(delivered[t]) \cup lost[t] \cup evicted[t]
=============================================================================
