----------------------- MODULE CallbackStorageProofs -----------------------
(***************************************************************************)
(* Proofs about CallbackStorage for every number of targets, users,        *)
(* readers and messages: no retained message is stranded, and a message    *)
(* is only lost to its queue's capacity or to an unregister.               *)
(***************************************************************************)
EXTENDS CallbackStorage, TLAPS

\* A reader or a registering thread that is past its look at the data map
\* found a callback there, which is still there or was unregistered since.
SeenCallback ==
    /\ \A r \in Reader :
          reader[r].pc = "found" => reader[r].target \in registered \cup removed
    /\ \A u \in User :
          user[u].pc \in {"inserted", "replaying"} => user[u].target \in registered \cup removed

StorageInv == TypeOK /\ NothingStranded /\ LossExplained /\ SeenCallback

\* The fields of a busy reader and of a busy user are typed.
LEMMA BusyTyped ==
    ASSUME TypeOK
    PROVE  /\ \A r \in Reader : reader[r] # Idle =>
                 reader[r].target \in Target /\ reader[r].message \in Message
           /\ \A u \in User : user[u] # Idle => user[u].target \in Target
           /\ \A r \in Reader : reader[r].pc \in {"found", "missing"} => reader[r] # Idle
           /\ \A u \in User : user[u].pc # "idle" => user[u] # Idle
BY DEF TypeOK, ReaderState, UserState, Idle

\* Appending to one queue of a family of queues, and taking the rest of a
\* queue, keep the queues typed.
LEMMA QueueAppend ==
    ASSUME NEW G, NEW S, NEW f \in [G -> Seq(S)], NEW g \in G, NEW c \in S
    PROVE  /\ Append(f[g], c) \in Seq(S)
           /\ Len(Append(f[g], c)) = Len(f[g]) + 1
           /\ [f EXCEPT ![g] = Append(@, c)] \in [G -> Seq(S)]
<1>1. f[g] \in Seq(S)
  OBVIOUS
<1>2. Append(f[g], c) \in Seq(S) /\ Len(Append(f[g], c)) = Len(f[g]) + 1
  BY <1>1
<1>3. QED
  BY <1>2

(* Taking the oldest element off a non-empty queue leaves a queue of the same *)
(* elements, one shorter.                                                     *)
LEMMA QueueRest ==
    ASSUME NEW S, NEW q \in Seq(S), q # <<>>
    PROVE  /\ Head(q) \in S
           /\ Tail(q) \in Seq(S)
           /\ Len(Tail(q)) = Len(q) - 1
OBVIOUS

\* Dispatching changes only the fate of the message.
LEMMA DispatchTyped ==
    ASSUME TypeOK, NEW t \in Target, NEW m \in Message, Dispatch(t, m)
    PROVE  delivered' \in [Target -> Seq(Message)] /\ lost' \in [Target -> SUBSET Message]
<1>1. [delivered EXCEPT ![t] = Append(@, m)] \in [Target -> Seq(Message)]
  BY QueueAppend DEF TypeOK
<1>2. [lost EXCEPT ![t] = @ \cup {m}] \in [Target -> SUBSET Message]
  BY DEF TypeOK
<1>3. QED
  BY <1>1, <1>2 DEF TypeOK, Dispatch, Deliver

\* defer_message's push_back and pop_front keep the queue within the capacity.
LEMMA RetainBounded ==
    ASSUME TypeOK, NEW t \in Target, NEW m \in Message, Retain(t, m),
           Len(deferred[t]) <= Capacity
    PROVE  /\ deferred' \in [Target -> Seq(Message)]
           /\ evicted' \in [Target -> SUBSET Message]
           /\ \A x \in Target \ {t} : deferred'[x] = deferred[x]
           /\ Len(deferred'[t]) <= Capacity
<1> DEFINE queue == Append(deferred[t], m)
<1>1. /\ queue \in Seq(Message)
      /\ Len(queue) = Len(deferred[t]) + 1
      /\ Len(deferred[t]) \in Nat
  BY QueueAppend DEF TypeOK
<1>2. queue # <<>>
  BY <1>1
<1>3. Head(queue) \in Message /\ Tail(queue) \in Seq(Message) /\ Len(Tail(queue)) = Len(queue) - 1
  BY <1>1, <1>2, QueueRest
<1> HIDE DEF queue
<1>4. CASE Len(queue) > Capacity
  <2>1. /\ deferred' = [deferred EXCEPT ![t] = Tail(queue)]
        /\ evicted' = [evicted EXCEPT ![t] = @ \cup {Head(queue)}]
    BY <1>4 DEF Retain, queue
  <2>2. Len(Tail(queue)) <= Capacity
    BY <1>1, <1>3, StorageAssumption
  <2>3. QED
    BY <1>3, <2>1, <2>2 DEF TypeOK
<1>5. CASE ~ (Len(queue) > Capacity)
  <2>1. deferred' = [deferred EXCEPT ![t] = queue] /\ evicted' = evicted
    BY <1>5 DEF Retain, queue
  <2>2. Len(queue) <= Capacity
    BY <1>1, <1>5, StorageAssumption
  <2>3. QED
    BY <1>1, <2>1, <2>2 DEF TypeOK
<1>6. QED
  BY <1>4, <1>5

\* Every action keeps every variable typed.
LEMMA TypeStep ==
    ASSUME TypeOK, LossExplained, Next
    PROVE  TypeOK'
<1>1. ASSUME NEW r \in Reader, NEW t \in Target, ReceiveInvocation(r, t)
      PROVE  TypeOK'
  <2>1. arrived[t] + 1 \in Message /\ arrived' \in [Target -> 0 .. MaxMessages]
    BY <1>1, StorageAssumption DEF TypeOK, ReceiveInvocation, Message
  <2>2. reader' \in [Reader -> ReaderState]
    BY <1>1, <2>1 DEF TypeOK, ReceiveInvocation, ReaderState
  <2>3. QED
    BY <1>1, <2>1, <2>2 DEF TypeOK, ReceiveInvocation
<1>2. ASSUME NEW r \in Reader, UpdateFound(r)
      PROVE  TypeOK'
  <2>1. reader[r].target \in Target /\ reader[r].message \in Message
    BY <1>2, BusyTyped DEF UpdateFound
  <2>2. delivered' \in [Target -> Seq(Message)] /\ lost' \in [Target -> SUBSET Message]
    BY <1>2, <2>1, DispatchTyped DEF UpdateFound
  <2>3. reader' \in [Reader -> ReaderState]
    BY <1>2 DEF TypeOK, UpdateFound, ReaderState, Idle
  <2>4. QED
    BY <1>2, <2>2, <2>3 DEF TypeOK, UpdateFound
<1>3. ASSUME NEW r \in Reader, DeferMissing(r)
      PROVE  TypeOK'
  <2> DEFINE t == reader[r].target
             m == reader[r].message
  <2>1. t \in Target /\ m \in Message
    BY <1>3, BusyTyped DEF DeferMissing
  <2>2. reader' \in [Reader -> ReaderState]
    BY <1>3 DEF TypeOK, DeferMissing, ReaderState, Idle
  <2>3. [delivered EXCEPT ![t] = Append(@, m)] \in [Target -> Seq(Message)]
    BY <2>1, QueueAppend DEF TypeOK
  <2>4. Len(deferred[t]) <= Capacity
    BY <2>1 DEF LossExplained
  <2>5. \/ Deliver(t, m) /\ UNCHANGED <<deferred, evicted>>
        \/ Retain(t, m) /\ UNCHANGED delivered
    BY <1>3 DEF DeferMissing
  <2>6. UNCHANGED <<registered, arrived, user, replay, registers, lost, removed>>
    BY <1>3 DEF DeferMissing
  <2> HIDE DEF t, m
  <2>7. CASE Deliver(t, m) /\ UNCHANGED <<deferred, evicted>>
    BY <2>2, <2>3, <2>6, <2>7 DEF TypeOK, Deliver
  <2>8. CASE Retain(t, m) /\ UNCHANGED delivered
    <3>1. deferred' \in [Target -> Seq(Message)] /\ evicted' \in [Target -> SUBSET Message]
      BY <2>1, <2>4, <2>8, RetainBounded
    <3>2. QED
      BY <2>2, <2>6, <2>8, <3>1 DEF TypeOK
  <2>9. QED
    BY <2>5, <2>7, <2>8
<1>4. ASSUME NEW u \in User, NEW t \in Target, InsertCallback(u, t)
      PROVE  TypeOK'
  BY <1>4, StorageAssumption DEF TypeOK, InsertCallback, UserState
<1>5. ASSUME NEW u \in User, TakeDeferred(u)
      PROVE  TypeOK'
  <2>1. user[u].target \in Target
    BY <1>5, BusyTyped DEF TakeDeferred
  <2>2. <<>> \in Seq(Message)
    OBVIOUS
  <2>3. /\ replay' \in [User -> Seq(Message)]
        /\ deferred' \in [Target -> Seq(Message)]
    BY <1>5, <2>1, <2>2 DEF TypeOK, TakeDeferred
  <2>4. user' \in [User -> UserState]
    <3>1. user[u] \in [pc : {"inserted"}, target : Target]
      BY <1>5 DEF TypeOK, TakeDeferred, UserState
    <3>2. [user[u] EXCEPT !.pc = "replaying"] \in UserState
      BY <3>1 DEF UserState
    <3> QED
      BY <1>5, <3>2 DEF TypeOK, TakeDeferred
  <2>5. QED
    BY <1>5, <2>3, <2>4 DEF TypeOK, TakeDeferred
<1>6. ASSUME NEW u \in User, ReplayNext(u)
      PROVE  TypeOK'
  <2>1. user[u].target \in Target
    BY <1>6, BusyTyped DEF ReplayNext
  <2>2. replay[u] \in Seq(Message) /\ replay[u] # <<>>
    BY <1>6 DEF TypeOK, ReplayNext
  <2>3. Head(replay[u]) \in Message /\ Tail(replay[u]) \in Seq(Message)
    BY <2>2, QueueRest
  <2>4. delivered' \in [Target -> Seq(Message)] /\ lost' \in [Target -> SUBSET Message]
    BY <1>6, <2>1, <2>3, DispatchTyped DEF ReplayNext
  <2>5. replay' \in [User -> Seq(Message)]
    BY <1>6, <2>3 DEF TypeOK, ReplayNext
  <2>6. QED
    BY <1>6, <2>4, <2>5 DEF TypeOK, ReplayNext
<1>7. ASSUME NEW u \in User, ReplayDone(u)
      PROVE  TypeOK'
  <2>1. user[u] \in [pc : {"replaying"}, target : Target]
    BY <1>7 DEF TypeOK, ReplayDone, UserState
  <2>2. [user[u] EXCEPT !.pc = "registered"] \in UserState
    BY <2>1 DEF UserState
  <2> QED
    BY <1>7, <2>2 DEF TypeOK, ReplayDone
<1>8. ASSUME NEW u \in User, Unregister(u)
      PROVE  TypeOK'
  BY <1>8, BusyTyped DEF TypeOK, Unregister, UserState, Idle
<1>9. QED
  BY <1>1, <1>2, <1>3, <1>4, <1>5, <1>6, <1>7, <1>8 DEF Next, ReaderStep, UserStep

\* Only the reader that looked again may retain a message, and only a thread
\* that goes on to replay may add a callback.
LEMMA StrandedStep ==
    ASSUME TypeOK, LossExplained, NothingStranded, Next
    PROVE  NothingStranded'
<1>1. ASSUME NEW r \in Reader, NEW t \in Target, ReceiveInvocation(r, t)
      PROVE  NothingStranded'
  BY <1>1 DEF NothingStranded, ReceiveInvocation
<1>2. ASSUME NEW r \in Reader, UpdateFound(r)
      PROVE  NothingStranded'
  BY <1>2 DEF NothingStranded, UpdateFound
<1>3. ASSUME NEW r \in Reader, DeferMissing(r)
      PROVE  NothingStranded'
  <2> DEFINE t == reader[r].target
             m == reader[r].message
  <2>1. t \in Target /\ m \in Message
    BY <1>3, BusyTyped DEF DeferMissing
  <2>2. UNCHANGED <<registered, user>>
    BY <1>3 DEF DeferMissing
  <2>3. Len(deferred[t]) <= Capacity
    BY <2>1 DEF LossExplained
  <2>4. \/ UNCHANGED deferred
        \/ t \notin registered /\ Retain(t, m)
    BY <1>3 DEF DeferMissing
  <2> HIDE DEF t, m
  <2>5. \A x \in registered : deferred'[x] = deferred[x]
    BY <2>1, <2>3, <2>4, RetainBounded DEF TypeOK
  <2>6. QED
    BY <2>2, <2>5 DEF NothingStranded
<1>4. ASSUME NEW u \in User, NEW t \in Target, InsertCallback(u, t)
      PROVE  NothingStranded'
  <2>1. user'[u] = [pc |-> "inserted", target |-> t]
    BY <1>4 DEF TypeOK, InsertCallback
  <2>2. \A x \in User, y \in Target :
          user[x] = [pc |-> "inserted", target |-> y] => user'[x] = user[x]
    BY <1>4 DEF TypeOK, InsertCallback, Idle
  <2>3. QED
    BY <1>4, <2>1, <2>2 DEF TypeOK, NothingStranded, InsertCallback
<1>5. ASSUME NEW u \in User, TakeDeferred(u)
      PROVE  NothingStranded'
  <2>1. user[u].target \in Target
    BY <1>5, BusyTyped DEF TakeDeferred
  <2>2. deferred'[user[u].target] = <<>>
    BY <1>5, <2>1 DEF TypeOK, TakeDeferred
  <2>3. \A x \in Target \ {user[u].target} : deferred'[x] = deferred[x]
    BY <1>5 DEF TypeOK, TakeDeferred
  <2>4. \A x \in User \ {u} : user'[x] = user[x]
    BY <1>5 DEF TypeOK, TakeDeferred
  <2>5. ASSUME NEW x \in registered, x # user[u].target, deferred[x] # <<>>
        PROVE  \E w \in User : user'[w] = [pc |-> "inserted", target |-> x]
    <3>1. PICK w \in User : user[w] = [pc |-> "inserted", target |-> x]
      BY <2>5 DEF NothingStranded
    <3>2. w # u
      BY <2>5, <3>1
    <3>3. QED
      BY <2>4, <3>1, <3>2
  <2>6. UNCHANGED registered /\ registered \subseteq Target
    BY <1>5 DEF TypeOK, TakeDeferred
  <2>7. QED
    BY <2>2, <2>3, <2>5, <2>6 DEF NothingStranded
<1>6. ASSUME NEW u \in User, ReplayNext(u)
      PROVE  NothingStranded'
  BY <1>6 DEF NothingStranded, ReplayNext
<1>7. ASSUME NEW u \in User, ReplayDone(u)
      PROVE  NothingStranded'
  <2>1. \A x \in User, y \in Target :
          user[x] = [pc |-> "inserted", target |-> y] => user'[x] = user[x]
    BY <1>7 DEF TypeOK, ReplayDone
  <2>2. UNCHANGED <<registered, deferred>>
    BY <1>7 DEF ReplayDone
  <2>3. ASSUME NEW t \in registered', deferred'[t] # <<>>
        PROVE  \E x \in User : user'[x] = [pc |-> "inserted", target |-> t]
    <3>1. t \in Target /\ t \in registered /\ deferred[t] # <<>>
      BY <2>2, <2>3 DEF TypeOK
    <3>2. PICK x \in User : user[x] = [pc |-> "inserted", target |-> t]
      BY <3>1 DEF NothingStranded
    <3> QED
      BY <2>1, <3>1, <3>2
  <2>4. QED
    BY <2>3 DEF NothingStranded
<1>8. ASSUME NEW u \in User, Unregister(u)
      PROVE  NothingStranded'
  <2>1. \A x \in User, y \in Target :
          user[x] = [pc |-> "inserted", target |-> y] => user'[x] = user[x]
    BY <1>8 DEF TypeOK, Unregister
  <2>2. registered' \subseteq registered /\ deferred' = deferred
    BY <1>8 DEF Unregister
  <2>3. QED
    BY <2>1, <2>2 DEF TypeOK, NothingStranded
<1>9. QED
  BY <1>1, <1>2, <1>3, <1>4, <1>5, <1>6, <1>7, <1>8 DEF Next, ReaderStep, UserStep

\* A dispatch that finds no callback belongs to a target that was unregistered.
LEMMA DispatchExplained ==
    ASSUME TypeOK, LossExplained, NEW t \in Target, NEW m \in Message, Dispatch(t, m),
           t \in registered \cup removed, UNCHANGED <<deferred, removed>>
    PROVE  LossExplained'
<1>1. \A x \in Target \ {t} : lost'[x] = lost[x]
  BY DEF TypeOK, Dispatch
<1>2. lost'[t] # {} => t \in removed
  BY DEF TypeOK, Dispatch, LossExplained
<1>3. QED
  BY <1>1, <1>2 DEF LossExplained

(* Every step preserves LossExplained: an invocation is lost only for a target *)
(* that was unregistered, and no queue outgrows its capacity.                 *)
LEMMA LossStep ==
    ASSUME TypeOK, LossExplained, SeenCallback, Next
    PROVE  LossExplained'
<1>1. ASSUME NEW r \in Reader, NEW t \in Target, ReceiveInvocation(r, t)
      PROVE  LossExplained'
  BY <1>1 DEF LossExplained, ReceiveInvocation
<1>2. ASSUME NEW r \in Reader, UpdateFound(r)
      PROVE  LossExplained'
  <2>1. reader[r].target \in Target /\ reader[r].message \in Message
    BY <1>2, BusyTyped DEF UpdateFound
  <2>2. QED
    BY <1>2, <2>1, DispatchExplained DEF UpdateFound, SeenCallback
<1>3. ASSUME NEW r \in Reader, DeferMissing(r)
      PROVE  LossExplained'
  <2> DEFINE t == reader[r].target
             m == reader[r].message
  <2>1. t \in Target /\ m \in Message
    BY <1>3, BusyTyped DEF DeferMissing
  <2>2. Len(deferred[t]) <= Capacity
    BY <2>1 DEF LossExplained
  <2>3. UNCHANGED deferred \/ Retain(t, m)
    BY <1>3 DEF DeferMissing
  <2>4. UNCHANGED <<lost, removed>>
    BY <1>3 DEF DeferMissing
  <2> HIDE DEF t, m
  <2>5. \A x \in Target : Len(deferred'[x]) <= Capacity
    BY <2>1, <2>2, <2>3, RetainBounded DEF LossExplained
  <2>6. QED
    BY <2>4, <2>5 DEF LossExplained
<1>4. ASSUME NEW u \in User, NEW t \in Target, InsertCallback(u, t)
      PROVE  LossExplained'
  BY <1>4 DEF LossExplained, InsertCallback
<1>5. ASSUME NEW u \in User, TakeDeferred(u)
      PROVE  LossExplained'
  <2>1. Len(<<>>) = 0
    OBVIOUS
  <2>2. \A x \in Target : deferred'[x] \in {<<>>, deferred[x]}
    BY <1>5 DEF TypeOK, TakeDeferred
  <2>3. QED
    BY <1>5, <2>1, <2>2, StorageAssumption DEF LossExplained, TakeDeferred
<1>6. ASSUME NEW u \in User, ReplayNext(u)
      PROVE  LossExplained'
  <2>1. user[u].target \in Target
    BY <1>6, BusyTyped DEF ReplayNext
  <2>2. replay[u] \in Seq(Message) /\ replay[u] # <<>>
    BY <1>6 DEF TypeOK, ReplayNext
  <2>3. Head(replay[u]) \in Message
    BY <2>2, QueueRest
  <2>4. QED
    BY <1>6, <2>1, <2>3, DispatchExplained DEF ReplayNext, SeenCallback
<1>7. ASSUME NEW u \in User, ReplayDone(u)
      PROVE  LossExplained'
  BY <1>7 DEF LossExplained, ReplayDone
<1>8. ASSUME NEW u \in User, Unregister(u)
      PROVE  LossExplained'
  BY <1>8 DEF LossExplained, Unregister
<1>9. QED
  BY <1>1, <1>2, <1>3, <1>4, <1>5, <1>6, <1>7, <1>8 DEF Next, ReaderStep, UserStep

\* What was registered when looked at stays registered or becomes removed.
LEMMA SeenStep ==
    ASSUME TypeOK, SeenCallback, Next
    PROVE  SeenCallback'
<1>1. registered \cup removed \subseteq registered' \cup removed'
  BY DEF Next, ReaderStep, UserStep, ReceiveInvocation, UpdateFound, DeferMissing,
         InsertCallback, TakeDeferred, ReplayNext, ReplayDone, Unregister
<1>2. ASSUME NEW r \in Reader, reader'[r].pc = "found"
      PROVE  reader'[r].target \in registered' \cup removed'
  <2>1. CASE reader'[r] = reader[r]
    BY <1>1, <1>2, <2>1 DEF SeenCallback
  <2>2. CASE reader'[r] # reader[r]
    <3>1. PICK x \in Reader : ReaderStep(x) \/ \E t \in Target : ReceiveInvocation(x, t)
      BY <2>2 DEF Next, UserStep, InsertCallback, TakeDeferred, ReplayNext, ReplayDone, Unregister
    <3>2. ASSUME ReaderStep(x)
          PROVE  FALSE
      BY <1>2, <2>2, <3>2 DEF TypeOK, ReaderStep, UpdateFound, DeferMissing, Idle
    <3>3. ASSUME NEW t \in Target, ReceiveInvocation(x, t)
          PROVE  reader'[r].target \in registered' \cup removed'
      BY <1>2, <2>2, <3>3 DEF TypeOK, ReceiveInvocation
    <3>4. QED
      BY <3>1, <3>2, <3>3
  <2>3. QED
    BY <2>1, <2>2
<1>3. ASSUME NEW u \in User, user'[u].pc \in {"inserted", "replaying"}
      PROVE  user'[u].target \in registered' \cup removed'
  <2>1. CASE user'[u] = user[u]
    BY <1>1, <1>3, <2>1 DEF SeenCallback
  <2>2. CASE user'[u] # user[u]
    <3>1. PICK x \in User : UserStep(x) \/ Unregister(x) \/ \E t \in Target : InsertCallback(x, t)
      BY <2>2 DEF Next, ReaderStep, ReceiveInvocation, UpdateFound, DeferMissing
    <3>2. x = u
      BY <2>2, <3>1 DEF TypeOK, UserStep, InsertCallback, TakeDeferred, ReplayNext,
                        ReplayDone, Unregister
    <3>3. ASSUME UserStep(u)
          PROVE  user[u].pc = "inserted" /\ user'[u].target = user[u].target
      BY <1>3, <2>2, <3>3, BusyTyped DEF TypeOK, UserState, UserStep, TakeDeferred,
                                        ReplayNext, ReplayDone
    <3>4. ~ Unregister(u)
      BY <1>3, <2>2 DEF TypeOK, Unregister, Idle
    <3>5. ASSUME NEW t \in Target, InsertCallback(u, t)
          PROVE  user'[u].target \in registered' \cup removed'
      BY <3>5 DEF TypeOK, InsertCallback
    <3>6. QED
      BY <1>1, <3>1, <3>2, <3>3, <3>4, <3>5 DEF SeenCallback
  <2>3. QED
    BY <2>1, <2>2
<1>4. QED
  BY <1>2, <1>3 DEF SeenCallback

\* The strengthened invariant holds initially and is kept by every step.
THEOREM StorageInvariant == Spec => []StorageInv
<1>1. Init => StorageInv
  <2> SUFFICES ASSUME Init PROVE StorageInv
    OBVIOUS
  <2>1. TypeOK
    BY StorageAssumption DEF Init, TypeOK, ReaderState, UserState, Idle
  <2>2. NothingStranded /\ SeenCallback
    BY DEF Init, NothingStranded, SeenCallback, Idle
  <2>3. LossExplained
    <3>1. Len(<<>>) = 0
      OBVIOUS
    <3>2. \A t \in Target : deferred[t] = <<>> /\ lost[t] = {}
      BY DEF Init
    <3>3. \A t \in Target : Len(deferred[t]) = 0
      BY <3>1, <3>2
    <3>4. QED
      <4>1. 0 <= Capacity
        BY StorageAssumption
      <4>2. \A t \in Target : Len(deferred[t]) <= Capacity
        BY <3>3, <4>1
      <4> QED
        BY <3>2, <4>2 DEF LossExplained
  <2>4. QED
    BY <2>1, <2>2, <2>3 DEF StorageInv
<1>2. StorageInv /\ [Next]_vars => StorageInv'
  <2>1. ASSUME StorageInv, Next
        PROVE  StorageInv'
    BY <2>1, TypeStep, StrandedStep, LossStep, SeenStep DEF StorageInv
  <2>2. ASSUME StorageInv, UNCHANGED vars
        PROVE  StorageInv'
    BY <2>2 DEF vars, StorageInv, TypeOK, NothingStranded, LossExplained, SeenCallback
  <2>3. QED
    BY <2>1, <2>2
<1>3. QED
  BY <1>1, <1>2, PTL DEF Spec

\* Every variable keeps its type, for any number of targets, users and readers.
THEOREM TypeCorrect == Spec => []TypeOK
BY StorageInvariant, PTL DEF StorageInv

\* add_callback and defer_message together leave no message behind: whatever
\* is retained for a registered target, a registering thread is about to take.
THEOREM NoMessageStranded == Spec => []NothingStranded
BY StorageInvariant, PTL DEF StorageInv

\* A dispatched message fails only when an unregister overtook it, and the
\* retained queue respects deferred_message_capacity.
THEOREM LossIsExplained == Spec => []LossExplained
BY StorageInvariant, PTL DEF StorageInv
=============================================================================
