--------------------- MODULE ConnectionLifecycleProofs ---------------------
(***************************************************************************)
(* Proofs about ConnectionLifecycle for every value of its constants: the  *)
(* inductive invariant IInv, the safety properties that follow from it and *)
(* the action property HealthyConnectionKept.                              *)
(***************************************************************************)
EXTENDS ConnectionLifecycle, TLAPS

-----------------------------------------------------------------------------
(* What the elements of the data types look like.                          *)

\* A connected state names a generation.
LEMMA StateTyped ==
    ASSUME NEW s \in ConnectionState
    PROVE  /\ s.gen \in Gen \cup {0}
           /\ s.kind = "Connected" => s.gen \in Gen /\ s = Connected(s.gen)
           /\ \A g \in Gen : s = Connected(g) => s.kind = "Connected" /\ s.gen = g
BY DEF ConnectionState, Connected, NotConnected, Reconnecting

\* The three kinds of state are told apart by their kind, connections by
\* their generation.
LEMMA StatesDiffer ==
    /\ NotConnected.kind # "Connected"
    /\ Reconnecting.kind # "Connected"
    /\ \A g : Connected(g).kind = "Connected" /\ Connected(g).gen = g
BY DEF NotConnected, Reconnecting, Connected

\* An event other than Shutdown reports the loss of a generation.
LEMMA EventTyped ==
    ASSUME NEW e \in ConnectionEvent
    PROVE  /\ e.gen \in Gen \cup {0}
           /\ e # Shutdown => e.kind = "ConnectionLost" /\ e.gen \in Gen
           /\ e = Shutdown => e.kind # "ConnectionLost"
BY DEF ConnectionEvent, ConnectionLost, Shutdown

\* Posting an event keeps the channel well typed.
LEMMA PostTyped ==
    ASSUME events \in Seq(ConnectionEvent), NEW e \in ConnectionEvent, Post(e)
    PROVE  events' \in Seq(ConnectionEvent)
BY DEF Post

\* Receiving an event keeps the channel well typed.
LEMMA TailTyped ==
    ASSUME events \in Seq(ConnectionEvent), events # <<>>
    PROVE  /\ Head(events) \in ConnectionEvent
           /\ Tail(events) \in Seq(ConnectionEvent)
OBVIOUS

\* Every event of the model is in ConnectionEvent.
LEMMA EventsExist ==
    /\ Shutdown \in ConnectionEvent
    /\ \A g \in Gen : ConnectionLost(g) \in ConnectionEvent
BY DEF ConnectionEvent

\* Queueing a command keeps the command channels well typed.
LEMMA QueueTyped ==
    ASSUME NEW S, NEW f \in [Gen -> Seq(S)], NEW g \in Gen, NEW c \in S
    PROVE  [f EXCEPT ![g] = Append(@, c)] \in [Gen -> Seq(S)]
OBVIOUS

\* A new call has a fresh, typed id.
LEMMA BeginCallTyped ==
    ASSUME TypeOK, NEW h \in Handle, NEW o \in Operation,
           BeginCall(h, o)
    PROVE  /\ index' \in 0 .. MaxCalls
           /\ pending' \in SUBSET Call
           /\ key' \in [Handle -> Call \cup {0}]
           /\ op' \in [Handle -> Operation \cup {"none"}]
           /\ hpc' \in [Handle -> HandlePc]
<1>1. index + 1 \in Call /\ index' = index + 1
  BY BoundAssumption DEF BeginCall, TypeOK, Call
<1>2. "stored" \in HandlePc
  BY DEF HandlePc
<1>3. QED
  BY <1>1, <1>2, BoundAssumption DEF BeginCall, TypeOK, Call, Goto

\* Ids stay below the counter when a handle keeps its id, forgets it, or
\* takes the value the counter moves to.
LEMMA KeysBelowIndex ==
    ASSUME index \in Nat, index' \in {index, index + 1},
           \A h \in Handle : key[h] \in Nat,
           \A h \in Handle : key[h] <= index,
           \A h \in Handle : key'[h] \in {key[h], 0, index'}
    PROVE  \A h \in Handle : key'[h] <= index'
OBVIOUS

-----------------------------------------------------------------------------
\* Every step keeps the types; the steps that name a generation need the rest
\* of IInv to know that they name one.
LEMMA TypeStep ==
    ASSUME IInv, Next
    PROVE  TypeOK'
<1> USE DEF IInv, TypeOK, sharedVars, taskVars, storeVars, handleVars, monVars,
            Goto, ReturnToOwner, NextEvent
<1>1. ASSUME NEW h \in Handle, NEW new \in Handle, CloneHandle(h, new)
      PROVE  TypeOK'
  BY <1>1 DEF CloneHandle, HandlePc
<1>2. ASSUME NEW h \in Handle, NEW o \in Operation, BeginCall(h, o)
      PROVE  TypeOK'
  <2>1. UNCHANGED <<sharedVars, events, taskVars, sent, conn, monVars>>
    BY <1>2 DEF BeginCall
  <2>2. QED
    BY <1>2, <2>1, BeginCallTyped
<1>3. ASSUME NEW h \in Handle, FindConnection(h)
      PROVE  TypeOK'
  BY <1>3, StateTyped DEF FindConnection, HandlePc
<1>4. ASSUME NEW h \in Handle, QueueMessage(h)
      PROVE  TypeOK'
  <2>1. conn[h] \in Gen /\ key[h] \in Call \cup {Close}
    BY <1>4 DEF QueueMessage, GenerationsStarted, Close
  <2>2. cmds' \in [Gen -> Seq(Call \cup {Close})]
    BY <1>4, <2>1, QueueTyped DEF QueueMessage
  <2>3. QED
    BY <1>4, <2>1, <2>2 DEF QueueMessage, HandlePc
<1>5. ASSUME NEW h \in Handle, QueueFails(h)
      PROVE  TypeOK'
  BY <1>5, PostTyped, EventsExist DEF QueueFails, HandlePc, GenerationsStarted
<1>6. ASSUME NEW h \in Handle, RemoveFailedCall(h)
      PROVE  TypeOK'
  BY <1>6 DEF RemoveFailedCall, HandlePc
<1>7. ASSUME NEW h \in Handle, ReturnFromInvoke(h)
      PROVE  TypeOK'
  BY <1>7 DEF ReturnFromInvoke, HandlePc
<1>8. ASSUME NEW h \in Handle, AbandonInvoke(h)
      PROVE  TypeOK'
  BY <1>8 DEF AbandonInvoke, HandlePc
<1>9. ASSUME NEW h \in Handle, GracefulCancel(h)
      PROVE  TypeOK'
  BY <1>9 DEF GracefulCancel, HandlePc
<1>10. ASSUME NEW h \in Handle, GracefulFlag(h)
       PROVE  TypeOK'
  BY <1>10 DEF GracefulFlag, HandlePc
<1>11. ASSUME NEW h \in Handle, GracefulLook(h)
       PROVE  TypeOK'
  BY <1>11, StateTyped DEF GracefulLook, HandlePc
<1>12. ASSUME NEW h \in Handle, GracefulClose(h)
       PROVE  TypeOK'
  <2>1. conn[h] \in Gen
    BY <1>12 DEF GracefulClose, GenerationsStarted
  <2>2. cmds' \in [Gen -> Seq(Call \cup {Close})]
    <3>1. CASE UNCHANGED cmds
      BY <3>1
    <3>2. CASE cmds' = [cmds EXCEPT ![conn[h]] = Append(@, Close)]
      <4>1. Close \in Call \cup {Close}
        OBVIOUS
      <4>2. QED
        BY <3>2, <4>1, <2>1, QueueTyped
    <3>3. QED
      BY <1>12, <3>1, <3>2 DEF GracefulClose
  <2>3. QED
    BY <1>12, <2>1, <2>2 DEF GracefulClose, HandlePc
<1>13. ASSUME NEW h \in Handle, GracefulWaitEnds(h)
       PROVE  TypeOK'
  BY <1>13 DEF GracefulWaitEnds, HandlePc
<1>14. ASSUME NEW h \in Handle, AbandonGraceful(h)
       PROVE  TypeOK'
  BY <1>14 DEF AbandonGraceful, HandlePc
<1>15. ASSUME NEW h \in Handle, GracefulClear(h)
       PROVE  TypeOK'
  BY <1>15 DEF GracefulClear, HandlePc, ConnectionState
<1>16. ASSUME NEW h \in Handle, GracefulNotify(h)
       PROVE  TypeOK'
  BY <1>16, PostTyped, EventsExist DEF GracefulNotify, HandlePc
<1>17. ASSUME NEW h \in Handle, DropHandle(h)
       PROVE  TypeOK'
  BY <1>17 DEF DropHandle, HandlePc
<1>18. ASSUME NEW h \in Handle, DropFlag(h)
       PROVE  TypeOK'
  BY <1>18 DEF DropFlag, HandlePc
<1>19. ASSUME NEW h \in Handle, DropClear(h)
       PROVE  TypeOK'
  BY <1>19 DEF DropClear, HandlePc, ConnectionState
<1>20. ASSUME NEW h \in Handle, DropNotify(h)
       PROVE  TypeOK'
  BY <1>20, PostTyped, EventsExist DEF DropNotify, HandlePc
<1>21. ASSUME NEW h \in Handle, ReleaseHandle(h)
       PROVE  TypeOK'
  BY <1>21 DEF ReleaseHandle, HandlePc
<1>22. ASSUME NEW g \in Gen, WriteMessage(g)
       PROVE  TypeOK'
  BY <1>22 DEF WriteMessage, Close, Call
<1>23. ASSUME NEW g \in Gen, WriteClose(g)
       PROVE  TypeOK'
  BY <1>23 DEF WriteClose, StopWriter, TaskState
<1>24. ASSUME NEW g \in Gen, WriterFails(g)
       PROVE  TypeOK'
  BY <1>24, PostTyped, EventsExist DEF WriterFails, StopWriter, TaskState
<1>25. ASSUME NEW g \in Gen, NEW k \in Call, ReadCompletion(g, k)
       PROVE  TypeOK'
  BY <1>25 DEF ReadCompletion
<1>26. ASSUME NEW g \in Gen, ReaderEnds(g)
       PROVE  TypeOK'
  BY <1>26, PostTyped, EventsExist DEF ReaderEnds, StopReader, TaskState
<1>27. ASSUME NEW g \in Gen, AbortReader(g)
       PROVE  TypeOK'
  BY <1>27 DEF AbortReader, StopReader, TaskState
<1>28. ASSUME NEW g \in Gen, AbortWriter(g)
       PROVE  TypeOK'
  BY <1>28 DEF AbortWriter, StopWriter, TaskState
<1>29. ASSUME ReceiveEvent
       PROVE  TypeOK'
  <2>1. events' \in Seq(ConnectionEvent)
    <3>1. <<>> \in Seq(ConnectionEvent)
      OBVIOUS
    <3>2. Tail(events) \in Seq(ConnectionEvent)
      BY <1>29, TailTyped DEF ReceiveEvent
    <3>3. QED
      BY <1>29, <3>1, <3>2 DEF ReceiveEvent, StopMonitor
  <2>2. monGen' \in Gen \cup {0} /\ monPc' \in MonitorPc /\ attempt' \in Nat
    BY <1>29, TailTyped, EventTyped DEF ReceiveEvent, StopMonitor, MonitorPc
  <2>3. QED
    BY <1>29, <2>1, <2>2 DEF ReceiveEvent
<1>30. ASSUME ChannelCloses
       PROVE  TypeOK'
  BY <1>30 DEF ChannelCloses, StopMonitor, MonitorPc
<1>31. ASSUME MarkConnectionLost
       PROVE  TypeOK'
  BY <1>31 DEF MarkConnectionLost, MonitorPc, ConnectionState
<1>32. ASSUME CancelLostCalls
       PROVE  TypeOK'
  BY <1>32 DEF CancelLostCalls, MonitorPc
<1>33. ASSUME RunReconnecting
       PROVE  TypeOK'
  BY <1>33 DEF RunReconnecting, MonitorPc
<1>34. ASSUME CheckAttempts
       PROVE  TypeOK'
  BY <1>34 DEF CheckAttempts, MonitorPc, ConnectionState
<1>35. ASSUME WakeFromDelay
       PROVE  TypeOK'
  BY <1>35 DEF WakeFromDelay, MonitorPc
<1>36. ASSUME NegotiateSucceeds
       PROVE  TypeOK'
  BY <1>36, BoundAssumption DEF NegotiateSucceeds, MonitorPc, Gen
<1>37. ASSUME NegotiateFails
       PROVE  TypeOK'
  BY <1>37 DEF NegotiateFails, NextAttempt, MonitorPc
<1>38. ASSUME ConnectSucceeds
       PROVE  TypeOK'
  BY <1>38 DEF ConnectSucceeds, MonitorPc, TaskState
<1>39. ASSUME ConnectFails
       PROVE  TypeOK'
  BY <1>39 DEF ConnectFails, NextAttempt, MonitorPc
<1>40. ASSUME PublishConnection
       PROVE  TypeOK'
  BY <1>40 DEF PublishConnection, MonitorPc, ConnectionState, GenerationsStarted
<1>41. ASSUME SkipReconnected
       PROVE  TypeOK'
  BY <1>41 DEF SkipReconnected, MonitorPc
<1>42. ASSUME BeginReplay
       PROVE  TypeOK'
  BY <1>42 DEF BeginReplay, MonitorPc
<1>43. ASSUME EndReplay
       PROVE  TypeOK'
  BY <1>43 DEF EndReplay, MonitorPc, HandlePc
<1>44. ASSUME DisposeStorage
       PROVE  TypeOK'
  BY <1>44 DEF DisposeStorage
<1>45. ASSUME Terminated
       PROVE  TypeOK'
  BY <1>45 DEF Terminated, vars
<1>46. ASSUME NEW h \in Handle, InstallHandler(h)
       PROVE  TypeOK'
  BY <1>46 DEF InstallHandler, HandlePc
<1>47. ASSUME NEW h \in Handle, ReplaceHandler(h)
       PROVE  TypeOK'
  BY <1>47 DEF ReplaceHandler, HandlePc
<1>48. ASSUME NEW h \in Handle, SerializeFails(h)
       PROVE  TypeOK'
  BY <1>48 DEF SerializeFails, HandlePc
<1>49. QED
  BY <1>1, <1>2, <1>3, <1>4, <1>5, <1>6, <1>7, <1>8, <1>9, <1>10, <1>11,
     <1>12, <1>13, <1>14, <1>15, <1>16, <1>17, <1>18, <1>19, <1>20, <1>21, <1>22,
     <1>23, <1>24, <1>25, <1>26, <1>27, <1>28, <1>29, <1>30, <1>31, <1>32,
     <1>33, <1>34, <1>35, <1>36, <1>37, <1>38, <1>39, <1>40, <1>41, <1>42,
     <1>43, <1>44, <1>45, <1>46, <1>47, <1>48
     DEF Next, HandleProgress, HandleChoice, Network, TaskProgress, MonitorStep

\* The shared state refers to a connection again only when the monitor has
\* published the newest one.
LEMMA CurrentStep ==
    ASSUME IInv, Next
    PROVE  OneCurrentConnection'
<1> USE DEF IInv, TypeOK, OneCurrentConnection, sharedVars, taskVars, storeVars,
            handleVars, monVars, Goto, ReturnToOwner, NextEvent, Replacing
<1>1. ASSUME NEW h \in Handle, HandleProgress(h) \/ HandleChoice(h)
      PROVE  OneCurrentConnection'
  <2>1. UNCHANGED <<monPc, nextGen>>
    BY <1>1 DEF HandleProgress, HandleChoice, CloneHandle, InstallHandler,
      ReplaceHandler, BeginCall, FindConnection,
      QueueMessage, QueueFails, SerializeFails, RemoveFailedCall, ReturnFromInvoke, AbandonInvoke,
      GracefulCancel, GracefulFlag, GracefulLook, GracefulClose, GracefulWaitEnds, AbandonGraceful,
      GracefulClear, GracefulNotify, DropHandle, DropFlag, DropClear, DropNotify,
      ReleaseHandle
  <2>2. state' = state \/ state' = NotConnected
    BY <1>1 DEF HandleProgress, HandleChoice, CloneHandle, InstallHandler,
      ReplaceHandler, BeginCall, FindConnection,
      QueueMessage, QueueFails, SerializeFails, RemoveFailedCall, ReturnFromInvoke, AbandonInvoke,
      GracefulCancel, GracefulFlag, GracefulLook, GracefulClose, GracefulWaitEnds, AbandonGraceful,
      GracefulClear, GracefulNotify, DropHandle, DropFlag, DropClear, DropNotify,
      ReleaseHandle
  <2> QED
    BY <2>1, <2>2, StatesDiffer
<1>2. ASSUME NEW g \in Gen, Network(g) \/ TaskProgress(g)
      PROVE  OneCurrentConnection'
  BY <1>2 DEF Network, TaskProgress, WriteMessage, WriteClose, WriterFails, ReadCompletion,
      ReaderEnds, AbortReader, AbortWriter, StopReader, StopWriter
<1>3. ASSUME MarkConnectionLost
      PROVE  OneCurrentConnection'
  BY <1>3, StatesDiffer DEF MarkConnectionLost
<1>4. ASSUME CheckAttempts
      PROVE  OneCurrentConnection'
  BY <1>4, StatesDiffer DEF CheckAttempts
<1>5. ASSUME NegotiateSucceeds
      PROVE  OneCurrentConnection'
  BY <1>5, StatesDiffer DEF NegotiateSucceeds
<1>6. ASSUME PublishConnection
      PROVE  OneCurrentConnection'
  <2>1. monPc' \notin Replacing /\ nextGen' = monGen + 1
    BY <1>6 DEF PublishConnection, GenerationsStarted
  <2>2. \A g \in Gen : state' = Connected(g) => g = monGen
    <3>1. state' = Connected(monGen)
      BY <1>6 DEF PublishConnection
    <3>2. state'.gen = monGen /\ \A g \in Gen : Connected(g).gen = g
      BY <3>1, StatesDiffer
    <3> QED
      BY <3>2
  <2>3. QED
    BY <2>1, <2>2
<1>7. ASSUME MonitorStep, ~MarkConnectionLost, ~CheckAttempts, ~NegotiateSucceeds,
             ~PublishConnection
      PROVE  OneCurrentConnection'
  BY <1>7 DEF MonitorStep, ReceiveEvent, ChannelCloses, StopMonitor,
      CancelLostCalls, RunReconnecting, WakeFromDelay,
      NegotiateFails, NextAttempt, ConnectSucceeds, ConnectFails,
      SkipReconnected, BeginReplay, EndReplay
<1>8. CASE DisposeStorage \/ Terminated
  BY <1>8 DEF DisposeStorage, Terminated, vars
<1>9. QED
  BY <1>1, <1>2, <1>3, <1>4, <1>5, <1>6, <1>7, <1>8 DEF Next, HandleProgress,
                                        HandleChoice, MonitorStep

\* The counter stays above every id in use.
LEMMA FreshStep ==
    ASSUME IInv, Next
    PROVE  CallsFresh'
<1> USE DEF IInv, TypeOK, CallsFresh, sharedVars, taskVars, storeVars,
            handleVars, monVars, Goto, ReturnToOwner, NextEvent
<1>1. ASSUME NEW h \in Handle, NEW o \in Operation, BeginCall(h, o)
      PROVE  CallsFresh'
  <2>1. index \in Nat /\ index' = index + 1
    BY <1>1 DEF BeginCall
  <2>2. \A k \in Call : k \in Nat
    BY DEF Call
  <2>3. \A k \in Call : sent'[k] # 0 => k <= index'
    BY <1>1, <2>1, <2>2 DEF BeginCall
  <2>4. \A h1 \in Handle : key'[h1] <= index'
    <3>1. \A h1 \in Handle : key[h1] \in Nat
      BY <2>2
    <3>2. \A h1 \in Handle : key'[h1] \in {key[h1], 0, index'}
      BY <1>1 DEF BeginCall
    <3>3. QED
      BY <2>1, <3>1, <3>2, KeysBelowIndex
  <2>5. \A k \in pending' : k <= index'
    BY <1>1, <2>1, <2>2 DEF BeginCall
  <2>6. QED
    BY <2>3, <2>4, <2>5
<1>2. ASSUME NEW h \in Handle, QueueMessage(h)
      PROVE  CallsFresh'
  <2>1. index \in Nat /\ UNCHANGED <<index, pending>>
    BY <1>2 DEF QueueMessage
  <2>2. \A k \in Call : sent'[k] # 0 => k <= index'
    BY <1>2, <2>1 DEF QueueMessage
  <2>3. \A h1 \in Handle : key'[h1] <= index'
    <3>1. \A h1 \in Handle : key[h1] \in Nat
      BY DEF Call
    <3>2. \A h1 \in Handle : key'[h1] \in {key[h1], 0, index'}
      BY <1>2 DEF QueueMessage
    <3>3. QED
      BY <2>1, <3>1, <3>2, KeysBelowIndex
  <2>4. \A k \in pending' : k <= index'
    BY <2>1
  <2>5. QED
    BY <2>2, <2>3, <2>4
<1>3. ASSUME NEW h \in Handle, HandleProgress(h) \/ HandleChoice(h),
             \A o \in Operation : ~BeginCall(h, o), ~QueueMessage(h)
      PROVE  CallsFresh'
  <2>1. index \in Nat /\ UNCHANGED <<index, sent>> /\ pending' \subseteq pending
    BY <1>3 DEF HandleProgress, HandleChoice, CloneHandle, InstallHandler,
      ReplaceHandler, FindConnection,
      QueueFails, SerializeFails, RemoveFailedCall, ReturnFromInvoke, AbandonInvoke,
      GracefulCancel, GracefulFlag, GracefulLook, GracefulClose, GracefulWaitEnds, AbandonGraceful,
      GracefulClear, GracefulNotify, DropHandle, DropFlag, DropClear, DropNotify,
      ReleaseHandle
  <2>2. \A h1 \in Handle : key'[h1] = key[h1] \/ key'[h1] = 0
    BY <1>3 DEF HandleProgress, HandleChoice, CloneHandle, InstallHandler,
      ReplaceHandler, FindConnection,
      QueueFails, SerializeFails, RemoveFailedCall, ReturnFromInvoke, AbandonInvoke,
      GracefulCancel, GracefulFlag, GracefulLook, GracefulClose, GracefulWaitEnds, AbandonGraceful,
      GracefulClear, GracefulNotify, DropHandle, DropFlag, DropClear, DropNotify,
      ReleaseHandle
  <2>3. \A h1 \in Handle : key'[h1] <= index'
    <3>1. \A h1 \in Handle : key[h1] \in Nat
      BY DEF Call
    <3>2. \A h1 \in Handle : key'[h1] \in {key[h1], 0, index'}
      BY <2>2
    <3>3. QED
      BY <2>1, <3>1, <3>2, KeysBelowIndex
  <2>4. QED
    BY <2>1, <2>3
<1>4. ASSUME NEW g \in Gen, Network(g) \/ TaskProgress(g)
      PROVE  CallsFresh'
  BY <1>4 DEF Network, TaskProgress, WriteMessage, WriteClose, WriterFails, ReadCompletion,
      ReaderEnds, AbortReader, AbortWriter, StopReader, StopWriter
<1>5. ASSUME MonitorStep
      PROVE  CallsFresh'
  BY <1>5 DEF MonitorStep, ReceiveEvent, ChannelCloses, StopMonitor, MarkConnectionLost,
      CancelLostCalls, RunReconnecting, CheckAttempts, WakeFromDelay, NegotiateSucceeds,
      NegotiateFails, NextAttempt, ConnectSucceeds, ConnectFails, PublishConnection,
      SkipReconnected, BeginReplay, EndReplay
<1>6. CASE DisposeStorage \/ Terminated
  BY <1>6 DEF DisposeStorage, Terminated, vars
<1>7. QED
  BY <1>1, <1>2, <1>3, <1>4, <1>5, <1>6
     DEF Next, HandleProgress, HandleChoice, MonitorStep

\* A sent call keeps its cover: leaving Connected leads to the cancellation or
\* happens under the shutdown flag.
LEMMA OrphanStep ==
    ASSUME IInv, Next
    PROVE  NoOrphan'
<1> USE DEF IInv, TypeOK, NoOrphan, sharedVars, taskVars, storeVars,
            handleVars, monVars, Goto, ReturnToOwner, NextEvent
<1>1. ASSUME NEW h \in Handle, NEW o \in Operation, BeginCall(h, o)
      PROVE  NoOrphan'
  <2>1. index \in Nat /\ \A k \in Call : k \in Nat
    BY DEF Call
  <2>2. index + 1 \in Call
    BY <1>1, <2>1, BoundAssumption DEF BeginCall, Call
  <2>3. sent[index + 1] = 0
    BY <2>1, <2>2 DEF CallsFresh
  <2>4. pending' \subseteq pending \cup {index + 1}
    BY <1>1 DEF BeginCall
  <2>5. QED
    BY <1>1, <2>3, <2>4 DEF BeginCall
<1>2. ASSUME NEW h \in Handle, QueueMessage(h)
      PROVE  NoOrphan'
  BY <1>2 DEF QueueMessage, HeldCallsCovered
<1>3. ASSUME NEW h \in Handle, GracefulClear(h) \/ DropClear(h)
      PROVE  NoOrphan'
  BY <1>3, StatesDiffer DEF GracefulClear, DropClear, ClearingAnnounced
<1>4. ASSUME NEW h \in Handle, HandleProgress(h) \/ HandleChoice(h),
             \A o \in Operation : ~BeginCall(h, o), ~QueueMessage(h), ~GracefulClear(h), ~DropClear(h)
      PROVE  NoOrphan'
  BY <1>4 DEF HandleProgress, HandleChoice, CloneHandle, InstallHandler,
      ReplaceHandler, FindConnection,
      QueueFails, SerializeFails, RemoveFailedCall, ReturnFromInvoke, AbandonInvoke,
      GracefulCancel, GracefulFlag, GracefulLook, GracefulClose, GracefulWaitEnds, AbandonGraceful,
      GracefulNotify, DropHandle, DropFlag, DropNotify,
      ReleaseHandle
<1>5. ASSUME NEW g \in Gen, Network(g) \/ TaskProgress(g)
      PROVE  NoOrphan'
  BY <1>5 DEF Network, TaskProgress, WriteMessage, WriteClose, WriterFails, ReadCompletion,
      ReaderEnds, AbortReader, AbortWriter, StopReader, StopWriter
<1>6. ASSUME MarkConnectionLost
      PROVE  NoOrphan'
  BY <1>6, StatesDiffer DEF MarkConnectionLost
<1>7. ASSUME CheckAttempts
      PROVE  NoOrphan'
  BY <1>7, StatesDiffer DEF CheckAttempts, OneCurrentConnection, Replacing
<1>8. ASSUME PublishConnection
      PROVE  NoOrphan'
  BY <1>8, StatesDiffer DEF PublishConnection, OneCurrentConnection, Replacing
<1>9. ASSUME MonitorStep, ~MarkConnectionLost, ~CheckAttempts, ~PublishConnection
      PROVE  NoOrphan'
  BY <1>9 DEF MonitorStep, ReceiveEvent, ChannelCloses, StopMonitor,
      CancelLostCalls, RunReconnecting, WakeFromDelay, NegotiateSucceeds,
      NegotiateFails, NextAttempt, ConnectSucceeds, ConnectFails,
      SkipReconnected, BeginReplay, EndReplay
<1>10. CASE DisposeStorage \/ Terminated
  BY <1>10 DEF DisposeStorage, Terminated, vars
<1>11. QED
  BY <1>1, <1>2, <1>3, <1>4, <1>5, <1>6, <1>7, <1>8, <1>9, <1>10
     DEF Next, HandleProgress, HandleChoice, MonitorStep

\* A task that has ended never runs again: a generation is started once.
LEMMA EndedStays ==
    ASSUME IInv, Next
    PROVE  Ended \subseteq Ended'
<1> USE DEF IInv, TypeOK, Ended, sharedVars, taskVars, storeVars, handleVars, monVars
<1>1. ASSUME ConnectSucceeds
      PROVE  Ended \subseteq Ended'
  BY <1>1 DEF ConnectSucceeds, GenerationsStarted
<1>2. ASSUME NEW g \in Gen, Network(g) \/ TaskProgress(g)
      PROVE  Ended \subseteq Ended'
  BY <1>2 DEF Network, TaskProgress, WriteMessage, WriteClose, WriterFails, ReadCompletion,
      ReaderEnds, AbortReader, AbortWriter, StopReader, StopWriter
<1>3. ASSUME NEW h \in Handle, HandleProgress(h) \/ HandleChoice(h)
      PROVE  UNCHANGED <<reader, writer>>
  BY <1>3 DEF HandleProgress, HandleChoice, CloneHandle, InstallHandler,
      ReplaceHandler, BeginCall, FindConnection,
      QueueMessage, QueueFails, SerializeFails, RemoveFailedCall, ReturnFromInvoke, AbandonInvoke,
      GracefulCancel, GracefulFlag, GracefulLook, GracefulClose, GracefulWaitEnds, AbandonGraceful,
      GracefulClear, GracefulNotify, DropHandle, DropFlag, DropClear, DropNotify,
      ReleaseHandle
<1>4. ASSUME MonitorStep, ~ConnectSucceeds
      PROVE  UNCHANGED <<reader, writer>>
  BY <1>4 DEF MonitorStep, ReceiveEvent, ChannelCloses, StopMonitor, MarkConnectionLost,
      CancelLostCalls, RunReconnecting, CheckAttempts, WakeFromDelay, NegotiateSucceeds,
      NegotiateFails, NextAttempt, ConnectFails, PublishConnection,
      SkipReconnected, BeginReplay, EndReplay
<1>5. ASSUME DisposeStorage \/ Terminated
      PROVE  UNCHANGED <<reader, writer>>
  BY <1>5 DEF DisposeStorage, Terminated, vars
<1>6. QED
  BY <1>1, <1>2, <1>3, <1>4, <1>5 DEF Next

\* Loss reports stay true: who posts one has seen a task end, and the monitor
\* acts on a report it received.
LEMMA ReportsStep ==
    ASSUME IInv, Next
    PROVE  LossReportsTrue'
<1> USE DEF sharedVars, taskVars, storeVars, handleVars, monVars, NextEvent
<1>1. events \in Seq(ConnectionEvent)
  BY DEF IInv, TypeOK
<1>2. \A i \in 1 .. Len(events) :
         events[i].kind = "ConnectionLost" => events[i].gen \in Ended'
  BY EndedStays DEF IInv, LossReportsTrue
<1>3. monPc = "mark" => monGen \in Ended'
  BY EndedStays DEF IInv, LossReportsTrue
<1>4. ASSUME UNCHANGED events, monPc' = "mark" => (monPc = "mark" /\ UNCHANGED monGen)
      PROVE  LossReportsTrue'
  BY <1>2, <1>3, <1>4 DEF LossReportsTrue
<1>5. ASSUME NEW e \in ConnectionEvent, Post(e), UNCHANGED <<monPc, monGen>>,
             e.kind = "ConnectionLost" => e.gen \in Ended'
      PROVE  LossReportsTrue'
  <2>1. \A i \in 1 .. Len(events') :
           events'[i].kind = "ConnectionLost" => events'[i].gen \in Ended'
    <3>1. CASE events' = events
      BY <1>2, <3>1
    <3>2. CASE events' = Append(events, e)
      <4>1. Len(events') = Len(events) + 1 /\ Len(events) \in Nat
        BY <1>1, <3>2
      <4>2. \A i \in 1 .. Len(events) : events'[i] = events[i]
        BY <1>1, <3>2
      <4>3. events'[Len(events) + 1] = e
        BY <1>1, <3>2
      <4>4. \A i \in 1 .. Len(events') : i \in 1 .. Len(events) \/ i = Len(events) + 1
        BY <4>1
      <4>5. QED
        BY <1>2, <1>5, <4>2, <4>3, <4>4
    <3>3. QED
      BY <1>5, <3>1, <3>2 DEF Post
  <2>2. QED
    BY <1>3, <1>5, <2>1 DEF LossReportsTrue
<1>6. ASSUME NEW h \in Handle, QueueFails(h)
      PROVE  LossReportsTrue'
  <2>1. conn[h] \in Gen /\ writer[conn[h]] = "stopped"
    BY <1>6 DEF QueueFails, IInv, TypeOK, TaskState, GenerationsStarted
  <2>2. PICK g \in Gen : g = conn[h] /\ Post(ConnectionLost(g))
    BY <1>6, <2>1 DEF QueueFails
  <2>3. g \in Ended'
    BY <1>6, <2>1, <2>2 DEF QueueFails, Ended, taskVars
  <2>4. UNCHANGED <<monPc, monGen>>
    BY <1>6 DEF QueueFails
  <2>5. QED
    BY <1>5, <2>2, <2>3, <2>4, EventsExist DEF ConnectionLost
<1>7. ASSUME NEW h \in Handle, GracefulNotify(h) \/ DropNotify(h)
      PROVE  LossReportsTrue'
  BY <1>5, <1>7, EventsExist DEF GracefulNotify, DropNotify, Shutdown
<1>8. ASSUME NEW g \in Gen, WriterFails(g) \/ ReaderEnds(g)
      PROVE  LossReportsTrue'
  <2>1. g \in Ended'
    BY <1>8 DEF WriterFails, ReaderEnds, StopWriter, StopReader, Ended, IInv, TypeOK
  <2>2. QED
    BY <1>5, <1>8, <2>1, EventsExist DEF WriterFails, ReaderEnds, ConnectionLost
<1>9. ASSUME ReceiveEvent
      PROVE  LossReportsTrue'
  <2>1. events # <<>> /\ UNCHANGED <<reader, writer>>
    BY <1>9 DEF ReceiveEvent
  <2>2. CASE StopMonitor
    BY <2>2 DEF StopMonitor, LossReportsTrue
  <2>3. CASE /\ Head(events) # Shutdown
             /\ monPc' = "mark"
             /\ monGen' = Head(events).gen
             /\ events' = Tail(events)
    <3>1. Head(events) = events[1] /\ 1 \in 1 .. Len(events)
      BY <1>1, <2>1
    <3>2. monGen' \in Ended'
      BY <1>1, <1>2, <2>1, <2>3, <3>1, EventTyped, TailTyped
    <3>3. \A i \in 1 .. Len(events') : events'[i] = events[i + 1] /\ i + 1 \in 1 .. Len(events)
      BY <1>1, <2>1, <2>3
    <3>4. QED
      BY <1>2, <3>2, <3>3 DEF LossReportsTrue
  <2>4. QED
    BY <1>9, <2>2, <2>3 DEF ReceiveEvent
<1>10. ASSUME NEW h \in Handle, HandleProgress(h) \/ HandleChoice(h),
              ~QueueFails(h), ~GracefulNotify(h), ~DropNotify(h)
       PROVE  UNCHANGED <<events, monPc, monGen>>
  BY <1>10 DEF HandleProgress, HandleChoice, CloneHandle, InstallHandler,
      ReplaceHandler, BeginCall, FindConnection,
      QueueMessage, SerializeFails, RemoveFailedCall, ReturnFromInvoke, AbandonInvoke,
      GracefulCancel, GracefulFlag, GracefulLook, GracefulClose, GracefulWaitEnds, AbandonGraceful,
      GracefulClear, DropHandle, DropFlag, DropClear,
      ReleaseHandle
<1>11. ASSUME NEW g \in Gen, Network(g) \/ TaskProgress(g), ~WriterFails(g), ~ReaderEnds(g)
       PROVE  UNCHANGED <<events, monPc, monGen>>
  BY <1>11 DEF Network, TaskProgress, WriteMessage, WriteClose, ReadCompletion,
      AbortReader, AbortWriter, StopReader, StopWriter
<1>12. ASSUME MonitorStep, ~ReceiveEvent
       PROVE  LossReportsTrue'
  <2>1. CASE ChannelCloses
    BY <2>1 DEF ChannelCloses, StopMonitor, LossReportsTrue
  <2>2. CASE ~ChannelCloses
    <3>1. UNCHANGED events /\ monPc' # "mark"
      BY <1>12, <2>2 DEF MonitorStep, MarkConnectionLost,
      CancelLostCalls, RunReconnecting, CheckAttempts, WakeFromDelay, NegotiateSucceeds,
      NegotiateFails, NextAttempt, ConnectSucceeds, ConnectFails, PublishConnection,
      SkipReconnected, BeginReplay, EndReplay
    <3>2. QED
      BY <1>4, <3>1
  <2>3. QED
    BY <2>1, <2>2
<1>13. ASSUME DisposeStorage \/ Terminated
       PROVE  UNCHANGED <<events, monPc, monGen>>
  BY <1>13 DEF DisposeStorage, Terminated, vars
<1>14. QED
  <2>1. CASE UNCHANGED <<events, monPc, monGen>>
    BY <1>4, <2>1
  <2>2. QED
    BY <1>6, <1>7, <1>8, <1>9, <1>10, <1>11, <1>12, <1>13, <2>1 DEF Next

\* Whoever refers to a connection refers to one whose tasks were started.
LEMMA StartedStep ==
    ASSUME IInv, Next
    PROVE  GenerationsStarted'
<1> USE DEF IInv, TypeOK, GenerationsStarted, sharedVars, taskVars, storeVars,
            handleVars, monVars, Goto, ReturnToOwner, NextEvent
<1>1. ASSUME NEW h \in Handle, HandleProgress(h) \/ HandleChoice(h)
      PROVE  GenerationsStarted'
  <2>1. UNCHANGED <<reader, writer, nextGen, monPc, monGen>>
    BY <1>1 DEF HandleProgress, HandleChoice, CloneHandle, InstallHandler,
      ReplaceHandler, BeginCall, FindConnection,
      QueueMessage, QueueFails, SerializeFails, RemoveFailedCall, ReturnFromInvoke, AbandonInvoke,
      GracefulCancel, GracefulFlag, GracefulLook, GracefulClose, GracefulWaitEnds, AbandonGraceful,
      GracefulClear, GracefulNotify, DropHandle, DropFlag, DropClear, DropNotify,
      ReleaseHandle
  <2>2. state' = state \/ state' = NotConnected
    BY <1>1 DEF HandleProgress, HandleChoice, CloneHandle, InstallHandler,
      ReplaceHandler, BeginCall, FindConnection,
      QueueMessage, QueueFails, SerializeFails, RemoveFailedCall, ReturnFromInvoke, AbandonInvoke,
      GracefulCancel, GracefulFlag, GracefulLook, GracefulClose, GracefulWaitEnds, AbandonGraceful,
      GracefulClear, GracefulNotify, DropHandle, DropFlag, DropClear, DropNotify,
      ReleaseHandle
  <2>3. \A g \in Gen : state' = Connected(g) => writer[g] # "unused"
    BY <2>2, StatesDiffer
  <2>4. ASSUME NEW h1 \in Handle, hpc'[h1] \in {"holding", "gracefulClose"}
        PROVE  conn'[h1] \in Gen /\ writer[conn'[h1]] # "unused"
    <3>1. CASE h1 = h /\ (FindConnection(h) \/ GracefulLook(h))
      <4>1. conn'[h1] = state.gen /\ state.kind = "Connected"
        BY <2>4, <3>1 DEF FindConnection, GracefulLook
      <4>2. QED
        BY <4>1, StateTyped
    <3>2. CASE ~(h1 = h /\ (FindConnection(h) \/ GracefulLook(h)))
      <4>1. conn'[h1] = conn[h1] /\ hpc[h1] \in {"holding", "gracefulClose"}
        <5>1. CASE h1 # h
          <6>1. conn'[h1] = conn[h1] /\ (hpc'[h1] = hpc[h1] \/ hpc'[h1] \in {"idle", "gone"})
            BY <1>1, <5>1 DEF HandleProgress, HandleChoice, CloneHandle, InstallHandler,
      ReplaceHandler, BeginCall, FindConnection,
      QueueMessage, QueueFails, SerializeFails, RemoveFailedCall, ReturnFromInvoke, AbandonInvoke,
      GracefulCancel, GracefulFlag, GracefulLook, GracefulClose, GracefulWaitEnds, AbandonGraceful,
      GracefulClear, GracefulNotify, DropHandle, DropFlag, DropClear, DropNotify,
      ReleaseHandle
          <6> QED
            BY <2>4, <6>1
        <5>2. CASE h1 = h /\ ~(FindConnection(h) \/ GracefulLook(h))
          <6>1. CASE HandleProgress(h)
            BY <2>4, <5>2, <6>1 DEF HandleProgress,
      QueueMessage, QueueFails, SerializeFails, RemoveFailedCall, ReturnFromInvoke,
      GracefulFlag, GracefulClose, GracefulWaitEnds,
      GracefulClear, GracefulNotify, DropHandle, DropFlag, DropClear, DropNotify,
      ReleaseHandle
          <6>2. CASE HandleChoice(h)
            BY <2>4, <5>2, <6>2 DEF HandleChoice, CloneHandle, InstallHandler,
      ReplaceHandler, BeginCall, AbandonInvoke, GracefulCancel, AbandonGraceful, DropHandle, Free
          <6> QED
            BY <1>1, <6>1, <6>2
        <5> QED
          BY <3>2, <5>1, <5>2
      <4>2. QED
        BY <4>1
    <3>3. QED
      BY <3>1, <3>2
  <2>5. QED
    BY <2>1, <2>3, <2>4
<1>2. ASSUME NEW f \in Gen, Network(f) \/ TaskProgress(f)
      PROVE  GenerationsStarted'
  BY <1>2 DEF Network, TaskProgress, WriteMessage, WriteClose, WriterFails, ReadCompletion,
      ReaderEnds, AbortReader, AbortWriter, StopReader, StopWriter, TaskState
<1>3. ASSUME MarkConnectionLost \/ CheckAttempts
      PROVE  GenerationsStarted'
  BY <1>3, StatesDiffer DEF MarkConnectionLost, CheckAttempts
<1>4. ASSUME NegotiateSucceeds
      PROVE  GenerationsStarted'
  BY <1>4, BoundAssumption DEF NegotiateSucceeds, Gen
<1>5. ASSUME ConnectSucceeds
      PROVE  GenerationsStarted'
  BY <1>5 DEF ConnectSucceeds, Gen
<1>6. ASSUME PublishConnection
      PROVE  GenerationsStarted'
  <2>1. \A g \in Gen : state' = Connected(g) => g = monGen
    BY <1>6 DEF PublishConnection, Connected
  <2>2. QED
    BY <1>6, <2>1 DEF PublishConnection
<1>7. ASSUME MonitorStep, ~MarkConnectionLost, ~CheckAttempts,
             ~NegotiateSucceeds, ~ConnectSucceeds, ~PublishConnection
      PROVE  GenerationsStarted'
  BY <1>7, HandleAssumption DEF MonitorStep, ReceiveEvent, ChannelCloses, StopMonitor,
      CancelLostCalls, RunReconnecting, WakeFromDelay,
      NegotiateFails, NextAttempt, ConnectFails,
      SkipReconnected, BeginReplay, EndReplay
<1>8. CASE DisposeStorage \/ Terminated
  BY <1>8 DEF DisposeStorage, Terminated, vars
<1>9. QED
  BY <1>1, <1>2, <1>3, <1>4, <1>5, <1>6, <1>7, <1>8 DEF Next, HandleProgress,
                                        HandleChoice, MonitorStep

\* A call that found its connection keeps its cover until it is sent.
LEMMA HeldStep ==
    ASSUME IInv, Next
    PROVE  HeldCallsCovered'
<1> USE DEF IInv, TypeOK, HeldCallsCovered, sharedVars, taskVars, storeVars,
            handleVars, monVars, Goto, ReturnToOwner, NextEvent, GenerationsStarted,
            OneCurrentConnection,
            Replacing, CallsFresh, ClearingAnnounced
<1>1. ASSUME NEW h \in Handle, HandleProgress(h) \/ HandleChoice(h)
      PROVE  HeldCallsCovered'
  <2>1. ASSUME NEW o \in Operation, BeginCall(h, o)
        PROVE  HeldCallsCovered'
    <3>1. index \in Nat /\ \A k \in Call : k \in Nat
      BY DEF Call
    <3>2. \A h1 \in Handle : key[h1] # index + 1
      BY <3>1
    <3>3. \A h1 \in Handle : hpc'[h1] = "holding" => hpc[h1] = "holding" /\ key'[h1] = key[h1]
      BY <2>1 DEF BeginCall
    <3>4. \A k \in pending' : k # index + 1 => k \in pending
      BY <2>1 DEF BeginCall
    <3>5. UNCHANGED <<state, shutdown, monPc, conn>>
      BY <2>1 DEF BeginCall
    <3>6. QED
      BY <3>2, <3>3, <3>4, <3>5
  <2>2. CASE GracefulClear(h) \/ DropClear(h)
    BY <2>2, StatesDiffer DEF GracefulClear, DropClear
  <2>3. CASE FindConnection(h)
    BY <2>3, StateTyped, StatesDiffer DEF FindConnection
  <2>4. CASE InstallHandler(h) \/ ReplaceHandler(h)
    BY <2>4 DEF InstallHandler, ReplaceHandler
  <2>5. ASSUME \A o \in Operation : ~BeginCall(h, o), ~GracefulClear(h), ~DropClear(h),
               ~FindConnection(h), ~InstallHandler(h), ~ReplaceHandler(h)
        PROVE  HeldCallsCovered'
    BY <1>1, <2>5 DEF HandleProgress, HandleChoice, CloneHandle,
      QueueMessage, QueueFails, SerializeFails, RemoveFailedCall, ReturnFromInvoke, AbandonInvoke,
      GracefulCancel, GracefulFlag, GracefulLook, GracefulClose, GracefulWaitEnds, AbandonGraceful,
      GracefulNotify, DropHandle, DropFlag, DropNotify, ReleaseHandle
  <2>6. QED
    BY <2>1, <2>2, <2>3, <2>4, <2>5
<1>2. ASSUME NEW g \in Gen, Network(g) \/ TaskProgress(g)
      PROVE  HeldCallsCovered'
  BY <1>2, StateTyped, StatesDiffer DEF Network, TaskProgress, WriteMessage,
                                        WriteClose, WriterFails, ReadCompletion,
      ReaderEnds, AbortReader, AbortWriter, StopReader, StopWriter
<1>3. ASSUME MonitorStep
      PROVE  HeldCallsCovered'
  BY <1>3, StateTyped, StatesDiffer DEF MonitorStep, ReceiveEvent, ChannelCloses,
                                        StopMonitor, MarkConnectionLost,
      CancelLostCalls, RunReconnecting, CheckAttempts, WakeFromDelay, NegotiateSucceeds,
      NegotiateFails, NextAttempt, ConnectSucceeds, ConnectFails, PublishConnection,
      SkipReconnected, BeginReplay, EndReplay
<1>4. CASE DisposeStorage \/ Terminated
  BY <1>4 DEF DisposeStorage, Terminated, vars
<1>5. QED
  BY <1>1, <1>2, <1>3, <1>4 DEF Next

\* Clearing the shared state is announced by the flag: the flag is set one
\* step before a handle enters the region, and is never reset.
LEMMA ClearingStep ==
    ASSUME IInv, Next
    PROVE  ClearingAnnounced'
<1> USE DEF IInv, TypeOK, ClearingAnnounced, sharedVars, taskVars, storeVars,
            handleVars, monVars, Goto, ReturnToOwner, NextEvent
<1>1. ASSUME NEW h \in Handle, HandleProgress(h) \/ HandleChoice(h)
      PROVE  ClearingAnnounced'
  BY <1>1 DEF HandleProgress, HandleChoice, CloneHandle, InstallHandler,
      ReplaceHandler, BeginCall, FindConnection,
      QueueMessage, QueueFails, SerializeFails, RemoveFailedCall, ReturnFromInvoke, AbandonInvoke,
      GracefulCancel, GracefulFlag, GracefulLook, GracefulClose, GracefulWaitEnds, AbandonGraceful,
      GracefulClear, GracefulNotify, DropHandle, DropFlag, DropClear, DropNotify,
      ReleaseHandle
<1>2. ASSUME NEW g \in Gen, Network(g) \/ TaskProgress(g)
      PROVE  ClearingAnnounced'
  BY <1>2 DEF Network, TaskProgress, WriteMessage, WriteClose, WriterFails, ReadCompletion,
      ReaderEnds, AbortReader, AbortWriter
<1>3. ASSUME MonitorStep
      PROVE  ClearingAnnounced'
  BY <1>3 DEF MonitorStep, ReceiveEvent, ChannelCloses, StopMonitor, MarkConnectionLost,
      CancelLostCalls, RunReconnecting, CheckAttempts, WakeFromDelay, NegotiateSucceeds,
      NegotiateFails, NextAttempt, ConnectSucceeds, ConnectFails, PublishConnection,
      SkipReconnected, BeginReplay, EndReplay
<1>4. CASE DisposeStorage \/ Terminated
  BY <1>4 DEF DisposeStorage, Terminated, vars
<1>5. QED
  BY <1>1, <1>2, <1>3, <1>4 DEF Next

\* A shared client that was dropped does not come back, and a flag is not reset.
LEMMA EndsAreFinal ==
    ASSUME IInv, Next
    PROVE  /\ SharedAlive' => SharedAlive
           /\ shutdown => shutdown'
<1> USE DEF sharedVars, taskVars, storeVars, handleVars, monVars, Goto, ReturnToOwner, NextEvent
<1>1. ASSUME NEW h \in Handle, HandleProgress(h) \/ HandleChoice(h)
      PROVE  Alive(h) /\ (shutdown => shutdown')
  BY <1>1 DEF Alive, Free, HandleProgress, HandleChoice, CloneHandle, InstallHandler,
      ReplaceHandler, BeginCall, FindConnection,
      QueueMessage, QueueFails, SerializeFails, RemoveFailedCall, ReturnFromInvoke, AbandonInvoke,
      GracefulCancel, GracefulFlag, GracefulLook, GracefulClose, GracefulWaitEnds, AbandonGraceful,
      GracefulClear, GracefulNotify, DropHandle, DropFlag, DropClear, DropNotify,
      ReleaseHandle
<1>2. ASSUME NEW g \in Gen, Network(g) \/ TaskProgress(g)
      PROVE  UNCHANGED <<hpc, monPc, shutdown>>
  BY <1>2 DEF Network, TaskProgress, WriteMessage, WriteClose, WriterFails, ReadCompletion,
      ReaderEnds, AbortReader, AbortWriter, StopReader, StopWriter
<1>3. ASSUME MonitorStep
      PROVE  /\ MonitorHolds \/ SharedAlive \/ (monPc' = "stopped" /\ UNCHANGED hpc)
             /\ UNCHANGED shutdown
  BY <1>3 DEF MonitorHolds, MonitorStep, ReceiveEvent, ChannelCloses, StopMonitor, MarkConnectionLost,
      CancelLostCalls, RunReconnecting, CheckAttempts, WakeFromDelay, NegotiateSucceeds,
      NegotiateFails, NextAttempt, ConnectSucceeds, ConnectFails, PublishConnection,
      SkipReconnected, BeginReplay, EndReplay
<1>4. CASE DisposeStorage \/ Terminated
  BY <1>4 DEF DisposeStorage, Terminated, vars, SharedAlive, MonitorHolds, Alive
<1>5. CASE \E h \in Handle : HandleProgress(h) \/ HandleChoice(h)
  BY <1>1, <1>5 DEF SharedAlive
<1>6. CASE \E g \in Gen : Network(g) \/ TaskProgress(g)
  BY <1>2, <1>6 DEF SharedAlive, MonitorHolds, Alive
<1>7. CASE MonitorStep
  BY <1>3, <1>7 DEF SharedAlive, MonitorHolds, Alive
<1>8. QED
  BY <1>4, <1>5, <1>6, <1>7 DEF Next

\* A posted event is in the channel behind those that were there.
LEMMA PostedLast ==
    ASSUME events \in Seq(ConnectionEvent), NEW e \in ConnectionEvent, Post(e)
    PROVE  /\ \A j \in DOMAIN events' : (\E i \in DOMAIN events : events'[j] = events[i])
                                         \/ events'[j] = e
           /\ \A i \in DOMAIN events : i \in DOMAIN events' /\ events'[i] = events[i]
           /\ monPc # "stopped" => \E j \in DOMAIN events' : events'[j] = e
<1>1. CASE monPc = "stopped"
  BY <1>1 DEF Post
<1>2. CASE monPc # "stopped"
  <2>1. events' = Append(events, e)
    BY <1>2 DEF Post
  <2>2. Len(events) \in Nat /\ DOMAIN events = 1 .. Len(events)
    OBVIOUS
  <2>3. DOMAIN events' = 1 .. Len(events) + 1
    BY <2>1
  <2>4. events'[Len(events) + 1] = e /\ \A i \in 1 .. Len(events) : events'[i] = events[i]
    BY <2>1
  <2>5. \A j \in 1 .. Len(events) + 1 : j \in 1 .. Len(events) \/ j = Len(events) + 1
    BY <2>2
  <2>6. Len(events) + 1 \in 1 .. Len(events) + 1
    BY <2>2
  <2>7. \A i \in 1 .. Len(events) : i \in 1 .. Len(events) + 1
    BY <2>2
  <2> QED
    BY <2>2, <2>3, <2>4, <2>5, <2>6, <2>7
<1>3. QED
  BY <1>1, <1>2

\* What is behind the head of a sequence.
LEMMA AfterHead ==
    ASSUME NEW S, NEW s \in Seq(S), s # <<>>
    PROVE  \A i \in DOMAIN Tail(s) : i + 1 \in DOMAIN s /\ Tail(s)[i] = s[i + 1]
OBVIOUS

\* The events that are left after one was received.
LEMMA EventsAfterOne ==
    ASSUME events \in Seq(ConnectionEvent), events # <<>>, events' = Tail(events)
    PROVE  /\ \A j \in DOMAIN events' : \E i \in DOMAIN events : events'[j] = events[i]
           /\ \A i \in DOMAIN events : \/ events[i] = Head(events)
                                        \/ \E j \in DOMAIN events' : events'[j] = events[i]
<1>1. Len(events) \in Nat /\ DOMAIN events = 1 .. Len(events) /\ Head(events) = events[1]
  OBVIOUS
<1>2. /\ DOMAIN events' = 1 .. Len(events) - 1
      /\ \A j \in 1 .. Len(events) - 1 : events'[j] = events[j + 1]
  OBVIOUS
<1>3. \A j \in 1 .. Len(events) - 1 : j + 1 \in 1 .. Len(events)
  BY <1>1
<1>4. ASSUME NEW i \in 1 .. Len(events), i # 1
      PROVE  \E j \in 1 .. Len(events) - 1 : events'[j] = events[i]
  <2>1. i - 1 \in 1 .. Len(events) - 1 /\ (i - 1) + 1 = i
    BY <1>1, <1>4
  <2>2. events'[i - 1] = events[(i - 1) + 1]
    BY <1>2, <2>1
  <2> QED
    BY <2>1, <2>2
<1>5. \A j \in DOMAIN events' : \E i \in DOMAIN events : events'[j] = events[i]
  BY <1>1, <1>2, <1>3
<1>6. QED
  BY <1>1, <1>2, <1>4, <1>5

\* The channel changes by an event that is posted, or by one that is received;
\* it is emptied only when the monitor stops.
LEMMA ChannelSteps ==
    ASSUME IInv, Next
    PROVE  \/ UNCHANGED <<events, monPc, monGen>>
           \/ \E h \in Handle : QueueFails(h)
           \/ \E h \in Handle : GracefulNotify(h) \/ DropNotify(h)
           \/ \E g \in Gen : WriterFails(g) \/ ReaderEnds(g)
           \/ ReceiveEvent
           \/ ChannelCloses
           \/ MonitorStep /\ UNCHANGED events /\ monPc # "recv" /\ monPc' # "stopped"
<1> USE DEF sharedVars, taskVars, storeVars, handleVars, monVars, Goto, ReturnToOwner, NextEvent
<1>1. ASSUME NEW h \in Handle, HandleProgress(h) \/ HandleChoice(h),
             ~QueueFails(h), ~GracefulNotify(h), ~DropNotify(h)
      PROVE  UNCHANGED <<events, monPc, monGen>>
  BY <1>1 DEF HandleProgress, HandleChoice, CloneHandle, InstallHandler,
      ReplaceHandler, BeginCall, FindConnection,
      QueueMessage, SerializeFails, RemoveFailedCall, ReturnFromInvoke, AbandonInvoke,
      GracefulCancel, GracefulFlag, GracefulLook, GracefulClose, GracefulWaitEnds, AbandonGraceful,
      GracefulClear, DropHandle, DropFlag, DropClear, ReleaseHandle
<1>2. ASSUME NEW g \in Gen, Network(g) \/ TaskProgress(g), ~WriterFails(g), ~ReaderEnds(g)
      PROVE  UNCHANGED <<events, monPc, monGen>>
  BY <1>2 DEF Network, TaskProgress, WriteMessage, WriteClose, ReadCompletion,
      AbortReader, AbortWriter, StopReader, StopWriter
<1>3. ASSUME MonitorStep, ~ReceiveEvent, ~ChannelCloses
      PROVE  UNCHANGED events /\ monPc # "recv" /\ monPc' # "stopped"
  BY <1>3 DEF MonitorStep, MarkConnectionLost,
      CancelLostCalls, RunReconnecting, CheckAttempts, WakeFromDelay, NegotiateSucceeds,
      NegotiateFails, NextAttempt, ConnectSucceeds, ConnectFails, PublishConnection,
      SkipReconnected, BeginReplay, EndReplay
<1>4. ASSUME DisposeStorage \/ Terminated
      PROVE  UNCHANGED <<events, monPc, monGen>>
  BY <1>4 DEF DisposeStorage, Terminated, vars
<1>5. QED
  BY <1>1, <1>2, <1>3, <1>4 DEF Next

\* Nothing that ends a task or the monitor is sent unannounced.
LEMMA EndsStep ==
    ASSUME IInv, Next
    PROVE  EndsAnnounced'
<1> USE DEF sharedVars, taskVars, storeVars, handleVars, monVars, Goto, ReturnToOwner, NextEvent
<1>1. events \in Seq(ConnectionEvent) /\ cmds \in [Gen -> Seq(Call \cup {Close})]
  BY DEF IInv, TypeOK
<1>2. shutdown => shutdown'
  BY EndsAreFinal
<1>3. \A g \in Gen : \A i \in DOMAIN cmds'[g] : cmds'[g][i] = Close => shutdown'
  <2>1. \A g \in Gen : \A i \in DOMAIN cmds[g] : cmds[g][i] = Close => shutdown'
    BY <1>2 DEF IInv, EndsAnnounced
  <2>2. ASSUME NEW g \in Gen, NEW c \in Call \cup {Close},
               cmds' = [cmds EXCEPT ![g] = Append(@, c)], c = Close => shutdown'
        PROVE  \A f \in Gen : \A i \in DOMAIN cmds'[f] : cmds'[f][i] = Close => shutdown'
    <3> SUFFICES ASSUME NEW f \in Gen, NEW i \in DOMAIN cmds'[f], cmds'[f][i] = Close
                 PROVE  shutdown'
      OBVIOUS
    <3>1. CASE f # g
      BY <1>1, <2>1, <2>2, <3>1
    <3>2. CASE f = g
      <4>1. cmds[g] \in Seq(Call \cup {Close}) /\ cmds'[g] = Append(cmds[g], c)
        BY <1>1, <2>2
      <4>2. i \in 1 .. Len(cmds[g]) + 1 /\ Len(cmds[g]) \in Nat
        BY <3>2, <4>1
      <4>3. CASE i = Len(cmds[g]) + 1
        BY <2>2, <3>2, <4>1, <4>3
      <4>4. CASE i \in 1 .. Len(cmds[g])
        BY <2>1, <3>2, <4>1, <4>4
      <4>5. QED
        BY <4>2, <4>3, <4>4
    <3>3. QED
      BY <3>1, <3>2
  <2>3. ASSUME NEW h \in Handle, QueueMessage(h)
        PROVE  \A f \in Gen : \A i \in DOMAIN cmds'[f] : cmds'[f][i] = Close => shutdown'
    <3>1. conn[h] \in Gen /\ key[h] \in Call /\ key[h] # Close
      BY <2>3 DEF QueueMessage, IInv, TypeOK, GenerationsStarted, EndsAnnounced, Close
    <3>2. PICK g \in Gen, c \in Call \cup {Close} :
              c # Close /\ cmds' = [cmds EXCEPT ![g] = Append(@, c)]
      BY <2>3, <3>1 DEF QueueMessage
    <3>3. QED
      BY <2>2, <3>2
  <2>4. ASSUME NEW h \in Handle, GracefulClose(h)
        PROVE  \A f \in Gen : \A i \in DOMAIN cmds'[f] : cmds'[f][i] = Close => shutdown'
    <3>1. conn[h] \in Gen /\ shutdown
      BY <2>4 DEF GracefulClose, IInv, GenerationsStarted, ClearingAnnounced
    <3>2. shutdown'
      BY <1>2, <3>1
    <3>3. QED
      BY <3>2
  <2>5. ASSUME NEW g \in Gen, WriteMessage(g)
        PROVE  \A f \in Gen : \A i \in DOMAIN cmds'[f] : cmds'[f][i] = Close => shutdown'
    <3>1. /\ cmds[g] \in Seq(Call \cup {Close}) /\ cmds[g] # <<>>
          /\ cmds' = [cmds EXCEPT ![g] = Tail(@)]
      BY <1>1, <2>5 DEF WriteMessage
    <3>2. \A f \in Gen : f # g => cmds'[f] = cmds[f]
      BY <1>1, <3>1
    <3>3. cmds'[g] = Tail(cmds[g])
      BY <1>1, <3>1
    <3>4. \A i \in DOMAIN cmds'[g] : i + 1 \in DOMAIN cmds[g] /\ cmds'[g][i] = cmds[g][i + 1]
      <4>1. PICK s \in Seq(Call \cup {Close}) : s # <<>> /\ s = cmds[g]
        BY <3>1
      <4>2. \A i \in DOMAIN Tail(s) : i + 1 \in DOMAIN s /\ Tail(s)[i] = s[i + 1]
        BY <4>1, AfterHead
      <4>3. QED
        BY <3>3, <4>1, <4>2
    <3>5. QED
      BY <2>1, <3>2, <3>4
  <2>6. ASSUME NEW g \in Gen, WriteClose(g) \/ WriterFails(g) \/ AbortWriter(g)
        PROVE  \A f \in Gen : \A i \in DOMAIN cmds'[f] : cmds'[f][i] = Close => shutdown'
    <3>1. cmds' = [cmds EXCEPT ![g] = <<>>]
      BY <2>6 DEF WriteClose, WriterFails, AbortWriter, StopWriter
    <3>2. QED
      BY <1>1, <2>1, <3>1
  <2>7. ASSUME NEW h \in Handle, HandleProgress(h) \/ HandleChoice(h),
               ~QueueMessage(h), ~GracefulClose(h)
        PROVE  UNCHANGED cmds
    BY <2>7 DEF HandleProgress, HandleChoice, CloneHandle, InstallHandler,
      ReplaceHandler, BeginCall, FindConnection,
      QueueFails, SerializeFails, RemoveFailedCall, ReturnFromInvoke, AbandonInvoke,
      GracefulCancel, GracefulFlag, GracefulLook, GracefulWaitEnds, AbandonGraceful,
      GracefulClear, GracefulNotify, DropHandle, DropFlag, DropClear, DropNotify,
      ReleaseHandle
  <2>8. ASSUME NEW g \in Gen, Network(g) \/ TaskProgress(g),
               ~WriteMessage(g), ~WriteClose(g), ~WriterFails(g), ~AbortWriter(g)
        PROVE  UNCHANGED cmds
    BY <2>8 DEF Network, TaskProgress, ReadCompletion, ReaderEnds, AbortReader, StopReader
  <2>9. ASSUME MonitorStep
        PROVE  UNCHANGED cmds
    BY <2>9 DEF MonitorStep, ReceiveEvent, ChannelCloses, StopMonitor, MarkConnectionLost,
      CancelLostCalls, RunReconnecting, CheckAttempts, WakeFromDelay, NegotiateSucceeds,
      NegotiateFails, NextAttempt, ConnectSucceeds, ConnectFails, PublishConnection,
      SkipReconnected, BeginReplay, EndReplay
  <2>10. ASSUME DisposeStorage \/ Terminated
         PROVE  UNCHANGED cmds
    BY <2>10 DEF DisposeStorage, Terminated, vars
  <2>11. CASE UNCHANGED cmds
    BY <2>1, <2>11
  <2>12. QED
    BY <2>3, <2>4, <2>5, <2>6, <2>7, <2>8, <2>9, <2>10, <2>11 DEF Next
<1>4. \A h \in Handle : hpc'[h] \in {"stored", "holding"} => key'[h] # 0
  <2> USE DEF IInv, TypeOK, EndsAnnounced
  <2>1. ASSUME NEW h \in Handle, HandleProgress(h) \/ HandleChoice(h)
        PROVE  \A n \in Handle : hpc'[n] \in {"stored", "holding"} => key'[n] # 0
    BY <2>1, BoundAssumption DEF HandleProgress, HandleChoice, CloneHandle, InstallHandler,
      ReplaceHandler, BeginCall, FindConnection,
      QueueMessage, QueueFails, SerializeFails, RemoveFailedCall, ReturnFromInvoke, AbandonInvoke,
      GracefulCancel, GracefulFlag, GracefulLook, GracefulClose, GracefulWaitEnds, AbandonGraceful,
      GracefulClear, GracefulNotify, DropHandle, DropFlag, DropClear, DropNotify,
      ReleaseHandle
  <2>2. ASSUME NEW g \in Gen, Network(g) \/ TaskProgress(g)
        PROVE  UNCHANGED <<hpc, key>>
    BY <2>2 DEF Network, TaskProgress, WriteMessage, WriteClose, WriterFails, ReadCompletion,
      ReaderEnds, AbortReader, AbortWriter, StopReader, StopWriter
  <2>3. ASSUME MonitorStep
        PROVE  \A n \in Handle : hpc'[n] \in {"stored", "holding"} => key'[n] # 0
    BY <2>3 DEF MonitorStep, ReceiveEvent, ChannelCloses, StopMonitor, MarkConnectionLost,
      CancelLostCalls, RunReconnecting, CheckAttempts, WakeFromDelay, NegotiateSucceeds,
      NegotiateFails, NextAttempt, ConnectSucceeds, ConnectFails, PublishConnection,
      SkipReconnected, BeginReplay, EndReplay
  <2>4. CASE DisposeStorage \/ Terminated
    BY <2>4 DEF DisposeStorage, Terminated, vars
  <2>5. QED
    BY <2>1, <2>2, <2>3, <2>4 DEF Next
<1>5. \A i \in DOMAIN events' : events'[i] = Shutdown => shutdown'
  <2>1. \A i \in DOMAIN events : events[i] = Shutdown => shutdown'
    BY <1>2 DEF IInv, EndsAnnounced
  <2>2. CASE UNCHANGED events
    BY <2>1, <2>2
  <2>3. ASSUME NEW e \in ConnectionEvent, Post(e), e = Shutdown => shutdown'
        PROVE  \A i \in DOMAIN events' : events'[i] = Shutdown => shutdown'
    BY <1>1, <2>1, <2>3, PostedLast
  <2>4. ASSUME NEW g \in Gen, Post(ConnectionLost(g))
        PROVE  \A i \in DOMAIN events' : events'[i] = Shutdown => shutdown'
    BY <2>3, <2>4, EventsExist DEF ConnectionLost, Shutdown
  <2>5. ASSUME NEW h \in Handle, QueueFails(h)
        PROVE  \E g \in Gen : Post(ConnectionLost(g))
    BY <2>5 DEF QueueFails, IInv, GenerationsStarted
  <2>6. ASSUME NEW h \in Handle, GracefulNotify(h) \/ DropNotify(h)
        PROVE  Post(Shutdown) /\ shutdown
    BY <2>6 DEF GracefulNotify, DropNotify, IInv, EndsAnnounced
  <2>7. ASSUME NEW g \in Gen, WriterFails(g) \/ ReaderEnds(g)
        PROVE  Post(ConnectionLost(g))
    BY <2>7 DEF WriterFails, ReaderEnds
  <2>8. ASSUME events' = <<>>
        PROVE  \A i \in DOMAIN events' : events'[i] = Shutdown => shutdown'
    BY <2>8
  <2>9. ASSUME events # <<>>, events' = Tail(events)
        PROVE  \A i \in DOMAIN events' : events'[i] = Shutdown => shutdown'
    BY <1>1, <2>1, <2>9, EventsAfterOne
  <2>10. ReceiveEvent => events' = <<>> \/ (events # <<>> /\ events' = Tail(events))
    BY DEF ReceiveEvent, StopMonitor
  <2>11. ChannelCloses => events' = <<>>
    BY DEF ChannelCloses, StopMonitor
  <2>12. QED
    BY <1>2, <2>2, <2>3, <2>4, <2>5, <2>6, <2>7, <2>8, <2>9, <2>10, <2>11, EventsExist, ChannelSteps
<1>6. \A h \in Handle : hpc'[h] \in {"gracefulNotify", "dropNotify"} => shutdown'
  <2> USE DEF IInv, TypeOK, EndsAnnounced, ClearingAnnounced
  <2>1. ASSUME NEW h \in Handle, HandleProgress(h) \/ HandleChoice(h)
        PROVE  \A n \in Handle : hpc'[n] \in {"gracefulNotify", "dropNotify"} => shutdown'
    BY <1>2, <2>1 DEF HandleProgress, HandleChoice, CloneHandle, InstallHandler,
      ReplaceHandler, BeginCall, FindConnection,
      QueueMessage, QueueFails, SerializeFails, RemoveFailedCall, ReturnFromInvoke, AbandonInvoke,
      GracefulCancel, GracefulFlag, GracefulLook, GracefulClose, GracefulWaitEnds, AbandonGraceful,
      GracefulClear, GracefulNotify, DropHandle, DropFlag, DropClear, DropNotify,
      ReleaseHandle
  <2>2. ASSUME NEW g \in Gen, Network(g) \/ TaskProgress(g)
        PROVE  UNCHANGED hpc
    BY <2>2 DEF Network, TaskProgress, WriteMessage, WriteClose, WriterFails, ReadCompletion,
      ReaderEnds, AbortReader, AbortWriter, StopReader, StopWriter
  <2>3. ASSUME MonitorStep
        PROVE  \A n \in Handle : hpc'[n] \in {"gracefulNotify", "dropNotify"} => shutdown'
    BY <1>2, <2>3 DEF MonitorStep, ReceiveEvent, ChannelCloses, StopMonitor, MarkConnectionLost,
      CancelLostCalls, RunReconnecting, CheckAttempts, WakeFromDelay, NegotiateSucceeds,
      NegotiateFails, NextAttempt, ConnectSucceeds, ConnectFails, PublishConnection,
      SkipReconnected, BeginReplay, EndReplay
  <2>4. CASE DisposeStorage \/ Terminated
    BY <1>2, <2>4 DEF DisposeStorage, Terminated, vars
  <2>5. QED
    BY <1>2, <2>1, <2>2, <2>3, <2>4 DEF Next
<1>7. monPc' = "stopped" => shutdown' \/ ~SharedAlive'
  <2>1. (SharedAlive' => SharedAlive) /\ (shutdown => shutdown')
    BY EndsAreFinal
  <2>2. CASE monPc' = monPc
    BY <2>1, <2>2 DEF IInv, EndsAnnounced
  <2>3. CASE ReceiveEvent
    <3>1. CASE ~SharedAlive
      BY <2>1, <3>1
    <3>2. CASE shutdown
      BY <2>1, <3>2
    <3>3. CASE Head(events) = Shutdown
      <4>1. events # <<>>
        BY <2>3 DEF ReceiveEvent
      <4>2. 1 \in DOMAIN events /\ events[1] = Shutdown
        BY <1>1, <3>3, <4>1
      <4>3. QED
        BY <2>1, <4>2 DEF IInv, EndsAnnounced
    <3>4. CASE ~(~SharedAlive \/ Head(events) = Shutdown \/ shutdown)
      BY <2>3, <3>4 DEF ReceiveEvent
    <3>5. QED
      BY <3>1, <3>2, <3>3, <3>4
  <2>4. CASE ChannelCloses
    BY <2>1, <2>4 DEF ChannelCloses
  <2>5. ASSUME NEW h \in Handle, QueueFails(h) \/ GracefulNotify(h) \/ DropNotify(h)
        PROVE  monPc' = monPc
    BY <2>5 DEF QueueFails, GracefulNotify, DropNotify
  <2>6. ASSUME NEW g \in Gen, WriterFails(g) \/ ReaderEnds(g)
        PROVE  monPc' = monPc
    BY <2>6 DEF WriterFails, ReaderEnds
  <2>7. QED
    BY <2>2, <2>3, <2>4, <2>5, <2>6, ChannelSteps
<1>8. QED
  BY <1>3, <1>4, <1>5, <1>6, <1>7 DEF EndsAnnounced

\* A connection is adopted when its socket is open, and its tasks run then.
LEMMA AdoptedBefore ==
    ASSUME IInv, Next, NEW g \in Gen, Adopted(g)'
    PROVE  \/ Adopted(g)
           \/ ConnectSucceeds /\ monGen = g
<1> USE DEF sharedVars, taskVars, storeVars, handleVars, monVars, Goto, ReturnToOwner, NextEvent
<1> USE DEF Adopted
<1>1. ASSUME NEW h \in Handle, HandleProgress(h) \/ HandleChoice(h)
      PROVE  Adopted(g)
  BY <1>1, StatesDiffer DEF HandleProgress, HandleChoice, CloneHandle, InstallHandler,
      ReplaceHandler, BeginCall, FindConnection,
      QueueMessage, QueueFails, SerializeFails, RemoveFailedCall, ReturnFromInvoke, AbandonInvoke,
      GracefulCancel, GracefulFlag, GracefulLook, GracefulClose, GracefulWaitEnds, AbandonGraceful,
      GracefulClear, GracefulNotify, DropHandle, DropFlag, DropClear, DropNotify,
      ReleaseHandle
<1>2. ASSUME NEW f \in Gen, Network(f) \/ TaskProgress(f)
      PROVE  Adopted(g)
  BY <1>2 DEF Network, TaskProgress, WriteMessage, WriteClose, WriterFails, ReadCompletion,
      ReaderEnds, AbortReader, AbortWriter, StopReader, StopWriter
<1>3. ASSUME MonitorStep, ~ConnectSucceeds
      PROVE  Adopted(g)
  BY <1>3, StatesDiffer DEF MonitorStep, ReceiveEvent, ChannelCloses, StopMonitor, MarkConnectionLost,
      CancelLostCalls, RunReconnecting, CheckAttempts, WakeFromDelay, NegotiateSucceeds,
      NegotiateFails, NextAttempt, ConnectFails, PublishConnection,
      SkipReconnected, BeginReplay, EndReplay
<1>4. CASE ConnectSucceeds
  BY <1>4 DEF ConnectSucceeds
<1>5. CASE DisposeStorage \/ Terminated
  BY <1>5 DEF DisposeStorage, Terminated, vars
<1>6. QED
  BY <1>1, <1>2, <1>3, <1>4, <1>5 DEF Next

\* The ways in which a first task of a connection ends.
LEMMA FirstEnd ==
    ASSUME IInv, Next, NEW g \in Gen, g \in Ended', g \notin Ended
    PROVE  \/ WriterFails(g) \/ ReaderEnds(g) \/ WriteClose(g)
           \/ AbortReader(g) \/ AbortWriter(g)
<1> USE DEF sharedVars, taskVars, storeVars, handleVars, monVars, Goto, ReturnToOwner, NextEvent
<1> USE DEF Ended, IInv, TypeOK
<1>1. ASSUME NEW h \in Handle, HandleProgress(h) \/ HandleChoice(h)
      PROVE  UNCHANGED <<reader, writer>>
  BY <1>1 DEF HandleProgress, HandleChoice, CloneHandle, InstallHandler,
      ReplaceHandler, BeginCall, FindConnection,
      QueueMessage, QueueFails, SerializeFails, RemoveFailedCall, ReturnFromInvoke, AbandonInvoke,
      GracefulCancel, GracefulFlag, GracefulLook, GracefulClose, GracefulWaitEnds, AbandonGraceful,
      GracefulClear, GracefulNotify, DropHandle, DropFlag, DropClear, DropNotify,
      ReleaseHandle
<1>2. ASSUME NEW f \in Gen, Network(f) \/ TaskProgress(f), f # g
      PROVE  reader'[g] = reader[g] /\ writer'[g] = writer[g]
  BY <1>2 DEF Network, TaskProgress, WriteMessage, WriteClose, WriterFails, ReadCompletion,
      ReaderEnds, AbortReader, AbortWriter, StopReader, StopWriter
<1>3. ASSUME WriteMessage(g) \/ (\E k \in Call : ReadCompletion(g, k))
      PROVE  UNCHANGED <<reader, writer>>
  BY <1>3 DEF WriteMessage, ReadCompletion
<1>4. ASSUME MonitorStep
      PROVE  g \in Ended' => g \in Ended
  <2>1. CASE ConnectSucceeds
    <3>1. monGen \in Gen
      BY <2>1 DEF ConnectSucceeds, GenerationsStarted
    <3>2. QED
      BY <2>1, <3>1 DEF ConnectSucceeds
  <2>2. CASE ~ConnectSucceeds
    <3>1. UNCHANGED <<reader, writer>>
      BY <1>4, <2>2 DEF MonitorStep, ReceiveEvent, ChannelCloses, StopMonitor, MarkConnectionLost,
      CancelLostCalls, RunReconnecting, CheckAttempts, WakeFromDelay, NegotiateSucceeds,
      NegotiateFails, NextAttempt, ConnectFails, PublishConnection,
      SkipReconnected, BeginReplay, EndReplay
    <3>2. QED
      BY <3>1
  <2>3. QED
    BY <2>1, <2>2
<1>5. ASSUME DisposeStorage \/ Terminated
      PROVE  UNCHANGED <<reader, writer>>
  BY <1>5 DEF DisposeStorage, Terminated, vars
<1>6. QED
  BY <1>1, <1>2, <1>3, <1>4, <1>5 DEF Next, Network, TaskProgress

\* A report in the channel stays there until the monitor takes it in hand.
LEMMA ReportKept ==
    ASSUME IInv, Next, SharedAlive, ~shutdown, NEW g \in Gen,
           NEW i \in DOMAIN events, events[i] = ConnectionLost(g)
    PROVE  \/ \E j \in DOMAIN events' : events'[j] = ConnectionLost(g)
           \/ monPc' = "mark" /\ monGen' = g
<1> USE DEF sharedVars, taskVars, storeVars, handleVars, monVars, Goto, ReturnToOwner, NextEvent
<1>1. events \in Seq(ConnectionEvent)
  BY DEF IInv, TypeOK
<1>2. ASSUME NEW e \in ConnectionEvent, Post(e)
      PROVE  \E j \in DOMAIN events' : events'[j] = ConnectionLost(g)
  BY <1>1, <1>2, PostedLast
<1>3. ASSUME NEW h \in Handle, QueueFails(h)
      PROVE  \E e \in ConnectionEvent : Post(e)
  BY <1>3, EventsExist DEF QueueFails, IInv, GenerationsStarted
<1>4. ASSUME NEW h \in Handle, GracefulNotify(h) \/ DropNotify(h)
      PROVE  \E e \in ConnectionEvent : Post(e)
  BY <1>4, EventsExist DEF GracefulNotify, DropNotify
<1>5. ASSUME NEW f \in Gen, WriterFails(f) \/ ReaderEnds(f)
      PROVE  \E e \in ConnectionEvent : Post(e)
  BY <1>5, EventsExist DEF WriterFails, ReaderEnds
<1>6. CASE ReceiveEvent
  <2>1. events # <<>>
    BY <1>6 DEF ReceiveEvent
  <2>2. 1 \in DOMAIN events /\ events[1] = Head(events)
    BY <1>1, <2>1
  <2>3. Head(events) # Shutdown
    BY <2>2 DEF IInv, EndsAnnounced
  <2>4. monPc' = "mark" /\ monGen' = Head(events).gen /\ events' = Tail(events)
    BY <1>6, <2>3 DEF ReceiveEvent
  <2>5. CASE events[i] = Head(events)
    BY <2>4, <2>5 DEF ConnectionLost
  <2>6. CASE \E j \in DOMAIN events' : events'[j] = events[i]
    BY <2>6
  <2>7. QED
    BY <1>1, <2>1, <2>4, <2>5, <2>6, EventsAfterOne
<1>7. ~ChannelCloses
  BY DEF ChannelCloses
<1>8. CASE UNCHANGED events
  BY <1>8
<1>9. QED
  BY <1>2, <1>3, <1>4, <1>5, <1>6, <1>7, <1>8, ChannelSteps

\* The loss of the adopted connection is reported, and the report is kept.
LEMMA ReportedStep ==
    ASSUME IInv, Next
    PROVE  LossReported'
<1> USE DEF sharedVars, taskVars, storeVars, handleVars, monVars, Goto, ReturnToOwner, NextEvent
<1> SUFFICES ASSUME NEW g \in Gen, Adopted(g)', g \in Ended', SharedAlive', ~shutdown'
             PROVE  \/ \E i \in DOMAIN events' : events'[i] = ConnectionLost(g)
                    \/ monPc' = "mark" /\ monGen' = g
  BY DEF LossReported
<1>1. SharedAlive /\ ~shutdown
  BY EndsAreFinal
<1>2. Adopted(g)
  <2>1. CASE ConnectSucceeds /\ monGen = g
    <3>1. reader'[g] = "running" /\ writer'[g] = "running"
      BY <2>1 DEF ConnectSucceeds, IInv, TypeOK
    <3>2. QED
      BY <3>1 DEF Ended
  <2>2. QED
    BY <2>1, AdoptedBefore
<1>3. CASE g \notin Ended
  <2>1. Held(g)
    BY <1>1, <1>2 DEF Adopted, Held
  <2>2. ~WriteClose(g)
    <3>1. ASSUME WriteClose(g) PROVE FALSE
      <4>1. cmds[g] \in Seq(Call \cup {Close}) /\ cmds[g] # <<>> /\ Head(cmds[g]) = Close
        BY <3>1 DEF WriteClose, IInv, TypeOK
      <4>2. 1 \in DOMAIN cmds[g] /\ cmds[g][1] = Close
        BY <4>1
      <4>3. QED
        BY <1>1, <4>2 DEF IInv, EndsAnnounced
    <3>2. QED
      BY <3>1
  <2>3. WriterFails(g) \/ ReaderEnds(g)
    BY <1>3, <2>1, <2>2, FirstEnd DEF AbortReader, AbortWriter
  <2>4. Post(ConnectionLost(g))
    BY <2>3 DEF WriterFails, ReaderEnds
  <2>5. monPc # "stopped" /\ events \in Seq(ConnectionEvent)
    BY <1>1 DEF IInv, EndsAnnounced, TypeOK
  <2>6. QED
    BY <2>4, <2>5, PostedLast, EventsExist
<1>4. CASE \E i \in DOMAIN events : events[i] = ConnectionLost(g)
  BY <1>1, <1>4, ReportKept
<1>5. CASE monPc = "mark" /\ monGen = g
  <2>1. state = Connected(g)
    BY <1>2, <1>5 DEF Adopted
  <2>2. ~MarkConnectionLost
    <3>1. ASSUME MarkConnectionLost PROVE FALSE
      <4>1. state'.kind # "Connected" /\ monPc' = "cancel"
        BY <1>5, <2>1, <3>1, StatesDiffer DEF MarkConnectionLost
      <4>2. QED
        BY <4>1, StatesDiffer DEF Adopted
    <3>2. QED
      BY <3>1
  <2>3. ~MonitorStep
    BY <1>5, <2>2 DEF MonitorStep, ReceiveEvent, ChannelCloses, StopMonitor,
      CancelLostCalls, RunReconnecting, CheckAttempts, WakeFromDelay, NegotiateSucceeds,
      NegotiateFails, NextAttempt, ConnectSucceeds, ConnectFails, PublishConnection,
      SkipReconnected, BeginReplay, EndReplay
  <2>4. ~ReceiveEvent /\ ~ChannelCloses
    BY <1>5 DEF ReceiveEvent, ChannelCloses
  <2>5. \A h \in Handle : QueueFails(h) \/ GracefulNotify(h) \/ DropNotify(h) =>
                            UNCHANGED <<monPc, monGen>>
    BY DEF QueueFails, GracefulNotify, DropNotify
  <2>6. \A f \in Gen : WriterFails(f) \/ ReaderEnds(f) => UNCHANGED <<monPc, monGen>>
    BY DEF WriterFails, ReaderEnds
  <2>7. UNCHANGED <<monPc, monGen>>
    BY <2>3, <2>4, <2>5, <2>6, ChannelSteps
  <2>8. QED
    BY <1>5, <2>7
<1>6. QED
  BY <1>1, <1>2, <1>3, <1>4, <1>5 DEF IInv, LossReported

-----------------------------------------------------------------------------
(* The invariant.                                                           *)

\* connect() establishes IInv.
LEMMA InitInvariant == Init => IInv
<1> SUFFICES ASSUME Init PROVE IInv
  OBVIOUS
<1> USE DEF Init
<1>1. 1 \in Gen /\ 2 \in 1 .. MaxGeneration + 1
  BY BoundAssumption DEF Gen
<1>2. TypeOK
  <2>1. state \in ConnectionState /\ monPc \in MonitorPc
    BY <1>1 DEF ConnectionState, MonitorPc
  <2>2. reader \in [Gen -> TaskState] /\ writer \in [Gen -> TaskState]
    BY DEF TaskState
  <2>3. events \in Seq(ConnectionEvent) /\ cmds \in [Gen -> Seq(Call \cup {Close})]
    OBVIOUS
  <2>4. hpc \in [Handle -> HandlePc]
    BY DEF HandlePc
  <2>5. index \in 0 .. MaxCalls /\ attempt \in Nat
    BY BoundAssumption
  <2>6. QED
    BY <1>1, <2>1, <2>2, <2>3, <2>4, <2>5 DEF TypeOK
<1>3. NoOrphan /\ CallsFresh
  BY DEF NoOrphan, CallsFresh
<1>4. OneCurrentConnection
  BY DEF OneCurrentConnection, Replacing, Connected
<1>5. LossReportsTrue
  BY DEF LossReportsTrue
<1>6. GenerationsStarted
  BY DEF GenerationsStarted, Gen, Connected
<1>7. HeldCallsCovered /\ ClearingAnnounced
  BY DEF HeldCallsCovered, ClearingAnnounced
<1>8. LossReported
  BY DEF LossReported, Adopted, Ended, Connected
<1>9. EndsAnnounced
  BY DEF EndsAnnounced
<1>10. QED
  BY <1>2, <1>3, <1>4, <1>5, <1>6, <1>7, <1>8, <1>9 DEF IInv

\* Every step of the client, its tasks, its monitor and the network keeps it.
LEMMA StepInvariant == IInv /\ [Next]_vars => IInv'
<1> SUFFICES ASSUME IInv, [Next]_vars PROVE IInv'
  OBVIOUS
<1>1. CASE Next
  BY <1>1, TypeStep, OrphanStep, CurrentStep, ReportsStep, StartedStep, FreshStep,
     HeldStep, ClearingStep, ReportedStep, EndsStep DEF IInv
<1>2. CASE UNCHANGED vars
  BY <1>2 DEF IInv, TypeOK, NoOrphan, OneCurrentConnection, LossReportsTrue, Ended,
     GenerationsStarted, CallsFresh, HeldCallsCovered, ClearingAnnounced, Replacing,
     LossReported, Adopted, EndsAnnounced, SharedAlive, MonitorHolds, Alive,
     vars, sharedVars, taskVars, storeVars, handleVars, monVars
<1>3. QED
  BY <1>1, <1>2

\* IInv holds in every reachable state, for any number of handles, calls,
\* generations and attempts.
THEOREM Invariant == Spec => []IInv
<1>1. QED
  BY InitInvariant, StepInvariant, PTL DEF Spec

\* The variables keep their types in every reachable state.
THEOREM TypeCorrect == Spec => []TypeOK
<1>1. IInv => TypeOK
  BY DEF IInv
<1>2. QED
  BY <1>1, Invariant, PTL

\* No call that was sent is forgotten: its connection is current, or its
\* cancellation is due, or the client is shutting down.
THEOREM NoCallOrphaned == Spec => []NoOrphan
<1>1. IInv => NoOrphan
  BY DEF IInv
<1>2. QED
  BY <1>1, Invariant, PTL

\* No loss of the connection in use goes unnoticed: it is reported, and the
\* report waits for the monitor, or is in its hands.
THEOREM LossIsReported == Spec => []LossReported
<1>1. IInv => LossReported
  BY DEF IInv
<1>2. QED
  BY <1>1, Invariant, PTL

\* The monitor never replaces a connection that is still current, and the
\* current one is the newest.
THEOREM CurrentConnectionUnique == Spec => []OneCurrentConnection
<1>1. IInv => OneCurrentConnection
  BY DEF IInv
<1>2. QED
  BY <1>1, Invariant, PTL

\* A step that leaves a connection finds a task of it ended, or the flag set.
LEMMA LeavingStep ==
    ASSUME IInv, Next, NEW g \in Gen, state = Connected(g), state' # state
    PROVE  g \in Ended \/ shutdown
<1> USE DEF sharedVars, taskVars, storeVars, handleVars, monVars, Goto, ReturnToOwner, NextEvent
<1>1. state.kind = "Connected"
  BY StatesDiffer
<1>2. CASE MarkConnectionLost
  <2>1. monGen \in Ended /\ state = Connected(monGen)
    BY <1>2 DEF MarkConnectionLost, IInv, LossReportsTrue
  <2>2. QED
    BY <2>1 DEF Connected
<1>3. ASSUME NEW h \in Handle, GracefulClear(h) \/ DropClear(h)
      PROVE  shutdown
  BY <1>3 DEF GracefulClear, DropClear, IInv, ClearingAnnounced
<1>4. CASE CheckAttempts \/ PublishConnection
  BY <1>1, <1>4 DEF CheckAttempts, PublishConnection, IInv, OneCurrentConnection, Replacing
<1>5. ASSUME NEW h \in Handle, HandleProgress(h) \/ HandleChoice(h),
             ~GracefulClear(h), ~DropClear(h)
      PROVE  FALSE
  BY <1>5 DEF HandleProgress, HandleChoice, CloneHandle, InstallHandler,
      ReplaceHandler, BeginCall, FindConnection,
      QueueMessage, QueueFails, SerializeFails, RemoveFailedCall, ReturnFromInvoke, AbandonInvoke,
      GracefulCancel, GracefulFlag, GracefulLook, GracefulClose, GracefulWaitEnds, AbandonGraceful,
      GracefulNotify, DropHandle, DropFlag, DropNotify,
      ReleaseHandle
<1>6. ASSUME NEW f \in Gen, Network(f) \/ TaskProgress(f)
      PROVE  FALSE
  BY <1>6 DEF Network, TaskProgress, WriteMessage, WriteClose, WriterFails, ReadCompletion,
      ReaderEnds, AbortReader, AbortWriter, StopReader, StopWriter
<1>7. ASSUME MonitorStep, ~MarkConnectionLost, ~CheckAttempts, ~PublishConnection
      PROVE  FALSE
  BY <1>7 DEF MonitorStep, ReceiveEvent, ChannelCloses, StopMonitor,
      CancelLostCalls, RunReconnecting, WakeFromDelay, NegotiateSucceeds,
      NegotiateFails, NextAttempt, ConnectSucceeds, ConnectFails,
      SkipReconnected, BeginReplay, EndReplay
<1>8. ASSUME DisposeStorage \/ Terminated
      PROVE  FALSE
  BY <1>8 DEF DisposeStorage, Terminated, vars
<1>9. QED
  BY <1>2, <1>3, <1>4, <1>5, <1>6, <1>7, <1>8 DEF Next

\* A healthy connection is never given up.
THEOREM HealthyConnectionIsKept == Spec => HealthyConnectionKept
<1>1. IInv /\ [Next]_vars =>
         [\A g \in Gen :
             (state = Connected(g) /\ state' # state) => g \in Ended \/ shutdown]_vars
  BY LeavingStep DEF vars, sharedVars
<1>2. QED
  BY <1>1, Invariant, PTL DEF Spec, HealthyConnectionKept
-----------------------------------------------------------------------------
(* Shutdown.                                                                *)

\* The clone a callback holds makes calls, and never disconnects: its callback
\* can be replaced without a disconnect being cut short.
CallbackOnlyCalls ==
    \A h \in Handle : h = ReplayHandle => hpc[h] \notin Announcing \cup {"gracefulFlag", "dropFlag"}

\* Only the owner of a handle disconnects, and this one's owner is the callback.
LEMMA CallbackStep == TypeOK /\ CallbackOnlyCalls /\ [Next]_vars => CallbackOnlyCalls'
<1> SUFFICES ASSUME TypeOK, CallbackOnlyCalls, [Next]_vars
             PROVE  CallbackOnlyCalls'
  OBVIOUS
<1> USE DEF sharedVars, taskVars, storeVars, handleVars, monVars, Goto, ReturnToOwner, NextEvent
<1> USE DEF TypeOK, CallbackOnlyCalls, Announcing
<1>1. ASSUME NEW h \in Handle, HandleProgress(h) \/ HandleChoice(h)
      PROVE  CallbackOnlyCalls'
  BY <1>1, HandleAssumption DEF HandleProgress, HandleChoice, CloneHandle, InstallHandler,
      ReplaceHandler, BeginCall, FindConnection,
      QueueMessage, QueueFails, SerializeFails, RemoveFailedCall, ReturnFromInvoke, AbandonInvoke,
      GracefulCancel, GracefulFlag, GracefulLook, GracefulClose, GracefulWaitEnds, AbandonGraceful,
      GracefulClear, GracefulNotify, DropHandle, DropFlag, DropClear, DropNotify,
      ReleaseHandle
<1>2. ASSUME NEW g \in Gen, Network(g) \/ TaskProgress(g)
      PROVE  UNCHANGED hpc
  BY <1>2 DEF Network, TaskProgress, WriteMessage, WriteClose, WriterFails, ReadCompletion,
      ReaderEnds, AbortReader, AbortWriter, StopReader, StopWriter
<1>3. ASSUME MonitorStep
      PROVE  CallbackOnlyCalls'
  BY <1>3 DEF MonitorStep, ReceiveEvent, ChannelCloses, StopMonitor, MarkConnectionLost,
      CancelLostCalls, RunReconnecting, CheckAttempts, WakeFromDelay, NegotiateSucceeds,
      NegotiateFails, NextAttempt, ConnectSucceeds, ConnectFails, PublishConnection,
      SkipReconnected, BeginReplay, EndReplay
<1>4. CASE DisposeStorage \/ Terminated \/ UNCHANGED vars
  BY <1>4 DEF DisposeStorage, Terminated, vars
<1>5. QED
  BY <1>1, <1>2, <1>3, <1>4 DEF Next

\* Once announced, and nobody deserting, a shutdown stays announced.
LEMMA HeardStep ==
    ASSUME IInv, CallbackOnlyCalls, ShutdownHeard, Next, NobodyDeserts'
    PROVE  ShutdownHeard'
<1> USE DEF sharedVars, taskVars, storeVars, handleVars, monVars, Goto, ReturnToOwner, NextEvent
<1>1. events \in Seq(ConnectionEvent) /\ hpc \in [Handle -> HandlePc]
  BY DEF IInv, TypeOK
<1>2. ASSUME Post(Shutdown), UNCHANGED monPc
      PROVE  ShutdownHeard'
  <2>1. CASE monPc = "stopped"
    BY <1>2, <2>1 DEF ShutdownHeard
  <2>2. CASE monPc # "stopped"
    BY <1>1, <1>2, <2>2, PostedLast, EventsExist DEF ShutdownHeard
  <2>3. QED
    BY <2>1, <2>2
<1>3. ASSUME NEW h \in Handle, QueueFails(h)
      PROVE  ShutdownHeard'
  <2>1. PICK e \in ConnectionEvent : Post(e)
    BY <1>3, EventsExist DEF QueueFails, IInv, GenerationsStarted
  <2>2. \A n \in Handle : hpc[n] \in Announcing => hpc'[n] \in Announcing
    BY <1>1, <1>3 DEF QueueFails, Announcing
  <2>3. UNCHANGED <<monPc, shutdown>>
    BY <1>3 DEF QueueFails
  <2>4. \A i \in DOMAIN events : i \in DOMAIN events' /\ events'[i] = events[i]
    BY <1>1, <2>1, PostedLast
  <2>5. QED
    BY <2>2, <2>3, <2>4 DEF ShutdownHeard
<1>4. ASSUME NEW h \in Handle, GracefulNotify(h) \/ DropNotify(h)
      PROVE  ShutdownHeard'
  BY <1>2, <1>4 DEF GracefulNotify, DropNotify
<1>5. ASSUME NEW h \in Handle, GracefulFlag(h) \/ DropFlag(h)
      PROVE  ShutdownHeard'
  <2>1. hpc'[h] \in Announcing
    BY <1>1, <1>5 DEF GracefulFlag, DropFlag, Announcing
  <2>2. QED
    BY <2>1 DEF ShutdownHeard
<1>6. ASSUME NEW h \in Handle, HandleProgress(h) \/ HandleChoice(h),
             ~QueueFails(h), ~GracefulNotify(h), ~DropNotify(h), ~GracefulFlag(h), ~DropFlag(h)
      PROVE  ShutdownHeard'
  <2>1. UNCHANGED <<events, monPc, shutdown>>
    BY <1>6 DEF HandleProgress, HandleChoice, CloneHandle, InstallHandler,
      ReplaceHandler, BeginCall, FindConnection,
      QueueMessage, SerializeFails, RemoveFailedCall, ReturnFromInvoke, AbandonInvoke,
      GracefulCancel, GracefulLook, GracefulClose, GracefulWaitEnds, AbandonGraceful,
      GracefulClear, DropHandle, DropClear, ReleaseHandle
  <2>2. ~AbandonGraceful(h)
    BY <1>1 DEF AbandonGraceful, NobodyDeserts
  <2>3. \A n \in Handle : hpc[n] \in Announcing => hpc'[n] \in Announcing
    BY <1>1, <1>6, <2>2 DEF Announcing, CallbackOnlyCalls, Free,
      HandleProgress, HandleChoice, CloneHandle, InstallHandler,
      ReplaceHandler, BeginCall, FindConnection,
      QueueMessage, SerializeFails, RemoveFailedCall, ReturnFromInvoke, AbandonInvoke,
      GracefulCancel, GracefulLook, GracefulClose, GracefulWaitEnds,
      GracefulClear, DropHandle, DropClear, ReleaseHandle
  <2>4. QED
    BY <2>1, <2>3 DEF ShutdownHeard
<1>7. ASSUME NEW g \in Gen, Network(g) \/ TaskProgress(g)
      PROVE  ShutdownHeard'
  <2>1. UNCHANGED <<hpc, monPc, shutdown>>
    BY <1>7 DEF Network, TaskProgress, WriteMessage, WriteClose, WriterFails, ReadCompletion,
      ReaderEnds, AbortReader, AbortWriter, StopReader, StopWriter
  <2>2. UNCHANGED events \/ Post(ConnectionLost(g))
    BY <1>7 DEF Network, TaskProgress, WriteMessage, WriteClose, WriterFails, ReadCompletion,
      ReaderEnds, AbortReader, AbortWriter, StopReader, StopWriter
  <2>3. \A i \in DOMAIN events : i \in DOMAIN events' /\ events'[i] = events[i]
    BY <1>1, <2>2, PostedLast, EventsExist
  <2>4. QED
    BY <2>1, <2>3 DEF ShutdownHeard
<1>8. ASSUME MonitorStep
      PROVE  ShutdownHeard'
  <2>1. CASE ReceiveEvent
    <3>1. UNCHANGED <<hpc, shutdown>>
      BY <2>1 DEF ReceiveEvent
    <3>2. ~shutdown \/ monPc' = "stopped"
      BY <2>1 DEF ReceiveEvent, StopMonitor
    <3>3. QED
      BY <3>1, <3>2 DEF ShutdownHeard
  <2>2. CASE ChannelCloses
    BY <2>2 DEF ChannelCloses, StopMonitor, ShutdownHeard
  <2>3. CASE ~ReceiveEvent /\ ~ChannelCloses
    <3>1. UNCHANGED <<events, shutdown>> /\ monPc # "stopped"
      BY <1>8, <2>3 DEF MonitorStep, MarkConnectionLost,
      CancelLostCalls, RunReconnecting, CheckAttempts, WakeFromDelay, NegotiateSucceeds,
      NegotiateFails, NextAttempt, ConnectSucceeds, ConnectFails, PublishConnection,
      SkipReconnected, BeginReplay, EndReplay
    <3>2. \A n \in Handle : hpc[n] \in Announcing => hpc'[n] \in Announcing
      BY <1>1, <1>8, <2>3 DEF Announcing, CallbackOnlyCalls, MonitorStep, MarkConnectionLost,
      CancelLostCalls, RunReconnecting, CheckAttempts, WakeFromDelay, NegotiateSucceeds,
      NegotiateFails, NextAttempt, ConnectSucceeds, ConnectFails, PublishConnection,
      SkipReconnected, BeginReplay, EndReplay
    <3>3. QED
      BY <3>1, <3>2 DEF ShutdownHeard
  <2>4. QED
    BY <2>1, <2>2, <2>3
<1>9. CASE DisposeStorage \/ Terminated
  BY <1>9 DEF DisposeStorage, Terminated, vars, ShutdownHeard
<1>10. QED
  BY <1>3, <1>4, <1>5, <1>6, <1>7, <1>8, <1>9 DEF Next

\* Unless a graceful disconnect is deserted, the monitor is always going to hear
\* of a shutdown: the safety part of ShutdownStopsMonitor.
THEOREM ShutdownIsAnnounced == Spec => ShutdownAnnounced
<1>1. Init => CallbackOnlyCalls /\ ShutdownHeard
  BY DEF Init, CallbackOnlyCalls, Announcing, ShutdownHeard
<1>2. IInv => TypeOK
  BY DEF IInv
<1>3. IInv /\ CallbackOnlyCalls /\ ShutdownHeard /\ NobodyDeserts' /\ [Next]_vars
          => ShutdownHeard'
  <2>1. ASSUME UNCHANGED vars, ShutdownHeard
        PROVE  ShutdownHeard'
    BY <2>1 DEF vars, sharedVars, handleVars, monVars, ShutdownHeard
  <2>2. QED
    BY <2>1, HeardStep
<1>4. QED
  BY <1>1, <1>2, <1>3, CallbackStep, Invariant, PTL DEF Spec, ShutdownAnnounced
=============================================================================
