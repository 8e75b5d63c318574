---------------------- MODULE ConnectionContractProofs ----------------------
(***************************************************************************)
(* ConnectionLifecycle implements ConnectionContract for every value of    *)
(* its constants: the initial states map to the initial state, and every   *)
(* step to a step of the contract or to none.                              *)
(***************************************************************************)
EXTENDS ConnectionLifecycleProofs

-----------------------------------------------------------------------------
(* One more invariant: calls are sent once, by the handle that made them.   *)

\* A handle that has still to send its call holds the only use of its id, and
\* nothing was sent under it.
UnsentCalls ==
    \A h \in Handle : hpc[h] \in {"stored", "holding"} =>
        /\ key[h] \in Call
        /\ sent[key[h]] = 0
        /\ \A other \in Handle \ {h} : key[other] # key[h]

\* Steps that neither make nor send a call leave handles where they are, or
\* take them on from there with the same id.
LEMMA UnsentKept ==
    ASSUME TypeOK, UnsentCalls, UNCHANGED sent,
           \A h \in Handle : key'[h] \in {key[h], 0},
           \A h \in Handle : hpc'[h] \in {"stored", "holding"} =>
               hpc[h] \in {"stored", "holding"} /\ key'[h] = key[h]
    PROVE  UnsentCalls'
<1> SUFFICES ASSUME NEW h \in Handle, hpc'[h] \in {"stored", "holding"}
             PROVE  /\ key'[h] \in Call
                    /\ sent'[key'[h]] = 0
                    /\ \A other \in Handle \ {h} : key'[other] # key'[h]
  BY DEF UnsentCalls
<1>1. key'[h] = key[h] /\ key[h] \in Call /\ sent[key[h]] = 0
  BY DEF UnsentCalls
<1>2. key[h] # 0
  BY <1>1 DEF Call
<1>3. \A other \in Handle \ {h} : key'[other] # key'[h]
  BY <1>1, <1>2 DEF UnsentCalls
<1> QED
  BY <1>1, <1>3

\* A new call has an id nobody holds.
LEMMA UnsentMade ==
    ASSUME IInv, UnsentCalls, NEW h \in Handle, NEW o \in Operation, BeginCall(h, o)
    PROVE  UnsentCalls'
<1>1. /\ index \in Nat /\ index + 1 \in Call
      /\ \A k \in Call : k \in Nat
  BY BoundAssumption DEF IInv, TypeOK, BeginCall, Call
<1>2. sent[index + 1] = 0 /\ \A g \in Handle : key[g] # index + 1
  BY <1>1 DEF IInv, TypeOK, CallsFresh
<1>3. /\ UNCHANGED sent
      /\ key' = [key EXCEPT ![h] = index + 1]
      /\ hpc' = [hpc EXCEPT ![h] = "stored"]
  BY DEF BeginCall, Goto
<1>4. key \in [Handle -> Call \cup {0}] /\ hpc \in [Handle -> HandlePc]
  BY DEF IInv, TypeOK
<1> QED
  BY <1>1, <1>2, <1>3, <1>4 DEF UnsentCalls

\* Sending a call touches no other id that has still to be sent.
LEMMA UnsentSent ==
    ASSUME IInv, UnsentCalls, NEW h \in Handle, QueueMessage(h)
    PROVE  UnsentCalls'
<1> SUFFICES ASSUME NEW x \in Handle, hpc'[x] \in {"stored", "holding"}
             PROVE  /\ key'[x] \in Call
                    /\ sent'[key'[x]] = 0
                    /\ \A other \in Handle \ {x} : key'[other] # key'[x]
  BY DEF UnsentCalls
<1>1. hpc \in [Handle -> HandlePc] /\ key \in [Handle -> Call \cup {0}]
      /\ sent \in [Call -> Gen \cup {0}]
  BY DEF IInv, TypeOK
<1>2. x # h /\ hpc'[x] = hpc[x]
  BY <1>1 DEF QueueMessage, ReturnToOwner, Goto
<1>3. \A y \in Handle : key'[y] \in {key[y], 0}
  BY <1>1 DEF QueueMessage, ReturnToOwner
<1>4. key'[x] = key[x] /\ key[x] \in Call /\ sent[key[x]] = 0 /\ key[h] # key[x]
  BY <1>1, <1>2 DEF QueueMessage, ReturnToOwner, UnsentCalls
<1>5. sent'[key'[x]] = 0
  BY <1>1, <1>4 DEF QueueMessage
<1>6. key[x] # 0
  BY <1>4 DEF Call
<1>7. \A other \in Handle \ {x} : key'[other] # key'[x]
  BY <1>2, <1>3, <1>4, <1>6 DEF UnsentCalls
<1> QED
  BY <1>4, <1>5, <1>7

\* UnsentCalls is an invariant.
LEMMA UnsentInvariant == Spec => []UnsentCalls
<1>1. Init => UnsentCalls
  BY DEF Init, UnsentCalls
<1>2. IInv /\ UnsentCalls /\ [Next]_vars => UnsentCalls'
  <2> SUFFICES ASSUME IInv, UnsentCalls, [Next]_vars PROVE UnsentCalls'
    OBVIOUS
  <2>1. TypeOK /\ hpc \in [Handle -> HandlePc] /\ key \in [Handle -> Call \cup {0}]
    BY DEF IInv, TypeOK
  <2> USE DEF sharedVars, taskVars, storeVars, handleVars, monVars, Goto, ReturnToOwner
  <2>2. ASSUME NEW h \in Handle, HandleProgress(h) \/ HandleChoice(h),
               \A o \in Operation : ~BeginCall(h, o), ~QueueMessage(h)
        PROVE  UnsentCalls'
    <3>1. /\ UNCHANGED sent
          /\ \A x \in Handle : key'[x] \in {key[x], 0}
          /\ \A x \in Handle : hpc'[x] \in {"stored", "holding"} =>
                 hpc[x] \in {"stored", "holding"} /\ key'[x] = key[x]
      BY <2>1, <2>2 DEF HandleProgress, HandleChoice, CloneHandle, InstallHandler,
        ReplaceHandler, FindConnection, QueueFails, SerializeFails, RemoveFailedCall, ReturnFromInvoke,
        AbandonInvoke, GracefulCancel, GracefulFlag, GracefulLook, GracefulClose,
        GracefulWaitEnds, AbandonGraceful, GracefulClear, GracefulNotify, DropHandle,
        DropFlag, DropClear, DropNotify, ReleaseHandle
    <3> QED
      BY <2>1, <3>1, UnsentKept
  <2>3. CASE EndReplay
    <3>1. UNCHANGED <<sent, key>> /\ (UNCHANGED hpc \/ hpc' = [hpc EXCEPT ![ReplayHandle] = "gone"])
      BY <2>3 DEF EndReplay
    <3> QED
      BY <2>1, <3>1, UnsentKept
  <2>4. ASSUME \/ \E g \in Gen : Network(g) \/ TaskProgress(g)
               \/ MonitorStep /\ ~EndReplay
               \/ DisposeStorage \/ Terminated \/ UNCHANGED vars
        PROVE  UnsentCalls'
    <3>1. UNCHANGED <<sent, key, hpc>>
      BY <2>4 DEF Network, TaskProgress, WriteMessage, WriteClose, WriterFails,
        ReadCompletion, ReaderEnds, AbortReader, AbortWriter, MonitorStep, ReceiveEvent,
        ChannelCloses, StopMonitor, MarkConnectionLost, CancelLostCalls, RunReconnecting,
        CheckAttempts, WakeFromDelay, NegotiateSucceeds, NegotiateFails, ConnectSucceeds,
        ConnectFails, PublishConnection, SkipReconnected, BeginReplay, DisposeStorage,
        Terminated, vars
    <3> QED
      BY <3>1 DEF UnsentCalls
  <2> QED
    BY <2>2, <2>3, <2>4, UnsentMade, UnsentSent DEF Next, HandleProgress, HandleChoice
<1> QED
  BY <1>1, <1>2, Invariant, PTL DEF Spec

-----------------------------------------------------------------------------
(* How the contract sees a step.                                            *)

\* What the contract sees of the connections.
LinkUnmoved == UNCHANGED <<CurrentLink, nextGen, Ended, monPc = "cancel", shutdown>>

\* What it sees of the calls.
CallsUnmoved == UNCHANGED <<index, pending, sent>>

\* Steps that touch neither are invisible.
LEMMA ContractStutters ==
    ASSUME LinkUnmoved, CallsUnmoved
    PROVE  UNCHANGED Contract!vars
BY DEF LinkUnmoved, CallsUnmoved, CarrierOf, Contract!vars, Contract!linkVars,
       Contract!callVars

\* A step that only takes actions out of the storage resolves their calls.
LEMMA ContractResolves ==
    ASSUME TypeOK, LinkUnmoved, UNCHANGED <<index, sent>>, pending' \subseteq pending
    PROVE  Contract!Resolve
<1> DEFINE S == pending \ pending'
<1>1. S \in SUBSET pending /\ pending' = pending \ S
  OBVIOUS
<1>2. [k \in Call |-> CarrierOf(k)]' =
          [k \in Call |-> IF k \in S THEN 0 ELSE [j \in Call |-> CarrierOf(j)][k]]
  BY DEF CarrierOf
<1>3. Contract!Close(S)
  BY <1>1, <1>2 DEF Contract!Close
<1>4. UNCHANGED Contract!linkVars
  BY DEF LinkUnmoved, Contract!linkVars
<1> QED
  BY <1>1, <1>3, <1>4 DEF Contract!Resolve
\* A call is numbered and, unless it is a message, waits in the storage.
LEMMA BeginMakesCall ==
    ASSUME IInv, NEW h \in Handle, NEW o \in Operation, BeginCall(h, o)
    PROVE  Contract!MakeCall
<1> USE DEF sharedVars, taskVars, monVars
<1>1. /\ index \in Nat /\ index + 1 \in Call
      /\ index' = index + 1
      /\ pending' \in {pending, pending \cup {index'}}
      /\ UNCHANGED <<state, nextGen, reader, writer, monPc, shutdown, sent>>
  BY BoundAssumption DEF IInv, TypeOK, BeginCall, Call
<1>2. index + 1 \notin pending /\ sent[index + 1] = 0
  <2>1. \A k \in Call : k \in Nat
    BY DEF Call
  <2> QED
    BY <1>1, <2>1 DEF IInv, TypeOK, CallsFresh
<1>3. UNCHANGED [k \in Call |-> CarrierOf(k)]
  BY <1>1, <1>2 DEF CarrierOf
<1>4. UNCHANGED Contract!linkVars
  BY <1>1 DEF Contract!linkVars, CurrentLink, Ended
<1> QED
  BY <1>1, <1>3, <1>4 DEF Contract!MakeCall

\* A message that is queued is carried by the link it was queued on, if a call
\* waits for its answer.
LEMMA QueueCarries ==
    ASSUME IInv, UnsentCalls, NEW h \in Handle, QueueMessage(h)
    PROVE  \/ \E k \in Call, g \in Gen : Contract!Carry(k, g)
           \/ UNCHANGED Contract!vars
<1> DEFINE k == key[h]
           g == conn[h]
<1>1. /\ hpc[h] = "holding"
      /\ sent' = [sent EXCEPT ![k] = g]
      /\ UNCHANGED <<state, nextGen, reader, writer, monPc, shutdown, pending, index>>
  BY DEF QueueMessage, sharedVars, monVars
<1>2. k \in Call /\ sent[k] = 0 /\ g \in Gen
  BY <1>1 DEF UnsentCalls, IInv, GenerationsStarted
<1>3. sent \in [Call -> Gen \cup {0}]
  BY DEF IInv, TypeOK
<1>4. UNCHANGED Contract!linkVars
  BY <1>1 DEF Contract!linkVars, CurrentLink, Ended
<1>5. CASE k \in pending
  <2>1. g = CurrentLink \/ monPc = "cancel" \/ shutdown
    BY <1>1, <1>5, StatesDiffer DEF IInv, HeldCallsCovered, CurrentLink
  <2>2. [j \in Call |-> CarrierOf(j)][k] = 0
    BY <1>2 DEF CarrierOf
  <2>3. [j \in Call |-> CarrierOf(j)]' = [[j \in Call |-> CarrierOf(j)] EXCEPT ![k] = g]
    BY <1>1, <1>2, <1>3, <1>5 DEF CarrierOf
  <2>4. Contract!Carry(k, g)
    BY <1>1, <1>4, <1>5, <2>1, <2>2, <2>3 DEF Contract!Carry
  <2> QED
    BY <1>2, <2>4
<1>6. CASE k \notin pending
  <2>1. UNCHANGED [j \in Call |-> CarrierOf(j)]
    BY <1>1, <1>3, <1>6 DEF CarrierOf
  <2> QED
    BY <1>1, <1>4, <2>1 DEF Contract!vars, Contract!callVars
<1> QED
  BY <1>5, <1>6

\* The other steps of a handle resolve calls, or shut the client down.
LEMMA HandleSteps ==
    ASSUME IInv, NEW h \in Handle, HandleProgress(h) \/ HandleChoice(h),
           \A o \in Operation : ~BeginCall(h, o), ~QueueMessage(h)
    PROVE  \/ Contract!Resolve \/ Contract!ShutDown \/ Contract!Abandon
           \/ UNCHANGED Contract!vars
<1> USE DEF sharedVars, taskVars, storeVars, handleVars, monVars
<1>1. CASE GracefulFlag(h) \/ DropFlag(h)
  <2>1. shutdown' = TRUE /\ CallsUnmoved
        /\ UNCHANGED <<state, nextGen, reader, writer, monPc>>
    BY <1>1 DEF GracefulFlag, DropFlag, CallsUnmoved
  <2>2. /\ UNCHANGED <<CurrentLink, nextGen - 1, Ended, monPc = "cancel">>
        /\ UNCHANGED Contract!callVars
    BY <2>1 DEF CurrentLink, Ended, Contract!callVars, CallsUnmoved, CarrierOf
  <2> QED
    BY <2>1, <2>2 DEF Contract!ShutDown
<1>2. CASE GracefulClear(h) \/ DropClear(h)
  <2>1. shutdown /\ state' = NotConnected /\ CallsUnmoved
        /\ UNCHANGED <<shutdown, nextGen, reader, writer, monPc>>
    BY <1>2 DEF GracefulClear, DropClear, CallsUnmoved, IInv, ClearingAnnounced
  <2>2. /\ CurrentLink' = 0
        /\ UNCHANGED <<nextGen - 1, Ended, monPc = "cancel", shutdown>>
        /\ UNCHANGED Contract!callVars
    BY <2>1, StatesDiffer DEF CurrentLink, Ended, Contract!callVars, CallsUnmoved, CarrierOf
  <2> QED
    BY <2>1, <2>2 DEF Contract!Abandon
<1>3. CASE RemoveFailedCall(h) \/ AbandonInvoke(h) \/ GracefulCancel(h)
  <2>1. /\ UNCHANGED <<state, nextGen, reader, writer, monPc, shutdown, index, sent>>
        /\ pending' \subseteq pending
    BY <1>3 DEF RemoveFailedCall, AbandonInvoke, GracefulCancel
  <2>2. LinkUnmoved
    BY <2>1 DEF LinkUnmoved, CurrentLink, Ended
  <2> QED
    BY <2>1, <2>2, ContractResolves DEF IInv
<1>4. CASE /\ ~GracefulFlag(h) /\ ~DropFlag(h) /\ ~GracefulClear(h) /\ ~DropClear(h)
           /\ ~RemoveFailedCall(h) /\ ~AbandonInvoke(h) /\ ~GracefulCancel(h)
  <2>1. UNCHANGED <<state, nextGen, reader, writer, monPc, shutdown, index, pending, sent>>
    BY <1>4 DEF HandleProgress, HandleChoice, CloneHandle, InstallHandler, ReplaceHandler,
      FindConnection, QueueFails, SerializeFails, ReturnFromInvoke, GracefulLook, GracefulClose,
      GracefulWaitEnds, AbandonGraceful, GracefulNotify, DropHandle, DropNotify,
      ReleaseHandle
  <2>2. LinkUnmoved /\ CallsUnmoved
    BY <2>1 DEF LinkUnmoved, CallsUnmoved, CurrentLink, Ended
  <2> QED
    BY <2>2, ContractStutters
<1> QED
  BY <1>1, <1>2, <1>3, <1>4

\* A task that ends breaks its link; the other steps of the tasks resolve calls
\* or are invisible.
LEMMA TaskSteps ==
    ASSUME IInv, NEW g \in Gen, Network(g) \/ TaskProgress(g)
    PROVE  Contract!Resolve \/ Contract!Break(g) \/ UNCHANGED Contract!vars
<1> USE DEF sharedVars, taskVars, storeVars, handleVars, monVars
<1>1. TypeOK /\ reader \in [Gen -> TaskState] /\ writer \in [Gen -> TaskState]
  BY DEF IInv, TypeOK
<1>2. CASE WriterFails(g) \/ ReaderEnds(g) \/ WriteClose(g) \/ AbortReader(g) \/ AbortWriter(g)
  <2>1. /\ \/ reader[g] = "running" /\ reader' = [reader EXCEPT ![g] = "stopped"]
               /\ UNCHANGED writer
           \/ writer[g] = "running" /\ writer' = [writer EXCEPT ![g] = "stopped"]
               /\ UNCHANGED reader
        /\ UNCHANGED <<state, nextGen, monPc, shutdown, index, pending, sent>>
    BY <1>2 DEF WriterFails, ReaderEnds, WriteClose, AbortReader, AbortWriter, StopReader,
      StopWriter
  <2>2. Ended' = Ended \cup {g}
    BY <1>1, <2>1 DEF Ended
  <2>3. g <= nextGen - 1
    <3>1. g \in Nat /\ nextGen \in Nat
      BY BoundAssumption DEF IInv, TypeOK, Gen
    <3>2. ~(g >= nextGen)
      BY <2>1 DEF IInv, GenerationsStarted
    <3> QED
      BY <3>1, <3>2
  <2>4. /\ UNCHANGED <<CurrentLink, nextGen - 1, monPc = "cancel", shutdown>>
        /\ UNCHANGED Contract!callVars
    BY <2>1 DEF CurrentLink, Contract!callVars, CarrierOf
  <2> QED
    BY <2>2, <2>3, <2>4 DEF Contract!Break
<1>3. CASE WriteMessage(g) \/ \E k \in Call : ReadCompletion(g, k)
  <2>1. /\ UNCHANGED <<state, nextGen, reader, writer, monPc, shutdown, index, sent>>
        /\ pending' \subseteq pending
    BY <1>3 DEF WriteMessage, ReadCompletion
  <2>2. LinkUnmoved
    BY <2>1 DEF LinkUnmoved, CurrentLink, Ended
  <2> QED
    BY <1>1, <2>1, <2>2, ContractResolves
<1> QED
  BY <1>2, <1>3 DEF Network, TaskProgress

\* The monitor gives up a broken link, settles its calls, and numbers and
\* publishes the next one.
LEMMA MonitorSteps ==
    ASSUME IInv, MonitorStep
    PROVE  \/ Contract!Lose \/ Contract!Settle \/ Contract!Number \/ Contract!Replace
           \/ UNCHANGED Contract!vars
<1> USE DEF sharedVars, taskVars, storeVars, handleVars, monVars
<1>1. TypeOK /\ state \in ConnectionState /\ nextGen \in Nat
      /\ reader \in [Gen -> TaskState] /\ writer \in [Gen -> TaskState]
  BY DEF IInv, TypeOK
<1>2. CASE MarkConnectionLost /\ state = Connected(monGen)
  <2>1. /\ monGen \in Ended /\ state.kind = "Connected" /\ state.gen = monGen
        /\ state'.kind # "Connected" /\ monPc' = "cancel"
        /\ UNCHANGED <<nextGen, reader, writer, shutdown, index, pending, sent>>
    BY <1>2, StatesDiffer DEF MarkConnectionLost, IInv, LossReportsTrue
  <2>2. /\ CurrentLink \in Ended /\ CurrentLink' = 0
        /\ UNCHANGED <<nextGen - 1, Ended, shutdown>>
        /\ UNCHANGED Contract!callVars
    BY <2>1 DEF CurrentLink, Ended, Contract!callVars, CarrierOf
  <2> QED
    BY <2>1, <2>2 DEF Contract!Lose
<1>3. CASE CancelLostCalls
  <2>1. /\ monPc = "cancel" /\ monPc' # "cancel" /\ pending' = {}
        /\ UNCHANGED <<state, nextGen, reader, writer, shutdown, index, sent>>
    BY <1>3 DEF CancelLostCalls, NextEvent
  <2>2. UNCHANGED <<CurrentLink, nextGen - 1, Ended, shutdown>>
    BY <2>1 DEF CurrentLink, Ended
  <2>3. [k \in Call |-> CarrierOf(k)]' =
            [k \in Call |-> IF k \in pending THEN 0 ELSE [j \in Call |-> CarrierOf(j)][k]]
    BY <2>1 DEF CarrierOf
  <2>4. Contract!Close(pending)
    BY <2>1, <2>3 DEF Contract!Close
  <2> QED
    BY <2>1, <2>2, <2>4 DEF Contract!Settle
<1>4. CASE NegotiateSucceeds
  <2>1. /\ monPc = "negotiate" /\ monPc' = "connect" /\ nextGen' = nextGen + 1
        /\ nextGen <= MaxGeneration /\ state.kind # "Connected"
        /\ UNCHANGED <<state, reader, writer, shutdown, index, pending, sent>>
    BY <1>4 DEF NegotiateSucceeds, IInv, OneCurrentConnection, Replacing
  <2>2. nextGen' - 1 = nextGen - 1 + 1 /\ nextGen' - 1 \in Gen
    BY <1>1, <2>1, BoundAssumption DEF Gen, IInv, TypeOK
  <2>3. /\ CurrentLink = 0
        /\ UNCHANGED <<CurrentLink, Ended, monPc = "cancel", shutdown>>
        /\ UNCHANGED Contract!callVars
    BY <2>1 DEF CurrentLink, Ended, Contract!callVars, CarrierOf
  <2> QED
    BY <2>1, <2>2, <2>3 DEF Contract!Number
<1>5. CASE PublishConnection
  <2>1. /\ monPc = "publish" /\ monPc' = "reconnected" /\ state' = Connected(monGen)
        /\ nextGen = monGen + 1 /\ monGen \in Gen /\ state.kind # "Connected"
        /\ UNCHANGED <<nextGen, reader, writer, shutdown, index, pending, sent>>
    BY <1>5 DEF PublishConnection, IInv, OneCurrentConnection, Replacing, GenerationsStarted
  <2>2. nextGen - 1 = monGen
    BY <2>1 DEF Gen
  <2>3. /\ CurrentLink = 0 /\ CurrentLink' = nextGen - 1
        /\ UNCHANGED <<nextGen - 1, Ended, monPc = "cancel", shutdown>>
        /\ UNCHANGED Contract!callVars
    BY <2>1, <2>2, StatesDiffer DEF CurrentLink, Ended, Contract!callVars, CarrierOf
  <2>4. shutdown \/ \A k \in pending : [j \in Call |-> CarrierOf(j)][k] = 0
    BY <1>1, <2>1, StatesDiffer DEF IInv, TypeOK, NoOrphan, CarrierOf
  <2> QED
    BY <2>1, <2>3, <2>4 DEF Contract!Replace
<1>6. CASE ConnectSucceeds
  <2>1. Ended' = Ended
    BY <1>1, <1>6 DEF ConnectSucceeds, IInv, GenerationsStarted, Ended
  <2>2. LinkUnmoved /\ CallsUnmoved
    BY <1>6, <2>1 DEF ConnectSucceeds, LinkUnmoved, CallsUnmoved, CurrentLink
  <2> QED
    BY <2>2, ContractStutters
<1>7. CASE CheckAttempts
  <2>1. CurrentLink = 0 /\ CurrentLink' = 0
    BY <1>7, StatesDiffer DEF CheckAttempts, IInv, OneCurrentConnection, Replacing, CurrentLink
  <2>2. LinkUnmoved /\ CallsUnmoved
    BY <1>7, <2>1 DEF CheckAttempts, NextEvent, LinkUnmoved, CallsUnmoved, Ended
  <2> QED
    BY <2>2, ContractStutters
<1>8. CASE /\ ~(MarkConnectionLost /\ state = Connected(monGen)) /\ ~CancelLostCalls
           /\ ~NegotiateSucceeds /\ ~PublishConnection /\ ~ConnectSucceeds
           /\ ~CheckAttempts
  <2>1. /\ UNCHANGED <<state, nextGen, reader, writer, shutdown, index, pending, sent>>
        /\ monPc # "cancel" /\ monPc' # "cancel"
    BY <1>8 DEF MonitorStep, ReceiveEvent, ChannelCloses, StopMonitor, MarkConnectionLost,
      NextEvent, RunReconnecting, WakeFromDelay, NegotiateFails, NextAttempt, ConnectFails,
      SkipReconnected, BeginReplay, EndReplay
  <2>2. LinkUnmoved /\ CallsUnmoved
    BY <2>1 DEF LinkUnmoved, CallsUnmoved, CurrentLink, Ended
  <2> QED
    BY <2>2, ContractStutters
<1> QED
  BY <1>2, <1>3, <1>4, <1>5, <1>6, <1>7, <1>8

-----------------------------------------------------------------------------
(* The refinement.                                                          *)

\* connect() returns in the initial state of the contract.
LEMMA ContractInit == Init => Contract!Init
<1> SUFFICES ASSUME Init PROVE Contract!Init
  OBVIOUS
<1>1. CurrentLink = 1 /\ nextGen - 1 = 1 /\ Ended = {}
  BY StatesDiffer DEF Init, CurrentLink, Ended
<1>2. [k \in Call |-> CarrierOf(k)] = [k \in Call |-> 0]
  BY DEF Init, CarrierOf
<1> QED
  BY <1>1, <1>2 DEF Init, Contract!Init

\* Every step is one of the contract, or none.
LEMMA ContractStep ==
    ASSUME IInv, UnsentCalls, [Next]_vars
    PROVE  [Contract!Next]_(Contract!vars)
<1>1. ASSUME NEW h \in Handle, HandleProgress(h) \/ HandleChoice(h)
      PROVE  [Contract!Next]_(Contract!vars)
  <2>1. CASE \E o \in Operation : BeginCall(h, o)
    BY <2>1, BeginMakesCall DEF Contract!Next
  <2>2. CASE QueueMessage(h)
    BY <2>2, QueueCarries DEF Contract!Next
  <2>3. CASE ~QueueMessage(h) /\ \A o \in Operation : ~BeginCall(h, o)
    BY <1>1, <2>3, HandleSteps DEF Contract!Next
  <2> QED
    BY <2>1, <2>2, <2>3
<1>2. ASSUME NEW g \in Gen, Network(g) \/ TaskProgress(g)
      PROVE  [Contract!Next]_(Contract!vars)
  BY <1>2, TaskSteps DEF Contract!Next
<1>3. CASE MonitorStep
  BY <1>3, MonitorSteps DEF Contract!Next
<1>4. CASE DisposeStorage
  <2>1. LinkUnmoved /\ UNCHANGED <<index, sent>> /\ pending' \subseteq pending
    BY <1>4 DEF DisposeStorage, LinkUnmoved, CurrentLink, Ended, sharedVars, taskVars, monVars
  <2> QED
    BY <2>1, ContractResolves DEF IInv, Contract!Next
<1>5. CASE Terminated \/ UNCHANGED vars
  <2>1. LinkUnmoved /\ CallsUnmoved
    BY <1>5 DEF Terminated, vars, sharedVars, taskVars, storeVars, monVars, LinkUnmoved,
      CallsUnmoved, CurrentLink, Ended
  <2> QED
    BY <2>1, ContractStutters
<1> QED
  BY <1>1, <1>2, <1>3, <1>4, <1>5 DEF Next

\* For any handles, generations, calls and limits the client keeps its contract
\* with the calls: links are given up only when broken or in a shutdown, and
\* replaced only after every call they carried was settled.
THEOREM ConnectionContractIsKept == Spec => KeepsContract
<1>1. Init => Contract!Init
  BY ContractInit
<1>2. IInv /\ UnsentCalls /\ [Next]_vars => [Contract!Next]_(Contract!vars)
  BY ContractStep
<1> QED
  BY <1>1, <1>2, Invariant, UnsentInvariant, PTL DEF Spec, KeepsContract, Contract!Spec
=============================================================================
