---------------------------- MODULE CallContract ----------------------------
(***************************************************************************)
(* What invoke and enumerate promise their caller, whatever the storage,   *)
(* the futures and the tasks behind them do: a call is a channel.  What is *)
(* put into it before it is closed is taken out once, in order; it is      *)
(* closed once; and its caller is told the end only after everything else. *)
(* An invocation carries at most one value, and its end comes with it.     *)
(***************************************************************************)
EXTENDS Integers, Sequences

CONSTANTS
    Call,    \* all calls
    Stream,  \* those of them made by enumerate; the others are invocations
    Item     \* what a call can carry

VARIABLES
    put,     \* put[k]: everything put into k, in order
    taken,   \* taken[k]: how much of it the caller of k has taken
    closed,  \* the calls nothing can be put into any more
    caller   \* caller[k]: "waits", has seen the end ("done"), or "left"

vars == <<put, taken, closed, caller>>

Init ==
    /\ put = [k \in Call |-> <<>>]
    /\ taken = [k \in Call |-> 0]
    /\ closed = {}
    /\ caller = [k \in Call |-> "waits"]

\* An item of a stream.
Produce(k, i) ==
    /\ k \in Stream \ closed
    /\ put' = [put EXCEPT ![k] = Append(@, i)]
    /\ UNCHANGED <<taken, closed, caller>>

\* The answer of an invocation is its only item and its end.
Answer(k, i) ==
    /\ k \in (Call \ Stream) \ closed
    /\ put' = [put EXCEPT ![k] = <<i>>]
    /\ closed' = closed \cup {k}
    /\ UNCHANGED <<taken, caller>>

\* Calls end without an answer: any number of them at once.
End(S) ==
    /\ S # {}
    /\ closed' = closed \cup S
    /\ UNCHANGED <<put, taken, caller>>

Take(k) ==
    /\ k \in Stream
    /\ caller[k] = "waits"
    /\ taken[k] < Len(put[k])
    /\ taken' = [taken EXCEPT ![k] = @ + 1]
    /\ UNCHANGED <<put, closed, caller>>

Finish(k) ==
    /\ k \in closed
    /\ caller[k] = "waits"
    /\ k \in Stream => taken[k] = Len(put[k])
    /\ taken' = [taken EXCEPT ![k] = Len(put[k])]
    /\ caller' = [caller EXCEPT ![k] = "done"]
    /\ UNCHANGED <<put, closed>>

\* The caller gives up; an invocation is then closed by the cleanup.
Leave(k) ==
    /\ caller[k] = "waits"
    /\ caller' = [caller EXCEPT ![k] = "left"]
    /\ UNCHANGED <<put, taken, closed>>

Next ==
    \/ \E k \in Call :
          \/ \E i \in Item : Produce(k, i) \/ Answer(k, i)
          \/ Take(k) \/ Finish(k) \/ Leave(k)
    \/ \E S \in SUBSET Call : End(S)

Spec == Init /\ [][Next]_vars
=============================================================================
