------------------------- MODULE ConnectionContract -------------------------
(***************************************************************************)
(* What the calls of a client may rely on, without its tasks, its monitor  *)
(* and its handles: there is at most one link; a link that breaks is given *)
(* up, and nothing else is, until the client shuts down; the calls it      *)
(* carried are settled before there is a new one, which has a new number.  *)
(* ConnectionLifecycle implements it.                                      *)
(***************************************************************************)
EXTENDS Integers

CONSTANTS
    Gen,   \* numbers of links
    Call   \* ids of calls

VARIABLES
    link,      \* the number of the link, or 0 while there is none
    numbered,  \* the highest number given to a link
    broken,    \* the links that have broken
    settling,  \* a link was given up, and its calls are not settled yet
    over,      \* the client has begun to shut down
    last,      \* the highest id given to a call
    open,      \* the calls that wait for their result
    carrier    \* carrier[k]: the link that carries the open call k, or 0

linkVars == <<link, numbered, broken, settling, over>>
callVars == <<last, open, carrier>>
vars     == <<linkVars, callVars>>

Init ==
    /\ link = 1 /\ numbered = 1 /\ broken = {}
    /\ settling = FALSE /\ over = FALSE
    /\ last = 0 /\ open = {} /\ carrier = [k \in Call |-> 0]

-----------------------------------------------------------------------------
\* A call is made; one that expects no result is never open.
MakeCall ==
    /\ last' = last + 1 /\ last' \in Call
    /\ open' \in {open, open \cup {last'}}
    /\ UNCHANGED <<linkVars, carrier>>

\* An open call goes out on a link: the current one, or the one just given up,
\* with its settlement still to come.
Carry(k, g) ==
    /\ k \in open /\ carrier[k] = 0
    /\ g = link \/ settling \/ over
    /\ carrier' = [carrier EXCEPT ![k] = g]
    /\ UNCHANGED <<linkVars, last, open>>

\* Calls get their results, or are given up by their owners.
Close(S) ==
    /\ open' = open \ S
    /\ carrier' = [k \in Call |-> IF k \in S THEN 0 ELSE carrier[k]]
    /\ UNCHANGED last

Resolve ==
    /\ \E S \in SUBSET open : Close(S)
    /\ UNCHANGED linkVars

\* A link breaks, which nobody may have noticed yet.
Break(g) ==
    /\ g <= numbered
    /\ broken' = broken \cup {g}
    /\ UNCHANGED <<link, numbered, settling, over, callVars>>

\* The link is given up, for it has broken.
Lose ==
    /\ link \in broken
    /\ link' = 0
    /\ settling' = TRUE
    /\ UNCHANGED <<numbered, broken, over, callVars>>

\* Every call that is open is settled.
Settle ==
    /\ settling
    /\ settling' = FALSE
    /\ Close(open)
    /\ UNCHANGED <<link, numbered, broken, over>>

\* An attempt to replace the link takes the next number.
Number ==
    /\ link = 0 /\ ~settling
    /\ numbered' = numbered + 1 /\ numbered' \in Gen
    /\ UNCHANGED <<link, broken, settling, over, callVars>>

\* The attempt succeeds: no call waits for an answer of an earlier link.
Replace ==
    /\ link = 0 /\ ~settling
    /\ link' = numbered
    /\ over \/ \A k \in open : carrier[k] = 0
    /\ UNCHANGED <<numbered, broken, settling, over, callVars>>

\* The client shuts down, and may give up the link with its calls open.
ShutDown ==
    /\ over' = TRUE
    /\ UNCHANGED <<link, numbered, broken, settling, callVars>>

Abandon ==
    /\ over
    /\ link' = 0
    /\ UNCHANGED <<numbered, broken, settling, over, callVars>>

Next ==
    \/ MakeCall
    \/ \E k \in Call, g \in Gen : Carry(k, g)
    \/ Resolve
    \/ \E g \in Gen : Break(g)
    \/ Lose \/ Settle \/ Number \/ Replace \/ ShutDown \/ Abandon

Spec == Init /\ [][Next]_vars
=============================================================================
