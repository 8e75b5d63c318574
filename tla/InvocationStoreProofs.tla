----------------------- MODULE InvocationStoreProofs -----------------------
(***************************************************************************)
(* Proofs about InvocationStore for every number of calls, tasks and       *)
(* items: each future is completed once, an action that leaves the storage *)
(* closes its call, a sleeping owner has been told everything, nothing is  *)
(* left behind, and calls keep the contract of CallContract.               *)
(***************************************************************************)
EXTENDS InvocationStore, SequenceTheorems, TLAPS

\* What holds of one invocation at any time: its completer is there as long
\* as its action and its open future are, an open future has no value, and its
\* owner is where the future lets it be.
InvocationOK(k) ==
    /\ k \in completer <=> k \in data /\ ~Closed(k)
    /\ ~Closed(k) => value[k] = "none"
    /\ caller[k] = "new" => k \notin data /\ ~Closed(k)
    /\ caller[k] # "new" /\ k \notin data => Closed(k)
    /\ caller[k] # "empty"
    /\ caller[k] = "parked" => ~Closed(k) /\ waker[k] = task[k]
    /\ caller[k] \in {"returned", "left"} => k \notin data
    /\ future[k] = "taken" => caller[k] \in {"cleaning", "returned"}
    /\ caller[k] \in {"cleaning", "returned"} => Closed(k)

HasEnd(q) == \E i \in 1 .. Len(q) : q[i] = End

\* A queue holds items, and then any number of ends.
ItemsThenEnds(q) == \E n \in 0 .. Len(q) : \A i \in 1 .. Len(q) : q[i] = End <=> n < i

\* What holds of one stream at any time.
StreamOK(k) ==
    /\ ItemsThenEnds(queue[k])
    /\ caller[k] = "new" => k \notin data /\ queue[k] = <<>>
    /\ caller[k] # "new" /\ k \notin data => Closed(k)
    /\ k \in data /\ Closed(k) => k \in removing
    /\ k \in locked <=> caller[k] = "empty"
    /\ caller[k] = "empty" => queue[k] = <<>>
    /\ caller[k] = "parked" => queue[k] = <<>> /\ waker[k] = task[k]
    /\ caller[k] \notin {"cleaning", "leaving"}

StoreInv ==
    /\ TypeOK
    /\ ~panicked
    /\ \A k \in Invocation : InvocationOK(k)
    /\ \A k \in Stream : StreamOK(k)

-----------------------------------------------------------------------------
(* Queues.                                                                  *)

\* The ends that a critical section pushes.
Ends == {<<End>>, <<End, End>>}

\* An item is not the end.
LEMMA ItemNoEnd == End \notin Item /\ \A i \in Item : i # End
BY DEF End, Item

\* A concatenation, element by element.
LEMMA ConcatElements ==
    ASSUME NEW S, NEW q \in Seq(S), NEW e \in Seq(S)
    PROVE  /\ q \o e \in Seq(S)
           /\ Len(q \o e) = Len(q) + Len(e)
           /\ \A i \in 1 .. Len(q) : (q \o e)[i] = q[i]
           /\ \A i \in 1 .. Len(e) : (q \o e)[Len(q) + i] = e[i]
           /\ \A i \in 1 .. Len(q \o e) : i > Len(q) => (q \o e)[i] = e[i - Len(q)]
OBVIOUS

\* push of the End that closes a queue, once or twice, changes nothing before
\* the first one.
LEMMA PushEnds ==
    ASSUME NEW q \in Seq(Item \cup {End}), NEW e \in Ends
    PROVE  /\ q \o e \in Seq(Item \cup {End})
           /\ q \o e # <<>>
           /\ HasEnd(q \o e)
           /\ ItemsThenEnds(q) => ItemsThenEnds(q \o e)
           /\ Ahead(q \o e) = Ahead(q)
<1>1. /\ e \in Seq({End}) /\ e \in Seq(Item \cup {End})
      /\ Len(e) \in Nat \ {0}
      /\ \A i \in 1 .. Len(e) : e[i] = End
  <2>1. CASE e = <<End>>
    BY <2>1
  <2>2. CASE e = <<End, End>>
    BY <2>2
  <2> QED
    BY <2>1, <2>2 DEF Ends
<1> DEFINE r == q \o e
<1>2. /\ r \in Seq(Item \cup {End})
      /\ Len(r) = Len(q) + Len(e)
      /\ \A i \in 1 .. Len(q) : r[i] = q[i]
      /\ \A i \in 1 .. Len(r) : i > Len(q) => r[i] = e[i - Len(q)]
  BY <1>1, ConcatElements
<1>3. Len(q) \in Nat
  OBVIOUS
<1>4. \A i \in 1 .. Len(r) : i > Len(q) => r[i] = End
  BY <1>1, <1>2, <1>3
<1> HIDE DEF r
<1>5. HasEnd(r) /\ r # <<>>
  <2>1. Len(q) + 1 \in 1 .. Len(r)
    BY <1>1, <1>2, <1>3
  <2> QED
    BY <1>3, <1>4, <2>1 DEF HasEnd
<1>6. ASSUME ItemsThenEnds(q) PROVE ItemsThenEnds(r)
  <2>1. PICK n \in 0 .. Len(q) : \A i \in 1 .. Len(q) : q[i] = End <=> n < i
    BY <1>6 DEF ItemsThenEnds
  <2>2. n \in 0 .. Len(r)
    BY <1>1, <1>2, <1>3
  <2>3. \A i \in 1 .. Len(r) : r[i] = End <=> n < i
    BY <1>1, <1>2, <1>3, <1>4, <2>1
  <2> QED
    BY <2>2, <2>3 DEF ItemsThenEnds
<1>7. Ahead(r) = Ahead(q)
  <2>1. ASSUME NEW j \in 1 .. Len(r), \A l \in 1 .. j : r[l] # End
        PROVE  j \in 1 .. Len(q) /\ \A l \in 1 .. j : q[l] # End
    <3>1. j \in 1 .. j
      OBVIOUS
    <3>2. j <= Len(q)
      BY <1>3, <1>4, <2>1, <3>1
    <3> QED
      BY <1>2, <1>3, <2>1, <3>2
  <2>2. ASSUME NEW j \in 1 .. Len(q), \A l \in 1 .. j : q[l] # End
        PROVE  j \in 1 .. Len(r) /\ \A l \in 1 .. j : r[l] # End
    BY <1>1, <1>2, <1>3, <2>2
  <2>3. {j \in 1 .. Len(r) : \A l \in 1 .. j : r[l] # End}
            = {j \in 1 .. Len(q) : \A l \in 1 .. j : q[l] # End}
    BY <2>1, <2>2
  <2>4. \A j \in {j \in 1 .. Len(q) : \A l \in 1 .. j : q[l] # End} : r[j] = q[j]
    BY <1>2
  <2> QED
    BY <2>3, <2>4 DEF Ahead
<1> QED
  BY <1>2, <1>5, <1>6, <1>7 DEF r

\* An open queue is what is ahead of its end.
LEMMA AheadOfOpen ==
    ASSUME NEW q \in Seq(Item \cup {End}), ~HasEnd(q)
    PROVE  Ahead(q) = q /\ q \in Seq(Item) /\ ItemsThenEnds(q)
<1>1. \A j \in 1 .. Len(q) : q[j] # End /\ q[j] \in Item
  BY DEF HasEnd
<1>2. {j \in 1 .. Len(q) : \A l \in 1 .. j : q[l] # End} = 1 .. Len(q)
  BY <1>1
<1>3. q \in Seq(Item)
  BY <1>1
<1>4. Ahead(q) = q
  <2>1. Ahead(q) = [j \in 1 .. Len(q) |-> q[j]]
    BY <1>2 DEF Ahead
  <2> QED
    BY <2>1, LenProperties
<1>5. ItemsThenEnds(q)
  <2>1. Len(q) \in 0 .. Len(q)
    OBVIOUS
  <2>2. \A i \in 1 .. Len(q) : q[i] = End <=> Len(q) < i
    BY <1>1
  <2> QED
    BY <2>1, <2>2 DEF ItemsThenEnds
<1> QED
  BY <1>3, <1>4, <1>5

\* push of an item to an open queue leaves it open.
LEMMA PushItem ==
    ASSUME NEW q \in Seq(Item \cup {End}), ~HasEnd(q), NEW i \in Item
    PROVE  /\ q \o <<i>> = Append(q, i)
           /\ q \o <<i>> \in Seq(Item \cup {End})
           /\ q \o <<i>> # <<>>
           /\ ~HasEnd(q \o <<i>>)
<1>1. q \o <<i>> \in Seq(Item \cup {End}) /\ Len(q \o <<i>>) = Len(q) + 1
  OBVIOUS
<1>2. q \o <<i>> = Append(q, i)
  OBVIOUS
<1>3. \A j \in 1 .. Len(q \o <<i>>) : (q \o <<i>>)[j] # End
  BY ItemNoEnd DEF HasEnd
<1> QED
  BY <1>1, <1>2, <1>3 DEF HasEnd

\* What is appended to the second of two sequences is appended to both.
LEMMA AppendAcross ==
    ASSUME NEW S, NEW c \in Seq(S), NEW q \in Seq(S), NEW i \in S
    PROVE  c \o Append(q, i) = Append(c \o q, i)
<1>1. Append(q, i) = q \o <<i>> /\ Append(c \o q, i) = (c \o q) \o <<i>>
  BY AppendIsConcat, ConcatProperties
<1>2. <<i>> \in Seq(S)
  OBVIOUS
<1>3. (c \o q) \o <<i>> = c \o (q \o <<i>>)
  BY <1>2, ConcatAssociative
<1> QED
  BY <1>1, <1>3

\* The sequence u is h followed by t.
HeadThen(u, h, t) ==
    Len(u) = Len(t) + 1 /\ u[1] = h /\ \A i \in 1 .. Len(t) : t[i] = u[i + 1]

\* What is taken off the front of one sequence and put at the end of another is
\* where it was when the two are joined.
LEMMA MoveHead ==
    ASSUME NEW c \in Seq(Item), NEW h \in Item, NEW u \in Seq(Item), NEW t \in Seq(Item),
           HeadThen(u, h, t)
    PROVE  Append(c, h) \o t = c \o u
<1> USE DEF HeadThen
<1> DEFINE d == Append(c, h)
<1>1. d \in Seq(Item) /\ Len(d) = Len(c) + 1 /\ d[Len(d)] = h /\ \A i \in 1 .. Len(c) : d[i] = c[i]
  OBVIOUS
<1>2. Len(c) \in Nat /\ Len(t) \in Nat
  OBVIOUS
<1> HIDE DEF d
<1> DEFINE x == d \o t
           y == c \o u
<1>3. /\ x \in Seq(Item) /\ Len(x) = Len(d) + Len(t)
      /\ \A i \in 1 .. Len(d) + Len(t) : x[i] = IF i <= Len(d) THEN d[i] ELSE t[i - Len(d)]
  BY <1>1, ConcatProperties
<1>4. /\ y \in Seq(Item) /\ Len(y) = Len(c) + Len(u)
      /\ \A i \in 1 .. Len(c) + Len(u) : y[i] = IF i <= Len(c) THEN c[i] ELSE u[i - Len(c)]
  BY ConcatProperties
<1> HIDE DEF x, y
<1>5. Len(x) = Len(y)
  BY <1>1, <1>2, <1>3, <1>4
<1>6. ASSUME NEW i \in 1 .. Len(x) PROVE x[i] = y[i]
  <2>1. CASE i <= Len(c)
    <3>1. i \in 1 .. Len(c) /\ i <= Len(d) /\ i \in 1 .. Len(d) + Len(t) /\ i \in 1 .. Len(c) + Len(u)
      BY <1>1, <1>2, <1>3, <2>1
    <3>2. x[i] = d[i] /\ d[i] = c[i]
      BY <1>1, <1>3, <3>1
    <3>3. y[i] = c[i]
      BY <1>4, <2>1, <3>1
    <3> QED
      BY <3>2, <3>3
  <2>2. CASE i = Len(c) + 1
    BY <1>1, <1>2, <1>3, <1>4, <2>2
  <2>3. CASE i > Len(c) + 1
    <3>1. i - Len(d) \in 1 .. Len(t) /\ i - Len(d) + 1 = i - Len(c)
      BY <1>1, <1>2, <1>3, <2>3
    <3>2. t[i - Len(d)] = u[i - Len(c)]
      BY <3>1
    <3> QED
      BY <1>1, <1>2, <1>3, <1>4, <2>3, <3>2
  <2> QED
    BY <1>2, <1>3, <2>1, <2>2, <2>3
<1>7. x = y
  BY <1>3, <1>4, <1>5, <1>6, SeqEqual
<1> QED
  BY <1>7 DEF x, y, d

\* The first m elements of a sequence, as Ahead takes them.
LEMMA Elements ==
    ASSUME NEW m \in Nat, NEW s, \A i \in 1 .. m : s[i] \in Item
    PROVE  /\ [i \in 1 .. m |-> s[i]] \in Seq(Item)
           /\ Len([i \in 1 .. m |-> s[i]]) = m
OBVIOUS

\* pop_front of a queue that is not empty.
LEMMA PopQueue ==
    ASSUME NEW q \in Seq(Item \cup {End}), q # <<>>, ItemsThenEnds(q)
    PROVE  /\ Head(q) \in Item \cup {End}
           /\ Tail(q) \in Seq(Item \cup {End})
           /\ ItemsThenEnds(Tail(q))
           /\ Head(q) = End => HasEnd(q) /\ Ahead(q) = <<>> /\ Ahead(Tail(q)) = <<>>
           /\ Head(q) # End => HasEnd(Tail(q)) <=> HasEnd(q)
           /\ Head(q) # End => \A c \in Seq(Item) :
                 /\ Append(c, Head(q)) \o Ahead(Tail(q)) = c \o Ahead(q)
                 /\ Len(c) < Len(c \o Ahead(q))
<1> DEFINE r == Tail(q)
<1>1. /\ Head(q) = q[1] /\ Head(q) \in Item \cup {End}
      /\ r \in Seq(Item \cup {End})
      /\ Len(q) \in Nat \ {0} /\ Len(r) = Len(q) - 1
      /\ \A i \in 1 .. Len(r) : r[i] = q[i + 1]
  BY HeadTailProperties, EmptySeq
<1>2. PICK n \in 0 .. Len(q) : \A i \in 1 .. Len(q) : q[i] = End <=> n < i
  BY DEF ItemsThenEnds
<1> HIDE DEF r
<1>3. ASSUME NEW s \in Seq(Item \cup {End}), NEW m \in 0 .. Len(s),
             \A i \in 1 .. Len(s) : s[i] = End <=> m < i
      PROVE  Ahead(s) = [i \in 1 .. m |-> s[i]]
  <2>1. \A j \in 1 .. Len(s) : (\A l \in 1 .. j : s[l] # End) => j <= m
    <3> SUFFICES ASSUME NEW j \in 1 .. Len(s), \A l \in 1 .. j : s[l] # End
                 PROVE  j <= m
      OBVIOUS
    <3>1. s[j] # End
      OBVIOUS
    <3> QED
      BY <1>3, <3>1
  <2>2. \A j \in 1 .. m : j \in 1 .. Len(s) /\ \A l \in 1 .. j : s[l] # End
    BY <1>3
  <2>3. {j \in 1 .. Len(s) : \A l \in 1 .. j : s[l] # End} = 1 .. m
    BY <2>1, <2>2
  <2> QED
    BY <2>3 DEF Ahead
<1>4. Ahead(q) = [i \in 1 .. n |-> q[i]]
  BY <1>2, <1>3
<1>5. CASE Head(q) = End
  <2>1. n = 0
    BY <1>1, <1>2, <1>5
  <2>2. \A i \in 1 .. Len(r) : r[i] = End <=> 0 < i
    BY <1>1, <1>2, <2>1
  <2>3. 0 \in 0 .. Len(r)
    BY <1>1
  <2>4. ItemsThenEnds(r) /\ Ahead(r) = [i \in 1 .. 0 |-> r[i]]
    BY <1>1, <1>3, <2>2, <2>3 DEF ItemsThenEnds
  <2>5. HasEnd(q)
    BY <1>1, <1>5 DEF HasEnd
  <2> QED
    BY <1>1, <1>4, <1>5, <2>1, <2>4, <2>5 DEF r
<1>6. CASE Head(q) # End
  <2>1. n \in 1 .. Len(q)
    BY <1>1, <1>2, <1>6
  <2>2. n - 1 \in 0 .. Len(r) /\ \A i \in 1 .. Len(r) : r[i] = End <=> n - 1 < i
    BY <1>1, <1>2, <2>1
  <2>3. ItemsThenEnds(r) /\ Ahead(r) = [i \in 1 .. n - 1 |-> r[i]]
    BY <1>1, <1>3, <2>2 DEF ItemsThenEnds
  <2>4. HasEnd(r) <=> HasEnd(q)
    <3>1. ASSUME NEW i \in 1 .. Len(q), q[i] = End
          PROVE  i - 1 \in 1 .. Len(r) /\ r[i - 1] = End
      BY <1>1, <1>6, <3>1
    <3>2. ASSUME NEW i \in 1 .. Len(r), r[i] = End
          PROVE  i + 1 \in 1 .. Len(q) /\ q[i + 1] = End
      BY <1>1, <3>2
    <3> QED
      BY <3>1, <3>2 DEF HasEnd
  <2>5. ASSUME NEW c \in Seq(Item)
        PROVE  /\ Append(c, Head(q)) \o Ahead(r) = c \o Ahead(q)
               /\ Len(c) < Len(c \o Ahead(q))
    <3>1. Len(c) \in Nat /\ n \in Nat \ {0} /\ \A i \in 1 .. n : q[i] \in Item
      BY <1>1, <1>2, <2>1
    <3>2. Ahead(q) \in Seq(Item) /\ Len(Ahead(q)) = n
      BY <1>4, <2>1, <3>1
    <3>3. Ahead(r) \in Seq(Item) /\ Len(Ahead(r)) = n - 1
      <4>1. n - 1 \in Nat /\ \A i \in 1 .. n - 1 : r[i] \in Item
        BY <1>1, <2>1, <3>1
      <4> QED
        BY <2>3, <4>1, Elements
    <3>4. Append(c, Head(q)) \in Seq(Item) /\ Len(Append(c, Head(q))) = Len(c) + 1
      <4> DEFINE h == Head(q)
      <4>1. h \in Item
        BY <1>1, <1>6
      <4> HIDE DEF h
      <4>2. Append(c, h) \in Seq(Item) /\ Len(Append(c, h)) = Len(c) + 1
        BY <4>1
      <4> QED
        BY <4>2 DEF h
    <3>5. Ahead(q)[1] = Head(q) /\ \A i \in 1 .. n - 1 : Ahead(r)[i] = Ahead(q)[i + 1]
      <4>1. Ahead(q)[1] = Head(q)
        BY <1>1, <1>4, <3>1
      <4>2. ASSUME NEW i \in 1 .. n - 1 PROVE Ahead(r)[i] = Ahead(q)[i + 1]
        <5>1. Ahead(r)[i] = r[i] /\ Ahead(q)[i + 1] = q[i + 1]
          BY <1>4, <2>3, <3>1
        <5>2. r[i] = q[i + 1]
          BY <1>1, <2>1, <3>1
        <5> QED
          BY <5>1, <5>2
      <4> QED
        BY <4>1, <4>2
    <3>6. Append(c, Head(q)) \o Ahead(r) = c \o Ahead(q)
      <4> DEFINE h == Head(q)
                 u == Ahead(q)
                 t == Ahead(r)
      <4>1. h \in Item
        BY <1>1, <1>6
      <4>2. u \in Seq(Item) /\ t \in Seq(Item)
        BY <3>2, <3>3
      <4>3. Len(u) = Len(t) + 1 /\ u[1] = h
        BY <3>1, <3>2, <3>3, <3>5
      <4>4. \A i \in 1 .. Len(t) : t[i] = u[i + 1]
        BY <3>3, <3>5
      <4> HIDE DEF h, u, t
      <4>5. HeadThen(u, h, t)
        BY <4>3, <4>4 DEF HeadThen
      <4>6. Append(c, h) \o t = c \o u
        BY <4>1, <4>2, <4>5, MoveHead
      <4> QED
        BY <4>6 DEF h, u, t
    <3>7. Len(c) < Len(c \o Ahead(q))
      BY <3>1, <3>2
    <3> QED
      BY <3>6, <3>7
  <2> QED
    BY <1>1, <1>6, <2>3, <2>4, <2>5 DEF r
<1> QED
  BY <1>5, <1>6

-----------------------------------------------------------------------------
(* The critical sections.                                                   *)

\* Complete completes the open futures among those of S, none a second time.
LEMMA CompleteEffect ==
    ASSUME StoreInv, NEW S, NEW v \in {"answer", "error"}, Complete(S, v)
    PROVE  /\ ~panicked' /\ panicked' \in BOOLEAN
           /\ completer' = completer \ S
           /\ future' \in [Invocation -> {"incomplete", "waiting", "complete", "taken"}]
           /\ value' \in [Invocation -> {"none", "answer", "error"}]
           /\ \A k \in Invocation :
                 /\ k \in S \cap completer => future'[k] = "complete" /\ value'[k] = v
                 /\ k \notin S \cap completer => future'[k] = future[k] /\ value'[k] = value[k]
<1>1. \A k \in completer : k \in Invocation /\ future[k] \notin {"complete", "taken"}
  BY StoreAssumption DEF StoreInv, TypeOK, InvocationOK, Closed
<1>2. ~panicked' /\ panicked' \in BOOLEAN
  BY <1>1 DEF Complete, StoreInv
<1>3. completer' = completer \ S
  BY DEF Complete
<1> QED
  BY <1>2, <1>3 DEF Complete, StoreInv, TypeOK

\* Push of ends closes the queues of D.
LEMMA PushEffect ==
    ASSUME StoreInv, NEW D \in SUBSET Stream, NEW e \in Ends, Push(D, e)
    PROVE  /\ queue' \in [Stream -> Seq(Item \cup {End})]
           /\ D \cap locked = {}
           /\ \A k \in D : /\ HasEnd(queue'[k])
                           /\ ItemsThenEnds(queue'[k])
                           /\ Ahead(queue'[k]) = Ahead(queue[k])
           /\ \A k \in Stream \ D : queue'[k] = queue[k]
<1>1. \A k \in Stream : queue[k] \in Seq(Item \cup {End}) /\ ItemsThenEnds(queue[k])
  BY DEF StoreInv, TypeOK, StreamOK
<1>2. \A k \in D : queue'[k] = queue[k] \o e
  BY DEF Push
<1>3. \A k \in Stream \ D : queue'[k] = queue[k]
  BY DEF Push
<1>4. \A k \in D : /\ queue'[k] \in Seq(Item \cup {End})
                   /\ HasEnd(queue'[k]) /\ ItemsThenEnds(queue'[k])
                   /\ Ahead(queue'[k]) = Ahead(queue[k])
  BY <1>1, <1>2, PushEnds
<1>5. queue' \in [Stream -> Seq(Item \cup {End})]
  <2>1. \A k \in Stream : queue'[k] \in Seq(Item \cup {End})
    BY <1>1, <1>3, <1>4
  <2>2. queue' = [k \in Stream |-> queue'[k]]
    BY DEF Push
  <2> QED
    BY <2>1, <2>2
<1> QED
  BY <1>3, <1>4, <1>5 DEF Push

\* Wake makes the sleeping owners of S run, and no other owner moves.
LEMMA WakeEffect ==
    ASSUME StoreInv, NEW S, Wake(S)
    PROVE  /\ waker' \in [Call -> Task \cup {NoTask}]
           /\ caller' \in [Call -> CallerState]
           /\ \A k \in Call :
                 /\ k \notin S => waker'[k] = waker[k] /\ caller'[k] = caller[k]
                 /\ k \in S /\ caller[k] = "parked" => caller'[k] = "ready"
                 /\ caller[k] # "parked" => caller'[k] = caller[k]
<1>1. \A k \in Call : caller[k] = "parked" => waker[k] = task[k]
  BY DEF StoreInv, InvocationOK, StreamOK, Call
<1> QED
  BY <1>1 DEF Wake, StoreInv, TypeOK, CallerState

\* A section that drops the actions of D and wakes their owners: remove after a
\* completion, cancel_pending, and dispose.
LEMMA DropKeeps ==
    ASSUME StoreInv,
           NEW D \in SUBSET data, NEW e \in Ends,
           data' = data \ D, Complete(D, "error"), Push(D \cap Stream, e), Wake(Touched(D)),
           UNCHANGED ownerVars, UNCHANGED server, disposed' \in BOOLEAN,
           removing' \subseteq removing, removing \cap data \subseteq removing' \cup D
    PROVE  StoreInv'
<1>1. D \subseteq Call /\ D \cap Stream \subseteq Stream
  BY DEF StoreInv, TypeOK
<1>2. TypeOK' /\ ~panicked'
  <2>1. ~panicked' /\ completer' \subseteq Invocation
    BY CompleteEffect DEF StoreInv, TypeOK
  <2>2. queue' \in [Stream -> Seq(Item \cup {End})]
    BY PushEffect
  <2> QED
    BY <2>1, <2>2, CompleteEffect, WakeEffect DEF StoreInv, TypeOK, ownerVars, Complete
<1>3. ASSUME NEW k \in Invocation PROVE InvocationOK(k)'
  <2>1. InvocationOK(k) /\ k \in Call /\ k \notin Stream
    BY StoreAssumption DEF StoreInv, Call
  <2>2. CASE k \in D
    <3>1. k \notin data' /\ k \notin completer' /\ task'[k] = task[k]
      BY <2>2, CompleteEffect DEF ownerVars
    <3>2. future'[k] = IF k \in completer THEN "complete" ELSE future[k]
      BY <2>2, CompleteEffect
    <3>3. future'[k] \in {"complete", "taken"}
      BY <2>1, <2>2, <3>2 DEF InvocationOK, Closed
    <3>4. caller[k] # "parked" \/ k \in Touched(D)
      BY <2>1, <2>2 DEF InvocationOK, Closed, Touched
    <3>5. caller'[k] = IF caller[k] = "parked" THEN "ready" ELSE caller[k]
      BY <2>1, <3>4, WakeEffect
    <3>6. caller[k] # "new" /\ (future'[k] = "taken" => future[k] = "taken")
      BY <2>1, <2>2, <3>2 DEF InvocationOK
    <3> QED
      BY <2>1, <2>2, <3>1, <3>3, <3>5, <3>6 DEF InvocationOK, Closed
  <2>3. CASE k \notin D
    <3>1. /\ k \in data' <=> k \in data
          /\ k \in completer' <=> k \in completer
          /\ future'[k] = future[k] /\ value'[k] = value[k] /\ task'[k] = task[k]
      BY <2>3, CompleteEffect DEF ownerVars
    <3>2. caller'[k] = caller[k] /\ waker'[k] = waker[k]
      BY <2>1, <2>3, WakeEffect DEF Touched
    <3> QED
      BY <2>1, <3>1, <3>2 DEF InvocationOK, Closed
  <2> QED
    BY <2>2, <2>3
<1>4. ASSUME NEW k \in Stream PROVE StreamOK(k)'
  <2>1. StreamOK(k) /\ k \in Call
    BY DEF StoreInv, Call
  <2>2. CASE k \in D
    <3>1. k \notin data' /\ task'[k] = task[k] /\ locked' = locked /\ k \notin locked
      <4>1. (D \cap Stream) \cap locked = {}
        BY <1>1, PushEffect
      <4> QED
        BY <2>2, <4>1 DEF ownerVars
    <3>2. HasEnd(queue'[k]) /\ ItemsThenEnds(queue'[k])
      BY <2>2, PushEffect
    <3>3. caller'[k] = IF caller[k] = "parked" THEN "ready" ELSE caller[k]
      BY <2>1, <2>2, WakeEffect DEF Touched
    <3>4. caller[k] # "new"
      BY <2>1, <2>2 DEF StreamOK
    <3> QED
      BY <2>1, <2>2, <3>1, <3>2, <3>3, <3>4 DEF StreamOK, Closed, HasEnd
  <2>3. CASE k \notin D
    <3>1. /\ k \in data' <=> k \in data
          /\ task'[k] = task[k] /\ locked' = locked
          /\ k \in removing /\ k \in data => k \in removing'
      BY <2>3 DEF ownerVars
    <3>2. queue'[k] = queue[k]
      BY <2>3, PushEffect
    <3>3. caller'[k] = caller[k] /\ waker'[k] = waker[k]
      BY <2>1, <2>3, WakeEffect DEF Touched
    <3> QED
      BY <2>1, <3>1, <3>2, <3>3 DEF StreamOK, Closed
  <2> QED
    BY <2>2, <2>3
<1> QED
  BY <1>2, <1>3, <1>4 DEF StoreInv

\* DropActions is such a section for the actions of S that are still there.
LEMMA DropActionsMeans ==
    ASSUME NEW S, DropActions(S)
    PROVE  /\ data' = data \ (S \cap data)
           /\ Complete(S \cap data, "error")
           /\ Push((S \cap data) \cap Stream, <<End>>)
           /\ <<End>> \in Ends
BY DEF DropActions, Ends

-----------------------------------------------------------------------------
(* Every action keeps the invariant.                                        *)

\* remove(), in the reader.
LEMMA RemoveCompletedKeeps ==
    ASSUME StoreInv, RemoveCompleted
    PROVE  StoreInv'
<1> DEFINE D == removing \cap data
<1>1. data' = data \ D /\ Complete(D, "error") /\ Push(D \cap Stream, <<End>>) /\ <<End>> \in Ends
  BY DropActionsMeans DEF RemoveCompleted
<1>2. D \in SUBSET data /\ disposed' \in BOOLEAN
  BY DEF StoreInv, TypeOK, RemoveCompleted
<1>3. /\ Wake(Touched(D)) /\ UNCHANGED ownerVars /\ UNCHANGED server
      /\ removing' \subseteq removing /\ removing \cap data \subseteq removing' \cup D
  BY DEF RemoveCompleted
<1> HIDE DEF D
<1> QED
  BY <1>1, <1>2, <1>3, DropKeeps

\* cancel_pending.
LEMMA CancelPendingKeeps ==
    ASSUME StoreInv, CancelPending
    PROVE  StoreInv'
<1>1. data' = data \ data /\ <<End, End>> \in Ends /\ disposed' \in BOOLEAN
  BY DEF StoreInv, TypeOK, CancelPending, Ends
<1> QED
  BY <1>1, DropKeeps DEF CancelPending, netVars

\* dispose.
LEMMA DisposeStorageKeeps ==
    ASSUME StoreInv, DisposeStorage
    PROVE  StoreInv'
<1>1. /\ data' = data \ data /\ Complete(data, "error") /\ Push(data \cap Stream, <<End>>)
      /\ <<End>> \in Ends
  <2>1. data \cap data = data
    OBVIOUS
  <2> QED
    BY <2>1, DropActionsMeans DEF DisposeStorage
<1>2. disposed' \in BOOLEAN
  BY DEF DisposeStorage
<1> QED
  BY <1>1, <1>2, DropKeeps DEF DisposeStorage, netVars

\* A section of the owner of k that drops k's action and does not wake it: the
\* owner itself runs.
LEMMA OwnerDrops ==
    ASSUME StoreInv, NEW k \in Call, NEW c \in CallerState,
           DropActions({k}), caller[k] \in {"stored", "cleaning", "leaving"},
           caller' = [caller EXCEPT ![k] = c],
           UNCHANGED <<disposed, waker, ownerVars, netVars>>,
           k \in Invocation =>
              /\ c \in {"cleaning", "left", "returned"}
              /\ c = "left" => caller[k] = "leaving",
           k \in Stream => c = "ready"
    PROVE  StoreInv'
<1> DEFINE D == {k} \cap data
<1>1. data' = data \ D /\ Complete(D, "error") /\ Push(D \cap Stream, <<End>>) /\ <<End>> \in Ends
  BY DropActionsMeans
<1>2. D \cap Stream \subseteq Stream /\ \A j \in D : j = k
  OBVIOUS
<1>3. data' = data \ {k}
  BY DEF DropActions
<1> HIDE DEF D
<1>4. TypeOK' /\ ~panicked'
  <2>1. ~panicked' /\ panicked' \in BOOLEAN /\ completer' \subseteq Invocation
    BY <1>1, CompleteEffect DEF StoreInv, TypeOK
  <2>2. queue' \in [Stream -> Seq(Item \cup {End})]
    BY <1>1, <1>2, PushEffect
  <2>3. /\ future' \in [Invocation -> {"incomplete", "waiting", "complete", "taken"}]
        /\ value' \in [Invocation -> {"none", "answer", "error"}]
    BY <1>1, CompleteEffect
  <2>4. caller' \in [Call -> CallerState] /\ data' \subseteq Call
    BY <1>3 DEF StoreInv, TypeOK
  <2> QED
    BY <2>1, <2>2, <2>3, <2>4 DEF StoreInv, TypeOK, ownerVars, netVars
<1>5. ASSUME NEW j \in Invocation PROVE InvocationOK(j)'
  <2>1. InvocationOK(j) /\ j \in Call /\ j \notin Stream
    BY StoreAssumption DEF StoreInv, Call
  <2>2. caller' \in [Call -> CallerState] /\ caller'[j] = IF j = k THEN c ELSE caller[j]
    BY <2>1 DEF StoreInv, TypeOK
  <2>3. waker'[j] = waker[j] /\ task'[j] = task[j]
    BY DEF ownerVars
  <2>4. CASE j = k
    <3>1. k \in completer' <=> k \in completer /\ k \notin D
      BY <1>1, CompleteEffect
    <3>2. k \notin completer' /\ k \notin data'
      BY <1>3, <2>1, <2>4, <3>1 DEF InvocationOK, D
    <3>3. future'[k] = IF k \in completer THEN "complete" ELSE future[k]
      BY <1>1, <2>1, <2>4, CompleteEffect DEF D, InvocationOK
    <3>4. future'[k] \in {"complete", "taken"}
      BY <2>1, <2>4, <3>3 DEF InvocationOK, Closed
    <3>5. future'[k] = "taken" => caller[k] = "cleaning"
      BY <2>1, <2>4, <3>3 DEF InvocationOK
    <3> QED
      BY <2>1, <2>2, <2>3, <2>4, <3>2, <3>4, <3>5 DEF InvocationOK, Closed
  <2>5. CASE j # k
    <3>1. /\ j \in data' <=> j \in data
          /\ j \in completer' <=> j \in completer
          /\ future'[j] = future[j] /\ value'[j] = value[j]
      BY <1>1, <1>2, <1>3, <2>5, CompleteEffect
    <3> QED
      BY <2>1, <2>2, <2>3, <2>5, <3>1 DEF InvocationOK, Closed
  <2> QED
    BY <2>4, <2>5
<1>6. ASSUME NEW j \in Stream PROVE StreamOK(j)'
  <2>1. StreamOK(j) /\ j \in Call
    BY DEF StoreInv, Call
  <2>2. caller' \in [Call -> CallerState] /\ caller'[j] = IF j = k THEN c ELSE caller[j]
    BY <2>1 DEF StoreInv, TypeOK
  <2>3. waker'[j] = waker[j] /\ task'[j] = task[j] /\ locked' = locked /\ removing' = removing
    BY DEF ownerVars, netVars
  <2>4. CASE j = k
    <3>1. k \notin data'
      BY <1>3
    <3>2. ItemsThenEnds(queue'[k]) /\ HasEnd(queue'[k])
      <4>1. CASE k \in D
        BY <1>1, <1>2, <2>4, <4>1, PushEffect
      <4>2. CASE k \notin D
        <5>1. queue'[k] = queue[k]
          BY <1>1, <1>2, <2>4, <4>2, PushEffect
        <5>2. k \notin data
          BY <4>2 DEF D
        <5>3. Closed(k) /\ caller[k] # "returned"
          BY <2>1, <2>4, <5>2 DEF StreamOK
        <5> QED
          BY <2>1, <2>4, <5>1, <5>3 DEF StreamOK, Closed, HasEnd
      <4> QED
        BY <4>1, <4>2
    <3>3. k \notin locked
      BY <2>1, <2>4 DEF StreamOK
    <3> QED
      BY <2>1, <2>2, <2>3, <2>4, <3>1, <3>2, <3>3 DEF StreamOK, Closed, HasEnd
  <2>5. CASE j # k
    <3>1. (j \in data' <=> j \in data) /\ queue'[j] = queue[j]
      BY <1>1, <1>2, <1>3, <2>5, PushEffect
    <3> QED
      BY <2>1, <2>2, <2>3, <2>5, <3>1 DEF StreamOK, Closed
  <2> QED
    BY <2>4, <2>5
<1> QED
  BY <1>4, <1>5, <1>6 DEF StoreInv

\* A failed send, and the cleanup of an invocation.
LEMMA OwnerDropsKeep ==
    ASSUME StoreInv, NEW k \in Call, SendFails(k) \/ Cleanup(k)
    PROVE  StoreInv'
<1>1. CASE SendFails(k)
  <2>1. (IF k \in Stream THEN "ready" ELSE "cleaning") \in CallerState
    BY DEF CallerState
  <2> QED
    BY <1>1, <2>1, OwnerDrops, StoreAssumption DEF SendFails
<1>2. CASE Cleanup(k)
  <2>1. k \in Invocation /\ k \notin Stream
    BY <1>2, StoreAssumption DEF StoreInv, StreamOK, Cleanup, Call
  <2>2. CASE caller[k] = "cleaning"
    <3>1. caller' = [caller EXCEPT ![k] = "returned"]
      BY <1>2, <2>2 DEF Cleanup
    <3> QED
      BY <1>2, <2>1, <2>2, <3>1, OwnerDrops DEF Cleanup, CallerState
  <2>3. CASE caller[k] = "leaving"
    <3>1. caller' = [caller EXCEPT ![k] = "left"]
      BY <1>2, <2>3 DEF Cleanup
    <3> QED
      BY <1>2, <2>1, <2>3, <3>1, OwnerDrops DEF Cleanup, CallerState
  <2> QED
    BY <1>2, <2>2, <2>3 DEF Cleanup
<1> QED
  BY <1>1, <1>2

\* An action of the owner of k, or of the server towards k, that touches the
\* variables of k alone keeps what holds of every other call.
LEMMA OthersKeep ==
    ASSUME StoreInv, NEW k \in Call,
           \A j \in Call \ {k} :
              /\ j \in data' <=> j \in data
              /\ j \in completer' <=> j \in completer
              /\ j \in locked' <=> j \in locked
              /\ caller'[j] = caller[j] /\ waker'[j] = waker[j] /\ task'[j] = task[j]
              /\ j \in data /\ j \in removing => j \in removing',
           \A j \in Invocation \ {k} : future'[j] = future[j] /\ value'[j] = value[j],
           \A j \in Stream \ {k} : queue'[j] = queue[j]
    PROVE  /\ \A j \in Invocation \ {k} : InvocationOK(j)'
           /\ \A j \in Stream \ {k} : StreamOK(j)'
<1>1. ASSUME NEW j \in Invocation \ {k} PROVE InvocationOK(j)'
  <2>1. InvocationOK(j) /\ j \in Call \ {k} /\ j \notin Stream
    BY StoreAssumption DEF StoreInv, Call
  <2> QED
    BY <2>1 DEF InvocationOK, Closed
<1>2. ASSUME NEW j \in Stream \ {k} PROVE StreamOK(j)'
  <2>1. StreamOK(j) /\ j \in Call \ {k}
    BY DEF StoreInv, Call
  <2> QED
    BY <2>1 DEF StreamOK, Closed
<1> QED
  BY <1>1, <1>2

\* The rest of an action's proof: its own call.
LEMMA OneCallKeeps ==
    ASSUME NEW k \in Call, TypeOK', ~panicked',
           \A j \in Invocation \ {k} : InvocationOK(j)',
           \A j \in Stream \ {k} : StreamOK(j)',
           k \in Invocation => InvocationOK(k)',
           k \in Stream => StreamOK(k)'
    PROVE  StoreInv'
BY DEF StoreInv

\* add_invocation, add_stream.
LEMMA InsertKeeps ==
    ASSUME StoreInv, NEW k \in Call, Insert(k)
    PROVE  StoreInv'
<1>1. TypeOK' /\ ~panicked'
  BY DEF Insert, StoreInv, TypeOK, CallerState, Call, ownerVars, netVars
<1>2. /\ \A j \in Invocation \ {k} : InvocationOK(j)'
      /\ \A j \in Stream \ {k} : StreamOK(j)'
  <2>1. \A j \in Call \ {k} : caller'[j] = caller[j]
    BY DEF Insert, StoreInv, TypeOK
  <2> QED
    BY <2>1, OthersKeep DEF Insert, ownerVars, netVars
<1>3. caller'[k] = "stored"
  BY DEF Insert, StoreInv, TypeOK
<1>4. ASSUME k \in Invocation PROVE InvocationOK(k)'
  <2>1. InvocationOK(k) /\ k \notin Stream
    BY <1>4, StoreAssumption DEF StoreInv
  <2> QED
    BY <1>3, <1>4, <2>1 DEF InvocationOK, Insert, Closed
<1>5. ASSUME k \in Stream PROVE StreamOK(k)'
  <2>1. StreamOK(k)
    BY <1>5 DEF StoreInv
  <2>2. ~Closed(k)'
    BY <1>3, <1>5, <2>1 DEF StreamOK, Insert, Closed
  <2> QED
    BY <1>3, <1>5, <2>1, <2>2 DEF StreamOK, Insert, ownerVars, netVars
<1> QED
  BY <1>1, <1>2, <1>4, <1>5, OneCallKeeps

\* The steps of an owner that change only where it is, and what the server may
\* still send.
LEMMA OwnerMovesKeep ==
    ASSUME StoreInv, NEW k \in Call,
           SendSucceeds(k) \/ Abandon(k) \/ \E t \in Task : PollAgain(k, t)
    PROVE  StoreInv'
<1>1. /\ UNCHANGED <<data, disposed, completer, future, value, queue, waker, locked, consumed,
                     removing, panicked>>
      /\ caller' = [caller EXCEPT ![k] = caller'[k]]
      /\ task' = [task EXCEPT ![k] = task'[k]]
      /\ task'[k] \in Task
      /\ server' \in [Call -> 0 .. MaxItems + 1]
      /\ \/ caller[k] = "stored" /\ caller'[k] = "ready"
         \/ caller[k] \in {"ready", "parked"} /\ caller'[k] = "left" /\ k \in Stream
         \/ caller[k] \in {"ready", "parked"} /\ caller'[k] = "leaving" /\ k \notin Stream
         \/ caller[k] = "parked" /\ caller'[k] = "ready"
  <2>1. CASE SendSucceeds(k)
    <3>1. MaxItems + 1 \in 0 .. MaxItems + 1 /\ 1 \in 0 .. MaxItems + 1
      BY StoreAssumption
    <3> QED
      BY <2>1, <3>1 DEF SendSucceeds, StoreInv, TypeOK, ownerVars, netVars
  <2>2. CASE Abandon(k)
    BY <2>2 DEF Abandon, StoreInv, TypeOK, ownerVars, netVars
  <2>3. CASE \E t \in Task : PollAgain(k, t)
    BY <2>3 DEF PollAgain, StoreInv, TypeOK, ownerVars, netVars
  <2> QED
    BY <2>1, <2>2, <2>3
<1>2. TypeOK' /\ ~panicked'
  <2>1. caller'[k] \in CallerState
    BY <1>1 DEF CallerState
  <2>2. caller' \in [Call -> CallerState] /\ task' \in [Call -> Task]
    BY <1>1, <2>1 DEF StoreInv, TypeOK
  <2> QED
    BY <1>1, <2>2 DEF StoreInv, TypeOK
<1>3. /\ \A j \in Invocation \ {k} : InvocationOK(j)'
      /\ \A j \in Stream \ {k} : StreamOK(j)'
  <2>1. \A j \in Call \ {k} : caller'[j] = caller[j] /\ task'[j] = task[j]
    BY <1>1 DEF StoreInv, TypeOK
  <2> QED
    BY <1>1, <2>1, OthersKeep
<1>4. ASSUME k \in Invocation PROVE InvocationOK(k)'
  <2>1. InvocationOK(k) /\ k \notin Stream
    BY <1>4, StoreAssumption DEF StoreInv
  <2> QED
    BY <1>1, <1>4, <2>1 DEF InvocationOK, Closed
<1>5. ASSUME k \in Stream PROVE StreamOK(k)'
  <2>1. StreamOK(k)
    BY <1>5 DEF StoreInv
  <2>2. Closed(k)' <=> Closed(k)
    BY <1>1, <1>5, <2>1 DEF Closed
  <2> QED
    BY <1>1, <1>5, <2>1, <2>2 DEF StreamOK
<1> QED
  BY <1>2, <1>3, <1>4, <1>5, OneCallKeeps

\* ManualFuture::poll.
LEMMA PollFutureKeeps ==
    ASSUME StoreInv, NEW k \in Call, PollFuture(k)
    PROVE  StoreInv'
<1>1. k \in Invocation /\ k \notin Stream /\ InvocationOK(k)
  BY StoreAssumption DEF PollFuture, StoreInv
<1>2. TypeOK' /\ ~panicked'
  <2>1. caller' \in [Call -> CallerState]
    BY DEF PollFuture, StoreInv, TypeOK, CallerState
  <2>2. future' \in [Invocation -> {"incomplete", "waiting", "complete", "taken"}]
    BY DEF PollFuture, StoreInv, TypeOK
  <2>3. waker' \in [Call -> Task \cup {NoTask}]
    BY DEF PollFuture, StoreInv, TypeOK
  <2> QED
    BY <2>1, <2>2, <2>3 DEF PollFuture, StoreInv, TypeOK, ownerVars, netVars
<1>3. /\ \A j \in Invocation \ {k} : InvocationOK(j)'
      /\ \A j \in Stream \ {k} : StreamOK(j)'
  <2>1. /\ \A j \in Call \ {k} : caller'[j] = caller[j] /\ waker'[j] = waker[j]
        /\ \A j \in Invocation \ {k} : future'[j] = future[j]
    BY DEF PollFuture, StoreInv, TypeOK
  <2> QED
    BY <2>1, OthersKeep DEF PollFuture, ownerVars, netVars
<1>4. InvocationOK(k)'
  <2>1. CASE future[k] = "complete"
    <3>1. future'[k] = "taken" /\ caller'[k] = "cleaning"
      BY <1>1, <2>1 DEF PollFuture, StoreInv, TypeOK
    <3> QED
      BY <1>1, <2>1, <3>1 DEF InvocationOK, Closed, PollFuture
  <2>2. CASE future[k] # "complete"
    <3>1. /\ future'[k] = "waiting" /\ future[k] \in {"incomplete", "waiting"}
          /\ caller'[k] = "parked" /\ caller[k] = "ready" /\ waker'[k] = task'[k]
      BY <1>1, <2>2 DEF PollFuture, StoreInv, TypeOK, ownerVars
    <3> QED
      BY <1>1, <3>1 DEF InvocationOK, Closed, PollFuture
  <2> QED
    BY <2>1, <2>2
<1> QED
  BY <1>1, <1>2, <1>3, <1>4, OneCallKeeps

\* The first part of ManualStream::poll_next.
LEMMA PollQueueKeeps ==
    ASSUME StoreInv, NEW k \in Call, PollQueue(k)
    PROVE  StoreInv'
<1>1. /\ k \in Stream /\ k \notin Invocation /\ StreamOK(k) /\ caller[k] = "ready"
      /\ queue[k] \in Seq(Item \cup {End}) /\ consumed[k] \in Seq(Item)
  BY StoreAssumption DEF PollQueue, StoreInv, TypeOK
<1>2. queue[k] # <<>> =>
         /\ Head(queue[k]) \in Item \cup {End} /\ Tail(queue[k]) \in Seq(Item \cup {End})
         /\ ItemsThenEnds(Tail(queue[k]))
         /\ Head(queue[k]) = End => HasEnd(queue[k])
         /\ Head(queue[k]) # End => HasEnd(Tail(queue[k])) <=> HasEnd(queue[k])
  BY <1>1, PopQueue DEF StreamOK
<1>3. TypeOK' /\ ~panicked'
  <2>1. caller' \in [Call -> CallerState]
    BY DEF PollQueue, StoreInv, TypeOK, CallerState
  <2>2. queue' \in [Stream -> Seq(Item \cup {End})]
    BY <1>2 DEF PollQueue, StoreInv, TypeOK
  <2>3. consumed' \in [Stream -> Seq(Item)]
    <3>1. queue[k] # <<>> /\ Head(queue[k]) # End => Append(consumed[k], Head(queue[k])) \in Seq(Item)
      BY <1>1, <1>2
    <3> QED
      BY <3>1 DEF PollQueue, StoreInv, TypeOK
  <2>4. locked' \subseteq Stream
    BY DEF PollQueue, StoreInv, TypeOK
  <2> QED
    BY <2>1, <2>2, <2>3, <2>4 DEF PollQueue, StoreInv, TypeOK, netVars
<1>4. /\ \A j \in Invocation \ {k} : InvocationOK(j)'
      /\ \A j \in Stream \ {k} : StreamOK(j)'
  <2>1. /\ \A j \in Call \ {k} : caller'[j] = caller[j] /\ (j \in locked' <=> j \in locked)
        /\ \A j \in Stream \ {k} : queue'[j] = queue[j]
    BY DEF PollQueue, StoreInv, TypeOK
  <2> QED
    BY <2>1, OthersKeep DEF PollQueue, netVars
<1>5. StreamOK(k)'
  <2>1. /\ data' = data /\ removing' = removing /\ k \notin locked
        /\ k \notin data => HasEnd(queue[k])
        /\ HasEnd(queue[k]) /\ k \in data => k \in removing
    BY <1>1 DEF PollQueue, netVars, StreamOK, Closed, HasEnd
  <2>2. CASE queue[k] = <<>>
    <3>1. caller'[k] = "empty" /\ queue' = queue /\ locked' = locked \cup {k}
      BY <2>2 DEF PollQueue, StoreInv, TypeOK
    <3> QED
      BY <1>1, <2>1, <2>2, <3>1 DEF StreamOK, Closed, HasEnd
  <2>3. CASE queue[k] # <<>> /\ Head(queue[k]) = End
    <3>1. caller'[k] = "returned" /\ queue'[k] = Tail(queue[k]) /\ locked' = locked
      BY <1>1, <2>3 DEF PollQueue, StoreInv, TypeOK
    <3> QED
      BY <1>1, <1>2, <2>1, <2>3, <3>1 DEF StreamOK, Closed
  <2>4. CASE queue[k] # <<>> /\ Head(queue[k]) # End
    <3>1. caller'[k] = "ready" /\ queue'[k] = Tail(queue[k]) /\ locked' = locked
      BY <1>1, <2>4 DEF PollQueue, StoreInv, TypeOK
    <3>2. Closed(k)' <=> HasEnd(queue[k])
      BY <1>1, <1>2, <2>4, <3>1 DEF Closed, HasEnd
    <3> QED
      BY <1>1, <1>2, <2>1, <2>4, <3>1, <3>2 DEF StreamOK
  <2> QED
    BY <2>2, <2>3, <2>4
<1> QED
  BY <1>1, <1>3, <1>4, <1>5, OneCallKeeps

\* The second part of ManualStream::poll_next.
LEMMA ParkStreamKeeps ==
    ASSUME StoreInv, NEW k \in Call, ParkStream(k)
    PROVE  StoreInv'
<1>1. k \in Stream /\ k \notin Invocation /\ StreamOK(k)
  BY StoreAssumption DEF ParkStream, StoreInv, InvocationOK, Call
<1>2. TypeOK' /\ ~panicked'
  <2>1. caller' \in [Call -> CallerState] /\ waker' \in [Call -> Task \cup {NoTask}]
    BY DEF ParkStream, StoreInv, TypeOK, CallerState
  <2> QED
    BY <2>1 DEF ParkStream, StoreInv, TypeOK, netVars
<1>3. /\ \A j \in Invocation \ {k} : InvocationOK(j)'
      /\ \A j \in Stream \ {k} : StreamOK(j)'
  <2>1. \A j \in Call \ {k} : caller'[j] = caller[j] /\ waker'[j] = waker[j]
    BY DEF ParkStream, StoreInv, TypeOK
  <2> QED
    BY <2>1, OthersKeep DEF ParkStream, netVars
<1>4. StreamOK(k)'
  <2>1. caller'[k] = "parked" /\ waker'[k] = task[k] /\ task' = task /\ locked' = locked \ {k}
    BY DEF ParkStream, StoreInv, TypeOK
  <2> QED
    BY <1>1, <2>1 DEF StreamOK, ParkStream, Closed, netVars
<1> QED
  BY <1>1, <1>2, <1>3, <1>4, OneCallKeeps

\* update with a StreamItem finds an open queue: a queue with an end belongs to
\* an action that is gone, or that the reader is about to remove.
LEMMA ItemFindsOpen ==
    ASSUME StoreInv, NEW k \in Call, ReadItem(k)
    PROVE  /\ k \in Stream /\ k \notin Invocation
           /\ MaxItems + 2 - server[k] \in Item
           /\ k \in data => ~Closed(k) /\ ~HasEnd(queue[k]) /\ caller[k] # "new"
           /\ server' \in [Call -> 0 .. MaxItems + 1]
<1>1. k \in Stream /\ k \notin Invocation /\ StreamOK(k) /\ removing = {}
  BY StoreAssumption DEF ReadItem, ReaderIdle, StoreInv
<1>2. server[k] \in 2 .. MaxItems + 1
  BY DEF ReadItem, StoreInv, TypeOK
<1>3. MaxItems + 2 - server[k] \in Item /\ server[k] - 1 \in 0 .. MaxItems + 1
  BY <1>2, StoreAssumption DEF Item
<1>4. server' \in [Call -> 0 .. MaxItems + 1]
  BY <1>3 DEF ReadItem, StoreInv, TypeOK
<1>5. k \in data => ~Closed(k) /\ ~HasEnd(queue[k]) /\ caller[k] # "new"
  BY <1>1 DEF StreamOK, Closed, HasEnd
<1> QED
  BY <1>1, <1>3, <1>4, <1>5

\* update with a StreamItem.
LEMMA ReadItemKeeps ==
    ASSUME StoreInv, NEW k \in Call, ReadItem(k)
    PROVE  StoreInv'
<1> DEFINE item == MaxItems + 2 - server[k]
<1>1. /\ k \in Stream /\ k \notin Invocation /\ item \in Item
      /\ k \in data => ~Closed(k) /\ ~HasEnd(queue[k]) /\ caller[k] # "new"
      /\ server' \in [Call -> 0 .. MaxItems + 1]
  BY ItemFindsOpen
<1>2. /\ UNCHANGED <<data, disposed, completer, future, value, removing, panicked>>
      /\ UNCHANGED <<locked, task, consumed>>
      /\ StreamOK(k) /\ queue[k] \in Seq(Item \cup {End})
  BY <1>1 DEF ReadItem, ownerVars, StoreInv, TypeOK
<1>3. CASE UNCHANGED <<queue, waker, caller>>
  <2>1. TypeOK' /\ ~panicked'
    BY <1>1, <1>2, <1>3 DEF StoreInv, TypeOK
  <2>2. ASSUME NEW j \in Invocation PROVE InvocationOK(j)'
    BY <1>2, <1>3 DEF StoreInv, InvocationOK, Closed
  <2>3. ASSUME NEW j \in Stream PROVE StreamOK(j)'
    BY <1>2, <1>3 DEF StoreInv, StreamOK, Closed
  <2> QED
    BY <2>1, <2>2, <2>3 DEF StoreInv
<1>4. CASE k \in data /\ Push({k}, <<item>>) /\ Wake({k})
  <2>1. /\ queue[k] \o <<item>> \in Seq(Item \cup {End})
        /\ ~HasEnd(queue[k] \o <<item>>)
    BY <1>1, <1>2, <1>4, PushItem
  <2>2. ItemsThenEnds(queue[k] \o <<item>>)
    BY <2>1, AheadOfOpen
  <2>3. /\ queue' = [j \in Stream |-> IF j = k THEN queue[k] \o <<item>> ELSE queue[j]]
        /\ k \notin locked
    BY <1>4 DEF Push
  <2>4. /\ waker' \in [Call -> Task \cup {NoTask}]
        /\ caller' \in [Call -> CallerState]
        /\ \A j \in Call \ {k} : waker'[j] = waker[j] /\ caller'[j] = caller[j]
        /\ caller'[k] = IF caller[k] = "parked" THEN "ready" ELSE caller[k]
    BY <1>4, WakeEffect
  <2>5. TypeOK' /\ ~panicked'
    <3>1. queue' \in [Stream -> Seq(Item \cup {End})]
      BY <2>1, <2>3 DEF StoreInv, TypeOK
    <3> QED
      BY <1>1, <1>2, <2>4, <3>1 DEF StoreInv, TypeOK
  <2>6. /\ \A j \in Invocation \ {k} : InvocationOK(j)'
        /\ \A j \in Stream \ {k} : StreamOK(j)'
    BY <1>2, <2>3, <2>4, OthersKeep
  <2>7. StreamOK(k)'
    <3>1. ~Closed(k)'
      BY <1>1, <1>4, <2>1, <2>3, <2>4 DEF Closed, HasEnd
    <3> QED
      BY <1>1, <1>2, <1>4, <2>2, <2>3, <2>4, <3>1 DEF StreamOK
  <2> QED
    BY <1>1, <2>5, <2>6, <2>7, OneCallKeeps
<1> QED
  BY <1>3, <1>4 DEF ReadItem

\* update with a Completion.
LEMMA ReadCompletionKeeps ==
    ASSUME StoreInv, NEW k \in Call, ReadCompletion(k)
    PROVE  StoreInv'
<1>1. /\ UNCHANGED <<data, disposed, locked, task, consumed>>
      /\ removing = {} /\ removing' = {k} /\ k \in data
      /\ server' \in [Call -> 0 .. MaxItems + 1]
      /\ <<End>> \in Ends
  <2>1. 0 \in 0 .. MaxItems + 1
    BY StoreAssumption
  <2> QED
    BY <2>1 DEF ReadCompletion, ReaderIdle, ownerVars, StoreInv, TypeOK, Ends
<1>2. /\ Complete({k} \cap Invocation, "answer")
      /\ Push({k} \cap Stream, <<End>>)
      /\ Wake(Touched({k}))
      /\ {k} \cap Stream \subseteq Stream
  BY DEF ReadCompletion
<1>3. TypeOK' /\ ~panicked'
  <2>1. ~panicked' /\ panicked' \in BOOLEAN /\ completer' \subseteq Invocation
    BY <1>2, CompleteEffect DEF StoreInv, TypeOK
  <2>2. queue' \in [Stream -> Seq(Item \cup {End})]
    BY <1>1, <1>2, PushEffect
  <2>3. /\ future' \in [Invocation -> {"incomplete", "waiting", "complete", "taken"}]
        /\ value' \in [Invocation -> {"none", "answer", "error"}]
    BY <1>2, CompleteEffect
  <2>4. caller' \in [Call -> CallerState] /\ waker' \in [Call -> Task \cup {NoTask}]
    BY <1>2, WakeEffect
  <2> QED
    BY <1>1, <2>1, <2>2, <2>3, <2>4 DEF StoreInv, TypeOK
<1>4. /\ \A j \in Invocation \ {k} : InvocationOK(j)'
      /\ \A j \in Stream \ {k} : StreamOK(j)'
  <2>1. \A j \in Call \ {k} : caller'[j] = caller[j] /\ waker'[j] = waker[j]
    BY <1>2, WakeEffect DEF Touched
  <2>2. /\ \A j \in Call \ {k} : j \in completer' <=> j \in completer
        /\ \A j \in Invocation \ {k} : future'[j] = future[j] /\ value'[j] = value[j]
    BY <1>2, CompleteEffect
  <2>3. \A j \in Stream \ {k} : queue'[j] = queue[j]
    <3>1. \A j \in Stream \ ({k} \cap Stream) : queue'[j] = queue[j]
      BY <1>1, <1>2, PushEffect
    <3> QED
      BY <3>1
  <2> QED
    BY <1>1, <2>1, <2>2, <2>3, OthersKeep
<1>5. ASSUME k \in Invocation PROVE InvocationOK(k)'
  <2>1. InvocationOK(k) /\ k \notin Stream
    BY <1>5, StoreAssumption DEF StoreInv
  <2>2. /\ k \notin completer'
        /\ future'[k] = IF k \in completer THEN "complete" ELSE future[k]
    BY <1>2, <1>5, CompleteEffect
  <2>3. future'[k] \in {"complete", "taken"} /\ (future'[k] = "taken" => future[k] = "taken")
    BY <1>1, <2>1, <2>2 DEF InvocationOK, Closed
  <2>4. caller[k] # "parked" \/ k \in Touched({k})
    BY <1>1, <2>1 DEF InvocationOK, Touched
  <2>5. caller'[k] = IF caller[k] = "parked" THEN "ready" ELSE caller[k]
    BY <1>2, <2>4, WakeEffect
  <2> QED
    BY <1>1, <2>1, <2>2, <2>3, <2>5 DEF InvocationOK, Closed
<1>6. ASSUME k \in Stream PROVE StreamOK(k)'
  <2>1. StreamOK(k)
    BY <1>6 DEF StoreInv
  <2>2. HasEnd(queue'[k]) /\ ItemsThenEnds(queue'[k]) /\ k \notin locked
    <3>1. /\ ({k} \cap Stream) \cap locked = {}
          /\ \A j \in {k} \cap Stream : HasEnd(queue'[j]) /\ ItemsThenEnds(queue'[j])
      BY <1>1, <1>2, PushEffect
    <3> QED
      BY <1>6, <3>1
  <2>3. caller'[k] = IF caller[k] = "parked" THEN "ready" ELSE caller[k]
    BY <1>2, <1>6, WakeEffect DEF Touched
  <2> QED
    BY <1>1, <2>1, <2>2, <2>3 DEF StreamOK
<1> QED
  BY <1>3, <1>4, <1>5, <1>6, OneCallKeeps

\* A completion that fails.
LEMMA ReadCompletionFailsKeeps ==
    ASSUME StoreInv, NEW k \in Call, ReadCompletionFails(k)
    PROVE  StoreInv'
<1>1. server' \in [Call -> 0 .. MaxItems + 1]
  <2>1. 0 \in 0 .. MaxItems + 1
    BY StoreAssumption
  <2> QED
    BY <2>1 DEF ReadCompletionFails, StoreInv, TypeOK
<1>2. UNCHANGED <<data, disposed, completer, future, value, queue, waker, caller, locked, task,
                  consumed, removing, panicked>>
  BY DEF ReadCompletionFails, ownerVars
<1> QED
  BY <1>1, <1>2 DEF StoreInv, TypeOK, InvocationOK, StreamOK, Closed

-----------------------------------------------------------------------------
(* The invariant, and what follows from it.                                 *)

\* Every step of the storage, of an owner, or of the reader keeps the invariant.
LEMMA StoreStep == StoreInv /\ [Next]_vars => StoreInv'
<1> SUFFICES ASSUME StoreInv, [Next]_vars PROVE StoreInv'
  OBVIOUS
<1>1. ASSUME NEW k \in Call,
             \/ Insert(k) \/ Abandon(k) \/ OwnerProgress(k)
             \/ \E t \in Task : PollAgain(k, t)
             \/ ReadItem(k) \/ ReadCompletion(k) \/ ReadCompletionFails(k)
      PROVE  StoreInv'
  BY <1>1, InsertKeeps, OwnerMovesKeep, OwnerDropsKeep, PollFutureKeeps, PollQueueKeeps,
     ParkStreamKeeps, ReadItemKeeps, ReadCompletionKeeps, ReadCompletionFailsKeeps
     DEF OwnerProgress
<1>2. ASSUME Terminated \/ UNCHANGED vars PROVE StoreInv'
  <2>1. /\ UNCHANGED <<data, disposed, completer, future, value, queue, waker, caller>>
        /\ UNCHANGED <<locked, task, consumed, server, removing, panicked>>
    BY <1>2 DEF Terminated, vars, ownerVars, netVars
  <2>2. TypeOK' /\ ~panicked'
    BY <2>1 DEF StoreInv, TypeOK
  <2>3. ASSUME NEW k \in Invocation PROVE InvocationOK(k)'
    BY <2>1 DEF StoreInv, InvocationOK, Closed
  <2>4. ASSUME NEW k \in Stream PROVE StreamOK(k)'
    BY <2>1 DEF StoreInv, StreamOK, Closed
  <2> QED
    BY <2>2, <2>3, <2>4 DEF StoreInv
<1> QED
  BY <1>1, <1>2, RemoveCompletedKeeps, CancelPendingKeeps, DisposeStorageKeeps DEF Next

\* The invariant of the storage, for any number of calls and tasks.
THEOREM StoreInvariant == Spec => []StoreInv
<1>1. Init => StoreInv
  <2> SUFFICES ASSUME Init PROVE StoreInv
    OBVIOUS
  <2>1. TypeOK /\ ~panicked
    <3>1. 0 \in 0 .. MaxItems + 1 /\ <<>> \in Seq(Item \cup {End}) /\ <<>> \in Seq(Item)
      BY StoreAssumption
    <3>2. "new" \in CallerState
      BY DEF CallerState
    <3> QED
      BY <3>1, <3>2 DEF Init, TypeOK
  <2>2. ASSUME NEW k \in Invocation PROVE InvocationOK(k)
    BY StoreAssumption DEF Init, InvocationOK, Closed, Call
  <2>3. ASSUME NEW k \in Stream PROVE StreamOK(k)
    <3>1. queue[k] = <<>> /\ Len(queue[k]) = 0
      BY DEF Init
    <3>2. ItemsThenEnds(queue[k])
      BY <3>1 DEF ItemsThenEnds
    <3> QED
      BY <3>1, <3>2 DEF Init, StreamOK, Closed, Call
  <2> QED
    BY <2>1, <2>2, <2>3 DEF StoreInv
<1> QED
  BY <1>1, StoreStep, PTL DEF Spec

\* Every variable keeps its type.
THEOREM StoreTypeCorrect == Spec => []TypeOK
BY StoreInvariant, PTL DEF StoreInv

\* No future is completed twice: ManualFutureCompleter::complete cannot panic
\* in the reader or the monitor.
THEOREM FuturesCompletedOnce == Spec => []CompletedOnce
<1>1. StoreInv => CompletedOnce
  BY DEF StoreInv, InvocationOK, CompletedOnce
<1> QED
  BY <1>1, StoreInvariant, PTL

\* Whatever removes an action closes its call: a failed send, a completion, a
\* cancellation, the cleanup of an abandoned call, the end of the storage.
THEOREM RemovedCallsAreClosed == Spec => []RemovedCallsClosed
<1>1. StoreInv => RemovedCallsClosed
  BY DEF StoreInv, InvocationOK, StreamOK, RemovedCallsClosed, Call
<1> QED
  BY <1>1, StoreInvariant, PTL

\* An owner asleep has nothing to find, and its own waker is stored.
THEOREM NoWakeupIsLost == Spec => []NoLostWakeup
<1>1. StoreInv => NoLostWakeup
  <2> SUFFICES ASSUME StoreInv, NEW k \in Call, caller[k] = "parked"
               PROVE  ~Closed(k) /\ (k \in Stream => queue[k] = <<>>) /\ waker[k] = task[k]
    BY DEF NoLostWakeup
  <2>1. CASE k \in Stream
    <3>1. queue[k] = <<>> /\ Len(queue[k]) = 0 /\ waker[k] = task[k]
      BY <2>1 DEF StoreInv, StreamOK
    <3> QED
      BY <2>1, <3>1 DEF Closed
  <2>2. CASE k \in Invocation
    BY <2>2, StoreAssumption DEF StoreInv, InvocationOK
  <2> QED
    BY <2>1, <2>2 DEF Call
<1> QED
  BY <1>1, StoreInvariant, PTL

\* An invocation that has returned or was dropped has left no action behind.
THEOREM NoActionIsLeft == Spec => []NoActionLeft
<1>1. StoreInv => NoActionLeft
  BY DEF StoreInv, InvocationOK, NoActionLeft
<1> QED
  BY <1>1, StoreInvariant, PTL

-----------------------------------------------------------------------------
(* The contract.  Each step of the storage is, seen by the callers, a step  *)
(* of CallContract or none.                                                 *)

\* What the contract sees of a call, but for its being closed.
SameChannel(j) ==
    /\ PutInto(j)' = PutInto(j)
    /\ TakenFrom(j)' = TakenFrom(j)
    /\ CallerOf(j)' = CallerOf(j)

Unmoved(j) == SameChannel(j) /\ (Closed(j)' <=> Closed(j))

\* A step that moves no call.
LEMMA ViewStutters ==
    ASSUME \A j \in Call : Unmoved(j)
    PROVE  UNCHANGED Contract!vars
BY DEF Unmoved, SameChannel, Contract!vars

\* A step that closes some calls and changes nothing else.
LEMMA ViewEnds ==
    ASSUME NEW D \in SUBSET Call,
           \A j \in Call : SameChannel(j) /\ (Closed(j)' <=> Closed(j) \/ j \in D)
    PROVE  [Contract!Next]_(Contract!vars)
<1>1. CASE D = {}
  BY <1>1, ViewStutters DEF Unmoved
<1>2. CASE D # {}
  <2>1. {j \in Call : Closed(j)}' = {j \in Call : Closed(j)} \cup D
    OBVIOUS
  <2>2. Contract!End(D)
    BY <1>2, <2>1 DEF SameChannel, Contract!End
  <2> QED
    BY <2>2 DEF Contract!Next
<1> QED
  BY <1>1, <1>2

\* A step that puts an item into the open stream k.
LEMMA ViewProduces ==
    ASSUME NEW k \in Stream, NEW i \in Item, \A j \in Call \ {k} : Unmoved(j),
           ~Closed(k), ~Closed(k)', PutInto(k)' = Append(PutInto(k), i),
           TakenFrom(k)' = TakenFrom(k), CallerOf(k)' = CallerOf(k)
    PROVE  [Contract!Next]_(Contract!vars)
<1>1. k \in Call
  BY DEF Call
<1>2. Contract!Produce(k, i)
  BY <1>1 DEF Unmoved, SameChannel, Contract!Produce
<1> QED
  BY <1>1, <1>2 DEF Contract!Next

\* A step that answers the open invocation k.
LEMMA ViewAnswers ==
    ASSUME NEW k \in Invocation, \A j \in Call \ {k} : Unmoved(j),
           ~Closed(k), Closed(k)', PutInto(k)' = <<TheAnswer>>,
           TakenFrom(k)' = TakenFrom(k), CallerOf(k)' = CallerOf(k)
    PROVE  [Contract!Next]_(Contract!vars)
<1>1. k \in Call /\ k \notin Stream
  BY StoreAssumption DEF Call
<1>2. Contract!Answer(k, TheAnswer)
  BY <1>1 DEF Unmoved, SameChannel, Contract!Answer
<1> QED
  BY <1>1, <1>2 DEF Contract!Next

\* A step in which the owner of the stream k takes its next item.
LEMMA ViewTakes ==
    ASSUME NEW k \in Stream, \A j \in Call \ {k} : Unmoved(j),
           Closed(k)' <=> Closed(k), PutInto(k)' = PutInto(k),
           CallerOf(k) = "waits", CallerOf(k)' = "waits",
           TakenFrom(k) < Len(PutInto(k)), TakenFrom(k)' = TakenFrom(k) + 1
    PROVE  [Contract!Next]_(Contract!vars)
<1>1. k \in Call
  BY DEF Call
<1>2. Contract!Take(k)
  BY <1>1 DEF Unmoved, SameChannel, Contract!Take
<1> QED
  BY <1>1, <1>2 DEF Contract!Next

\* A step in which the owner of k learns the end.
LEMMA ViewFinishes ==
    ASSUME NEW k \in Call, \A j \in Call \ {k} : Unmoved(j),
           Closed(k), Closed(k)', PutInto(k)' = PutInto(k),
           CallerOf(k) = "waits", CallerOf(k)' = "done",
           k \in Stream => TakenFrom(k) = Len(PutInto(k)), TakenFrom(k)' = Len(PutInto(k))
    PROVE  [Contract!Next]_(Contract!vars)
<1>1. Contract!Finish(k)
  BY DEF Unmoved, SameChannel, Contract!Finish
<1> QED
  BY <1>1 DEF Contract!Next

\* A step in which the owner of k gives up.
LEMMA ViewLeaves ==
    ASSUME NEW k \in Call, \A j \in Call \ {k} : Unmoved(j),
           Closed(k)' <=> Closed(k), PutInto(k)' = PutInto(k), TakenFrom(k)' = TakenFrom(k),
           CallerOf(k) = "waits", CallerOf(k)' = "left"
    PROVE  [Contract!Next]_(Contract!vars)
<1>1. Contract!Leave(k)
  BY DEF Unmoved, SameChannel, Contract!Leave
<1> QED
  BY <1>1 DEF Contract!Next

\* A call whose variables a step leaves alone does not move; an owner that is
\* only woken does not either.
LEMMA CallUnmoved ==
    ASSUME NEW j \in Call,
           j \in Invocation => future'[j] = future[j] /\ value'[j] = value[j],
           j \in Stream => queue'[j] = queue[j] /\ consumed'[j] = consumed[j],
           caller'[j] = caller[j] \/ (caller[j] = "parked" /\ caller'[j] = "ready")
    PROVE  Unmoved(j)
<1>1. j \in Stream => PutInto(j)' = PutInto(j) /\ TakenFrom(j)' = TakenFrom(j)
  BY DEF PutInto, TakenFrom
<1>2. CallOver(j)' <=> CallOver(j)
  BY DEF CallOver
<1>3. j \notin Stream => PutInto(j)' = PutInto(j) /\ TakenFrom(j)' = TakenFrom(j)
  BY <1>2 DEF PutInto, TakenFrom, Answered, Call
<1>4. CallerOf(j)' = CallerOf(j)
  BY <1>2 DEF CallerOf
<1>5. Closed(j)' <=> Closed(j)
  BY DEF Closed, Call
<1> QED
  BY <1>1, <1>3, <1>4, <1>5 DEF Unmoved, SameChannel

\* A call whose action is dropped and whose owner is woken or goes on keeps its
\* channel and is closed.
LEMMA CallDropped ==
    ASSUME StoreInv, NEW D \in SUBSET data, NEW e \in Ends, NEW j \in D,
           Complete(D, "error"), Push(D \cap Stream, e), consumed'[j] = consumed[j],
           \/ caller'[j] = caller[j]
           \/ caller[j] = "parked" /\ caller'[j] = "ready"
           \/ caller[j] = "stored" /\ caller'[j] \in {"ready", "cleaning"}
           \/ caller[j] = "leaving" /\ caller'[j] = "left"
    PROVE  SameChannel(j) /\ Closed(j)'
<1>1. j \in Call
  BY DEF StoreInv, TypeOK
<1>2. CASE j \in Stream
  <2>1. HasEnd(queue'[j]) /\ Ahead(queue'[j]) = Ahead(queue[j])
    <3>1. D \cap Stream \subseteq Stream
      OBVIOUS
    <3>2. \A i \in D \cap Stream : HasEnd(queue'[i]) /\ Ahead(queue'[i]) = Ahead(queue[i])
      BY <3>1, PushEffect
    <3> QED
      BY <1>2, <3>2
  <2>2. Closed(j)' /\ PutInto(j)' = PutInto(j) /\ TakenFrom(j)' = TakenFrom(j)
    BY <1>2, <2>1 DEF Closed, HasEnd, PutInto, TakenFrom
  <2>3. CallerOf(j)' = CallerOf(j)
    BY <1>2, StoreAssumption DEF CallerOf, CallOver
  <2> QED
    BY <2>2, <2>3 DEF SameChannel
<1>3. CASE j \in Invocation
  <2>1. InvocationOK(j) /\ j \notin Stream
    BY <1>3, StoreAssumption DEF StoreInv
  <2>2. /\ j \in completer => future'[j] = "complete" /\ value'[j] = "error"
        /\ j \notin completer => future'[j] = future[j] /\ value'[j] = value[j]
    BY <1>3, CompleteEffect
  <2>3. Closed(j)'
    BY <2>1, <2>2 DEF InvocationOK, Closed
  <2>4. Answered(j)' <=> Answered(j)
    BY <2>1, <2>2 DEF InvocationOK, Answered
  <2>5. future'[j] = "taken" <=> future[j] = "taken"
    BY <2>1, <2>2 DEF InvocationOK, Closed
  <2>6. CallOver(j)' <=> CallOver(j)
    BY <2>5 DEF CallOver
  <2>7. CallerOf(j)' = CallerOf(j)
    BY <2>6 DEF CallerOf
  <2> QED
    BY <2>1, <2>3, <2>4, <2>6, <2>7 DEF SameChannel, PutInto, TakenFrom
<1> QED
  BY <1>1, <1>2, <1>3 DEF Call

\* A section that drops the actions of D and wakes their owners ends them.
LEMMA DropView ==
    ASSUME StoreInv,
           NEW D \in SUBSET data, NEW e \in Ends,
           Complete(D, "error"), Push(D \cap Stream, e), Wake(Touched(D)),
           consumed' = consumed
    PROVE  [Contract!Next]_(Contract!vars)
<1>1. D \subseteq Call /\ D \cap Stream \subseteq Stream
  BY DEF StoreInv, TypeOK
<1>2. ASSUME NEW j \in Call
      PROVE  caller'[j] = caller[j] \/ (caller[j] = "parked" /\ caller'[j] = "ready")
  BY <1>2, WakeEffect
<1>3. ASSUME NEW j \in Call \ D PROVE Unmoved(j)
  <2>1. j \in Invocation => future'[j] = future[j] /\ value'[j] = value[j]
    BY CompleteEffect
  <2>2. j \in Stream => queue'[j] = queue[j]
    <3>1. \A i \in Stream \ (D \cap Stream) : queue'[i] = queue[i]
      BY <1>1, PushEffect
    <3> QED
      BY <3>1
  <2> QED
    BY <1>2, <2>1, <2>2, CallUnmoved
<1>4. ASSUME NEW j \in D PROVE SameChannel(j) /\ Closed(j)'
  BY <1>1, <1>2, CallDropped
<1>5. \A j \in Call : SameChannel(j) /\ (Closed(j)' <=> Closed(j) \/ j \in D)
  BY <1>3, <1>4 DEF Unmoved
<1> QED
  BY <1>1, <1>5, ViewEnds

\* remove, cancel_pending and dispose.
LEMMA StorageSectionsView ==
    ASSUME StoreInv, RemoveCompleted \/ CancelPending \/ DisposeStorage
    PROVE  [Contract!Next]_(Contract!vars)
<1>1. CASE RemoveCompleted
  <2> DEFINE D == removing \cap data
  <2>1. Complete(D, "error") /\ Push(D \cap Stream, <<End>>) /\ <<End>> \in Ends
    BY <1>1, DropActionsMeans DEF RemoveCompleted
  <2>2. D \in SUBSET data /\ Wake(Touched(D)) /\ consumed' = consumed
    BY <1>1 DEF RemoveCompleted, ownerVars
  <2> HIDE DEF D
  <2> QED
    BY <2>1, <2>2, DropView
<1>2. CASE CancelPending
  <2>1. <<End, End>> \in Ends /\ consumed' = consumed
    BY <1>2 DEF CancelPending, Ends, ownerVars
  <2> QED
    BY <1>2, <2>1, DropView DEF CancelPending
<1>3. CASE DisposeStorage
  <2>1. data \cap data = data
    OBVIOUS
  <2>2. Complete(data, "error") /\ Push(data \cap Stream, <<End>>) /\ <<End>> \in Ends
    BY <1>3, <2>1, DropActionsMeans DEF DisposeStorage
  <2>3. consumed' = consumed /\ Wake(Touched(data))
    BY <1>3 DEF DisposeStorage, ownerVars
  <2> QED
    BY <2>2, <2>3, DropView
<1> QED
  BY <1>1, <1>2, <1>3

\* add_invocation and add_stream, a message queued for the socket, another poll:
\* nothing that the contract sees; an abandoned call leaves.
LEMMA OwnerMovesView ==
    ASSUME StoreInv, NEW k \in Call,
           Insert(k) \/ SendSucceeds(k) \/ Abandon(k) \/ ParkStream(k) \/ \E t \in Task : PollAgain(k, t)
    PROVE  [Contract!Next]_(Contract!vars)
<1>1. /\ UNCHANGED <<future, value, queue, consumed>>
      /\ caller' = [caller EXCEPT ![k] = caller'[k]]
      /\ \/ caller[k] = "new" /\ caller'[k] = "stored"
         \/ caller[k] = "stored" /\ caller'[k] = "ready"
         \/ caller[k] = "empty" /\ caller'[k] = "parked"
         \/ caller[k] = "parked" /\ caller'[k] = "ready"
         \/ caller[k] \in {"ready", "parked"} /\ caller'[k] \in {"left", "leaving"}
  BY DEF Insert, SendSucceeds, Abandon, ParkStream, PollAgain, StoreInv, TypeOK, ownerVars
<1>2. \A j \in Call \ {k} : Unmoved(j)
  <2>1. \A j \in Call \ {k} : caller'[j] = caller[j]
    BY <1>1 DEF StoreInv, TypeOK
  <2> QED
    BY <1>1, <2>1, CallUnmoved
<1>3. PutInto(k)' = PutInto(k) /\ (Closed(k)' <=> Closed(k)) /\ (CallOver(k)' <=> CallOver(k))
  BY <1>1 DEF PutInto, Answered, Closed, CallOver
<1>4. TakenFrom(k)' = TakenFrom(k)
  BY <1>1, <1>3 DEF TakenFrom, Answered
<1>5. CASE caller'[k] \notin {"left", "leaving"}
  <2>1. CallerOf(k)' = CallerOf(k)
    BY <1>1, <1>3, <1>5 DEF CallerOf
  <2>2. \A j \in Call : Unmoved(j)
    BY <1>2, <1>3, <1>4, <2>1 DEF Unmoved, SameChannel
  <2> QED
    BY <2>2, ViewStutters
<1>6. CASE caller'[k] \in {"left", "leaving"}
  <2>1. ~CallOver(k)
    <3>1. k \in Invocation => future[k] # "taken"
      BY <1>1, <1>6 DEF StoreInv, InvocationOK
    <3> QED
      BY <1>1, <1>6, <3>1 DEF CallOver
  <2>2. CallerOf(k) = "waits" /\ CallerOf(k)' = "left"
    BY <1>1, <1>3, <1>6, <2>1 DEF CallerOf
  <2> QED
    BY <1>2, <1>3, <1>4, <2>2, ViewLeaves
<1> QED
  BY <1>5, <1>6

\* A failed send ends the call; so may the cleanup of an abandoned invocation,
\* and that of a failed one tells its caller.
LEMMA OwnerDropsView ==
    ASSUME StoreInv, NEW k \in Call, SendFails(k) \/ Cleanup(k)
    PROVE  [Contract!Next]_(Contract!vars)
<1> DEFINE D == {k} \cap data
<1>1. /\ Complete(D, "error") /\ Push(D \cap Stream, <<End>>) /\ <<End>> \in Ends
      /\ D \subseteq data /\ D \subseteq {k} /\ D \cap Stream \subseteq Stream
  BY DropActionsMeans DEF SendFails, Cleanup
<1>2. /\ consumed' = consumed
      /\ \A j \in Call \ {k} : caller'[j] = caller[j]
      /\ \/ caller[k] = "stored" /\ caller'[k] \in {"ready", "cleaning"}
         \/ caller[k] = "leaving" /\ caller'[k] = "left"
         \/ caller[k] = "cleaning" /\ caller'[k] = "returned"
  BY DEF SendFails, Cleanup, StoreInv, TypeOK, ownerVars
<1>b. k \in data <=> k \in D
  OBVIOUS
<1> HIDE DEF D
<1>3. \A j \in Call \ D :
         /\ j \in Invocation => future'[j] = future[j] /\ value'[j] = value[j]
         /\ j \in Stream => queue'[j] = queue[j]
  <2>1. \A j \in Invocation \ D : future'[j] = future[j] /\ value'[j] = value[j]
    BY <1>1, CompleteEffect
  <2>2. \A j \in Stream \ (D \cap Stream) : queue'[j] = queue[j]
    BY <1>1, PushEffect
  <2> QED
    BY <2>1, <2>2
<1>4. \A j \in Call \ {k} : Unmoved(j)
  BY <1>1, <1>2, <1>3, CallUnmoved
<1>5. CASE caller[k] # "cleaning" /\ k \in D
  <2>1. SameChannel(k) /\ Closed(k)'
    BY <1>1, <1>2, <1>5, CallDropped
  <2>2. \A j \in Call : SameChannel(j) /\ (Closed(j)' <=> Closed(j) \/ j \in D)
    BY <1>1, <1>4, <1>5, <2>1 DEF Unmoved
  <2> QED
    BY <1>1, <2>2, ViewEnds DEF StoreInv, TypeOK
<1>6. CASE caller[k] # "cleaning" /\ k \notin D
  <2>1. /\ k \in Invocation => future'[k] = future[k] /\ value'[k] = value[k]
        /\ k \in Stream => queue'[k] = queue[k]
    BY <1>3, <1>6
  <2>2. CallOver(k)' <=> CallOver(k)
    BY <1>2, <1>6, <2>1 DEF CallOver
  <2>3. CallerOf(k)' = CallerOf(k)
    BY <1>2, <1>6, <2>2 DEF CallerOf
  <2>4. PutInto(k)' = PutInto(k) /\ TakenFrom(k)' = TakenFrom(k)
    BY <1>2, <2>1, <2>2 DEF PutInto, TakenFrom, Answered, Call
  <2>5. Closed(k)' <=> Closed(k)
    BY <1>2, <1>6, <2>1 DEF Closed, Call
  <2> QED
    BY <1>4, <2>3, <2>4, <2>5, ViewStutters DEF Unmoved, SameChannel
<1>7. CASE caller[k] = "cleaning"
  <2>1. k \in Invocation /\ k \notin Stream /\ InvocationOK(k)
    BY <1>7, StoreAssumption DEF StoreInv, StreamOK, Call
  <2>2. future[k] \in {"complete", "taken"} /\ k \notin completer
    BY <1>7, <2>1 DEF InvocationOK, Closed
  <2>3. future'[k] = future[k] /\ value'[k] = value[k]
    BY <1>1, <2>1, <2>2, CompleteEffect
  <2>4. Closed(k) /\ Closed(k)' /\ PutInto(k)' = PutInto(k)
    BY <2>1, <2>2, <2>3 DEF Closed, PutInto, Answered
  <2>5. CallOver(k)' /\ CallerOf(k)' = "done"
    BY <1>2, <1>7 DEF CallOver, CallerOf
  <2>6. TakenFrom(k)' = Len(PutInto(k))
    BY <2>1, <2>3, <2>5 DEF TakenFrom, PutInto, Answered
  <2>7. CASE CallOver(k)
    <3>1. SameChannel(k)
      BY <2>1, <2>3, <2>4, <2>5, <2>7 DEF SameChannel, TakenFrom, CallerOf, Answered
    <3> QED
      BY <1>4, <2>4, <3>1, ViewStutters DEF Unmoved
  <2>8. CASE ~CallOver(k)
    <3>1. CallerOf(k) = "waits"
      BY <1>7, <2>8 DEF CallerOf
    <3> QED
      BY <1>4, <2>1, <2>4, <2>5, <2>6, <3>1, ViewFinishes
  <2> QED
    BY <2>7, <2>8
<1> QED
  BY <1>5, <1>6, <1>7

\* A poll of a future that is complete takes what it holds; any other poll is
\* not seen.
LEMMA PollFutureView ==
    ASSUME StoreInv, NEW k \in Call, PollFuture(k)
    PROVE  [Contract!Next]_(Contract!vars)
<1>1. k \in Invocation /\ k \notin Stream
  BY StoreAssumption DEF PollFuture
<1>2. /\ UNCHANGED <<value, queue, consumed>>
      /\ \A j \in Call \ {k} : caller'[j] = caller[j]
      /\ \A j \in Invocation \ {k} : future'[j] = future[j]
  BY DEF PollFuture, StoreInv, TypeOK, ownerVars
<1>3. \A j \in Call \ {k} : Unmoved(j)
  BY <1>2, CallUnmoved
<1>4. PutInto(k)' = PutInto(k)
  BY <1>1, <1>2 DEF PutInto, Answered
<1>5. CASE future[k] = "complete"
  <2>1. future'[k] = "taken" /\ caller[k] = "ready" /\ caller'[k] = "cleaning"
    BY <1>1, <1>5 DEF PollFuture, StoreInv, TypeOK
  <2>2. Closed(k) /\ Closed(k)' /\ ~CallOver(k) /\ CallOver(k)'
    BY <1>1, <1>5, <2>1 DEF Closed, CallOver
  <2>3. CallerOf(k) = "waits" /\ CallerOf(k)' = "done"
    BY <2>1, <2>2 DEF CallerOf
  <2>4. TakenFrom(k)' = Len(PutInto(k))
    BY <1>1, <1>2, <2>2 DEF TakenFrom, PutInto, Answered
  <2> QED
    BY <1>1, <1>3, <1>4, <2>2, <2>3, <2>4, ViewFinishes
<1>6. CASE future[k] # "complete"
  <2>1. /\ future[k] \in {"incomplete", "waiting"} /\ future'[k] = "waiting"
        /\ caller[k] = "ready" /\ caller'[k] = "parked"
    BY <1>1, <1>6 DEF PollFuture, StoreInv, TypeOK
  <2>2. (Closed(k)' <=> Closed(k)) /\ ~CallOver(k) /\ ~CallOver(k)'
    BY <1>1, <2>1 DEF Closed, CallOver
  <2>3. TakenFrom(k)' = TakenFrom(k) /\ CallerOf(k)' = CallerOf(k)
    BY <1>1, <2>1, <2>2 DEF TakenFrom, CallerOf
  <2> QED
    BY <1>3, <1>4, <2>2, <2>3, ViewStutters DEF Unmoved, SameChannel
<1> QED
  BY <1>5, <1>6

\* A poll of a stream takes the next item or learns the end.
LEMMA PollQueueView ==
    ASSUME StoreInv, NEW k \in Call, PollQueue(k)
    PROVE  [Contract!Next]_(Contract!vars)
<1>1. /\ k \in Stream /\ k \notin Invocation /\ StreamOK(k) /\ caller[k] = "ready"
      /\ queue[k] \in Seq(Item \cup {End}) /\ consumed[k] \in Seq(Item)
  BY StoreAssumption DEF PollQueue, StoreInv, TypeOK
<1>2. \A j \in Call \ {k} : Unmoved(j)
  <2>1. /\ UNCHANGED <<future, value>>
        /\ \A j \in Call \ {k} : caller'[j] = caller[j]
        /\ \A j \in Stream \ {k} : queue'[j] = queue[j] /\ consumed'[j] = consumed[j]
    BY DEF PollQueue, StoreInv, TypeOK
  <2> QED
    BY <2>1, CallUnmoved
<1>3. ~CallOver(k) /\ CallerOf(k) = "waits"
  BY <1>1 DEF CallOver, CallerOf
<1>4. CASE queue[k] = <<>>
  <2>1. queue' = queue /\ consumed' = consumed /\ caller'[k] = "empty"
    BY <1>4 DEF PollQueue, StoreInv, TypeOK
  <2>2. ~CallOver(k)' /\ CallerOf(k)' = "waits"
    BY <1>1, <2>1 DEF CallOver, CallerOf
  <2>3. Closed(k)' <=> Closed(k)
    BY <1>1, <2>1 DEF Closed
  <2>4. PutInto(k)' = PutInto(k) /\ TakenFrom(k)' = TakenFrom(k)
    BY <1>1, <2>1 DEF PutInto, TakenFrom
  <2> QED
    BY <1>2, <1>3, <2>2, <2>3, <2>4, ViewStutters DEF Unmoved, SameChannel
<1>5. CASE queue[k] # <<>> /\ Head(queue[k]) = End
  <2>1. consumed' = consumed /\ caller'[k] = "returned" /\ queue'[k] = Tail(queue[k])
    BY <1>1, <1>5 DEF PollQueue, StoreInv, TypeOK
  <2>2. HasEnd(queue[k]) /\ Ahead(queue[k]) = <<>> /\ Ahead(queue'[k]) = <<>>
    BY <1>1, <1>5, <2>1, PopQueue DEF StreamOK
  <2>3. Closed(k) /\ Closed(k)'
    BY <1>1, <2>1, <2>2 DEF Closed, HasEnd
  <2>4. PutInto(k) = consumed[k] /\ PutInto(k)' = consumed[k]
    BY <1>1, <2>1, <2>2, ConcatEmptySeq DEF PutInto
  <2>5. TakenFrom(k) = Len(consumed[k]) /\ TakenFrom(k)' = Len(consumed[k])
    BY <1>1, <2>1 DEF TakenFrom
  <2>6. CallerOf(k)' = "done"
    BY <2>1 DEF CallerOf, CallOver
  <2> QED
    BY <1>2, <1>3, <2>3, <2>4, <2>5, <2>6, ViewFinishes
<1>6. CASE queue[k] # <<>> /\ Head(queue[k]) # End
  <2>1. /\ consumed'[k] = Append(consumed[k], Head(queue[k]))
        /\ caller'[k] = "ready" /\ queue'[k] = Tail(queue[k])
    BY <1>1, <1>6 DEF PollQueue, StoreInv, TypeOK
  <2>2. /\ HasEnd(queue'[k]) <=> HasEnd(queue[k])
        /\ Append(consumed[k], Head(queue[k])) \o Ahead(queue'[k]) = consumed[k] \o Ahead(queue[k])
        /\ Len(consumed[k]) < Len(consumed[k] \o Ahead(queue[k]))
    <3>1. ItemsThenEnds(queue[k])
      BY <1>1 DEF StreamOK
    <3>2. /\ HasEnd(Tail(queue[k])) <=> HasEnd(queue[k])
          /\ \A c \in Seq(Item) :
                /\ Append(c, Head(queue[k])) \o Ahead(Tail(queue[k])) = c \o Ahead(queue[k])
                /\ Len(c) < Len(c \o Ahead(queue[k]))
      BY <1>1, <1>6, <3>1, PopQueue
    <3>3. /\ Append(consumed[k], Head(queue[k])) \o Ahead(Tail(queue[k])) = consumed[k] \o Ahead(queue[k])
          /\ Len(consumed[k]) < Len(consumed[k] \o Ahead(queue[k]))
      BY <1>1, <3>2
    <3> QED
      BY <2>1, <3>2, <3>3
  <2>3. Closed(k)' <=> Closed(k)
    BY <1>1, <2>1, <2>2 DEF Closed, HasEnd
  <2>4. PutInto(k)' = PutInto(k)
    BY <1>1, <2>1, <2>2 DEF PutInto
  <2>5. TakenFrom(k) < Len(PutInto(k))
    BY <1>1, <2>2 DEF PutInto, TakenFrom
  <2>6. TakenFrom(k)' = TakenFrom(k) + 1
    BY <1>1, <1>6, <2>1 DEF TakenFrom
  <2>7. CallerOf(k)' = "waits"
    BY <1>1, <2>1 DEF CallerOf, CallOver
  <2> QED
    BY <1>1, <1>2, <1>3, <2>3, <2>4, <2>5, <2>6, <2>7, ViewTakes
<1> QED
  BY <1>4, <1>5, <1>6

\* An item that finds its action is put into the stream.
LEMMA ReadItemView ==
    ASSUME StoreInv, NEW k \in Call, ReadItem(k)
    PROVE  [Contract!Next]_(Contract!vars)
<1> DEFINE item == MaxItems + 2 - server[k]
<1>1. /\ k \in Stream /\ k \notin Invocation /\ item \in Item
      /\ k \in data => ~Closed(k) /\ ~HasEnd(queue[k]) /\ caller[k] # "new"
  BY ItemFindsOpen
<1>2. /\ UNCHANGED <<future, value, consumed>>
      /\ queue[k] \in Seq(Item \cup {End}) /\ consumed[k] \in Seq(Item)
  BY <1>1 DEF ReadItem, ownerVars, StoreInv, TypeOK
<1>3. CASE UNCHANGED <<queue, waker, caller>>
  <2>1. \A j \in Call : Unmoved(j)
    BY <1>2, <1>3, CallUnmoved
  <2> QED
    BY <2>1, ViewStutters
<1>4. CASE k \in data /\ Push({k}, <<item>>) /\ Wake({k})
  <2>1. queue' = [j \in Stream |-> IF j = k THEN queue[k] \o <<item>> ELSE queue[j]]
    BY <1>4 DEF Push
  <2>2. /\ \A j \in Call \ {k} : caller'[j] = caller[j]
        /\ caller'[k] = IF caller[k] = "parked" THEN "ready" ELSE caller[k]
    BY <1>4, WakeEffect
  <2>3. \A j \in Call \ {k} : Unmoved(j)
    BY <1>2, <2>1, <2>2, CallUnmoved
  <2>4. /\ ~HasEnd(queue[k])
        /\ queue'[k] \in Seq(Item \cup {End}) /\ ~HasEnd(queue'[k])
        /\ queue'[k] = Append(queue[k], item)
    BY <1>1, <1>2, <1>4, <2>1, PushItem
  <2>5. Ahead(queue'[k]) = Append(queue[k], item) /\ Ahead(queue[k]) = queue[k] /\ queue[k] \in Seq(Item)
    BY <1>2, <2>4, AheadOfOpen
  <2> HIDE DEF item
  <2>6. consumed[k] \o Append(queue[k], item) = Append(consumed[k] \o queue[k], item)
    <3>1. consumed[k] \in Seq(Item) /\ queue[k] \in Seq(Item) /\ item \in Item
      BY <1>1, <1>2, <2>5
    <3>2. \A c, q \in Seq(Item) : \A i \in Item : c \o Append(q, i) = Append(c \o q, i)
      BY AppendAcross
    <3>3. \A i \in Item : consumed[k] \o Append(queue[k], i) = Append(consumed[k] \o queue[k], i)
      BY <3>1, <3>2
    <3> QED
      BY <3>1, <3>3
  <2>7. PutInto(k)' = Append(PutInto(k), item) /\ TakenFrom(k)' = TakenFrom(k)
    BY <1>1, <1>2, <2>5, <2>6 DEF PutInto, TakenFrom
  <2>8. ~Closed(k) /\ ~Closed(k)'
    BY <1>1, <1>4, <2>2, <2>4 DEF Closed, HasEnd
  <2>9. CallerOf(k)' = CallerOf(k)
    BY <1>1, <2>2 DEF CallerOf, CallOver
  <2> QED
    BY <1>1, <2>3, <2>7, <2>8, <2>9, ViewProduces
<1> QED
  BY <1>3, <1>4 DEF ReadItem

\* A completion answers an open invocation, or ends a stream.
LEMMA ReadCompletionView ==
    ASSUME StoreInv, NEW k \in Call, ReadCompletion(k)
    PROVE  [Contract!Next]_(Contract!vars)
<1>1. /\ Complete({k} \cap Invocation, "answer") /\ Push({k} \cap Stream, <<End>>)
      /\ Wake(Touched({k})) /\ consumed' = consumed /\ k \in data
      /\ {k} \cap Stream \subseteq Stream /\ <<End>> \in Ends
  BY DEF ReadCompletion, ownerVars, Ends
<1>2. ASSUME NEW j \in Call
      PROVE  caller'[j] = caller[j] \/ (caller[j] = "parked" /\ caller'[j] = "ready")
  BY <1>1, <1>2, WakeEffect
<1>3. /\ \A j \in Invocation \ ({k} \cap Invocation) : future'[j] = future[j] /\ value'[j] = value[j]
      /\ \A j \in Stream \ ({k} \cap Stream) : queue'[j] = queue[j]
  <2>1. \A j \in Invocation \ ({k} \cap Invocation) : future'[j] = future[j] /\ value'[j] = value[j]
    BY <1>1, CompleteEffect
  <2>2. \A j \in Stream \ ({k} \cap Stream) : queue'[j] = queue[j]
    BY <1>1, PushEffect
  <2> QED
    BY <2>1, <2>2
<1>4. \A j \in Call \ {k} : Unmoved(j)
  BY <1>1, <1>2, <1>3, CallUnmoved
<1>5. CASE k \in Invocation /\ k \in completer
  <2>1. InvocationOK(k) /\ k \notin Stream
    BY <1>5, StoreAssumption DEF StoreInv
  <2>2. future'[k] = "complete" /\ value'[k] = "answer"
    BY <1>1, <1>5, CompleteEffect
  <2>3. ~Closed(k) /\ Closed(k)' /\ PutInto(k)' = <<TheAnswer>>
    BY <1>5, <2>1, <2>2 DEF InvocationOK, Closed, PutInto, Answered
  <2>4. ~CallOver(k) /\ ~CallOver(k)'
    BY <1>2, <2>1, <2>2, <2>3 DEF InvocationOK, CallOver, Closed
  <2>5. TakenFrom(k)' = TakenFrom(k) /\ CallerOf(k)' = CallerOf(k)
    BY <1>2, <2>1, <2>4 DEF TakenFrom, CallerOf
  <2> QED
    BY <1>4, <1>5, <2>3, <2>5, ViewAnswers
<1>6. CASE k \in Invocation /\ k \notin completer
  <2>1. k \notin Stream /\ future'[k] = future[k] /\ value'[k] = value[k]
    BY <1>1, <1>6, CompleteEffect, StoreAssumption
  <2>2. Unmoved(k)
    BY <1>2, <1>6, <2>1, CallUnmoved
  <2> QED
    BY <1>4, <2>2, ViewStutters
<1>7. CASE k \in Stream
  <2>1. HasEnd(queue'[k]) /\ Ahead(queue'[k]) = Ahead(queue[k])
    <3>1. \A j \in {k} \cap Stream : HasEnd(queue'[j]) /\ Ahead(queue'[j]) = Ahead(queue[j])
      BY <1>1, PushEffect
    <3> QED
      BY <1>7, <3>1
  <2>2. Closed(k)' /\ PutInto(k)' = PutInto(k) /\ TakenFrom(k)' = TakenFrom(k)
    BY <1>1, <1>7, <2>1 DEF Closed, HasEnd, PutInto, TakenFrom
  <2>3. CallerOf(k)' = CallerOf(k)
    BY <1>2, <1>7, StoreAssumption DEF CallerOf, CallOver
  <2>4. \A j \in Call : SameChannel(j) /\ (Closed(j)' <=> Closed(j) \/ j \in {k})
    BY <1>4, <2>2, <2>3 DEF Unmoved, SameChannel
  <2> QED
    BY <2>4, ViewEnds
<1> QED
  BY <1>5, <1>6, <1>7 DEF Call

\* Every step of the storage, its owners and its reader is a step of the
\* contract or is not seen by it.
LEMMA ContractStep == StoreInv /\ [Next]_vars => [Contract!Next]_(Contract!vars)
<1> SUFFICES ASSUME StoreInv, [Next]_vars PROVE [Contract!Next]_(Contract!vars)
  OBVIOUS
<1>1. ASSUME NEW k \in Call,
             \/ Insert(k) \/ Abandon(k) \/ OwnerProgress(k)
             \/ \E t \in Task : PollAgain(k, t)
             \/ ReadItem(k) \/ ReadCompletion(k)
      PROVE  [Contract!Next]_(Contract!vars)
  BY <1>1, OwnerMovesView, OwnerDropsView, PollFutureView, PollQueueView, ReadItemView,
     ReadCompletionView DEF OwnerProgress
<1>2. ASSUME Terminated \/ (\E k \in Call : ReadCompletionFails(k)) \/ UNCHANGED vars
      PROVE  [Contract!Next]_(Contract!vars)
  <2>1. UNCHANGED <<future, value, queue, consumed, caller>>
    BY <1>2 DEF Terminated, ReadCompletionFails, vars, ownerVars
  <2>2. \A j \in Call : Unmoved(j)
    BY <2>1, CallUnmoved
  <2> QED
    BY <2>2, ViewStutters
<1> QED
  BY <1>1, <1>2, StorageSectionsView DEF Next

\* Invocations and streams keep their contract: what is put into a call before
\* it is closed is taken once and in order, and its end is learnt last.
THEOREM ContractIsKept == Spec => KeepsContract
<1>1. Init => Contract!Init
  <2> SUFFICES ASSUME Init PROVE Contract!Init
    OBVIOUS
  <2>1. ASSUME NEW k \in Call
        PROVE  PutInto(k) = <<>> /\ TakenFrom(k) = 0 /\ CallerOf(k) = "waits" /\ ~Closed(k)
    <3>1. CASE k \in Stream
      <4>1. queue[k] = <<>> /\ consumed[k] = <<>> /\ caller[k] = "new"
        BY <3>1 DEF Init
      <4>2. ~HasEnd(queue[k]) /\ queue[k] \in Seq(Item \cup {End})
        BY <4>1 DEF HasEnd
      <4>3. Ahead(queue[k]) = <<>>
        BY <4>1, <4>2, AheadOfOpen
      <4> QED
        BY <3>1, <4>1, <4>2, <4>3, StoreAssumption
           DEF PutInto, TakenFrom, CallerOf, CallOver, Closed, HasEnd
    <3>2. CASE k \in Invocation
      <4>1. k \notin Stream /\ caller[k] = "new" /\ future[k] = "incomplete" /\ value[k] = "none"
        BY <3>2, StoreAssumption DEF Init
      <4> QED
        BY <4>1 DEF PutInto, TakenFrom, CallerOf, CallOver, Closed, Answered
    <3> QED
      BY <3>1, <3>2 DEF Call
  <2> QED
    BY <2>1 DEF Contract!Init
<1> QED
  BY <1>1, ContractStep, StoreInvariant, PTL DEF Spec, KeepsContract, Contract!Spec
=============================================================================
