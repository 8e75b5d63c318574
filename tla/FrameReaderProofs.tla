------------------------- MODULE FrameReaderProofs -------------------------
(***************************************************************************)
(* What the splitters do with every frame, and what the reader's steps     *)
(* preserve whatever the server sends.                                     *)
(***************************************************************************)
EXTENDS FrameReader, SequenceTheorems, FiniteSetTheorems, TLAPS

(* Induction.  The library's theorems take the claim as an operator, which  *)
(* the provers cannot instantiate; these take the set where it holds.       *)

\* Every set of numbers has a least one: the intervals from 0 are finite sets,
\* which are well-founded by inclusion.
LEMMA LeastNumber ==
    ASSUME NEW S \in SUBSET Nat, S # {}
    PROVE  \E m \in S : \A n \in S : m <= n
<1> DEFINE R == StrictSubsetOrdering(Nat)
           F == FiniteSubsetsOf(Nat)
           T == {0 .. n : n \in S}
<1>1. IsWellFoundedOn(R, F)
  BY FS_StrictSubsetOrderingWellFounded
<1>2. T \subseteq F
  <2>1. \A n \in S : 0 .. n \in SUBSET Nat
    OBVIOUS
  <2>2. \A n \in S : IsFiniteSet(0 .. n)
    BY FS_Interval
  <2> QED
    BY <2>1, <2>2 DEF FiniteSubsetsOf
<1>3. T # {}
  OBVIOUS
<1>4. ASSUME NEW i \in Nat, NEW j \in Nat, i < j
      PROVE  <<0 .. i, 0 .. j>> \in R
  <2>1. 0 .. i \in SUBSET Nat /\ 0 .. j \in SUBSET Nat /\ 0 .. i \subseteq 0 .. j
    BY <1>4
  <2>2. j \in 0 .. j /\ j \notin 0 .. i
    BY <1>4
  <2> QED
    BY <2>1, <2>2 DEF StrictSubsetOrdering
<1> HIDE DEF R, F, T
<1>5. PICK s \in T : \A t \in T : ~ (<<t, s>> \in R)
  BY <1>1, <1>2, <1>3, WFMin
<1>6. PICK m \in S : s = 0 .. m
  BY <1>5 DEF T
<1>7. ASSUME NEW n \in S PROVE m <= n
  <2>1. 0 .. n \in T /\ n \in Nat /\ m \in Nat
    BY DEF T
  <2>2. ~ (n < m)
    BY <1>4, <1>5, <1>6, <2>1
  <2> QED
    BY <2>1, <2>2
<1> QED
  BY <1>7

\* A set of numbers that contains 0 and the successor of each of its members
\* contains all.
LEMMA SetInduction ==
    ASSUME NEW S \in SUBSET Nat, 0 \in S, \A n \in S : n + 1 \in S
    PROVE  S = Nat
<1> SUFFICES ASSUME Nat \ S # {} PROVE FALSE
  OBVIOUS
<1>1. PICK m \in Nat \ S : \A n \in Nat \ S : m <= n
  BY LeastNumber
<1>2. m # 0 /\ m - 1 \in Nat /\ m - 1 + 1 = m /\ ~ (m <= m - 1)
  BY <1>1
<1>3. m - 1 \in S
  BY <1>1, <1>2
<1> QED
  BY <1>1, <1>2, <1>3

\* The results of taking step m times, from base.
Results(f, base, m, step) ==
    f[0] = base /\ \A n \in 1 .. m : f[n] = step[n][f[n - 1]]

\* A step that can be taken m times has a sequence of results.
LEMMA Recursion ==
    ASSUME NEW V, NEW base \in V, NEW m \in Nat, NEW step \in [1 .. m -> [V -> V]]
    PROVE  \E f \in [0 .. m -> V] : Results(f, base, m, step)
<1> USE DEF Results
<1> DEFINE S == {k \in Nat : k <= m => \E f \in [0 .. k -> V] : Results(f, base, k, step)}
<1>1. 0 \in S
  <2> DEFINE f == [n \in 0 .. 0 |-> base]
  <2>1. f \in [0 .. 0 -> V] /\ Results(f, base, 0, step)
    OBVIOUS
  <2> QED
    BY <2>1
<1>2. ASSUME NEW k \in S PROVE k + 1 \in S
  <2>0. k \in Nat /\ k + 1 \in Nat
    OBVIOUS
  <2> SUFFICES ASSUME k + 1 <= m
               PROVE  \E g \in [0 .. k + 1 -> V] : Results(g, base, k + 1, step)
    BY <2>0
  <2>1. k \in Nat /\ k <= m /\ k + 1 \in 1 .. m
    BY <2>0
  <2>2. PICK f \in [0 .. k -> V] : Results(f, base, k, step)
    BY <2>1
  <2> DEFINE g == [n \in 0 .. k + 1 |-> IF n = k + 1 THEN step[k + 1][f[k]] ELSE f[n]]
  <2>3. step[k + 1] \in [V -> V] /\ f[k] \in V
    BY <2>1
  <2>4. step[k + 1][f[k]] \in V
    BY <2>3
  <2>5. g \in [0 .. k + 1 -> V]
    BY <2>1, <2>4
  <2>6. \A n \in 0 .. k : g[n] = f[n]
    BY <2>1
  <2>7. g[k + 1] = step[k + 1][f[k]]
    BY <2>1
  <2>8. g[0] = base
    BY <2>1, <2>2, <2>6
  <2>9. ASSUME NEW n \in 1 .. k + 1 PROVE g[n] = step[n][g[n - 1]]
    <3>1. CASE n = k + 1
      BY <2>1, <2>6, <2>7, <3>1
    <3>2. CASE n # k + 1
      <4>1. n \in 1 .. k /\ n \in 0 .. k /\ n - 1 \in 0 .. k
        BY <2>1, <3>2
      <4> QED
        BY <2>2, <2>6, <4>1
    <3> QED
      BY <3>1, <3>2
  <2> HIDE DEF g
  <2> QED
    BY <2>5, <2>8, <2>9
<1>3. S = Nat
  <2>1. S \in SUBSET Nat
    OBVIOUS
  <2> HIDE DEF S
  <2> QED
    BY <1>1, <1>2, <2>1, SetInduction
<1>4. m \in S
  BY <1>3
<1> QED
  BY <1>4

\* What holds at 0 and is kept from each number to the next up to m holds up
\* to m: here, to be in V.
LEMMA InductionUpTo ==
    ASSUME NEW V, NEW m \in Nat, NEW f, f[0] \in V,
           \A n \in 1 .. m : f[n - 1] \in V => f[n] \in V
    PROVE  \A n \in 0 .. m : f[n] \in V
<1> DEFINE S == {k \in Nat : k <= m => f[k] \in V}
<1>1. 0 \in S
  OBVIOUS
<1>2. ASSUME NEW k \in S PROVE k + 1 \in S
  <2> SUFFICES ASSUME k + 1 <= m PROVE f[k + 1] \in V
    OBVIOUS
  <2>1. k \in Nat /\ k <= m /\ k + 1 \in 1 .. m /\ (k + 1) - 1 = k
    OBVIOUS
  <2>2. f[(k + 1) - 1] \in V
    BY <2>1
  <2> QED
    BY <2>1, <2>2
<1>3. S \in SUBSET Nat
  OBVIOUS
<1> HIDE DEF S
<1>4. S = Nat
  BY <1>1, <1>2, <1>3, SetInduction
<1> QED
  BY <1>4 DEF S

\* The same for the numbers in S.
LEMMA IntervalInduction ==
    ASSUME NEW S, NEW m \in Nat, 0 \in S, \A n \in 1 .. m : n - 1 \in S => n \in S
    PROVE  0 .. m \subseteq S
<1> DEFINE f == [n \in 0 .. m |-> n]
<1>1. f[0] = 0 /\ \A n \in 1 .. m : f[n] = n /\ f[n - 1] = n - 1
  OBVIOUS
<1>2. \A n \in 0 .. m : f[n] = n
  OBVIOUS
<1> HIDE DEF f
<1>3. f[0] \in S /\ \A n \in 1 .. m : f[n - 1] \in S => f[n] \in S
  BY <1>1
<1>4. \A n \in 0 .. m : f[n] \in S
  BY <1>3, InductionUpTo
<1> QED
  BY <1>2, <1>4

-----------------------------------------------------------------------------
(* The recursive functions of the splitters satisfy their equations.        *)

\* The cuts of the first n bytes are those of n - 1, and n if that is a separator.
LEMMA CutsDef ==
    ASSUME NEW text \in Seq(Bytes)
    PROVE  /\ Cuts(text) \in [0 .. Len(text) -> Seq(Nat)]
           /\ Cuts(text)[0] = <<0>>
           /\ \A n \in 1 .. Len(text) :
                 Cuts(text)[n] = IF text[n] = Separator THEN Append(Cuts(text)[n - 1], n)
                                 ELSE Cuts(text)[n - 1]
<1> DEFINE m == Len(text)
           V == Seq(Nat)
           Step(n, v) == IF text[n] = Separator THEN Append(v, n) ELSE v
           Equation(f) == f = [n \in 0 .. m |-> IF n = 0 THEN <<0>> ELSE Step(n, f[n - 1])]
<1>1. m \in Nat /\ <<0>> \in V
  OBVIOUS
<1>2. \A n \in 1 .. m, v \in V : Step(n, v) \in V
  OBVIOUS
<1>3. Cuts(text) = CHOOSE f : Equation(f)
  BY DEF Cuts
<1> HIDE DEF m, V, Step
<1> DEFINE step == [n \in 1 .. m |-> [v \in V |-> Step(n, v)]]
<1>4. step \in [1 .. m -> [V -> V]] /\ \A n \in 1 .. m, v \in V : step[n][v] = Step(n, v)
  BY <1>2
<1> HIDE DEF step
<1>5. PICK f \in [0 .. m -> V] : Results(f, <<0>>, m, step)
  BY <1>1, <1>4, Recursion
<1>6. f[0] = <<0>> /\ \A n \in 1 .. m : f[n - 1] \in V /\ f[n] = step[n][f[n - 1]]
  BY <1>1, <1>5 DEF Results
<1>7. Equation(f)
  BY <1>1, <1>4, <1>6
<1>8. Equation(Cuts(text))
  BY <1>3, <1>7
<1> DEFINE g == Cuts(text)
<1> HIDE DEF g
<1>9. g[0] = <<0>> /\ \A n \in 1 .. m : g[n] = Step(n, g[n - 1])
  BY <1>1, <1>8 DEF g
<1>10. \A n \in 0 .. m : g[n] \in V
  BY <1>1, <1>2, <1>9, InductionUpTo
<1>11. g \in [0 .. m -> V]
  BY <1>8, <1>10 DEF g
<1> QED
  BY <1>9, <1>11 DEF g, m, V, Step

\* What a piece contributes is a sequence of pieces.
LEMMA PieceTyped ==
    ASSUME NEW piece \in Seq(Bytes)
    PROVE  IfNotEmpty(piece) \in Seq(Seq(Bytes))
BY DEF IfNotEmpty

\* A part of a text without a separator in it is left alone.
LEMMA NothingStripped ==
    ASSUME NEW text \in Seq(Bytes), \A i \in 1 .. Len(text) : text[i] # Separator
    PROVE  StripRecordSeparator(text) = text
<1> DEFINE IsEnd(end) == /\ end = 0 \/ text[end] # Separator
                         /\ \A i \in end + 1 .. Len(text) : text[i] = Separator
<1>1. Len(text) \in 0 .. Len(text) /\ IsEnd(Len(text))
  OBVIOUS
<1>2. \A end \in 0 .. Len(text) : IsEnd(end) => end = Len(text)
  <2> SUFFICES ASSUME NEW end \in 0 .. Len(text), IsEnd(end), end # Len(text)
               PROVE  FALSE
    OBVIOUS
  <2>1. Len(text) \in end + 1 .. Len(text) /\ Len(text) \in 1 .. Len(text)
    OBVIOUS
  <2> QED
    BY <2>1
<1>3. (CHOOSE end \in 0 .. Len(text) : IsEnd(end)) = Len(text)
  BY <1>1, <1>2
<1>4. StripRecordSeparator(text) = SubSeq(text, 1, Len(text))
  BY <1>3 DEF StripRecordSeparator
<1>5. SubSeq(text, 1, Len(text)) = text
  BY SubSeqFull
<1> QED
  BY <1>4, <1>5

\* Of parts without separators, collecting keeps those that are not empty.
LEMMA CollectedDef ==
    ASSUME NEW parts \in Seq(Seq(Bytes)),
           \A n \in 1 .. Len(parts) : StripRecordSeparator(parts[n]) = parts[n]
    PROVE  /\ Collected(parts) \in [0 .. Len(parts) -> Seq(Seq(Bytes))]
           /\ Collected(parts)[0] = <<>>
           /\ \A n \in 1 .. Len(parts) :
                 Collected(parts)[n] = Collected(parts)[n - 1] \o IfNotEmpty(parts[n])
<1> DEFINE m == Len(parts)
           V == Seq(Seq(Bytes))
           Step(n, v) == v \o IfNotEmpty(StripRecordSeparator(parts[n]))
           Equation(f) == f = [n \in 0 .. m |-> IF n = 0 THEN <<>> ELSE Step(n, f[n - 1])]
<1>1. m \in Nat /\ <<>> \in V
  OBVIOUS
<1>2. ASSUME NEW n \in 1 .. m, NEW v \in V PROVE Step(n, v) \in V
  <2>1. parts[n] \in Seq(Bytes)
    OBVIOUS
  <2>2. IfNotEmpty(StripRecordSeparator(parts[n])) \in V
    BY <2>1, PieceTyped
  <2> QED
    BY <2>2
<1>3. Collected(parts) = CHOOSE f : Equation(f)
  BY DEF Collected
<1>4. \A n \in 1 .. m : \A v : Step(n, v) = v \o IfNotEmpty(parts[n])
  OBVIOUS
<1> HIDE DEF m, V, Step
<1> DEFINE step == [n \in 1 .. m |-> [v \in V |-> Step(n, v)]]
<1>5. step \in [1 .. m -> [V -> V]] /\ \A n \in 1 .. m, v \in V : step[n][v] = Step(n, v)
  BY <1>2
<1> HIDE DEF step
<1>6. PICK f \in [0 .. m -> V] : Results(f, <<>>, m, step)
  BY <1>1, <1>5, Recursion
<1>7. f[0] = <<>> /\ \A n \in 1 .. m : f[n - 1] \in V /\ f[n] = step[n][f[n - 1]]
  BY <1>1, <1>6 DEF Results
<1>8. Equation(f)
  BY <1>1, <1>5, <1>7
<1>9. Equation(Collected(parts))
  BY <1>3, <1>8
<1> DEFINE g == Collected(parts)
<1> HIDE DEF g
<1>10. g[0] = <<>> /\ \A n \in 1 .. m : g[n] = Step(n, g[n - 1])
  BY <1>1, <1>9 DEF g
<1>11. \A n \in 0 .. m : g[n] \in V
  BY <1>1, <1>2, <1>10, InductionUpTo
<1>12. g \in [0 .. m -> V]
  BY <1>9, <1>11 DEF g
<1> QED
  BY <1>4, <1>10, <1>12 DEF g, m, V

\* A piece that parses is a whole message, and the number taken is its own.
LEMMA ParsedNumber ==
    ASSUME NEW piece, Parses(piece)
    PROVE  /\ piece[1][1] \in Message
           /\ Len(piece) = 2
           /\ piece[1] = <<piece[1][1], 1>> /\ piece[2] = <<piece[1][1], 2>>
<1>1. PICK n \in Message : piece = Payload(n, 0)
  BY DEF Parses
<1>2. Payload(n, 0) = [i \in 1 .. 2 |-> <<n, i>>]
  BY DEF Payload
<1>3. Len(piece) = 2
  BY <1>1, <1>2
<1>4. piece[1] = <<n, 1>> /\ piece[2] = <<n, 2>>
  BY <1>1, <1>2
<1> QED
  BY <1>3, <1>4

\* The numbers found in the first n pieces are those of n - 1, and that of piece n
\* if it parses.
LEMMA DispatchedDef ==
    ASSUME NEW pieces \in Seq(Seq(Bytes))
    PROVE  /\ DispatchedOf(pieces) \in [0 .. Len(pieces) -> Seq(Message)]
           /\ DispatchedOf(pieces)[0] = <<>>
           /\ \A n \in 1 .. Len(pieces) :
                 DispatchedOf(pieces)[n] =
                     DispatchedOf(pieces)[n - 1]
                         \o (IF Parses(pieces[n]) THEN <<pieces[n][1][1]>> ELSE <<>>)
<1> DEFINE m == Len(pieces)
           V == Seq(Message)
           Step(n, v) == v \o (IF Parses(pieces[n]) THEN <<pieces[n][1][1]>> ELSE <<>>)
           Equation(f) == f = [n \in 0 .. m |-> IF n = 0 THEN <<>> ELSE Step(n, f[n - 1])]
<1>1. m \in Nat /\ <<>> \in V
  OBVIOUS
<1>2. ASSUME NEW n \in 1 .. m, NEW v \in V PROVE Step(n, v) \in V
  <2>1. Parses(pieces[n]) => pieces[n][1][1] \in Message
    BY ParsedNumber
  <2>2. (IF Parses(pieces[n]) THEN <<pieces[n][1][1]>> ELSE <<>>) \in V
    BY <2>1
  <2> QED
    BY <2>2
<1>3. DispatchedOf(pieces) = CHOOSE f : Equation(f)
  BY DEF DispatchedOf
<1> HIDE DEF m, V, Step
<1> DEFINE step == [n \in 1 .. m |-> [v \in V |-> Step(n, v)]]
<1>5. step \in [1 .. m -> [V -> V]] /\ \A n \in 1 .. m, v \in V : step[n][v] = Step(n, v)
  BY <1>2
<1> HIDE DEF step
<1>6. PICK f \in [0 .. m -> V] : Results(f, <<>>, m, step)
  BY <1>1, <1>5, Recursion
<1>7. f[0] = <<>> /\ \A n \in 1 .. m : f[n - 1] \in V /\ f[n] = step[n][f[n - 1]]
  BY <1>1, <1>6 DEF Results
<1>8. Equation(f)
  BY <1>1, <1>5, <1>7
<1>9. Equation(DispatchedOf(pieces))
  BY <1>3, <1>8
<1> DEFINE g == DispatchedOf(pieces)
<1> HIDE DEF g
<1>10. g[0] = <<>> /\ \A n \in 1 .. m : g[n] = Step(n, g[n - 1])
  BY <1>1, <1>9 DEF g
<1>11. \A n \in 0 .. m : g[n] \in V
  BY <1>1, <1>2, <1>10, InductionUpTo
<1>12. g \in [0 .. m -> V]
  BY <1>9, <1>11 DEF g
<1> QED
  BY <1>10, <1>12 DEF g, m, V, Step

\* The state of the loop of get_messages_binary.
LoopState(data) == [messages : Seq(Seq(Bytes)), from : 1 .. Len(data) + 1]

\* A round of that loop: to the first separator of the rest, if there is one.
IsRound(data, before, after) ==
    \/ /\ \A p \in before.from .. Len(data) : data[p] # Separator
       /\ after = before
    \/ \E p \in before.from .. Len(data) :
          /\ data[p] = Separator
          /\ \A q \in before.from .. p - 1 : data[q] # Separator
          /\ after = [messages |-> before.messages \o IfNotEmpty(SubSeq(data, before.from, p - 1)),
                      from     |-> p + 1]

\* Each round of the binary loop goes on from the state the one before has left.
LEMMA RoundsDef ==
    ASSUME NEW data \in Seq(Bytes)
    PROVE  /\ Rounds(data) \in [0 .. Len(data) -> LoopState(data)]
           /\ Rounds(data)[0] = [messages |-> <<>>, from |-> 1]
           /\ \A n \in 1 .. Len(data) : IsRound(data, Rounds(data)[n - 1], Rounds(data)[n])
<1> DEFINE m == Len(data)
           V == LoopState(data)
           base == [messages |-> <<>>, from |-> 1]
           separators(from) == {p \in from .. Len(data) : data[p] = Separator}
           first(from) == CHOOSE p \in separators(from) : \A q \in separators(from) : p <= q
           Split1(v) == [messages |-> v.messages \o IfNotEmpty(SubSeq(data, v.from, first(v.from) - 1)),
                        from     |-> first(v.from) + 1]
           Step(v) == IF separators(v.from) = {} THEN v ELSE Split1(v)
           Equation(f) == f = [n \in 0 .. m |-> IF n = 0 THEN base ELSE Step(f[n - 1])]
<1>1. m \in Nat /\ base \in V
  BY DEF LoopState
<1>2. Rounds(data) = CHOOSE f : Equation(f)
  BY DEF Rounds
<1>3. ASSUME NEW v \in V
      PROVE  Step(v) \in V /\ IsRound(data, v, Step(v))
  <2>1. v.from \in 1 .. Len(data) + 1 /\ v.messages \in Seq(Seq(Bytes))
    BY DEF LoopState
  <2>2. CASE separators(v.from) = {}
    BY <2>2 DEF IsRound
  <2>3. CASE separators(v.from) # {}
    <3> DEFINE S == separators(v.from)
               p == first(v.from)
    <3>1. S \in SUBSET Nat /\ S # {}
      BY <2>1, <2>3
    <3>2. \E x \in S : \A q \in S : x <= q
      <4> HIDE DEF S
      <4> QED
        BY <3>1, LeastNumber
    <3>3. p \in S /\ \A q \in S : p <= q
      BY <3>2
    <3> HIDE DEF p
    <3>4. p \in v.from .. Len(data) /\ data[p] = Separator
      BY <3>3
    <3>5. ASSUME NEW q \in v.from .. p - 1 PROVE data[q] # Separator
      <4>1. q \in v.from .. Len(data) /\ ~ (p <= q)
        BY <2>1, <3>4
      <4> QED
        BY <3>3, <4>1
    <3>6. SubSeq(data, v.from, p - 1) \in Seq(Bytes)
      BY <2>1, <3>4, SubSeqProperties
    <3> DEFINE messages == v.messages \o IfNotEmpty(SubSeq(data, v.from, p - 1))
    <3>7. messages \in Seq(Seq(Bytes))
      <4>1. IfNotEmpty(SubSeq(data, v.from, p - 1)) \in Seq(Seq(Bytes))
        BY <3>6, PieceTyped
      <4> QED
        BY <2>1, <4>1, ConcatProperties
    <3>8. p + 1 \in 1 .. Len(data) + 1
      BY <2>1, <3>4
    <3>9. Step(v) = [messages |-> messages, from |-> p + 1]
      BY <2>3 DEF p
    <3>10. IsRound(data, v, Step(v))
      BY <3>4, <3>5, <3>9 DEF IsRound
    <3> HIDE DEF Step, messages
    <3>11. Step(v) \in V
      BY <3>7, <3>8, <3>9 DEF LoopState
    <3> QED
      BY <3>10, <3>11
  <2> QED
    BY <2>2, <2>3
<1> HIDE DEF m, V, Step, base
<1> DEFINE step == [n \in 1 .. m |-> [v \in V |-> Step(v)]]
<1>4. step \in [1 .. m -> [V -> V]] /\ \A n \in 1 .. m, v \in V : step[n][v] = Step(v)
  BY <1>3
<1> HIDE DEF step
<1>5. PICK f \in [0 .. m -> V] : Results(f, base, m, step)
  BY <1>1, <1>4, Recursion
<1>6. f[0] = base /\ \A n \in 1 .. m : f[n - 1] \in V /\ f[n] = step[n][f[n - 1]]
  BY <1>1, <1>5 DEF Results
<1>7. Equation(f)
  BY <1>1, <1>4, <1>6
<1>8. Equation(Rounds(data))
  BY <1>2, <1>7
<1> DEFINE g == Rounds(data)
<1> HIDE DEF g
<1>9. g[0] = base /\ \A n \in 1 .. m : g[n] = Step(g[n - 1])
  BY <1>1, <1>8 DEF g
<1>10. \A n \in 0 .. m : g[n] \in V
  <2>1. g[0] \in V /\ \A n \in 1 .. m : g[n - 1] \in V => g[n] \in V
    BY <1>1, <1>3, <1>9
  <2> QED
    BY <1>1, <2>1, InductionUpTo
<1>11. g \in [0 .. m -> V]
  BY <1>8, <1>10 DEF g
<1>12. \A n \in 1 .. m : IsRound(data, g[n - 1], g[n])
  <2> SUFFICES ASSUME NEW n \in 1 .. m PROVE IsRound(data, g[n - 1], g[n])
    OBVIOUS
  <2>1. g[n - 1] \in V
    BY <1>1, <1>10
  <2> QED
    BY <1>3, <1>9, <2>1
<1> QED
  BY <1>9, <1>11, <1>12 DEF g, m, V, base

-----------------------------------------------------------------------------
(* The splitters find the runs.                                             *)

\* The pieces are the runs that start before n, in order; at says where.
AreRunsBefore(data, pieces, n, at) ==
    /\ at \in [1 .. Len(pieces) -> RunStarts(data)]
    /\ \A i \in 1 .. Len(pieces) : at[i] < n /\ IsRunAt(data, at[i], pieces[i])
    /\ \A i, j \in 1 .. Len(pieces) : i < j => at[i] < at[j]
    /\ \A s \in RunStarts(data) : s < n => \E i \in 1 .. Len(pieces) : at[i] = s

RunsBefore(data, pieces, n) == \E at : AreRunsBefore(data, pieces, n, at)

\* The run that starts at from is the next one, when none starts between.
LEMMA OneMoreRun ==
    ASSUME NEW data, NEW pieces \in Seq(Seq(Bytes)), NEW piece \in Seq(Bytes),
           NEW from \in Nat, NEW n \in Nat, from < n,
           RunStarts(data) \subseteq Nat, from \in RunStarts(data),
           IsRunAt(data, from, piece),
           \A s \in RunStarts(data) : s < n => s < from \/ s = from,
           RunsBefore(data, pieces, from)
    PROVE  RunsBefore(data, Append(pieces, piece), n)
<1> DEFINE k == Len(pieces)
           more == Append(pieces, piece)
<1>1. PICK at : AreRunsBefore(data, pieces, from, at)
  BY DEF RunsBefore
<1>2. /\ k \in Nat /\ Len(more) = k + 1 /\ more[k + 1] = piece
      /\ \A i \in 1 .. k : more[i] = pieces[i]
  OBVIOUS
<1> HIDE DEF k, more
<1> DEFINE new == [i \in 1 .. k + 1 |-> IF i = k + 1 THEN from ELSE at[i]]
<1>3. /\ \A i \in 1 .. k : at[i] \in RunStarts(data)
      /\ \A i \in 1 .. k : at[i] < from /\ IsRunAt(data, at[i], pieces[i])
      /\ \A i, j \in 1 .. k : i < j => at[i] < at[j]
      /\ \A s \in RunStarts(data) : s < from => \E i \in 1 .. k : at[i] = s
  BY <1>1 DEF AreRunsBefore, k
<1>4. new[k + 1] = from /\ \A i \in 1 .. k : new[i] = at[i]
  BY <1>2
<1>5. \A i \in 1 .. k + 1 : i = k + 1 \/ i \in 1 .. k
  BY <1>2
<1>6. k + 1 \in 1 .. k + 1 /\ \A i \in 1 .. k : i \in 1 .. k + 1 /\ i < k + 1 /\ ~ (k + 1 < i)
  BY <1>2
<1>7. new \in [1 .. k + 1 -> RunStarts(data)]
  BY <1>3, <1>4, <1>5
<1> HIDE DEF new
<1>8. ASSUME NEW i \in 1 .. k + 1
      PROVE  new[i] < n /\ IsRunAt(data, new[i], more[i])
  <2>1. CASE i = k + 1
    BY <1>2, <1>4, <2>1
  <2>2. CASE i \in 1 .. k
    <3>1. new[i] = at[i] /\ more[i] = pieces[i] /\ at[i] \in Nat
      BY <1>2, <1>3, <1>4, <2>2
    <3>2. at[i] < from /\ IsRunAt(data, at[i], pieces[i])
      BY <1>3, <2>2
    <3> QED
      BY <3>1, <3>2
  <2> QED
    BY <1>5, <2>1, <2>2
<1>9. ASSUME NEW i \in 1 .. k + 1, NEW j \in 1 .. k + 1, i < j
      PROVE  new[i] < new[j]
  <2>1. i \in 1 .. k
    BY <1>2, <1>9
  <2>2. CASE j = k + 1
    BY <1>3, <1>4, <2>1, <2>2
  <2>3. CASE j \in 1 .. k
    BY <1>3, <1>4, <1>9, <2>1, <2>3
  <2> QED
    BY <1>5, <2>2, <2>3
<1>10. ASSUME NEW s \in RunStarts(data), s < n
       PROVE  \E i \in 1 .. k + 1 : new[i] = s
  <2>1. CASE s = from
    BY <1>4, <1>6, <2>1
  <2>2. CASE s < from
    <3>1. PICK i \in 1 .. k : at[i] = s
      BY <1>3, <2>2
    <3> QED
      BY <1>4, <1>6, <3>1
  <2> QED
    BY <1>10, <2>1, <2>2
<1>11. AreRunsBefore(data, more, n, new)
  BY <1>2, <1>7, <1>8, <1>9, <1>10 DEF AreRunsBefore
<1> QED
  BY <1>11 DEF RunsBefore, more

\* Nothing of data from one place to another is a separator, and both are
\* next to one, or at an end.
IsCut(data, from, to) ==
    /\ from \in 1 .. Len(data) + 1 /\ to \in from - 1 .. Len(data)
    /\ from = 1 \/ data[from - 1] = Separator
    /\ to = Len(data) \/ data[to + 1] = Separator
    /\ \A i \in from .. to : data[i] # Separator

\* What is cut out is the next run, or nothing.
LEMMA CutIsRun ==
    ASSUME NEW data \in Seq(Bytes), NEW from, NEW to, IsCut(data, from, to)
    PROVE  /\ SubSeq(data, from, to) \in Seq(Bytes)
           /\ from = to + 1 => SubSeq(data, from, to) = <<>>
           /\ from # to + 1 => /\ SubSeq(data, from, to) # <<>>
                               /\ from \in RunStarts(data)
                               /\ IsRunAt(data, from, SubSeq(data, from, to))
           /\ \A s \in RunStarts(data) :
                 s < to + 2 => s < from \/ (s = from /\ from # to + 1)
<1> DEFINE piece == SubSeq(data, from, to)
           m == Len(data)
<1>1. /\ m \in Nat /\ from \in 1 .. m + 1 /\ to \in from - 1 .. m
      /\ from = 1 \/ data[from - 1] = Separator
      /\ to = m \/ data[to + 1] = Separator
      /\ \A i \in from .. to : data[i] # Separator
  BY DEF IsCut
<1>2. RunStarts(data) = {s \in 1 .. m : data[s] # Separator /\ (s = 1 \/ data[s - 1] = Separator)}
  BY DEF RunStarts
<1>3. /\ piece \in Seq(Bytes) /\ Len(piece) = to - from + 1
      /\ \A i \in 1 .. to - from + 1 : piece[i] = data[from + i - 1]
  BY <1>1, SubSeqProperties
<1>4. DOMAIN piece = 1 .. to - from + 1
  BY <1>3
<1> DEFINE len == Len(piece)
<1>5. len = to - from + 1
  BY <1>3
<1>6. IsRunAt(data, from, piece) <=>
          /\ from + len <= m + 1
          /\ \A i \in DOMAIN piece : piece[i] = data[from + i - 1] /\ piece[i] # Separator
          /\ from + len = m + 1 \/ data[from + len] = Separator
  BY DEF IsRunAt
<1>7. from = to + 1 => piece = <<>>
  BY <1>3, <1>1
<1>8. from # to + 1 => piece # <<>>
  <2> SUFFICES ASSUME from # to + 1, piece = <<>> PROVE FALSE
    OBVIOUS
  <2>1. len = 0
    BY <1>3
  <2> QED
    BY <1>1, <1>5, <2>1
<1> HIDE DEF piece, m, len
<1>9. ASSUME from # to + 1
      PROVE  from \in RunStarts(data) /\ IsRunAt(data, from, piece)
  <2>1. from \in from .. to /\ from \in 1 .. m
    BY <1>1, <1>9
  <2>2. from \in RunStarts(data)
    BY <1>1, <1>2, <2>1
  <2>3. from + len = to + 1 /\ to + 1 <= m + 1
    BY <1>1, <1>5
  <2>4. ASSUME NEW i \in DOMAIN piece
        PROVE  piece[i] = data[from + i - 1] /\ piece[i] # Separator
    <3>1. i \in 1 .. to - from + 1 /\ from + i - 1 \in from .. to
      BY <1>1, <1>4
    <3> QED
      BY <1>1, <1>3, <3>1
  <2>5. from + len = m + 1 \/ data[from + len] = Separator
    BY <1>1, <2>3
  <2> QED
    BY <1>6, <2>2, <2>3, <2>4, <2>5
<1>10. ASSUME NEW s \in RunStarts(data), s < to + 2, ~ (s < from)
       PROVE  s = from /\ from # to + 1
  <2>1. s \in 1 .. m /\ data[s] # Separator /\ (s = 1 \/ data[s - 1] = Separator)
    BY <1>2
  <2>2. s # to + 1
    BY <1>1, <2>1
  <2>3. s \in from .. to
    BY <1>1, <1>10, <2>1, <2>2
  <2>4. CASE s # from
    <3>1. s - 1 \in from .. to /\ s # 1
      BY <1>1, <2>3, <2>4
    <3> QED
      BY <1>1, <2>1, <3>1
  <2> QED
    BY <1>1, <2>3, <2>4
<1> QED
  BY <1>3, <1>7, <1>8, <1>9, <1>10 DEF piece

\* So a splitter that has found the runs before a cut and adds what it cuts
\* out has found the runs before what follows.
LEMMA NextRun ==
    ASSUME NEW data \in Seq(Bytes), NEW pieces \in Seq(Seq(Bytes)), NEW from, NEW to,
           IsCut(data, from, to), RunsBefore(data, pieces, from)
    PROVE  RunsBefore(data, pieces \o IfNotEmpty(SubSeq(data, from, to)), to + 2)
<1> DEFINE piece == SubSeq(data, from, to)
<1>1. from \in Nat /\ to + 2 \in Nat /\ from < to + 2 /\ RunStarts(data) \subseteq Nat
  BY DEF IsCut, RunStarts
<1>2. /\ piece \in Seq(Bytes)
      /\ from = to + 1 => piece = <<>>
      /\ from # to + 1 => /\ piece # <<>> /\ from \in RunStarts(data)
                          /\ IsRunAt(data, from, piece)
      /\ \A s \in RunStarts(data) : s < to + 2 => s < from \/ (s = from /\ from # to + 1)
  BY CutIsRun
<1> HIDE DEF piece
<1>3. CASE from = to + 1
  <2>1. pieces \o IfNotEmpty(piece) = pieces
    BY <1>2, <1>3 DEF IfNotEmpty
  <2>2. PICK at : AreRunsBefore(data, pieces, from, at)
    BY DEF RunsBefore
  <2>3. \A s \in RunStarts(data) : s < to + 2 => s < from
    BY <1>2, <1>3
  <2>4. \A i \in 1 .. Len(pieces) : at[i] < from => at[i] < to + 2
    <3> SUFFICES ASSUME NEW i \in 1 .. Len(pieces) PROVE at[i] < from => at[i] < to + 2
      OBVIOUS
    <3>1. at[i] \in Nat
      BY <1>1, <2>2 DEF AreRunsBefore
    <3> QED
      BY <1>1, <3>1
  <2>5. AreRunsBefore(data, pieces, to + 2, at)
    BY <2>2, <2>3, <2>4 DEF AreRunsBefore
  <2> QED
    BY <2>1, <2>5 DEF RunsBefore, piece
<1>4. CASE from # to + 1
  <2>1. pieces \o IfNotEmpty(piece) = Append(pieces, piece)
    BY <1>2, <1>4 DEF IfNotEmpty
  <2>2. \A s \in RunStarts(data) : s < to + 2 => s < from \/ s = from
    BY <1>2
  <2>3. RunsBefore(data, Append(pieces, piece), to + 2)
    BY <1>1, <1>2, <1>4, <2>2, OneMoreRun
  <2> QED
    BY <2>1, <2>3 DEF piece
<1> QED
  BY <1>3, <1>4

\* All runs start before the end.
LEMMA AllRuns ==
    ASSUME NEW data \in Seq(Bytes), NEW pieces \in Seq(Seq(Bytes)), NEW n \in Nat,
           n > Len(data), RunsBefore(data, pieces, n)
    PROVE  AreTheRuns(data, pieces)
<1>1. PICK at : AreRunsBefore(data, pieces, n, at)
  BY DEF RunsBefore
<1>2. \A s \in RunStarts(data) : s < n
  BY DEF RunStarts
<1>3. DOMAIN pieces = 1 .. Len(pieces)
  OBVIOUS
<1> QED
  BY <1>1, <1>2, <1>3 DEF AreTheRuns, AreRunsBefore

\* Nothing starts before the first byte.
LEMMA NoRuns ==
    ASSUME NEW data \in Seq(Bytes)
    PROVE  RunsBefore(data, <<>>, 1)
<1> DEFINE at == [i \in 1 .. 0 |-> 0]
<1>1. Len(<<>>) = 0 /\ \A s \in RunStarts(data) : ~ (s < 1)
  BY DEF RunStarts
<1>2. at \in [1 .. 0 -> RunStarts(data)] /\ \A i \in 1 .. 0 : FALSE
  OBVIOUS
<1> HIDE DEF at
<1>3. AreRunsBefore(data, <<>>, 1, at)
  BY <1>1, <1>2 DEF AreRunsBefore
<1> QED
  BY <1>3 DEF RunsBefore

-----------------------------------------------------------------------------
(* get_messages_text.                                                       *)

\* The places where a text is cut, up to byte n.
AreCuts(text, n, at) ==
    /\ at \in Seq(Nat) /\ Len(at) >= 1 /\ at[1] = 0
    /\ \A i \in 1 .. Len(at) : at[i] <= n /\ (at[i] = 0 \/ text[at[i]] = Separator)
    /\ \A i \in 1 .. Len(at) - 1 :
          at[i] < at[i + 1] /\ \A p \in at[i] + 1 .. at[i + 1] - 1 : text[p] # Separator
    /\ \A p \in at[Len(at)] + 1 .. n : text[p] # Separator

\* One byte more.
LEMMA NextCut ==
    ASSUME NEW text, NEW n \in Nat, n >= 1, NEW at, AreCuts(text, n - 1, at)
    PROVE  AreCuts(text, n, IF text[n] = Separator THEN Append(at, n) ELSE at)
<1> DEFINE k == Len(at)
<1>1. at \in Seq(Nat) /\ k \in Nat /\ k >= 1 /\ at[1] = 0
  BY DEF AreCuts
<1>2. \A i \in 1 .. k : at[i] <= n - 1 /\ (at[i] = 0 \/ text[at[i]] = Separator)
  BY DEF AreCuts
<1>3. \A i \in 1 .. k - 1 :
          at[i] < at[i + 1] /\ \A p \in at[i] + 1 .. at[i + 1] - 1 : text[p] # Separator
  BY DEF AreCuts
<1>4. \A p \in at[k] + 1 .. n - 1 : text[p] # Separator
  BY DEF AreCuts
<1>5. \A i \in 1 .. k : at[i] \in Nat
  BY <1>1
<1>6. CASE text[n] = Separator
  <2> DEFINE more == Append(at, n)
  <2>1. /\ more \in Seq(Nat) /\ Len(more) = k + 1 /\ more[k + 1] = n
        /\ \A i \in 1 .. k : more[i] = at[i]
    BY <1>1
  <2> HIDE DEF more, k
  <2>2. ASSUME NEW i \in 1 .. k + 1
        PROVE  more[i] <= n /\ (more[i] = 0 \/ text[more[i]] = Separator)
    <3>1. CASE i = k + 1
      BY <1>6, <2>1, <3>1
    <3>2. CASE i \in 1 .. k
      <4>1. more[i] = at[i] /\ at[i] \in Nat /\ at[i] <= n - 1
        BY <1>2, <1>5, <2>1, <3>2
      <4>2. at[i] = 0 \/ text[at[i]] = Separator
        BY <1>2, <3>2
      <4> QED
        BY <4>1, <4>2
    <3> QED
      BY <1>1, <3>1, <3>2
  <2>3. ASSUME NEW i \in 1 .. k
        PROVE  /\ more[i] < more[i + 1]
               /\ \A p \in more[i] + 1 .. more[i + 1] - 1 : text[p] # Separator
    <3>1. CASE i = k
      <4>1. more[i] = at[k] /\ more[i + 1] = n /\ at[k] \in Nat /\ at[k] <= n - 1
        BY <1>1, <1>2, <1>5, <2>1, <3>1
      <4> QED
        BY <1>4, <4>1
    <3>2. CASE i \in 1 .. k - 1
      <4>1. i + 1 \in 1 .. k
        BY <1>1, <3>2
      <4>2. more[i] = at[i] /\ more[i + 1] = at[i + 1]
        BY <2>1, <4>1
      <4> QED
        BY <1>3, <3>2, <4>2
    <3> QED
      BY <1>1, <3>1, <3>2
  <2>4. more[1] = 0
    BY <1>1, <2>1
  <2>5. \A p \in more[k + 1] + 1 .. n : text[p] # Separator
    BY <2>1
  <2>6. k + 1 >= 1 /\ (k + 1) - 1 = k
    BY <1>1
  <2>7. AreCuts(text, n, more)
    BY <2>1, <2>2, <2>3, <2>4, <2>5, <2>6 DEF AreCuts
  <2> QED
    BY <1>6, <2>7 DEF more
<1>7. CASE text[n] # Separator
  <2> HIDE DEF k
  <2>1. \A i \in 1 .. k : at[i] <= n
    BY <1>2, <1>5
  <2>2. \A p \in at[k] + 1 .. n : text[p] # Separator
    <3> SUFFICES ASSUME NEW p \in at[k] + 1 .. n PROVE text[p] # Separator
      OBVIOUS
    <3>1. at[k] \in Nat
      BY <1>1, <1>5
    <3>2. p = n \/ p \in at[k] + 1 .. n - 1
      BY <3>1
    <3> QED
      BY <1>4, <1>7, <3>2
  <2>3. AreCuts(text, n, at)
    BY <1>1, <1>2, <1>3, <2>1, <2>2 DEF AreCuts, k
  <2> QED
    BY <1>7, <2>3
<1> QED
  BY <1>6, <1>7

\* All cuts of a text are found, and in order.
LEMMA CutsFound ==
    ASSUME NEW text \in Seq(Bytes)
    PROVE  AreCuts(text, Len(text), Cuts(text)[Len(text)])
<1> DEFINE m == Len(text)
           S == {n \in 0 .. m : AreCuts(text, n, Cuts(text)[n])}
<1>1. /\ m \in Nat /\ Cuts(text)[0] = <<0>>
      /\ \A n \in 1 .. m :
            Cuts(text)[n] = IF text[n] = Separator THEN Append(Cuts(text)[n - 1], n)
                            ELSE Cuts(text)[n - 1]
  BY CutsDef
<1>2. AreCuts(text, 0, <<0>>)
  BY DEF AreCuts
<1>3. 0 \in S
  BY <1>1, <1>2
<1>4. ASSUME NEW n \in 1 .. m, n - 1 \in S PROVE n \in S
  <2>1. n \in Nat /\ n >= 1 /\ n \in 0 .. m
    BY <1>1
  <2>2. AreCuts(text, n - 1, Cuts(text)[n - 1])
    BY <1>4
  <2>3. AreCuts(text, n, IF text[n] = Separator THEN Append(Cuts(text)[n - 1], n)
                         ELSE Cuts(text)[n - 1])
    BY <2>1, <2>2, NextCut
  <2>4. AreCuts(text, n, Cuts(text)[n])
    BY <1>1, <2>3
  <2> QED
    BY <2>1, <2>4
<1> HIDE DEF S
<1>5. 0 .. m \subseteq S
  BY <1>1, <1>3, <1>4, IntervalInduction
<1>6. m \in 0 .. m
  BY <1>1
<1> QED
  BY <1>5, <1>6 DEF S

\* get_messages_text cuts every text into exactly its runs.
THEOREM TextExact ==
    ASSUME NEW text \in Seq(Bytes)
    PROVE  /\ GetMessagesText(text) \in Seq(Seq(Bytes))
           /\ AreTheRuns(text, GetMessagesText(text))
<1> DEFINE m == Len(text)
           c == Cuts(text)[m]
           k == Len(c)
           at == Append(c, m + 1)
           parts == Split(text)
<1>1. m \in Nat /\ AreCuts(text, m, c)
  BY CutsFound
<1>2. c \in Seq(Nat) /\ k \in Nat /\ k >= 1 /\ c[1] = 0
  BY <1>1 DEF AreCuts
<1>3. /\ Len(at) = k + 1 /\ at[k + 1] = m + 1
      /\ \A i \in 1 .. k : at[i] = c[i] /\ c[i] \in Nat
  BY <1>1, <1>2
<1> DEFINE Part(i) == SubSeq(text, at[i] + 1, at[i + 1] - 1)
<1>4. parts = [i \in 1 .. k |-> Part(i)]
  <2>1. parts = [i \in 1 .. Len(at) - 1 |-> Part(i)]
    BY DEF Split
  <2>2. Len(at) - 1 = k
    BY <1>2, <1>3
  <2> HIDE DEF Part, parts
  <2> QED
    BY <2>1, <2>2
<1>5. /\ \A i \in 1 .. k : c[i] <= m /\ (c[i] = 0 \/ text[c[i]] = Separator)
      /\ \A i \in 1 .. k - 1 :
            c[i] < c[i + 1] /\ \A p \in c[i] + 1 .. c[i + 1] - 1 : text[p] # Separator
      /\ \A p \in c[k] + 1 .. m : text[p] # Separator
  BY <1>1 DEF AreCuts
<1> HIDE DEF at, parts, c, k, m, Part
<1>6. ASSUME NEW i \in 1 .. k PROVE IsCut(text, at[i] + 1, at[i + 1] - 1)
  <2>1. at[i] = c[i] /\ c[i] \in Nat /\ c[i] <= m /\ (c[i] = 0 \/ text[c[i]] = Separator)
    BY <1>3, <1>5
  <2>2. (c[i] + 1) - 1 = c[i] /\ c[i] + 1 \in 1 .. m + 1
    BY <1>1, <2>1
  <2>3. c[i] + 1 = 1 \/ text[(c[i] + 1) - 1] = Separator
    BY <2>1, <2>2
  <2>4. CASE i = k
    <3>1. at[i + 1] - 1 = m
      BY <1>1, <1>3, <2>4
    <3>2. \A p \in c[i] + 1 .. m : text[p] # Separator
      BY <1>5, <2>4
    <3>3. m \in (c[i] + 1) - 1 .. m
      BY <1>1, <2>1
    <3> QED
      BY <2>1, <2>2, <2>3, <3>1, <3>2, <3>3 DEF IsCut, m
  <2>5. CASE i # k
    <3>1. i \in 1 .. k - 1 /\ i + 1 \in 1 .. k
      BY <1>2, <2>5
    <3>2. at[i + 1] = c[i + 1] /\ c[i + 1] \in Nat /\ c[i + 1] <= m
      BY <1>3, <1>5, <3>1
    <3>3. c[i] < c[i + 1] /\ \A p \in c[i] + 1 .. c[i + 1] - 1 : text[p] # Separator
      BY <1>5, <3>1
    <3>4. c[i + 1] # 0
      BY <2>1, <3>2, <3>3
    <3>5. text[c[i + 1]] = Separator
      BY <1>5, <3>1, <3>4
    <3>6. c[i + 1] - 1 \in (c[i] + 1) - 1 .. m /\ (c[i + 1] - 1) + 1 = c[i + 1]
      BY <1>1, <2>1, <3>2, <3>3
    <3> DEFINE to == c[i + 1] - 1
    <3>7. text[to + 1] = Separator /\ to \in (c[i] + 1) - 1 .. m
      BY <3>5, <3>6
    <3>8. \A p \in c[i] + 1 .. to : text[p] # Separator
      BY <3>3
    <3> HIDE DEF to
    <3>9. IsCut(text, c[i] + 1, to)
      BY <2>2, <2>3, <3>7, <3>8 DEF IsCut, m
    <3> QED
      BY <2>1, <3>2, <3>9 DEF to
  <2> QED
    BY <2>4, <2>5
<1>7. ASSUME NEW i \in 1 .. k
      PROVE  /\ parts[i] = SubSeq(text, at[i] + 1, at[i + 1] - 1)
             /\ parts[i] \in Seq(Bytes)
             /\ StripRecordSeparator(parts[i]) = parts[i]
  <2> DEFINE from == at[i] + 1
             to == at[i + 1] - 1
             part == SubSeq(text, from, to)
  <2>1. parts[i] = part
    BY <1>4 DEF Part
  <2>2. IsCut(text, from, to)
    BY <1>6
  <2> HIDE DEF from, to
  <2>3. /\ from \in 1 .. m + 1 /\ to \in from - 1 .. m
        /\ \A p \in from .. to : text[p] # Separator
    BY <2>2 DEF IsCut, m
  <2>4. /\ part \in Seq(Bytes) /\ Len(part) = to - from + 1
        /\ \A j \in 1 .. to - from + 1 : part[j] = text[from + j - 1]
    BY <1>1, <2>3, SubSeqProperties DEF m
  <2> HIDE DEF part
  <2>5. \A j \in 1 .. Len(part) : part[j] # Separator
    <3> SUFFICES ASSUME NEW j \in 1 .. to - from + 1 PROVE part[j] # Separator
      BY <2>4
    <3>1. from + j - 1 \in from .. to
      BY <1>1, <2>3
    <3> QED
      BY <2>3, <2>4, <3>1
  <2>6. StripRecordSeparator(part) = part
    BY <2>4, <2>5, NothingStripped
  <2> QED
    BY <2>1, <2>4, <2>6 DEF part, from, to
<1>8. parts \in Seq(Seq(Bytes)) /\ Len(parts) = k
  <2>1. parts = [i \in 1 .. k |-> parts[i]]
    BY <1>4
  <2>2. \A i \in 1 .. k : parts[i] \in Seq(Bytes)
    BY <1>7
  <2> HIDE DEF parts
  <2>3. parts \in [1 .. k -> Seq(Bytes)]
    BY <2>1, <2>2
  <2> QED
    BY <1>2, <2>3, LenProperties
<1> DEFINE g == Collected(parts)
<1>9. /\ g \in [0 .. k -> Seq(Seq(Bytes))] /\ g[0] = <<>>
      /\ \A n \in 1 .. k : g[n] = g[n - 1] \o IfNotEmpty(parts[n])
  BY <1>7, <1>8, CollectedDef
<1>10. GetMessagesText(text) = g[k]
  BY <1>8 DEF GetMessagesText, parts
<1> HIDE DEF g
<1> DEFINE S == {n \in 0 .. k : RunsBefore(text, g[n], at[n + 1] + 1)}
<1>11. 0 \in S
  <2>1. at[0 + 1] + 1 = 1
    BY <1>2, <1>3
  <2>2. RunsBefore(text, g[0], at[0 + 1] + 1)
    BY <1>9, <2>1, NoRuns
  <2> QED
    BY <1>2, <2>2
<1>12. ASSUME NEW n \in 1 .. k, n - 1 \in S PROVE n \in S
  <2> DEFINE from == at[n] + 1
             to == at[n + 1] - 1
             before == g[n - 1]
  <2>1. n \in 0 .. k /\ n - 1 \in 0 .. k /\ (n - 1) + 1 = n
    BY <1>2
  <2>2. at[(n - 1) + 1] + 1 = from
    BY <2>1
  <2>3. RunsBefore(text, before, from)
    BY <1>12, <2>2
  <2>4. IsCut(text, from, to) /\ before \in Seq(Seq(Bytes))
    BY <1>6, <1>9, <2>1
  <2>5. g[n] = before \o IfNotEmpty(SubSeq(text, from, to))
    BY <1>7, <1>9
  <2>6. at[n + 1] \in Nat
    BY <1>1, <1>2, <1>3
  <2>7. to + 2 = at[n + 1] + 1
    BY <2>6
  <2> HIDE DEF from, to, before
  <2>8. RunsBefore(text, before \o IfNotEmpty(SubSeq(text, from, to)), to + 2)
    BY <2>3, <2>4, NextRun
  <2>9. RunsBefore(text, g[n], at[n + 1] + 1)
    BY <2>5, <2>7, <2>8
  <2> QED
    BY <2>1, <2>9
<1> HIDE DEF S
<1>13. 0 .. k \subseteq S
  BY <1>2, <1>11, <1>12, IntervalInduction
<1>14. k \in S
  BY <1>2, <1>13
<1>15. RunsBefore(text, g[k], m + 2)
  <2>1. RunsBefore(text, g[k], at[k + 1] + 1) /\ at[k + 1] + 1 = m + 2
    BY <1>1, <1>3, <1>14 DEF S
  <2> QED
    BY <2>1
<1>16. g[k] \in Seq(Seq(Bytes))
  BY <1>2, <1>9
<1>17. AreTheRuns(text, g[k])
  <2>1. m + 2 \in Nat /\ m + 2 > Len(text)
    BY <1>1 DEF m
  <2> QED
    BY <1>15, <1>16, <2>1, AllRuns
<1> QED
  BY <1>10, <1>16, <1>17

-----------------------------------------------------------------------------
(* get_messages_binary.                                                     *)

\* After n rounds the runs before the rest are found, and the rest has lost n
\* bytes or has no separator.
AfterRounds(data, n, r) ==
    /\ RunsBefore(data, r.messages, r.from)
    /\ r.from = 1 \/ data[r.from - 1] = Separator
    /\ r.from > n \/ \A p \in r.from .. Len(data) : data[p] # Separator

\* A round that starts with the runs before its rest ends so.
LEMMA NextRound ==
    ASSUME NEW data \in Seq(Bytes), NEW n \in 1 .. Len(data),
           NEW r \in LoopState(data), NEW next, IsRound(data, r, next),
           AfterRounds(data, n - 1, r)
    PROVE  AfterRounds(data, n, next)
<1> DEFINE m == Len(data)
           from == r.from
<1>1. m \in Nat /\ n \in 1 .. m /\ from \in 1 .. m + 1 /\ r.messages \in Seq(Seq(Bytes))
  BY DEF LoopState
<1>2. /\ RunsBefore(data, r.messages, from)
      /\ from = 1 \/ data[from - 1] = Separator
      /\ from > n - 1 \/ \A p \in from .. m : data[p] # Separator
  BY DEF AfterRounds
<1>3. CASE (\A p \in from .. m : data[p] # Separator) /\ next = r
  BY <1>2, <1>3 DEF AfterRounds
<1>4. ASSUME NEW p \in from .. m, data[p] = Separator,
             \A q \in from .. p - 1 : data[q] # Separator,
             next = [messages |-> r.messages \o IfNotEmpty(SubSeq(data, from, p - 1)),
                     from     |-> p + 1]
      PROVE  AfterRounds(data, n, next)
  <2> DEFINE to == p - 1
             messages == r.messages \o IfNotEmpty(SubSeq(data, from, to))
  <2>1. next.messages = messages /\ next.from = p + 1
    BY <1>4
  <2>2. to \in from - 1 .. m /\ to + 1 = p /\ to + 2 = p + 1 /\ (p + 1) - 1 = p
    BY <1>1
  <2>3. data[to + 1] = Separator /\ \A q \in from .. to : data[q] # Separator
    BY <1>4, <2>2
  <2>4. p + 1 > n
    <3>1. from > n - 1
      BY <1>2, <1>4
    <3> QED
      BY <1>1, <3>1
  <2> HIDE DEF to, from, m
  <2>5. IsCut(data, from, to)
    BY <1>1, <1>2, <2>2, <2>3 DEF IsCut, m
  <2>6. RunsBefore(data, messages, to + 2)
    BY <1>1, <1>2, <2>5, NextRun
  <2> HIDE DEF messages
  <2>7. RunsBefore(data, next.messages, next.from)
    BY <2>1, <2>2, <2>6
  <2>8. data[next.from - 1] = Separator
    BY <1>4, <2>1, <2>2
  <2> QED
    BY <2>1, <2>4, <2>7, <2>8 DEF AfterRounds
<1> QED
  BY <1>3, <1>4 DEF IsRound

\* get_messages_binary cuts every payload into exactly its runs.
THEOREM BinaryExact ==
    ASSUME NEW data \in Seq(Bytes)
    PROVE  /\ GetMessagesBinary(data) \in Seq(Seq(Bytes))
           /\ AreTheRuns(data, GetMessagesBinary(data))
<1> DEFINE m == Len(data)
           g == Rounds(data)
           base == [messages |-> <<>>, from |-> 1]
<1>1. /\ m \in Nat /\ g \in [0 .. m -> LoopState(data)] /\ g[0] = base
      /\ \A n \in 1 .. m : IsRound(data, g[n - 1], g[n])
  BY RoundsDef
<1>2. AfterRounds(data, 0, base)
  BY NoRuns DEF AfterRounds
<1>3. GetMessagesBinary(data) = g[m].messages \o IfNotEmpty(SubSeq(data, g[m].from, m))
  BY DEF GetMessagesBinary
<1> HIDE DEF m, g, base
<1> DEFINE S == {n \in 0 .. m : AfterRounds(data, n, g[n])}
<1>4. 0 \in S
  BY <1>1, <1>2
<1>5. ASSUME NEW n \in 1 .. m, n - 1 \in S PROVE n \in S
  <2>1. n \in 0 .. m /\ n - 1 \in 0 .. m
    BY <1>1
  <2>2. g[n - 1] \in LoopState(data) /\ IsRound(data, g[n - 1], g[n])
    BY <1>1, <2>1
  <2>3. AfterRounds(data, n - 1, g[n - 1])
    BY <1>5
  <2>4. AfterRounds(data, n, g[n])
    BY <2>2, <2>3, NextRound DEF m
  <2> QED
    BY <2>1, <2>4
<1> HIDE DEF S
<1>6. 0 .. m \subseteq S
  BY <1>1, <1>4, <1>5, IntervalInduction
<1>7. m \in S /\ g[m] \in LoopState(data)
  BY <1>1, <1>6
<1> DEFINE end == g[m]
           from == end.from
           messages == end.messages
<1>8. from \in 1 .. m + 1 /\ messages \in Seq(Seq(Bytes))
  BY <1>7 DEF LoopState, m
<1>9. /\ RunsBefore(data, messages, from)
      /\ from = 1 \/ data[from - 1] = Separator
      /\ from > m \/ \A p \in from .. m : data[p] # Separator
  BY <1>7 DEF S, AfterRounds, m
<1> HIDE DEF end, from, messages
<1>10. IsCut(data, from, m)
  BY <1>1, <1>8, <1>9 DEF IsCut, m
<1> DEFINE all == messages \o IfNotEmpty(SubSeq(data, from, m))
<1>11. RunsBefore(data, all, m + 2)
  BY <1>8, <1>9, <1>10, NextRun
<1>12. all \in Seq(Seq(Bytes))
  <2>1. SubSeq(data, from, m) \in Seq(Bytes)
    BY <1>10, CutIsRun
  <2>2. IfNotEmpty(SubSeq(data, from, m)) \in Seq(Seq(Bytes))
    BY <2>1, PieceTyped
  <2> QED
    BY <1>8, <2>2, ConcatProperties
<1> HIDE DEF all
<1>13. AreTheRuns(data, all)
  <2>1. m + 2 \in Nat /\ m + 2 > Len(data)
    BY <1>1 DEF m
  <2> QED
    BY <1>11, <1>12, <2>1, AllRuns
<1> QED
  BY <1>3, <1>12, <1>13 DEF all, messages, from, end

-----------------------------------------------------------------------------
(* What of a frame goes to the storage.                                     *)

\* d are the numbers of the pieces that parse among the first n; src says
\* which pieces they are.
ArePicked(pieces, n, d, src) ==
    /\ src \in [1 .. Len(d) -> 1 .. n]
    /\ \A k \in 1 .. Len(d) : Parses(pieces[src[k]]) /\ d[k] = pieces[src[k]][1][1]
    /\ \A k, l \in 1 .. Len(d) : k < l => src[k] < src[l]
    /\ \A i \in 1 .. n : Parses(pieces[i]) => \E k \in 1 .. Len(d) : src[k] = i

Picked(pieces, n, d) == \E src : ArePicked(pieces, n, d, src)

\* One more piece: its number is picked if it parses.
LEMMA NextPicked ==
    ASSUME NEW pieces, NEW n \in Nat, n >= 1, NEW d \in Seq(Message),
           Picked(pieces, n - 1, d)
    PROVE  Picked(pieces, n, d \o (IF Parses(pieces[n]) THEN <<pieces[n][1][1]>> ELSE <<>>))
<1> DEFINE k == Len(d)
           number == pieces[n][1][1]
<1>1. PICK src : ArePicked(pieces, n - 1, d, src)
  BY DEF Picked
<1>2. /\ k \in Nat /\ src \in [1 .. k -> 1 .. n - 1]
      /\ \A j \in 1 .. k : Parses(pieces[src[j]]) /\ d[j] = pieces[src[j]][1][1]
      /\ \A j, l \in 1 .. k : j < l => src[j] < src[l]
      /\ \A i \in 1 .. n - 1 : Parses(pieces[i]) => \E j \in 1 .. k : src[j] = i
  BY <1>1 DEF ArePicked
<1>3. \A i \in 1 .. n : i = n \/ i \in 1 .. n - 1
  OBVIOUS
<1>4. CASE ~ Parses(pieces[n])
  <2>1. d \o <<>> = d
    OBVIOUS
  <2>2. src \in [1 .. k -> 1 .. n]
    BY <1>2
  <2>3. \A i \in 1 .. n : Parses(pieces[i]) => \E j \in 1 .. k : src[j] = i
    BY <1>2, <1>3, <1>4
  <2>4. ArePicked(pieces, n, d, src)
    BY <1>2, <2>2, <2>3 DEF ArePicked
  <2> QED
    BY <1>4, <2>1, <2>4 DEF Picked
<1>5. CASE Parses(pieces[n])
  <2> DEFINE more == Append(d, number)
             new == [j \in 1 .. k + 1 |-> IF j = k + 1 THEN n ELSE src[j]]
  <2>1. number \in Message
    BY <1>5, ParsedNumber
  <2> HIDE DEF number
  <2>2. d \o <<number>> = more
    BY <2>1
  <2>3. /\ Len(more) = k + 1 /\ more[k + 1] = number
        /\ \A j \in 1 .. k : more[j] = d[j]
    BY <2>1
  <2>4. new[k + 1] = n /\ \A j \in 1 .. k : new[j] = src[j]
    BY <1>2
  <2>5. \A j \in 1 .. k + 1 : j = k + 1 \/ j \in 1 .. k
    BY <1>2
  <2>6. k + 1 \in 1 .. k + 1 /\ \A j \in 1 .. k : j \in 1 .. k + 1
    BY <1>2
  <2>7. \A j \in 1 .. k : src[j] \in 1 .. n - 1 /\ src[j] \in 1 .. n /\ src[j] < n
    BY <1>2
  <2>8. n \in 1 .. n
    OBVIOUS
  <2>9. new \in [1 .. k + 1 -> 1 .. n]
    BY <2>4, <2>5, <2>7, <2>8
  <2> HIDE DEF k, more, new
  <2>10. ASSUME NEW j \in 1 .. k + 1
         PROVE  Parses(pieces[new[j]]) /\ more[j] = pieces[new[j]][1][1]
    <3>1. CASE j = k + 1
      BY <1>5, <2>3, <2>4, <3>1 DEF number
    <3>2. CASE j \in 1 .. k
      BY <1>2, <2>3, <2>4, <3>2
    <3> QED
      BY <2>5, <3>1, <3>2
  <2>11. ASSUME NEW j \in 1 .. k + 1, NEW l \in 1 .. k + 1, j < l
         PROVE  new[j] < new[l]
    <3>1. j \in 1 .. k
      BY <1>2, <2>11
    <3>2. CASE l = k + 1
      BY <2>4, <2>7, <3>1, <3>2
    <3>3. CASE l \in 1 .. k
      BY <1>2, <2>4, <2>11, <3>1, <3>3
    <3> QED
      BY <2>5, <3>2, <3>3
  <2>12. ASSUME NEW i \in 1 .. n, Parses(pieces[i])
         PROVE  \E j \in 1 .. k + 1 : new[j] = i
    <3>1. CASE i = n
      BY <2>4, <2>6, <3>1
    <3>2. CASE i \in 1 .. n - 1
      <4>1. PICK j \in 1 .. k : src[j] = i
        BY <1>2, <2>12, <3>2
      <4> QED
        BY <2>4, <2>6, <4>1
    <3> QED
      BY <1>3, <3>1, <3>2
  <2>13. ArePicked(pieces, n, more, new)
    BY <2>3, <2>9, <2>10, <2>11, <2>12 DEF ArePicked
  <2>14. Picked(pieces, n, more)
    BY <2>13 DEF Picked
  <2> QED
    BY <1>5, <2>2, <2>14 DEF number
<1> QED
  BY <1>4, <1>5

\* What is dispatched is picked from the pieces, in their order.
LEMMA DispatchedPicked ==
    ASSUME NEW pieces \in Seq(Seq(Bytes))
    PROVE  /\ Dispatched(pieces) \in Seq(Message)
           /\ Picked(pieces, Len(pieces), Dispatched(pieces))
<1> DEFINE m == Len(pieces)
           g == DispatchedOf(pieces)
<1>0. m \in Nat
  OBVIOUS
<1>1. /\ g \in [0 .. m -> Seq(Message)] /\ g[0] = <<>>
      /\ \A n \in 1 .. m :
            g[n] = g[n - 1] \o (IF Parses(pieces[n]) THEN <<pieces[n][1][1]>> ELSE <<>>)
  BY DispatchedDef, Zenon
<1>2. Dispatched(pieces) = g[m]
  BY DEF Dispatched
<1> HIDE DEF m, g
<1> DEFINE S == {n \in 0 .. m : Picked(pieces, n, g[n])}
<1>3. 0 \in S
  <2> DEFINE src == [k \in 1 .. 0 |-> 0]
  <2>1. Len(<<>>) = 0 /\ src \in [1 .. 0 -> 1 .. 0] /\ \A k \in 1 .. 0 : FALSE
    OBVIOUS
  <2> HIDE DEF src
  <2>2. ArePicked(pieces, 0, <<>>, src)
    BY <2>1 DEF ArePicked
  <2> QED
    BY <1>0, <1>1, <2>2 DEF Picked
<1>4. ASSUME NEW n \in 1 .. m, n - 1 \in S PROVE n \in S
  <2>1. n \in Nat /\ n >= 1 /\ n \in 0 .. m /\ n - 1 \in 0 .. m
    BY <1>0, <1>1
  <2>2. g[n - 1] \in Seq(Message) /\ Picked(pieces, n - 1, g[n - 1])
    BY <1>0, <1>1, <1>4, <2>1
  <2>3. Picked(pieces, n, g[n])
    BY <1>0, <1>1, <2>1, <2>2, NextPicked
  <2> QED
    BY <2>1, <2>3
<1> HIDE DEF S
<1>5. 0 .. m \subseteq S
  BY <1>0, <1>1, <1>3, <1>4, IntervalInduction
<1>6. m \in S /\ g[m] \in Seq(Message)
  BY <1>0, <1>1, <1>5
<1> QED
  BY <1>2, <1>6 DEF S, m

\* Message n is in the data at p, whole, with a separator or an end on either
\* side.
Isolated(data, n, p) ==
    /\ p \in 1 .. Len(data) - 1
    /\ data[p] = <<n, 1>> /\ data[p + 1] = <<n, 2>>
    /\ p = 1 \/ data[p - 1] = Separator
    /\ p + 1 = Len(data) \/ data[p + 2] = Separator

\* A run that parses is a message alone between separators.
LEMMA RunThatParses ==
    ASSUME NEW data \in Seq(Bytes), NEW s \in RunStarts(data), NEW piece,
           IsRunAt(data, s, piece), Parses(piece)
    PROVE  Isolated(data, piece[1][1], s)
<1> DEFINE n == piece[1][1]
           m == Len(data)
<1>1. Len(piece) = 2 /\ piece[1] = <<n, 1>> /\ piece[2] = <<n, 2>>
  BY ParsedNumber
<1>2. DOMAIN piece = 1 .. 2
  BY DEF Parses, Payload
<1>3. m \in Nat /\ s \in 1 .. m /\ (s = 1 \/ data[s - 1] = Separator)
  BY DEF RunStarts
<1> HIDE DEF n
<1>4. /\ s + 2 <= m + 1
      /\ \A i \in 1 .. 2 : piece[i] = data[s + i - 1]
      /\ s + 2 = m + 1 \/ data[s + 2] = Separator
  BY <1>1, <1>2 DEF IsRunAt
<1> HIDE DEF m
<1>5. piece[1] = data[s] /\ piece[2] = data[s + 1]
  <2>1. s + 1 - 1 = s /\ s + 2 - 1 = s + 1
    BY <1>3
  <2> QED
    BY <1>4, <2>1
<1>6. s \in 1 .. m - 1 /\ (s + 1 = m \/ data[s + 2] = Separator)
  BY <1>3, <1>4
<1> QED
  BY <1>1, <1>3, <1>5, <1>6 DEF Isolated, n, m

\* A message alone between separators is a run that parses.
LEMMA IsolatedParses ==
    ASSUME NEW data \in Seq(Bytes), NEW n \in Message, NEW p, Isolated(data, n, p),
           NEW piece \in Seq(Bytes), IsRunAt(data, p, piece)
    PROVE  Parses(piece) /\ piece[1][1] = n
<1> DEFINE m == Len(data)
           len == Len(piece)
<1>1. /\ m \in Nat /\ p \in 1 .. m - 1
      /\ data[p] = <<n, 1>> /\ data[p + 1] = <<n, 2>>
      /\ p + 1 = m \/ data[p + 2] = Separator
  BY DEF Isolated
<1>2. /\ len \in Nat /\ p + len <= m + 1
      /\ \A i \in 1 .. len : piece[i] = data[p + i - 1] /\ piece[i] # Separator
      /\ p + len = m + 1 \/ data[p + len] = Separator
      /\ piece = [i \in 1 .. len |-> piece[i]]
  BY DEF IsRunAt
<1>3. n \in Nat /\ n # 0
  BY DEF Message
<1>4. data[p] # Separator /\ data[p + 1] # Separator
  BY <1>1, <1>3 DEF Separator
<1> HIDE DEF m, len
<1>5. len = 2
  <2>1. len # 0
    <3> SUFFICES ASSUME len = 0 PROVE FALSE
      OBVIOUS
    <3>1. p + len = p /\ p # m + 1
      BY <1>1
    <3> QED
      BY <1>2, <1>4, <3>1
  <2>2. len # 1
    <3> SUFFICES ASSUME len = 1 PROVE FALSE
      OBVIOUS
    <3>1. p + len = p + 1 /\ p + 1 # m + 1
      BY <1>1
    <3> QED
      BY <1>2, <1>4, <3>1
  <2>3. ~ (len >= 3)
    <3> SUFFICES ASSUME len >= 3 PROVE FALSE
      OBVIOUS
    <3>1. 3 \in 1 .. len /\ p + 3 - 1 = p + 2 /\ p + 1 # m
      BY <1>1, <1>2
    <3> QED
      BY <1>1, <1>2, <3>1
  <2> QED
    BY <1>2, <2>1, <2>2, <2>3
<1>6. piece[1] = <<n, 1>> /\ piece[2] = <<n, 2>>
  <2>1. 1 \in 1 .. len /\ 2 \in 1 .. len /\ p + 1 - 1 = p /\ p + 2 - 1 = p + 1
    BY <1>1, <1>5
  <2> QED
    BY <1>1, <1>2, <2>1
<1>7. Payload(n, 0) = [i \in 1 .. 2 |-> <<n, i>>]
  BY DEF Payload
<1>8. piece = Payload(n, 0)
  <2>1. \A i \in 1 .. 2 : piece[i] = <<n, i>>
    BY <1>6
  <2> QED
    BY <1>2, <1>5, <1>7, <2>1
<1>9. piece[1][1] = n
  BY <1>6
<1> QED
  BY <1>8, <1>9 DEF Parses

\* The numbers d are those of the messages isolated in the data, in order; pos
\* says where they are.
AreIsolated(data, d, pos) ==
    /\ \A k \in 1 .. Len(d) : Isolated(data, d[k], pos[k])
    /\ \A k, l \in 1 .. Len(d) : k < l => pos[k] < pos[l]
    /\ \A n \in Message : \A p : Isolated(data, n, p) => \E k \in 1 .. Len(d) : d[k] = n

FoundIn(data, d) == \E pos : AreIsolated(data, d, pos)

\* A frame gives the storage exactly the whole messages in it, in order.
THEOREM DispatchedFound ==
    ASSUME NEW data \in Seq(Bytes), NEW pieces \in Seq(Seq(Bytes)), AreTheRuns(data, pieces)
    PROVE  Dispatched(pieces) \in Seq(Message) /\ FoundIn(data, Dispatched(pieces))
<1> DEFINE d == Dispatched(pieces)
           k == Len(pieces)
<1>1. d \in Seq(Message) /\ Picked(pieces, k, d)
  BY DispatchedPicked
<1>2. PICK src : ArePicked(pieces, k, d, src)
  BY <1>1 DEF Picked
<1> HIDE DEF d
<1>3. /\ k \in Nat /\ DOMAIN pieces = 1 .. k /\ \A i \in 1 .. k : pieces[i] \in Seq(Bytes)
  OBVIOUS
<1> HIDE DEF k
<1>4. PICK at \in [1 .. k -> RunStarts(data)] :
          /\ \A i \in 1 .. k : IsRunAt(data, at[i], pieces[i])
          /\ \A i, j \in 1 .. k : i < j => at[i] < at[j]
          /\ \A s \in RunStarts(data) : \E i \in 1 .. k : at[i] = s
  BY <1>3 DEF AreTheRuns
<1> DEFINE m == Len(d)
           pos == [j \in 1 .. m |-> at[src[j]]]
<1>5. /\ src \in [1 .. m -> 1 .. k]
      /\ \A j \in 1 .. m : Parses(pieces[src[j]]) /\ d[j] = pieces[src[j]][1][1]
      /\ \A j, l \in 1 .. m : j < l => src[j] < src[l]
      /\ \A i \in 1 .. k : Parses(pieces[i]) => \E j \in 1 .. m : src[j] = i
  BY <1>2 DEF ArePicked
<1> HIDE DEF m
<1>6. \A j \in 1 .. m : src[j] \in 1 .. k /\ pos[j] = at[src[j]]
  BY <1>5
<1> HIDE DEF pos
<1>7. ASSUME NEW j \in 1 .. m PROVE Isolated(data, d[j], pos[j])
  <2>1. at[src[j]] \in RunStarts(data) /\ IsRunAt(data, at[src[j]], pieces[src[j]])
    BY <1>4, <1>6
  <2>2. Parses(pieces[src[j]]) /\ d[j] = pieces[src[j]][1][1]
    BY <1>5
  <2>3. Isolated(data, pieces[src[j]][1][1], at[src[j]])
    BY <2>1, <2>2, RunThatParses
  <2> QED
    BY <1>6, <2>2, <2>3
<1>8. ASSUME NEW j \in 1 .. m, NEW l \in 1 .. m, j < l PROVE pos[j] < pos[l]
  <2>1. src[j] < src[l]
    BY <1>5, <1>8
  <2> QED
    BY <1>4, <1>6, <2>1
<1>9. ASSUME NEW n \in Message, NEW p, Isolated(data, n, p)
      PROVE  \E j \in 1 .. m : d[j] = n
  <2>1. p \in RunStarts(data)
    <3>1. p \in DOMAIN data /\ data[p] = <<n, 1>> /\ (p = 1 \/ data[p - 1] = Separator)
      BY <1>9 DEF Isolated
    <3>2. data[p] # Separator
      BY <3>1 DEF Separator
    <3> QED
      BY <3>1, <3>2 DEF RunStarts
  <2>2. PICK i \in 1 .. k : at[i] = p
    BY <1>4, <2>1
  <2>3. IsRunAt(data, p, pieces[i]) /\ pieces[i] \in Seq(Bytes)
    BY <1>3, <1>4, <2>2
  <2>4. Parses(pieces[i]) /\ pieces[i][1][1] = n
    BY <1>9, <2>3, IsolatedParses
  <2>5. PICK j \in 1 .. m : src[j] = i
    BY <1>5, <2>4
  <2> QED
    BY <1>5, <2>4, <2>5
<1>10. AreIsolated(data, d, pos)
  BY <1>7, <1>8, <1>9 DEF AreIsolated, m
<1> QED
  BY <1>1, <1>10 DEF FoundIn, d

-----------------------------------------------------------------------------
(* What the server sends.                                                   *)

\* A serialised message: its two bytes, unless one is the separator's, and the
\* separator.
LEMMA SerializedMessage ==
    ASSUME NEW n \in 0 .. MaxMessages, NEW place \in {0, 1, 2}
    PROVE  /\ Serialize(Payload(n, place)) \in Seq(Bytes)
           /\ \A r \in 1 .. 3 : Serialize(Payload(n, place))[r] =
                 IF r = 3 \/ r = place THEN Separator ELSE <<n, r>>
<1> DEFINE x == Payload(n, place)
<1>1. \A r \in 1 .. 2 : x[r] = IF r = place THEN Separator ELSE <<n, r>>
  BY DEF Payload
<1>2. Separator \in Bytes /\ \A r \in 1 .. 2 : <<n, r>> \in Bytes
  BY FrameAssumption DEF Bytes, Separator
<1>3. \A r \in 1 .. 2 : x[r] \in Bytes
  BY <1>1, <1>2
<1>4. x = [r \in 1 .. 2 |-> x[r]]
  BY DEF Payload
<1> HIDE DEF x
<1>5. x \in [1 .. 2 -> Bytes]
  BY <1>3, <1>4
<1>6. x \in Seq(Bytes) /\ Len(x) = 2
  BY <1>5, LenProperties
<1> DEFINE y == Append(x, Separator)
<1>7. y \in Seq(Bytes) /\ y[3] = Separator /\ \A r \in 1 .. 2 : y[r] = x[r]
  <2>1. y \in Seq(Bytes)
    BY <1>2, <1>6
  <2>2. \A r \in 1 .. 2 : y[r] = x[r]
    <3>1. \A r \in 1 .. Len(x) : y[r] = x[r]
      BY <1>2, <1>6, AppendProperties
    <3> HIDE DEF y
    <3> QED
      BY <1>6, <3>1
  <2>3. y[3] = Separator
    <3>1. y[Len(x) + 1] = Separator
      BY <1>2, <1>6, AppendProperties
    <3>2. Len(x) + 1 = 3
      BY <1>6
    <3> HIDE DEF y
    <3> QED
      BY <3>1, <3>2
  <2> QED
    BY <2>1, <2>2, <2>3
<1> HIDE DEF y
<1>8. ASSUME NEW r \in 1 .. 3
      PROVE  y[r] = IF r = 3 \/ r = place THEN Separator ELSE <<n, r>>
  <2>1. CASE r = 3
    BY <1>7, <2>1
  <2>2. CASE r # 3
    <3>1. r \in 1 .. 2
      BY <2>2
    <3> QED
      BY <1>1, <1>7, <2>2, <3>1
  <2> QED
    BY <2>1, <2>2
<1> QED
  BY <1>7, <1>8 DEF Serialize, x, y

\* Which byte of which message is at place p, and back.
LEMMA BytePlaces ==
    ASSUME NEW c \in Nat, NEW p \in 1 .. 3 * c
    PROVE  (p + 2) \div 3 \in 1 .. c /\ p - 3 * ((p + 2) \div 3 - 1) \in 1 .. 3
OBVIOUS

\* Byte r of message i is found again where it is put, three bytes a message.
LEMMA PlaceOfByte ==
    ASSUME NEW c \in Nat, NEW i \in 1 .. c, NEW r \in 1 .. 3
    PROVE  /\ 3 * (i - 1) + r \in 1 .. 3 * c
           /\ (3 * (i - 1) + r + 2) \div 3 = i
           /\ 3 * (i - 1) + r - 3 * (i - 1) = r
OBVIOUS

\* The bytes of the next messages, by message and place.
LEMMA MessagesBytes ==
    ASSUME NEW base \in Nat, NEW c \in Nat, base + c <= MaxMessages,
           NEW places \in [1 .. c -> {0, 1, 2}]
    PROVE  /\ Messages(base, places) \in Seq(Bytes)
           /\ Len(Messages(base, places)) = 3 * c
           /\ \A i \in 1 .. c, r \in 1 .. 3 :
                 Messages(base, places)[3 * (i - 1) + r] =
                     IF r = 3 \/ r = places[i] THEN Separator ELSE <<base + i, r>>
<1> DEFINE Body(i) == Serialize(Payload(base + i, places[i]))
           Byte(i, r) == IF r = 3 \/ r = places[i] THEN Separator ELSE <<base + i, r>>
           At(p) == (p + 2) \div 3
           sent == Messages(base, places)
<1>1. Len(places) = c
  <2>1. places \in Seq({0, 1, 2}) /\ Len(places) = c
    BY LenProperties
  <2> QED
    BY <2>1
<1>2. sent = [p \in 1 .. 3 * c |-> Body(At(p))[p - 3 * (At(p) - 1)]]
  BY <1>1 DEF Messages
<1>3. ASSUME NEW i \in 1 .. c
      PROVE  Body(i) \in Seq(Bytes) /\ \A r \in 1 .. 3 : Body(i)[r] = Byte(i, r)
  <2>1. base + i \in 0 .. MaxMessages /\ places[i] \in {0, 1, 2}
    BY FrameAssumption
  <2> QED
    BY <2>1, SerializedMessage
<1>4. ASSUME NEW i \in 1 .. c, NEW r \in 1 .. 3 PROVE Byte(i, r) \in Bytes
  <2>1. base + i \in 0 .. MaxMessages /\ Separator \in Bytes
    BY FrameAssumption DEF Bytes, Separator
  <2>2. CASE r = 3
    BY <2>1, <2>2
  <2>3. CASE r # 3
    <3>1. r \in 0 .. 2
      BY <2>3
    <3>2. <<base + i, r>> \in Bytes
      BY <2>1, <3>1 DEF Bytes
    <3> QED
      BY <2>1, <3>2
  <2> QED
    BY <2>2, <2>3
<1>5. \A p \in 1 .. 3 * c : At(p) \in 1 .. c /\ p - 3 * (At(p) - 1) \in 1 .. 3
  BY BytePlaces
<1> HIDE DEF Body, Byte, At, sent
<1>7. \A p \in 1 .. 3 * c : sent[p] = Body(At(p))[p - 3 * (At(p) - 1)]
  BY <1>2
<1>8. ASSUME NEW p \in 1 .. 3 * c PROVE sent[p] \in Bytes
  <2> DEFINE i == At(p)
             r == p - 3 * (i - 1)
  <2>1. i \in 1 .. c /\ r \in 1 .. 3
    BY <1>5
  <2>2. sent[p] = Body(i)[r]
    BY <1>7
  <2> HIDE DEF i, r
  <2>3. sent[p] = Byte(i, r)
    BY <1>3, <2>1, <2>2
  <2> QED
    BY <1>4, <2>1, <2>3
<1>9. sent \in [1 .. 3 * c -> Bytes]
  BY <1>2, <1>8
<1>10. sent \in Seq(Bytes) /\ Len(sent) = 3 * c
  BY <1>9, LenProperties
<1>11. ASSUME NEW i \in 1 .. c, NEW r \in 1 .. 3
       PROVE  sent[3 * (i - 1) + r] = Byte(i, r)
  <2> DEFINE p == 3 * (i - 1) + r
  <2>1. p \in 1 .. 3 * c /\ At(p) = i /\ p - 3 * (i - 1) = r
    BY PlaceOfByte DEF At
  <2> HIDE DEF p
  <2>2. sent[p] = Body(i)[r]
    BY <1>7, <2>1
  <2> QED
    BY <1>3, <2>2 DEF p
<1> QED
  BY <1>10, <1>11 DEF sent, Byte

\* Where byte r of the i-th message is, after the first o bytes.
PlaceIn(o, i, r) == o + 3 * (i - 1) + r

\* Byte r of the i-th message after number base.
ByteOf(base, places, i, r) ==
    IF r = 3 \/ r = places[i] THEN Separator ELSE <<base + i, r>>

\* The bytes of a websocket message: o of the answer, then count messages
\* after number base.
AreSent(bytes, o, base, places, count) ==
    /\ bytes \in Seq(Bytes) /\ Len(bytes) = o + 3 * count
    /\ \A q \in 1 .. o : bytes[q][1] = 0
    /\ o = 0 \/ bytes[o] = Separator
    /\ \A i \in 1 .. count, r \in 1 .. 3 :
          bytes[PlaceIn(o, i, r)] = ByteOf(base, places, i, r)

\* What is where in two joined sequences.
LEMMA Joined ==
    ASSUME NEW S, NEW s \in Seq(S), NEW t \in Seq(S)
    PROVE  /\ s \o t \in Seq(S) /\ Len(s \o t) = Len(s) + Len(t)
           /\ \A q \in 1 .. Len(s) : (s \o t)[q] = s[q]
           /\ \A q \in 1 .. Len(t) : (s \o t)[Len(s) + q] = t[q]
<1>1. s \o t \in Seq(S) /\ Len(s \o t) = Len(s) + Len(t)
  BY ConcatProperties
<1>2. ASSUME NEW q \in 1 .. Len(s) PROVE (s \o t)[q] = s[q]
  OBVIOUS
<1>3. ASSUME NEW q \in 1 .. Len(t) PROVE (s \o t)[Len(s) + q] = t[q]
  OBVIOUS
<1> QED
  BY <1>1, <1>2, <1>3

\* The bytes of a websocket message: its messages, behind the answer if that is due.
LEMMA WhatIsSent ==
    ASSUME NEW base \in Nat, NEW count \in Nat, base + count <= MaxMessages,
           NEW places \in [1 .. count -> {0, 1, 2}], NEW first \in BOOLEAN
    PROVE  \E o \in Nat :
              AreSent((IF first THEN <<>> ELSE Serialize(<<Answer>>)) \o Messages(base, places),
                      o, base, places, count)
<1> DEFINE sent == Messages(base, places)
           answer == Serialize(<<Answer>>)
           Byte(i, r) == IF r = 3 \/ r = places[i] THEN Separator ELSE <<base + i, r>>
<1>1. /\ sent \in Seq(Bytes) /\ Len(sent) = 3 * count
      /\ \A i \in 1 .. count, r \in 1 .. 3 : sent[3 * (i - 1) + r] = Byte(i, r)
  BY MessagesBytes
<1>2. Separator \in Bytes /\ Answer \in Bytes /\ Answer[1] = 0 /\ Separator[1] = 0
  BY FrameAssumption DEF Bytes, Separator, Answer
<1>3. /\ answer \in Seq(Bytes) /\ Len(answer) = 2
      /\ answer[1] = Answer /\ answer[2] = Separator
  BY <1>2 DEF Serialize
<1> HIDE DEF sent, answer, Byte
<1>4. CASE first
  <2>1. <<>> \o sent = sent
    BY <1>1
  <2>2. \A i \in 1 .. count, r \in 1 .. 3 : 0 + 3 * (i - 1) + r = 3 * (i - 1) + r
    OBVIOUS
  <2>3. AreSent(sent, 0, base, places, count)
    BY <1>1, <2>2 DEF AreSent, Byte, PlaceIn, ByteOf
  <2> QED
    BY <1>4, <2>1, <2>3 DEF sent
<1>5. CASE ~ first
  <2> DEFINE bytes == answer \o sent
  <2>0. sent \in Seq(Bytes) /\ answer \in Seq(Bytes) /\ Len(sent) = 3 * count /\ Len(answer) = 2
    BY <1>1, <1>3
  <2>1. /\ bytes \in Seq(Bytes) /\ Len(bytes) = 2 + 3 * count
        /\ \A q \in 1 .. 2 : bytes[q] = answer[q]
        /\ \A q \in 1 .. 3 * count : bytes[2 + q] = sent[q]
    <3>1. /\ bytes \in Seq(Bytes) /\ Len(bytes) = Len(answer) + Len(sent)
          /\ \A q \in 1 .. Len(answer) : bytes[q] = answer[q]
          /\ \A q \in 1 .. Len(sent) : bytes[Len(answer) + q] = sent[q]
      <4>1. sent \in Seq(Bytes) /\ answer \in Seq(Bytes)
        BY <2>0
      <4> QED
        BY <4>1, Joined
    <3> HIDE DEF bytes
    <3> QED
      BY <2>0, <3>1
  <2> HIDE DEF bytes
  <2>2. ASSUME NEW i \in 1 .. count, NEW r \in 1 .. 3
        PROVE  bytes[2 + 3 * (i - 1) + r] = Byte(i, r)
    <3> DEFINE p == 3 * (i - 1) + r
    <3>1. 2 + 3 * (i - 1) + r = 2 + p /\ p \in 1 .. 3 * count
      OBVIOUS
    <3>2. sent[p] = Byte(i, r)
      BY <1>1
    <3> HIDE DEF p
    <3> QED
      BY <2>1, <3>1, <3>2
  <2>3. bytes[1][1] = 0 /\ bytes[2][1] = 0 /\ bytes[2] = Separator
    BY <1>2, <1>3, <2>1
  <2>4. \A q \in 1 .. 2 : q = 1 \/ q = 2
    OBVIOUS
  <2>5. AreSent(bytes, 2, base, places, count)
    BY <2>1, <2>2, <2>3, <2>4 DEF AreSent, Byte, PlaceIn, ByteOf
  <2> QED
    BY <1>5, <2>5 DEF bytes, answer, sent
<1> QED
  BY <1>4, <1>5

\* The order of the server: by message, then by place.
Before(b, c) == b[1] < c[1] \/ (b[1] = c[1] /\ b[2] < c[2])

AllBefore(d, e) ==
    \A p \in DOMAIN d, q \in DOMAIN e : d[p][1] # 0 /\ e[q][1] # 0 => Before(d[p], e[q])

Ascending(d) ==
    \A p, q \in DOMAIN d : p < q /\ d[p][1] # 0 /\ d[q][1] # 0 => Before(d[p], d[q])

Above(d, n)    == \A p \in DOMAIN d : d[p][1] # 0 => n < d[p][1]
NotAbove(d, n) == \A p \in DOMAIN d : d[p][1] <= n

\* What is at place q is byte r of the i-th message, as it is.
IsByte(bytes, q, o, base, places, i, r) ==
    q = PlaceIn(o, i, r) /\ r # places[i] /\ bytes[q] = <<base + i, r>>

\* Every byte sent that is no separator and not of the answer is a message's.
LEMMA SentByte ==
    ASSUME NEW bytes, NEW o \in Nat, NEW base \in Nat, NEW count \in Nat, NEW places,
           AreSent(bytes, o, base, places, count),
           NEW q \in 1 .. Len(bytes), bytes[q][1] # 0
    PROVE  \E i \in 1 .. count, r \in 1 .. 2 : IsByte(bytes, q, o, base, places, i, r)
<1>1. q \in 1 .. o + 3 * count /\ \A p \in 1 .. o : bytes[p][1] = 0
  BY DEF AreSent
<1>2. q - o \in 1 .. 3 * count
  BY <1>1
<1> DEFINE i == (q - o + 2) \div 3
           r == q - o - 3 * (i - 1)
<1>3. i \in 1 .. count /\ r \in 1 .. 3
  BY <1>2, BytePlaces
<1>4. q = PlaceIn(o, i, r)
  BY <1>1, <1>3 DEF PlaceIn
<1> HIDE DEF i, r
<1>5. bytes[q] = ByteOf(base, places, i, r)
  BY <1>3, <1>4 DEF AreSent
<1>6. ~ (r = 3 \/ r = places[i])
  BY <1>5 DEF ByteOf, Separator
<1>7. r \in 1 .. 2
  BY <1>3, <1>6
<1>8. IsByte(bytes, q, o, base, places, i, r)
  BY <1>4, <1>5, <1>6 DEF ByteOf, IsByte
<1> QED
  BY <1>3, <1>7, <1>8

\* The bytes sent are in the order of their messages, all of them new.
LEMMA SentInOrder ==
    ASSUME NEW bytes, NEW o \in Nat, NEW base \in Nat, NEW count \in Nat, NEW places,
           AreSent(bytes, o, base, places, count)
    PROVE  Ascending(bytes) /\ Above(bytes, base) /\ NotAbove(bytes, base + count)
<1>1. DOMAIN bytes = 1 .. Len(bytes)
  BY DEF AreSent
<1>2. ASSUME NEW q \in DOMAIN bytes, bytes[q][1] # 0
      PROVE  \E i \in 1 .. count, r \in 1 .. 2 :
                q = PlaceIn(o, i, r) /\ bytes[q] = <<base + i, r>>
  <2>1. PICK i \in 1 .. count, r \in 1 .. 2 : IsByte(bytes, q, o, base, places, i, r)
    BY <1>1, <1>2, SentByte
  <2> QED
    BY <2>1 DEF IsByte
<1>3. Ascending(bytes)
  <2> SUFFICES ASSUME NEW p \in DOMAIN bytes, NEW q \in DOMAIN bytes, p < q,
                      bytes[p][1] # 0, bytes[q][1] # 0
               PROVE  Before(bytes[p], bytes[q])
    BY DEF Ascending
  <2>1. PICK i \in 1 .. count, r \in 1 .. 2 :
            p = PlaceIn(o, i, r) /\ bytes[p] = <<base + i, r>>
    BY <1>2
  <2>2. PICK j \in 1 .. count, t \in 1 .. 2 :
            q = PlaceIn(o, j, t) /\ bytes[q] = <<base + j, t>>
    BY <1>2
  <2>3. i < j \/ (i = j /\ r < t)
    BY <2>1, <2>2 DEF PlaceIn
  <2>4. base + i < base + j \/ (base + i = base + j /\ r < t)
    BY <2>3
  <2> QED
    BY <2>1, <2>2, <2>4 DEF Before
<1>4. Above(bytes, base)
  <2> SUFFICES ASSUME NEW q \in DOMAIN bytes, bytes[q][1] # 0
               PROVE  base < bytes[q][1]
    BY DEF Above
  <2>1. PICK i \in 1 .. count, r \in 1 .. 2 : bytes[q] = <<base + i, r>>
    BY <1>2
  <2> QED
    BY <2>1
<1>5. NotAbove(bytes, base + count)
  <2> SUFFICES ASSUME NEW q \in DOMAIN bytes
               PROVE  bytes[q][1] <= base + count
    BY DEF NotAbove
  <2>1. CASE bytes[q][1] = 0
    BY <2>1
  <2>2. CASE bytes[q][1] # 0
    <3>1. PICK i \in 1 .. count, r \in 1 .. 2 : bytes[q] = <<base + i, r>>
      BY <1>2, <2>2
    <3> QED
      BY <3>1
  <2> QED
    BY <2>1, <2>2
<1> QED
  BY <1>3, <1>4, <1>5

\* A part of some bytes keeps their order and their bounds.
LEMMA PartInOrder ==
    ASSUME NEW bytes \in Seq(Bytes), NEW from \in 1 .. Len(bytes) + 1,
           NEW to \in from - 1 .. Len(bytes)
    PROVE  LET part == SubSeq(bytes, from, to) IN
           /\ part \in Seq(Bytes) /\ Len(part) = to - from + 1
           /\ \A q \in 1 .. Len(part) : part[q] = bytes[from + q - 1]
           /\ Ascending(bytes) => Ascending(part)
           /\ \A n : Above(bytes, n) => Above(part, n)
           /\ \A n : NotAbove(bytes, n) => NotAbove(part, n)
<1> DEFINE part == SubSeq(bytes, from, to)
<1>1. /\ part \in Seq(Bytes) /\ Len(part) = to - from + 1
      /\ \A q \in 1 .. to - from + 1 : part[q] = bytes[from + q - 1]
  BY SubSeqProperties
<1>2. DOMAIN part = 1 .. to - from + 1 /\ DOMAIN bytes = 1 .. Len(bytes)
  BY <1>1
<1> HIDE DEF part
<1>3. \A q \in DOMAIN part : from + q - 1 \in DOMAIN bytes /\ part[q] = bytes[from + q - 1]
  BY <1>1, <1>2
<1>4. \A p, q \in DOMAIN part : p < q => from + p - 1 < from + q - 1
  BY <1>2
<1>5. Ascending(bytes) => Ascending(part)
  BY <1>3, <1>4 DEF Ascending
<1>6. \A n : Above(bytes, n) => Above(part, n)
  BY <1>3 DEF Above
<1>7. \A n : NotAbove(bytes, n) => NotAbove(part, n)
  BY <1>3 DEF NotAbove
<1> QED
  BY <1>1, <1>5, <1>6, <1>7 DEF part

\* The message is sent as it is, and the first fragment has its last byte.
IsSentWhole(first, n, base, count, places) ==
    /\ n \in base + 1 .. base + count
    /\ places[n - base] = 0
    /\ \E p \in DOMAIN first : first[p] = <<n, 2>>

HasIsolated(d, n) == \E p : Isolated(d, n, p)

\* Those are the messages isolated in a first fragment.
LEMMA SentIsolated ==
    ASSUME NEW bytes, NEW o \in Nat, NEW base \in Nat, NEW count \in Nat,
           NEW places \in [1 .. count -> {0, 1, 2}],
           AreSent(bytes, o, base, places, count),
           NEW end \in 1 .. Len(bytes), NEW first, first = SubSeq(bytes, 1, end),
           NEW n \in Message
    PROVE  HasIsolated(first, n) <=> IsSentWhole(first, n, base, count, places)
<1>1. bytes \in Seq(Bytes) /\ Len(bytes) \in Nat
  BY DEF AreSent
<1>2. /\ Len(first) = end /\ DOMAIN first = 1 .. end
      /\ \A q \in 1 .. end : first[q] = bytes[q]
  <2>1. first \in Seq(Bytes) /\ Len(first) = end - 1 + 1
    BY <1>1, PartInOrder
  <2>2. \A q \in 1 .. Len(first) : first[q] = bytes[1 + q - 1]
    BY <1>1, PartInOrder
  <2>3. Len(first) = end
    BY <1>1, <2>1
  <2>4. \A q \in 1 .. end : 1 + q - 1 = q
    BY <1>1
  <2> QED
    BY <2>1, <2>2, <2>3, <2>4
<1>3. n \in Nat /\ n # 0
  BY DEF Message
<1>4. ASSUME NEW q \in 1 .. end, NEW t, first[q] = <<n, t>>
      PROVE  /\ n - base \in 1 .. count /\ t \in 1 .. 2 /\ places[n - base] # t
             /\ q = PlaceIn(o, n - base, t)
  <2>1. bytes[q] = <<n, t>> /\ q \in 1 .. Len(bytes)
    BY <1>1, <1>2, <1>4
  <2>2. bytes[q][1] # 0
    BY <1>3, <2>1
  <2>3. PICK i \in 1 .. count, r \in 1 .. 2 : IsByte(bytes, q, o, base, places, i, r)
    BY <2>1, <2>2, SentByte
  <2>4. q = PlaceIn(o, i, r) /\ r # places[i] /\ bytes[q] = <<base + i, r>>
    BY <2>3 DEF IsByte
  <2>5. n = base + i /\ t = r
    BY <2>1, <2>4
  <2>6. n - base = i
    BY <2>5
  <2> QED
    BY <2>4, <2>5, <2>6
<1>5. ASSUME NEW p, Isolated(first, n, p)
      PROVE  /\ n \in base + 1 .. base + count
             /\ places[n - base] = 0
             /\ \E q \in DOMAIN first : first[q] = <<n, 2>>
  <2>1. p \in 1 .. end - 1 /\ first[p] = <<n, 1>> /\ first[p + 1] = <<n, 2>>
    BY <1>2, <1>5 DEF Isolated
  <2>2. p \in 1 .. end /\ p + 1 \in 1 .. end
    BY <1>1, <2>1
  <2>3. n - base \in 1 .. count /\ places[n - base] # 1 /\ places[n - base] # 2
    BY <1>4, <2>1, <2>2
  <2>4. n \in base + 1 .. base + count
    BY <1>3, <2>3
  <2> QED
    BY <1>2, <2>1, <2>2, <2>3, <2>4
<1>6. ASSUME n \in base + 1 .. base + count, places[n - base] = 0,
             NEW p \in DOMAIN first, first[p] = <<n, 2>>
      PROVE  Isolated(first, n, p - 1)
  <2> DEFINE i == n - base
  <2>1. i \in 1 .. count /\ base + i = n /\ places[i] = 0
    BY <1>6
  <2>2. p \in 1 .. end /\ p = PlaceIn(o, i, 2)
    BY <1>2, <1>4, <1>6
  <2> HIDE DEF i
  <2>3. \A r \in 1 .. 3 : r # places[i]
    BY <2>1
  <2>4. \A j \in 1 .. count, r \in 1 .. 3 :
            bytes[PlaceIn(o, j, r)] = ByteOf(base, places, j, r)
    BY DEF AreSent
  <2>5. bytes[PlaceIn(o, i, 1)] = <<n, 1>>
    <3>1. bytes[PlaceIn(o, i, 1)] = ByteOf(base, places, i, 1)
      BY <2>1, <2>4
    <3> QED
      BY <2>1, <3>1 DEF ByteOf
  <2>12. ASSUME NEW j \in 1 .. count PROVE bytes[PlaceIn(o, j, 3)] = Separator
    <3>1. bytes[PlaceIn(o, j, 3)] = ByteOf(base, places, j, 3)
      BY <2>4
    <3> QED
      BY <3>1 DEF ByteOf
  <2>6. bytes[PlaceIn(o, i, 3)] = Separator
    BY <2>1, <2>12
  <2>7. p - 1 \in 1 .. end - 1 /\ p - 1 \in 1 .. end /\ p - 1 = PlaceIn(o, i, 1)
    BY <1>1, <2>1, <2>2 DEF PlaceIn
  <2>8. first[p - 1] = <<n, 1>>
    BY <1>2, <2>5, <2>7
  <2>9. (p - 1) + 1 = p /\ (p - 1) + 2 = p + 1 /\ p + 1 = PlaceIn(o, i, 3)
    BY <2>1, <2>2 DEF PlaceIn
  <2>10. p = end \/ first[p + 1] = Separator
    <3>1. CASE p # end
      <4>1. p + 1 \in 1 .. end
        BY <1>1, <2>2, <3>1
      <4> QED
        BY <1>2, <2>6, <2>9, <4>1
    <3> QED
      BY <3>1
  <2>11. p - 1 = 1 \/ first[(p - 1) - 1] = Separator
    <3>1. CASE i = 1
      <4>1. (p - 1) - 1 = o
        BY <2>7, <3>1 DEF PlaceIn
      <4>2. CASE o = 0
        BY <2>7, <3>1, <4>2 DEF PlaceIn
      <4>3. CASE o # 0
        <5>1. o \in 1 .. end /\ bytes[o] = Separator
          BY <1>1, <2>2, <4>1, <4>3 DEF AreSent
        <5> QED
          BY <1>2, <4>1, <5>1
      <4> QED
        BY <4>2, <4>3
    <3>2. CASE i # 1
      <4>1. i - 1 \in 1 .. count
        BY <2>1, <3>2
      <4>2. bytes[PlaceIn(o, i - 1, 3)] = Separator
        BY <2>12, <4>1
      <4>3. PlaceIn(o, i - 1, 3) = (p - 1) - 1
        BY <2>1, <2>7 DEF PlaceIn
      <4>4. (p - 1) - 1 \in 1 .. end
        BY <1>1, <2>1, <2>2, <2>7, <3>2 DEF PlaceIn
      <4>5. bytes[(p - 1) - 1] = Separator
        BY <4>2, <4>3
      <4> QED
        BY <1>2, <4>4, <4>5
    <3> QED
      BY <3>1, <3>2
  <2> QED
    BY <1>2, <1>6, <2>7, <2>8, <2>9, <2>10, <2>11 DEF Isolated
<1> QED
  BY <1>5, <1>6 DEF IsSentWhole, HasIsolated

-----------------------------------------------------------------------------
(* The frames on their way.                                                 *)

\* The reader looks for messages in it.
Readable(frame) == frame.op = "Binary" \/ (frame.op = "Text" /\ frame.utf8)

InOrder(frames) ==
    \A i, j \in DOMAIN frames : i < j => AllBefore(frames[i].data, frames[j].data)

\* The frame has messages up to final that come after those stored, in order,
\* and the whole ones it will give are among those kept.
FrameFits(frame, final, kept, stored) ==
    /\ Ascending(frame.data) /\ NotAbove(frame.data, final)
    /\ \A k \in DOMAIN stored : Above(frame.data, stored[k])
    /\ Readable(frame) => \A n \in Message : \A p : Isolated(frame.data, n, p) => n \in kept

FramesFit(frames, final, kept, stored) ==
    /\ \A i \in DOMAIN frames : FrameFits(frames[i], final, kept, stored)
    /\ InOrder(frames)

\* The frame will give message n to the storage.
Gives(frame, n) == Readable(frame) /\ \E p : Isolated(frame.data, n, p)

IsStored(stored, n) == \E k \in DOMAIN stored : stored[k] = n

\* A message that is kept is stored, or will be given by a frame after the
\* first few.
AllKept(frames, few, kept, stored) ==
    \A n \in kept : \/ IsStored(stored, n)
                    \/ \E i \in DOMAIN frames : i > few /\ Gives(frames[i], n)

StoredInOrder(stored, kept) ==
    /\ \A i, j \in DOMAIN stored : i < j => stored[i] < stored[j]
    /\ \A i \in DOMAIN stored : stored[i] \in kept

\* The frames that are left are those after the first.
LEMMA TailOfFrames ==
    ASSUME NEW frames \in Seq(Frame), frames # <<>>
    PROVE  /\ Head(frames) = frames[1] /\ 1 \in DOMAIN frames
           /\ Tail(frames) \in Seq(Frame)
           /\ \A i \in DOMAIN Tail(frames) :
                 /\ i \in Nat /\ i + 1 \in DOMAIN frames /\ 1 < i + 1
                 /\ Tail(frames)[i] = frames[i + 1]
           /\ \A i \in DOMAIN frames :
                 i # 1 => i - 1 \in DOMAIN Tail(frames) /\ Tail(frames)[i - 1] = frames[i]
<1> DEFINE t == Tail(frames)
           m == Len(frames)
<1>1. m \in Nat /\ m >= 1 /\ DOMAIN frames = 1 .. m /\ Head(frames) = frames[1]
  BY EmptySeq
<1>2. t \in Seq(Frame) /\ Len(t) = m - 1 /\ \A i \in 1 .. m - 1 : t[i] = frames[i + 1]
  BY <1>1
<1>3. DOMAIN t = 1 .. m - 1
  BY <1>2
<1> HIDE DEF t, m
<1>4. ASSUME NEW i \in DOMAIN t
      PROVE  i \in Nat /\ i + 1 \in DOMAIN frames /\ 1 < i + 1 /\ t[i] = frames[i + 1]
  <2>1. i \in 1 .. m - 1
    BY <1>3
  <2> QED
    BY <1>1, <1>2, <2>1
<1>5. ASSUME NEW i \in DOMAIN frames, i # 1
      PROVE  i - 1 \in DOMAIN t /\ t[i - 1] = frames[i]
  <2>1. i \in 1 .. m /\ i - 1 \in 1 .. m - 1 /\ (i - 1) + 1 = i
    BY <1>1, <1>5
  <2> QED
    BY <1>2, <1>3, <2>1
<1>6. 1 \in DOMAIN frames
  BY <1>1
<1> QED
  BY <1>1, <1>2, <1>4, <1>5, <1>6 DEF t

\* They fit, as all did.
LEMMA TailFits ==
    ASSUME NEW frames \in Seq(Frame), frames # <<>>, NEW final, NEW kept, NEW stored,
           FramesFit(frames, final, kept, stored)
    PROVE  FramesFit(Tail(frames), final, kept, stored)
<1> DEFINE t == Tail(frames)
<1>1. \A i \in DOMAIN t : /\ i \in Nat /\ i + 1 \in DOMAIN frames
                          /\ t[i] = frames[i + 1]
  BY TailOfFrames
<1> HIDE DEF t
<1>2. \A i \in DOMAIN t : FrameFits(t[i], final, kept, stored)
  BY <1>1 DEF FramesFit
<1>3. ASSUME NEW i \in DOMAIN t, NEW j \in DOMAIN t, i < j
      PROVE  AllBefore(t[i].data, t[j].data)
  <2>1. i + 1 < j + 1
    BY <1>1, <1>3
  <2>2. AllBefore(frames[i + 1].data, frames[j + 1].data)
    BY <1>1, <2>1 DEF FramesFit, InOrder
  <2> QED
    BY <1>1, <2>2
<1> QED
  BY <1>2, <1>3 DEF FramesFit, InOrder, t

\* What the messages of a frame add to the storage.
LEMMA GotInOrder ==
    ASSUME NEW frame \in Frame, NEW final, NEW kept \in SUBSET Message,
           NEW stored \in Seq(Message), FrameFits(frame, final, kept, stored),
           Readable(frame), StoredInOrder(stored, kept),
           NEW got \in Seq(Message), FoundIn(frame.data, got)
    PROVE  StoredInOrder(stored \o got, kept)
<1> DEFINE d == frame.data
           a == Len(stored)
           b == Len(got)
           all == stored \o got
<1>1. PICK pos : AreIsolated(d, got, pos)
  BY DEF FoundIn
<1>2. /\ all \in Seq(Message) /\ Len(all) = a + b /\ a \in Nat /\ b \in Nat
      /\ \A q \in 1 .. a : all[q] = stored[q]
      /\ \A q \in 1 .. b : all[a + q] = got[q]
  BY Joined
<1>3. DOMAIN all = 1 .. a + b /\ DOMAIN stored = 1 .. a /\ DOMAIN got = 1 .. b
  BY <1>2
<1>4. ASSUME NEW k \in 1 .. b PROVE got[k] \in Message /\ got[k] \in Nat /\ got[k] # 0
  <2>1. got[k] \in Message
    BY <1>3
  <2> QED
    BY <2>1 DEF Message
<1>5. \A k \in 1 .. b : Isolated(d, got[k], pos[k])
  BY <1>1 DEF AreIsolated
<1>6. \A k, l \in 1 .. b : k < l => pos[k] < pos[l]
  BY <1>1 DEF AreIsolated
<1> HIDE DEF all, a, b
<1>7. ASSUME NEW k \in 1 .. b
      PROVE  /\ got[k] \in kept
             /\ pos[k] \in DOMAIN d /\ d[pos[k]] = <<got[k], 1>> /\ d[pos[k]][1] # 0
  <2>1. got[k] \in kept
    BY <1>4, <1>5 DEF FrameFits
  <2>2. d \in Seq(Bytes)
    BY DEF Frame
  <2>3. pos[k] \in 1 .. Len(d) - 1 /\ d[pos[k]] = <<got[k], 1>>
    BY <1>5 DEF Isolated
  <2>4. pos[k] \in DOMAIN d
    BY <2>2, <2>3
  <2> QED
    BY <1>4, <2>1, <2>3, <2>4
<1>8. \A k \in 1 .. b, q \in 1 .. a : stored[q] < got[k]
  <2> SUFFICES ASSUME NEW k \in 1 .. b, NEW q \in 1 .. a PROVE stored[q] < got[k]
    OBVIOUS
  <2>1. Above(d, stored[q])
    BY <1>3 DEF FrameFits
  <2>2. stored[q] < d[pos[k]][1]
    BY <1>7, <2>1 DEF Above
  <2> QED
    BY <1>7, <2>2
<1>9. \A k, l \in 1 .. b : k < l => got[k] < got[l]
  <2> SUFFICES ASSUME NEW k \in 1 .. b, NEW l \in 1 .. b, k < l PROVE got[k] < got[l]
    OBVIOUS
  <2>1. Before(d[pos[k]], d[pos[l]])
    BY <1>6, <1>7 DEF FrameFits, Ascending
  <2>2. Before(<<got[k], 1>>, <<got[l], 1>>)
    BY <1>7, <2>1
  <2> QED
    BY <1>4, <2>2 DEF Before
<1>10. \A q \in DOMAIN all : q \in 1 .. a \/ \E k \in 1 .. b : q = a + k
  <2> SUFFICES ASSUME NEW q \in 1 .. a + b, q \notin 1 .. a
               PROVE  \E k \in 1 .. b : q = a + k
    BY <1>3
  <2>1. q - a \in 1 .. b /\ q = a + (q - a)
    BY <1>2
  <2> QED
    BY <2>1
<1>11. ASSUME NEW i \in DOMAIN all PROVE all[i] \in kept
  <2>1. CASE i \in 1 .. a
    BY <1>2, <1>3, <2>1 DEF StoredInOrder
  <2>2. ASSUME NEW k \in 1 .. b, i = a + k PROVE all[i] \in kept
    BY <1>2, <1>7, <2>2
  <2> QED
    BY <1>10, <2>1, <2>2
<1>12. ASSUME NEW i \in DOMAIN all, NEW j \in DOMAIN all, i < j PROVE all[i] < all[j]
  <2>1. CASE i \in 1 .. a /\ j \in 1 .. a
    BY <1>2, <1>3, <1>12, <2>1 DEF StoredInOrder
  <2>2. ASSUME NEW k \in 1 .. b, j = a + k, i \in 1 .. a PROVE all[i] < all[j]
    BY <1>2, <1>8, <2>2
  <2>3. ASSUME NEW k \in 1 .. b, NEW l \in 1 .. b, i = a + k, j = a + l
        PROVE  all[i] < all[j]
    <3>1. k < l
      BY <1>2, <1>12, <2>3
    <3> QED
      BY <1>2, <1>9, <2>3, <3>1
  <2>4. ASSUME NEW k \in 1 .. b, i = a + k, j \in 1 .. a PROVE FALSE
    BY <1>2, <1>12, <2>4
  <2> QED
    BY <1>10, <2>1, <2>2, <2>3, <2>4
<1> QED
  BY <1>11, <1>12 DEF StoredInOrder, all

\* The frames behind one that is read come after what it gives.
LEMMA RestFits ==
    ASSUME NEW frame \in Frame, NEW next \in Frame, NEW final, NEW kept,
           NEW stored \in Seq(Message), AllBefore(frame.data, next.data),
           FrameFits(next, final, kept, stored),
           NEW got \in Seq(Message), FoundIn(frame.data, got)
    PROVE  FrameFits(next, final, kept, stored \o got)
<1> DEFINE d == frame.data
           e == next.data
           a == Len(stored)
           b == Len(got)
           all == stored \o got
<1>1. PICK pos : AreIsolated(d, got, pos)
  BY DEF FoundIn
<1>2. /\ all \in Seq(Message) /\ Len(all) = a + b /\ a \in Nat /\ b \in Nat
      /\ \A q \in 1 .. a : all[q] = stored[q]
      /\ \A q \in 1 .. b : all[a + q] = got[q]
  BY Joined
<1>3. DOMAIN all = 1 .. a + b /\ DOMAIN stored = 1 .. a /\ DOMAIN got = 1 .. b
  BY <1>2
<1>4. d \in Seq(Bytes) /\ e \in Seq(Bytes)
  BY DEF Frame
<1>5. \A k \in 1 .. b : got[k] \in Message
  OBVIOUS
<1> HIDE DEF a, b, all
<1>6. ASSUME NEW k \in 1 .. b PROVE Above(e, got[k])
  <2> SUFFICES ASSUME NEW q \in DOMAIN e, e[q][1] # 0 PROVE got[k] < e[q][1]
    BY DEF Above
  <2>1. Isolated(d, got[k], pos[k])
    BY <1>1 DEF AreIsolated, b
  <2> DEFINE p == pos[k] + 1
  <2>2. p \in 1 .. Len(d) /\ d[p] = <<got[k], 2>>
    BY <1>4, <2>1 DEF Isolated
  <2> HIDE DEF p
  <2>3. p \in DOMAIN d /\ got[k] \in Nat /\ got[k] # 0
    <3>1. got[k] \in Message
      BY <1>5
    <3>2. got[k] \in Nat /\ got[k] # 0
      BY <3>1 DEF Message
    <3> QED
      BY <1>4, <2>2, <3>2
  <2>4. d[p][1] # 0
    BY <2>2, <2>3
  <2>5. Before(d[p], e[q])
    BY <2>3, <2>4 DEF AllBefore
  <2>6. Before(<<got[k], 2>>, e[q])
    BY <2>2, <2>5
  <2>7. e[q] \in Bytes
    BY <1>4
  <2>8. e[q][1] \in Nat /\ e[q][2] \in 0 .. 2
    BY <2>7, FrameAssumption DEF Bytes
  <2> QED
    BY <2>3, <2>6, <2>8 DEF Before
<1>7. ASSUME NEW i \in DOMAIN all PROVE Above(e, all[i])
  <2>1. CASE i \in 1 .. a
    BY <1>2, <1>3, <2>1 DEF FrameFits
  <2>2. CASE i \notin 1 .. a
    <3>1. i - a \in 1 .. b /\ i = a + (i - a)
      BY <1>2, <1>3, <2>2
    <3>2. all[i] = got[i - a]
      BY <1>2, <3>1
    <3> QED
      BY <1>6, <3>1, <3>2
  <2> QED
    BY <2>1, <2>2
<1> QED
  BY <1>7 DEF FrameFits, all

\* One frame is read: it gives what is found in it.
LEMMA FramesRead ==
    ASSUME NEW frames \in Seq(Frame), frames # <<>>, NEW final,
           NEW kept \in SUBSET Message, NEW stored \in Seq(Message),
           FramesFit(frames, final, kept, stored), StoredInOrder(stored, kept),
           Readable(Head(frames)),
           NEW got \in Seq(Message), FoundIn(Head(frames).data, got)
    PROVE  /\ FramesFit(Tail(frames), final, kept, stored \o got)
           /\ StoredInOrder(stored \o got, kept)
           /\ \A waits \in SUBSET Message :
                 AllKept(frames, 0, waits, stored) => AllKept(Tail(frames), 0, waits, stored \o got)
<1> DEFINE t == Tail(frames)
           frame == Head(frames)
<1>1. /\ frame = frames[1] /\ 1 \in DOMAIN frames /\ frame \in Frame
      /\ \A i \in DOMAIN t : /\ i \in Nat /\ i + 1 \in DOMAIN frames /\ 1 < i + 1
                             /\ t[i] = frames[i + 1] /\ t[i] \in Frame
      /\ \A i \in DOMAIN frames : i # 1 => i - 1 \in DOMAIN t /\ t[i - 1] = frames[i]
  BY TailOfFrames
<1>2. FramesFit(t, final, kept, stored)
  BY TailFits
<1> HIDE DEF t, frame
<1>3. FoundIn(frame.data, got) /\ Readable(frame) /\ FrameFits(frame, final, kept, stored)
  BY <1>1 DEF FramesFit, frame
<1>4. StoredInOrder(stored \o got, kept)
  BY <1>1, <1>3, GotInOrder
<1>5. ASSUME NEW i \in DOMAIN t PROVE FrameFits(t[i], final, kept, stored \o got)
  <2>1. AllBefore(frame.data, t[i].data)
    BY <1>1 DEF FramesFit, InOrder
  <2>2. FrameFits(t[i], final, kept, stored)
    BY <1>2 DEF FramesFit
  <2>3. t[i] \in Frame
    BY <1>1
  <2> QED
    BY <1>1, <1>3, <2>1, <2>2, <2>3, RestFits
<1>6. FramesFit(t, final, kept, stored \o got)
  BY <1>2, <1>5 DEF FramesFit
<1>7. ASSUME NEW waits \in SUBSET Message, AllKept(frames, 0, waits, stored)
      PROVE  AllKept(t, 0, waits, stored \o got)
  <2> DEFINE all == stored \o got
  <2>1. /\ DOMAIN stored = 1 .. Len(stored) /\ DOMAIN got = 1 .. Len(got)
        /\ DOMAIN all = 1 .. Len(stored) + Len(got)
        /\ \A q \in 1 .. Len(stored) : all[q] = stored[q]
        /\ \A q \in 1 .. Len(got) : all[Len(stored) + q] = got[q]
    BY Joined
  <2>2. /\ \A q \in DOMAIN stored : q \in DOMAIN all
        /\ \A q \in DOMAIN got : Len(stored) + q \in DOMAIN all
    BY <2>1
  <2> HIDE DEF all
  <2> SUFFICES ASSUME NEW n \in waits
               PROVE  IsStored(all, n) \/ \E i \in DOMAIN t : i > 0 /\ Gives(t[i], n)
    BY DEF AllKept, all
  <2>3. CASE IsStored(stored, n)
    BY <2>1, <2>2, <2>3 DEF IsStored
  <2>4. ASSUME NEW i \in DOMAIN frames, i > 0, Gives(frames[i], n)
        PROVE  IsStored(all, n) \/ \E j \in DOMAIN t : j > 0 /\ Gives(t[j], n)
    <3>1. CASE i = 1
      <4>1. \E p : Isolated(frame.data, n, p)
        BY <1>1, <2>4, <3>1 DEF Gives
      <4>2. PICK k \in 1 .. Len(got) : got[k] = n
        BY <1>3, <4>1 DEF FoundIn, AreIsolated
      <4>3. all[Len(stored) + k] = n /\ Len(stored) + k \in DOMAIN all
        BY <2>1, <2>2, <4>2
      <4> QED
        BY <4>3 DEF IsStored
    <3>2. CASE i # 1
      <4>1. i - 1 \in DOMAIN t /\ t[i - 1] = frames[i]
        BY <1>1, <3>2
      <4>2. i - 1 > 0
        BY <1>1, <4>1
      <4> QED
        BY <2>4, <4>1, <4>2
    <3> QED
      BY <3>1, <3>2
  <2> QED
    BY <1>7, <2>3, <2>4 DEF AllKept
<1> QED
  BY <1>4, <1>6, <1>7 DEF t

\* Frames are sent after others, with later messages.
LEMMA FramesJoined ==
    ASSUME NEW old \in Seq(Frame), NEW new \in Seq(Frame), NEW final,
           NEW kept, NEW stored,
           FramesFit(old, final, kept, stored), FramesFit(new, final, kept, stored),
           \A i \in DOMAIN old, j \in DOMAIN new : AllBefore(old[i].data, new[j].data)
    PROVE  FramesFit(old \o new, final, kept, stored)
<1> DEFINE a == Len(old)
           b == Len(new)
           all == old \o new
<1>1. /\ all \in Seq(Frame) /\ Len(all) = a + b /\ a \in Nat /\ b \in Nat
      /\ \A q \in 1 .. a : all[q] = old[q]
      /\ \A q \in 1 .. b : all[a + q] = new[q]
  BY Joined
<1>2. DOMAIN all = 1 .. a + b /\ DOMAIN old = 1 .. a /\ DOMAIN new = 1 .. b
  BY <1>1
<1> HIDE DEF a, b, all
<1>3. \A q \in DOMAIN all : \/ q \in DOMAIN old
                            \/ \E k \in DOMAIN new : q = a + k
  <2> SUFFICES ASSUME NEW q \in 1 .. a + b, q \notin 1 .. a
               PROVE  \E k \in 1 .. b : q = a + k
    BY <1>2
  <2>1. q - a \in 1 .. b /\ q = a + (q - a)
    BY <1>1
  <2> QED
    BY <2>1
<1>4. ASSUME NEW q \in DOMAIN all PROVE FrameFits(all[q], final, kept, stored)
  <2>1. CASE q \in DOMAIN old
    BY <1>1, <1>2, <2>1 DEF FramesFit
  <2>2. ASSUME NEW k \in DOMAIN new, q = a + k
        PROVE  FrameFits(all[q], final, kept, stored)
    BY <1>1, <1>2, <2>2 DEF FramesFit
  <2> QED
    BY <1>3, <2>1, <2>2
<1>5. ASSUME NEW i \in DOMAIN all, NEW j \in DOMAIN all, i < j
      PROVE  AllBefore(all[i].data, all[j].data)
  <2>1. CASE i \in DOMAIN old /\ j \in DOMAIN old
    BY <1>1, <1>2, <1>5, <2>1 DEF FramesFit, InOrder
  <2>2. ASSUME NEW k \in DOMAIN new, j = a + k, i \in DOMAIN old
        PROVE  AllBefore(all[i].data, all[j].data)
    BY <1>1, <1>2, <2>2
  <2>3. ASSUME NEW k \in DOMAIN new, NEW l \in DOMAIN new, i = a + k, j = a + l
        PROVE  AllBefore(all[i].data, all[j].data)
    <3>1. k < l
      BY <1>1, <1>2, <1>5, <2>3
    <3> QED
      BY <1>1, <1>2, <2>3, <3>1 DEF FramesFit, InOrder
  <2>4. ASSUME NEW k \in DOMAIN new, i = a + k, j \in DOMAIN old PROVE FALSE
    BY <1>1, <1>2, <1>5, <2>4
  <2> QED
    BY <1>3, <2>1, <2>2, <2>3, <2>4
<1> QED
  BY <1>4, <1>5 DEF FramesFit, InOrder, all

\* What is waited for in some frames is waited for in more.
LEMMA MoreFramesKeep ==
    ASSUME NEW old \in Seq(Frame), NEW new \in Seq(Frame), NEW few, NEW waits, NEW stored,
           AllKept(old, few, waits, stored)
    PROVE  AllKept(old \o new, few, waits, stored)
<1> DEFINE all == old \o new
<1>1. \A q \in DOMAIN old : q \in DOMAIN all /\ all[q] = old[q]
  OBVIOUS
<1> HIDE DEF all
<1> QED
  BY <1>1 DEF AllKept, all

\* Bytes up to a bound come before bytes above it.
LEMMA BoundsOrder ==
    ASSUME NEW d \in Seq(Bytes), NEW e \in Seq(Bytes), NEW n \in Nat,
           NotAbove(d, n), Above(e, n)
    PROVE  AllBefore(d, e)
<1> SUFFICES ASSUME NEW p \in DOMAIN d, NEW q \in DOMAIN e, e[q][1] # 0
             PROVE  Before(d[p], e[q])
  BY DEF AllBefore
<1>1. d[p] \in Bytes /\ e[q] \in Bytes
  OBVIOUS
<1>2. d[p][1] \in Nat /\ e[q][1] \in Nat
  BY <1>1, FrameAssumption DEF Bytes
<1>3. d[p][1] <= n /\ n < e[q][1]
  BY DEF NotAbove, Above
<1> QED
  BY <1>2, <1>3 DEF Before

\* The fragments of what is sent: the first has the start, and no other is
\* looked into.
AreFragments(frames, op, utf8, bytes, base, final) ==
    /\ frames \in Seq(Frame) /\ 1 \in DOMAIN frames
    /\ frames[1].op = op /\ frames[1].utf8 = utf8
    /\ \E end \in 1 .. Len(bytes) : frames[1].data = SubSeq(bytes, 1, end)
    /\ \A i \in DOMAIN frames : /\ Ascending(frames[i].data)
                                /\ Above(frames[i].data, base)
                                /\ NotAbove(frames[i].data, final)
    /\ \A i \in DOMAIN frames : i # 1 => ~ Readable(frames[i])
    /\ InOrder(frames)

\* Sent in one frame or in two, the bytes stay in order, and only the first frame
\* is read, with what is whole in it.
LEMMA FragmentsSent ==
    ASSUME NEW bytes, NEW o \in Nat, NEW base \in Nat, NEW count \in Nat, NEW places,
           AreSent(bytes, o, base, places, count),
           NEW op \in {"Text", "Binary"}, NEW utf8 \in BOOLEAN,
           NEW cut \in Nat, cut < Len(bytes)
    PROVE  AreFragments(Fragments(op, utf8, bytes, cut), op, utf8, bytes, base, base + count)
<1> DEFINE m == Len(bytes)
           first == [op |-> op, utf8 |-> utf8, data |-> SubSeq(bytes, 1, cut)]
           rest == [op |-> "Continuation", utf8 |-> TRUE, data |-> SubSeq(bytes, cut + 1, m)]
           all == [op |-> op, utf8 |-> utf8, data |-> bytes]
           frames == Fragments(op, utf8, bytes, cut)
<1>1. bytes \in Seq(Bytes) /\ m \in Nat /\ m >= 1
  BY DEF AreSent
<1>2. Ascending(bytes) /\ Above(bytes, base) /\ NotAbove(bytes, base + count)
  BY SentInOrder
<1>3. CASE cut = 0
  <2>1. frames = <<all>>
    BY <1>3 DEF Fragments
  <2>2. all \in Frame
    BY <1>1 DEF Frame
  <2>3. all.data = bytes /\ all.op = op /\ all.utf8 = utf8
    OBVIOUS
  <2>4. bytes = SubSeq(bytes, 1, m)
    BY <1>1, SubSeqFull
  <2>5. m \in 1 .. m
    BY <1>1
  <2> HIDE DEF all, frames, m
  <2>6. frames \in Seq(Frame) /\ DOMAIN frames = 1 .. 1 /\ frames[1] = all
    BY <2>1, <2>2
  <2>7. \A i \in DOMAIN frames : i = 1
    BY <2>6
  <2>8. InOrder(frames)
    BY <2>7 DEF InOrder
  <2>9. /\ 1 \in DOMAIN frames /\ frames[1].op = op /\ frames[1].utf8 = utf8
        /\ frames[1].data = bytes
    BY <2>3, <2>6
  <2>10. \E end \in 1 .. m : frames[1].data = SubSeq(bytes, 1, end)
    BY <2>4, <2>5, <2>9
  <2>11. \A i \in DOMAIN frames : /\ Ascending(frames[i].data)
                                  /\ Above(frames[i].data, base)
                                  /\ NotAbove(frames[i].data, base + count)
    BY <1>2, <2>7, <2>9
  <2> QED
    BY <2>6, <2>7, <2>8, <2>9, <2>10, <2>11 DEF AreFragments, frames, m
<1>4. CASE cut # 0
  <2> DEFINE d == SubSeq(bytes, 1, cut)
             e == SubSeq(bytes, cut + 1, m)
  <2>1. frames = <<first, rest>>
    BY <1>4 DEF Fragments
  <2>2. cut \in 1 .. m /\ cut \in 1 - 1 .. m /\ 1 \in 1 .. m + 1 /\ cut + 1 \in 1 .. m + 1
        /\ m \in (cut + 1) - 1 .. m
    BY <1>1, <1>4
  <2>3. /\ d \in Seq(Bytes) /\ Len(d) = cut - 1 + 1
        /\ \A q \in 1 .. Len(d) : d[q] = bytes[1 + q - 1]
        /\ Ascending(d) /\ Above(d, base) /\ NotAbove(d, base + count)
    BY <1>1, <1>2, <2>2, PartInOrder
  <2>4. /\ e \in Seq(Bytes) /\ Len(e) = m - (cut + 1) + 1
        /\ \A q \in 1 .. Len(e) : e[q] = bytes[cut + 1 + q - 1]
        /\ Ascending(e) /\ Above(e, base) /\ NotAbove(e, base + count)
    BY <1>1, <1>2, <2>2, PartInOrder
  <2> HIDE DEF d, e
  <2>5. AllBefore(d, e)
    <3> SUFFICES ASSUME NEW p \in DOMAIN d, NEW q \in DOMAIN e, d[p][1] # 0, e[q][1] # 0
                 PROVE  Before(d[p], e[q])
      BY DEF AllBefore
    <3>1. p \in 1 .. cut /\ d[p] = bytes[1 + p - 1]
      BY <1>1, <2>3
    <3>2. q \in 1 .. m - cut /\ e[q] = bytes[cut + 1 + q - 1]
      <4>1. q \in 1 .. Len(e)
        BY <2>4
      <4>2. Len(e) = m - cut
        BY <1>1, <2>4
      <4> QED
        BY <2>4, <4>1, <4>2
    <3>3. 1 + p - 1 = p /\ cut + 1 + q - 1 = cut + q /\ p < cut + q
      BY <2>2, <3>1, <3>2
    <3>4. p \in DOMAIN bytes /\ cut + q \in DOMAIN bytes
      BY <1>1, <2>2, <3>1, <3>2
    <3>5. d[p] = bytes[p] /\ e[q] = bytes[cut + q]
      BY <3>1, <3>2, <3>3
    <3> QED
      BY <1>2, <3>3, <3>4, <3>5 DEF Ascending
  <2>6. first \in Frame /\ rest \in Frame
    BY <2>3, <2>4 DEF Frame, d, e
  <2>7. first.data = d /\ first.op = op /\ first.utf8 = utf8 /\ rest.data = e
        /\ rest.op = "Continuation"
    BY DEF d, e
  <2> HIDE DEF first, rest, frames, m
  <2>8. frames \in Seq(Frame) /\ DOMAIN frames = 1 .. 2 /\ frames[1] = first /\ frames[2] = rest
    BY <2>1, <2>6
  <2>9. \A i \in DOMAIN frames : i = 1 \/ i = 2
    BY <2>8
  <2>10. InOrder(frames)
    BY <2>5, <2>7, <2>8, <2>9 DEF InOrder
  <2>11. /\ 1 \in DOMAIN frames /\ frames[1].op = op /\ frames[1].utf8 = utf8
         /\ frames[1].data = d /\ frames[2].data = e
    BY <2>7, <2>8
  <2>12. \E end \in 1 .. m : frames[1].data = SubSeq(bytes, 1, end)
    BY <2>2, <2>11 DEF d
  <2>13. \A i \in DOMAIN frames : /\ Ascending(frames[i].data)
                                  /\ Above(frames[i].data, base)
                                  /\ NotAbove(frames[i].data, base + count)
    BY <2>3, <2>4, <2>9, <2>11
  <2>14. ~ Readable(frames[2])
    BY <2>7, <2>8 DEF Readable
  <2> QED
    BY <2>8, <2>9, <2>10, <2>11, <2>12, <2>13, <2>14 DEF AreFragments, frames, m
<1> QED
  BY <1>3, <1>4

-----------------------------------------------------------------------------
(* The inductive invariant of the reader.                                   *)

\* The frames a socket has to read before its tasks start.
BeforeReading == IF socket = "handshake" THEN 1 ELSE 0

\* No message before the answer, and the frame of the answer is the first.
Begun ==
    /\ whole \subseteq 1 .. last
    /\ ~answered => whole = {}
    /\ socket = "none" => ~answered
    /\ socket = "handshake" /\ answered => incoming # <<>>

\* The frames under way are in order and hold only what was sent; what they will
\* give the storage continues what it has; and each whole message is there, but
\* for those of the frame the handshake takes.
ReaderIInv ==
    /\ ReaderTypeOK
    /\ FramesFit(incoming, last, whole, processed)
    /\ StoredInOrder(processed, whole)
    /\ Begun
    /\ socket \in {"handshake", "open"} =>
          AllKept(incoming, BeforeReading, whole \ early, processed)

\* The initial values have their types.
LEMMA NothingYet ==
    <<>> \in Seq(Frame) /\ <<>> \in Seq(Message) /\ 0 \in 0 .. MaxMessages
BY FrameAssumption

\* The invariant holds before the first socket is opened.
LEMMA ReaderInitIInv == ReaderInit => ReaderIInv
<1> SUFFICES ASSUME ReaderInit PROVE ReaderIInv
  OBVIOUS
<1>1. /\ socket = "none" /\ protocol = "Json" /\ incoming = <<>>
      /\ answered = FALSE /\ closing = FALSE /\ last = 0
      /\ whole = {} /\ early = {} /\ processed = <<>>
  BY DEF ReaderInit
<1>2. DOMAIN incoming = {} /\ DOMAIN processed = {}
  BY <1>1
<1>3. ReaderTypeOK
  BY <1>1, NothingYet DEF ReaderTypeOK
<1>4. FramesFit(incoming, last, whole, processed) /\ StoredInOrder(processed, whole)
  BY <1>2 DEF FramesFit, InOrder, StoredInOrder
<1>5. Begun
  BY <1>1 DEF Begun
<1> QED
  BY <1>1, <1>3, <1>4, <1>5 DEF ReaderIInv

\* It does not depend on anything outside the reader.
LEMMA ReaderUnchanged ==
    ASSUME ReaderIInv, UNCHANGED readerVars PROVE ReaderIInv'
BY DEF ReaderIInv, readerVars, ReaderTypeOK, Begun, BeforeReading, AllKept, FramesFit,
   StoredInOrder, InOrder

\* A socket opens with nothing on its way.
LEMMA OpenSocketIInv ==
    ASSUME ReaderIInv, NEW p \in {"Json", "MessagePack"}, OpenSocket(p) PROVE ReaderIInv'
<1>1. /\ socket = "none" /\ socket' = "handshake" /\ protocol' = p
      /\ incoming' = incoming /\ answered' = answered /\ closing' = closing
      /\ last' = last /\ whole' = whole /\ early' = early /\ processed' = processed
  BY DEF OpenSocket
<1>2. ~answered /\ whole = {}
  BY <1>1 DEF ReaderIInv, Begun
<1>3. ReaderTypeOK'
  BY <1>1 DEF ReaderIInv, ReaderTypeOK
<1>4. Begun'
  BY <1>1, <1>2 DEF ReaderIInv, Begun
<1>5. FramesFit(incoming, last, whole, processed)' /\ StoredInOrder(processed, whole)'
  BY <1>1 DEF ReaderIInv
<1>6. AllKept(incoming, BeforeReading, whole \ early, processed)'
  BY <1>1, <1>2 DEF AllKept
<1> QED
  BY <1>3, <1>4, <1>5, <1>6 DEF ReaderIInv

\* The attempt failed, or the connection is lost: everything is forgotten.
LEMMA DropSocketIInv ==
    ASSUME ReaderIInv, DropSocket PROVE ReaderIInv'
<1>1. /\ socket' = "none" /\ protocol' = protocol /\ incoming' = <<>>
      /\ answered' = FALSE /\ closing' = FALSE /\ last' = 0
      /\ whole' = {} /\ early' = {} /\ processed' = <<>>
  BY DEF DropSocket
<1>2. DOMAIN incoming' = {} /\ DOMAIN processed' = {}
  BY <1>1
<1>3. ReaderTypeOK'
  BY <1>1, NothingYet DEF ReaderIInv, ReaderTypeOK
<1>4. FramesFit(incoming, last, whole, processed)' /\ StoredInOrder(processed, whole)'
  BY <1>2 DEF FramesFit, InOrder, StoredInOrder
<1>5. Begun'
  BY <1>1 DEF Begun
<1> QED
  BY <1>1, <1>3, <1>4, <1>5 DEF ReaderIInv

\* Reading stops: nothing is waited for any more.
LEMMA ReadFailsIInv ==
    ASSUME ReaderIInv, ReadFails PROVE ReaderIInv'
<1>1. /\ socket = "open" /\ socket' = "ended" /\ protocol' = protocol
      /\ incoming' = incoming /\ answered' = answered /\ closing' = closing
      /\ last' = last /\ whole' = whole /\ early' = early /\ processed' = processed
  BY DEF ReadFails
<1>2. ReaderTypeOK'
  BY <1>1 DEF ReaderIInv, ReaderTypeOK
<1>3. Begun'
  BY <1>1 DEF ReaderIInv, Begun
<1>4. FramesFit(incoming, last, whole, processed)' /\ StoredInOrder(processed, whole)'
  BY <1>1 DEF ReaderIInv
<1> QED
  BY <1>1, <1>2, <1>3, <1>4 DEF ReaderIInv

\* A close frame has nothing in it.
LEMMA CloseFrameFits ==
    ASSUME NEW final, NEW kept, NEW stored
    PROVE  <<CloseFrame>> \in Seq(Frame) /\ FramesFit(<<CloseFrame>>, final, kept, stored)
<1> DEFINE f == CloseFrame
<1>1. f.data = <<>> /\ f.op = "Close" /\ f \in Frame
  BY DEF CloseFrame, Frame
<1> HIDE DEF f
<1> DEFINE frames == <<f>>
<1>2. DOMAIN (f.data) = {} /\ ~ Readable(f)
  BY <1>1 DEF Readable
<1>3. FrameFits(f, final, kept, stored)
  BY <1>2 DEF FrameFits, Ascending, NotAbove, Above
<1>4. frames \in Seq(Frame) /\ DOMAIN frames = 1 .. 1 /\ frames[1] = f
  BY <1>1
<1>5. \A i \in DOMAIN frames : i = 1
  BY <1>4
<1> HIDE DEF frames
<1>6. InOrder(frames)
  BY <1>5 DEF InOrder
<1>7. FramesFit(frames, final, kept, stored)
  BY <1>3, <1>4, <1>5, <1>6 DEF FramesFit
<1> QED
  BY <1>4, <1>7 DEF frames, f

\* A close frame holds no messages.
LEMMA ServerClosesIInv ==
    ASSUME ReaderIInv, ServerCloses PROVE ReaderIInv'
<1>0. socket # "none"
  BY DEF ServerCloses
<1>1. /\ socket' = socket /\ protocol' = protocol
      /\ incoming' = Append(incoming, CloseFrame) /\ answered' = answered /\ closing' = TRUE
      /\ last' = last /\ whole' = whole /\ early' = early /\ processed' = processed
  BY DEF ServerCloses
<1> DEFINE close == <<CloseFrame>>
<1>2. incoming \in Seq(Frame)
  BY DEF ReaderIInv, ReaderTypeOK
<1>3. close \in Seq(Frame) /\ FramesFit(close, last, whole, processed)
  BY CloseFrameFits
<1>4. CloseFrame \in Frame
  BY DEF CloseFrame, Frame
<1>5. /\ incoming' = incoming \o close /\ incoming' \in Seq(Frame) /\ incoming' # <<>>
  BY <1>1, <1>2, <1>4, AppendIsConcat, AppendProperties
<1>6. \A i \in DOMAIN incoming, j \in DOMAIN close :
          AllBefore(incoming[i].data, close[j].data)
  <2>1. \A j \in DOMAIN close : close[j].data = <<>>
    BY DEF CloseFrame
  <2> HIDE DEF close
  <2> QED
    BY <2>1 DEF AllBefore
<1> HIDE DEF close
<1>7. FramesFit(incoming \o close, last, whole, processed)
  BY <1>2, <1>3, <1>6, FramesJoined DEF ReaderIInv
<1>8. FramesFit(incoming, last, whole, processed)'
  BY <1>1, <1>5, <1>7
<1>9. ReaderTypeOK'
  BY <1>0, <1>1, <1>5 DEF ReaderIInv, ReaderTypeOK
<1>10. Begun'
  BY <1>1, <1>5 DEF ReaderIInv, Begun
<1>11. ASSUME socket' \in {"handshake", "open"}
       PROVE  AllKept(incoming, BeforeReading, whole \ early, processed)'
  <2>1. AllKept(incoming, BeforeReading, whole \ early, processed)
    BY <1>1, <1>11 DEF ReaderIInv
  <2>2. AllKept(incoming \o close, BeforeReading, whole \ early, processed)
    BY <1>2, <1>3, <2>1, MoreFramesKeep
  <2>3. BeforeReading' = BeforeReading
    BY <1>1 DEF BeforeReading
  <2> QED
    BY <1>1, <1>5, <2>2, <2>3
<1>12. StoredInOrder(processed, whole)'
  BY <1>1 DEF ReaderIInv
<1> QED
  BY <1>8, <1>9, <1>10, <1>11, <1>12 DEF ReaderIInv

\* The frame of the answer is read, and nothing in it.
LEMMA ReadHandshakeIInv ==
    ASSUME ReaderIInv, ReadHandshake PROVE ReaderIInv'
<1>1. /\ socket = "handshake" /\ socket' = "open" /\ protocol' = protocol
      /\ incoming # <<>> /\ incoming' = Tail(incoming)
      /\ answered' = answered /\ closing' = closing
      /\ last' = last /\ whole' = whole /\ early' = early /\ processed' = processed
  BY DEF ReadHandshake
<1> DEFINE t == Tail(incoming)
<1>2. incoming \in Seq(Frame)
  BY DEF ReaderIInv, ReaderTypeOK
<1>3. /\ t \in Seq(Frame)
      /\ \A i \in DOMAIN t : i \in Nat
      /\ \A i \in DOMAIN incoming : i # 1 => i - 1 \in DOMAIN t /\ t[i - 1] = incoming[i]
  BY <1>1, <1>2, TailOfFrames
<1>4. FramesFit(t, last, whole, processed)
  BY <1>1, <1>2, TailFits DEF ReaderIInv
<1> HIDE DEF t
<1>5. AllKept(incoming, 1, whole \ early, processed)
  BY <1>1 DEF ReaderIInv, BeforeReading
<1>6. AllKept(t, 0, whole \ early, processed)
  <2> SUFFICES ASSUME NEW n \in whole \ early, ~ IsStored(processed, n)
               PROVE  \E i \in DOMAIN t : i > 0 /\ Gives(t[i], n)
    BY DEF AllKept
  <2>1. PICK i \in DOMAIN incoming : i > 1 /\ Gives(incoming[i], n)
    BY <1>5 DEF AllKept
  <2>2. i \in Nat
    BY <1>2
  <2>3. i # 1 /\ i - 1 > 0
    BY <2>1, <2>2
  <2>4. i - 1 \in DOMAIN t /\ t[i - 1] = incoming[i]
    BY <1>3, <2>3
  <2> QED
    BY <2>1, <2>3, <2>4
<1>7. BeforeReading' = 0
  BY <1>1 DEF BeforeReading
<1>8. ReaderTypeOK'
  BY <1>1, <1>3 DEF ReaderIInv, ReaderTypeOK, t
<1>9. Begun'
  BY <1>1 DEF ReaderIInv, Begun
<1>10. StoredInOrder(processed, whole)'
  BY <1>1 DEF ReaderIInv
<1>11. FramesFit(incoming, last, whole, processed)'
  BY <1>1, <1>4 DEF t
<1>12. AllKept(incoming, BeforeReading, whole \ early, processed)'
  BY <1>1, <1>6, <1>7 DEF t
<1> QED
  BY <1>8, <1>9, <1>10, <1>11, <1>12 DEF ReaderIInv

\* What reading a frame does: it gives what is found in it, if it is looked
\* into at all.
LEMMA WhatAFrameGives ==
    ASSUME ReaderTypeOK, ReadFrame
    PROVE  /\ \E got \in Seq(Message) :
                 /\ processed' = processed \o got
                 /\ IF Readable(Head(incoming)) THEN FoundIn(Head(incoming).data, got)
                                                ELSE got = <<>>
           /\ socket' \in {"open", "ended"}
<1> DEFINE frame == Head(incoming)
           d == frame.data
           text == GetMessagesText(d)
           binary == GetMessagesBinary(d)
<1>1. incoming \in Seq(Frame) /\ incoming # <<>> /\ processed \in Seq(Message)
  BY DEF ReaderTypeOK, ReadFrame
<1>2. frame \in Frame
  BY <1>1
<1>3. d \in Seq(Bytes) /\ frame.utf8 \in BOOLEAN
  BY <1>2 DEF Frame
<1>4. Dispatched(text) \in Seq(Message) /\ FoundIn(d, Dispatched(text))
  BY <1>3, TextExact, DispatchedFound
<1>5. Dispatched(binary) \in Seq(Message) /\ FoundIn(d, Dispatched(binary))
  BY <1>3, BinaryExact, DispatchedFound
<1>6. processed \o <<>> = processed /\ <<>> \in Seq(Message)
  BY <1>1
<1>7. \/ /\ frame.op = "Text" /\ socket' = socket
         /\ processed' = processed \o IF frame.utf8 THEN Dispatched(text) ELSE <<>>
      \/ /\ frame.op = "Binary" /\ socket' = socket
         /\ processed' = processed \o Dispatched(binary)
      \/ frame.op = "Continuation" /\ socket' = socket /\ processed' = processed
      \/ frame.op = "Close" /\ socket' = "ended" /\ processed' = processed
  BY DEF ReadFrame
<1>8. socket = "open"
  BY DEF ReadFrame
<1> HIDE DEF frame, d, text, binary
<1>9. socket' \in {"open", "ended"}
  BY <1>7, <1>8
<1> DEFINE Found(got) == /\ processed' = processed \o got
                         /\ IF Readable(frame) THEN FoundIn(d, got) ELSE got = <<>>
<1>10. CASE frame.op = "Text" /\ frame.utf8
  <2>1. processed' = processed \o Dispatched(text) /\ Readable(frame)
    BY <1>7, <1>10 DEF Readable
  <2>2. Found(Dispatched(text))
    BY <1>4, <2>1
  <2> QED
    BY <1>4, <1>9, <2>2 DEF d, frame
<1>11. CASE frame.op = "Binary"
  <2>1. processed' = processed \o Dispatched(binary) /\ Readable(frame)
    BY <1>7, <1>11 DEF Readable
  <2>2. Found(Dispatched(binary))
    BY <1>5, <2>1
  <2> QED
    BY <1>5, <1>9, <2>2 DEF d, frame
<1>12. CASE ~ (frame.op = "Text" /\ frame.utf8) /\ frame.op # "Binary"
  <2>1. processed' = processed \o <<>> /\ ~ Readable(frame)
    BY <1>6, <1>7, <1>12 DEF Readable
  <2>2. Found(<<>>)
    BY <2>1
  <2> QED
    BY <1>6, <1>9, <2>2 DEF d, frame
<1> QED
  BY <1>10, <1>11, <1>12

\* A frame gives the storage the whole messages in it, and the rest goes on fitting.
LEMMA ReadFrameIInv ==
    ASSUME ReaderIInv, ReadFrame PROVE ReaderIInv'
<1>1. /\ socket = "open" /\ protocol' = protocol
      /\ incoming # <<>> /\ incoming' = Tail(incoming)
      /\ answered' = answered /\ closing' = closing
      /\ last' = last /\ whole' = whole /\ early' = early
  BY DEF ReadFrame
<1> DEFINE t == Tail(incoming)
           frame == Head(incoming)
<1>2. /\ incoming \in Seq(Frame) /\ processed \in Seq(Message)
      /\ whole \in SUBSET Message /\ ReaderTypeOK
      /\ FramesFit(incoming, last, whole, processed) /\ StoredInOrder(processed, whole)
  BY DEF ReaderIInv, ReaderTypeOK
<1>3. PICK got \in Seq(Message) :
          /\ processed' = processed \o got
          /\ IF Readable(frame) THEN FoundIn(frame.data, got) ELSE got = <<>>
  BY <1>2, WhatAFrameGives
<1>4. socket' \in {"open", "ended"}
  BY <1>2, WhatAFrameGives
<1>5. /\ t \in Seq(Frame) /\ frame = incoming[1]
      /\ \A i \in DOMAIN t : i \in Nat
      /\ \A i \in DOMAIN incoming : i # 1 => i - 1 \in DOMAIN t /\ t[i - 1] = incoming[i]
  BY <1>1, <1>2, TailOfFrames
<1>6. AllKept(incoming, 0, whole \ early, processed)
  BY <1>1 DEF ReaderIInv, BeforeReading
<1>7. /\ FramesFit(t, last, whole, processed \o got)
      /\ StoredInOrder(processed \o got, whole)
      /\ AllKept(t, 0, whole \ early, processed \o got)
  <2>1. CASE Readable(frame)
    <3>1. FoundIn(frame.data, got)
      BY <1>3, <2>1
    <3>2. whole \ early \in SUBSET Message
      BY <1>2
    <3> QED
      BY <1>1, <1>2, <1>6, <2>1, <3>1, <3>2, FramesRead
  <2>2. CASE ~ Readable(frame)
    <3>1. processed \o got = processed
      BY <1>2, <1>3, <2>2
    <3>2. FramesFit(t, last, whole, processed)
      BY <1>1, <1>2, TailFits
    <3> HIDE DEF t, frame
    <3>3. AllKept(t, 0, whole \ early, processed)
      <4> SUFFICES ASSUME NEW n \in whole \ early, ~ IsStored(processed, n)
                   PROVE  \E i \in DOMAIN t : i > 0 /\ Gives(t[i], n)
        BY DEF AllKept
      <4>1. PICK i \in DOMAIN incoming : i > 0 /\ Gives(incoming[i], n)
        BY <1>6 DEF AllKept
      <4>2. i # 1
        BY <1>5, <2>2, <4>1 DEF Gives
      <4>3. i - 1 \in DOMAIN t /\ t[i - 1] = incoming[i]
        BY <1>5, <4>2
      <4>4. i - 1 > 0
        BY <1>2, <4>1, <4>2
      <4> QED
        BY <4>1, <4>3, <4>4
    <3> QED
      BY <1>2, <3>1, <3>2, <3>3
  <2> QED
    BY <2>1, <2>2
<1>8. processed \o got \in Seq(Message)
  BY <1>2, <1>3, ConcatProperties
<1> HIDE DEF t, frame
<1>9. ReaderTypeOK'
  BY <1>1, <1>3, <1>4, <1>5, <1>8 DEF ReaderIInv, ReaderTypeOK, t
<1>10. Begun'
  BY <1>1, <1>4 DEF ReaderIInv, Begun
<1>11. FramesFit(incoming, last, whole, processed)' /\ StoredInOrder(processed, whole)'
  BY <1>1, <1>3, <1>7 DEF t
<1>12. BeforeReading' = 0
  BY <1>4 DEF BeforeReading
<1>13. AllKept(incoming, BeforeReading, whole \ early, processed)'
  BY <1>1, <1>3, <1>7, <1>12 DEF t
<1> QED
  BY <1>9, <1>10, <1>11, <1>13 DEF ReaderIInv

\* More may be kept than a frame can give.
LEMMA FitsMore ==
    ASSUME NEW frames, NEW final \in Nat, NEW later \in Nat, final <= later,
           NEW kept, NEW more, kept \subseteq more, NEW stored,
           \A i \in DOMAIN frames : frames[i] \in Frame,
           FramesFit(frames, final, kept, stored)
    PROVE  FramesFit(frames, later, more, stored)
<1> SUFFICES ASSUME NEW i \in DOMAIN frames
             PROVE  FrameFits(frames[i], later, more, stored)
  BY DEF FramesFit
<1>1. FrameFits(frames[i], final, kept, stored)
  BY DEF FramesFit
<1> DEFINE d == frames[i].data
<1>2. d \in Seq(Bytes)
  BY DEF Frame
<1> HIDE DEF d
<1>3. NotAbove(d, later)
  <2> SUFFICES ASSUME NEW p \in DOMAIN d PROVE d[p][1] <= later
    BY DEF NotAbove
  <2>1. d[p] \in Bytes
    BY <1>2
  <2>2. d[p][1] \in Nat
    BY <2>1, FrameAssumption DEF Bytes
  <2>3. d[p][1] <= final
    BY <1>1 DEF FrameFits, NotAbove, d
  <2> QED
    BY <2>2, <2>3
<1> QED
  BY <1>1, <1>3 DEF FrameFits, d

\* What is stored comes before what is sent next.
LEMMA SentFits ==
    ASSUME NEW f \in Frame, NEW base \in Nat, NEW final, NEW kept, NEW stored \in Seq(Message),
           StoredInOrder(stored, kept), kept \subseteq Nat, \A n \in kept : n <= base,
           NEW more,
           Ascending(f.data), Above(f.data, base), NotAbove(f.data, final),
           Readable(f) => \A n \in Message : \A p : Isolated(f.data, n, p) => n \in more
    PROVE  FrameFits(f, final, more, stored)
<1> SUFFICES ASSUME NEW k \in DOMAIN stored PROVE Above(f.data, stored[k])
  BY DEF FrameFits
<1> DEFINE d == f.data
<1>1. stored[k] \in Nat /\ stored[k] <= base
  BY DEF StoredInOrder
<1>2. d \in Seq(Bytes)
  BY DEF Frame
<1> HIDE DEF d
<1> SUFFICES ASSUME NEW p \in DOMAIN d, d[p][1] # 0 PROVE stored[k] < d[p][1]
  BY DEF Above, d
<1>3. d[p] \in Bytes
  BY <1>2
<1>4. d[p][1] \in Nat
  BY <1>3, FrameAssumption DEF Bytes
<1>5. base < d[p][1]
  BY DEF Above, d
<1> QED
  BY <1>1, <1>4, <1>5

\* New frames fit behind those under way, and hold the messages that are whole.
LEMMA ServerSendsIInv ==
    ASSUME ReaderIInv, NEW count \in 0 .. MaxInFrame, NEW utf8 \in BOOLEAN,
           NEW places \in [1 .. count -> Places(protocol)], NEW cut \in 0 .. 3 * count + 1,
           ServerSends(places, cut, utf8)
    PROVE  ReaderIInv'
<1> DEFINE next == last + 1 .. last + count
           op == IF protocol = "Json" THEN "Text" ELSE "Binary"
           bytes == (IF answered THEN <<>> ELSE Serialize(<<Answer>>)) \o Messages(last, places)
           frames == Fragments(op, utf8, bytes, cut)
           first == frames[1].data
           sent == {n \in next : /\ utf8
                                 /\ places[n - last] = 0
                                 /\ \E p \in DOMAIN first : first[p] = <<n, 2>>}
<1>1. MaxMessages \in Nat /\ MaxInFrame \in Nat /\ SeparatorAt \subseteq {1, 2}
  BY FrameAssumption
<1>2. /\ last \in 0 .. MaxMessages /\ incoming \in Seq(Frame) /\ answered \in BOOLEAN
      /\ whole \in SUBSET Message /\ early \in SUBSET Message /\ processed \in Seq(Message)
      /\ FramesFit(incoming, last, whole, processed) /\ StoredInOrder(processed, whole)
  BY DEF ReaderIInv, ReaderTypeOK
<1>3. last \in Nat /\ count \in Nat /\ cut \in Nat
  BY <1>1, <1>2
<1>4. places \in [1 .. count -> {0, 1, 2}] /\ Len(places) = count
  <2>1. \A i \in 1 .. count : places[i] \in {0, 1, 2}
    BY <1>1 DEF Places
  <2>2. places \in [1 .. count -> {0, 1, 2}]
    BY <2>1
  <2>3. places \in Seq({0, 1, 2}) /\ Len(places) = count
    BY <1>3, <2>2, LenProperties
  <2> QED
    BY <2>2, <2>3
<1>5. /\ socket \in {"handshake", "open"}
      /\ last + count <= MaxMessages
      /\ cut < Len(bytes)
      /\ ~utf8 => op = "Text"
      /\ incoming' = incoming \o frames
      /\ last' = last + count
      /\ whole' = whole \cup sent
      /\ early' = IF answered THEN early ELSE next
      /\ answered' = TRUE
      /\ socket' = socket /\ protocol' = protocol /\ closing' = closing
      /\ processed' = processed
  BY <1>4 DEF ServerSends
<1>6. PICK o \in Nat : AreSent(bytes, o, last, places, count)
  BY <1>2, <1>3, <1>4, <1>5, WhatIsSent
<1>7. op \in {"Text", "Binary"}
  OBVIOUS
<1> HIDE DEF op, bytes
<1>8. /\ frames \in Seq(Frame) /\ 1 \in DOMAIN frames
      /\ frames[1].op = op /\ frames[1].utf8 = utf8
      /\ \E end \in 1 .. Len(bytes) : first = SubSeq(bytes, 1, end)
      /\ \A i \in DOMAIN frames : /\ Ascending(frames[i].data)
                                  /\ Above(frames[i].data, last)
                                  /\ NotAbove(frames[i].data, last + count)
      /\ \A i \in DOMAIN frames : i # 1 => ~ Readable(frames[i])
      /\ InOrder(frames)
  <2>1. cut < Len(bytes)
    BY <1>5
  <2>2. AreFragments(frames, op, utf8, bytes, last, last + count)
    BY <1>3, <1>6, <1>7, <2>1, FragmentsSent
  <2> HIDE DEF frames
  <2> QED
    BY <2>2 DEF AreFragments
<1> HIDE DEF frames, first
<1>9. ASSUME NEW n \in Message
      PROVE  HasIsolated(first, n) <=> IsSentWhole(first, n, last, count, places)
  <2>1. PICK end \in 1 .. Len(bytes) : first = SubSeq(bytes, 1, end)
    BY <1>8
  <2> QED
    BY <1>3, <1>4, <1>6, <2>1, SentIsolated
<1>10. Readable(frames[1]) <=> utf8
  BY <1>5, <1>7, <1>8 DEF Readable
<1>11. next \subseteq Message /\ \A n \in next : n \in Nat /\ n <= last + count
  <2>1. last + count <= MaxMessages
    BY <1>5
  <2> QED
    BY <1>1, <1>3, <2>1 DEF Message
<1>12. sent \subseteq next
  OBVIOUS
<1>13. \A n \in Message : Gives(frames[1], n) <=> n \in sent
  BY <1>9, <1>10 DEF Gives, HasIsolated, IsSentWhole, first
<1> HIDE DEF sent, next
<1>14. whole' \in SUBSET Message /\ early' \in SUBSET Message
  BY <1>2, <1>5, <1>11, <1>12
<1>15. last + count \in Nat /\ last <= last + count
  BY <1>3
<1>16. ASSUME NEW i \in DOMAIN frames
       PROVE  FrameFits(frames[i], last + count, whole', processed)
  <2>1. frames[i] \in Frame
    BY <1>8
  <2>2. whole \subseteq Nat /\ \A n \in whole : n <= last
    BY <1>3 DEF ReaderIInv, Begun
  <2>3. Readable(frames[i]) => \A n \in Message : \A p : Isolated(frames[i].data, n, p) => n \in whole'
    <3> SUFFICES ASSUME Readable(frames[i]), NEW n \in Message, NEW p,
                        Isolated(frames[i].data, n, p)
                 PROVE  n \in whole'
      OBVIOUS
    <3>1. i = 1
      BY <1>8
    <3>2. Gives(frames[1], n)
      BY <3>1 DEF Gives
    <3> QED
      BY <1>5, <1>13, <3>2
  <2>4. /\ Ascending(frames[i].data) /\ Above(frames[i].data, last)
        /\ NotAbove(frames[i].data, last + count)
    BY <1>8
  <2> QED
    BY <1>2, <1>3, <2>1, <2>2, <2>3, <2>4, SentFits
<1>17. FramesFit(frames, last + count, whole', processed)
  BY <1>8, <1>16 DEF FramesFit
<1>18. FramesFit(incoming, last + count, whole', processed)
  <2>1. \A i \in DOMAIN incoming : incoming[i] \in Frame
    BY <1>2
  <2>2. whole \subseteq whole'
    BY <1>5
  <2> QED
    BY <1>2, <1>3, <1>15, <2>1, <2>2, FitsMore
<1>19. ASSUME NEW i \in DOMAIN incoming, NEW j \in DOMAIN frames
       PROVE  AllBefore(incoming[i].data, frames[j].data)
  <2>1. incoming[i] \in Frame /\ frames[j] \in Frame
    BY <1>2, <1>8
  <2>2. incoming[i].data \in Seq(Bytes) /\ frames[j].data \in Seq(Bytes)
    BY <2>1 DEF Frame
  <2>3. NotAbove(incoming[i].data, last)
    BY <1>2 DEF FramesFit, FrameFits
  <2>4. Above(frames[j].data, last)
    BY <1>8
  <2> QED
    BY <1>3, <2>2, <2>3, <2>4, BoundsOrder
<1>20. FramesFit(incoming \o frames, last + count, whole', processed)
  BY <1>2, <1>8, <1>17, <1>18, <1>19, FramesJoined
<1>21. FramesFit(incoming, last, whole, processed)'
  BY <1>5, <1>20
<1> DEFINE all == incoming \o frames
           m == Len(incoming)
<1>22. all \in Seq(Frame) /\ m \in Nat /\ m + 1 \in DOMAIN all /\ all[m + 1] = frames[1]
  <2>0. incoming \in Seq(Frame) /\ frames \in Seq(Frame)
    BY <1>2, <1>8
  <2>1. /\ all \in Seq(Frame) /\ Len(all) = m + Len(frames)
        /\ \A q \in 1 .. Len(frames) : all[m + q] = frames[q]
    BY <2>0, Joined
  <2>2. m \in Nat /\ DOMAIN frames = 1 .. Len(frames) /\ Len(frames) \in Nat
    BY <1>2, <1>8
  <2> HIDE DEF all, m
  <2>3. 1 \in 1 .. Len(frames)
    BY <1>8, <2>2
  <2>4. DOMAIN all = 1 .. m + Len(frames)
    BY <2>1
  <2>5. m + 1 \in 1 .. m + Len(frames)
    BY <2>2, <2>3
  <2> QED
    BY <2>1, <2>2, <2>3, <2>4, <2>5
<1>23. all # <<>>
  BY <1>22
<1> HIDE DEF all, m
<1>24. ReaderTypeOK'
  <2>1. last' \in 0 .. MaxMessages
    BY <1>2, <1>3, <1>5
  <2>2. incoming' \in Seq(Frame)
    BY <1>5, <1>22 DEF all
  <2> QED
    BY <1>5, <1>14, <2>1, <2>2 DEF ReaderIInv, ReaderTypeOK
<1>25. Begun'
  <2>1. whole' \subseteq 1 .. last'
    <3>1. sent \subseteq 1 .. last + count
      BY <1>3, <1>12 DEF next
    <3>2. whole \subseteq 1 .. last + count
      <4>1. whole \subseteq 1 .. last
        BY DEF ReaderIInv, Begun
      <4> QED
        BY <1>3, <4>1
    <3> QED
      BY <1>5, <3>1, <3>2
  <2>2. incoming' # <<>>
    BY <1>5, <1>23 DEF all
  <2> QED
    BY <1>5, <2>1, <2>2 DEF Begun
<1>26. StoredInOrder(processed, whole)'
  BY <1>2, <1>5 DEF StoredInOrder
<1>27. AllKept(incoming, BeforeReading, whole \ early, processed)'
  <2>1. BeforeReading' = BeforeReading
    BY <1>5 DEF BeforeReading
  <2>2. CASE ~answered
    <3>1. whole = {}
      BY <2>2 DEF ReaderIInv, Begun
    <3>2. whole' \ early' = {}
      BY <1>5, <1>12, <2>2, <3>1
    <3> QED
      BY <3>2 DEF AllKept
  <2>3. CASE answered
    <3>1. early' = early
      BY <1>5, <2>3
    <3>2. m + 1 > BeforeReading
      <4>1. CASE socket = "handshake"
        <5>1. incoming # <<>>
          BY <2>3, <4>1 DEF ReaderIInv, Begun
        <5>2. m # 0
          BY <1>2, <5>1 DEF m
        <5> QED
          BY <1>22, <4>1, <5>2 DEF BeforeReading
      <4>2. CASE socket # "handshake"
        BY <1>22, <4>2 DEF BeforeReading
      <4> QED
        BY <4>1, <4>2
    <3>3. AllKept(all, BeforeReading, whole \ early, processed)
      <4>1. AllKept(incoming, BeforeReading, whole \ early, processed)
        BY <1>5 DEF ReaderIInv
      <4> QED
        BY <1>2, <1>8, <4>1, MoreFramesKeep DEF all
    <3>4. AllKept(all, BeforeReading, (whole \cup sent) \ early, processed)
      <4> SUFFICES ASSUME NEW n \in (whole \cup sent) \ early
                   PROVE  \/ IsStored(processed, n)
                          \/ \E i \in DOMAIN all : i > BeforeReading /\ Gives(all[i], n)
        BY DEF AllKept
      <4>1. CASE n \in whole
        BY <3>3, <4>1 DEF AllKept
      <4>2. CASE n \in sent
        <5>1. Gives(all[m + 1], n)
          BY <1>11, <1>12, <1>13, <1>22, <4>2
        <5> QED
          BY <1>22, <3>2, <5>1
      <4> QED
        BY <4>1, <4>2
    <3> QED
      BY <1>5, <2>1, <3>1, <3>4 DEF all
  <2> QED
    BY <1>2, <2>2, <2>3
<1> QED
  BY <1>21, <1>24, <1>25, <1>26, <1>27 DEF ReaderIInv

\* What the invariant says of the splitters.
LEMMA SplittersAreExact ==
    ASSUME ReaderTypeOK PROVE SplittersExact
<1> SUFFICES ASSUME NEW i \in DOMAIN incoming
             PROVE  /\ AreTheRuns(incoming[i].data, GetMessagesText(incoming[i].data))
                    /\ AreTheRuns(incoming[i].data, GetMessagesBinary(incoming[i].data))
  BY DEF SplittersExact
<1>1. incoming[i] \in Frame
  BY DEF ReaderTypeOK
<1>2. incoming[i].data \in Seq(Bytes)
  BY <1>1 DEF Frame
<1> QED
  BY <1>2, TextExact, BinaryExact

\* What is stored is in order, once, and whole.
LEMMA StoredInOrderOnce ==
    ASSUME ReaderIInv PROVE InOrderOnce
BY DEF ReaderIInv, StoredInOrder, InOrderOnce

\* A message that a frame under way will give has its last byte there.
LEMMA LossIsAccounted ==
    ASSUME ReaderIInv PROVE LossAccounted
<1> SUFFICES ASSUME socket = "open", NEW n \in whole \ early, ~ Stored(n)
             PROVE  Underway(n)
  BY DEF LossAccounted
<1>1. AllKept(incoming, BeforeReading, whole \ early, processed) /\ incoming \in Seq(Frame)
  BY DEF ReaderIInv, ReaderTypeOK
<1>2. ~ IsStored(processed, n)
  BY DEF Stored, IsStored
<1>3. PICK i \in DOMAIN incoming : Gives(incoming[i], n)
  BY <1>1, <1>2 DEF AllKept
<1> DEFINE d == incoming[i].data
<1>4. PICK p : Isolated(d, n, p)
  BY <1>3 DEF Gives
<1>5. incoming[i] \in Frame
  BY <1>1
<1>6. d \in Seq(Bytes)
  BY <1>5 DEF Frame
<1>7. p + 1 \in DOMAIN d /\ d[p + 1] = <<n, 2>>
  BY <1>4, <1>6 DEF Isolated
<1> QED
  BY <1>7 DEF Underway
=============================================================================
