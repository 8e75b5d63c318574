------------------------ MODULE CallbackPlacesProofs ------------------------
(***************************************************************************)
(* Where the messages of a target are: each at exactly one place, and the  *)
(* retained ones in the order in which they came.                          *)
(***************************************************************************)
EXTENDS CallbackStorageProofs

\* The six places of a target's messages, without the tuple.
PlacesApart(t) ==
    /\ InReader(t) \cup Elements(deferred[t]) \cup InReplay(t)
           \cup Elements(delivered[t]) \cup evicted[t] \cup lost[t] = 1 .. arrived[t]
    /\ InReader(t) \cap Elements(deferred[t]) = {}
    /\ (InReader(t) \cup Elements(deferred[t])) \cap InReplay(t) = {}
    /\ (InReader(t) \cup Elements(deferred[t]) \cup InReplay(t)) \cap Elements(delivered[t]) = {}
    /\ (InReader(t) \cup Elements(deferred[t]) \cup InReplay(t) \cup Elements(delivered[t]))
           \cap evicted[t] = {}
    /\ (InReader(t) \cup Elements(deferred[t]) \cup InReplay(t) \cup Elements(delivered[t])
           \cup evicted[t]) \cap lost[t] = {}

\* Two readers, and two replaying users, have different messages.
ReadersApart ==
    \A r, s \in Reader :
        r # s /\ reader[r] # Idle /\ reader[s] # Idle /\ reader[r].target = reader[s].target
            => reader[r].message # reader[s].message

ReplaysApart ==
    \A u, v \in User :
        u # v /\ user[u] # Idle /\ user[v] # Idle /\ user[u].target = user[v].target
            => Elements(replay[u]) \cap Elements(replay[v]) = {}

\* A replay has no message twice, and exists only while it goes on.
ReplaysTidy ==
    \A u \in User : Distinct(replay[u]) /\ (user[u].pc # "replaying" => replay[u] = <<>>)

AllApart ==
    \A t \in Target : PlacesApart(t) /\ Distinct(delivered[t]) /\ Distinct(deferred[t])

PlaceInv ==
    /\ TypeOK
    /\ AllApart
    /\ ReadersApart
    /\ ReplaysApart
    /\ ReplaysTidy

-----------------------------------------------------------------------------
(* Sequences without repetition.                                            *)

\* Appending a new element.
LEMMA AppendNew ==
    ASSUME NEW S, NEW q \in Seq(S), NEW m \in S
    PROVE  /\ Elements(Append(q, m)) = Elements(q) \cup {m}
           /\ Distinct(q) /\ m \notin Elements(q) => Distinct(Append(q, m))
<1> DEFINE r == Append(q, m)
<1>1. /\ Len(r) = Len(q) + 1 /\ r[Len(q) + 1] = m /\ Len(q) \in Nat
      /\ \A i \in 1 .. Len(q) : r[i] = q[i]
  OBVIOUS
<1> HIDE DEF r
<1>2. Elements(r) = Elements(q) \cup {m}
  <2>1. ASSUME NEW x \in Elements(r) PROVE x \in Elements(q) \cup {m}
    <3>1. PICK i \in 1 .. Len(r) : x = r[i]
      BY <2>1 DEF Elements
    <3>2. CASE i = Len(q) + 1
      BY <1>1, <3>1, <3>2
    <3>3. CASE i \in 1 .. Len(q)
      BY <1>1, <3>1, <3>3 DEF Elements
    <3> QED
      BY <1>1, <3>2, <3>3
  <2>2. Elements(q) \subseteq Elements(r)
    BY <1>1 DEF Elements
  <2>3. m \in Elements(r)
    <3>1. Len(q) + 1 \in 1 .. Len(r)
      BY <1>1
    <3> QED
      BY <1>1, <3>1 DEF Elements
  <2> QED
    BY <2>1, <2>2, <2>3
<1>3. ASSUME Distinct(q), m \notin Elements(q) PROVE Distinct(r)
  <2> SUFFICES ASSUME NEW i \in 1 .. Len(r), NEW j \in 1 .. Len(r), r[i] = r[j]
               PROVE  i = j
    BY DEF Distinct
  <2>1. CASE i \in 1 .. Len(q) /\ j \in 1 .. Len(q)
    BY <1>1, <1>3, <2>1 DEF Distinct
  <2>2. \A x \in 1 .. Len(q) : r[x] # m
    BY <1>1, <1>3 DEF Elements
  <2> QED
    BY <1>1, <2>1, <2>2
<1> QED
  BY <1>2, <1>3 DEF r

\* Taking the first element.
LEMMA TailOld ==
    ASSUME NEW S, NEW q \in Seq(S), q # <<>>, Distinct(q)
    PROVE  /\ Head(q) \in Elements(q)
           /\ Elements(Tail(q)) = Elements(q) \ {Head(q)}
           /\ Distinct(Tail(q))
<1> DEFINE r == Tail(q)
           h == Head(q)
<1>1. /\ Len(q) \in Nat \ {0} /\ Len(r) = Len(q) - 1 /\ h = q[1]
      /\ \A i \in 1 .. Len(r) : r[i] = q[i + 1]
  OBVIOUS
<1> HIDE DEF r, h
<1>2. h \in Elements(q)
  BY <1>1 DEF Elements
<1>3. ASSUME NEW x \in Elements(r) PROVE x \in Elements(q) \ {h}
  <2>1. PICK i \in 1 .. Len(r) : x = r[i]
    BY <1>3 DEF Elements
  <2>2. i + 1 \in 1 .. Len(q) /\ x = q[i + 1] /\ 1 \in 1 .. Len(q) /\ i + 1 # 1
    BY <1>1, <2>1
  <2> QED
    BY <1>1, <2>2 DEF Elements, Distinct
<1>4. ASSUME NEW x \in Elements(q) \ {h} PROVE x \in Elements(r)
  <2>1. PICK i \in 1 .. Len(q) : x = q[i]
    BY <1>4 DEF Elements
  <2>2. i - 1 \in 1 .. Len(r) /\ r[i - 1] = q[i]
    BY <1>1, <1>4, <2>1
  <2> QED
    BY <2>1, <2>2 DEF Elements
<1>5. Distinct(r)
  <2> SUFFICES ASSUME NEW i \in 1 .. Len(r), NEW j \in 1 .. Len(r), r[i] = r[j]
               PROVE  i = j
    BY DEF Distinct
  <2>1. i + 1 \in 1 .. Len(q) /\ j + 1 \in 1 .. Len(q) /\ q[i + 1] = q[j + 1]
    BY <1>1
  <2>2. i + 1 = j + 1
    BY <2>1 DEF Distinct
  <2> QED
    BY <2>2
<1> QED
  BY <1>2, <1>3, <1>4, <1>5 DEF r, h

\* An empty sequence.
LEMMA NothingIn == Elements(<<>>) = {} /\ Distinct(<<>>)
BY DEF Elements, Distinct

-----------------------------------------------------------------------------
(* Who holds what after a step.                                             *)

\* What a reader receives is added to what the readers hold.
LEMMA ReaderTakes ==
    ASSUME TypeOK, NEW r \in Reader, NEW t \in Target, NEW m \in Message,
           NEW p \in {"found", "missing"}, reader[r] = Idle,
           reader' = [reader EXCEPT ![r] = [pc |-> p, target |-> t, message |-> m]]
    PROVE  /\ InReader(t)' = InReader(t) \cup {m}
           /\ \A x \in Target \ {t} : InReader(x)' = InReader(x)
           /\ ReadersApart /\ m \notin InReader(t) => ReadersApart'
<1>1. /\ reader'[r] # Idle /\ reader'[r].target = t /\ reader'[r].message = m
      /\ \A s \in Reader \ {r} : reader'[s] = reader[s]
  BY DEF TypeOK, Idle
<1>2. InReader(t)' = InReader(t) \cup {m}
  <2>1. ASSUME NEW y \in InReader(t)' PROVE y \in InReader(t) \cup {m}
    BY <1>1, <2>1 DEF InReader
  <2>2. ASSUME NEW y \in InReader(t) PROVE y \in InReader(t)'
    BY <1>1, <2>2 DEF InReader
  <2>3. m \in InReader(t)'
    BY <1>1 DEF InReader
  <2> QED
    BY <2>1, <2>2, <2>3
<1>3. ASSUME NEW x \in Target \ {t} PROVE InReader(x)' = InReader(x)
  BY <1>1 DEF InReader
<1>4. ASSUME ReadersApart, m \notin InReader(t) PROVE ReadersApart'
  <2>1. \A s \in Reader : reader[s] # Idle /\ reader[s].target = t => reader[s].message # m
    BY <1>4 DEF InReader
  <2> QED
    BY <1>1, <1>4, <2>1 DEF ReadersApart
<1> QED
  BY <1>2, <1>3, <1>4

\* What a reader is done with is taken from what the readers hold.
LEMMA ReaderDone ==
    ASSUME TypeOK, ReadersApart, NEW r \in Reader, NEW t \in Target, NEW m \in Message,
           reader[r] # Idle, reader[r].target = t, reader[r].message = m,
           reader' = [reader EXCEPT ![r] = Idle]
    PROVE  /\ m \in InReader(t)
           /\ InReader(t)' = InReader(t) \ {m}
           /\ \A x \in Target \ {t} : InReader(x)' = InReader(x)
           /\ ReadersApart'
<1>1. reader'[r] = Idle /\ \A s \in Reader \ {r} : reader'[s] = reader[s]
  BY DEF TypeOK
<1>2. m \in InReader(t)
  BY DEF InReader
<1>3. \A s \in Reader \ {r} : reader[s] # Idle /\ reader[s].target = t => reader[s].message # m
  BY DEF ReadersApart
<1>4. \A y : y \in InReader(t)' <=> \E s \in Reader \ {r} :
                  reader[s] # Idle /\ reader[s].target = t /\ y = reader[s].message
  BY <1>1 DEF InReader
<1>5. \A y : y \in InReader(t) <=> \E s \in Reader :
                  reader[s] # Idle /\ reader[s].target = t /\ y = reader[s].message
  BY DEF InReader
<1>6. \A y : y \in InReader(t)' <=> y \in InReader(t) /\ y # m
  BY <1>3, <1>4, <1>5
<1>7. \A x \in Target \ {t} : InReader(x)' = InReader(x)
  BY <1>1 DEF InReader
<1>8. ReadersApart'
  BY <1>1 DEF ReadersApart
<1> QED
  BY <1>2, <1>6, <1>7, <1>8

\* A user that begins, changes its state, or ends with nothing to replay
\* changes nothing in what is being replayed.
LEMMA UserMoves ==
    ASSUME TypeOK, NEW u \in User, replay[u] = <<>>, UNCHANGED replay,
           user' \in [User -> UserState], \A v \in User \ {u} : user'[v] = user[v]
    PROVE  /\ \A t \in Target : InReplay(t)' = InReplay(t)
           /\ ReplaysApart => ReplaysApart'
           /\ ReplaysTidy => ReplaysTidy'
<1>1. Elements(replay[u]) = {} /\ \A v \in User : Elements(replay[v])' = Elements(replay[v])
  BY NothingIn DEF Elements
<1>2. ASSUME NEW t \in Target PROVE InReplay(t)' = InReplay(t)
  <2>1. ASSUME NEW y PROVE y \in InReplay(t)' <=> y \in InReplay(t)
    BY <1>1 DEF InReplay
  <2> QED
    BY <2>1
<1>3. ASSUME ReplaysApart PROVE ReplaysApart'
  BY <1>1, <1>3 DEF ReplaysApart
<1>4. ASSUME ReplaysTidy PROVE ReplaysTidy'
  BY <1>4 DEF ReplaysTidy, Distinct
<1> QED
  BY <1>2, <1>3, <1>4

\* Taking the first message off the replay of u takes it from the messages that
\* are being replayed.
LEMMA ReplayShrinks ==
    ASSUME TypeOK, ReplaysApart, ReplaysTidy, NEW u \in User, NEW t \in Target, NEW m \in Message,
           user[u] # Idle, user[u].target = t, user[u].pc = "replaying", UNCHANGED user,
           replay[u] # <<>>, m = Head(replay[u]), replay' = [replay EXCEPT ![u] = Tail(@)]
    PROVE  /\ m \in InReplay(t)
           /\ InReplay(t)' = InReplay(t) \ {m}
           /\ \A x \in Target \ {t} : InReplay(x)' = InReplay(x)
           /\ ReplaysApart' /\ ReplaysTidy'
<1>1. /\ replay[u] \in Seq(Message) /\ Distinct(replay[u])
      /\ replay'[u] = Tail(replay[u]) /\ \A v \in User \ {u} : replay'[v] = replay[v]
  BY DEF TypeOK, ReplaysTidy
<1>2. /\ m \in Elements(replay[u])
      /\ Elements(replay'[u]) = Elements(replay[u]) \ {m}
      /\ Distinct(replay'[u])
  BY <1>1, TailOld
<1>3. \A v \in User \ {u} : user[v] # Idle /\ user[v].target = t => m \notin Elements(replay[v])
  BY <1>2 DEF ReplaysApart
<1>4. \A x, y : y \in InReplay(x) <=> \E v \in User :
                     user[v] # Idle /\ user[v].target = x /\ y \in Elements(replay[v])
  BY DEF InReplay
<1>5. ASSUME NEW x, NEW y
      PROVE  y \in InReplay(x)' <=> \E v \in User :
                     user[v] # Idle /\ user[v].target = x /\ y \in Elements(replay'[v])
  <2>1. \A v \in User : Elements(replay[v])' = Elements(replay'[v])
    BY DEF Elements
  <2> QED
    BY <2>1 DEF InReplay
<1>6. m \in InReplay(t)
  BY <1>2, <1>4
<1>7. \A y : y \in InReplay(t)' <=> y \in InReplay(t) /\ y # m
  BY <1>1, <1>2, <1>3, <1>4, <1>5
<1>8. \A x \in Target \ {t} : InReplay(x)' = InReplay(x)
  <2> SUFFICES ASSUME NEW x \in Target \ {t} PROVE InReplay(x)' = InReplay(x)
    OBVIOUS
  <2>1. ASSUME NEW y PROVE y \in InReplay(x)' <=> y \in InReplay(x)
    BY <1>1, <1>4, <1>5
  <2> QED
    BY <2>1
<1>9. ReplaysApart'
  <2>1. \A v \in User : Elements(replay'[v]) \subseteq Elements(replay[v])
    BY <1>1, <1>2
  <2>2. \A v \in User : Elements(replay[v])' = Elements(replay'[v])
    BY DEF Elements
  <2> QED
    BY <2>1, <2>2 DEF ReplaysApart
<1>10. ReplaysTidy'
  <2>1. \A v \in User : Distinct(replay[v])' <=> Distinct(replay'[v])
    BY DEF Distinct
  <2>2. \A v \in User : Distinct(replay'[v])
    BY <1>1, <1>2 DEF ReplaysTidy
  <2> QED
    BY <1>1, <2>1, <2>2 DEF ReplaysTidy
<1> QED
  BY <1>6, <1>7, <1>8, <1>9, <1>10

\* Taking the retained messages of t adds them to the messages being replayed.
LEMMA ReplayGrows ==
    ASSUME TypeOK, ReplaysApart, ReplaysTidy, NEW u \in User, NEW t \in Target,
           NEW q \in Seq(Message),
           user[u].pc = "inserted", user[u].target = t,
           user' = [user EXCEPT ![u].pc = "replaying"], replay' = [replay EXCEPT ![u] = q],
           Distinct(q), Elements(q) \cap InReplay(t) = {}
    PROVE  /\ InReplay(t)' = InReplay(t) \cup Elements(q)
           /\ \A x \in Target \ {t} : InReplay(x)' = InReplay(x)
           /\ ReplaysApart' /\ ReplaysTidy'
<1>1. /\ user[u] # Idle /\ user'[u] # Idle /\ user'[u].target = t /\ user'[u].pc = "replaying"
      /\ replay'[u] = q
      /\ \A v \in User \ {u} : user'[v] = user[v] /\ replay'[v] = replay[v]
  <2>1. user[u] \in UserState /\ user[u] # Idle
    BY BusyTyped DEF TypeOK
  <2>2. user'[u] = [user[u] EXCEPT !.pc = "replaying"]
    BY DEF TypeOK
  <2>3. user'[u].pc = "replaying" /\ user'[u].target = t
    BY <2>1, <2>2 DEF UserState, Idle
  <2> QED
    BY <2>1, <2>3 DEF TypeOK, Idle
<1>2. replay[u] = <<>> /\ Elements(replay[u]) = {}
  BY NothingIn DEF ReplaysTidy
<1>3. \A x, y : y \in InReplay(x) <=> \E v \in User :
                     user[v] # Idle /\ user[v].target = x /\ y \in Elements(replay[v])
  BY DEF InReplay
<1>4. ASSUME NEW x, NEW y
      PROVE  y \in InReplay(x)' <=> \E v \in User :
                     user'[v] # Idle /\ user'[v].target = x /\ y \in Elements(replay'[v])
  <2>1. \A v \in User : Elements(replay[v])' = Elements(replay'[v])
    BY DEF Elements
  <2> QED
    BY <2>1 DEF InReplay
<1>5. \A y : y \in InReplay(t)' <=> y \in InReplay(t) \/ y \in Elements(q)
  BY <1>1, <1>2, <1>3, <1>4
<1>6. \A x \in Target \ {t} : InReplay(x)' = InReplay(x)
  <2> SUFFICES ASSUME NEW x \in Target \ {t} PROVE InReplay(x)' = InReplay(x)
    OBVIOUS
  <2>1. ASSUME NEW y PROVE y \in InReplay(x)' <=> y \in InReplay(x)
    BY <1>1, <1>2, <1>3, <1>4
  <2> QED
    BY <2>1
<1>7. ReplaysApart'
  <2>1. \A v \in User : Elements(replay[v])' = Elements(replay'[v])
    BY DEF Elements
  <2>2. \A v \in User \ {u} : user[v] # Idle /\ user[v].target = t
                                  => Elements(replay[v]) \cap Elements(q) = {}
    BY <1>3
  <2>3. ASSUME NEW v \in User, NEW w \in User, v # w, user'[v] # Idle, user'[w] # Idle,
               user'[v].target = user'[w].target
        PROVE  Elements(replay'[v]) \cap Elements(replay'[w]) = {}
    <3>1. CASE v = u
      <4>1. /\ user[w] # Idle /\ user[w].target = t /\ w \in User \ {u}
            /\ replay'[v] = q /\ replay'[w] = replay[w]
        BY <1>1, <2>3, <3>1
      <4> QED
        BY <2>2, <4>1
    <3>2. CASE w = u
      <4>1. /\ user[v] # Idle /\ user[v].target = t /\ v \in User \ {u}
            /\ replay'[w] = q /\ replay'[v] = replay[v]
        BY <1>1, <2>3, <3>2
      <4> QED
        BY <2>2, <4>1
    <3>3. CASE v # u /\ w # u
      BY <1>1, <2>3, <3>3 DEF ReplaysApart
    <3> QED
      BY <3>1, <3>2, <3>3
  <2> QED
    BY <2>1, <2>3 DEF ReplaysApart
<1>8. ReplaysTidy'
  <2>1. \A v \in User : Distinct(replay[v])' <=> Distinct(replay'[v])
    BY DEF Distinct
  <2> QED
    BY <1>1, <2>1 DEF ReplaysTidy
<1> QED
  BY <1>5, <1>6, <1>7, <1>8

-----------------------------------------------------------------------------
(* Every action moves a message from one place to another.                  *)

\* A step that changes nothing of what a target's places hold.
LEMMA SamePlaces ==
    ASSUME NEW t, PlacesApart(t), Distinct(delivered[t]), Distinct(deferred[t]),
           InReader(t)' = InReader(t), InReplay(t)' = InReplay(t), deferred'[t] = deferred[t],
           delivered'[t] = delivered[t], evicted'[t] = evicted[t], lost'[t] = lost[t],
           arrived'[t] = arrived[t]
    PROVE  PlacesApart(t)' /\ Distinct(delivered[t])' /\ Distinct(deferred[t])'
<1>1. /\ Elements(deferred[t])' = Elements(deferred[t])
      /\ Elements(delivered[t])' = Elements(delivered[t])
  BY DEF Elements
<1>2. PlacesApart(t)'
  BY <1>1 DEF PlacesApart
<1> QED
  BY <1>2 DEF Distinct

\* A message that leaves the readers or a replay for its callback, or is lost.
LEMMA DispatchMoves ==
    ASSUME TypeOK, PlaceInv, NEW t \in Target, NEW m \in Message,
           Dispatch(t, m) \/ (Deliver(t, m) /\ lost' = lost),
           UNCHANGED <<deferred, evicted, arrived>>,
           \A x \in Target \ {t} : InReader(x)' = InReader(x) /\ InReplay(x)' = InReplay(x),
           \/ /\ m \in InReader(t) /\ InReader(t)' = InReader(t) \ {m}
              /\ InReplay(t)' = InReplay(t)
           \/ /\ m \in InReplay(t) /\ InReplay(t)' = InReplay(t) \ {m}
              /\ InReader(t)' = InReader(t)
    PROVE  AllApart'
<1>1. ASSUME NEW x \in Target \ {t}
      PROVE  PlacesApart(x)' /\ Distinct(delivered[x])' /\ Distinct(deferred[x])'
  <2>1. delivered'[x] = delivered[x] /\ lost'[x] = lost[x]
    BY DEF Dispatch, Deliver, TypeOK
  <2> QED
    BY <2>1, SamePlaces DEF PlaceInv, AllApart
<1>2. /\ delivered[t] \in Seq(Message) /\ Distinct(delivered[t]) /\ Distinct(deferred[t])
      /\ PlacesApart(t)
  BY DEF TypeOK, PlaceInv, AllApart
<1>3. m \notin Elements(delivered[t])
  BY <1>2 DEF PlacesApart
<1>4. Elements(deferred[t])' = Elements(deferred[t]) /\ Distinct(deferred[t])'
  BY <1>2 DEF Elements, Distinct
<1>5. CASE delivered'[t] = Append(delivered[t], m) /\ lost'[t] = lost[t]
  <2>1. Elements(delivered'[t]) = Elements(delivered[t]) \cup {m} /\ Distinct(delivered'[t])
    BY <1>2, <1>3, <1>5, AppendNew
  <2>2. Elements(delivered[t])' = Elements(delivered[t]) \cup {m} /\ Distinct(delivered[t])'
    BY <2>1 DEF Elements, Distinct
  <2>3. PlacesApart(t)'
    BY <1>2, <1>4, <1>5, <2>2 DEF PlacesApart
  <2> QED
    BY <1>1, <1>4, <2>2, <2>3 DEF AllApart
<1>6. CASE delivered'[t] = delivered[t] /\ lost'[t] = lost[t] \cup {m}
  <2>1. Elements(delivered[t])' = Elements(delivered[t]) /\ Distinct(delivered[t])'
    BY <1>2, <1>6 DEF Elements, Distinct
  <2>2. PlacesApart(t)'
    BY <1>2, <1>4, <1>6, <2>1 DEF PlacesApart
  <2> QED
    BY <1>1, <1>4, <2>1, <2>2 DEF AllApart
<1> QED
  BY <1>5, <1>6 DEF Dispatch, Deliver, TypeOK

\* A message that leaves a reader for the retained ones, of which the oldest
\* may be pushed out.
LEMMA RetainMoves ==
    ASSUME TypeOK, PlaceInv, NEW t \in Target, NEW m \in Message, Retain(t, m),
           UNCHANGED <<delivered, lost, arrived>>,
           \A x \in Target : InReplay(x)' = InReplay(x),
           \A x \in Target \ {t} : InReader(x)' = InReader(x),
           m \in InReader(t), InReader(t)' = InReader(t) \ {m}
    PROVE  AllApart'
<1> DEFINE queue == Append(deferred[t], m)
<1>1. ASSUME NEW x \in Target \ {t}
      PROVE  PlacesApart(x)' /\ Distinct(delivered[x])' /\ Distinct(deferred[x])'
  <2>1. deferred'[x] = deferred[x] /\ evicted'[x] = evicted[x]
    BY DEF Retain, TypeOK
  <2> QED
    BY <2>1, SamePlaces DEF PlaceInv, AllApart
<1>2. /\ deferred[t] \in Seq(Message) /\ Distinct(delivered[t]) /\ Distinct(deferred[t])
      /\ PlacesApart(t)
  BY DEF TypeOK, PlaceInv, AllApart
<1>3. m \notin Elements(deferred[t])
  BY <1>2 DEF PlacesApart
<1>4. /\ Elements(queue) = Elements(deferred[t]) \cup {m} /\ Distinct(queue)
      /\ queue \in Seq(Message) /\ queue # <<>>
  BY <1>2, <1>3, AppendNew
<1>5. Elements(delivered[t])' = Elements(delivered[t]) /\ Distinct(delivered[t])'
  BY <1>2 DEF Elements, Distinct
<1>6. \/ deferred'[t] = queue /\ evicted'[t] = evicted[t]
      \/ deferred'[t] = Tail(queue) /\ evicted'[t] = evicted[t] \cup {Head(queue)}
  BY DEF Retain, TypeOK
<1> HIDE DEF queue
<1>7. CASE deferred'[t] = queue /\ evicted'[t] = evicted[t]
  <2>1. Elements(deferred'[t]) = Elements(deferred[t]) \cup {m} /\ Distinct(deferred'[t])
    BY <1>4, <1>7
  <2>2. Elements(deferred[t])' = Elements(deferred[t]) \cup {m} /\ Distinct(deferred[t])'
    BY <2>1 DEF Elements, Distinct
  <2>3. PlacesApart(t)'
    BY <1>2, <1>5, <1>7, <2>2 DEF PlacesApart
  <2> QED
    BY <1>1, <1>5, <2>2, <2>3 DEF AllApart
<1>8. CASE deferred'[t] = Tail(queue) /\ evicted'[t] = evicted[t] \cup {Head(queue)}
  <2> DEFINE h == Head(queue)
  <2>1. /\ h \in Elements(queue) /\ Elements(Tail(queue)) = Elements(queue) \ {h}
        /\ Distinct(Tail(queue))
    BY <1>4, TailOld
  <2> HIDE DEF h
  <2>2. /\ Elements(deferred'[t]) = (Elements(deferred[t]) \cup {m}) \ {h}
        /\ Distinct(deferred'[t]) /\ h \in Elements(deferred[t]) \cup {m}
    BY <1>4, <1>8, <2>1
  <2>3. Elements(deferred[t])' = (Elements(deferred[t]) \cup {m}) \ {h} /\ Distinct(deferred[t])'
    BY <2>2 DEF Elements, Distinct
  <2>4. evicted'[t] = evicted[t] \cup {h}
    BY <1>8 DEF h
  <2>5. PlacesApart(t)'
    BY <1>2, <1>5, <2>2, <2>3, <2>4 DEF PlacesApart
  <2> QED
    BY <1>1, <1>5, <2>3, <2>5 DEF AllApart
<1> QED
  BY <1>6, <1>7, <1>8

\* Nothing moves between the readers, or between the replays.
LEMMA SameReaders ==
    ASSUME UNCHANGED reader
    PROVE  (\A x \in Target : InReader(x)' = InReader(x)) /\ (ReadersApart => ReadersApart')
BY DEF InReader, ReadersApart

\* Steps of the readers leave the replays as they are.
LEMMA SameReplays ==
    ASSUME UNCHANGED <<user, replay>>
    PROVE  /\ \A x \in Target : InReplay(x)' = InReplay(x)
           /\ ReplaysApart => ReplaysApart'
           /\ ReplaysTidy => ReplaysTidy'
<1>1. \A u \in User : Elements(replay[u])' = Elements(replay[u])
  BY DEF Elements
<1>2. ASSUME NEW x \in Target PROVE InReplay(x)' = InReplay(x)
  <2>1. ASSUME NEW y PROVE y \in InReplay(x)' <=> y \in InReplay(x)
    BY <1>1 DEF InReplay
  <2> QED
    BY <2>1
<1>3. ReplaysApart => ReplaysApart'
  BY <1>1 DEF ReplaysApart
<1>4. ReplaysTidy => ReplaysTidy'
  BY DEF ReplaysTidy, Distinct
<1> QED
  BY <1>2, <1>3, <1>4

\* What a step has to keep.
Apart == AllApart /\ ReadersApart /\ ReplaysApart /\ ReplaysTidy

\* A new message is at no place yet.
LEMMA ReceiveApart ==
    ASSUME PlaceInv, NEW r \in Reader, NEW t \in Target, ReceiveInvocation(r, t)
    PROVE  Apart'
<1>1. PICK m \in Message, p \in {"found", "missing"} :
          /\ m = arrived[t] + 1
          /\ reader' = [reader EXCEPT ![r] = [pc |-> p, target |-> t, message |-> m]]
  <2>1. arrived[t] + 1 \in Message
    BY StorageAssumption DEF PlaceInv, TypeOK, ReceiveInvocation, Message
  <2>2. (IF t \in registered THEN "found" ELSE "missing") \in {"found", "missing"}
    OBVIOUS
  <2> QED
    BY <2>1, <2>2 DEF ReceiveInvocation
<1>2. /\ arrived' = [arrived EXCEPT ![t] = m] /\ arrived[t] \in Nat
      /\ 1 .. m = 1 .. arrived[t] \cup {m} /\ m \notin 1 .. arrived[t]
  BY <1>1, StorageAssumption DEF PlaceInv, TypeOK, ReceiveInvocation, Message
<1>3. /\ PlacesApart(t) /\ Distinct(delivered[t]) /\ Distinct(deferred[t])
      /\ m \notin InReader(t)
  BY <1>2 DEF PlaceInv, AllApart, PlacesApart
<1>4. reader[r] = Idle /\ UNCHANGED <<deferred, user, replay, delivered, evicted, lost>>
  BY DEF ReceiveInvocation
<1>5. /\ InReader(t)' = InReader(t) \cup {m}
      /\ \A x \in Target \ {t} : InReader(x)' = InReader(x)
      /\ ReadersApart'
  BY <1>1, <1>3, <1>4, ReaderTakes DEF PlaceInv
<1>6. /\ \A x \in Target : InReplay(x)' = InReplay(x)
      /\ ReplaysApart' /\ ReplaysTidy'
  BY <1>4, SameReplays DEF PlaceInv
<1>7. ASSUME NEW x \in Target \ {t}
      PROVE  PlacesApart(x)' /\ Distinct(delivered[x])' /\ Distinct(deferred[x])'
  <2>1. arrived'[x] = arrived[x]
    BY <1>2 DEF PlaceInv, TypeOK
  <2> QED
    BY <1>4, <1>5, <1>6, <2>1, SamePlaces DEF PlaceInv, AllApart
<1>8. PlacesApart(t)' /\ Distinct(delivered[t])' /\ Distinct(deferred[t])'
  <2>1. /\ Elements(deferred[t])' = Elements(deferred[t]) /\ Distinct(deferred[t])'
        /\ Elements(delivered[t])' = Elements(delivered[t]) /\ Distinct(delivered[t])'
    BY <1>3, <1>4 DEF Elements, Distinct
  <2>2. arrived'[t] = m
    BY <1>2 DEF PlaceInv, TypeOK
  <2>3. PlacesApart(t)'
    BY <1>2, <1>3, <1>4, <1>5, <1>6, <2>1, <2>2 DEF PlacesApart
  <2> QED
    BY <2>1, <2>3
<1> QED
  BY <1>5, <1>6, <1>7, <1>8 DEF Apart, AllApart

\* A reader leaves its message at one other place.
LEMMA ReaderStepApart ==
    ASSUME PlaceInv, NEW r \in Reader, ReaderStep(r)
    PROVE  Apart'
<1>1. /\ reader[r].pc \in {"found", "missing"} /\ reader' = [reader EXCEPT ![r] = Idle]
      /\ UNCHANGED <<arrived, user, replay>>
  BY DEF ReaderStep, UpdateFound, DeferMissing
<1>2. reader[r] # Idle /\ reader[r].target \in Target /\ reader[r].message \in Message
  BY <1>1, BusyTyped DEF PlaceInv
<1>3. PICK t \in Target, m \in Message : t = reader[r].target /\ m = reader[r].message
  BY <1>2
<1>4. /\ m \in InReader(t)
      /\ InReader(t)' = InReader(t) \ {m}
      /\ \A x \in Target \ {t} : InReader(x)' = InReader(x)
      /\ ReadersApart'
  BY <1>1, <1>2, <1>3, ReaderDone DEF PlaceInv
<1>5. /\ \A x \in Target : InReplay(x)' = InReplay(x)
      /\ ReplaysApart' /\ ReplaysTidy'
  BY <1>1, SameReplays DEF PlaceInv
<1>6. TypeOK
  BY DEF PlaceInv
<1>7. CASE UpdateFound(r)
  <2>1. Dispatch(t, m) /\ UNCHANGED <<deferred, evicted>>
    BY <1>3, <1>7 DEF UpdateFound
  <2>2. AllApart'
    BY <1>1, <1>4, <1>5, <1>6, <2>1, DispatchMoves
  <2> QED
    BY <1>4, <1>5, <2>2 DEF Apart
<1>8. CASE DeferMissing(r)
  <2>1. /\ lost' = lost
        /\ \/ Deliver(t, m) /\ UNCHANGED <<deferred, evicted>>
           \/ Retain(t, m) /\ UNCHANGED delivered
    BY <1>3, <1>8 DEF DeferMissing
  <2>2. ASSUME Deliver(t, m) /\ UNCHANGED <<deferred, evicted>> PROVE AllApart'
    BY <1>1, <1>4, <1>5, <1>6, <2>1, <2>2, DispatchMoves
  <2>3. ASSUME Retain(t, m) /\ UNCHANGED delivered PROVE AllApart'
    BY <1>1, <1>4, <1>5, <1>6, <2>1, <2>3, RetainMoves
  <2>4. AllApart'
    BY <2>1, <2>2, <2>3
  <2> QED
    BY <1>4, <1>5, <2>4 DEF Apart
<1> QED
  BY <1>7, <1>8 DEF ReaderStep

\* A user that inserts a callback, is done replaying, or unregisters moves no message.
LEMMA UserStepApart ==
    ASSUME PlaceInv, NEW u \in User, replay[u] = <<>>,
           UNCHANGED <<reader, replay, deferred, delivered, evicted, lost, arrived>>,
           user' \in [User -> UserState], \A v \in User \ {u} : user'[v] = user[v]
    PROVE  Apart'
<1>1. (\A x \in Target : InReader(x)' = InReader(x)) /\ ReadersApart'
  BY SameReaders DEF PlaceInv
<1>2. (\A x \in Target : InReplay(x)' = InReplay(x)) /\ ReplaysApart' /\ ReplaysTidy'
  BY UserMoves DEF PlaceInv
<1>3. AllApart'
  BY <1>1, <1>2, SamePlaces DEF PlaceInv, AllApart
<1> QED
  BY <1>1, <1>2, <1>3 DEF Apart

\* Taking the retained messages moves them to the replay, all at once.
LEMMA TakeApart ==
    ASSUME PlaceInv, NEW u \in User, TakeDeferred(u)
    PROVE  Apart'
<1>1. PICK t \in Target : t = user[u].target
  BY BusyTyped DEF PlaceInv, TakeDeferred
<1>2. PICK q \in Seq(Message) : q = deferred[t]
  BY DEF PlaceInv, TypeOK
<1>3. /\ user[u].pc = "inserted" /\ user' = [user EXCEPT ![u].pc = "replaying"]
      /\ replay' = [replay EXCEPT ![u] = q] /\ deferred' = [deferred EXCEPT ![t] = <<>>]
      /\ UNCHANGED <<arrived, reader, delivered, evicted, lost>>
  BY <1>1, <1>2 DEF TakeDeferred
<1>4. PlacesApart(t) /\ Distinct(delivered[t]) /\ Distinct(q)
  BY <1>2 DEF PlaceInv, AllApart
<1>5. (\A x \in Target : InReader(x)' = InReader(x)) /\ ReadersApart'
  BY <1>3, SameReaders DEF PlaceInv
<1>6. Elements(q) = Elements(deferred[t]) /\ Elements(q) \cap InReplay(t) = {}
  BY <1>2, <1>4 DEF PlacesApart
<1>7. /\ InReplay(t)' = InReplay(t) \cup Elements(q)
      /\ \A x \in Target \ {t} : InReplay(x)' = InReplay(x)
      /\ ReplaysApart' /\ ReplaysTidy'
  BY <1>1, <1>3, <1>4, <1>6, ReplayGrows DEF PlaceInv
<1>8. ASSUME NEW x \in Target \ {t}
      PROVE  PlacesApart(x)' /\ Distinct(delivered[x])' /\ Distinct(deferred[x])'
  <2>1. deferred'[x] = deferred[x]
    BY <1>3 DEF PlaceInv, TypeOK
  <2> QED
    BY <1>3, <1>5, <1>7, <2>1, SamePlaces DEF PlaceInv, AllApart
<1>9. PlacesApart(t)' /\ Distinct(delivered[t])' /\ Distinct(deferred[t])'
  <2>1. Elements(deferred'[t]) = {} /\ Distinct(deferred'[t])
    BY <1>3, NothingIn DEF PlaceInv, TypeOK
  <2>2. Elements(deferred[t])' = {} /\ Distinct(deferred[t])'
    BY <2>1 DEF Elements, Distinct
  <2>3. Elements(delivered[t])' = Elements(delivered[t]) /\ Distinct(delivered[t])'
    BY <1>3, <1>4 DEF Elements, Distinct
  <2>4. PlacesApart(t)'
    BY <1>3, <1>4, <1>5, <1>6, <1>7, <2>2, <2>3 DEF PlacesApart
  <2> QED
    BY <2>2, <2>3, <2>4
<1> QED
  BY <1>5, <1>7, <1>8, <1>9 DEF Apart, AllApart

\* A replay delivers or loses its next message, which is at no other place.
LEMMA ReplayApart ==
    ASSUME PlaceInv, NEW u \in User, ReplayNext(u)
    PROVE  Apart'
<1>1. PICK t \in Target : t = user[u].target /\ user[u] # Idle
  BY BusyTyped DEF PlaceInv, ReplayNext, Idle
<1>2. PICK m \in Message : m = Head(replay[u])
  BY QueueRest DEF PlaceInv, TypeOK, ReplayNext
<1>3. /\ user[u].pc = "replaying" /\ replay[u] # <<>> /\ Dispatch(t, m)
      /\ replay' = [replay EXCEPT ![u] = Tail(@)]
      /\ UNCHANGED <<deferred, arrived, reader, user, evicted>>
  BY <1>1, <1>2 DEF ReplayNext
<1>4. (\A x \in Target : InReader(x)' = InReader(x)) /\ ReadersApart'
  BY <1>3, SameReaders DEF PlaceInv
<1>5. /\ m \in InReplay(t)
      /\ InReplay(t)' = InReplay(t) \ {m}
      /\ \A x \in Target \ {t} : InReplay(x)' = InReplay(x)
      /\ ReplaysApart' /\ ReplaysTidy'
  BY <1>1, <1>2, <1>3, ReplayShrinks DEF PlaceInv
<1>6. AllApart'
  BY <1>3, <1>4, <1>5, DispatchMoves DEF PlaceInv
<1> QED
  BY <1>4, <1>5, <1>6 DEF Apart

-----------------------------------------------------------------------------
\* Every step keeps every message at one place.
LEMMA ApartStep ==
    ASSUME PlaceInv, TypeOK', Next
    PROVE  Apart'
<1>1. ASSUME NEW r \in Reader, ReaderStep(r) \/ \E t \in Target : ReceiveInvocation(r, t)
      PROVE  Apart'
  BY <1>1, ReaderStepApart, ReceiveApart
<1>2. user' \in [User -> UserState]
  BY DEF TypeOK
<1>3. ASSUME NEW u \in User, NEW t \in Target, InsertCallback(u, t)
      PROVE  Apart'
  <2>1. replay[u] = <<>>
    BY <1>3 DEF PlaceInv, ReplaysTidy, InsertCallback, Idle
  <2>2. /\ UNCHANGED <<reader, replay, deferred, delivered, evicted, lost, arrived>>
        /\ \A v \in User \ {u} : user'[v] = user[v]
    BY <1>3 DEF PlaceInv, TypeOK, InsertCallback
  <2> QED
    BY <1>2, <2>1, <2>2, UserStepApart
<1>4. ASSUME NEW u \in User, ReplayDone(u)
      PROVE  Apart'
  <2>1. /\ UNCHANGED <<reader, replay, deferred, delivered, evicted, lost, arrived>>
        /\ replay[u] = <<>> /\ \A v \in User \ {u} : user'[v] = user[v]
    BY <1>4 DEF PlaceInv, TypeOK, ReplayDone
  <2> QED
    BY <1>2, <2>1, UserStepApart
<1>5. ASSUME NEW u \in User, Unregister(u)
      PROVE  Apart'
  <2>1. replay[u] = <<>>
    BY <1>5 DEF PlaceInv, ReplaysTidy, Unregister
  <2>2. /\ UNCHANGED <<reader, replay, deferred, delivered, evicted, lost, arrived>>
        /\ \A v \in User \ {u} : user'[v] = user[v]
    BY <1>5 DEF PlaceInv, TypeOK, Unregister
  <2> QED
    BY <1>2, <2>1, <2>2, UserStepApart
<1> QED
  BY <1>1, <1>3, <1>4, <1>5, TakeApart, ReplayApart DEF Next, UserStep

\* Before anything arrives all places are empty.
LEMMA InitApart ==
    ASSUME Init
    PROVE  Apart
<1>1. \A t \in Target : /\ InReader(t) = {} /\ InReplay(t) = {}
                        /\ Elements(deferred[t]) = {} /\ Distinct(deferred[t])
                        /\ Elements(delivered[t]) = {} /\ Distinct(delivered[t])
                        /\ evicted[t] = {} /\ lost[t] = {} /\ arrived[t] = 0
  <2>1. \A t \in Target : deferred[t] = <<>> /\ delivered[t] = <<>>
    BY DEF Init
  <2>2. \A t \in Target : InReader(t) = {} /\ InReplay(t) = {}
    BY DEF Init, InReader, InReplay
  <2> QED
    BY <2>1, <2>2, NothingIn DEF Init
<1>2. 1 .. 0 = {}
  OBVIOUS
<1>3. AllApart
  BY <1>1, <1>2 DEF AllApart, PlacesApart
<1>4. ReadersApart /\ ReplaysApart
  BY DEF Init, ReadersApart, ReplaysApart
<1>5. ReplaysTidy
  <2>1. \A u \in User : replay[u] = <<>>
    BY DEF Init
  <2> QED
    BY <2>1, NothingIn DEF ReplaysTidy
<1> QED
  BY <1>3, <1>4, <1>5 DEF Apart

\* The invariant says what ExactlyOnePlace says of the tuple of places.
LEMMA ApartIsOnePlace ==
    ASSUME AllApart
    PROVE  ExactlyOnePlace
<1> SUFFICES ASSUME NEW t \in Target
             PROVE  LET places == <<InReader(t), Elements(deferred[t]), InReplay(t),
                                    Elements(delivered[t]), evicted[t], lost[t]>>
                    IN  /\ UNION Elements(places) = 1 .. arrived[t]
                        /\ \A i, j \in 1 .. Len(places) : i # j => places[i] \cap places[j] = {}
                        /\ Distinct(delivered[t]) /\ Distinct(deferred[t])
  BY DEF ExactlyOnePlace
<1> DEFINE a == InReader(t)
           b == Elements(deferred[t])
           c == InReplay(t)
           d == Elements(delivered[t])
           e == evicted[t]
           f == lost[t]
           places == <<a, b, c, d, e, f>>
<1>1. /\ a \cup b \cup c \cup d \cup e \cup f = 1 .. arrived[t]
      /\ a \cap b = {} /\ (a \cup b) \cap c = {} /\ (a \cup b \cup c) \cap d = {}
      /\ (a \cup b \cup c \cup d) \cap e = {} /\ (a \cup b \cup c \cup d \cup e) \cap f = {}
      /\ Distinct(delivered[t]) /\ Distinct(deferred[t])
  BY DEF AllApart, PlacesApart
<1> HIDE DEF a, b, c, d, e, f
<1>2. /\ Len(places) = 6 /\ places[1] = a /\ places[2] = b /\ places[3] = c
      /\ places[4] = d /\ places[5] = e /\ places[6] = f
  OBVIOUS
<1> HIDE DEF places
<1>3. 1 .. Len(places) = {1, 2, 3, 4, 5, 6}
  BY <1>2
<1>4. Elements(places) = {a, b, c, d, e, f}
  BY <1>2, <1>3 DEF Elements
<1>5. UNION {a, b, c, d, e, f} = a \cup b \cup c \cup d \cup e \cup f
  OBVIOUS
<1>6. \A i, j \in {1, 2, 3, 4, 5, 6} : i # j => places[i] \cap places[j] = {}
  BY <1>1, <1>2
<1> QED
  BY <1>1, <1>3, <1>4, <1>5, <1>6 DEF places, a, b, c, d, e, f

\* The invariant of the places, beside that of the storage.
THEOREM PlacesInvariant == Spec => []PlaceInv
<1>1. Init => PlaceInv
  <2> SUFFICES ASSUME Init PROVE PlaceInv
    OBVIOUS
  <2>1. TypeOK
    BY StorageAssumption DEF Init, TypeOK, ReaderState, UserState, Idle
  <2> QED
    BY <2>1, InitApart DEF PlaceInv, Apart
<1>2. PlaceInv /\ StorageInv /\ StorageInv' /\ [Next]_vars => PlaceInv'
  <2> SUFFICES ASSUME PlaceInv, StorageInv', [Next]_vars
               PROVE  PlaceInv'
    OBVIOUS
  <2>1. TypeOK'
    BY DEF StorageInv
  <2>2. CASE Next
    BY <2>1, <2>2, ApartStep DEF PlaceInv, Apart
  <2>3. CASE UNCHANGED vars
    <3>1. /\ UNCHANGED <<reader, user, replay, deferred, delivered, evicted, lost, arrived>>
      BY <2>3 DEF vars
    <3>2. AllApart'
      BY <3>1, SameReaders, SameReplays, SamePlaces DEF PlaceInv, AllApart
    <3> QED
      BY <2>1, <3>1, <3>2, SameReaders, SameReplays DEF PlaceInv
  <2> QED
    BY <2>2, <2>3
<1>3. QED
  BY <1>1, <1>2, StorageInvariant, PTL DEF Spec

\* No message is duplicated, and none disappears: what the readers received of
\* a target is retained, being handled or replayed, delivered once, evicted or lost.
THEOREM OnePlaceEach == Spec => []ExactlyOnePlace
<1>1. PlaceInv => ExactlyOnePlace
  BY ApartIsOnePlace DEF PlaceInv
<1> QED
  BY <1>1, PlacesInvariant, PTL

-----------------------------------------------------------------------------
(* The order of the retained messages.                                      *)

Sorted(s) == \A i, j \in 1 .. Len(s) : i < j => s[i] < s[j]

\* With a single reader the message it holds is the latest of its target.
HoldsLatest == \A r \in Reader : reader[r] # Idle => reader[r].message = arrived[reader[r].target]

OrderedFrom(t) ==
    /\ Sorted(deferred[t])
    /\ \A m \in evicted[t], n \in Elements(deferred[t]) : m < n

OneReader == \A r, s \in Reader : r = s

OrderInv == OneReader => HoldsLatest /\ \A t \in Target : OrderedFrom(t)

\* A message later than all of a sorted queue may be appended, and the first
\* one taken.
LEMMA SortedAppend ==
    ASSUME NEW q \in Seq(Message), Sorted(q), NEW m \in Message, \A n \in Elements(q) : n < m
    PROVE  Sorted(Append(q, m))
<1> DEFINE r == Append(q, m)
<1>1. /\ Len(r) = Len(q) + 1 /\ r[Len(q) + 1] = m /\ Len(q) \in Nat
      /\ \A i \in 1 .. Len(q) : r[i] = q[i]
  OBVIOUS
<1> HIDE DEF r
<1>2. \A i \in 1 .. Len(q) : r[i] < m
  BY <1>1 DEF Elements
<1>3. ASSUME NEW i \in 1 .. Len(r), NEW j \in 1 .. Len(r), i < j
      PROVE  r[i] < r[j]
  <2>1. i \in 1 .. Len(q)
    BY <1>1, <1>3
  <2>2. CASE j \in 1 .. Len(q)
    BY <1>1, <1>3, <2>1, <2>2 DEF Sorted
  <2>3. CASE j = Len(q) + 1
    BY <1>1, <1>2, <2>1, <2>3
  <2> QED
    BY <1>1, <2>2, <2>3
<1> QED
  BY <1>3 DEF Sorted, r

\* What follows the head of a sorted queue is sorted, and above it.
LEMMA SortedTail ==
    ASSUME NEW q \in Seq(Message), q # <<>>, Sorted(q)
    PROVE  Sorted(Tail(q)) /\ \A n \in Elements(Tail(q)) : Head(q) < n
<1> DEFINE r == Tail(q)
           h == Head(q)
<1>1. /\ Len(q) \in Nat \ {0} /\ Len(r) = Len(q) - 1 /\ h = q[1]
      /\ \A i \in 1 .. Len(r) : r[i] = q[i + 1]
  OBVIOUS
<1> HIDE DEF r, h
<1>2. \A i \in 1 .. Len(r) : i + 1 \in 1 .. Len(q) /\ 1 \in 1 .. Len(q) /\ 1 < i + 1
  BY <1>1
<1>3. \A i \in 1 .. Len(r) : h < r[i]
  BY <1>1, <1>2 DEF Sorted
<1>4. ASSUME NEW i \in 1 .. Len(r), NEW j \in 1 .. Len(r), i < j
      PROVE  r[i] < r[j]
  <2>1. i + 1 < j + 1
    BY <1>4
  <2> QED
    BY <1>1, <1>2, <2>1 DEF Sorted
<1> QED
  BY <1>3, <1>4 DEF Sorted, Elements, r, h

\* Nothing changes in what is retained or evicted of t.
LEMMA SameOrder ==
    ASSUME NEW t, OrderedFrom(t), deferred'[t] = deferred[t], evicted'[t] = evicted[t]
    PROVE  OrderedFrom(t)'
<1>1. Elements(deferred[t])' = Elements(deferred[t])
  BY DEF Elements
<1>2. Sorted(deferred[t])'
  BY DEF OrderedFrom, Sorted
<1> QED
  BY <1>1, <1>2 DEF OrderedFrom

\* defer_message appends the latest message and evicts the oldest.
LEMMA RetainOrdered ==
    ASSUME TypeOK, NEW t \in Target, NEW m \in Message, Retain(t, m), OrderedFrom(t),
           \A n \in Elements(deferred[t]) \cup evicted[t] : n < m
    PROVE  /\ OrderedFrom(t)'
           /\ \A x \in Target \ {t} : deferred'[x] = deferred[x] /\ evicted'[x] = evicted[x]
<1> DEFINE queue == Append(deferred[t], m)
<1>1. deferred[t] \in Seq(Message) /\ Sorted(deferred[t])
  BY DEF TypeOK, OrderedFrom
<1>2. /\ queue \in Seq(Message) /\ queue # <<>> /\ Sorted(queue)
      /\ Elements(queue) = Elements(deferred[t]) \cup {m}
  BY <1>1, SortedAppend, AppendNew
<1>3. \A x \in evicted[t], n \in Elements(queue) : x < n
  BY <1>2 DEF OrderedFrom
<1>4. \/ deferred'[t] = queue /\ evicted'[t] = evicted[t]
      \/ deferred'[t] = Tail(queue) /\ evicted'[t] = evicted[t] \cup {Head(queue)}
  BY DEF Retain, TypeOK
<1>5. \A x \in Target \ {t} : deferred'[x] = deferred[x] /\ evicted'[x] = evicted[x]
  BY DEF Retain, TypeOK
<1> HIDE DEF queue
<1>6. /\ Sorted(Tail(queue)) /\ Elements(Tail(queue)) \subseteq Elements(queue)
      /\ \A n \in Elements(Tail(queue)) : Head(queue) < n
  <2>1. /\ Len(queue) \in Nat \ {0} /\ Len(Tail(queue)) = Len(queue) - 1
        /\ \A i \in 1 .. Len(Tail(queue)) : Tail(queue)[i] = queue[i + 1]
    BY <1>2
  <2>2. \A i \in 1 .. Len(Tail(queue)) : i + 1 \in 1 .. Len(queue)
    BY <2>1
  <2>3. Elements(Tail(queue)) \subseteq Elements(queue)
    BY <2>1, <2>2 DEF Elements
  <2> QED
    BY <1>2, <2>3, SortedTail
<1>7. /\ Sorted(deferred'[t])
      /\ \A x \in evicted'[t], n \in Elements(deferred'[t]) : x < n
  BY <1>2, <1>3, <1>4, <1>6
<1>8. /\ Elements(deferred[t])' = Elements(deferred'[t])
      /\ (Sorted(deferred[t])' <=> Sorted(deferred'[t]))
  BY DEF Elements, Sorted
<1> QED
  BY <1>5, <1>7, <1>8 DEF OrderedFrom

\* A step changes the retained messages by retaining the latest or by taking all.
LEMMA OrderStep ==
    ASSUME PlaceInv, OrderInv, Next
    PROVE  OrderInv'
<1> SUFFICES ASSUME OneReader
             PROVE  HoldsLatest' /\ \A t \in Target : OrderedFrom(t)'
  BY DEF OrderInv, OneReader
<1>1. HoldsLatest /\ \A t \in Target : OrderedFrom(t)
  BY DEF OrderInv
<1>2. ASSUME NEW r \in Reader, NEW t \in Target, ReceiveInvocation(r, t)
      PROVE  HoldsLatest' /\ \A x \in Target : OrderedFrom(x)'
  <2>1. /\ arrived'[t] = arrived[t] + 1 /\ reader'[r].target = t
        /\ reader'[r].message = arrived[t] + 1
    BY <1>2 DEF PlaceInv, TypeOK, ReceiveInvocation
  <2>2. HoldsLatest'
    BY <2>1 DEF HoldsLatest, OneReader
  <2> QED
    BY <1>1, <1>2, <2>2, SameOrder DEF ReceiveInvocation
<1>3. ASSUME NEW r \in Reader, ReaderStep(r)
      PROVE  HoldsLatest' /\ \A x \in Target : OrderedFrom(x)'
  <2>1. /\ reader[r].pc \in {"found", "missing"} /\ reader' = [reader EXCEPT ![r] = Idle]
        /\ UNCHANGED arrived
    BY <1>3 DEF ReaderStep, UpdateFound, DeferMissing
  <2>2. reader[r] # Idle /\ reader[r].target \in Target /\ reader[r].message \in Message
    BY <2>1, BusyTyped DEF PlaceInv
  <2>3. PICK t \in Target, m \in Message : t = reader[r].target /\ m = reader[r].message
    BY <2>2
  <2>4. HoldsLatest'
    BY <2>1 DEF HoldsLatest, OneReader, PlaceInv, TypeOK
  <2>5. UNCHANGED <<deferred, evicted>> \/ Retain(t, m)
    BY <1>3, <2>3 DEF ReaderStep, UpdateFound, DeferMissing
  <2>6. CASE UNCHANGED <<deferred, evicted>>
    BY <1>1, <2>4, <2>6, SameOrder
  <2>7. CASE Retain(t, m)
    <3>1. m \in InReader(t)
      BY <2>2, <2>3 DEF InReader
    <3>2. m = arrived[t] /\ arrived[t] \in Int
      BY <1>1, <2>2, <2>3 DEF HoldsLatest, PlaceInv, TypeOK
    <3>3. /\ Elements(deferred[t]) \cup evicted[t] \subseteq 1 .. arrived[t]
          /\ m \notin Elements(deferred[t]) \cup evicted[t]
      BY <3>1 DEF PlaceInv, AllApart, PlacesApart
    <3>4. \A n \in Elements(deferred[t]) \cup evicted[t] : n < m
      BY <3>2, <3>3
    <3>5. /\ OrderedFrom(t)'
          /\ \A x \in Target \ {t} : deferred'[x] = deferred[x] /\ evicted'[x] = evicted[x]
      BY <1>1, <2>7, <3>4, RetainOrdered DEF PlaceInv
    <3>6. \A x \in Target \ {t} : OrderedFrom(x)'
      BY <1>1, <3>5, SameOrder
    <3> QED
      BY <2>4, <3>5, <3>6
  <2> QED
    BY <2>5, <2>6, <2>7
<1>4. ASSUME NEW u \in User, TakeDeferred(u)
      PROVE  HoldsLatest' /\ \A x \in Target : OrderedFrom(x)'
  <2>1. PICK t \in Target : t = user[u].target
    BY <1>4, BusyTyped DEF PlaceInv, TakeDeferred
  <2>2. /\ deferred'[t] = <<>> /\ \A x \in Target \ {t} : deferred'[x] = deferred[x]
        /\ UNCHANGED <<arrived, reader, evicted>>
    BY <1>4, <2>1 DEF PlaceInv, TypeOK, TakeDeferred
  <2>3. HoldsLatest'
    BY <1>1, <2>2 DEF HoldsLatest
  <2>4. OrderedFrom(t)'
    <3>1. Elements(deferred[t])' = {} /\ Sorted(deferred[t])'
      BY <2>2 DEF Elements, Sorted
    <3> QED
      BY <3>1 DEF OrderedFrom
  <2>5. \A x \in Target \ {t} : OrderedFrom(x)'
    BY <1>1, <2>2, SameOrder
  <2> QED
    BY <2>3, <2>4, <2>5
<1>5. ASSUME NEW u \in User,
             ReplayNext(u) \/ ReplayDone(u) \/ Unregister(u) \/ \E t \in Target : InsertCallback(u, t)
      PROVE  HoldsLatest' /\ \A x \in Target : OrderedFrom(x)'
  <2>1. UNCHANGED <<arrived, reader, deferred, evicted>>
    BY <1>5 DEF ReplayNext, ReplayDone, Unregister, InsertCallback
  <2>2. HoldsLatest'
    BY <1>1, <2>1 DEF HoldsLatest
  <2> QED
    BY <1>1, <2>1, <2>2, SameOrder
<1> QED
  BY <1>2, <1>3, <1>4, <1>5 DEF Next, UserStep

\* Under a single reader the retained messages of a target are its most recent
\* ones, oldest first: defer_message evicts the oldest, and no other.
THEOREM RetainedAreLatest == Spec => []RetainedInOrder
<1>1. Init => OrderInv
  <2> SUFFICES ASSUME Init PROVE HoldsLatest /\ \A t \in Target : OrderedFrom(t)
    BY DEF OrderInv
  <2>1. HoldsLatest
    BY DEF Init, HoldsLatest
  <2>2. \A t \in Target : deferred[t] = <<>> /\ evicted[t] = {}
    BY DEF Init
  <2>3. \A t \in Target : Sorted(deferred[t])
    BY <2>2 DEF Sorted
  <2> QED
    BY <2>1, <2>2, <2>3 DEF OrderedFrom
<1>2. PlaceInv /\ OrderInv /\ [Next]_vars => OrderInv'
  <2> SUFFICES ASSUME PlaceInv, OrderInv, [Next]_vars
               PROVE  OrderInv'
    OBVIOUS
  <2>1. CASE UNCHANGED vars
    <3>1. UNCHANGED <<arrived, reader, deferred, evicted>>
      BY <2>1 DEF vars
    <3>2. HoldsLatest => HoldsLatest'
      BY <3>1 DEF HoldsLatest
    <3>3. \A t \in Target : OrderedFrom(t) => OrderedFrom(t)'
      BY <3>1, SameOrder
    <3> QED
      BY <3>2, <3>3 DEF OrderInv, OneReader
  <2> QED
    BY <2>1, OrderStep
<1>3. OrderInv => RetainedInOrder
  BY DEF OrderInv, OneReader, OrderedFrom, Sorted, RetainedInOrder
<1> QED
  BY <1>1, <1>2, <1>3, PlacesInvariant, PTL DEF Spec
=============================================================================
