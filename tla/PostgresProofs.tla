--------------------------- MODULE PostgresProofs ---------------------------
(***************************************************************************)
(* The timelines of the Postgres store, which every update deletes and     *)
(* inserts again row by row, for any number of orders and however many     *)
(* statements fail.                                                        *)
(*                                                                         *)
(* The argument, for requests that do not overlap: the copy a handler      *)
(* holds is the order's history without the states no event is appended    *)
(* for (Records), with events lost as well if a statement about it ever    *)
(* failed (Tells), and the rows in the table are a first part of such a    *)
(* copy.  What is lost stays lost, and nothing else gets in.               *)
(***************************************************************************)
EXTENDS PostgresTimeline, SerialProofs, SequenceTheorems

\* s is t with some of its elements left out, f telling where each went.
Embeds(s, t) ==
  \E f \in [1 .. Len(s) -> 1 .. Len(t)] :
    /\ \A i, j \in 1 .. Len(s) : i < j => f[i] < f[j]
    /\ \A i \in 1 .. Len(s) : s[i] = t[f[i]]

LEMMA EmptyEmbeds == ASSUME NEW t PROVE Embeds(<< >>, t)
<1> DEFINE f == [i \in 1 .. 0 |-> i]
<1>1. f \in [1 .. Len(<< >>) -> 1 .. Len(t)]
  OBVIOUS
<1>2. \A i \in 1 .. Len(<< >>) : FALSE
  OBVIOUS
<1> HIDE DEF f
<1> QED
  BY <1>1, <1>2 DEF Embeds

LEMMA EmbedsItself == ASSUME NEW S, NEW t \in Seq(S) PROVE Embeds(t, t)
<1> DEFINE f == [i \in 1 .. Len(t) |-> i]
<1>1. f \in [1 .. Len(t) -> 1 .. Len(t)]
  OBVIOUS
<1>2. \A i \in 1 .. Len(t) : f[i] = i
  OBVIOUS
<1> HIDE DEF f
<1> QED
  BY <1>1, <1>2 DEF Embeds

\* A longer history, and an event added to both.
LEMMA EmbedsLonger ==
  ASSUME NEW S, NEW s \in Seq(S), NEW t \in Seq(S), NEW x \in S, Embeds(s, t)
  PROVE  Embeds(s, Append(t, x)) /\ Embeds(Append(s, x), Append(t, x))
<1>1. PICK f \in [1 .. Len(s) -> 1 .. Len(t)] :
        /\ \A i, j \in 1 .. Len(s) : i < j => f[i] < f[j]
        /\ \A i \in 1 .. Len(s) : s[i] = t[f[i]]
  BY DEF Embeds
<1>2. PICK m, n \in Nat : m = Len(s) /\ n = Len(t)
  OBVIOUS
<1>3. /\ Len(Append(t, x)) = n + 1 /\ Append(t, x)[n + 1] = x
      /\ \A i \in 1 .. n : Append(t, x)[i] = t[i]
  BY <1>2
<1>4. /\ Len(Append(s, x)) = m + 1 /\ Append(s, x)[m + 1] = x
      /\ \A i \in 1 .. m : Append(s, x)[i] = s[i]
  BY <1>2
<1>5. \A i \in 1 .. m : f[i] \in 1 .. n /\ f[i] \in 1 .. n + 1
  BY <1>1, <1>2
<1>6. Embeds(s, Append(t, x))
  <2>1. f \in [1 .. m -> 1 .. n + 1]
    BY <1>1, <1>2, <1>5
  <2>2. \A i \in 1 .. m : s[i] = Append(t, x)[f[i]]
    BY <1>1, <1>2, <1>3, <1>5
  <2> QED
    BY <1>1, <1>2, <1>3, <2>1, <2>2 DEF Embeds
<1>7. Embeds(Append(s, x), Append(t, x))
  <2> DEFINE g == [i \in 1 .. m + 1 |-> IF i = m + 1 THEN n + 1 ELSE f[i]]
  <2>1. \A i \in 1 .. m + 1 : g[i] = IF i = m + 1 THEN n + 1 ELSE f[i]
    OBVIOUS
  <2>2. g \in [1 .. m + 1 -> 1 .. n + 1]
    BY <1>5
  <2> HIDE DEF g
  <2>3. \A i, j \in 1 .. m + 1 : i < j => g[i] < g[j]
    <3> SUFFICES ASSUME NEW i \in 1 .. m + 1, NEW j \in 1 .. m + 1, i < j
                 PROVE  g[i] < g[j]
      OBVIOUS
    <3>1. i \in 1 .. m /\ g[i] = f[i] /\ f[i] \in 1 .. n
      BY <1>5, <2>1
    <3>2. CASE j = m + 1
      BY <2>1, <3>1, <3>2
    <3>3. CASE j # m + 1
      <4>1. j \in 1 .. m /\ g[j] = f[j]
        BY <2>1, <3>3
      <4> QED
        BY <1>1, <1>2, <3>1, <4>1
    <3> QED
      BY <3>2, <3>3
  <2>4. \A i \in 1 .. m + 1 : Append(s, x)[i] = Append(t, x)[g[i]]
    <3> SUFFICES ASSUME NEW i \in 1 .. m + 1
                 PROVE  Append(s, x)[i] = Append(t, x)[g[i]]
      OBVIOUS
    <3>1. CASE i = m + 1
      BY <1>3, <1>4, <2>1, <3>1
    <3>2. CASE i # m + 1
      <4>1. i \in 1 .. m /\ g[i] = f[i] /\ f[i] \in 1 .. n
        BY <1>5, <2>1, <3>2
      <4> QED
        BY <1>1, <1>2, <1>3, <1>4, <4>1
    <3> QED
      BY <3>1, <3>2
  <2> QED
    BY <1>3, <1>4, <2>2, <2>3, <2>4 DEF Embeds
<1> QED
  BY <1>6, <1>7

\* A first part of what embeds.
LEMMA EmbedsShorter ==
  ASSUME NEW S, NEW s \in Seq(S), NEW t \in Seq(S), NEW r \in Seq(S), Embeds(s, t),
         Len(r) <= Len(s), \A i \in 1 .. Len(r) : r[i] = s[i]
  PROVE  Embeds(r, t)
<1>1. PICK f \in [1 .. Len(s) -> 1 .. Len(t)] :
        /\ \A i, j \in 1 .. Len(s) : i < j => f[i] < f[j]
        /\ \A i \in 1 .. Len(s) : s[i] = t[f[i]]
  BY DEF Embeds
<1> DEFINE g == [i \in 1 .. Len(r) |-> f[i]]
<1>2. \A i \in 1 .. Len(r) : i \in 1 .. Len(s)
  OBVIOUS
<1>3. g \in [1 .. Len(r) -> 1 .. Len(t)] /\ \A i \in 1 .. Len(r) : g[i] = f[i]
  BY <1>2
<1> HIDE DEF g
<1>4. \A i, j \in 1 .. Len(r) : i < j => g[i] < g[j]
  <2> SUFFICES ASSUME NEW i \in 1 .. Len(r), NEW j \in 1 .. Len(r), i < j
               PROVE  g[i] < g[j]
    OBVIOUS
  <2>1. i \in 1 .. Len(s) /\ j \in 1 .. Len(s) /\ g[i] = f[i] /\ g[j] = f[j]
    BY <1>2, <1>3
  <2> QED
    BY <1>1, <2>1
<1>5. \A i \in 1 .. Len(r) : r[i] = t[g[i]]
  BY <1>1, <1>2, <1>3
<1> QED
  BY <1>3, <1>4, <1>5 DEF Embeds

-----------------------------------------------------------------------------
\* f lists the n numbers of P from the least to the greatest.
Lists(f, n, P) ==
  /\ f \in [1 .. n -> Nat]
  /\ \A i, j \in 1 .. n : i < j => f[i] < f[j]
  /\ P = {f[i] : i \in 1 .. n}

\* s is t without the states that no event is appended for.
Records(s, t) ==
  \E f \in [1 .. Len(s) -> Nat] :
    /\ Lists(f, Len(s), Told(t))
    /\ \A i \in 1 .. Len(s) : s[i] = t[f[i]]

LEMMA RecordsItself ==
  ASSUME NEW S, NEW t \in Seq(S), \A i \in 1 .. Len(t) : t[i] \notin Untold
  PROVE  Records(t, t)
<1>1. PICK n \in Nat : n = Len(t)
  OBVIOUS
<1> DEFINE f == [i \in 1 .. n |-> i]
<1>2. f \in [1 .. n -> Nat] /\ \A i \in 1 .. n : f[i] = i
  OBVIOUS
<1>3. Told(t) = 1 .. n
  BY <1>1 DEF Told
<1> HIDE DEF f
<1>4. Lists(f, n, Told(t))
  BY <1>2, <1>3 DEF Lists
<1>5. \A i \in 1 .. n : t[i] = t[f[i]]
  BY <1>2
<1> QED
  BY <1>1, <1>2, <1>4, <1>5 DEF Records

\* A state stored without an event.
LEMMA RecordsQuietly ==
  ASSUME NEW S, NEW s \in Seq(S), NEW t \in Seq(S), NEW x \in S, Records(s, t),
         x \in Untold
  PROVE  Records(s, Append(t, x))
<1>1. PICK f \in [1 .. Len(s) -> Nat] :
        /\ Lists(f, Len(s), Told(t))
        /\ \A i \in 1 .. Len(s) : s[i] = t[f[i]]
  BY DEF Records
<1>2. PICK n \in Nat : n = Len(t)
  OBVIOUS
<1>3. /\ Append(t, x)[n + 1] = x /\ \A i \in 1 .. n : Append(t, x)[i] = t[i]
      /\ DOMAIN Append(t, x) = 1 .. n + 1 /\ DOMAIN t = 1 .. n
  BY <1>2
<1>4. Told(Append(t, x)) = Told(t) /\ Told(t) \subseteq 1 .. n
  BY <1>3 DEF Told
<1>5. \A i \in 1 .. Len(s) : f[i] \in 1 .. n
  BY <1>1, <1>4 DEF Lists
<1>6. \A i \in 1 .. Len(s) : s[i] = Append(t, x)[f[i]]
  BY <1>1, <1>3, <1>5
<1> QED
  BY <1>1, <1>4, <1>6 DEF Records

\* A state stored with its event.
LEMMA RecordsLonger ==
  ASSUME NEW S, NEW s \in Seq(S), NEW t \in Seq(S), NEW x \in S, Records(s, t),
         x \notin Untold
  PROVE  Records(Append(s, x), Append(t, x))
<1>1. PICK f \in [1 .. Len(s) -> Nat] :
        /\ Lists(f, Len(s), Told(t))
        /\ \A i \in 1 .. Len(s) : s[i] = t[f[i]]
  BY DEF Records
<1>2. PICK m, n \in Nat : m = Len(s) /\ n = Len(t)
  OBVIOUS
<1>3. /\ Append(t, x)[n + 1] = x /\ \A i \in 1 .. n : Append(t, x)[i] = t[i]
      /\ DOMAIN Append(t, x) = 1 .. n + 1 /\ DOMAIN t = 1 .. n
  BY <1>2
<1>4. /\ Len(Append(s, x)) = m + 1 /\ Append(s, x)[m + 1] = x
      /\ \A i \in 1 .. m : Append(s, x)[i] = s[i]
  BY <1>2
<1>5. Told(Append(t, x)) = Told(t) \cup {n + 1} /\ Told(t) \subseteq 1 .. n
  BY <1>3 DEF Told
<1>6. /\ \A i, j \in 1 .. m : i < j => f[i] < f[j]
      /\ \A i \in 1 .. m : f[i] \in 1 .. n
      /\ \A k \in Told(t) : \E i \in 1 .. m : k = f[i]
      /\ \A i \in 1 .. m : f[i] \in Told(t)
  BY <1>1, <1>2, <1>5 DEF Lists
<1> DEFINE g == [i \in 1 .. m + 1 |-> IF i = m + 1 THEN n + 1 ELSE f[i]]
<1>7. \A i \in 1 .. m + 1 : g[i] = IF i = m + 1 THEN n + 1 ELSE f[i]
  OBVIOUS
<1>8. g \in [1 .. m + 1 -> Nat]
  BY <1>6
<1> HIDE DEF g
<1>9. ASSUME NEW i \in 1 .. m + 1
      PROVE  \/ i = m + 1 /\ g[i] = n + 1
             \/ i \in 1 .. m /\ g[i] = f[i] /\ f[i] \in 1 .. n
  BY <1>6, <1>7
<1>10. \A i, j \in 1 .. m + 1 : i < j => g[i] < g[j]
  <2> SUFFICES ASSUME NEW i \in 1 .. m + 1, NEW j \in 1 .. m + 1, i < j
               PROVE  g[i] < g[j]
    OBVIOUS
  <2>1. i \in 1 .. m /\ g[i] = f[i] /\ f[i] \in 1 .. n
    BY <1>9
  <2>2. CASE j = m + 1
    BY <1>7, <2>1, <2>2
  <2>3. CASE j \in 1 .. m /\ g[j] = f[j]
    BY <1>6, <2>1, <2>3
  <2> QED
    BY <1>9, <2>2, <2>3
<1>11. \A i \in 1 .. m + 1 : Append(s, x)[i] = Append(t, x)[g[i]]
  <2> SUFFICES ASSUME NEW i \in 1 .. m + 1
               PROVE  Append(s, x)[i] = Append(t, x)[g[i]]
    OBVIOUS
  <2>1. CASE i = m + 1 /\ g[i] = n + 1
    BY <1>3, <1>4, <2>1
  <2>2. CASE i \in 1 .. m /\ g[i] = f[i] /\ f[i] \in 1 .. n
    BY <1>1, <1>2, <1>3, <1>4, <2>2
  <2> QED
    BY <1>9, <2>1, <2>2
<1>12. Told(t) \cup {n + 1} = {g[i] : i \in 1 .. m + 1}
  <2>1. \A i \in 1 .. m + 1 : g[i] \in Told(t) \cup {n + 1}
    BY <1>6, <1>9
  <2>2. ASSUME NEW k \in Told(t)
        PROVE  \E i \in 1 .. m + 1 : k = g[i]
    <3>1. PICK i \in 1 .. m : k = f[i]
      BY <1>6
    <3>2. i \in 1 .. m + 1 /\ i # m + 1
      OBVIOUS
    <3> QED
      BY <1>7, <3>1, <3>2
  <2>3. m + 1 \in 1 .. m + 1 /\ g[m + 1] = n + 1
    BY <1>7
  <2> QED
    BY <2>1, <2>2, <2>3
<1>13. Lists(g, m + 1, Told(Append(t, x)))
  BY <1>5, <1>8, <1>10, <1>12 DEF Lists
<1> QED
  BY <1>4, <1>8, <1>11, <1>13 DEF Records

-----------------------------------------------------------------------------
\* Counting the places up to one: the i-th of them has rank i.
Ranked(P, i) == CHOOSE k \in P : Cardinality({m \in P : m <= k}) = i

LEMMA Ranks ==
  ASSUME NEW n \in Nat, NEW f, NEW P, Lists(f, n, P)
  PROVE  /\ Cardinality(P) = n
         /\ \A i \in 1 .. n : f[i] = Ranked(P, i)
<1>0. /\ f \in [1 .. n -> Nat] /\ P = {f[i] : i \in 1 .. n}
      /\ \A i, j \in 1 .. n : i < j => f[i] < f[j]
  BY DEF Lists
<1> USE <1>0
<1>1. ASSUME NEW i \in 1 .. n, NEW j \in 1 .. n
      PROVE  f[i] <= f[j] <=> i <= j
  <2>1. f[i] \in Nat /\ f[j] \in Nat
    OBVIOUS
  <2>2. i < j \/ i = j \/ j < i
    OBVIOUS
  <2> QED
    BY <2>1, <2>2
<1>2. ASSUME NEW i \in 0 .. n
      PROVE  Cardinality({f[j] : j \in 1 .. i}) = i
  <2> DEFINE Q == {f[j] : j \in 1 .. i}
             g == [j \in 1 .. i |-> f[j]]
  <2>1. g \in Bijection(1 .. i, Q)
    <3>1. \A j \in 1 .. i : j \in 1 .. n /\ g[j] = f[j]
      OBVIOUS
    <3>2. \A j, k \in 1 .. i : g[j] = g[k] => j = k
      <4> SUFFICES ASSUME NEW j \in 1 .. i, NEW k \in 1 .. i, f[j] = f[k]
                   PROVE  j = k
        BY <3>1
      <4>1. f[j] \in Nat /\ j \in 1 .. n /\ k \in 1 .. n
        BY <3>1
      <4>2. f[j] <= f[k] /\ f[k] <= f[j]
        BY <4>1
      <4> QED
        BY <1>1, <4>1, <4>2
    <3>3. g \in [1 .. i -> Q]
      OBVIOUS
    <3>4. \A q \in Q : \E j \in 1 .. i : g[j] = q
      OBVIOUS
    <3> HIDE DEF g, Q
    <3>5. g \in Injection(1 .. i, Q)
      BY <3>2, <3>3 DEF Injection, IsInjective
    <3>6. g \in Surjection(1 .. i, Q)
      BY <3>3, <3>4 DEF Surjection
    <3> QED
      BY <3>5, <3>6 DEF Bijection
  <2>2. ExistsBijection(1 .. i, Q)
    <3> HIDE DEF g, Q
    <3> QED
      BY <2>1 DEF ExistsBijection
  <2>3. i \in Nat
    OBVIOUS
  <2> HIDE DEF Q
  <2>4. Cardinality(Q) = i
    BY <2>2, <2>3, FS_CountingElements
  <2> QED
    BY <2>4 DEF Q
<1>3. ASSUME NEW i \in 1 .. n
      PROVE  Cardinality({m \in P : m <= f[i]}) = i
  <2>1. ASSUME NEW j \in 1 .. n
        PROVE  f[j] <= f[i] <=> j \in 1 .. i
    BY <1>1
  <2>2. \A j \in 1 .. i : j \in 1 .. n
    OBVIOUS
  <2>3. {m \in P : m <= f[i]} = {f[j] : j \in 1 .. i}
    BY <2>1, <2>2
  <2>4. i \in 0 .. n
    OBVIOUS
  <2>5. Cardinality({f[j] : j \in 1 .. i}) = i
    BY <1>2, <2>4
  <2> QED
    BY <2>3, <2>5
<1>4. ASSUME NEW i \in 1 .. n
      PROVE  f[i] = Ranked(P, i)
  <2>1. f[i] \in P /\ Cardinality({m \in P : m <= f[i]}) = i
    BY <1>3
  <2>2. ASSUME NEW k \in P, Cardinality({m \in P : m <= k}) = i
        PROVE  k = f[i]
    <3>1. PICK j \in 1 .. n : k = f[j]
      OBVIOUS
    <3>2. j = i
      BY <1>3, <2>2, <3>1
    <3> QED
      BY <3>1, <3>2
  <2> QED
    BY <2>1, <2>2 DEF Ranked
<1>5. Cardinality(P) = n
  BY <1>2
<1> QED
  BY <1>4, <1>5

\* A sequence of the elements of t in the places P is Picked(t, P).
LEMMA PickedByPlaces ==
  ASSUME NEW S, NEW s \in Seq(S), NEW t \in Seq(S),
         NEW f, NEW P, Lists(f, Len(s), P),
         \A i \in 1 .. Len(s) : s[i] = t[f[i]]
  PROVE  s = Picked(t, P)
<1>1. PICK n \in Nat : n = Len(s)
  OBVIOUS
<1>2. Cardinality(P) = n /\ \A i \in 1 .. n : f[i] = Ranked(P, i)
  BY <1>1, Ranks
<1>3. s = [i \in 1 .. n |-> s[i]]
  BY <1>1
<1>4. \A i \in 1 .. n : s[i] = t[Ranked(P, i)]
  BY <1>1, <1>2
<1>5. s = [i \in 1 .. Cardinality(P) |-> t[Ranked(P, i)]]
  BY <1>2, <1>3, <1>4
<1> QED
  BY <1>5 DEF Picked, Ranked

LEMMA EmbedsWithin ==
  ASSUME NEW S, NEW s \in Seq(S), NEW t \in Seq(S), Embeds(s, t)
  PROVE  Within(s, t)
<1>1. PICK f \in [1 .. Len(s) -> 1 .. Len(t)] :
        /\ \A i, j \in 1 .. Len(s) : i < j => f[i] < f[j]
        /\ \A i \in 1 .. Len(s) : s[i] = t[f[i]]
  BY DEF Embeds
<1>2. PICK P : P = {f[i] : i \in 1 .. Len(s)}
  OBVIOUS
<1>3. P \in SUBSET DOMAIN t
  BY <1>2
<1>4. Lists(f, Len(s), P)
  <2>1. f \in [1 .. Len(s) -> Nat]
    OBVIOUS
  <2> QED
    BY <1>1, <1>2, <2>1 DEF Lists
<1>5. s = Picked(t, P)
  BY <1>1, <1>4, PickedByPlaces
<1> QED
  BY <1>3, <1>5 DEF Within

LEMMA RecordsPicked ==
  ASSUME NEW S, NEW s \in Seq(S), NEW t \in Seq(S), Records(s, t)
  PROVE  s = Picked(t, Told(t))
<1>1. PICK f \in [1 .. Len(s) -> Nat] :
        /\ Lists(f, Len(s), Told(t))
        /\ \A i \in 1 .. Len(s) : s[i] = t[f[i]]
  BY DEF Records
<1> QED
  BY <1>1, PickedByPlaces

\* Rows without a gap are shown as they are.
LEMMA ShownAsStored ==
  ASSUME NEW S, NEW o \in Orders, events[o] \in Seq(S)
  PROVE  Shown(o) = events[o]
<1> DEFINE P == DOMAIN events[o]
           n == Len(events[o])
           f == [i \in 1 .. n |-> i]
<1>1. n \in Nat /\ P = 1 .. n
  OBVIOUS
<1>2. f \in [1 .. n -> Nat] /\ \A i \in 1 .. n : f[i] = i
  BY <1>1
<1>3. P = {f[i] : i \in 1 .. n}
  BY <1>1
<1>4. events[o] = [i \in 1 .. n |-> events[o][i]]
  OBVIOUS
<1> HIDE DEF f, n, P
<1>5. \A i, j \in 1 .. n : i < j => f[i] < f[j]
  BY <1>2
<1>6. Lists(f, n, P)
  BY <1>2, <1>3, <1>5 DEF Lists
<1>7. Cardinality(P) = n /\ \A i \in 1 .. n : f[i] = Ranked(P, i)
  BY <1>1, <1>6, Ranks
<1>8. Shown(o) = [i \in 1 .. Cardinality(P) |-> events[o][Ranked(P, i)]]
  BY DEF Shown, Picked, P, Ranked
<1> QED
  BY <1>2, <1>4, <1>7, <1>8

-----------------------------------------------------------------------------
\* The events c tell the history p of order o: all of the states told unless
\* a statement about the order ever failed.
Tells(c, p, o, failed) ==
  /\ c \in Seq(States) /\ Embeds(c, p)
  /\ o \notin failed => Records(c, p)

\* A handler at work has read the events, and added what it decided.
CopyHeld(w) ==
  Synced(w) =>
    /\ job[w].pc = "loaded" =>
         Tells(copy[w], past[job[w].id], job[w].id, frayed)
    /\ job[w].pc = "storing" =>
         IF job[w].row.state \in Untold
         THEN Tells(copy[w], past[job[w].id], job[w].id, frayed)
         ELSE \E c : /\ Tells(c, past[job[w].id], job[w].id, frayed)
                     /\ copy[w] = Append(c, job[w].row.state)

\* A worker that has written order o and is to replace its rows.
Replacing(w, o) ==
  /\ Exists(o) /\ job[w].pc \in {"idle", "releasing", "auditing"}
  /\ Tells(copy[w], past[o], o, frayed)

\* How far it has come: the first n rows are in the table, and they are the
\* first n of its copy.
Replaced(w, o, n) ==
  /\ Len(events[o]) = n /\ n < Len(copy[w])
  /\ \A i \in 1 .. n : events[o][i] = copy[w][i]

SyncHeld(w) ==
  \/ sync[w] = Ready
  \/ \E o \in Orders :
       \/ sync[w] = Read(o) /\ job[w].pc = "loaded" /\ job[w].id = o
       \/ sync[w] = Delete(o) /\ Replacing(w, o)
       \/ \E n \in Nat : sync[w] = Insert(o, n + 1) /\ Replacing(w, o) /\ Replaced(w, o, n)

\* No worker is in the middle of replacing the rows of order o.
Undisturbed(o) ==
  \A w \in Workers : sync[w].do \in {"delete", "insert"} => sync[w].id # o

RowsHeld(o) ==
  /\ events[o] \in Seq(States) /\ past[o] \in Seq(States)
  /\ Embeds(events[o], past[o])
  /\ ~Exists(o) => events[o] = << >>
  /\ o \notin frayed /\ Undisturbed(o) => Records(events[o], past[o])

Statement == [do : {"none", "read", "delete", "insert"},
              id : Orders \cup {"none"}, place : Nat]

TableType ==
  /\ events \in [Orders -> Seq(States)] /\ past \in [Orders -> Seq(States)]
  /\ copy \in [Workers -> Seq(States)] /\ sync \in [Workers -> Statement]

PostgresInv ==
  /\ TableType
  /\ \A w \in Workers : CopyHeld(w) /\ SyncHeld(w)
  /\ \A o \in Orders : RowsHeld(o)

\* An idle worker holds nothing of the request before.
IdleJobs == \A w \in Workers : job[w].pc = "idle" => job[w] = Idle

-----------------------------------------------------------------------------
(* Every step of this module is a step of BookingService.                  *)

LEMMA IdleStep ==
  ASSUME TypeOK, IdleJobs, [Next]_vars
  PROVE  IdleJobs'
<1>1. CASE Quiet
  BY <1>1 DEF Quiet, IdleJobs
<1>2. ASSUME NEW w \in Workers, NEW j \in Job, job' = [job EXCEPT ![w] = j],
             Does(w, j)
      PROVE  IdleJobs'
  <2>1. j.pc = "idle" => j = Idle
    BY <1>2 DEF Does, Ordering, Numbering, Inserting, Ending, Loading, Deciding,
                Storing, Releasing, Auditing, AfterStore
  <2> QED
    BY <1>2, <2>1 DEF IdleJobs, TypeOK
<1> QED
  BY <1>1, <1>2, StepShape

LEMMA ServiceStep ==
  ASSUME TypeOK, IdleJobs, Store = "postgres", [PNext]_allVars
  PROVE  [Next]_vars
<1> USE DEF vars
<1>1. CASE UNCHANGED allVars
  BY <1>1 DEF allVars
<1>2. CASE Tick \/ Rest
  BY <1>2 DEF Next
<1>3. ASSUME NEW w \in Workers, PStart(w)
      PROVE  Next
  BY <1>3 DEF PStart, Next
<1>4. ASSUME NEW w \in Workers, NEW h \in Handlers, NEW o \in Orders, PLoad(w, h, o)
      PROVE  Next
  BY <1>4 DEF PLoad, Next
<1>5. ASSUME NEW w \in Workers, PServe(w)
      PROVE  [Next]_vars
  <2>1. Serve(w) => Next
    BY DEF Next
  <2>2. ASSUME NEW failed \in BOOLEAN, PReadEvents(w, failed)
        PROVE  UNCHANGED vars
    BY <2>2 DEF PReadEvents
  <2>3. CASE PTransition(w)
    BY <2>3, <2>1 DEF PTransition, Serve
  <2>4. CASE PSetState(w)
    BY <2>4, <2>1 DEF PSetState, Serve
  <2>5. CASE PInsert(w)
    BY <2>5, <2>1 DEF PInsert, Serve
  <2>6. CASE PStore(w)
    BY <2>6, <2>1 DEF PStore, Serve
  <2>7. CASE PDeleteEvents(w)
    BY <2>7 DEF PDeleteEvents
  <2>8. CASE PInsertEvent(w)
    <3>1. \/ UNCHANGED vars
          \/ Answer(w) /\ UNCHANGED <<orders, booked, now, audited, served>>
      BY <2>8 DEF PInsertEvent
    <3>2. CASE Answer(w) /\ UNCHANGED <<orders, booked, now, audited, served>>
      <4>1. CASE job[w].pc = "idle"
        <5>1. job' = job
          BY <3>2, <4>1 DEF Answer, IdleJobs, TypeOK
        <5> QED
          BY <3>2, <5>1
      <4>2. CASE job[w].pc # "idle"
        BY <2>1, <3>2, <4>2 DEF Abort, Serve
      <4> QED
        BY <4>1, <4>2
    <3> QED
      BY <3>1, <3>2
  <2>9. CASE PRest(w)
    BY <2>9, <2>1 DEF PRest, Serve
  <2>10. CASE PAbort(w)
    BY <2>10, <2>1 DEF PAbort, Serve
  <2> QED
    BY <1>5, <2>2, <2>3, <2>4, <2>5, <2>6, <2>7, <2>8, <2>9, <2>10 DEF PServe
<1> QED
  BY <1>1, <1>2, <1>3, <1>4, <1>5 DEF PNext

\* With its timelines in a table of their own, rewritten statement by
\* statement and given up anywhere, the store is still the one that
\* BookingService is about: no statement on order_events touches the rest.
THEOREM PostgresRunsService == Store = "postgres" /\ PSpec => Spec
<1> SUFFICES ASSUME Store = "postgres"
             PROVE  PSpec => Spec
  OBVIOUS
<1>1. PInit => Init /\ TypeOK /\ IdleJobs
  BY InitType DEF PInit, Init, IdleJobs
<1>2. TypeOK /\ IdleJobs /\ [PNext]_allVars => [Next]_vars
  BY ServiceStep
<1>3. TypeOK /\ IdleJobs /\ [Next]_vars => (TypeOK /\ IdleJobs)'
  BY IdleStep, TypeStep
<1> QED
  BY <1>1, <1>2, <1>3, PTL DEF PSpec, Spec

-----------------------------------------------------------------------------
\* A row in the place behind the last one.
LEMMA RowAdded ==
  ASSUME NEW S, NEW s \in Seq(S), NEW x \in S, NEW n, n = Len(s) + 1
  PROVE  /\ [i \in DOMAIN s \cup {n} |-> IF i = n THEN x ELSE s[i]] = Append(s, x)
         /\ n \notin DOMAIN s
<1> DEFINE t == [i \in DOMAIN s \cup {n} |-> IF i = n THEN x ELSE s[i]]
<1>1. DOMAIN s = 1 .. Len(s) /\ Len(s) \in Nat
  OBVIOUS
<1>2. DOMAIN s \cup {n} = 1 .. n
  BY <1>1
<1>3. t \in Seq(S) /\ Len(t) = n
  <2>1. n \in Nat /\ \A i \in 1 .. n : t[i] \in S
    BY <1>1, <1>2
  <2>2. t \in [1 .. n -> S]
    BY <1>2, <2>1
  <2>3. \A m \in Nat : \A f \in [1 .. m -> S] : f \in Seq(S) /\ Len(f) = m
    OBVIOUS
  <2> HIDE DEF t
  <2> QED
    BY <2>1, <2>2, <2>3
<1>4. Append(s, x) \in Seq(S) /\ Len(Append(s, x)) = n
  OBVIOUS
<1>5. \A i \in 1 .. n : t[i] = Append(s, x)[i]
  BY <1>1, <1>2
<1> HIDE DEF t
<1>6. t = Append(s, x)
  BY <1>3, <1>4, <1>5
<1> QED
  BY <1>1, <1>6 DEF t

-----------------------------------------------------------------------------
(* Each step keeps PostgresInv.                                            *)

\* The statements, told apart.
LEMMA Statements ==
  ASSUME NEW o \in Orders, NEW n \in Nat
  PROVE  /\ Ready \in Statement /\ Read(o) \in Statement
         /\ Delete(o) \in Statement /\ Insert(o, n) \in Statement
         /\ Ready.do = "none" /\ Read(o).do = "read" /\ Read(o).id = o
         /\ Delete(o).do = "delete" /\ Delete(o).id = o
         /\ Insert(o, n).do = "insert" /\ Insert(o, n).id = o /\ Insert(o, n).place = n
  BY DEF Ready, Read, Delete, Insert, Statement

LEMMA ReadyIs == Ready \in Statement /\ Ready.do = "none"
  BY DEF Ready, Statement

\* What a worker has left to do, by its statement.
LEMMA SyncCases ==
  ASSUME PostgresInv, NEW w \in Workers
  PROVE  /\ Synced(w) <=> sync[w].do = "none"
         /\ sync[w].do \in {"none", "read", "delete", "insert"}
         /\ sync[w].do # "none" => sync[w].id \in Orders
         /\ sync[w].do = "read" => job[w].pc = "loaded" /\ job[w].id = sync[w].id
         /\ sync[w].do \in {"delete", "insert"} => Replacing(w, sync[w].id)
         /\ sync[w].do = "insert" =>
              \E n \in Nat : sync[w].place = n + 1 /\ Replaced(w, sync[w].id, n)
<1>1. SyncHeld(w)
  BY DEF PostgresInv
<1>2. CASE sync[w] = Ready
  BY <1>2, ReadyIs DEF Synced
<1>3. ASSUME NEW o \in Orders, sync[w] = Read(o), job[w].pc = "loaded", job[w].id = o
      PROVE  sync[w].do = "read" /\ job[w].id = sync[w].id /\ sync[w].id \in Orders
  BY <1>3, Statements
<1>4. ASSUME NEW o \in Orders, sync[w] = Delete(o), Replacing(w, o)
      PROVE  sync[w].do = "delete" /\ sync[w].id = o
  BY <1>4, Statements
<1>5. ASSUME NEW o \in Orders, NEW n \in Nat, sync[w] = Insert(o, n + 1)
      PROVE  sync[w].do = "insert" /\ sync[w].id = o /\ sync[w].place = n + 1
  <2>1. n + 1 \in Nat
    OBVIOUS
  <2> QED
    BY <1>5, <2>1, Statements
<1>6. sync[w].do # "none" => ~Synced(w)
  BY ReadyIs DEF Synced
<1>7. CASE \E o \in Orders : sync[w] = Read(o) /\ job[w].pc = "loaded" /\ job[w].id = o
  BY <1>3, <1>6, <1>7
<1>8. CASE \E o \in Orders : sync[w] = Delete(o) /\ Replacing(w, o)
  BY <1>4, <1>6, <1>8
<1>9. CASE \E o \in Orders : \E n \in Nat :
             sync[w] = Insert(o, n + 1) /\ Replacing(w, o) /\ Replaced(w, o, n)
  BY <1>5, <1>6, <1>9
<1> QED
  BY <1>1, <1>2, <1>7, <1>8, <1>9 DEF SyncHeld

\* The rows of an order that a step is not about.
LEMMA RowsKept ==
  ASSUME NEW o \in Orders, RowsHeld(o), events'[o] = events[o], past'[o] = past[o],
         o \in frayed => o \in frayed', Exists(o)' <=> Exists(o),
         o \notin frayed' /\ Undisturbed(o)' => Undisturbed(o)
  PROVE  RowsHeld(o)'
  BY DEF RowsHeld

\* With one worker, nothing is disturbed but what it is replacing.
LEMMA OneDisturbs ==
  ASSUME OneAtATime, NEW w \in Workers, NEW o \in Orders
  PROVE  /\ Undisturbed(o) <=> (sync[w].do \in {"delete", "insert"} => sync[w].id # o)
         /\ Undisturbed(o)' <=> (sync'[w].do \in {"delete", "insert"} => sync'[w].id # o)
  BY DEF OneAtATime, Undisturbed

\* The rows stay as they are while a request does not write.
LEMMA QuietRows ==
  ASSUME OneAtATime, PostgresInv, NEW w \in Workers,
         sync[w].do \notin {"delete", "insert"},
         UNCHANGED <<orders, events, past>>, frayed \subseteq frayed'
  PROVE  \A o \in Orders : RowsHeld(o)'
  BY OneDisturbs, RowsKept DEF PostgresInv, Exists

\* With one worker the invariant is about that worker and the rows.
LEMMA OneInv ==
  ASSUME OneAtATime, NEW w \in Workers, TableType', CopyHeld(w)', SyncHeld(w)',
         \A o \in Orders : RowsHeld(o)'
  PROVE  PostgresInv'
  BY DEF OneAtATime, PostgresInv

\* A worker that holds no copy, and has nothing to do on the table.
LEMMA FreeWorker ==
  ASSUME NEW w \in Workers, sync'[w] = Ready, job'[w].pc \notin {"loaded", "storing"}
  PROVE  CopyHeld(w)' /\ SyncHeld(w)'
  BY DEF CopyHeld, SyncHeld

-----------------------------------------------------------------------------
LEMMA StartRows ==
  ASSUME TypeOK, OneAtATime, PostgresInv, NEW w \in Workers, PStart(w)
  PROVE  PostgresInv'
<1>1. PICK j \in Job : job' = [job EXCEPT ![w] = j] /\ Ordering(w, j)
  BY OrderingShape DEF PStart
<1>2. UNCHANGED <<orders, events, copy, sync, past, frayed>> /\ sync[w] = Ready
  BY <1>1 DEF PStart, pVars, Synced, Ordering
<1>3. job'[w].pc = "counting"
  BY <1>1 DEF Ordering, TypeOK
<1>4. TableType'
  BY <1>2 DEF PostgresInv, TableType
<1> QED
  BY <1>2, <1>3, <1>4, ReadyIs, QuietRows, FreeWorker, OneInv

LEMMA RestRows ==
  ASSUME TypeOK, OneAtATime, PostgresInv, NEW w \in Workers, PRest(w)
  PROVE  PostgresInv'
<1>1. job'[w].pc \notin {"loaded", "storing"} /\ UNCHANGED orders
  <2>1. CASE CountOrders(w)
    BY <2>1, NumberingShape DEF Numbering, TypeOK
  <2>2. CASE ReleaseSeat(w)
    BY <2>2, ReleasingShape DEF Releasing, TypeOK
  <2>3. CASE Refuse(w) \/ AppendAudit(w)
    BY <2>3 DEF Refuse, AppendAudit, Answer, Idle, TypeOK
  <2> QED
    BY <2>1, <2>2, <2>3 DEF PRest
<1>2. UNCHANGED <<events, sync, past, frayed>> /\ sync[w] = Ready
  BY DEF PRest, Synced
<1>3. TableType'
  <2>1. << >> \in Seq(States) /\ copy' = [copy EXCEPT ![w] = << >>]
    BY DEF PRest
  <2> QED
    BY <1>2, <2>1 DEF PostgresInv, TableType
<1> QED
  BY <1>1, <1>2, <1>3, ReadyIs, QuietRows, FreeWorker, OneInv

LEMMA LoadRows ==
  ASSUME TypeOK, OneAtATime, PostgresInv, NEW w \in Workers, NEW h \in Handlers,
         NEW o \in Orders, PLoad(w, h, o)
  PROVE  PostgresInv'
<1>1. /\ UNCHANGED <<orders, events, copy, past, frayed>>
      /\ sync[w] = Ready /\ sync' = [sync EXCEPT ![w] = Read(o)]
  BY DEF PLoad, Synced, Follow, Load
<1>2. job'[w].pc = "loaded" /\ job'[w].id = o
  BY DEF PLoad, Load, Idle, TypeOK
<1>3. TableType' /\ sync'[w] = Read(o)
  BY <1>1, Statements DEF PostgresInv, TableType
<1>4. CopyHeld(w)' /\ SyncHeld(w)'
  BY <1>2, <1>3, Statements, ReadyIs DEF CopyHeld, SyncHeld, Synced
<1> QED
  BY <1>1, <1>3, <1>4, ReadyIs, QuietRows, OneInv

\* The rows of an order that nobody is replacing tell its history.
LEMMA RowsTell ==
  ASSUME NEW o \in Orders, RowsHeld(o), Undisturbed(o)
  PROVE  Tells(events[o], past[o], o, frayed)
  BY DEF RowsHeld, Tells

LEMMA ReadRows ==
  ASSUME TypeOK, OneAtATime, PostgresInv, NEW w \in Workers, NEW failed \in BOOLEAN,
         PReadEvents(w, failed)
  PROVE  PostgresInv'
<1> DEFINE o == sync[w].id
<1>1. o \in Orders /\ job[w].pc = "loaded" /\ job[w].id = o
  BY SyncCases DEF PReadEvents
<1>2. /\ UNCHANGED <<orders, job, events, past>> /\ sync[w].do = "read"
      /\ sync' = [sync EXCEPT ![w] = Ready] /\ frayed \subseteq frayed'
  BY DEF PReadEvents, Follow, vars
<1>3. \E c \in Seq(States) : /\ copy' = [copy EXCEPT ![w] = c]
                             /\ Tells(c, past[o], o, frayed')
  <2>1. CASE failed
    <3>1. << >> \in Seq(States) /\ Embeds(<< >>, past[o])
      BY EmptyEmbeds
    <3>2. copy' = [copy EXCEPT ![w] = << >>] /\ o \in frayed'
      BY <2>1 DEF PReadEvents
    <3> QED
      BY <3>1, <3>2 DEF Tells
  <2>2. CASE ~failed
    <3>1. RowsHeld(o) /\ Undisturbed(o)
      BY <1>1, <1>2, OneDisturbs DEF PostgresInv
    <3>2. Tells(events[o], past[o], o, frayed)
      BY <1>1, <3>1, RowsTell
    <3>3. events[o] \in Seq(States) /\ Shown(o) = events[o]
      BY <1>1, <3>1, ShownAsStored DEF RowsHeld
    <3>4. copy' = [copy EXCEPT ![w] = events[o]] /\ frayed' = frayed
      BY <2>2, <3>3 DEF PReadEvents
    <3> QED
      BY <3>2, <3>3, <3>4
  <2> QED
    BY <2>1, <2>2
<1>4. PICK c \in Seq(States) : /\ copy' = [copy EXCEPT ![w] = c]
                               /\ Tells(c, past[o], o, frayed')
  BY <1>3
<1>5. TableType' /\ sync'[w] = Ready /\ copy'[w] = c
  BY <1>2, <1>4, ReadyIs DEF PostgresInv, TableType
<1>6. SyncHeld(w)'
  BY <1>5 DEF SyncHeld
<1>7. CopyHeld(w)'
  <2>1. job'[w].pc = "loaded" /\ job'[w].id = o /\ past' = past
    BY <1>1, <1>2
  <2>2. Tells(copy'[w], past'[job'[w].id], job'[w].id, frayed')
    BY <1>4, <1>5, <2>1
  <2> QED
    BY <2>1, <2>2 DEF CopyHeld
<1> QED
  BY <1>2, <1>5, <1>6, <1>7, QuietRows, OneInv

LEMMA TransitionRows ==
  ASSUME TypeOK, OneAtATime, PostgresInv, NEW w \in Workers, PTransition(w)
  PROVE  PostgresInv'
<1>1. PICK j \in Job : job' = [job EXCEPT ![w] = j] /\ Deciding(w, j)
  BY DecidingShape DEF PTransition
<1>2. /\ UNCHANGED <<orders, events, sync, past, frayed>> /\ sync[w] = Ready
      /\ job'[w] = j
  BY <1>1 DEF PTransition, Synced, Deciding, TypeOK
<1>3. /\ j.row.state # "pending_approval"
      /\ copy' = [copy EXCEPT ![w] = Append(copy[w], j.row.state)]
  BY <1>2 DEF PTransition, AppendEvent, PostgresInv, TableType
<1>4. job[w].handler # "assign"
  BY DEF PTransition, DecideReschedule, DecideCancel, DecideComplete,
         DecideRequestRefund, DecideApproveRefund, DecideRollback, At
<1>5. j.row.state \in States \ Untold
  BY <1>1, <1>3, <1>4 DEF Deciding, Accepted, States, Untold
<1>6. copy[w] \in Seq(States) /\ copy'[w] = Append(copy[w], j.row.state)
  BY <1>3 DEF PostgresInv, TableType
<1>7. TableType'
  BY <1>2, <1>3, <1>5, <1>6 DEF PostgresInv, TableType
<1>8. CopyHeld(w)'
  <2>1. /\ job[w].pc = "loaded" /\ j.id = job[w].id /\ j.pc = "storing"
        /\ Synced(w) /\ CopyHeld(w)
    BY <1>1, <1>2 DEF Deciding, Synced, PostgresInv
  <2>2. Tells(copy[w], past[j.id], j.id, frayed)
    BY <2>1 DEF CopyHeld
  <2> QED
    BY <1>2, <1>5, <1>6, <2>1, <2>2 DEF CopyHeld
<1>9. SyncHeld(w)'
  BY <1>2 DEF SyncHeld
<1> QED
  BY <1>2, <1>7, <1>8, <1>9, ReadyIs, QuietRows, OneInv

LEMMA SetStateRows ==
  ASSUME TypeOK, OneAtATime, PostgresInv, NEW w \in Workers, PSetState(w)
  PROVE  PostgresInv'
<1>1. PICK j \in Job : job' = [job EXCEPT ![w] = j] /\ Deciding(w, j)
  BY DecidingShape DEF PSetState
<1>2. /\ UNCHANGED <<orders, events, copy, sync, past, frayed>> /\ sync[w] = Ready
      /\ job'[w] = j
  BY <1>1 DEF PSetState, pVars, Synced, Deciding, TypeOK
<1>3. j.row.state \in Untold
  BY <1>2 DEF PSetState, Untold
<1>4. TableType'
  BY <1>2 DEF PostgresInv, TableType
<1>5. CopyHeld(w)'
  <2>1. /\ job[w].pc = "loaded" /\ j.id = job[w].id /\ j.pc = "storing"
        /\ Synced(w) /\ CopyHeld(w)
    BY <1>1, <1>2 DEF Deciding, Synced, PostgresInv
  <2>2. Tells(copy[w], past[j.id], j.id, frayed)
    BY <2>1 DEF CopyHeld
  <2> QED
    BY <1>2, <1>3, <2>1, <2>2 DEF CopyHeld
<1>6. SyncHeld(w)'
  BY <1>2 DEF SyncHeld
<1> QED
  BY <1>2, <1>4, <1>5, <1>6, ReadyIs, QuietRows, OneInv

-----------------------------------------------------------------------------
\* A worker that is to replace the rows of o, which it has written, from the
\* first one.
LEMMA Rewrites ==
  ASSUME NEW w \in Workers, NEW o \in Orders, sync'[w] = Delete(o), Exists(o)',
         job'[w].pc \in {"idle", "releasing", "auditing"},
         Tells(copy'[w], past'[o], o, frayed')
  PROVE  CopyHeld(w)' /\ SyncHeld(w)'
<1>1. sync'[w] # Ready
  BY Statements, ReadyIs
<1>2. CopyHeld(w)'
  BY <1>1 DEF CopyHeld, Synced
<1>3. Replacing(w, o)'
  BY DEF Replacing
<1> QED
  BY <1>2, <1>3 DEF SyncHeld

LEMMA InsertRows ==
  ASSUME TypeOK, OneAtATime, PostgresInv, NEW w \in Workers, PInsert(w)
  PROVE  PostgresInv'
<1>1. PICK j \in Job : /\ job' = [job EXCEPT ![w] = j]
                       /\ \/ Ending(w, j)
                          \/ \E o \in Orders : \E row \in Row : Inserting(w, j, o, row)
  BY InsertingShape DEF PInsert
<1>2. job[w].pc = "inserting" /\ job'[w] = j
  BY <1>1 DEF PInsert, InsertOrder, TypeOK
<1>3. sync[w].do = "none" /\ sync[w] = Ready
  BY <1>2, SyncCases DEF Synced, Replacing
<1>4. UNCHANGED <<events, frayed>>
  BY DEF PInsert
<1>5. CASE Ending(w, j)
  <2>1. UNCHANGED <<orders, copy, sync, past>> /\ j = Idle
    BY <1>5 DEF Ending, PInsert
  <2>2. TableType' /\ job'[w].pc = "idle"
    BY <1>2, <1>4, <2>1 DEF PostgresInv, TableType, Idle
  <2> QED
    BY <1>3, <1>4, <2>1, <2>2, QuietRows, FreeWorker, OneInv
<1>6. ASSUME NEW o \in Orders, NEW row \in Row, Inserting(w, j, o, row)
      PROVE  PostgresInv'
  <2> DEFINE t == NewTimeline(w)
  <2>1. /\ orders' = [orders EXCEPT ![o] = row] /\ row.state # "absent"
        /\ ~Exists(o) /\ j.id = o /\ j.pc = "auditing"
    BY <1>6 DEF Inserting
  <2>2. orders'[o] = row /\ \A p \in Orders : p # o => orders'[p] = orders[p]
    BY <2>1 DEF TypeOK
  <2>3. orders' # orders
    BY <2>1, <2>2 DEF Exists
  <2>4. /\ copy' = [copy EXCEPT ![w] = t] /\ past' = [past EXCEPT ![o] = t]
        /\ sync' = [sync EXCEPT ![w] = Delete(o)]
    BY <1>2, <2>1, <2>3 DEF PInsert, Follow
  <2>5. t \in Seq(States)
    <3>1. "created" \in States /\ "confirmed" \in States
      BY DEF States
    <3>2. <<"created">> \in Seq(States) /\ <<"created", "confirmed">> \in Seq(States)
      BY <3>1
    <3> QED
      BY <3>2 DEF NewTimeline
  <2>6. Records(t, t)
    <3>1. t \in {<<"created">>, <<"created", "confirmed">>}
      BY DEF NewTimeline
    <3>2. \A i \in 1 .. Len(t) : t[i] \in {"created", "confirmed"}
      <4>1. \A i \in 1 .. Len(<<"created">>) : <<"created">>[i] = "created"
        OBVIOUS
      <4>2. \A i \in 1 .. Len(<<"created", "confirmed">>) :
              <<"created", "confirmed">>[i] \in {"created", "confirmed"}
        OBVIOUS
      <4> HIDE DEF t
      <4> QED
        BY <3>1, <4>1, <4>2
    <3> HIDE DEF t
    <3> QED
      BY <2>5, <3>2, RecordsItself DEF Untold
  <2> HIDE DEF t
  <2>7. TableType' /\ sync'[w] = Delete(o) /\ copy'[w] = t /\ past'[o] = t
        /\ \A p \in Orders : p # o => past'[p] = past[p]
    BY <1>4, <2>4, <2>5, Statements DEF PostgresInv, TableType
  <2>8. Embeds(t, t) /\ Embeds(<< >>, t)
    BY <2>5, EmbedsItself, EmptyEmbeds
  <2>9. CopyHeld(w)' /\ SyncHeld(w)'
    <3>1. Tells(copy'[w], past'[o], o, frayed')
      BY <2>5, <2>7, <2>8, <2>6 DEF Tells
    <3>2. Exists(o)'
      BY <2>1, <2>2 DEF Exists
    <3> QED
      BY <1>2, <2>1, <2>7, <3>1, <3>2, Rewrites
  <2>10. RowsHeld(o)'
    <3>1. events'[o] = << >> /\ << >> \in Seq(States)
      BY <1>4, <2>1 DEF PostgresInv, RowsHeld
    <3>2. ~Undisturbed(o)'
      BY <2>7, Statements, OneDisturbs
    <3> QED
      BY <2>5, <2>7, <2>8, <3>1, <3>2 DEF RowsHeld
  <2>11. ASSUME NEW p \in Orders, p # o
         PROVE  RowsHeld(p)'
    <3>1. Undisturbed(p)
      BY <1>3, OneDisturbs
    <3>2. Exists(p)' <=> Exists(p)
      BY <2>2, <2>11 DEF Exists
    <3> QED
      BY <1>4, <2>7, <2>11, <3>1, <3>2, RowsKept DEF PostgresInv
  <2> QED
    BY <2>7, <2>9, <2>10, <2>11, OneInv
<1> QED
  BY <1>1, <1>5, <1>6

LEMMA StoreRows ==
  ASSUME TypeOK, OneAtATime, CurrentCopy, PostgresInv, NEW w \in Workers, PStore(w)
  PROVE  PostgresInv'
<1>1. PICK j \in Job : job' = [job EXCEPT ![w] = j] /\ Storing(w, j)
  BY StoringShape DEF PStore
<1>2. PICK o, row : o = job[w].id /\ row = job[w].row
  OBVIOUS
<1>3. /\ job[w].pc = "storing" /\ job'[w] = j
      /\ o \in Orders /\ Exists(o) /\ row \in Row /\ row.state # "absent"
  <2>1. job[w].pc = "storing" /\ job'[w] = j /\ InStep(job[w]) /\ row \in Row
    BY <1>1, <1>2 DEF Storing, CurrentCopy, TypeOK, Job
  <2>2. row.state # "absent"
    BY <1>2, <2>1, AcceptedExists DEF InStep
  <2> QED
    BY <1>2, <2>1, <2>2 DEF InStep
<1>4. orders'[o] = row /\ \A p \in Orders : p # o => orders'[p] = orders[p]
  BY <1>1, <1>2, <1>3 DEF Storing, TypeOK
<1>5. j.pc \in {"idle", "releasing", "auditing"}
  BY <1>1 DEF Storing, AfterStore, Idle
<1>6. /\ UNCHANGED <<events, copy, frayed>> /\ sync[w] = Ready /\ Synced(w)
      /\ sync' = [sync EXCEPT ![w] = Delete(o)]
      /\ past' = [past EXCEPT ![o] = Append(past[o], row.state)]
  BY <1>2 DEF PStore, Synced, Follow, PostgresInv, TableType
<1>7. PICK p : p = past[o]
  OBVIOUS
<1>8. p \in Seq(States) /\ Embeds(events[o], p) /\ events[o] \in Seq(States)
  BY <1>3, <1>7 DEF PostgresInv, RowsHeld
<1>9. row.state \in States
  BY <1>3 DEF Row
<1>10. /\ past'[o] \in Seq(States) /\ Embeds(events[o], past'[o])
       /\ Tells(copy[w], past'[o], o, frayed)
  <2>1. CopyHeld(w)
    BY DEF PostgresInv
  <2>2. past'[o] = Append(p, row.state) /\ past'[o] \in Seq(States)
    BY <1>3, <1>6, <1>7, <1>8, <1>9 DEF PostgresInv, TableType
  <2>3. Embeds(events[o], past'[o])
    BY <1>8, <1>9, <2>2, EmbedsLonger
  <2>4. CASE row.state \in Untold
    <3>1. Tells(copy[w], p, o, frayed)
      BY <1>2, <1>3, <1>6, <1>7, <2>1, <2>4 DEF CopyHeld
    <3>2. /\ copy[w] \in Seq(States) /\ Embeds(copy[w], p)
          /\ o \notin frayed => Records(copy[w], p)
      BY <3>1 DEF Tells
    <3>3. Embeds(copy[w], past'[o])
      BY <1>8, <1>9, <2>2, <3>2, EmbedsLonger
    <3>4. o \notin frayed => Records(copy[w], past'[o])
      BY <1>8, <1>9, <2>4, <2>2, <3>2, RecordsQuietly
    <3> QED
      BY <2>2, <2>3, <3>2, <3>3, <3>4 DEF Tells
  <2>5. CASE row.state \notin Untold
    <3>2. PICK c : Tells(c, p, o, frayed) /\ copy[w] = Append(c, row.state)
      BY <1>2, <1>3, <1>6, <1>7, <2>1, <2>5 DEF CopyHeld
    <3>3. c \in Seq(States) /\ Embeds(c, p) /\ (o \notin frayed => Records(c, p))
      BY <3>2 DEF Tells
    <3>4. Embeds(copy[w], past'[o])
      BY <1>8, <1>9, <2>2, <3>2, <3>3, EmbedsLonger
    <3>5. o \notin frayed => Records(copy[w], past'[o])
      BY <1>8, <1>9, <2>5, <2>2, <3>2, <3>3, RecordsLonger
    <3>6. copy[w] \in Seq(States)
      BY <1>9, <3>2, <3>3
    <3> QED
      BY <2>2, <2>3, <3>4, <3>5, <3>6 DEF Tells
  <2> QED
    BY <2>4, <2>5
<1>11. TableType' /\ sync'[w] = Delete(o) /\ \A q \in Orders : q # o => past'[q] = past[q]
  BY <1>3, <1>6, <1>10, Statements DEF PostgresInv, TableType
<1>12. Exists(o)'
  BY <1>3, <1>4 DEF Exists
<1>13. CopyHeld(w)' /\ SyncHeld(w)'
  BY <1>3, <1>5, <1>6, <1>10, <1>11, <1>12, Rewrites
<1>14. RowsHeld(o)'
  <2>1. ~Undisturbed(o)'
    BY <1>3, <1>11, Statements, OneDisturbs
  <2> QED
    BY <1>6, <1>8, <1>10, <1>12, <2>1 DEF RowsHeld
<1>15. ASSUME NEW q \in Orders, q # o
       PROVE  RowsHeld(q)'
  <2>1. Undisturbed(q)
    BY <1>6, ReadyIs, OneDisturbs
  <2>2. Exists(q)' <=> Exists(q)
    BY <1>4, <1>15 DEF Exists
  <2> QED
    BY <1>6, <1>11, <1>15, <2>1, <2>2, RowsKept DEF PostgresInv
<1> QED
  BY <1>11, <1>13, <1>14, <1>15, OneInv

\* What is left of the copy of order o once the first n rows are in the table:
\* another row, or nothing and the table tells the history again.
LEMMA Continues ==
  ASSUME OneAtATime, PostgresInv, NEW w \in Workers, NEW o \in Orders, NEW n \in Nat,
         Replacing(w, o), sync[w].do \in {"delete", "insert"}, sync[w].id = o,
         UNCHANGED <<vars, copy, past, frayed>>,
         sync' = [sync EXCEPT ![w] = From(w, n + 1)],
         events' \in [Orders -> Seq(States)],
         \A p \in Orders : p # o => events'[p] = events[p],
         Len(events'[o]) = n, n <= Len(copy[w]),
         \A i \in 1 .. n : events'[o][i] = copy[w][i]
  PROVE  PostgresInv'
<1>1. UNCHANGED <<orders, job>>
  BY DEF vars
<1>2. PICK r, c, p : r = events'[o] /\ c = copy[w] /\ p = past[o]
  OBVIOUS
<1>3. /\ r \in Seq(States) /\ p \in Seq(States) /\ c \in Seq(States) /\ Embeds(c, p)
      /\ o \notin frayed => Records(c, p)
  BY <1>2 DEF Replacing, Tells, PostgresInv, RowsHeld
<1>4. Embeds(r, p)
  BY <1>2, <1>3, EmbedsShorter
<1>5. Exists(o)' /\ \A q \in Orders : Exists(q)' <=> Exists(q)
  BY <1>1 DEF Exists, Replacing
<1>6. sync'[w] = IF n + 1 <= Len(c) THEN Insert(o, n + 1) ELSE Ready
  BY <1>2 DEF From, PostgresInv, TableType
<1>7. Insert(o, n + 1) \in Statement
  BY Statements
<1>8. TableType'
  BY <1>6, <1>7, ReadyIs DEF PostgresInv, TableType
<1>9. Replacing(w, o)'
  BY <1>1 DEF Replacing, Exists
<1>10. ASSUME NEW q \in Orders, q # o
       PROVE  RowsHeld(q)'
  <2>1. Undisturbed(q)
    BY <1>10, OneDisturbs
  <2> QED
    BY <1>5, <1>10, <2>1, RowsKept DEF PostgresInv
<1>11. CASE n + 1 <= Len(c)
  <2>1. sync'[w] = Insert(o, n + 1) /\ n < Len(c)
    BY <1>3, <1>6, <1>11
  <2>2. /\ sync'[w].do = "insert" /\ sync'[w].id = o /\ sync'[w] # Ready
    BY <2>1, Statements, ReadyIs
  <2>3. CopyHeld(w)'
    BY <2>2 DEF CopyHeld, Synced
  <2>4. Replaced(w, o, n)'
    BY <1>2, <2>1 DEF Replaced
  <2>5. SyncHeld(w)'
    BY <1>9, <2>1, <2>4 DEF SyncHeld
  <2>6. RowsHeld(o)'
    <3>1. ~Undisturbed(o)'
      BY <2>2, OneDisturbs
    <3> QED
      BY <1>2, <1>3, <1>4, <1>5, <3>1 DEF RowsHeld
  <2> QED
    BY <1>8, <1>10, <2>3, <2>5, <2>6, OneInv
<1>12. CASE ~(n + 1 <= Len(c))
  <2>1. sync'[w] = Ready /\ Len(c) = n
    BY <1>2, <1>3, <1>6, <1>12
  <2>2. r = c
    BY <1>2, <1>3, <2>1
  <2>3. RowsHeld(o)'
    BY <1>2, <1>3, <1>4, <1>5, <2>2 DEF RowsHeld
  <2>4. CopyHeld(w)' /\ SyncHeld(w)'
    BY <1>9, <2>1, FreeWorker DEF Replacing
  <2> QED
    BY <1>8, <1>10, <2>3, <2>4, OneInv
<1> QED
  BY <1>11, <1>12

LEMMA DeleteRows ==
  ASSUME TypeOK, OneAtATime, PostgresInv, NEW w \in Workers, PDeleteEvents(w)
  PROVE  PostgresInv'
<1> DEFINE o == sync[w].id
<1>1. o \in Orders /\ Replacing(w, o)
  BY SyncCases DEF PDeleteEvents
<1>2. << >> \in Seq(States) /\ Len(<< >>) = 0
  OBVIOUS
<1>3. /\ events' \in [Orders -> Seq(States)] /\ events'[o] = << >>
      /\ \A p \in Orders : p # o => events'[p] = events[p]
  BY <1>1, <1>2 DEF PDeleteEvents, NoRows, PostgresInv, TableType
<1>4. /\ sync[w].do = "delete" /\ UNCHANGED <<vars, copy, past, frayed>>
      /\ sync' = [sync EXCEPT ![w] = From(w, 0 + 1)]
  BY DEF PDeleteEvents, Follow
<1>5. copy[w] \in Seq(States)
  BY DEF PostgresInv, TableType
<1>6. 0 <= Len(copy[w]) /\ Len(events'[o]) = 0 /\ \A i \in 1 .. 0 : FALSE
  BY <1>2, <1>3, <1>5
<1> HIDE DEF o
<1>7. sync[w].id = o
  BY DEF o
<1> QED
  BY <1>1, <1>3, <1>4, <1>6, <1>7, Continues

LEMMA AddRows ==
  ASSUME TypeOK, OneAtATime, PostgresInv, NEW w \in Workers, PInsertEvent(w)
  PROVE  PostgresInv'
<1>1. sync[w].do = "insert"
  BY DEF PInsertEvent
<1>2. PICK o \in Orders : o = sync[w].id /\ Replacing(w, o)
  BY <1>1, SyncCases
<1>3. PICK n \in Nat : sync[w].place = n + 1 /\ Replaced(w, o, n)
  BY <1>1, <1>2, SyncCases
<1>4. PICK k \in Nat : k = n + 1 /\ sync[w].place = k
  BY <1>3
<1>5. PICK r, c, x : r = events[o] /\ c = copy[w] /\ x = copy[w][k]
  OBVIOUS
<1>6. /\ r \in Seq(States) /\ c \in Seq(States) /\ Len(r) = n /\ k <= Len(c)
      /\ \A i \in 1 .. n : r[i] = c[i]
  BY <1>3, <1>4, <1>5 DEF Replaced, PostgresInv, TableType
<1>7. x \in States /\ x = c[k]
  BY <1>4, <1>5, <1>6
<1>8. /\ [m \in DOMAIN r \cup {k} |-> IF m = k THEN x ELSE r[m]] = Append(r, x)
      /\ k \notin DOMAIN r
  BY <1>4, <1>6, <1>7, RowAdded
<1>9. /\ UNCHANGED <<vars, copy, past, frayed>>
      /\ sync' = [sync EXCEPT ![w] = From(w, k + 1)]
      /\ events' = [events EXCEPT ![o] =
           [m \in DOMAIN events[o] \cup {k} |-> IF m = k THEN copy[w][k] ELSE events[o][m]]]
  <2>1. k \notin DOMAIN events[o]
    BY <1>5, <1>8
  <2> QED
    BY <1>2, <1>4, <2>1 DEF PInsertEvent, Follow, PostgresInv, TableType
<1>10. events' = [events EXCEPT ![o] = Append(r, x)]
  BY <1>5, <1>8, <1>9, Zenon
<1>11. /\ Append(r, x) \in Seq(States) /\ Len(Append(r, x)) = k
       /\ \A i \in 1 .. k : Append(r, x)[i] = c[i]
  BY <1>4, <1>6, <1>7
<1>12. /\ events' \in [Orders -> Seq(States)] /\ events'[o] = Append(r, x)
       /\ \A p \in Orders : p # o => events'[p] = events[p]
  BY <1>10, <1>11 DEF PostgresInv, TableType
<1>13. /\ k <= Len(copy[w]) /\ Len(events'[o]) = k
       /\ \A i \in 1 .. k : events'[o][i] = copy[w][i]
  BY <1>5, <1>6, <1>11, <1>12
<1>14. sync[w].id = o /\ sync[w].do \in {"delete", "insert"} /\ Replacing(w, o)
  BY <1>1, <1>2
<1>15. /\ UNCHANGED <<vars, copy, past, frayed>>
       /\ sync' = [sync EXCEPT ![w] = From(w, k + 1)]
  BY <1>9
<1> QED
  BY <1>12, <1>13, <1>14, <1>15, Continues

LEMMA AbortRows ==
  ASSUME TypeOK, OneAtATime, PostgresInv, NEW w \in Workers, PAbort(w)
  PROVE  PostgresInv'
<1>1. job'[w].pc = "idle" /\ UNCHANGED orders
  BY DEF PAbort, Abort, Answer, Idle, TypeOK, vars
<1>2. /\ UNCHANGED <<events, past>> /\ sync' = [sync EXCEPT ![w] = Ready]
      /\ copy' = [copy EXCEPT ![w] = << >>]
      /\ frayed' = IF sync[w].do \in {"delete", "insert"} THEN frayed \cup {sync[w].id}
                   ELSE frayed
  BY DEF PAbort, Follow
<1>3. << >> \in Seq(States)
  OBVIOUS
<1>4. TableType' /\ sync'[w] = Ready
  BY <1>2, <1>3, ReadyIs DEF PostgresInv, TableType
<1>5. ASSUME NEW o \in Orders
      PROVE  RowsHeld(o)'
  <2>1. o \notin frayed' => Undisturbed(o) /\ o \notin frayed
    BY <1>2, OneDisturbs
  <2>2. Exists(o)' <=> Exists(o)
    BY <1>1 DEF Exists
  <2> QED
    BY <1>2, <2>1, <2>2, RowsKept DEF PostgresInv
<1> QED
  BY <1>1, <1>4, <1>5, FreeWorker, OneInv

-----------------------------------------------------------------------------
LEMMA PostgresStart == PInit => PostgresInv
<1> SUFFICES ASSUME PInit
             PROVE  PostgresInv
  OBVIOUS
<1>1. << >> \in Seq(States) /\ Embeds(<< >>, << >>) /\ Records(<< >>, << >>)
  <2>1. << >> \in Seq(States) /\ \A i \in 1 .. Len(<< >>) : << >>[i] \notin Untold
    OBVIOUS
  <2> QED
    BY <2>1, EmptyEmbeds, RecordsItself
<1>2. TableType
  BY <1>1, ReadyIs DEF PInit, NoRows, TableType
<1>3. ASSUME NEW w \in Workers
      PROVE  CopyHeld(w) /\ SyncHeld(w)
  <2>1. sync[w] = Ready /\ job[w].pc = "idle"
    BY DEF PInit, Init, Idle
  <2> QED
    BY <2>1 DEF CopyHeld, SyncHeld
<1>4. ASSUME NEW o \in Orders
      PROVE  RowsHeld(o)
  <2>1. events[o] = << >> /\ past[o] = << >>
    BY DEF PInit, NoRows
  <2> QED
    BY <1>1, <2>1 DEF RowsHeld
<1> QED
  BY <1>2, <1>3, <1>4 DEF PostgresInv

LEMMA PostgresStep ==
  ASSUME TypeOK, OneAtATime, CurrentCopy, PostgresInv, [PNext]_allVars
  PROVE  PostgresInv'
<1>1. CASE UNCHANGED allVars \/ ((Tick \/ Rest) /\ UNCHANGED pVars)
  <2>1. UNCHANGED <<orders, job, events, copy, sync, past, frayed>>
    BY <1>1 DEF allVars, pVars, vars, Tick, Rest
  <2>2. TableType'
    BY <2>1 DEF PostgresInv, TableType
  <2>3. ASSUME NEW w \in Workers
        PROVE  CopyHeld(w)' /\ SyncHeld(w)'
    <3>1. CopyHeld(w)'
      BY <2>1 DEF PostgresInv, CopyHeld, Synced
    <3>2. SyncHeld(w)'
      BY <2>1 DEF PostgresInv, SyncHeld, Replacing, Replaced, Exists
    <3> QED
      BY <3>1, <3>2
  <2>4. ASSUME NEW o \in Orders
        PROVE  RowsHeld(o)'
    <3>1. (Exists(o)' <=> Exists(o)) /\ (Undisturbed(o)' => Undisturbed(o))
      BY <2>1 DEF Exists, Undisturbed
    <3> QED
      BY <2>1, <3>1, RowsKept DEF PostgresInv
  <2> QED
    BY <2>2, <2>3, <2>4 DEF PostgresInv
<1>2. ASSUME NEW w \in Workers, PServe(w)
      PROVE  PostgresInv'
  BY <1>2, ReadRows, TransitionRows, SetStateRows, InsertRows, StoreRows, DeleteRows,
     AddRows, RestRows, AbortRows DEF PServe
<1> QED
  BY <1>1, <1>2, StartRows, LoadRows DEF PNext

LEMMA PostgresInvariant ==
  ASSUME OneAtATime, Store = "postgres"
  PROVE  PSpec => []PostgresInv
<1>1. PInit => PostgresInv /\ CurrentCopy /\ TypeOK /\ IdleJobs
  BY PostgresStart, CopyInit, InitType DEF PInit, Init, IdleJobs
<1>2. TypeOK /\ IdleJobs /\ [PNext]_allVars => [Next]_vars
  BY ServiceStep
<1>3. TypeOK /\ IdleJobs /\ CurrentCopy /\ [Next]_vars => (TypeOK /\ IdleJobs /\ CurrentCopy)'
  BY IdleStep, TypeStep, CopyStep
<1>4. TypeOK /\ CurrentCopy /\ PostgresInv /\ [PNext]_allVars => PostgresInv'
  BY PostgresStep
<1> QED
  BY <1>1, <1>2, <1>3, <1>4, PTL DEF PSpec

\* While nobody writes about an order and no statement about it ever failed,
\* its rows are every state that a method of the Machine ever left it in, in
\* order (and none of the two that handlers set by themselves): UpdateOrder's
\* deleting and inserting them one by one does not show (loadOrderEvents,
\* replaceOrderEvents).
THEOREM TimelinesWhole ==
  OneAtATime /\ Store = "postgres" /\ PSpec => []TimelineWhole
<1> SUFFICES ASSUME OneAtATime, Store = "postgres"
             PROVE  PSpec => []TimelineWhole
  OBVIOUS
<1>1. PostgresInv => TimelineWhole
  <2> SUFFICES ASSUME PostgresInv, NEW o \in Unfrayed
               PROVE  Shown(o) = Picked(past[o], Told(past[o]))
    BY DEF TimelineWhole
  <2>1. o \in Orders /\ o \notin frayed /\ RowsHeld(o) /\ Undisturbed(o)
    BY DEF PostgresInv, Undisturbed, Unfrayed
  <2>2. /\ events[o] \in Seq(States) /\ past[o] \in Seq(States)
        /\ Records(events[o], past[o])
    BY <2>1 DEF RowsHeld
  <2>3. Shown(o) = events[o]
    BY <2>1, <2>2, ShownAsStored
  <2> QED
    BY <2>2, <2>3, RecordsPicked
<1> QED
  BY <1>1, PostgresInvariant, PTL

\* Whatever statements fail, between the order and its rows or in the middle of
\* them, the rows are the history with events lost: none that did not happen,
\* and no two out of order.
THEOREM TimelinesTruthful ==
  OneAtATime /\ Store = "postgres" /\ PSpec => []TimelineTruthful
<1> SUFFICES ASSUME OneAtATime, Store = "postgres"
             PROVE  PSpec => []TimelineTruthful
  OBVIOUS
<1>1. PostgresInv => TimelineTruthful
  <2> SUFFICES ASSUME PostgresInv, NEW o \in Orders
               PROVE  Within(Shown(o), past[o])
    BY DEF TimelineTruthful
  <2>1. RowsHeld(o)
    BY DEF PostgresInv
  <2>2. Shown(o) = events[o]
    BY <2>1, ShownAsStored DEF RowsHeld
  <2> QED
    BY <2>1, <2>2, EmbedsWithin DEF RowsHeld
<1> QED
  BY <1>1, PostgresInvariant, PTL
=============================================================================
