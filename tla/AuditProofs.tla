----------------------------- MODULE AuditProofs -----------------------------
(***************************************************************************)
(* What holds of the audit log for every number of appenders, in either    *)
(* store, and what is added as long as no two appends have overlapped: the *)
(* log verifies, unless the store rounded a time.                          *)
(***************************************************************************)
EXTENDS AuditOverlap, FiniteSetTheorems, SequenceTheorems, WellFoundedInduction, TLAPS

\* Entries whose links and hashes are taken from the set H.
EntriesOver(H) ==
  [id : Nat, at : Int, org : Orgs, resource : Texts, detail : Texts, prev : H, hash : H]

Jobs(H) == [pc : {"idle", "linked", "stamped"}, prev : H, at : Nat]

Typed ==
  /\ now \in Nat
  /\ \E H : /\ Genesis \in H
            /\ log \in Seq(EntriesOver(H))
            /\ job \in [Appenders -> Jobs(H)]

\* A hash about to be linked to is in the log already.
JobLinked ==
  \A a \in Appenders :
    job[a].pc # "idle" =>
      job[a].prev = Genesis \/ \E j \in DOMAIN log : log[j].hash = job[a].prev

HashesRight == Store = "memory" => \A i \in DOMAIN log : log[i].hash = Hash(log[i])

TreeInv == Typed /\ JobLinked /\ LinksStored /\ HashesRight

LEMMA RoundedIsInt ==
  ASSUME NEW t \in Int
  PROVE  Rounded(t) \in Int
<1>1. Micro \in Int /\ Micro > 0
  BY ChainAssumption
<1>2. Micro \div 2 \in Int
  BY <1>1
<1>3. (t + Micro \div 2) \div Micro \in Int
  BY <1>1, <1>2
<1> QED
  BY <1>1, <1>3 DEF Rounded

\* The row that Append at time t makes of an entry that links to prev: the
\* store may round its time, the hash is over the time as it was read.
Recorded(r, t, prev) ==
  /\ r.prev = prev
  /\ r.id = t
  /\ r.at = (IF Store = "postgres" THEN Rounded(t) ELSE t)
  /\ r.hash = <<t, t, r.org, Joined(r), prev>>
  /\ Store = "memory" => r.hash = Hash(r)

LEMMA StoredEntry ==
  ASSUME NEW H, NEW t \in Nat, NEW c \in Contents, NEW prev \in H,
         NEW e, e = NewEntry(t, c, prev)
  PROVE  /\ Stored(e) \in EntriesOver(H \cup {e.hash})
         /\ Recorded(Stored(e), t, prev)
<1>1. c.org \in Orgs /\ c.resource \in Texts /\ c.detail \in Texts
  BY ChainAssumption
<1> DEFINE u == Unhashed(t, c, prev)
<1>2. /\ e = [id |-> t, at |-> t, org |-> c.org, resource |-> c.resource,
              detail |-> c.detail, prev |-> prev, hash |-> Hash(u)]
      /\ Hash(u) = <<t, t, c.org, Joined(u), prev>>
  BY DEF NewEntry, Unhashed, Hash
<1>3. Joined(u) = Joined(e) /\ Joined(Stored(e)) = Joined(e)
  <2>1. e.resource = u.resource /\ e.detail = u.detail
    BY <1>2 DEF Unhashed
  <2>2. Stored(e).resource = e.resource /\ Stored(e).detail = e.detail
    BY <1>2 DEF Stored
  <2> QED
    BY <2>1, <2>2 DEF Joined
<1> HIDE DEF u
<1>4. Rounded(t) \in Int
  BY RoundedIsInt
<1>5. CASE Store = "postgres"
  BY <1>1, <1>2, <1>3, <1>4, <1>5 DEF Stored, EntriesOver, Recorded
<1>6. CASE Store # "postgres"
  BY <1>1, <1>2, <1>3, <1>6 DEF Stored, EntriesOver, Hash, Recorded
<1> QED
  BY <1>5, <1>6

LEMMA SeqWidens ==
  ASSUME NEW H, NEW s \in Seq(EntriesOver(H)), NEW h
  PROVE  s \in Seq(EntriesOver(H \cup {h}))
<1>1. EntriesOver(H) \subseteq EntriesOver(H \cup {h})
  BY DEF EntriesOver
<1> QED
  BY <1>1, SeqMonotonic

LEMMA TreeInit == Init => TreeInv
<1> SUFFICES ASSUME Init PROVE TreeInv
  OBVIOUS
<1>1. Typed
  <2>1. log \in Seq(EntriesOver({Genesis}))
    BY DEF Init
  <2>2. job \in [Appenders -> Jobs({Genesis})]
    BY DEF Init, Idle, Jobs
  <2> QED
    BY <2>1, <2>2 DEF Typed, Init
<1>2. JobLinked
  BY DEF JobLinked, Init, Idle
<1>3. LinksStored /\ HashesRight
  BY DEF LinksStored, HashesRight, Init
<1> QED
  BY <1>1, <1>2, <1>3 DEF TreeInv

\* What WriteEntry does when it stores its row r.
Extended(a, r) ==
  /\ Recorded(r, job[a].at, job[a].prev)
  /\ Store = "postgres" => \A i \in DOMAIN log : log[i].id # job[a].at
  /\ Len(log) \in Nat
  /\ DOMAIN log = 1 .. Len(log)
  /\ DOMAIN log' = 1 .. Len(log) + 1
  /\ \A i \in 1 .. Len(log) : log'[i] = log[i]
  /\ log'[Len(log) + 1] = r

LEMMA WriteExtends ==
  ASSUME Typed, NEW a \in Appenders, WriteEntry(a)
  PROVE  Typed' /\ (UNCHANGED log \/ \E r : Extended(a, r))
<1>1. PICK H : /\ Genesis \in H
               /\ log \in Seq(EntriesOver(H))
               /\ job \in [Appenders -> Jobs(H)]
  BY DEF Typed
<1>2. job' = [job EXCEPT ![a] = Idle] /\ now' = now
  BY DEF WriteEntry
<1>3. job' \in [Appenders -> Jobs(H)]
  BY <1>1, <1>2 DEF Idle, Jobs
<1>4. CASE UNCHANGED log
  BY <1>1, <1>2, <1>3, <1>4 DEF Typed
<1>5. CASE ~UNCHANGED log
  <2>1. PICK c \in Contents :
          log' = Append(log, Stored(NewEntry(job[a].at, c, job[a].prev)))
    BY <1>5 DEF WriteEntry
  <2> DEFINE e == NewEntry(job[a].at, c, job[a].prev)
             r == Stored(e)
             G == H \cup {e.hash}
  <2>2. job[a].prev \in H /\ job[a].at \in Nat
    BY <1>1 DEF Jobs
  <2>3. r \in EntriesOver(G) /\ Recorded(r, job[a].at, job[a].prev)
    BY <2>2, StoredEntry
  <2>4. log \in Seq(EntriesOver(G))
    BY <1>1, SeqWidens
  <2>5. ASSUME Store = "postgres", NEW i \in DOMAIN log
        PROVE  log[i].id # job[a].at
    BY <1>5, <2>5 DEF WriteEntry, NewEntry, Unhashed
  <2> HIDE DEF r
  <2>6. log' \in Seq(EntriesOver(G)) /\ Extended(a, r)
    BY <2>1, <2>3, <2>4, <2>5 DEF r, Extended
  <2> HIDE DEF e, G
  <2>7. job' \in [Appenders -> Jobs(G)]
    BY <1>3 DEF G, Jobs
  <2> QED
    BY <1>1, <1>2, <2>6, <2>7 DEF Typed, G
<1> QED
  BY <1>4, <1>5

\* Storing a row at the end keeps the tree a tree.
LEMMA WriteKeeps ==
  ASSUME TreeInv, NEW a \in Appenders, WriteEntry(a)
  PROVE  TreeInv'
<1> USE DEF TreeInv
<1>1. job' = [job EXCEPT ![a] = Idle] /\ job[a].pc = "stamped"
  BY DEF WriteEntry
<1>2. DOMAIN job = Appenders
  BY DEF Typed
<1>3. Typed'
  BY WriteExtends
<1>4. CASE UNCHANGED log
  BY <1>1, <1>2, <1>3, <1>4 DEF JobLinked, Idle, LinksStored, HashesRight, Hash
<1>5. CASE ~UNCHANGED log
  <2>1. PICK r : Extended(a, r)
    BY <1>5, WriteExtends
  <2> USE <2>1 DEF Extended, Recorded
  <2>2. JobLinked'
    BY <1>1, <1>2 DEF JobLinked, Idle
  <2>3. LinksStored'
    <3> SUFFICES ASSUME NEW i \in DOMAIN log'
                 PROVE  \/ log'[i].prev = Genesis
                        \/ \E j \in 1 .. i - 1 : log'[j].hash = log'[i].prev
      BY DEF LinksStored, Genesis
    <3>1. CASE i \in DOMAIN log
      <4>1. \/ log[i].prev = Genesis
            \/ \E j \in 1 .. i - 1 : log[j].hash = log[i].prev
        BY <3>1 DEF LinksStored
      <4>2. log'[i] = log[i] /\ \A j \in 1 .. i - 1 : log'[j] = log[j]
        BY <3>1
      <4> QED
        BY <4>1, <4>2
    <3>2. CASE i = Len(log) + 1
      <4>1. log'[i] = r
        BY <3>2
      <4>2. 1 .. i - 1 = DOMAIN log /\ \A j \in DOMAIN log : log'[j] = log[j]
        BY <3>2
      <4>3. r.prev = Genesis \/ \E j \in DOMAIN log : log[j].hash = r.prev
        BY <1>1 DEF JobLinked
      <4>4. ASSUME NEW j \in DOMAIN log, log[j].hash = r.prev
            PROVE  j \in 1 .. i - 1 /\ log'[j].hash = log'[i].prev
        BY <4>1, <4>2, <4>4
      <4> QED
        BY <4>1, <4>3, <4>4
    <3>3. i \in DOMAIN log \/ i = Len(log) + 1
      OBVIOUS
    <3> QED
      BY <3>1, <3>2, <3>3, Zenon
  <2>4. HashesRight'
    BY DEF HashesRight, Hash
  <2> QED
    BY <1>3, <2>2, <2>3, <2>4
<1> QED
  BY <1>4, <1>5

LEMMA ReadKeeps ==
  ASSUME TreeInv, NEW a \in Appenders, ReadLatest(a)
  PROVE  TreeInv'
<1> USE DEF TreeInv
<1>1. PICK H : /\ Genesis \in H
               /\ log \in Seq(EntriesOver(H))
               /\ job \in [Appenders -> Jobs(H)]
  BY DEF Typed
<1>2. PICK prev \in IF log = << >> THEN {Genesis} ELSE {LinkTo(i) : i \in Latest} :
        job' = [job EXCEPT ![a] = [pc |-> "linked", prev |-> prev, at |-> 0]]
  BY DEF ReadLatest
<1>3. log' = log /\ now' = now
  BY DEF ReadLatest
<1>4. prev = Genesis \/ \E i \in DOMAIN log : log[i].hash = prev
  <2>1. log # << >> => Latest \subseteq DOMAIN log
    <3>1. DOMAIN log = 1 .. Len(log) /\ Len(log) \in Nat
      BY <1>1
    <3>2. log # << >> => Len(log) > 0
      BY <1>1
    <3> QED
      BY <3>1, <3>2 DEF Latest
  <2> QED
    BY <1>2, <2>1 DEF LinkTo
<1>5. prev \in H
  <2>1. ASSUME NEW i \in DOMAIN log PROVE log[i].hash \in H
    <3>1. log[i] \in EntriesOver(H)
      BY <1>1
    <3> QED
      BY <3>1 DEF EntriesOver
  <2> QED
    BY <1>1, <1>4, <2>1
<1>6. Typed'
  BY <1>1, <1>2, <1>3, <1>5 DEF Typed, Jobs
<1>7. JobLinked'
  BY <1>1, <1>2, <1>3, <1>4 DEF JobLinked, Jobs
<1>8. LinksStored' /\ HashesRight'
  BY <1>3 DEF LinksStored, HashesRight, Hash
<1> QED
  BY <1>6, <1>7, <1>8

LEMMA TreeStep == TreeInv /\ [Next]_chainVars => TreeInv'
<1> SUFFICES ASSUME TreeInv, [Next]_chainVars PROVE TreeInv'
  OBVIOUS
<1> USE DEF TreeInv
<1>1. ASSUME NEW a \in Appenders, ReadLatest(a) PROVE TreeInv'
  BY <1>1, ReadKeeps
<1>2. ASSUME NEW a \in Appenders, WriteEntry(a) PROVE TreeInv'
  BY <1>2, WriteKeeps
<1>3. ASSUME NEW a \in Appenders, Abort(a) PROVE TreeInv'
  <2>1. log' = log /\ now' = now /\ job' = [job EXCEPT ![a] = Idle]
    BY <1>3 DEF Abort
  <2>2. Typed'
    BY <2>1 DEF Typed, Idle, Jobs
  <2>3. JobLinked' /\ LinksStored' /\ HashesRight'
    BY <2>1 DEF Typed, JobLinked, LinksStored, HashesRight, Hash, Idle
  <2> QED
    BY <2>2, <2>3
<1>4. ASSUME NEW a \in Appenders, Stamp(a) PROVE TreeInv'
  <2>1. /\ log' = log /\ now' = now /\ now \in Nat
        /\ job[a].pc = "linked"
        /\ job' = [job EXCEPT ![a].pc = "stamped", ![a].at = now]
    BY <1>4 DEF Stamp, Typed
  <2>2. Typed'
    <3>1. PICK H : /\ Genesis \in H
                   /\ log \in Seq(EntriesOver(H))
                   /\ job \in [Appenders -> Jobs(H)]
      BY DEF Typed
    <3>2. job[a] \in Jobs(H)
      BY <3>1
    <3>3. [job[a] EXCEPT !.pc = "stamped", !.at = now] \in Jobs(H)
      BY <2>1, <3>2 DEF Jobs
    <3>4. job' \in [Appenders -> Jobs(H)]
      BY <2>1, <3>1, <3>3
    <3> QED
      BY <2>1, <3>1, <3>4 DEF Typed
  <2>3. JobLinked'
    BY <2>1 DEF Typed, Jobs, JobLinked
  <2>4. LinksStored' /\ HashesRight'
    BY <2>1 DEF LinksStored, HashesRight, Hash, Joined
  <2> QED
    BY <2>2, <2>3, <2>4
<1>6. CASE Tick
  BY <1>6 DEF Tick, Typed, JobLinked, LinksStored, HashesRight, Hash
<1>5. CASE UNCHANGED chainVars
  BY <1>5 DEF chainVars, Typed, JobLinked, LinksStored, HashesRight, Hash
<1> QED
  BY <1>1, <1>2, <1>3, <1>4, <1>5, <1>6 DEF Next, Rest

\* Whatever overlaps or fails, in whatever order entries are stamped and
\* inserted, and in either store, each row links to the hash stored in an
\* earlier row (Chain.Append, LatestAudit).
THEOREM LinksHold == Spec => []LinksStored
<1>1. TreeInv => LinksStored
  BY DEF TreeInv
<1> QED
  BY <1>1, TreeInit, TreeStep, PTL DEF Spec

\* In the Memory store every row also hashes to its hash: overlapping appends
\* can fork the log but leave no row that Verify could fault by itself.
THEOREM MemoryEntriesSound ==
  ASSUME Store = "memory"
  PROVE  Spec => []EntriesSound
<1>1. TreeInv => EntriesSound
  BY DEF TreeInv, HashesRight, LinksStored, EntriesSound
<1> QED
  BY <1>1, TreeInit, TreeStep, PTL DEF Spec


-----------------------------------------------------------------------------
(* What is true of every row, in either store.                             *)

\* The hash was taken over the time as it was read, and no row links to
\* itself: the links lead back to Genesis.
Sealed ==
  \A i \in DOMAIN log :
    /\ log[i].hash = <<log[i].id, log[i].id, log[i].org, Joined(log[i]), log[i].prev>>
    /\ log[i].hash # log[i].prev

\* An id is the clock reading, the time is that reading as the store keeps it,
\* and Postgres keeps no id twice.
Clocked ==
  /\ \A i \in DOMAIN log :
       /\ log[i].id \in Nat
       /\ log[i].at = IF Store = "postgres" THEN Rounded(log[i].id) ELSE log[i].id
  /\ Store = "postgres" =>
       \A i, j \in DOMAIN log : i # j => log[i].id # log[j].id

RowsInv == TreeInv /\ Sealed /\ Clocked

LEMMA WriteSealed ==
  ASSUME RowsInv, NEW a \in Appenders, WriteEntry(a)
  PROVE  Sealed' /\ Clocked'
<1>1. job[a].at \in Nat /\ job[a].pc # "idle"
  BY DEF RowsInv, TreeInv, Typed, Jobs, WriteEntry
<1>2. CASE UNCHANGED log
  BY <1>2 DEF RowsInv, Sealed, Joined, Clocked
<1>3. CASE ~UNCHANGED log
  <2>1. PICK r : Extended(a, r)
    BY <1>3, WriteExtends DEF RowsInv, TreeInv
  <2> DEFINE t == job[a].at
  <2>2. /\ DOMAIN log = 1 .. Len(log) /\ Len(log) \in Nat
        /\ DOMAIN log' = 1 .. Len(log) + 1
        /\ \A i \in 1 .. Len(log) : log'[i] = log[i]
        /\ log'[Len(log) + 1] = r
        /\ r.prev = job[a].prev /\ r.id = t
        /\ r.at = (IF Store = "postgres" THEN Rounded(t) ELSE t)
        /\ r.hash = <<t, t, r.org, Joined(r), r.prev>>
        /\ Store = "postgres" => \A i \in DOMAIN log : log[i].id # t
    BY <2>1 DEF Extended, Recorded
  <2>3. r.hash # r.prev
    <3>1. CASE r.prev = Genesis
      BY <2>2, <3>1 DEF Genesis
    <3>2. CASE \E j \in DOMAIN log : log[j].hash = r.prev
      <4>1. PICK j \in DOMAIN log : log[j].hash = r.prev
        BY <3>2
      <4>2. /\ log[j].hash = <<log[j].id, log[j].id, log[j].org, Joined(log[j]),
                               log[j].prev>>
            /\ log[j].hash # log[j].prev
        BY DEF RowsInv, Sealed
      <4> QED
        BY <2>2, <4>1, <4>2
    <3> QED
      BY <1>1, <2>2, <3>1, <3>2 DEF RowsInv, TreeInv, JobLinked
  <2> HIDE DEF t
  <2>4. Sealed'
    <3> SUFFICES ASSUME NEW i \in 1 .. Len(log) + 1
                 PROVE  /\ log'[i].hash = <<log'[i].id, log'[i].id, log'[i].org,
                                            Joined(log'[i]), log'[i].prev>>
                        /\ log'[i].hash # log'[i].prev
      BY <2>2 DEF Sealed, Joined
    <3>1. CASE i \in 1 .. Len(log)
      BY <2>2, <3>1 DEF RowsInv, Sealed
    <3>2. CASE i = Len(log) + 1
      BY <2>2, <2>3, <3>2
    <3> QED
      BY <2>2, <3>1, <3>2
  <2>5. Clocked'
    <3>1. ASSUME NEW i \in 1 .. Len(log) + 1
          PROVE  /\ log'[i].id \in Nat
                 /\ log'[i].at = IF Store = "postgres" THEN Rounded(log'[i].id)
                                 ELSE log'[i].id
      <4>1. CASE i \in 1 .. Len(log)
        BY <2>2, <4>1 DEF RowsInv, Clocked
      <4>2. CASE i = Len(log) + 1
        BY <1>1, <2>2, <4>2 DEF t
      <4> QED
        BY <2>2, <4>1, <4>2
    <3>2. ASSUME Store = "postgres",
                 NEW i \in 1 .. Len(log) + 1, NEW j \in 1 .. Len(log) + 1, i # j
          PROVE  log'[i].id # log'[j].id
      <4>1. CASE i \in 1 .. Len(log) /\ j \in 1 .. Len(log)
        BY <2>2, <3>2, <4>1 DEF RowsInv, Clocked
      <4>2. CASE i = Len(log) + 1 \/ j = Len(log) + 1
        BY <2>2, <3>2, <4>2
      <4> QED
        BY <2>2, <4>1, <4>2
    <3> QED
      BY <2>2, <3>1, <3>2 DEF Clocked, Rounded
  <2> QED
    BY <2>4, <2>5
<1> QED
  BY <1>2, <1>3

LEMMA RowsStep == RowsInv /\ [Next]_chainVars => RowsInv'
<1> SUFFICES ASSUME RowsInv, [Next]_chainVars
             PROVE  RowsInv'
  OBVIOUS
<1>1. TreeInv'
  BY TreeStep DEF RowsInv
<1>2. ASSUME NEW a \in Appenders, WriteEntry(a) PROVE Sealed' /\ Clocked'
  BY <1>2, WriteSealed
<1>3. ASSUME UNCHANGED log PROVE Sealed' /\ Clocked'
  BY <1>3 DEF RowsInv, Sealed, Joined, Clocked
<1>4. ASSUME NEW a \in Appenders, ReadLatest(a) \/ Stamp(a) \/ Abort(a)
      PROVE  Sealed' /\ Clocked'
  BY <1>3, <1>4 DEF ReadLatest, Stamp, Abort
<1>5. ASSUME Tick \/ Rest \/ UNCHANGED chainVars PROVE Sealed' /\ Clocked'
  BY <1>3, <1>5 DEF Tick, Rest, chainVars
<1>6. Sealed' /\ Clocked'
  BY <1>2, <1>4, <1>5, Zenon DEF Next
<1> QED
  BY <1>1, <1>6 DEF RowsInv

LEMMA RowsHold == Spec => []RowsInv
<1>1. Init => RowsInv
  BY TreeInit DEF RowsInv, Init, Sealed, Clocked
<1> QED
  BY <1>1, RowsStep, PTL DEF Spec

-----------------------------------------------------------------------------
(* Verify.                                                                 *)

\* A set of naturals that is not empty has a least element.
LEMMA LeastNatural ==
  ASSUME NEW S \in SUBSET Nat, S # {}
  PROVE  \E n \in S : \A m \in S : n <= m
<1> DEFINE R == OpToRel(<, Nat)
<1>1. IsWellFoundedOn(R, Nat)
  BY NatLessThanWellFounded, Zenon
<1>2. \A x, y \in Nat : x < y => <<x, y>> \in R
  BY DEF OpToRel
<1> HIDE DEF R
<1>3. PICK x \in S : \A y \in S : ~ (<<y, x>> \in R)
  BY <1>1, WFMin
<1>4. ASSUME NEW y \in S
      PROVE  x <= y
  <2>1. x \in Nat /\ y \in Nat
    OBVIOUS
  <2>2. ~(y < x)
    BY <1>2, <1>3, <2>1, Zenon
  <2> QED
    BY <2>1, <2>2
<1> QED
  BY <1>4

\* Verify answers with a row that is broken when no row before it is.
LEMMA VerifyFinds ==
  ASSUME NEW rows, NEW n \in Nat, DOMAIN rows = 1 .. n, NEW i \in 1 .. n,
         Broken(rows, i), \A j \in 1 .. i - 1 : ~Broken(rows, j)
  PROVE  Verify(rows) = i - 1
<1> DEFINE P(k) == Broken(rows, k) /\ \A j \in 1 .. k - 1 : ~Broken(rows, j)
<1>1. P(i)
  OBVIOUS
<1>2. ASSUME NEW k \in 1 .. n, P(k) PROVE k = i
  <2>1. ~(k \in 1 .. i - 1) /\ ~(i \in 1 .. k - 1)
    BY <1>1, <1>2
  <2> QED
    BY <2>1
<1>3. (CHOOSE k \in DOMAIN rows : P(k)) = i
  BY <1>1, <1>2
<1>4. \E k \in DOMAIN rows : Broken(rows, k)
  OBVIOUS
<1> HIDE DEF P
<1>5. (CHOOSE k \in DOMAIN rows :
          Broken(rows, k) /\ \A j \in 1 .. k - 1 : ~Broken(rows, j)) = i
  BY <1>3 DEF P
<1> QED
  BY <1>4, <1>5 DEF Verify

\* It answers -1 only if no row is.
LEMMA VerifyMeans ==
  ASSUME NEW rows, NEW n \in Nat, DOMAIN rows = 1 .. n, Verify(rows) = -1
  PROVE  \A i \in 1 .. n : ~Broken(rows, i)
<1> DEFINE S == {i \in 1 .. n : Broken(rows, i)}
<1> SUFFICES ASSUME S # {}
             PROVE  FALSE
  OBVIOUS
<1>1. S \in SUBSET Nat
  OBVIOUS
<1>2. PICK i \in S : \A j \in S : i <= j
  <2> HIDE DEF S
  <2> QED
    BY <1>1, LeastNatural
<1>3. i \in 1 .. n /\ Broken(rows, i) /\ \A j \in 1 .. i - 1 : ~Broken(rows, j)
  BY <1>2
<1>4. Verify(rows) = i - 1
  BY <1>3, VerifyFinds
<1> QED
  BY <1>3, <1>4

\* A function of 1 .. n into itself that keeps the order changes nothing.
LEMMA OrderedIsIdentity ==
  ASSUME NEW n \in Nat, NEW q \in [1 .. n -> 1 .. n],
         \A i, j \in 1 .. n : i < j => q[i] < q[j]
  PROVE  \A i \in 1 .. n : q[i] = i
<1>1. \A i \in 1 .. n : q[i] >= i
  <2> DEFINE S == {i \in 1 .. n : q[i] < i}
  <2> SUFFICES ASSUME S # {}
               PROVE  FALSE
    OBVIOUS
  <2>1. S \in SUBSET Nat
    OBVIOUS
  <2>2. PICK i \in S : \A j \in S : i <= j
    <3> HIDE DEF S
    <3> QED
      BY <2>1, LeastNatural
  <2>3. i \in 1 .. n /\ q[i] < i /\ q[i] \in 1 .. n
    OBVIOUS
  <2>4. i - 1 \in 1 .. n /\ i - 1 < i
    BY <2>3
  <2>5. q[i - 1] < q[i] /\ q[i - 1] \in 1 .. n
    BY <2>3, <2>4
  <2>6. i - 1 \in S
    BY <2>3, <2>4, <2>5
  <2>7. i <= i - 1
    <3> HIDE DEF S
    <3> QED
      BY <2>2, <2>6, Zenon
  <2> QED
    BY <2>3, <2>7
<1>2. \A i \in 1 .. n : q[i] <= i
  <2> DEFINE S == {k \in Nat : k < n /\ q[n - k] > n - k}
  <2>1. ASSUME NEW i \in 1 .. n, q[i] > i
        PROVE  FALSE
    <3>1. n - i \in S
      <4>1. n - i \in Nat /\ n - i < n /\ n - (n - i) = i
        OBVIOUS
      <4> QED
        BY <2>1, <4>1
    <3>2. PICK k \in S : \A j \in S : k <= j
      <4>1. S \in SUBSET Nat /\ S # {}
        BY <3>1
      <4> HIDE DEF S
      <4> QED
        BY <4>1, LeastNatural
    <3>3. k \in Nat /\ k < n /\ q[n - k] > n - k /\ n - k \in 1 .. n
      OBVIOUS
    <3>4. k # 0
      <4>1. q[n] \in 1 .. n
        BY <3>3
      <4> QED
        BY <3>3, <4>1
    <3>5. /\ k - 1 \in Nat /\ k - 1 < n /\ n - (k - 1) \in 1 .. n
          /\ n - k < n - (k - 1) /\ n - (k - 1) = n - k + 1
      BY <3>3, <3>4
    <3>6. q[n - k] < q[n - (k - 1)] /\ q[n - k] \in Int /\ q[n - (k - 1)] \in Int
      BY <3>3, <3>5
    <3>7. q[n - (k - 1)] > n - (k - 1)
      BY <3>3, <3>5, <3>6
    <3>8. k - 1 \in S
      BY <3>5, <3>7
    <3>9. k <= k - 1
      <4> HIDE DEF S
      <4> QED
        BY <3>2, <3>8, Zenon
    <3> QED
      BY <3>3, <3>9
  <2>2. \A i \in 1 .. n : q[i] \in 1 .. n
    OBVIOUS
  <2> QED
    BY <2>1, <2>2
<1>3. \A i \in 1 .. n : q[i] \in 1 .. n
  OBVIOUS
<1> QED
  BY <1>1, <1>2, <1>3

\* Steps that go up go up from anywhere to anywhere later.
LEMMA StepsAreOrdered ==
  ASSUME NEW n \in Nat, NEW q \in [1 .. n -> Int],
         \A i \in 1 .. n : i + 1 \in 1 .. n => q[i] < q[i + 1]
  PROVE  \A i, j \in 1 .. n : i < j => q[i] < q[j]
<1> SUFFICES ASSUME NEW i \in 1 .. n
             PROVE  \A j \in 1 .. n : i < j => q[i] < q[j]
  OBVIOUS
<1> DEFINE S == {j \in 1 .. n : i < j /\ ~(q[i] < q[j])}
<1> SUFFICES ASSUME S # {}
             PROVE  FALSE
  OBVIOUS
<1>1. S \in SUBSET Nat
  OBVIOUS
<1>2. PICK j \in S : \A k \in S : j <= k
  <2> HIDE DEF S
  <2> QED
    BY <1>1, LeastNatural
<1>3. j \in 1 .. n /\ i < j /\ ~(q[i] < q[j]) /\ j - 1 \in 1 .. n
  OBVIOUS
<1>4. q[j - 1] < q[j] /\ q[j - 1] \in Int /\ q[i] \in Int /\ q[j] \in Int
  <2>1. (j - 1) + 1 = j
    BY <1>3
  <2> QED
    BY <1>3, <2>1
<1>5. j - 1 \notin S
  <2> HIDE DEF S
  <2> QED
    BY <1>2, <1>3
<1>6. CASE j - 1 = i
  BY <1>3, <1>4, <1>6
<1>7. CASE j - 1 # i
  <2>1. i < j - 1
    BY <1>3, <1>7
  <2>2. q[i] < q[j - 1]
    BY <1>3, <1>5, <2>1
  <2> QED
    BY <1>3, <1>4, <2>2
<1> QED
  BY <1>6, <1>7

\* q puts m values of f in order.
Sorts(q, m, f) ==
  /\ \A i, j \in 1 .. m : i # j => q[i] # q[j]
  /\ \A i, j \in 1 .. m : i < j => f[q[i]] <= f[q[j]]

\* What was put in order stays in order with one more value in its place.
LEMMA SortOneMore ==
  ASSUME NEW m \in Nat, NEW f, \A i \in 1 .. m + 1 : f[i] \in Int,
         NEW q \in [1 .. m -> 1 .. m], Sorts(q, m, f)
  PROVE  \E r \in [1 .. m + 1 -> 1 .. m + 1] : Sorts(r, m + 1, f)
<1> DEFINE G == {i \in 1 .. m + 1 : i <= m => f[q[i]] > f[m + 1]}
<1>1. G \in SUBSET Nat /\ m + 1 \in G
  OBVIOUS
<1>2. PICK k \in G : \A i \in G : k <= i
  <2> HIDE DEF G
  <2> QED
    BY <1>1, LeastNatural
<1>3. k \in 1 .. m + 1 /\ (k <= m => f[q[k]] > f[m + 1])
  OBVIOUS
<1>4. ASSUME NEW i \in 1 .. m PROVE q[i] \in 1 .. m /\ f[q[i]] \in Int /\ f[m + 1] \in Int
  OBVIOUS
<1>5. ASSUME NEW i \in 1 .. m, i < k PROVE f[q[i]] <= f[m + 1]
  <2>1. i \notin G
    <3> HIDE DEF G
    <3> QED
      BY <1>2, <1>3, <1>5
  <2> QED
    BY <1>4, <2>1
<1>6. ASSUME NEW i \in 1 .. m, i >= k PROVE f[m + 1] <= f[q[i]]
  <2>1. k \in 1 .. m
    BY <1>3, <1>6
  <2>2. f[m + 1] < f[q[k]] /\ f[q[k]] \in Int
    BY <1>3, <1>4, <2>1
  <2>3. f[q[k]] <= f[q[i]]
    <3>1. k = i \/ k < i
      BY <1>6, <2>1
    <3>2. f[q[k]] <= f[q[k]]
      BY <2>2
    <3> QED
      BY <2>1, <3>1, <3>2 DEF Sorts
  <2>4. f[q[i]] \in Int /\ f[m + 1] \in Int
    BY <1>4
  <2> HIDE DEF G
  <2>5. PICK x \in Int, y \in Int, z \in Int : x = f[m + 1] /\ y = f[q[k]] /\ z = f[q[i]]
    BY <2>2, <2>4
  <2>6. x < y /\ y <= z
    BY <2>2, <2>3, <2>5, Zenon
  <2>7. x <= z
    BY <2>6
  <2> QED
    BY <2>5, <2>7, Zenon
<1> HIDE DEF G
<1> DEFINE r == [i \in 1 .. m + 1 |-> IF i < k THEN q[i] ELSE IF i = k THEN m + 1
                                      ELSE q[i - 1]]
<1>7. ASSUME NEW i \in 1 .. m + 1
      PROVE  /\ i < k => i \in 1 .. m /\ r[i] = q[i] /\ f[r[i]] <= f[m + 1]
             /\ i = k => r[i] = m + 1
             /\ i > k => i - 1 \in 1 .. m /\ r[i] = q[i - 1] /\ f[m + 1] <= f[r[i]]
             /\ i # k => r[i] \in 1 .. m
             /\ r[i] \in 1 .. m + 1 /\ f[r[i]] \in Int
  <2>1. CASE i < k
    BY <1>3, <1>4, <1>5, <2>1
  <2>2. CASE i = k
    BY <1>3, <2>2
  <2>3. CASE i > k
    <3>1. i - 1 \in 1 .. m /\ i - 1 >= k
      BY <1>3, <2>3
    <3>2. q[i - 1] \in 1 .. m /\ f[m + 1] <= f[q[i - 1]] /\ f[q[i - 1]] \in Int
      BY <1>4, <1>6, <3>1
    <3> QED
      BY <1>3, <2>3, <3>1, <3>2
  <2> QED
    BY <1>3, <2>1, <2>2, <2>3
<1>8. r \in [1 .. m + 1 -> 1 .. m + 1]
  BY <1>7
<1> HIDE DEF r
<1>9. ASSUME NEW i \in 1 .. m + 1, NEW j \in 1 .. m + 1, i < j
      PROVE  r[i] # r[j] /\ f[r[i]] <= f[r[j]]
  <2> USE <1>3, <1>9
  <2>1. CASE j < k
    <3>1. r[i] = q[i] /\ r[j] = q[j] /\ i \in 1 .. m /\ j \in 1 .. m
      BY <1>7, <2>1
    <3> QED
      BY <3>1 DEF Sorts
  <2>2. CASE j = k
    <3>1. r[j] = m + 1 /\ r[i] \in 1 .. m /\ f[r[i]] <= f[m + 1]
      BY <1>7, <2>2
    <3> QED
      BY <3>1
  <2>3. CASE i = k
    <3>1. r[i] = m + 1 /\ r[j] \in 1 .. m /\ f[m + 1] <= f[r[j]]
      BY <1>7, <2>3
    <3> QED
      BY <3>1
  <2>4. CASE i < k /\ j > k
    <3>1. /\ r[i] = q[i] /\ r[j] = q[j - 1] /\ i \in 1 .. m /\ j - 1 \in 1 .. m
      BY <1>7, <2>4
    <3>2. i < j - 1
      BY <2>4
    <3> QED
      BY <3>1, <3>2 DEF Sorts
  <2>5. CASE i > k
    <3>1. r[i] = q[i - 1] /\ i - 1 \in 1 .. m
      BY <1>7, <2>5
    <3>3. j > k
      BY <2>5
    <3>4. r[j] = q[j - 1] /\ j - 1 \in 1 .. m
      BY <1>7, <3>3
    <3>2. i - 1 < j - 1
      OBVIOUS
    <3> QED
      BY <3>1, <3>2, <3>4 DEF Sorts
  <2> QED
    BY <2>1, <2>2, <2>3, <2>4, <2>5
<1>10. ASSUME NEW i \in 1 .. m + 1, NEW j \in 1 .. m + 1, i # j
       PROVE  r[i] # r[j]
  <2>1. i < j \/ j < i
    BY <1>10
  <2> QED
    BY <1>9, <2>1
<1>11. Sorts(r, m + 1, f)
  BY <1>9, <1>10 DEF Sorts
<1> QED
  BY <1>8, <1>11

\* Integers can be sorted.
LEMMA SortExists ==
  ASSUME NEW n \in Nat, NEW f, \A i \in 1 .. n : f[i] \in Int
  PROVE  \E q \in [1 .. n -> 1 .. n] : Sorts(q, n, f)
<1> DEFINE Sortable(m) == \E q \in [1 .. m -> 1 .. m] : Sorts(q, m, f)
           S == {m \in Nat : m <= n /\ ~Sortable(m)}
<1> SUFFICES ASSUME S # {}
             PROVE  FALSE
  OBVIOUS
<1> HIDE DEF Sortable
<1>1. S \in SUBSET Nat
  OBVIOUS
<1>2. PICK m \in S : \A k \in S : m <= k
  <2> HIDE DEF S
  <2> QED
    BY <1>1, LeastNatural
<1>3. m \in Nat /\ m <= n /\ ~Sortable(m)
  OBVIOUS
<1>4. Sortable(0)
  <2>1. [i \in 1 .. 0 |-> i] \in [1 .. 0 -> 1 .. 0]
    OBVIOUS
  <2>2. 1 .. 0 = {}
    OBVIOUS
  <2> QED
    BY <2>1, <2>2 DEF Sortable, Sorts
<1>5. m - 1 \in Nat /\ m - 1 <= n /\ (m - 1) + 1 = m /\ ~(m <= m - 1)
  <2>1. m # 0
    BY <1>3, <1>4
  <2> QED
    BY <1>3, <2>1
<1>6. Sortable(m - 1)
  <2> HIDE DEF S
  <2>1. m - 1 \notin S
    BY <1>2, <1>5
  <2> QED
    BY <1>5, <2>1 DEF S
<1>7. PICK q \in [1 .. m - 1 -> 1 .. m - 1] : Sorts(q, m - 1, f)
  BY <1>6 DEF Sortable
<1>8. \A i \in 1 .. (m - 1) + 1 : f[i] \in Int
  BY <1>3, <1>5
<1>9. \E r \in [1 .. (m - 1) + 1 -> 1 .. (m - 1) + 1] : Sorts(r, (m - 1) + 1, f)
  BY <1>5, <1>7, <1>8, SortOneMore
<1> QED
  BY <1>3, <1>5, <1>9 DEF Sortable

LEMMA Below ==
  ASSUME NEW n \in Nat, NEW k \in 1 .. n, NEW j \in 1 .. k - 1
  PROVE  j \in 1 .. n /\ j < k
  OBVIOUS

\* A log that verifies is itself one of the orders SearchAudit may return: what
\* a row links to was inserted before it, so the order of the links is the
\* order of insertion.
LEMMA LogIsReading ==
  ASSUME RowsInv, Intact
  PROVE  log \in Readings
<1>1. CASE Store = "memory"
  BY <1>1 DEF Readings
<1>2. CASE Store = "postgres"
  <2> DEFINE n == Len(log)
             f == [i \in 1 .. n |-> log[i].at]
  <2>1. PICK H : log \in Seq(EntriesOver(H))
    BY DEF RowsInv, TreeInv, Typed
  <2>2. n \in Nat /\ DOMAIN log = 1 .. n /\ \A i \in 1 .. n : log[i] \in EntriesOver(H)
    BY <2>1
  <2>3. \A i \in 1 .. n : f[i] = log[i].at /\ f[i] \in Int
    BY <2>2 DEF EntriesOver
  <2> HIDE DEF n, f
  <2>4. PICK q \in [1 .. n -> 1 .. n] : Sorts(q, n, f)
    BY <2>2, <2>3, SortExists
  <2>5. /\ \A i, j \in 1 .. n : i # j => q[i] # q[j]
        /\ \A i, j \in 1 .. n : i < j => log[q[i]].at <= log[q[j]].at
    BY <2>3, <2>4 DEF Sorts
  <2> DEFINE rows == [i \in 1 .. n |-> log[q[i]]]
  <2>6. rows \in Readings
    BY <1>2, <2>2, <2>5 DEF Readings
  <2>7. \A i \in 1 .. n : ~Broken(rows, i)
    <3>1. Verify(rows) = -1 /\ DOMAIN rows = 1 .. n
      BY <2>6 DEF Intact
    <3> HIDE DEF rows
    <3> QED
      BY <2>2, <3>1, VerifyMeans
  <2>8. ASSUME NEW i \in 1 .. n, i + 1 \in 1 .. n
        PROVE  q[i] < q[i + 1]
    <3>1. q[i] \in 1 .. n /\ q[i + 1] \in 1 .. n
      BY <2>8
    <3>2. log[q[i + 1]].prev = log[q[i]].hash
      <4>1. ~Broken(rows, i + 1) /\ i + 1 # 1 /\ (i + 1) - 1 = i
        BY <2>2, <2>7, <2>8
      <4> QED
        BY <2>8, <4>1 DEF Broken, PrevHash
    <3>3. log[q[i]].hash # Genesis
      <4>1. log[q[i]].hash = <<log[q[i]].id, log[q[i]].id, log[q[i]].org,
                               Joined(log[q[i]]), log[q[i]].prev>>
        BY <2>2, <3>1 DEF RowsInv, Sealed
      <4> QED
        BY <4>1 DEF Genesis
    <3>4. PICK j \in 1 .. q[i + 1] - 1 : log[j].hash = log[q[i]].hash
      BY <2>2, <3>1, <3>2, <3>3 DEF RowsInv, TreeInv, LinksStored
    <3>5. j \in 1 .. n /\ j < q[i + 1]
      <4> PICK k : k = q[i + 1]
        OBVIOUS
      <4>1. n \in Nat /\ k \in 1 .. n /\ j \in 1 .. k - 1
        BY <2>2, <3>1
      <4>2. j \in 1 .. n /\ j < k
        BY <4>1, Below
      <4> QED
        BY <4>2
    <3>6. log[j].id = log[q[i]].id
      <4> PICK k : k = q[i]
        OBVIOUS
      <4>1. j \in DOMAIN log /\ k \in DOMAIN log /\ log[j].hash = log[k].hash
        BY <2>2, <3>1, <3>4, <3>5
      <4>2. /\ log[j].hash = <<log[j].id, log[j].id, log[j].org, Joined(log[j]), log[j].prev>>
            /\ log[k].hash = <<log[k].id, log[k].id, log[k].org, Joined(log[k]), log[k].prev>>
        BY <4>1 DEF RowsInv, Sealed
      <4> HIDE DEF rows
      <4>3. log[j].hash[1] = log[j].id /\ log[k].hash[1] = log[k].id
        BY <4>2
      <4>4. log[j].id = log[k].id
        BY <4>1, <4>3
      <4> QED
        BY <4>4
    <3>7. j = q[i]
      BY <1>2, <2>2, <3>1, <3>5, <3>6 DEF RowsInv, Clocked
    <3> QED
      BY <3>5, <3>7
  <2>9. \A i, j \in 1 .. n : i < j => q[i] < q[j]
    <3>1. q \in [1 .. n -> Int] /\ n \in Nat
      BY <2>2
    <3> HIDE DEF rows
    <3> QED
      BY <2>8, <3>1, StepsAreOrdered
  <2>10. \A i \in 1 .. n : q[i] = i
    BY <2>2, <2>9, OrderedIsIdentity
  <2>11. rows = log
    <3>1. log = [i \in 1 .. n |-> log[i]]
      BY <2>1, <2>2
    <3> QED
      BY <2>10, <3>1
  <2> QED
    BY <2>6, <2>11
<1> QED
  BY <1>1, <1>2, ChainAssumption

LEMMA IntactMeans ==
  ASSUME RowsInv, Intact
  PROVE  \A i \in DOMAIN log : ~Broken(log, i)
<1>1. Len(log) \in Nat /\ DOMAIN log = 1 .. Len(log)
  BY DEF RowsInv, TreeInv, Typed
<1>2. Verify(log) = -1
  BY LogIsReading DEF Intact
<1> QED
  BY <1>1, <1>2, VerifyMeans

LEMMA IntactWhole ==
  ASSUME RowsInv, Intact
  PROVE  Whole
<1> SUFFICES ASSUME NEW i \in DOMAIN log
             PROVE  log[i].at = log[i].id
  BY DEF Whole
<1>1. Hash(log[i]) = log[i].hash
  BY IntactMeans DEF Broken
<1>2. log[i].hash = <<log[i].id, log[i].id, log[i].org, Joined(log[i]), log[i].prev>>
  BY DEF RowsInv, Sealed
<1> QED
  BY <1>1, <1>2 DEF Hash

\* In Postgres a log that verifies was inserted in the order of its times.
LEMMA IntactSorted ==
  ASSUME RowsInv, Intact, Store = "postgres",
         NEW i \in DOMAIN log, NEW j \in DOMAIN log, j < i
  PROVE  log[j].at <= log[i].at
<1>1. log \in Readings
  BY LogIsReading
<1>2. PICK q \in [DOMAIN log -> DOMAIN log] :
        /\ \A k, m \in DOMAIN log : k < m => log[q[k]].at <= log[q[m]].at
        /\ log = [k \in DOMAIN log |-> log[q[k]]]
  BY <1>1 DEF Readings
<1>3. log[i] = log[q[i]] /\ log[j] = log[q[j]]
  BY <1>2
<1> QED
  BY <1>2, <1>3

Join(r, d) == r \o <<Bar>> \o d

\* The parts of a joined text.
LEMMA JoinedParts ==
  ASSUME NEW T, NEW r \in Seq(T), NEW d \in Seq(T), NEW b \in T,
         NEW x, x = r \o <<b>> \o d
  PROVE  /\ Len(x) = Len(r) + 1 + Len(d)
         /\ \A k \in 1 .. Len(r) : x[k] = r[k]
         /\ x[Len(r) + 1] = b
         /\ \A k \in 1 .. Len(d) : x[Len(r) + 1 + k] = d[k]
  OBVIOUS

\* Two pairs of texts that are one when joined are the same pair, unless the
\* text between the two separators was moved from one to the other.
LEMMA JoinedSplits ==
  ASSUME NEW r \in Seq(Tokens), NEW d \in Seq(Tokens),
         NEW s \in Seq(Tokens), NEW e \in Seq(Tokens),
         Join(r, d) = Join(s, e),
         ~(HasBar(r) /\ HasBar(e)), ~(HasBar(d) /\ HasBar(s))
  PROVE  r = s /\ d = e
<1> DEFINE T == Tokens \cup {Bar}
           x == Join(r, d)
<1>1. /\ r \in Seq(T) /\ d \in Seq(T) /\ s \in Seq(T) /\ e \in Seq(T)
      /\ <<Bar>> \in Seq(T) /\ Len(<<Bar>>) = 1 /\ <<Bar>>[1] = Bar
  <2>1. Tokens \subseteq T
    OBVIOUS
  <2> HIDE DEF T
  <2>2. Seq(Tokens) \subseteq Seq(T)
    BY <2>1, SeqMonotonic
  <2> QED
    BY <2>2 DEF T
<1> HIDE DEF T
<1>2. /\ Len(r) \in Nat /\ Len(d) \in Nat /\ Len(s) \in Nat /\ Len(e) \in Nat
      /\ DOMAIN r = 1 .. Len(r) /\ DOMAIN d = 1 .. Len(d)
      /\ DOMAIN s = 1 .. Len(s) /\ DOMAIN e = 1 .. Len(e)
  BY <1>1
<1>3. /\ Len(x) = Len(r) + 1 + Len(d)
      /\ \A k \in 1 .. Len(r) : x[k] = r[k]
      /\ x[Len(r) + 1] = Bar
      /\ \A k \in 1 .. Len(d) : x[Len(r) + 1 + k] = d[k]
  BY <1>1, JoinedParts DEF Join
<1>4. /\ Len(x) = Len(s) + 1 + Len(e)
      /\ \A k \in 1 .. Len(s) : x[k] = s[k]
      /\ x[Len(s) + 1] = Bar
      /\ \A k \in 1 .. Len(e) : x[Len(s) + 1 + k] = e[k]
  <2> DEFINE y == Join(s, e)
  <2>1. x = y
    OBVIOUS
  <2>2. /\ Len(y) = Len(s) + 1 + Len(e)
        /\ \A k \in 1 .. Len(s) : y[k] = s[k]
        /\ y[Len(s) + 1] = Bar
        /\ \A k \in 1 .. Len(e) : y[Len(s) + 1 + k] = e[k]
    BY <1>1, JoinedParts DEF Join
  <2> HIDE DEF x, y
  <2> QED
    BY <2>1, <2>2
<1> HIDE DEF x
<1>5. ~(Len(r) < Len(s))
  <2> SUFFICES ASSUME Len(r) < Len(s)
               PROVE  FALSE
    OBVIOUS
  <2>1. s[Len(r) + 1] = Bar /\ Len(r) + 1 \in DOMAIN s
    BY <1>2, <1>3, <1>4
  <2>2. /\ Len(s) - Len(r) \in 1 .. Len(d)
        /\ Len(r) + 1 + (Len(s) - Len(r)) = Len(s) + 1
    BY <1>2, <1>3, <1>4
  <2>3. d[Len(s) - Len(r)] = Bar
    BY <1>3, <1>4, <2>2
  <2> QED
    BY <1>2, <2>1, <2>2, <2>3 DEF HasBar
<1>6. ~(Len(s) < Len(r))
  <2> SUFFICES ASSUME Len(s) < Len(r)
               PROVE  FALSE
    OBVIOUS
  <2>1. r[Len(s) + 1] = Bar /\ Len(s) + 1 \in DOMAIN r
    BY <1>2, <1>3, <1>4
  <2>2. /\ Len(r) - Len(s) \in 1 .. Len(e)
        /\ Len(s) + 1 + (Len(r) - Len(s)) = Len(r) + 1
    BY <1>2, <1>3, <1>4
  <2>3. e[Len(r) - Len(s)] = Bar
    BY <1>3, <1>4, <2>2
  <2> QED
    BY <1>2, <2>1, <2>2, <2>3 DEF HasBar
<1>7. Len(r) = Len(s) /\ Len(d) = Len(e)
  <2> PICK a \in Nat, b \in Nat, c \in Nat, f \in Nat :
        a = Len(r) /\ b = Len(s) /\ c = Len(d) /\ f = Len(e)
    BY <1>2
  <2>1. a + 1 + c = b + 1 + f /\ ~(a < b) /\ ~(b < a)
    BY <1>3, <1>4, <1>5, <1>6
  <2> QED
    BY <2>1
<1>8. \A k \in 1 .. Len(r) : r[k] = s[k]
  BY <1>3, <1>4, <1>7
<1>9. \A k \in 1 .. Len(d) : d[k] = e[k]
  BY <1>3, <1>4, <1>7
<1> QED
  BY <1>1, <1>7, <1>8, <1>9, SeqEqual

LEMMA JoinedSame ==
  ASSUME NEW row, NEW edit,
         row.resource \in Seq(Tokens), row.detail \in Seq(Tokens),
         edit.resource \in Seq(Tokens), edit.detail \in Seq(Tokens),
         Joined(row) = Joined(edit), ~MayMoveText(row, edit)
  PROVE  row.resource = edit.resource /\ row.detail = edit.detail
<1>1. Join(row.resource, row.detail) = Join(edit.resource, edit.detail)
  BY DEF Joined, Join
<1>2. /\ ~(HasBar(row.resource) /\ HasBar(edit.detail))
      /\ ~(HasBar(row.detail) /\ HasBar(edit.resource))
  BY DEF MayMoveText
<1> QED
  BY <1>1, <1>2, JoinedSplits

\* The hash depends on every field an edit can change.
LEMMA EditDetected ==
  ASSUME RowsInv, Intact, NEW i \in DOMAIN log, NEW e \in Edits(i),
         ~MayMoveText(log[i], e)
  PROVE  /\ Verify([log EXCEPT ![i] = e]) = i - 1
         /\ i < Len(log) => Verify([log EXCEPT ![i] = Rehashed(e)]) = i
<1>1. PICK H : log \in Seq(EntriesOver(H))
  BY DEF RowsInv, TreeInv, Typed
<1> DEFINE n == Len(log)
<1>2. n \in Nat /\ DOMAIN log = 1 .. n /\ \A j \in 1 .. n : log[j] \in EntriesOver(H)
  BY <1>1
<1>3. \A j \in 1 .. n : ~Broken(log, j)
  BY <1>2, IntactMeans
<1>4. /\ e \in [id : 0 .. MaxTime, at : 0 .. MaxTime, org : Orgs,
               resource : Texts, detail : Texts,
               prev : {log[i].prev}, hash : {log[i].hash}]
      /\ e # log[i]
  BY DEF Edits
<1>5. log[i] \in EntriesOver(H)
  BY <1>2
<1>6. e.hash = log[i].hash /\ e.prev = log[i].prev
  BY <1>4
<1>7. Hash(e) # Hash(log[i])
  <2> SUFFICES ASSUME e.id = log[i].id, e.at = log[i].at, e.org = log[i].org,
                      Joined(e) = Joined(log[i])
               PROVE  FALSE
    BY DEF Hash
  <2>1. /\ e = [id |-> e.id, at |-> e.at, org |-> e.org, resource |-> e.resource,
                detail |-> e.detail, prev |-> e.prev, hash |-> e.hash]
        /\ log[i] = [id |-> log[i].id, at |-> log[i].at, org |-> log[i].org,
                     resource |-> log[i].resource, detail |-> log[i].detail,
                     prev |-> log[i].prev, hash |-> log[i].hash]
    BY <1>4, <1>5 DEF EntriesOver
  <2>2. /\ e.resource \in Seq(Tokens) /\ e.detail \in Seq(Tokens)
        /\ log[i].resource \in Seq(Tokens) /\ log[i].detail \in Seq(Tokens)
    BY <1>4, <1>5, ChainAssumption DEF EntriesOver
  <2>3. e.resource = log[i].resource /\ e.detail = log[i].detail
    BY <2>2, JoinedSame
  <2> QED
    BY <1>4, <1>6, <2>1, <2>3
<1>8. Hash(log[i]) = log[i].hash
  BY <1>2, <1>3 DEF Broken
<1>9. Verify([log EXCEPT ![i] = e]) = i - 1
  <2> DEFINE rows == [log EXCEPT ![i] = e]
  <2>1. DOMAIN rows = 1 .. n /\ rows[i] = e /\ \A j \in 1 .. i - 1 : rows[j] = log[j]
    BY <1>2
  <2>2. Broken(rows, i)
    BY <1>6, <1>7, <1>8, <2>1 DEF Broken
  <2> HIDE DEF rows
  <2>3. ASSUME NEW j \in 1 .. i - 1 PROVE ~Broken(rows, j)
    <3>1. j \in 1 .. n /\ (j # 1 => j - 1 \in 1 .. i - 1)
      BY <1>2
    <3>2. ~Broken(log, j)
      BY <1>3, <3>1
    <3> QED
      BY <2>1, <3>1, <3>2 DEF Broken, PrevHash
  <2>4. Verify(rows) = i - 1
    BY <1>2, <2>1, <2>2, <2>3, VerifyFinds
  <2> QED
    BY <2>4 DEF rows
<1>10. ASSUME i < n PROVE Verify([log EXCEPT ![i] = Rehashed(e)]) = i
  <2> DEFINE r == Rehashed(e)
             rows == [log EXCEPT ![i] = r]
  <2>1. r.hash = Hash(r) /\ r.prev = log[i].prev /\ Hash(r) = Hash(e)
    BY <1>4, <1>6 DEF Rehashed, Hash, Joined
  <2>2. /\ DOMAIN rows = 1 .. n
        /\ rows[i] = r
        /\ \A j \in 1 .. n : j # i => rows[j] = log[j]
    BY <1>2
  <2> HIDE DEF r, rows
  <2>3. i + 1 \in 1 .. n /\ i \in 1 .. n
    BY <1>2, <1>10
  <2>4. log[i + 1].prev = log[i].hash
    BY <1>2, <1>3, <2>3 DEF Broken, PrevHash
  <2>5. Broken(rows, i + 1)
    <3>1. rows[i + 1].prev = log[i].hash
      BY <2>2, <2>3, <2>4
    <3>2. PrevHash(rows, i + 1) = r.hash
      BY <2>2, <2>3 DEF PrevHash
    <3> QED
      BY <1>7, <1>8, <2>1, <3>1, <3>2 DEF Broken
  <2>6. ASSUME NEW j \in 1 .. (i + 1) - 1 PROVE ~Broken(rows, j)
    <3>1. j \in 1 .. n /\ (j # 1 => j - 1 \in 1 .. n /\ j - 1 # i)
      BY <1>2, <2>3
    <3>2. ~Broken(log, j)
      BY <1>3, <3>1
    <3>3. PrevHash(rows, j) = PrevHash(log, j)
      BY <2>2, <3>1 DEF PrevHash
    <3>4. rows[j].prev = log[j].prev /\ Hash(rows[j]) = rows[j].hash
      <4>1. CASE j = i
        BY <2>1, <2>2, <4>1
      <4>2. CASE j # i
        BY <2>2, <3>1, <3>2, <4>2 DEF Broken
      <4> QED
        BY <4>1, <4>2
    <3> QED
      BY <3>2, <3>3, <3>4 DEF Broken
  <2>7. Verify(rows) = (i + 1) - 1
    BY <1>2, <2>2, <2>3, <2>5, <2>6, VerifyFinds
  <2> QED
    BY <1>2, <2>3, <2>7 DEF rows, r
<1> QED
  BY <1>9, <1>10

\* Without row i the row after it links past its new neighbour.
LEMMA GapFound ==
  ASSUME RowsInv, Intact, NEW i \in 1 .. Len(log) - 1
  PROVE  Verify(Without(i)) = i - 1
<1> DEFINE n == Len(log)
           rows == Without(i)
<1>1. n \in Nat /\ DOMAIN log = 1 .. n
  BY DEF RowsInv, TreeInv, Typed
<1>2. \A j \in 1 .. n : log[j].prev = PrevHash(log, j) /\ Hash(log[j]) = log[j].hash
  BY <1>1, IntactMeans DEF Broken
<1>3. /\ DOMAIN rows = 1 .. n - 1
      /\ \A j \in 1 .. n - 1 : rows[j] = IF j < i THEN log[j] ELSE log[j + 1]
  BY <1>1 DEF Without
<1>4. i \in 1 .. n /\ i + 1 \in 1 .. n /\ n - 1 \in Nat /\ i \in 1 .. n - 1
  BY <1>1
<1> HIDE DEF n, rows
<1>5. PrevHash(rows, i) = log[i].prev
  <2>1. i # 1 => i - 1 \in 1 .. n - 1 /\ i - 1 < i
    BY <1>1, <1>4
  <2> QED
    BY <1>2, <1>3, <1>4, <2>1 DEF PrevHash
<1>6. rows[i].prev = log[i].hash
  <2>1. log[i + 1].prev = log[i + 1 - 1].hash /\ i + 1 - 1 = i
    BY <1>1, <1>2, <1>4 DEF PrevHash
  <2> QED
    BY <1>3, <1>4, <2>1
<1>7. log[i].hash # log[i].prev
  BY <1>1, <1>4 DEF RowsInv, Sealed
<1>8. Broken(rows, i)
  BY <1>5, <1>6, <1>7 DEF Broken
<1>9. ASSUME NEW j \in 1 .. i - 1
      PROVE  ~Broken(rows, j)
  <2>1. j \in 1 .. n /\ j \in 1 .. n - 1 /\ j < i
        /\ (j # 1 => j - 1 \in 1 .. n - 1 /\ j - 1 < i)
    BY <1>1, <1>4
  <2>2. rows[j] = log[j] /\ PrevHash(rows, j) = PrevHash(log, j)
    BY <1>3, <2>1 DEF PrevHash
  <2> QED
    BY <1>2, <2>1, <2>2 DEF Broken
<1>10. Verify(rows) = i - 1
  BY <1>3, <1>4, <1>8, <1>9, VerifyFinds
<1> QED
  BY <1>10 DEF rows

\* As long as a log verifies, Verify finds any later edit of one of its rows
\* at that row, and at the next one if the edit also repairs the row's own
\* hash; however the rows came about, and in either store. Only text with a
\* "|" in it could have been moved from the resource to the detail or back.
THEOREM EditsDetected == Spec => []TamperDetected
<1>1. RowsInv => TamperDetected
  BY EditDetected DEF TamperDetected
<1> QED
  BY <1>1, RowsHold, PTL

\* As long as a log verifies, Verify finds the place of a row that is taken
\* out from before the end. This rests on Sealed: no row could take the place
\* of the one it links to.
THEOREM GapsDetected == Spec => []GapDetected
<1>1. RowsInv => GapDetected
  BY GapFound DEF GapDetected
<1> QED
  BY <1>1, RowsHold, PTL

\* A log that verifies was written as if appends took turns: however entries
\* were stamped, inserted, lost or linked across each other, rows in another
\* order than that of their insertion do not pass.
THEOREM CrossingsShow == Spec => []VerifiesInOrder
<1>1. RowsInv => VerifiesInOrder
  <2> SUFFICES ASSUME RowsInv, Intact, NEW i \in DOMAIN log
               PROVE  /\ log[i].prev = PrevHash(log, i)
                      /\ Store = "postgres" => \A j \in 1 .. i - 1 : log[j].at < log[i].at
    BY DEF VerifiesInOrder
  <2>1. ~Broken(log, i)
    BY IntactMeans
  <2>2. ASSUME Store = "postgres", NEW j \in 1 .. i - 1
        PROVE  log[j].at < log[i].at
    <3>1. j \in DOMAIN log /\ j < i
      BY DEF RowsInv, TreeInv, Typed
    <3>2. log[j].at <= log[i].at
      BY <2>2, <3>1, IntactSorted
    <3>3. log[j].at = log[j].id /\ log[i].at = log[i].id
      BY <3>1, IntactWhole DEF Whole
    <3>4. log[j].id # log[i].id /\ log[j].id \in Nat /\ log[i].id \in Nat
      BY <2>2, <3>1 DEF RowsInv, Clocked
    <3> QED
      BY <3>2, <3>3, <3>4
  <2> QED
    BY <2>1, <2>2 DEF Broken
<1> QED
  BY <1>1, RowsHold, PTL

-----------------------------------------------------------------------------
(* How far overlapping appends fork the chain (Memory store).              *)

Unique(i) == \A k \in DOMAIN log : log[k].hash = log[i].hash => k = i

Kids(h) == {j \in DOMAIN log : log[j].prev = h}

\* The appenders that are about to link to hash h.
Holders(h) == {a \in Appenders : job[a].pc # "idle" /\ job[a].prev = h}

\* Only the last row is handed out to link to. Those who hold the hash of an
\* earlier one and those who have linked to it are different appenders, in
\* the sense that each of them was there when it was the last.
NarrowAt(i) ==
  IF i = Len(log) THEN Kids(log[i].hash) = {}
  ELSE Cardinality(Kids(log[i].hash)) + Cardinality(Holders(log[i].hash))
         <= Cardinality(Appenders)

Narrow == \A i \in DOMAIN log : Unique(i) => NarrowAt(i)

LEMMA ForkFinite ==
  ASSUME RowsInv, NEW h
  PROVE  /\ IsFiniteSet(Kids(h)) /\ Cardinality(Kids(h)) \in Nat
         /\ IsFiniteSet(Holders(h)) /\ Cardinality(Holders(h)) \in Nat
         /\ Cardinality(Holders(h)) <= Cardinality(Appenders)
         /\ Cardinality(Appenders) \in Nat
<1>1. IsFiniteSet(1 .. Len(log)) /\ DOMAIN log = 1 .. Len(log)
  <2>1. Len(log) \in Int /\ DOMAIN log = 1 .. Len(log)
    BY DEF RowsInv, TreeInv, Typed
  <2> QED
    BY <2>1, FS_Interval
<1>2. Kids(h) \in SUBSET (1 .. Len(log)) /\ Holders(h) \in SUBSET Appenders
  BY <1>1 DEF Kids, Holders
<1>3. IsFiniteSet(Appenders)
  BY ChainAssumption
<1> QED
  BY <1>1, <1>2, <1>3, FS_Subset, FS_CardinalityType

LEMMA ReadNarrow ==
  ASSUME Store = "memory", RowsInv, Narrow, NEW a \in Appenders, ReadLatest(a)
  PROVE  Narrow'
<1>1. Len(log) \in Nat /\ DOMAIN log = 1 .. Len(log)
  BY DEF RowsInv, TreeInv, Typed
<1>2. PICK prev : /\ job' = [job EXCEPT ![a] = [pc |-> "linked", prev |-> prev, at |-> 0]]
                  /\ prev = Genesis \/ (Len(log) >= 1 /\ prev = log[Len(log)].hash)
  <2>1. PICK prev \in IF log = << >> THEN {Genesis} ELSE {LinkTo(i) : i \in Latest} :
          job' = [job EXCEPT ![a] = [pc |-> "linked", prev |-> prev, at |-> 0]]
    BY DEF ReadLatest
  <2>2. log # << >> => Len(log) >= 1
    BY DEF RowsInv, TreeInv, Typed
  <2> QED
    BY <2>1, <2>2 DEF Latest, LinkTo
<1>3. log' = log /\ job[a].pc = "idle" /\ DOMAIN job = Appenders
  BY DEF ReadLatest, RowsInv, TreeInv, Typed
<1>4. ASSUME NEW i \in DOMAIN log, Unique(i), i # Len(log)
      PROVE  Holders(log[i].hash)' = Holders(log[i].hash)
  <2>1. prev # log[i].hash
    <3>1. log[i].hash # Genesis
      <4>1. log[i].hash = <<log[i].id, log[i].id, log[i].org, Joined(log[i]),
                            log[i].prev>>
        BY DEF RowsInv, Sealed
      <4> QED
        BY <4>1 DEF Genesis
    <3>2. Len(log) >= 1 => log[Len(log)].hash # log[i].hash
      BY <1>1, <1>4 DEF Unique
    <3> QED
      BY <1>2, <3>1, <3>2
  <2>2. \A b \in Appenders :
          job'[b].pc # "idle" /\ job'[b].prev = log[i].hash <=>
            job[b].pc # "idle" /\ job[b].prev = log[i].hash
    BY <1>2, <1>3, <2>1
  <2> QED
    BY <1>3, <2>2 DEF Holders
<1>5. \A i \in DOMAIN log : Unique(i)' <=> Unique(i)
  BY <1>3 DEF Unique
<1>6. \A h : Kids(h)' = Kids(h)
  BY <1>3 DEF Kids
<1>7. ASSUME NEW i \in DOMAIN log, Unique(i)
      PROVE  NarrowAt(i)'
  <2> PICK h : h = log[i].hash
    OBVIOUS
  <2>1. NarrowAt(i)
    BY <1>7 DEF Narrow
  <2>2. Kids(h)' = Kids(h) /\ (i # Len(log) => Holders(h)' = Holders(h))
    BY <1>3, <1>4, <1>6, <1>7 DEF Holders
  <2> QED
    BY <1>3, <2>1, <2>2 DEF NarrowAt
<1> QED
  BY <1>3, <1>5, <1>7 DEF Narrow

LEMMA WriteNarrow ==
  ASSUME Store = "memory", RowsInv, Narrow, NEW a \in Appenders, WriteEntry(a)
  PROVE  Narrow'
<1>1. PICK r : Extended(a, r)
  <2>1. ~UNCHANGED log
    <3>1. \E c \in Contents :
            log' = Append(log, Stored(NewEntry(job[a].at, c, job[a].prev)))
      BY DEF WriteEntry
    <3>2. PICK e : log' = Append(log, e)
      BY <3>1
    <3>3. PICK H : log \in Seq(H)
      BY DEF RowsInv, TreeInv, Typed
    <3>4. Len(log') = Len(log) + 1 /\ Len(log) \in Nat
      BY <3>2, <3>3
    <3> QED
      BY <3>4
  <2> QED
    BY <2>1, WriteExtends DEF RowsInv, TreeInv
<1> DEFINE n == Len(log)
<1>2. /\ n \in Nat /\ DOMAIN log = 1 .. n /\ DOMAIN log' = 1 .. n + 1
      /\ \A i \in 1 .. n : log'[i] = log[i]
      /\ log'[n + 1] = r /\ r.prev = job[a].prev
      /\ Len(log') = n + 1
  <2>1. Len(log') = n + 1
    <3>1. RowsInv'
      BY RowsStep DEF Next
    <3>2. DOMAIN log' = 1 .. Len(log') /\ Len(log') \in Nat
      BY <3>1 DEF RowsInv, TreeInv, Typed
    <3> QED
      BY <1>1, <3>2 DEF Extended
  <2> QED
    BY <1>1, <2>1 DEF Extended, Recorded
<1>3. RowsInv'
  BY RowsStep DEF Next
<1>4. job' = [job EXCEPT ![a] = Idle] /\ job[a].pc = "stamped" /\ DOMAIN job = Appenders
  BY DEF WriteEntry, RowsInv, TreeInv, Typed
<1> HIDE DEF n
<1>5. ASSUME NEW i \in 1 .. n + 1, Unique(i)'
      PROVE  NarrowAt(i)'
  <2>1. CASE i = n + 1
    <3>1. Sealed' /\ LinksStored'
      BY <1>3 DEF RowsInv, TreeInv
    <3>2. Kids(log[i].hash)' = {}
      <4> SUFFICES ASSUME NEW j \in 1 .. n + 1, log'[j].prev = log'[i].hash
                   PROVE  FALSE
        BY <1>2 DEF Kids
      <4>1. log'[i].hash = <<log'[i].id, log'[i].id, log'[i].org, Joined(log'[i]),
                             log'[i].prev>>
        BY <1>2, <3>1 DEF Sealed
      <4>2. log'[j].prev # Genesis
        BY <4>1 DEF Genesis
      <4>3. PICK k \in 1 .. j - 1 : log'[k].hash = log'[j].prev
        BY <1>2, <3>1, <4>2 DEF LinksStored, Genesis
      <4>4. k \in 1 .. n + 1 /\ k # i
        BY <1>2, <2>1
      <4> QED
        BY <1>2, <1>5, <4>3, <4>4 DEF Unique
    <3> QED
      BY <1>2, <2>1, <3>2 DEF NarrowAt
  <2>2. CASE i \in 1 .. n
    <3> PICK h : h = log[i].hash
      OBVIOUS
    <3>1. log'[i].hash = h /\ Unique(i)
      BY <1>2, <1>5, <2>2 DEF Unique
    <3>2. IF r.prev = h THEN Kids(h)' = Kids(h) \cup {n + 1} ELSE Kids(h)' = Kids(h)
      BY <1>2, <2>2 DEF Kids
    <3>3. Holders(h)' = Holders(h) \ {a} /\ (a \in Holders(h) <=> r.prev = h)
      BY <1>2, <1>4 DEF Holders, Idle
    <3>4. /\ IsFiniteSet(Kids(h)) /\ Cardinality(Kids(h)) \in Nat
          /\ IsFiniteSet(Holders(h)) /\ Cardinality(Holders(h)) \in Nat
          /\ Cardinality(Holders(h)) <= Cardinality(Appenders)
          /\ Cardinality(Appenders) \in Nat
      BY ForkFinite
    <3>5. n + 1 \notin Kids(h)
      BY <1>2 DEF Kids
    <3>6. /\ Cardinality(Kids(h) \cup {n + 1}) = Cardinality(Kids(h)) + 1
          /\ Cardinality(Holders(h) \ {a}) = IF a \in Holders(h)
                                             THEN Cardinality(Holders(h)) - 1
                                             ELSE Cardinality(Holders(h))
      BY <3>4, <3>5, FS_AddElement, FS_RemoveElement
    <3>7. Cardinality({}) = 0
      BY FS_EmptySet
    <3>8. IF i = n THEN Kids(h) = {}
          ELSE Cardinality(Kids(h)) + Cardinality(Holders(h)) <= Cardinality(Appenders)
      BY <1>2, <2>2, <3>1 DEF Narrow, NarrowAt, n
    <3>9. Cardinality(Kids(h)') + Cardinality(Holders(h)') <= Cardinality(Appenders)
      <4> PICK k \in Nat, m \in Nat, s \in Nat :
            k = Cardinality(Kids(h)) /\ m = Cardinality(Holders(h)) /\ s = Cardinality(Appenders)
        BY <3>4
      <4>1. CASE r.prev = h
        <5>1. Cardinality(Kids(h)') = k + 1 /\ Cardinality(Holders(h)') = m - 1
          BY <3>2, <3>3, <3>6, <4>1
        <5>2. IF i = n THEN k = 0 ELSE k + m <= s
          BY <3>7, <3>8
        <5> QED
          BY <3>4, <5>1, <5>2
      <4>2. CASE r.prev # h
        <5>1. Cardinality(Kids(h)') = k /\ Cardinality(Holders(h)') = m
          BY <3>2, <3>3, <3>6, <4>2
        <5>2. IF i = n THEN k = 0 ELSE k + m <= s
          BY <3>7, <3>8
        <5> QED
          BY <3>4, <5>1, <5>2
      <4> QED
        BY <4>1, <4>2
    <3>10. Kids(log[i].hash)' = Kids(h)' /\ Holders(log[i].hash)' = Holders(h)'
      BY <3>1 DEF Kids, Holders
    <3> QED
      BY <1>2, <2>2, <3>9, <3>10 DEF NarrowAt
  <2> QED
    BY <1>2, <2>1, <2>2
<1> QED
  BY <1>2, <1>5 DEF Narrow

\* In the Memory store, however appends overlap, an entry is linked to by at
\* most one entry of each appender: Append hands out the last row only, and
\* an appender that holds its hash holds no other.
THEOREM ForksNarrow ==
  ASSUME Store = "memory"
  PROVE  Spec => []ForkWidth
<1>1. Init => Narrow
  BY DEF Init, Narrow
<1>2. RowsInv /\ Narrow /\ [Next]_chainVars => Narrow'
  <2> SUFFICES ASSUME RowsInv, Narrow, [Next]_chainVars
               PROVE  Narrow'
    OBVIOUS
  <2>1. ASSUME UNCHANGED <<log, job>> PROVE Narrow'
    BY <2>1 DEF Narrow, NarrowAt, Unique, Kids, Holders
  <2>2. ASSUME NEW a \in Appenders, ReadLatest(a) \/ WriteEntry(a) \/ Abort(a)
        PROVE  Narrow'
    BY <2>2, ReadNarrow, WriteNarrow DEF Abort
  <2>3. ASSUME NEW a \in Appenders, Stamp(a) PROVE Narrow'
    <3>1. /\ log' = log /\ job[a].pc = "linked"
          /\ job' = [job EXCEPT ![a].pc = "stamped", ![a].at = now]
      BY <2>3 DEF Stamp
    <3>2. DOMAIN job = Appenders /\ \A b \in Appenders : \E H : job[b] \in Jobs(H)
      BY DEF RowsInv, TreeInv, Typed
    <3>3. \A b \in Appenders : /\ job'[b].prev = job[b].prev
                               /\ job'[b].pc # "idle" <=> job[b].pc # "idle"
      BY <3>1, <3>2 DEF Jobs
    <3>4. \A h : Holders(h)' = Holders(h) /\ Kids(h)' = Kids(h)
      BY <3>1, <3>3 DEF Holders, Kids
    <3> QED
      BY <3>1, <3>4 DEF Narrow, NarrowAt, Unique
  <2> QED
    BY <2>1, <2>2, <2>3 DEF Next, Tick, Rest, chainVars
<1>3. RowsInv /\ Narrow => ForkWidth
  <2> SUFFICES ASSUME RowsInv, Narrow, NEW i \in DOMAIN log,
                      \A k \in DOMAIN log : log[k].hash = log[i].hash => k = i
               PROVE  Cardinality({j \in DOMAIN log : log[j].prev = log[i].hash})
                        <= Cardinality(Appenders)
    BY DEF ForkWidth
  <2>1. NarrowAt(i)
    BY DEF Narrow, Unique
  <2>2. /\ Cardinality(Kids(log[i].hash)) \in Nat
        /\ Cardinality(Holders(log[i].hash)) \in Nat
        /\ Cardinality(Appenders) \in Nat
    BY ForkFinite
  <2>3. Cardinality({}) = 0
    BY FS_EmptySet
  <2>4. Cardinality(Kids(log[i].hash)) <= Cardinality(Appenders)
    <3>1. CASE i = Len(log)
      <4>1. Kids(log[i].hash) = {}
        BY <2>1, <3>1 DEF NarrowAt
      <4>2. 0 <= Cardinality(Appenders)
        BY <2>2
      <4> QED
        BY <2>3, <4>1, <4>2, Zenon
    <3>2. CASE i # Len(log)
      <4> PICK k \in Nat, m \in Nat, n \in Nat :
            /\ k = Cardinality(Kids(log[i].hash)) /\ n = Cardinality(Appenders)
            /\ m = Cardinality(Holders(log[i].hash))
        BY <2>2
      <4>1. k + m <= n
        BY <2>1, <3>2 DEF NarrowAt
      <4> QED
        BY <4>1
    <3> QED
      BY <3>1, <3>2
  <2> QED
    BY <2>4 DEF Kids
<1> QED
  BY <1>1, <1>2, <1>3, RowsHold, PTL DEF Spec

-----------------------------------------------------------------------------
(* As long as no two appends have overlapped.                              *)

Linked == \A i \in DOMAIN log : log[i].prev = PrevHash(log, i)

\* The hash in hand is that of the last row.
JobAtEnd ==
  \A a \in Appenders :
    job[a].pc # "idle" =>
      job[a].prev = IF log = << >> THEN Genesis ELSE log[Len(log)].hash

\* Entries are inserted in the order in which they were stamped.
Ordered ==
  /\ \A i, j \in DOMAIN log : i < j => log[i].id <= log[j].id
  /\ \A i \in DOMAIN log : log[i].id <= now
  /\ \A a \in Appenders :
       job[a].pc = "stamped" =>
         job[a].at <= now /\ \A i \in DOMAIN log : log[i].id <= job[a].at

LEMMA OrderedStep ==
  ASSUME RowsInv, Alone, Ordered, [Next]_chainVars
  PROVE  Ordered'
<1>1. /\ now \in Nat
      /\ DOMAIN job = Appenders
      /\ \A a \in Appenders : job[a].at \in Nat
      /\ \A i \in DOMAIN log : log[i].id \in Nat
  BY DEF RowsInv, TreeInv, Typed, Jobs, Clocked
<1>2. ASSUME NEW a \in Appenders, ReadLatest(a) \/ Abort(a) PROVE Ordered'
  <2>1. log' = log /\ now' = now
    BY <1>2 DEF ReadLatest, Abort
  <2>2. \E new : job' = [job EXCEPT ![a] = new] /\ new.pc # "stamped"
    <3>1. CASE ReadLatest(a)
      <4>1. PICK prev : job' = [job EXCEPT ![a] = [pc |-> "linked", prev |-> prev, at |-> 0]]
        BY <3>1 DEF ReadLatest
      <4> DEFINE new == [pc |-> "linked", prev |-> prev, at |-> 0]
      <4>2. new.pc # "stamped" /\ job' = [job EXCEPT ![a] = new]
        BY <4>1
      <4> HIDE DEF new
      <4> QED
        BY <4>2
    <3>2. CASE Abort(a)
      <4>1. Idle.pc # "stamped" /\ job' = [job EXCEPT ![a] = Idle]
        BY <3>2 DEF Abort, Idle
      <4> QED
        BY <4>1
    <3> QED
      BY <1>2, <3>1, <3>2
  <2> QED
    BY <1>1, <2>1, <2>2 DEF Ordered
<1>3. ASSUME NEW a \in Appenders, Stamp(a) PROVE Ordered'
  BY <1>1, <1>3 DEF Stamp, Ordered
<1>4. ASSUME NEW a \in Appenders, WriteEntry(a) PROVE Ordered'
  <2>1. /\ now' = now /\ job' = [job EXCEPT ![a] = Idle] /\ job[a].pc = "stamped"
        /\ \A b \in Appenders : b # a => job[b].pc = "idle"
    BY <1>4 DEF WriteEntry, Alone
  <2>2. CASE UNCHANGED log
    BY <1>1, <2>1, <2>2 DEF Ordered, Idle
  <2>3. CASE ~UNCHANGED log
    <3>1. PICK r : Extended(a, r)
      BY <1>4, <2>3, WriteExtends DEF RowsInv, TreeInv
    <3>2. r.id = job[a].at
      BY <3>1 DEF Extended, Recorded
    <3> QED
      BY <1>1, <2>1, <3>1, <3>2 DEF Ordered, Extended, Idle
  <2> QED
    BY <2>2, <2>3
<1>5. CASE Tick \/ Rest \/ UNCHANGED chainVars
  <2>1. log' = log /\ job' = job /\ (now' = now \/ now' = now + 1)
    BY <1>5 DEF Tick, Rest, chainVars
  <2> QED
    BY <1>1, <2>1 DEF Ordered
<1> QED
  BY <1>2, <1>3, <1>4, <1>5 DEF Next

\* As long as no time was rounded, the latest row is the last one, in either
\* store, and the rows form one chain.
Chained == Whole => Linked /\ JobAtEnd

LEMMA LatestIsLast ==
  ASSUME RowsInv, Ordered, Whole, log # << >>
  PROVE  Latest = {Len(log)}
<1>1. Len(log) \in Nat /\ DOMAIN log = 1 .. Len(log) /\ Len(log) >= 1
  BY DEF RowsInv, TreeInv, Typed
<1>2. CASE Store = "memory"
  BY <1>2 DEF Latest
<1>3. CASE Store = "postgres"
  <2>1. \A i, j \in DOMAIN log : i < j => log[i].at <= log[j].at /\ log[i].at # log[j].at
    BY <1>3 DEF RowsInv, Clocked, Ordered, Whole
  <2>2. \A i \in DOMAIN log : log[i].at \in Nat
    BY DEF RowsInv, Clocked, Whole
  <2>3. ASSUME NEW i \in DOMAIN log
        PROVE  (\A j \in DOMAIN log : log[j].at <= log[i].at) <=> i = Len(log)
    <3>1. CASE i = Len(log)
      <4> SUFFICES ASSUME NEW j \in DOMAIN log
                   PROVE  log[j].at <= log[i].at
        BY <3>1
      <4>1. j < i \/ j = i
        BY <1>1, <3>1
      <4> QED
        BY <2>1, <2>2, <4>1
    <3>2. CASE i # Len(log)
      <4>1. i < Len(log) /\ Len(log) \in DOMAIN log
        BY <1>1, <3>2
      <4>2. log[i].at <= log[Len(log)].at /\ log[i].at # log[Len(log)].at
        BY <2>1, <4>1
      <4>3. ~(log[Len(log)].at <= log[i].at)
        BY <2>2, <4>1, <4>2
      <4> QED
        BY <3>2, <4>1, <4>3
    <3> QED
      BY <3>1, <3>2
  <2> QED
    BY <1>1, <1>3, <2>3 DEF Latest
<1> QED
  BY <1>2, <1>3, ChainAssumption

LEMMA ChainedStep ==
  ASSUME RowsInv, Alone, Ordered, Chained, [Next]_chainVars
  PROVE  Chained'
<1>1. PICK H : /\ Genesis \in H
               /\ log \in Seq(EntriesOver(H))
               /\ job \in [Appenders -> Jobs(H)]
  BY DEF RowsInv, TreeInv, Typed
<1>2. Len(log) \in Nat /\ DOMAIN log = 1 .. Len(log)
  BY <1>1
<1>3. ASSUME NEW a \in Appenders, ReadLatest(a) PROVE Chained'
  <2> SUFFICES ASSUME Whole'
               PROVE  Linked' /\ JobAtEnd'
    BY DEF Chained
  <2>1. log' = log
    BY <1>3 DEF ReadLatest
  <2>2. Whole
    BY <2>1 DEF Whole
  <2>3. job' = [job EXCEPT ![a] = [pc |-> "linked",
                 prev |-> IF log = << >> THEN Genesis ELSE log[Len(log)].hash,
                 at |-> 0]]
    BY <1>3, <2>2, LatestIsLast DEF ReadLatest, LinkTo
  <2>4. JobAtEnd'
    <3>1. JobAtEnd
      BY <2>2 DEF Chained
    <3> QED
      BY <1>1, <2>1, <2>3, <3>1 DEF JobAtEnd
  <2> QED
    BY <2>1, <2>2, <2>4 DEF Chained, Linked, PrevHash
<1>4. ASSUME NEW a \in Appenders, WriteEntry(a) PROVE Chained'
  <2> SUFFICES ASSUME Whole'
               PROVE  Linked' /\ JobAtEnd'
    BY DEF Chained
  <2>1. JobAtEnd'
    <3>1. /\ job' = [job EXCEPT ![a] = Idle]
          /\ \A b \in Appenders : b # a => job[b].pc = "idle"
      BY <1>4 DEF WriteEntry, Alone
    <3>2. ASSUME NEW b \in Appenders PROVE job'[b].pc = "idle"
      <4>1. CASE b = a
        BY <1>1, <3>1, <4>1 DEF Idle
      <4>2. CASE b # a
        BY <1>1, <3>1, <4>2
      <4> QED
        BY <4>1, <4>2
    <3> QED
      BY <3>2 DEF JobAtEnd
  <2>2. CASE UNCHANGED log
    BY <2>1, <2>2 DEF Chained, Whole, Linked, PrevHash
  <2>3. CASE ~UNCHANGED log
    <3>1. PICK r : Extended(a, r)
      BY <1>4, <2>3, WriteExtends DEF RowsInv, TreeInv
    <3>2. Linked /\ JobAtEnd
      <4>1. Whole
        BY <1>2, <3>1 DEF Extended, Whole
      <4> QED
        BY <4>1 DEF Chained
    <3>3. r.prev = IF log = << >> THEN Genesis ELSE log[Len(log)].hash
      BY <1>4, <3>1, <3>2 DEF JobAtEnd, WriteEntry, Extended, Recorded
    <3>4. log = << >> <=> Len(log) = 0
      BY <1>1
    <3>5. r.prev = PrevHash(log', Len(log) + 1)
      BY <3>1, <3>3, <3>4 DEF PrevHash, Extended
    <3>6. ASSUME NEW i \in 1 .. Len(log)
          PROVE  log'[i].prev = PrevHash(log', i)
      <4>1. log[i].prev = PrevHash(log, i)
        BY <1>2, <3>2 DEF Linked
      <4>2. i # 1 => i - 1 \in 1 .. Len(log)
        BY <1>2
      <4>3. PrevHash(log', i) = PrevHash(log, i)
        BY <3>1, <4>2 DEF PrevHash, Extended
      <4> QED
        BY <3>1, <4>1, <4>3 DEF Extended
    <3>7. ASSUME NEW i \in 1 .. Len(log) + 1
          PROVE  log'[i].prev = PrevHash(log', i)
      BY <1>2, <3>1, <3>5, <3>6 DEF Extended
    <3>8. Linked'
      BY <3>1, <3>7 DEF Linked, Extended, PrevHash
    <3> QED
      BY <2>1, <3>8
  <2> QED
    BY <2>2, <2>3
<1>5. ASSUME NEW a \in Appenders, Abort(a) PROVE Chained'
  BY <1>1, <1>5 DEF Abort, Idle, Chained, Whole, Linked, JobAtEnd, PrevHash
<1>7. ASSUME NEW a \in Appenders, Stamp(a) PROVE Chained'
  <2>1. /\ log' = log /\ job[a].pc = "linked"
        /\ job' = [job EXCEPT ![a].pc = "stamped", ![a].at = now]
    BY <1>7 DEF Stamp
  <2>2. \A b \in Appenders : /\ job'[b].prev = job[b].prev
                             /\ job'[b].pc # "idle" => job[b].pc # "idle"
    BY <1>1, <2>1 DEF Jobs
  <2>3. Whole' <=> Whole
    BY <2>1 DEF Whole
  <2>4. Linked' <=> Linked
    BY <2>1 DEF Linked, PrevHash
  <2>5. JobAtEnd => JobAtEnd'
    BY <2>1, <2>2 DEF JobAtEnd
  <2> QED
    BY <2>3, <2>4, <2>5 DEF Chained
<1>6. CASE Tick \/ Rest \/ UNCHANGED chainVars
  BY <1>6 DEF Tick, Rest, chainVars, Chained, Whole, Linked, PrevHash, JobAtEnd
<1> QED
  BY <1>3, <1>4, <1>5, <1>6, <1>7 DEF Next

\* If no time was rounded there is one order in which SearchAudit can return
\* the rows.
LEMMA WholeIsRead ==
  ASSUME RowsInv, Ordered, Whole, NEW rows \in Readings
  PROVE  rows = log
<1>1. Len(log) \in Nat /\ DOMAIN log = 1 .. Len(log)
  BY DEF RowsInv, TreeInv, Typed
<1>2. CASE Store = "memory"
  BY <1>2 DEF Readings
<1>3. CASE Store = "postgres"
  <2> DEFINE n == Len(log)
  <2>1. PICK q \in [DOMAIN log -> DOMAIN log] :
          /\ \A i, j \in DOMAIN log : i # j => q[i] # q[j]
          /\ \A i, j \in DOMAIN log : i < j => log[q[i]].at <= log[q[j]].at
          /\ rows = [i \in DOMAIN log |-> log[q[i]]]
    BY <1>3 DEF Readings
  <2>2. \A i, j \in DOMAIN log : i < j => log[i].at <= log[j].at /\ log[i].at # log[j].at
    <3> USE <1>1
    <3>1. \A i, j \in DOMAIN log : i < j => log[i].id <= log[j].id /\ log[i].id # log[j].id
      BY <1>3 DEF RowsInv, Clocked, Ordered
    <3> QED
      BY <3>1 DEF Whole
  <2>3. \A i \in DOMAIN log : log[i].at \in Nat
    BY DEF RowsInv, Clocked, Whole
  <2>4. ASSUME NEW i \in 1 .. n, NEW j \in 1 .. n, i < j
        PROVE  q[i] < q[j]
    <3>1. q[i] \in 1 .. n /\ q[j] \in 1 .. n /\ q[i] # q[j]
      BY <1>1, <2>1, <2>4
    <3>2. log[q[i]].at <= log[q[j]].at
      BY <1>1, <2>1, <2>4
    <3>3. q[j] < q[i] => log[q[j]].at <= log[q[i]].at /\ log[q[j]].at # log[q[i]].at
      BY <1>1, <2>2, <3>1
    <3>4. log[q[i]].at \in Nat /\ log[q[j]].at \in Nat
      BY <1>1, <2>3, <3>1
    <3> QED
      BY <1>1, <3>1, <3>2, <3>3, <3>4
  <2>5. \A i \in 1 .. n : q[i] = i
    BY <1>1, <2>1, <2>4, OrderedIsIdentity
  <2>6. log = [i \in DOMAIN log |-> log[i]]
    BY DEF RowsInv, TreeInv, Typed
  <2> QED
    BY <1>1, <2>1, <2>5, <2>6
<1> QED
  BY <1>2, <1>3, ChainAssumption

SerialInv == ~overlapped => Alone /\ Ordered /\ Chained

LEMMA SerialStep ==
  ASSUME RowsInv, SerialInv, [ONext]_overlapVars
  PROVE  SerialInv'
<1>1. CASE ONext
  <2> SUFFICES ASSUME ~overlapped'
               PROVE  Alone' /\ Ordered' /\ Chained'
    BY DEF SerialInv
  <2>1. ~overlapped /\ Alone' /\ Next
    BY <1>1 DEF ONext
  <2>2. Alone /\ Ordered /\ Chained
    BY <2>1 DEF SerialInv
  <2> QED
    BY <2>1, <2>2, OrderedStep, ChainedStep
<1>2. CASE UNCHANGED overlapVars
  BY <1>2 DEF overlapVars, chainVars, SerialInv, Alone, Ordered, Chained, Whole,
              Linked, PrevHash, JobAtEnd
<1> QED
  BY <1>1, <1>2

\* However many goroutines log, the log verifies exactly as long as the store
\* kept every time as it was hashed, until two appends have overlapped: in
\* either store and whatever fails.
THEOREM IntactExactlyIfWhole == OSpec => []IntactIffWhole
<1>1. OInit => Init /\ SerialInv
  BY DEF OInit, Init, SerialInv, Alone, Ordered, Chained, Linked, JobAtEnd, Idle
<1>2. [ONext]_overlapVars => [Next]_chainVars
  BY DEF ONext, overlapVars
<1>3. RowsInv /\ SerialInv => IntactIffWhole
  <2> SUFFICES ASSUME RowsInv, Ordered, Chained
               PROVE  Intact <=> Whole
    BY DEF IntactIffWhole, SerialInv
  <2>1. ASSUME Intact PROVE Whole
    BY <2>1, IntactWhole
  <2>2. ASSUME Whole PROVE Intact
    <3>1. \A i \in DOMAIN log : Hash(log[i]) = log[i].hash
      BY <2>2 DEF Whole, RowsInv, Sealed, Hash
    <3>2. \A i \in DOMAIN log : ~Broken(log, i)
      BY <2>2, <3>1 DEF Chained, Linked, Broken
    <3>3. Verify(log) = -1
      BY <3>2 DEF Verify
    <3> QED
      BY <2>2, <3>3, WholeIsRead DEF Intact
  <2> QED
    BY <2>1, <2>2
<1>4. RowsInv /\ SerialInv /\ [ONext]_overlapVars => SerialInv'
  BY SerialStep
<1>5. Spec => []RowsInv
  BY RowsHold
<1> QED
  BY <1>1, <1>2, <1>3, <1>4, <1>5, PTL DEF OSpec, Spec

\* So in the Memory store, which rounds nothing, the log verifies until two
\* appends have overlapped.
THEOREM SerialIntact ==
  ASSUME Store = "memory"
  PROVE  OSpec => [](~overlapped => Intact)
<1>1. RowsInv /\ IntactIffWhole => (~overlapped => Intact)
  BY DEF RowsInv, Clocked, IntactIffWhole, Whole
<1>2. OInit => Init
  BY DEF OInit
<1>3. [ONext]_overlapVars => [Next]_chainVars
  BY DEF ONext, overlapVars
<1>4. Spec => []RowsInv
  BY RowsHold
<1>5. OSpec => []IntactIffWhole
  BY IntactExactlyIfWhole
<1> QED
  BY <1>1, <1>2, <1>3, <1>4, <1>5, PTL DEF OSpec, Spec
=============================================================================
