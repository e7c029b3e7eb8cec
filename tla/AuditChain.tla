----------------------------- MODULE AuditChain -----------------------------
(***************************************************************************)
(* The hash-chained audit log of internal/audit over the audit tables of   *)
(* internal/store.  Chain.Append takes no lock: LatestAudit gives the hash *)
(* to link to, then the clock is read, then AppendAudit stores the entry.  *)
(* Every handler appends in its own goroutine, an appender here, and       *)
(* ignores the error of Append.                                            *)
(*                                                                         *)
(* SHA-256 is idealised: equal hashes only for equal inputs.  The input is *)
(* the fields joined by "|", which is not escaped.  Resource and detail    *)
(* may hold text of the caller with bars in it, so they are sequences of   *)
(* tokens and hashed as the code joins them; every other field is made by  *)
(* the server without bars and is a component of its own (actor and action *)
(* go with the organisation).  The clock is read twice, for the id and for *)
(* the time; one reading stands for both.                                  *)
(***************************************************************************)
EXTENDS Integers, Sequences, FiniteSets

CONSTANTS
  Appenders,   \* goroutines that append
  Orgs,        \* tenants an entry may be tagged with
  Tokens,      \* pieces of text
  Bar,         \* the separator as it may occur in a caller's text
  Texts,       \* what a resource or a detail may hold
  Contents,    \* what handlers log: an org, a resource and a detail
  Store,       \* "memory" or "postgres"
  Micro,       \* clock ticks per microsecond, the precision of TIMESTAMPTZ
  MaxTime,     \* bound: the clock stops here
  MaxEntries   \* bound: number of entries

ASSUME ChainAssumption ==
  /\ IsFiniteSet(Appenders)
  /\ Texts \subseteq Seq(Tokens)
  /\ Contents \subseteq [org : Orgs, resource : Texts, detail : Texts]
  /\ Store \in {"memory", "postgres"}
  /\ Micro \in Nat \ {0}
  /\ MaxTime \in Nat
  /\ MaxEntries \in Nat

VARIABLES
  log,   \* the audit table, in the order of insertion
  now,   \* Chain.Clock
  job    \* per appender: where it is in Append, the hash it will link to and
         \* the time it read

chainVars == <<log, now, job>>

Genesis == << >>   \* the empty prev_hash of the first entry
Idle == [pc |-> "idle", prev |-> Genesis, at |-> 0]

-----------------------------------------------------------------------------
\* What is hashed of resource and detail: two texts can be one when joined.
Joined(e) == e.resource \o <<Bar>> \o e.detail

\* Mutant: the tenant is not hashed.
HashUnscoped(e) == <<e.id, e.at, Joined(e), e.prev>>

Hash(e) == <<e.id, e.at, e.org, Joined(e), e.prev>>

Unhashed(t, c, prev) ==
  [id |-> t, at |-> t, org |-> c.org, resource |-> c.resource,
   detail |-> c.detail, prev |-> prev, hash |-> Genesis]

\* Mutant: the hash is taken before the entry is linked.
NewEntryHashedEarly(t, c, prev) ==
  [Unhashed(t, c, prev) EXCEPT !.hash = Hash(Unhashed(t, c, Genesis))]

\* The entry Append builds of content c.
NewEntry(t, c, prev) ==
  [Unhashed(t, c, prev) EXCEPT !.hash = Hash(Unhashed(t, c, prev))]

\* The row a store keeps: Postgres rounds the time to a microsecond, after
\* the hash was taken over all of it.
Rounded(t) == ((t + Micro \div 2) \div Micro) * Micro
Stored(e) == IF Store = "postgres" THEN [e EXCEPT !.at = Rounded(@)] ELSE e

\* Mutant: the oldest row instead of the newest.
LatestIsOldest == {1}

\* The rows LatestAudit may return: the last one in memory, one with the
\* latest time in Postgres.
Latest ==
  IF Store = "memory" THEN {Len(log)}
  ELSE {i \in DOMAIN log : \A j \in DOMAIN log : log[j].at <= log[i].at}

\* Mutant: the hash is computed anew from the row.
LinkToRecomputed(i) == Hash(log[i])

LinkTo(i) == log[i].hash

-----------------------------------------------------------------------------
Init ==
  /\ log = << >>
  /\ now = 0
  /\ job = [a \in Appenders |-> Idle]

\* Bound: an append starts only while there is room for its entry.
RoomLeft ==
  Len(log) + Cardinality({a \in Appenders : job[a].pc # "idle"}) < MaxEntries

\* LatestAudit, or ErrNotFound of an empty log.
ReadLatest(a) ==
  /\ job[a].pc = "idle"
  /\ RoomLeft
  /\ \E prev \in IF log = << >> THEN {Genesis} ELSE {LinkTo(i) : i \in Latest} :
       job' = [job EXCEPT ![a] = [pc |-> "linked", prev |-> prev, at |-> 0]]
  /\ UNCHANGED <<log, now>>

\* The clock gives the entry its id and its time.
Stamp(a) ==
  /\ job[a].pc = "linked"
  /\ job' = [job EXCEPT ![a].pc = "stamped", ![a].at = now]
  /\ UNCHANGED <<log, now>>

\* AppendAudit.  The id is the clock reading, a primary key in Postgres: an
\* insert with an id already used fails, and the entry is lost.  What the
\* caller logs is chosen here: nothing depends on it before.
WriteEntry(a) ==
  /\ job[a].pc = "stamped"
  /\ \E c \in Contents :
       LET e == NewEntry(job[a].at, c, job[a].prev)
       IN IF Store = "postgres" /\ \E i \in DOMAIN log : log[i].id = e.id
          THEN UNCHANGED log
          ELSE log' = Append(log, Stored(e))
  /\ job' = [job EXCEPT ![a] = Idle]
  /\ UNCHANGED now

\* Postgres only: the first call fails otherwise than with ErrNotFound, the
\* request ends between the two, or the second fails.
Abort(a) ==
  /\ Store = "postgres"
  /\ job[a].pc # "idle"
  /\ job' = [job EXCEPT ![a] = Idle]
  /\ UNCHANGED <<log, now>>

Tick ==
  /\ now < MaxTime
  /\ now' = now + 1
  /\ UNCHANGED <<log, job>>

\* The log is full and the clock has stopped: only the bounds end the run.
Rest ==
  /\ now = MaxTime
  /\ Len(log) = MaxEntries
  /\ UNCHANGED chainVars

Next ==
  \/ \E a \in Appenders : ReadLatest(a) \/ Stamp(a) \/ WriteEntry(a) \/ Abort(a)
  \/ Tick
  \/ Rest

Spec == Init /\ [][Next]_chainVars

-----------------------------------------------------------------------------
PrevHash(rows, i) == IF i = 1 THEN Genesis ELSE rows[i - 1].hash

\* Mutant: links are not followed.
BrokenByHash(rows, i) == Hash(rows[i]) # rows[i].hash

\* Where Verify stops.
Broken(rows, i) ==
  \/ rows[i].prev # PrevHash(rows, i)
  \/ Hash(rows[i]) # rows[i].hash

\* Verify: the index, from 0, of the first broken row, or -1.
Verify(rows) ==
  IF \A i \in DOMAIN rows : ~Broken(rows, i) THEN -1
  ELSE (CHOOSE i \in DOMAIN rows :
          Broken(rows, i) /\ \A j \in 1 .. i - 1 : ~Broken(rows, j)) - 1

\* What SearchAudit may return for the whole log: Postgres sorts by time.
Readings ==
  IF Store = "memory" THEN {log}
  ELSE {[i \in DOMAIN log |-> log[p[i]]] :
          p \in {q \in [DOMAIN log -> DOMAIN log] :
                   /\ \A i, j \in DOMAIN log : i # j => q[i] # q[j]
                   /\ \A i, j \in DOMAIN log :
                        i < j => log[q[i]].at <= log[q[j]].at}}

\* The log that handlers wrote and nobody touched verifies.
Intact == \A rows \in Readings : Verify(rows) = -1

\* The store has kept every time as it was hashed: an id is the reading itself.
Whole == \A i \in DOMAIN log : log[i].at = log[i].id

-----------------------------------------------------------------------------
\* What an edit may make of row i: any of the fields with content changed.
Edits(i) ==
  {e \in [id : 0 .. MaxTime, at : 0 .. MaxTime, org : Orgs,
          resource : Texts, detail : Texts,
          prev : {log[i].prev}, hash : {log[i].hash}] : e # log[i]}

HasBar(text) == \E k \in DOMAIN text : text[k] = Bar

\* Text with a bar in it may have been moved between resource and detail: the
\* hash does not tell where one ends and the other begins.
MayMoveText(row, e) ==
  \/ HasBar(row.resource) /\ HasBar(e.detail)
  \/ HasBar(row.detail) /\ HasBar(e.resource)

Rehashed(e) == [e EXCEPT !.hash = Hash(e)]

Without(i) ==
  [j \in 1 .. Len(log) - 1 |-> IF j < i THEN log[j] ELSE log[j + 1]]

\* Any later edit of a row, its tenant included, is found at that row; if the
\* edit also repairs the row's own hash, at the row that links to it. Excepted
\* are edits that may have moved text with a "|" in it from the resource to
\* the detail or back.
TamperDetected ==
  Intact =>
    \A i \in DOMAIN log : \A e \in Edits(i) :
      ~MayMoveText(log[i], e) =>
        /\ Verify([log EXCEPT ![i] = e]) = i - 1
        /\ i < Len(log) => Verify([log EXCEPT ![i] = Rehashed(e)]) = i

\* A row removed from before the end is found at its place.
GapDetected ==
  Intact => \A i \in 1 .. Len(log) - 1 : Verify(Without(i)) = i - 1

\* Whatever fails and however appends overlap, in either store: what a row
\* links to is the hash stored in a row inserted before it (or it starts the
\* log).
LinksStored ==
  \A i \in DOMAIN log :
    log[i].prev = Genesis \/ \E j \in 1 .. i - 1 : log[j].hash = log[i].prev

\* Entries stamped in one order and inserted in another, or lost, or forked,
\* never pass: a log that verifies in the order of its times was also inserted
\* in that order, each row linked to the one inserted just before it.
VerifiesInOrder ==
  Intact =>
    \A i \in DOMAIN log :
      /\ log[i].prev = PrevHash(log, i)
      /\ Store = "postgres" => \A j \in 1 .. i - 1 : log[j].at < log[i].at

\* However appends overlap, the log is a tree and nothing dangles: every
\* entry hashes to its hash, and links to an entry before it.
EntriesSound ==
  /\ \A i \in DOMAIN log : log[i].hash = Hash(log[i])
  /\ LinksStored

\* Overlapping appends fork the chain at most once per goroutine: no entry is
\* linked to by more entries than there are appenders.
ForkWidth ==
  \A i \in DOMAIN log :
    (\A k \in DOMAIN log : log[k].hash = log[i].hash => k = i) =>
      Cardinality({j \in DOMAIN log : log[j].prev = log[i].hash})
        <= Cardinality(Appenders)
=============================================================================
