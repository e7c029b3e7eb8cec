--------------------------- MODULE TimelineProofs ---------------------------
(***************************************************************************)
(* The timelines of the Memory store, whose copies share backing arrays,   *)
(* for any number of orders, requests and arrays.                          *)
(*                                                                         *)
(* The argument for overlapping requests: an array is shared only by       *)
(* slices of one order (Owned), every slice of a booking has at least two  *)
(* events, and append writes behind the last event of the slice it is      *)
(* given; so the first events are out of reach of every writer.            *)
(* An event reaches a slice of an order only from a handler that is to     *)
(* audit it (LogInv speaks of all slices of an order, stored and copied),  *)
(* so the timelines never show what the audit log will not.                *)
(***************************************************************************)
EXTENDS MemoryTimeline, SerialProofs, SequenceTheorems

\* A worker that holds a copy of an order has a copy of its timeline.
Holding(w) == job[w].pc \in {"loaded", "storing"}

Slice == [arr : Arrays \cup {NilArray}, len : Nat]
Event == States \cup {"none"}

HeapType ==
  /\ heap \in [Arrays -> Seq(Event)]
  /\ tl \in [Orders -> Slice]
  /\ copy \in [Workers -> Slice]

\* Slice s of an order of this kind, in heap h: it lies within its array, its
\* first events are there, and no slot it shows is left unwritten.
Rooted(h, s, kind) ==
  /\ s.arr \in Arrays /\ s.len \in 1 .. Len(h[s.arr])
  /\ h[s.arr][1] = "created"
  /\ kind = "booking" => s.len >= 2 /\ h[s.arr][2] = "confirmed"
  /\ \A i \in 1 .. s.len : h[s.arr][i] # "none"

RowsRooted ==
  \A o \in Orders : IF Exists(o) THEN Rooted(heap, tl[o], orders[o].kind)
                    ELSE tl[o] = NoSlice

CopyRooted(w) ==
  IF Holding(w) THEN /\ job[w].id \in Orders /\ Exists(job[w].id)
                     /\ job[w].row.kind = orders[job[w].id].kind
                     /\ job[w].row.state # "absent"
                     /\ Rooted(heap, copy[w], orders[job[w].id].kind)
  ELSE copy[w] = NoSlice

CopiesRooted == \A w \in Workers : CopyRooted(w)

\* Slices that share an array are slices of one order.
Owned ==
  /\ \A o, p \in Orders : Exists(o) /\ tl[o].arr = tl[p].arr => o = p
  /\ \A w \in Workers, o \in Orders :
       Holding(w) /\ copy[w].arr = tl[o].arr => job[w].id = o
  /\ \A w, v \in Workers :
       Holding(w) /\ Holding(v) /\ copy[w].arr = copy[v].arr => job[w].id = job[v].id

\* A create handler orders what its name says.
KindsKept ==
  \A w \in Workers :
    job[w].pc \in {"counting", "inserting"} =>
      /\ job[w].handler \in {"create", "create_delivery"}
      /\ job[w].row.kind = "booking" => job[w].handler = "create"

HeapInv == HeapType /\ RowsRooted /\ CopiesRooted /\ Owned /\ KindsKept

-----------------------------------------------------------------------------
\* An array to allocate is one that no slice refers to.
LEMMA FreshIsFree ==
  ASSUME HeapType
  PROVE  /\ FreshArray \in Arrays
         /\ \A o \in Orders : tl[o].arr # FreshArray
         /\ \A w \in Workers : copy[w].arr # FreshArray
<1> DEFINE t == [o \in Orders |-> tl[o].arr]
           c == [w \in Workers |-> copy[w].arr]
<1>1. /\ t \in [Orders -> Arrays \cup {NilArray}]
      /\ c \in [Workers -> Arrays \cup {NilArray}]
  BY DEF HeapType, Slice
<1>2. InUse = {t[o] : o \in Orders} \cup {c[w] : w \in Workers}
  BY DEF InUse
<1> HIDE DEF t, c
<1>3. \E a \in Arrays : a \notin InUse
  BY <1>1, <1>2, HeapAssumption
<1>4. FreshArray \in Arrays /\ FreshArray \notin InUse
  BY <1>3 DEF FreshArray
<1> QED
  BY <1>4 DEF InUse

\* What append does for worker w, which ends up with slice c: it writes into
\* the slot behind its copy's last event, or it copies the events it shows to
\* an array that nothing refers to.
InPlace(w, c, event) ==
  /\ c.arr = copy[w].arr
  /\ c.len <= Len(heap[c.arr])
  /\ heap' = [heap EXCEPT ![c.arr] = [@ EXCEPT ![c.len] = event]]

Regrown(w, c, event) ==
  /\ \A o \in Orders : tl[o].arr # c.arr
  /\ \A v \in Workers : copy[v].arr # c.arr
  /\ \E new \in Seq(Event) :
       /\ Len(new) >= c.len
       /\ \A i \in 1 .. copy[w].len : new[i] = heap[copy[w].arr][i]
       /\ new[c.len] = event
       /\ heap' = [heap EXCEPT ![c.arr] = new]

LEMMA AppendShape ==
  ASSUME HeapType, NEW w \in Workers, NEW event \in States, NEW kind,
         Rooted(heap, copy[w], kind), AppendEvent(w, event)
  PROVE  \E c \in Slice : /\ copy' = [copy EXCEPT ![w] = c]
                          /\ c.arr \in Arrays /\ c.len = copy[w].len + 1
                          /\ InPlace(w, c, event) \/ Regrown(w, c, event)
<1> DEFINE s == copy[w]
<1>1. /\ s \in Slice /\ s.arr \in Arrays /\ s.len \in Nat /\ s.len >= 1
      /\ s.len <= Len(heap[s.arr]) /\ heap[s.arr] \in Seq(Event)
  BY DEF HeapType, Rooted, Slice
<1>2. CASE s.len < Cap(s.arr)
  <2> DEFINE c == [s EXCEPT !.len = s.len + 1]
  <2>1. copy' = [copy EXCEPT ![w] = c]
    BY <1>2 DEF AppendEvent, HeapType
  <2>2. c \in Slice /\ c.arr = s.arr /\ c.len = s.len + 1
    BY <1>1 DEF Slice
  <2>3. heap' = [heap EXCEPT ![s.arr][s.len + 1] = event]
    BY <1>2 DEF AppendEvent
  <2> HIDE DEF c
  <2>4. InPlace(w, c, event)
    BY <1>1, <1>2, <2>2, <2>3 DEF InPlace, Cap
  <2> QED
    BY <1>1, <2>1, <2>2, <2>4
<1>3. CASE ~(s.len < Cap(s.arr))
  <2> DEFINE c == [arr |-> FreshArray, len |-> s.len + 1]
             new == [i \in 1 .. 2 * s.len |->
                       IF i <= s.len THEN heap[s.arr][i]
                       ELSE IF i = s.len + 1 THEN event ELSE "none"]
  <2>1. copy' = [copy EXCEPT ![w] = c] /\ heap' = [heap EXCEPT ![FreshArray] = new]
    BY <1>3 DEF AppendEvent
  <2>2. c \in Slice /\ c.arr = FreshArray /\ c.len = s.len + 1
    BY <1>1, FreshIsFree DEF Slice
  <2>3. new \in Seq(Event) /\ Len(new) = 2 * s.len
    <3>1. \A i \in 1 .. s.len : heap[s.arr][i] \in Event
      BY <1>1
    <3>2. \A i \in 1 .. 2 * s.len : new[i] \in Event
      BY <1>1, <3>1 DEF Event
    <3>3. 2 * s.len \in Nat
      BY <1>1
    <3>4. \A n \in Nat : \A f \in [1 .. n -> Event] : f \in Seq(Event) /\ Len(f) = n
      OBVIOUS
    <3>5. new \in [1 .. 2 * s.len -> Event]
      BY <3>2
    <3> HIDE DEF new
    <3> QED
      BY <3>3, <3>4, <3>5
  <2>4. \A i \in 1 .. s.len : new[i] = heap[s.arr][i]
    BY <1>1
  <2>5. new[s.len + 1] = event
    BY <1>1
  <2> HIDE DEF c, new
  <2>6. 2 * s.len >= s.len + 1
    BY <1>1
  <2>7. Len(new) >= c.len /\ new[c.len] = event
    BY <2>2, <2>3, <2>5, <2>6
  <2>8. /\ \A o \in Orders : tl[o].arr # c.arr
        /\ \A v \in Workers : copy[v].arr # c.arr
    BY <2>2, FreshIsFree
  <2>9. heap' = [heap EXCEPT ![c.arr] = new]
    BY <2>1, <2>2
  <2>10. Regrown(w, c, event)
    BY <2>3, <2>4, <2>7, <2>8, <2>9 DEF Regrown
  <2> QED
    BY <2>1, <2>2, <2>10, FreshIsFree
<1> QED
  BY <1>2, <1>3

\* A slice stays rooted while its array is left alone.
LEMMA RootedKept ==
  ASSUME NEW h, NEW g, NEW s, NEW kind, Rooted(h, s, kind), g[s.arr] = h[s.arr]
  PROVE  Rooted(g, s, kind)
  BY DEF Rooted

\* Nor when a slot behind its first events is written, or one of an array that
\* it does not refer to.
LEMMA RootedWritten ==
  ASSUME NEW h \in [Arrays -> Seq(Event)], NEW a \in Arrays, NEW n \in 2 .. Len(h[a]),
         NEW event \in States, NEW s \in Slice, NEW kind, Rooted(h, s, kind),
         s.arr = a /\ kind = "booking" => n >= 3
  PROVE  Rooted([h EXCEPT ![a] = [@ EXCEPT ![n] = event]], s, kind)
<1> DEFINE new == [h[a] EXCEPT ![n] = event]
           g == [h EXCEPT ![a] = new]
<1> SUFFICES Rooted(g, s, kind)
  OBVIOUS
<1>1. /\ new \in Seq(Event) /\ Len(new) = Len(h[a])
      /\ \A i \in 1 .. Len(h[a]) : new[i] = IF i = n THEN event ELSE h[a][i]
  <2>1. h[a] \in Seq(Event) /\ event \in Event /\ n \in 1 .. Len(h[a])
    BY DEF Event
  <2> QED
    BY <2>1, ExceptSeq
<1>2. g[s.arr] = IF s.arr = a THEN new ELSE h[s.arr]
  BY DEF Rooted
<1>3. event # "none" /\ n \in Int /\ s.len \in Nat
  BY DEF States, Slice
<1> HIDE DEF new, g
<1>4. CASE s.arr = a
  BY <1>1, <1>2, <1>3, <1>4 DEF Rooted
<1>5. CASE s.arr # a
  BY <1>2, <1>5, RootedKept
<1> QED
  BY <1>4, <1>5

LEMMA HeapInit == TInit => HeapInv
<1> SUFFICES ASSUME TInit
             PROVE  HeapInv
  OBVIOUS
<1>1. /\ \A w \in Workers : job[w] = Idle /\ copy[w] = NoSlice
      /\ \A o \in Orders : orders[o] = NoRow /\ tl[o] = NoSlice
  BY DEF TInit, Init
<1>2. Idle.pc = "idle" /\ NoRow.state = "absent"
  BY DEF Idle, NoRow
<1>3. HeapType
  <2>1. NoSlice \in Slice
    BY DEF NoSlice, Slice
  <2>2. << >> \in Seq(Event)
    OBVIOUS
  <2> QED
    BY <2>1, <2>2 DEF TInit, HeapType
<1>4. \A w \in Workers : ~Holding(w)
  BY <1>1, <1>2 DEF Holding
<1>5. \A o \in Orders : ~Exists(o)
  BY <1>1, <1>2 DEF Exists
<1> QED
  BY <1>1, <1>2, <1>3, <1>4, <1>5 DEF HeapInv, RowsRooted, CopiesRooted, CopyRooted, Owned,
  KindsKept

-----------------------------------------------------------------------------
(* Each step keeps the invariant.  One worker goes from job[w] to j; the   *)
(* lemmas say what becomes of its slice and of the others.                 *)

\* A worker that touches no slice: it held none and holds none, or it decided
\* without the Machine.
LEMMA UntouchedHeap ==
  ASSUME TypeOK, HeapInv, NEW w \in Workers, NEW j \in Job,
         job' = [job EXCEPT ![w] = j], UNCHANGED <<orders, heap, tl, copy>>,
         \/ ~Holding(w) /\ j.pc \notin {"loaded", "storing"}
         \/ /\ Holding(w) /\ j.pc \in {"loaded", "storing"} /\ j.id = job[w].id
            /\ j.row.kind = job[w].row.kind /\ j.row.state # "absent",
         j.pc \in {"counting", "inserting"} =>
           /\ j.handler \in {"create", "create_delivery"}
           /\ j.row.kind = "booking" => j.handler = "create"
  PROVE  HeapInv'
<1>1. job'[w] = j /\ \A v \in Workers : v # w => job'[v] = job[v]
  BY DEF TypeOK
<1>2. \A v \in Workers : Holding(v)' <=> Holding(v)
  BY <1>1 DEF Holding
<1>3. \A v \in Workers : Holding(v) => /\ job'[v].id = job[v].id
                                       /\ job'[v].row.kind = job[v].row.kind
                                       /\ job'[v].row.state # "absent"
  BY <1>1 DEF HeapInv, CopiesRooted, CopyRooted
<1>4. \A o \in Orders : Exists(o)' <=> Exists(o)
  BY DEF Exists
<1>5. HeapType' /\ RowsRooted'
  BY <1>4 DEF HeapInv, HeapType, RowsRooted
<1>6. CopiesRooted'
  <2> SUFFICES ASSUME NEW v \in Workers
               PROVE  CopyRooted(v)'
    BY DEF CopiesRooted
  <2> USE DEF Exists, CopyRooted
  <2>1. CopyRooted(v)
    BY DEF HeapInv, CopiesRooted
  <2> QED
    BY <1>2, <1>3, <1>4, <2>1
<1>7. Owned'
  <2>1. \A o, p \in Orders : Exists(o)' /\ tl'[o].arr = tl'[p].arr => o = p
    BY <1>4 DEF HeapInv, Owned
  <2>2. \A v \in Workers, o \in Orders :
          Holding(v)' /\ copy'[v].arr = tl'[o].arr => job'[v].id = o
    BY <1>2, <1>3 DEF HeapInv, Owned
  <2>3. \A u, v \in Workers :
          Holding(u)' /\ Holding(v)' /\ copy'[u].arr = copy'[v].arr
            => job'[u].id = job'[v].id
    BY <1>2, <1>3 DEF HeapInv, Owned
  <2> QED
    BY <2>1, <2>2, <2>3 DEF Owned
<1>8. KindsKept'
  BY <1>1 DEF HeapInv, KindsKept
<1> QED
  BY <1>5, <1>6, <1>7, <1>8 DEF HeapInv

\* Accepted rows exist.
LEMMA AcceptedRow ==
  ASSUME NEW h, NEW o, NEW row, Accepted(h, o, row)
  PROVE  row.kind = o.kind /\ row.state \in States
  BY DEF Accepted, States

LEMMA StartHeap ==
  ASSUME TypeOK, HeapInv, NEW w \in Workers, TStart(w)
  PROVE  HeapInv'
<1>1. PICK j \in Job : job' = [job EXCEPT ![w] = j] /\ Ordering(w, j)
  BY OrderingShape DEF TStart
<1>2. UNCHANGED <<orders, heap, tl, copy>>
  BY <1>1 DEF TStart, tlVars, Ordering
<1>3. /\ job[w].pc = "idle" /\ j.pc = "counting"
      /\ j.handler \in {"create", "create_delivery"}
      /\ j.row.kind = "booking" => j.handler = "create"
  BY <1>1 DEF Ordering
<1> QED
  BY <1>1, <1>2, <1>3, UntouchedHeap DEF Holding

LEMMA RestHeap ==
  ASSUME TypeOK, HeapInv, NEW w \in Workers, TRest(w)
  PROVE  HeapInv'
<1>1. CASE CountOrders(w)
  <2>1. PICK j \in Job : job' = [job EXCEPT ![w] = j] /\ Numbering(w, j)
    BY <1>1, NumberingShape
  <2>2. UNCHANGED <<orders, heap, tl, copy>>
    BY <1>1 DEF TRest, tlVars, CountOrders
  <2>3. /\ job[w].pc = "counting" /\ j.pc = "inserting"
        /\ j.handler = job[w].handler /\ j.row = job[w].row
    BY <2>1 DEF Numbering
  <2>4. /\ j.handler \in {"create", "create_delivery"}
        /\ j.row.kind = "booking" => j.handler = "create"
    BY <2>3 DEF HeapInv, KindsKept
  <2> QED
    BY <2>1, <2>2, <2>3, <2>4, UntouchedHeap DEF Holding
<1>2. CASE ReleaseSeat(w)
  <2>1. PICK j \in Job : job' = [job EXCEPT ![w] = j] /\ Releasing(w, j)
    BY <1>2, ReleasingShape
  <2>2. UNCHANGED <<orders, heap, tl, copy>>
    BY <1>2 DEF TRest, tlVars, ReleaseSeat
  <2> QED
    BY <2>1, <2>2, UntouchedHeap DEF Holding, Releasing
<1>3. CASE AppendAudit(w)
  <2>1. job' = [job EXCEPT ![w] = Idle] /\ Idle \in Job /\ Idle.pc = "idle"
    BY <1>3, IdleType DEF AppendAudit, Answer, Idle
  <2>2. UNCHANGED <<orders, heap, tl, copy>>
    BY <1>3 DEF TRest, tlVars, AppendAudit
  <2> QED
    BY <1>3, <2>1, <2>2, UntouchedHeap DEF Holding, AppendAudit
<1> QED
  BY <1>1, <1>2, <1>3 DEF TRest

LEMMA SetStateHeap ==
  ASSUME TypeOK, HeapInv, NEW w \in Workers, TSetState(w)
  PROVE  HeapInv'
<1>1. PICK j \in Job : job' = [job EXCEPT ![w] = j] /\ Deciding(w, j)
  BY DecidingShape DEF TSetState
<1>2. UNCHANGED <<orders, heap, tl, copy>>
  BY <1>1 DEF TSetState, tlVars, Deciding
<1>3. /\ job[w].pc = "loaded" /\ j.pc = "storing" /\ j.id = job[w].id
      /\ j.row.kind = job[w].row.kind /\ j.row.state # "absent"
  BY <1>1, AcceptedRow, AcceptedExists DEF Deciding
<1> QED
  BY <1>1, <1>2, <1>3, UntouchedHeap DEF Holding

LEMMA RefuseHeap ==
  ASSUME TypeOK, HeapInv, NEW w \in Workers, TRefuse(w)
  PROVE  HeapInv'
<1>1. /\ job' = [job EXCEPT ![w] = Idle] /\ copy' = [copy EXCEPT ![w] = NoSlice]
      /\ UNCHANGED <<orders, heap, tl>>
  BY DEF TRefuse, Refuse, Answer
<1>2. /\ job'[w] = Idle /\ copy'[w] = NoSlice
      /\ \A v \in Workers : v # w => job'[v] = job[v] /\ copy'[v] = copy[v]
  BY <1>1 DEF TypeOK, HeapInv, HeapType
<1>3. ~Holding(w)' /\ \A v \in Workers : v # w => (Holding(v)' <=> Holding(v))
  BY <1>2 DEF Holding, Idle
<1>4. \A o \in Orders : Exists(o)' <=> Exists(o)
  BY <1>1 DEF Exists
<1>5. HeapType'
  BY <1>1 DEF HeapInv, HeapType, Slice, NoSlice
<1>6. RowsRooted'
  BY <1>1, <1>4 DEF HeapInv, RowsRooted
<1>7. CopiesRooted'
  <2> SUFFICES ASSUME NEW v \in Workers
               PROVE  CopyRooted(v)'
    BY DEF CopiesRooted
  <2> USE DEF Exists, CopyRooted
  <2>1. CopyRooted(v)
    BY DEF HeapInv, CopiesRooted
  <2> QED
    BY <1>1, <1>2, <1>3, <1>4, <2>1
<1>8. Owned'
  <2>1. \A o, p \in Orders : Exists(o)' /\ tl'[o].arr = tl'[p].arr => o = p
    BY <1>1, <1>4 DEF HeapInv, Owned
  <2>2. \A v \in Workers, o \in Orders :
          Holding(v)' /\ copy'[v].arr = tl'[o].arr => job'[v].id = o
    BY <1>1, <1>2, <1>3 DEF HeapInv, Owned
  <2>3. \A u, v \in Workers :
          Holding(u)' /\ Holding(v)' /\ copy'[u].arr = copy'[v].arr
            => job'[u].id = job'[v].id
    BY <1>2, <1>3 DEF HeapInv, Owned
  <2> QED
    BY <2>1, <2>2, <2>3 DEF Owned
<1>9. KindsKept'
  BY <1>2 DEF HeapInv, KindsKept, Idle
<1> QED
  BY <1>5, <1>6, <1>7, <1>8, <1>9 DEF HeapInv

LEMMA LoadHeap ==
  ASSUME TypeOK, HeapInv, NEW w \in Workers, NEW h \in Handlers, NEW o \in Orders,
         TLoad(w, h, o)
  PROVE  HeapInv'
<1>1. /\ job'[w].pc = "loaded" /\ job'[w].id = o /\ job'[w].row = orders[o]
      /\ \A v \in Workers : v # w => job'[v] = job[v]
  BY DEF TLoad, Load, Idle, TypeOK
<1>2. /\ copy'[w] = tl[o] /\ \A v \in Workers : v # w => copy'[v] = copy[v]
      /\ copy' \in [Workers -> Slice]
  BY DEF TLoad, HeapInv, HeapType
<1>3. Exists(o) /\ UNCHANGED <<orders, heap, tl>> /\ ~Holding(w)
  BY DEF TLoad, Load, Begin, Holding
<1>4. Holding(w)' /\ \A v \in Workers : v # w => (Holding(v)' <=> Holding(v))
  BY <1>1 DEF Holding
<1>5. \A p \in Orders : Exists(p)' <=> Exists(p)
  BY <1>3 DEF Exists
<1>6. HeapType' /\ RowsRooted'
  BY <1>2, <1>3, <1>5 DEF HeapInv, HeapType, RowsRooted
<1>7. CopiesRooted'
  <2> SUFFICES ASSUME NEW v \in Workers
               PROVE  CopyRooted(v)'
    BY DEF CopiesRooted
  <2> USE DEF Exists, CopyRooted
  <2>1. CASE v = w
    BY <1>1, <1>2, <1>3, <1>4, <2>1 DEF HeapInv, RowsRooted
  <2>2. CASE v # w
    <3>1. CopyRooted(v)
      BY DEF HeapInv, CopiesRooted
    <3> QED
      BY <1>1, <1>2, <1>3, <1>4, <2>2, <3>1
  <2> QED
    BY <2>1, <2>2
<1>8. Owned'
  <2>1. \A p, q \in Orders : Exists(p)' /\ tl'[p].arr = tl'[q].arr => p = q
    BY <1>3, <1>5 DEF HeapInv, Owned
  <2>2. \A v \in Workers, p \in Orders :
          Holding(v)' /\ copy'[v].arr = tl'[p].arr => job'[v].id = p
    BY <1>1, <1>2, <1>3, <1>4 DEF HeapInv, Owned
  <2>3. \A u, v \in Workers :
          Holding(u)' /\ Holding(v)' /\ copy'[u].arr = copy'[v].arr
            => job'[u].id = job'[v].id
    <3> SUFFICES ASSUME NEW u \in Workers, NEW v \in Workers, Holding(u)', Holding(v)',
                        copy'[u].arr = copy'[v].arr
                 PROVE  job'[u].id = job'[v].id
      OBVIOUS
    <3>1. CASE u = w /\ v # w
      BY <1>1, <1>2, <1>4, <3>1 DEF HeapInv, Owned
    <3>2. CASE u # w /\ v = w
      BY <1>1, <1>2, <1>4, <3>2 DEF HeapInv, Owned
    <3>3. CASE u # w /\ v # w
      BY <1>1, <1>2, <1>4, <3>3 DEF HeapInv, Owned
    <3> QED
      BY <3>1, <3>2, <3>3
  <2> QED
    BY <2>1, <2>2, <2>3 DEF Owned
<1>9. KindsKept'
  BY <1>1 DEF HeapInv, KindsKept
<1> QED
  BY <1>6, <1>7, <1>8, <1>9 DEF HeapInv

LEMMA StoreHeap ==
  ASSUME TypeOK, HeapInv, NEW w \in Workers, TStore(w)
  PROVE  HeapInv'
<1>1. PICK j \in Job : job' = [job EXCEPT ![w] = j] /\ Storing(w, j)
  BY StoringShape DEF TStore
<1>2. PICK o \in Orders :
        /\ job[w].id = o /\ Exists(o)
        /\ job[w].row.kind = orders[o].kind /\ job[w].row.state # "absent"
        /\ Rooted(heap, copy[w], orders[o].kind) /\ Holding(w)
  BY <1>1 DEF HeapInv, CopiesRooted, CopyRooted, Holding, Storing
<1>3. /\ tl' = [tl EXCEPT ![o] = copy[w]]
      /\ copy' = [copy EXCEPT ![w] = NoSlice]
      /\ orders' = [orders EXCEPT ![o] = job[w].row]
      /\ heap' = heap
  BY <1>1, <1>2 DEF TStore, Storing
<1>4. /\ orders'[o].kind = orders[o].kind /\ orders'[o].state # "absent"
      /\ \A p \in Orders : p # o => orders'[p] = orders[p]
  BY <1>2, <1>3 DEF TypeOK
<1>5. /\ tl'[o] = copy[w] /\ \A p \in Orders : p # o => tl'[p] = tl[p]
      /\ copy'[w] = NoSlice /\ \A v \in Workers : v # w => copy'[v] = copy[v]
      /\ \A v \in Workers : v # w => job'[v] = job[v]
      /\ job'[w].pc \notin {"counting", "inserting", "loaded", "storing"}
  <2>1. j.pc \notin {"counting", "inserting", "loaded", "storing"}
    BY <1>1 DEF Storing, Idle, AfterStore
  <2> QED
    BY <1>1, <1>3, <2>1 DEF TypeOK, HeapInv, HeapType
<1>6. ~Holding(w)' /\ \A v \in Workers : v # w => (Holding(v)' <=> Holding(v))
  BY <1>5 DEF Holding
<1>7. \A p \in Orders : Exists(p)' <=> Exists(p)
  BY <1>2, <1>4 DEF Exists
<1>8. HeapType'
  BY <1>3 DEF HeapInv, HeapType, NoSlice, Slice
<1>9. RowsRooted'
  BY <1>2, <1>3, <1>4, <1>5, <1>7 DEF HeapInv, RowsRooted
<1>10. CopiesRooted'
  <2> SUFFICES ASSUME NEW v \in Workers
               PROVE  CopyRooted(v)'
    BY DEF CopiesRooted
  <2>1. CopyRooted(v)
    BY DEF HeapInv, CopiesRooted
  <2>2. CASE v = w
    BY <1>5, <1>6, <2>2 DEF CopyRooted, NoSlice
  <2>3. CASE v # w /\ Holding(v)
    <3>1. orders'[job[v].id].kind = orders[job[v].id].kind
      BY <1>4, <2>1, <2>3 DEF CopyRooted
    <3>2. orders'[job[v].id].state # "absent"
      BY <1>4, <2>1, <2>3 DEF CopyRooted, Exists
    <3> QED
      BY <1>3, <1>5, <1>6, <2>1, <2>3, <3>1, <3>2 DEF CopyRooted, Exists
  <2>4. CASE v # w /\ ~Holding(v)
    BY <1>5, <1>6, <2>1, <2>4 DEF CopyRooted, NoSlice
  <2> QED
    BY <2>2, <2>3, <2>4
<1>11. Owned'
  <2>1. \A p \in Orders : copy[w].arr = tl[p].arr => p = o
    BY <1>2 DEF HeapInv, Owned
  <2>2. \A p, q \in Orders : Exists(p)' /\ tl'[p].arr = tl'[q].arr => p = q
    <3> SUFFICES ASSUME NEW p \in Orders, NEW q \in Orders,
                        Exists(p), tl'[p].arr = tl'[q].arr
                 PROVE  p = q
      BY <1>7
    <3> QED
      BY <1>5, <2>1 DEF HeapInv, Owned
  <2>3. \A v \in Workers, p \in Orders :
          Holding(v)' /\ copy'[v].arr = tl'[p].arr => job'[v].id = p
    BY <1>2, <1>5, <1>6 DEF HeapInv, Owned
  <2>4. \A u, v \in Workers :
          Holding(u)' /\ Holding(v)' /\ copy'[u].arr = copy'[v].arr
            => job'[u].id = job'[v].id
    BY <1>5, <1>6 DEF HeapInv, Owned
  <2> QED
    BY <2>2, <2>3, <2>4 DEF Owned
<1>12. KindsKept'
  BY <1>5 DEF HeapInv, KindsKept
<1> QED
  BY <1>8, <1>9, <1>10, <1>11, <1>12 DEF HeapInv

\* A new array changes no slice in use.
LEMMA NewArray ==
  ASSUME TypeOK, HeapInv, NEW a \in Arrays, NEW new,
         \A o \in Orders : tl[o].arr # a, \A w \in Workers : copy[w].arr # a
  PROVE  LET g == [heap EXCEPT ![a] = new]
         IN  /\ \A o \in Orders : Exists(o) => Rooted(g, tl[o], orders[o].kind)
             /\ \A w \in Workers :
                  Holding(w) => Rooted(g, copy[w], orders[job[w].id].kind)
<1> DEFINE g == [heap EXCEPT ![a] = new]
<1>1. \A b \in Arrays : b # a => g[b] = heap[b]
  BY DEF HeapInv, HeapType
<1> HIDE DEF g
<1>2. ASSUME NEW o \in Orders, Exists(o)
      PROVE  Rooted(g, tl[o], orders[o].kind)
  <2>1. Rooted(heap, tl[o], orders[o].kind)
    BY <1>2 DEF HeapInv, RowsRooted
  <2>2. g[tl[o].arr] = heap[tl[o].arr]
    BY <1>1, <2>1 DEF Rooted
  <2> QED
    BY <2>1, <2>2, RootedKept
<1>3. ASSUME NEW w \in Workers, Holding(w)
      PROVE  Rooted(g, copy[w], orders[job[w].id].kind)
  <2>1. Rooted(heap, copy[w], orders[job[w].id].kind)
    BY <1>3 DEF HeapInv, CopiesRooted, CopyRooted
  <2>2. g[copy[w].arr] = heap[copy[w].arr]
    BY <1>1, <2>1 DEF Rooted
  <2> QED
    BY <2>1, <2>2, RootedKept
<1> QED
  BY <1>2, <1>3 DEF g

LEMMA InsertHeap ==
  ASSUME TypeOK, HeapInv, NEW w \in Workers, TInsert(w)
  PROVE  HeapInv'
<1> DEFINE a == FreshArray
           new == NewTimeline(w)
           g == [heap EXCEPT ![a] = new]
<1>1. /\ a \in Arrays
      /\ \A o \in Orders : tl[o].arr # a
      /\ \A v \in Workers : copy[v].arr # a
  BY FreshIsFree DEF HeapInv
<1>2. PICK j \in Job : /\ job' = [job EXCEPT ![w] = j]
                       /\ \/ Ending(w, j)
                          \/ \E o \in Orders : \E row \in Row : Inserting(w, j, o, row)
  BY InsertingShape DEF TInsert
<1>3. job[w].pc = "inserting" /\ j.pc \in {"idle", "auditing"}
  BY <1>2 DEF TInsert, InsertOrder, Ending, Inserting, Idle
<1>4. job'[w] = j /\ \A v \in Workers : v # w => job'[v] = job[v]
  BY <1>2 DEF TypeOK
<1>5. /\ ~Holding(w) /\ ~Holding(w)'
      /\ \A v \in Workers : v # w => (Holding(v)' <=> Holding(v))
  BY <1>3, <1>4 DEF Holding
<1>6. /\ new \in Seq(Event) /\ Len(new) \in Nat /\ Len(new) >= 1
      /\ new[1] = "created" /\ \A i \in 1 .. Len(new) : new[i] # "none"
      /\ job[w].handler = "create" => Len(new) >= 2 /\ new[2] = "confirmed"
  <2>1. "created" \in Event /\ "confirmed" \in Event
    BY DEF Event, States
  <2>2. CASE job[w].handler = "create"
    <3>1. new = <<"created", "confirmed">>
      BY <2>2 DEF NewTimeline
    <3> HIDE DEF new
    <3> QED
      BY <2>1, <2>2, <3>1
  <2>3. CASE job[w].handler # "create"
    <3>1. new = <<"created">>
      BY <2>3 DEF NewTimeline
    <3> HIDE DEF new
    <3> QED
      BY <2>1, <2>3, <3>1
  <2> QED
    BY <2>2, <2>3
<1>7. heap' = g /\ copy' = copy
  BY DEF TInsert
<1>8. g \in [Arrays -> Seq(Event)] /\ g[a] = new
  BY <1>1, <1>6 DEF HeapInv, HeapType
<1>9. /\ \A o \in Orders : Exists(o) => Rooted(g, tl[o], orders[o].kind)
      /\ \A v \in Workers : Holding(v) => Rooted(g, copy[v], orders[job[v].id].kind)
  BY <1>1, NewArray
<1>10. KindsKept'
  BY <1>3, <1>4 DEF HeapInv, KindsKept
<1> HIDE DEF g, new, a
<1>11. CASE Ending(w, j)
  <2>1. orders' = orders
    BY <1>11 DEF Ending
  <2>2. tl' = tl
    <3>1. tl' = [o \in Orders |-> tl[o]]
      BY <2>1 DEF TInsert
    <3> QED
      BY <3>1 DEF HeapInv, HeapType
  <2>3. \A o \in Orders : Exists(o)' <=> Exists(o)
    BY <2>1 DEF Exists
  <2>4. HeapType'
    BY <1>7, <1>8, <2>2 DEF HeapInv, HeapType
  <2>5. RowsRooted'
    BY <1>7, <1>9, <2>1, <2>2, <2>3 DEF HeapInv, RowsRooted
  <2>6. CopiesRooted'
    <3> SUFFICES ASSUME NEW v \in Workers
                 PROVE  CopyRooted(v)'
      BY DEF CopiesRooted
    <3>1. CopyRooted(v)
      BY DEF HeapInv, CopiesRooted
    <3> QED
      BY <1>4, <1>5, <1>7, <1>9, <2>1, <3>1 DEF CopyRooted, Exists, NoSlice
  <2>7. Owned'
    BY <1>4, <1>5, <1>7, <2>2, <2>3 DEF HeapInv, Owned
  <2> QED
    BY <1>10, <2>4, <2>5, <2>6, <2>7 DEF HeapInv
<1>12. CASE \E o \in Orders : \E row \in Row : Inserting(w, j, o, row)
  <2>1. PICK o \in Orders, row \in Row : Inserting(w, j, o, row)
    BY <1>12
  <2> DEFINE s == [arr |-> a, len |-> Len(new)]
  <2>2. /\ orders'[o] = row /\ ~Exists(o) /\ row.state # "absent"
        /\ \A p \in Orders : p # o => orders'[p] = orders[p]
        /\ row.kind = "booking" => job[w].handler = "create"
    <3>1. row.kind = "booking" => job[w].handler = "create"
      BY <1>3, <2>1 DEF HeapInv, KindsKept, Inserting
    <3> QED
      BY <2>1, <3>1 DEF Inserting, TypeOK
  <2>3. tl'[o] = s /\ \A p \in Orders : p # o => tl'[p] = tl[p]
    <3>1. \A p \in Orders : tl'[p] = IF orders'[p] = orders[p] THEN tl[p] ELSE s
      BY DEF TInsert, a, new
    <3>2. orders'[o] # orders[o]
      BY <2>2 DEF Exists
    <3> QED
      BY <2>2, <3>1, <3>2
  <2>4. s \in Slice /\ s.arr = a /\ s.len = Len(new)
    BY <1>1, <1>6 DEF Slice
  <2> HIDE DEF s
  <2>5. Exists(o)' /\ \A p \in Orders : p # o => (Exists(p)' <=> Exists(p))
    BY <2>2 DEF Exists
  <2>6. HeapType'
    <3>1. tl' = [p \in Orders |-> tl'[p]]
      BY DEF TInsert
    <3>2. \A p \in Orders : tl'[p] \in Slice
      BY <2>3, <2>4 DEF HeapInv, HeapType
    <3>3. tl' \in [Orders -> Slice]
      BY <3>1, <3>2
    <3> QED
      BY <1>7, <1>8, <3>3 DEF HeapInv, HeapType
  <2>7. Rooted(g, s, row.kind)
    <3>1. g[s.arr] = new /\ s.len = Len(new) /\ s.arr \in Arrays
      BY <1>1, <1>8, <2>4
    <3> QED
      BY <1>6, <2>2, <3>1 DEF Rooted
  <2>8. RowsRooted'
    BY <1>7, <1>9, <2>2, <2>3, <2>5, <2>7 DEF HeapInv, RowsRooted, NoSlice
  <2>9. CopiesRooted'
    <3> SUFFICES ASSUME NEW v \in Workers
                 PROVE  CopyRooted(v)'
      BY DEF CopiesRooted
    <3>1. CopyRooted(v)
      BY DEF HeapInv, CopiesRooted
    <3>2. CASE Holding(v)
      <4>1. job[v].id # o /\ orders'[job[v].id] = orders[job[v].id] /\ v # w
        BY <1>5, <2>2, <3>1, <3>2 DEF CopyRooted
      <4> QED
        BY <1>4, <1>5, <1>7, <1>9, <3>1, <3>2, <4>1 DEF CopyRooted, Exists
    <3>3. CASE ~Holding(v)
      BY <1>5, <1>7, <3>1, <3>3 DEF CopyRooted, NoSlice
    <3> QED
      BY <3>2, <3>3
  <2>10. Owned'
    <3>1. \A p, q \in Orders : Exists(p)' /\ tl'[p].arr = tl'[q].arr => p = q
      BY <1>1, <2>3, <2>4, <2>5 DEF HeapInv, Owned
    <3>2. \A v \in Workers, p \in Orders :
            Holding(v)' /\ copy'[v].arr = tl'[p].arr => job'[v].id = p
      BY <1>1, <1>4, <1>5, <1>7, <2>3, <2>4 DEF HeapInv, Owned
    <3>3. \A u, v \in Workers :
            Holding(u)' /\ Holding(v)' /\ copy'[u].arr = copy'[v].arr
              => job'[u].id = job'[v].id
      BY <1>4, <1>5, <1>7 DEF HeapInv, Owned
    <3> QED
      BY <3>1, <3>2, <3>3 DEF Owned
  <2> QED
    BY <1>10, <2>6, <2>8, <2>9, <2>10 DEF HeapInv
<1> QED
  BY <1>2, <1>11, <1>12

\* append leaves every slice of the tables and of the other workers rooted,
\* and the one it returns.
LEMMA AppendRooted ==
  ASSUME TypeOK, HeapInv, NEW w \in Workers, Holding(w), NEW event \in States,
         NEW c \in Slice, c.arr \in Arrays, c.len = copy[w].len + 1,
         InPlace(w, c, event) \/ Regrown(w, c, event)
  PROVE  /\ heap' \in [Arrays -> Seq(Event)]
         /\ \A o \in Orders : Exists(o) => Rooted(heap', tl[o], orders[o].kind)
         /\ \A v \in Workers :
              Holding(v) => Rooted(heap', copy[v], orders[job[v].id].kind)
         /\ Rooted(heap', c, orders[job[w].id].kind)
         /\ heap'[c.arr][c.len] = event
<1> DEFINE id == job[w].id
           kind == orders[id].kind
           s == copy[w]
<1>1. /\ id \in Orders /\ Exists(id) /\ Rooted(heap, s, kind)
      /\ s \in Slice /\ s.len \in Nat /\ s.len >= 1 /\ c.len \in Nat /\ c.len >= 2
      /\ kind = "booking" => c.len >= 3
  BY DEF HeapInv, CopiesRooted, CopyRooted, HeapType, Rooted, Slice
<1>2. heap \in [Arrays -> Seq(Event)] /\ heap[c.arr] \in Seq(Event)
  BY DEF HeapInv, HeapType
<1>3. \A o \in Orders : Exists(o) => Rooted(heap, tl[o], orders[o].kind)
  BY DEF HeapInv, RowsRooted
<1>4. \A v \in Workers : Holding(v) => Rooted(heap, copy[v], orders[job[v].id].kind)
  BY DEF HeapInv, CopiesRooted, CopyRooted
<1>5. event \in Event /\ event # "none"
  BY DEF Event, States
<1>6. CASE InPlace(w, c, event)
  <2> DEFINE new == [heap[c.arr] EXCEPT ![c.len] = event]
  <2>1. /\ c.arr = s.arr /\ c.len \in 2 .. Len(heap[c.arr])
        /\ heap' = [heap EXCEPT ![c.arr] = [@ EXCEPT ![c.len] = event]]
    BY <1>1, <1>2, <1>6 DEF InPlace
  <2>2. /\ new \in Seq(Event) /\ Len(new) = Len(heap[c.arr])
        /\ \A i \in 1 .. Len(heap[c.arr]) :
             new[i] = IF i = c.len THEN event ELSE heap[c.arr][i]
    <3>1. c.len \in 1 .. Len(heap[c.arr])
      BY <1>2, <2>1
    <3> QED
      BY <1>2, <1>5, <3>1, ExceptSeq
  <2>3. heap' = [heap EXCEPT ![c.arr] = new]
    BY <2>1
  <2> HIDE DEF new
  <2>4. heap' \in [Arrays -> Seq(Event)] /\ heap'[c.arr] = new
    BY <1>2, <2>2, <2>3
  <2>5. \A o \in Orders : Exists(o) => Rooted(heap', tl[o], orders[o].kind)
    <3> SUFFICES ASSUME NEW o \in Orders, Exists(o)
                 PROVE  Rooted(heap', tl[o], orders[o].kind)
      OBVIOUS
    <3>1. tl[o].arr = c.arr => o = id
      BY <2>1 DEF HeapInv, Owned
    <3>2. tl[o].arr = c.arr /\ orders[o].kind = "booking" => c.len >= 3
      BY <1>1, <3>1
    <3>3. tl[o] \in Slice
      BY DEF HeapInv, HeapType
    <3> HIDE DEF id, kind, s
    <3> QED
      BY <1>2, <1>3, <2>1, <3>2, <3>3, RootedWritten
  <2>6. \A v \in Workers : Holding(v) => Rooted(heap', copy[v], orders[job[v].id].kind)
    <3> SUFFICES ASSUME NEW v \in Workers, Holding(v)
                 PROVE  Rooted(heap', copy[v], orders[job[v].id].kind)
      OBVIOUS
    <3>1. copy[v].arr = c.arr => job[v].id = id
      BY <2>1 DEF HeapInv, Owned
    <3>2. copy[v].arr = c.arr /\ orders[job[v].id].kind = "booking" => c.len >= 3
      BY <1>1, <3>1
    <3>3. copy[v] \in Slice
      BY DEF HeapInv, HeapType
    <3> HIDE DEF id, kind, s
    <3> QED
      BY <1>2, <1>4, <2>1, <3>2, <3>3, RootedWritten
  <2>7. Rooted(heap', s, kind)
    BY <2>6
  <2> HIDE DEF kind
  <2>8. Rooted(heap', c, kind)
    BY <1>1, <1>5, <2>1, <2>2, <2>4, <2>7 DEF Rooted
  <2>9. heap'[c.arr][c.len] = event
    BY <1>1, <2>1, <2>2, <2>4
  <2> QED
    BY <2>4, <2>5, <2>6, <2>8, <2>9 DEF kind
<1>7. CASE Regrown(w, c, event)
  <2>1. PICK new \in Seq(Event) :
          /\ Len(new) >= c.len
          /\ \A i \in 1 .. s.len : new[i] = heap[s.arr][i]
          /\ new[c.len] = event
          /\ heap' = [heap EXCEPT ![c.arr] = new]
    BY <1>7 DEF Regrown
  <2>2. heap' \in [Arrays -> Seq(Event)] /\ heap'[c.arr] = new
    BY <1>2, <2>1
  <2>3. /\ \A o \in Orders : Exists(o) => Rooted(heap', tl[o], orders[o].kind)
        /\ \A v \in Workers :
             Holding(v) => Rooted(heap', copy[v], orders[job[v].id].kind)
    BY <1>7, <2>1, NewArray DEF Regrown
  <2> HIDE DEF kind
  <2>4. Rooted(heap', c, kind)
    <3>1. Len(new) \in Nat /\ c.len = s.len + 1
      OBVIOUS
    <3>2. \A i \in 1 .. c.len : i \in 1 .. s.len \/ i = c.len
      BY <1>1, <3>1
    <3>3. new[1] = "created" /\ (kind = "booking" => new[2] = "confirmed")
      BY <1>1, <2>1 DEF Rooted
    <3>4. \A i \in 1 .. c.len : new[i] # "none"
      BY <1>1, <1>5, <2>1, <3>2 DEF Rooted
    <3>5. c.len \in 1 .. Len(new) /\ (kind = "booking" => c.len >= 2)
      BY <1>1, <2>1, <3>1
    <3> QED
      BY <2>2, <3>3, <3>4, <3>5 DEF Rooted
  <2> QED
    BY <2>1, <2>2, <2>3, <2>4 DEF kind
<1> QED
  BY <1>6, <1>7

\* What a transition does: worker w goes to j, with slice c.
LEMMA TransitionShape ==
  ASSUME TypeOK, HeapInv, NEW w \in Workers, TTransition(w)
  PROVE  \E j \in Job : \E c \in Slice :
           /\ job' = [job EXCEPT ![w] = j] /\ Deciding(w, j)
           /\ copy' = [copy EXCEPT ![w] = c]
           /\ c.arr \in Arrays /\ c.len = copy[w].len + 1
           /\ j.row.state \in States \ {"pending_approval"}
           /\ InPlace(w, c, j.row.state) \/ Regrown(w, c, j.row.state)
<1>1. PICK j \in Job : job' = [job EXCEPT ![w] = j] /\ Deciding(w, j)
  BY DecidingShape DEF TTransition
<1>2. job'[w] = j
  BY <1>1 DEF TypeOK
<1>3. j.row.state \in States \ {"pending_approval"} /\ AppendEvent(w, j.row.state)
  BY <1>1, <1>2, AcceptedRow DEF TTransition, Deciding
<1>4. Rooted(heap, copy[w], orders[job[w].id].kind)
  BY <1>1 DEF HeapInv, CopiesRooted, CopyRooted, Holding, Deciding
<1> QED
  BY <1>1, <1>3, <1>4, AppendShape DEF HeapInv

LEMMA TransitionHeap ==
  ASSUME TypeOK, HeapInv, NEW w \in Workers, TTransition(w)
  PROVE  HeapInv'
<1>1. PICK j \in Job, c \in Slice :
           /\ job' = [job EXCEPT ![w] = j] /\ Deciding(w, j)
           /\ copy' = [copy EXCEPT ![w] = c]
           /\ c.arr \in Arrays /\ c.len = copy[w].len + 1
           /\ j.row.state \in States \ {"pending_approval"}
           /\ InPlace(w, c, j.row.state) \/ Regrown(w, c, j.row.state)
  BY TransitionShape
<1>2. /\ job'[w] = j /\ \A v \in Workers : v # w => job'[v] = job[v]
      /\ copy'[w] = c /\ \A v \in Workers : v # w => copy'[v] = copy[v]
      /\ copy' \in [Workers -> Slice]
  BY <1>1 DEF TypeOK, HeapInv, HeapType
<1>3. UNCHANGED <<orders, tl>>
  BY <1>1 DEF TTransition, Deciding
<1>4. /\ j.pc = "storing" /\ j.id = job[w].id /\ job[w].pc = "loaded"
      /\ j.row.kind = job[w].row.kind /\ j.row.state # "absent"
  BY <1>1, AcceptedRow, AcceptedExists DEF Deciding
<1>5. Holding(w) /\ \A v \in Workers : Holding(v)' <=> Holding(v)
  BY <1>2, <1>4 DEF Holding
<1>6. /\ heap' \in [Arrays -> Seq(Event)]
      /\ \A o \in Orders : Exists(o) => Rooted(heap', tl[o], orders[o].kind)
      /\ \A v \in Workers :
           Holding(v) => Rooted(heap', copy[v], orders[job[v].id].kind)
      /\ Rooted(heap', c, orders[job[w].id].kind)
  BY <1>1, <1>5, AppendRooted
<1>7. \A o \in Orders : Exists(o)' <=> Exists(o)
  BY <1>3 DEF Exists
<1>8. HeapType' /\ RowsRooted'
  BY <1>2, <1>3, <1>6, <1>7 DEF HeapInv, HeapType, RowsRooted
<1>9. CopiesRooted'
  <2> SUFFICES ASSUME NEW v \in Workers
               PROVE  CopyRooted(v)'
    BY DEF CopiesRooted
  <2>1. CopyRooted(v)
    BY DEF HeapInv, CopiesRooted
  <2>2. CASE v = w
    BY <1>2, <1>3, <1>4, <1>5, <1>6, <2>1, <2>2 DEF CopyRooted, Exists
  <2>3. CASE v # w
    BY <1>2, <1>3, <1>5, <1>6, <2>1, <2>3 DEF CopyRooted, Exists
  <2> QED
    BY <2>2, <2>3
<1>10. Owned'
  <2>1. /\ \A o \in Orders : c.arr = tl[o].arr => job[w].id = o
        /\ \A v \in Workers : Holding(v) /\ c.arr = copy[v].arr => job[w].id = job[v].id
    <3>1. CASE InPlace(w, c, j.row.state)
      BY <1>5, <3>1 DEF InPlace, HeapInv, Owned
    <3>2. CASE Regrown(w, c, j.row.state)
      BY <3>2 DEF Regrown
    <3> QED
      BY <1>1, <3>1, <3>2
  <2>2. \A o, p \in Orders : Exists(o)' /\ tl'[o].arr = tl'[p].arr => o = p
    BY <1>3, <1>7 DEF HeapInv, Owned
  <2>3. \A v \in Workers, o \in Orders :
          Holding(v)' /\ copy'[v].arr = tl'[o].arr => job'[v].id = o
    BY <1>2, <1>3, <1>4, <1>5, <2>1 DEF HeapInv, Owned
  <2>4. \A u, v \in Workers :
          Holding(u)' /\ Holding(v)' /\ copy'[u].arr = copy'[v].arr
            => job'[u].id = job'[v].id
    BY <1>2, <1>4, <1>5, <2>1 DEF HeapInv, Owned
  <2> QED
    BY <2>2, <2>3, <2>4 DEF Owned
<1>11. KindsKept'
  BY <1>2, <1>4 DEF HeapInv, KindsKept
<1> QED
  BY <1>8, <1>9, <1>10, <1>11 DEF HeapInv

-----------------------------------------------------------------------------
\* The timeline is something more that a step does: BookingService takes a
\* step of its own.
LEMMA StepIsStep == [TNext]_allVars => [Next]_vars
<1> SUFFICES ASSUME [TNext]_allVars
             PROVE  [Next]_vars
  OBVIOUS
<1>1. CASE UNCHANGED allVars
  BY <1>1 DEF allVars
<1>2. ASSUME NEW w \in Workers, TStart(w)
      PROVE  Next
  BY <1>2 DEF TStart, Next
<1>3. ASSUME NEW w \in Workers, NEW h \in Handlers, NEW o \in Orders, TLoad(w, h, o)
      PROVE  Next
  BY <1>3 DEF TLoad, Next
<1>4. ASSUME NEW w \in Workers, TServe(w)
      PROVE  Next
  <2>1. Serve(w)
    BY <1>4 DEF TServe, TInsert, TTransition, TSetState, TStore, TRefuse, TRest, Serve
  <2> QED
    BY <2>1 DEF Next
<1>5. CASE Tick \/ Rest
  BY <1>5 DEF Next
<1> QED
  BY <1>1, <1>2, <1>3, <1>4, <1>5 DEF TNext

LEMMA HeapStep == TypeOK /\ HeapInv /\ [TNext]_allVars => HeapInv'
<1> SUFFICES ASSUME TypeOK, HeapInv, [TNext]_allVars
             PROVE  HeapInv'
  OBVIOUS
<1>1. CASE UNCHANGED <<orders, job, heap, tl, copy>>
  BY <1>1 DEF HeapInv, HeapType, RowsRooted, CopiesRooted, CopyRooted, Owned,
              KindsKept, Holding, Exists
<1>2. ASSUME NEW w \in Workers, TStart(w)
      PROVE  HeapInv'
  BY <1>2, StartHeap
<1>3. ASSUME NEW w \in Workers, NEW h \in Handlers, NEW o \in Orders, TLoad(w, h, o)
      PROVE  HeapInv'
  BY <1>3, LoadHeap
<1>4. ASSUME NEW w \in Workers, TServe(w)
      PROVE  HeapInv'
  BY <1>4, InsertHeap, TransitionHeap, SetStateHeap, StoreHeap, RefuseHeap, RestHeap
     DEF TServe
<1>5. CASE (Tick \/ Rest) /\ UNCHANGED tlVars
  BY <1>1, <1>5 DEF Tick, Rest, vars, tlVars
<1>6. CASE UNCHANGED allVars
  BY <1>1, <1>6 DEF allVars, vars
<1> QED
  BY <1>2, <1>3, <1>4, <1>5, <1>6 DEF TNext

\* MemoryTimeline adds slices to BookingService and takes nothing away, so all
\* that is proved of the handlers holds with timelines.
THEOREM TimelineRunsService == TSpec => Spec
<1>1. TInit => Init
  BY DEF TInit
<1> QED
  BY <1>1, StepIsStep, PTL DEF TSpec, Spec

LEMMA HeapInvHolds == TSpec => [](TypeOK /\ HeapInv)
<1>1. TSpec => []TypeOK
  BY TimelineRunsService, TypeCorrect, PTL
<1> QED
  BY <1>1, HeapInit, HeapStep, PTL DEF TSpec

\* However many requests overlap, a stored timeline begins with the creation
\* (and, for a booking, the confirmation) of its order and shows no slot that
\* was not written, although the copies of the order write into its array.
THEOREM TimelinesRooted == TSpec => []TimelineRooted
<1>1. TypeOK /\ HeapInv => TimelineRooted
  <2> SUFFICES ASSUME TypeOK, HeapInv, NEW o \in Orders, Exists(o)
               PROVE  /\ Events(tl[o])[1] = "created"
                      /\ orders[o].kind = "booking" => Events(tl[o])[2] = "confirmed"
                      /\ \A i \in 1 .. tl[o].len : Events(tl[o])[i] # "none"
    BY DEF TimelineRooted
  <2> DEFINE s == tl[o]
  <2>1. Rooted(heap, s, orders[o].kind)
    BY DEF HeapInv, RowsRooted
  <2>2. s.len \in Nat /\ s.len >= 1 /\ \A i \in 1 .. s.len : heap[s.arr][i] \in Event
    BY <2>1 DEF HeapInv, HeapType, Rooted, Slice
  <2> HIDE DEF s
  <2>3. \A i \in 1 .. s.len - 1 + 1 :
          SubSeq(heap[s.arr], 1, s.len)[i] = heap[s.arr][1 + i - 1]
    BY <2>2, SubSeqProperties
  <2>4. \A i \in 1 .. s.len : Events(s)[i] = heap[s.arr][i]
    BY <2>2, <2>3 DEF Events
  <2> QED
    BY <2>1, <2>2, <2>4 DEF Rooted, s
<1> QED
  BY <1>1, HeapInvHolds, PTL

-----------------------------------------------------------------------------
(* Timelines and the audit log.                                            *)

\* Slice s shows event e somewhere, in heap h.
Shows(h, s, e) == \E i \in 1 .. s.len : h[s.arr][i] = e

\* The stored timeline of order o shows e, or a copy of it does: what a copy
\* shows can be stored at any time.
Shown(o, e) ==
  \/ Shows(heap, tl[o], e)
  \/ \E w \in Workers : Holding(w) /\ job[w].id = o /\ Shows(heap, copy[w], e)

\* The audit log has an entry for doing h to order o, or will have.
Vouches(o, h) == audited[o][h] > 0 \/ \E w \in Workers : Committed(w, o, h)

Vouched(o, e) == \E h \in Appending(e) : Vouches(o, h)

LogInv == \A o \in Orders, e \in Event : Shown(o, e) => Vouched(o, e)

LEMMA AppendingHandlers == \A e : Appending(e) \subseteq Handlers
  BY DEF Appending, Explaining, Handlers

\* A worker that goes to j takes no entry back and forgets none it owes.
LEMMA VouchesKept ==
  ASSUME TypeOK, NEW w \in Workers, NEW j \in Job, job' = [job EXCEPT ![w] = j],
         audited' = audited,
         \A o \in Orders, h \in Handlers : ~Committed(w, o, h) \/ Committed(w, o, h)'
  PROVE  \A o \in Orders, h \in Handlers : Vouches(o, h) => Vouches(o, h)'
<1> SUFFICES ASSUME NEW o \in Orders, NEW h \in Handlers, Vouches(o, h)
             PROVE  Vouches(o, h)'
  OBVIOUS
<1>1. CASE audited[o][h] > 0
  BY <1>1 DEF Vouches
<1>2. ASSUME NEW v \in Workers, Committed(v, o, h)
      PROVE  Committed(v, o, h)'
  <2>1. CASE v = w
    BY <1>2, <2>1
  <2>2. CASE v # w
    <3>1. job'[v] = job[v]
      BY <2>2 DEF TypeOK
    <3> QED
      BY <1>2, <3>1 DEF Committed
  <2> QED
    BY <2>1, <2>2
<1> QED
  BY <1>1, <1>2 DEF Vouches

\* The entry a worker appends is the one it owed.
LEMMA VouchesAudit ==
  ASSUME TypeOK, NEW w \in Workers, AppendAudit(w)
  PROVE  \A o \in Orders, h \in Handlers : Vouches(o, h) => Vouches(o, h)'
<1> SUFFICES ASSUME NEW o \in Orders, NEW h \in Handlers, Vouches(o, h)
             PROVE  Vouches(o, h)'
  OBVIOUS
<1>1. PICK i, k : i = job[w].id /\ k = job[w].handler
  OBVIOUS
<1>2. audited' = [audited EXCEPT ![i][k] = @ + 1]
  BY <1>1 DEF AppendAudit
<1>3. /\ audited'[o][h] = IF o = i /\ h = k THEN audited[o][h] + 1 ELSE audited[o][h]
      /\ audited[o][h] \in Nat
  BY <1>2 DEF TypeOK
<1>4. CASE audited[o][h] > 0
  BY <1>3, <1>4 DEF Vouches
<1>5. ASSUME NEW v \in Workers, Committed(v, o, h)
      PROVE  Vouches(o, h)'
  <2>1. CASE v = w
    <3>1. o = i /\ h = k
      BY <1>1, <1>5, <2>1 DEF Committed
    <3>2. audited'[o][h] > 0
      BY <1>3, <3>1
    <3> QED
      BY <3>2 DEF Vouches
  <2>2. CASE v # w
    <3>1. job'[v] = job[v]
      BY <2>2 DEF TypeOK, AppendAudit, Answer
    <3> QED
      BY <1>5, <3>1 DEF Committed, Vouches
  <2> QED
    BY <2>1, <2>2
<1> QED
  BY <1>4, <1>5 DEF Vouches

LEMMA VouchesStep ==
  ASSUME TypeOK, [TNext]_allVars
  PROVE  \A o \in Orders : \A e : Vouched(o, e) => Vouched(o, e)'
<1>1. SUFFICES \A o \in Orders, h \in Handlers : Vouches(o, h) => Vouches(o, h)'
  BY AppendingHandlers DEF Vouched
<1>2. CASE UNCHANGED <<job, audited>>
  BY <1>2 DEF Vouches, Committed
<1>3. ASSUME NEW w \in Workers, NEW j \in Job, job' = [job EXCEPT ![w] = j],
             audited' = audited,
             \/ job[w].pc \notin {"storing", "releasing", "auditing"}
             \/ Storing(w, j) \/ Releasing(w, j)
      PROVE  \A o \in Orders, h \in Handlers : Vouches(o, h) => Vouches(o, h)'
  <2>1. job'[w] = j
    BY <1>3 DEF TypeOK
  <2>2. \A o \in Orders, h \in Handlers : ~Committed(w, o, h) \/ Committed(w, o, h)'
    <3>1. CASE job[w].pc \notin {"storing", "releasing", "auditing"}
      BY <3>1 DEF Committed
    <3>2. CASE Storing(w, j) /\ job[w].row.state = "pending_approval"
      BY <3>2 DEF Committed, Storing
    <3>3. CASE Storing(w, j) /\ job[w].row.state # "pending_approval"
      <4>1. j.pc \in {"releasing", "auditing"}
        BY <3>3 DEF Storing, AfterStore
      <4> QED
        BY <2>1, <3>3, <4>1 DEF Committed, Storing
    <3>4. CASE Releasing(w, j)
      BY <2>1, <3>4 DEF Committed, Releasing
    <3> QED
      BY <1>3, <3>1, <3>2, <3>3, <3>4
  <2> QED
    BY <1>3, <2>2, VouchesKept
<1>4. ASSUME NEW w \in Workers, TStart(w)
      PROVE  \A o \in Orders, h \in Handlers : Vouches(o, h) => Vouches(o, h)'
  <2>1. PICK j \in Job : job' = [job EXCEPT ![w] = j] /\ Ordering(w, j)
    BY <1>4, OrderingShape DEF TStart
  <2>2. audited' = audited /\ job[w].pc = "idle"
    BY <2>1 DEF Ordering
  <2> QED
    BY <1>3, <2>1, <2>2
<1>5. ASSUME NEW w \in Workers, NEW k \in Handlers, NEW p \in Orders, TLoad(w, k, p)
      PROVE  \A o \in Orders, h \in Handlers : Vouches(o, h) => Vouches(o, h)'
  <2>1. PICK j \in Job : job' = [job EXCEPT ![w] = j] /\ Loading(w, j)
    BY <1>5, LoadingShape DEF TLoad
  <2>2. audited' = audited /\ job[w].pc = "idle"
    BY <2>1 DEF Loading
  <2> QED
    BY <1>3, <2>1, <2>2
<1>6. ASSUME NEW w \in Workers, TInsert(w)
      PROVE  \A o \in Orders, h \in Handlers : Vouches(o, h) => Vouches(o, h)'
  <2>1. PICK j \in Job : job' = [job EXCEPT ![w] = j]
    BY <1>6, InsertingShape DEF TInsert
  <2>2. audited' = audited /\ job[w].pc = "inserting"
    BY <1>6 DEF TInsert, InsertOrder
  <2> QED
    BY <1>3, <2>1, <2>2
<1>7. ASSUME NEW w \in Workers, TTransition(w) \/ TSetState(w)
      PROVE  \A o \in Orders, h \in Handlers : Vouches(o, h) => Vouches(o, h)'
  <2>1. PICK j \in Job : job' = [job EXCEPT ![w] = j] /\ Deciding(w, j)
    BY <1>7, DecidingShape DEF TTransition, TSetState
  <2>2. audited' = audited /\ job[w].pc = "loaded"
    BY <2>1 DEF Deciding
  <2> QED
    BY <1>3, <2>1, <2>2
<1>8. ASSUME NEW w \in Workers, TStore(w)
      PROVE  \A o \in Orders, h \in Handlers : Vouches(o, h) => Vouches(o, h)'
  <2>1. PICK j \in Job : job' = [job EXCEPT ![w] = j] /\ Storing(w, j)
    BY <1>8, StoringShape DEF TStore
  <2> QED
    BY <1>3, <2>1 DEF Storing
<1>9. ASSUME NEW w \in Workers, TRefuse(w)
      PROVE  \A o \in Orders, h \in Handlers : Vouches(o, h) => Vouches(o, h)'
  <2>1. job' = [job EXCEPT ![w] = Idle] /\ audited' = audited /\ job[w].pc = "loaded"
    BY <1>9 DEF TRefuse, Refuse, Answer
  <2> QED
    BY <1>3, <2>1, IdleType
<1>10. ASSUME NEW w \in Workers, TRest(w)
       PROVE  \A o \in Orders, h \in Handlers : Vouches(o, h) => Vouches(o, h)'
  <2>1. CASE CountOrders(w)
    <3>1. PICK j \in Job : job' = [job EXCEPT ![w] = j] /\ Numbering(w, j)
      BY <2>1, NumberingShape
    <3>2. audited' = audited /\ job[w].pc = "counting"
      BY <3>1 DEF Numbering
    <3> QED
      BY <1>3, <3>1, <3>2
  <2>2. CASE ReleaseSeat(w)
    <3>1. PICK j \in Job : job' = [job EXCEPT ![w] = j] /\ Releasing(w, j)
      BY <2>2, ReleasingShape
    <3> QED
      BY <1>3, <3>1 DEF Releasing
  <2>3. CASE AppendAudit(w)
    BY <2>3, VouchesAudit
  <2> QED
    BY <1>10, <2>1, <2>2, <2>3 DEF TRest
<1> QED
  BY <1>2, <1>4, <1>5, <1>6, <1>7, <1>8, <1>9, <1>10
     DEF TNext, TServe, Tick, Rest, vars, allVars
\* A step that shows an event of an order for the first time has it vouched.
NothingUnvouched ==
  \A o \in Orders, e \in Event : Shown(o, e)' => Shown(o, e) \/ Vouched(o, e)'

\* No slice changes, and no worker has a copy that it did not have.
LEMMA ShownQuietly ==
  ASSUME UNCHANGED <<heap, tl>>,
         \A v \in Workers : Holding(v)' =>
           Holding(v) /\ job'[v].id = job[v].id /\ copy'[v] = copy[v]
  PROVE  NothingUnvouched
  BY DEF NothingUnvouched, Shown, Shows

LEMMA ShownByLoad ==
  ASSUME TypeOK, HeapInv, NEW w \in Workers, NEW h \in Handlers, NEW o \in Orders,
         TLoad(w, h, o)
  PROVE  NothingUnvouched
<1>1. /\ job'[w].id = o /\ copy'[w] = tl[o] /\ UNCHANGED <<heap, tl>>
      /\ \A v \in Workers : v # w => job'[v] = job[v] /\ copy'[v] = copy[v]
  BY DEF TLoad, Load, Idle, TypeOK, HeapInv, HeapType
<1> SUFFICES ASSUME NEW p \in Orders, NEW e \in Event, Shown(p, e)'
             PROVE  Shown(p, e)
  BY DEF NothingUnvouched
<1>2. CASE Shows(heap, tl[p], e)'
  BY <1>1, <1>2 DEF Shown, Shows
<1>3. ASSUME NEW v \in Workers, Holding(v)', job'[v].id = p, Shows(heap, copy[v], e)'
      PROVE  Shown(p, e)
  <2>1. CASE v = w
    BY <1>1, <1>3, <2>1 DEF Shown, Shows
  <2>2. CASE v # w
    <3>1. Holding(v) /\ job[v].id = p /\ Shows(heap, copy[v], e)
      BY <1>1, <1>3, <2>2 DEF Holding, Shows
    <3> QED
      BY <3>1 DEF Shown
  <2> QED
    BY <2>1, <2>2
<1> QED
  BY <1>2, <1>3 DEF Shown

LEMMA ShownByStore ==
  ASSUME TypeOK, HeapInv, NEW w \in Workers, TStore(w)
  PROVE  NothingUnvouched
<1>1. PICK j \in Job : job' = [job EXCEPT ![w] = j] /\ Storing(w, j)
  BY StoringShape DEF TStore
<1>2. PICK o \in Orders : o = job[w].id /\ Holding(w)
  BY <1>1 DEF HeapInv, CopiesRooted, CopyRooted, Holding, Storing
<1>3. /\ tl'[o] = copy[w] /\ heap' = heap
      /\ \A p \in Orders : p # o => tl'[p] = tl[p]
      /\ \A v \in Workers : v # w => job'[v] = job[v] /\ copy'[v] = copy[v]
  BY <1>1, <1>2 DEF TStore, TypeOK, HeapInv, HeapType
<1>4. ~Holding(w)'
  <2>1. job'[w] = j /\ j.pc \notin {"loaded", "storing"}
    BY <1>1 DEF Storing, AfterStore, Idle, TypeOK
  <2> QED
    BY <2>1 DEF Holding
<1> SUFFICES ASSUME NEW p \in Orders, NEW e \in Event, Shown(p, e)'
             PROVE  Shown(p, e)
  BY DEF NothingUnvouched
<1>5. CASE Shows(heap, tl[p], e)'
  <2>1. CASE p = o
    BY <1>2, <1>3, <1>5, <2>1 DEF Shown, Shows
  <2>2. CASE p # o
    BY <1>3, <1>5, <2>2 DEF Shown, Shows
  <2> QED
    BY <2>1, <2>2
<1>6. ASSUME NEW v \in Workers, Holding(v)', job'[v].id = p, Shows(heap, copy[v], e)'
      PROVE  Shown(p, e)
  <2>1. v # w /\ job'[v] = job[v] /\ copy'[v] = copy[v]
    BY <1>3, <1>4, <1>6
  <2>2. Holding(v) /\ job[v].id = p /\ Shows(heap, copy[v], e)
    BY <1>3, <1>6, <2>1 DEF Holding, Shows
  <2> QED
    BY <2>2 DEF Shown
<1> QED
  BY <1>5, <1>6 DEF Shown

\* Slices in use show what they did when an array none of them has is written.
LEMMA ShownElsewhere ==
  ASSUME TypeOK, HeapInv, NEW a \in Arrays, NEW new, heap' = [heap EXCEPT ![a] = new],
         NEW e
  PROVE  /\ \A o \in Orders :
              tl[o].arr # a /\ Shows(heap', tl[o], e) => Shows(heap, tl[o], e)
         /\ \A v \in Workers :
              Holding(v) /\ copy[v].arr # a /\ Shows(heap', copy[v], e)
                => Shows(heap, copy[v], e)
<1>1. \A b \in Arrays : b # a => heap'[b] = heap[b]
  BY DEF HeapInv, HeapType
<1>2. ASSUME NEW o \in Orders, tl[o].arr # a, Shows(heap', tl[o], e)
      PROVE  Shows(heap, tl[o], e)
  <2>1. CASE Exists(o)
    BY <1>1, <1>2, <2>1 DEF HeapInv, RowsRooted, Rooted, Shows
  <2>2. CASE ~Exists(o)
    BY <1>2, <2>2 DEF HeapInv, RowsRooted, NoSlice, Shows
  <2> QED
    BY <2>1, <2>2
<1>3. ASSUME NEW v \in Workers, Holding(v), copy[v].arr # a, Shows(heap', copy[v], e)
      PROVE  Shows(heap, copy[v], e)
  BY <1>1, <1>3 DEF HeapInv, CopiesRooted, CopyRooted, Rooted, Shows
<1> QED
  BY <1>2, <1>3

LEMMA ShownByInsert ==
  ASSUME TypeOK, HeapInv, NEW w \in Workers, TInsert(w)
  PROVE  NothingUnvouched
<1>1. PICK a \in Arrays :
        /\ a = FreshArray
        /\ \A o \in Orders : tl[o].arr # a
        /\ \A v \in Workers : copy[v].arr # a
  BY FreshIsFree DEF HeapInv
<1>2. PICK new : new = NewTimeline(w)
  OBVIOUS
<1>3. heap' = [heap EXCEPT ![a] = new] /\ copy' = copy
  BY <1>1, <1>2 DEF TInsert
<1>4. PICK j \in Job : /\ job' = [job EXCEPT ![w] = j]
                       /\ \/ Ending(w, j)
                          \/ \E o \in Orders : \E row \in Row : Inserting(w, j, o, row)
  BY InsertingShape DEF TInsert
<1>5. /\ job[w].pc = "inserting" /\ j.pc \in {"idle", "auditing"} /\ job'[w] = j
      /\ \A v \in Workers : v # w => job'[v] = job[v]
  BY <1>4 DEF TInsert, InsertOrder, Ending, Inserting, Idle, TypeOK
<1>6. \A v \in Workers : Holding(v)' => Holding(v) /\ v # w /\ job'[v] = job[v]
  BY <1>5 DEF Holding
<1> SUFFICES ASSUME NEW p \in Orders, NEW e \in Event, Shown(p, e)'
             PROVE  Shown(p, e) \/ Vouched(p, e)'
  BY DEF NothingUnvouched
<1>7. ASSUME NEW v \in Workers, Holding(v)', job'[v].id = p, Shows(heap, copy[v], e)'
      PROVE  Shown(p, e)
  <2>1. Holding(v) /\ job[v].id = p /\ Shows(heap', copy[v], e)
    BY <1>3, <1>6, <1>7
  <2>2. Shows(heap, copy[v], e)
    BY <1>1, <1>3, <2>1, ShownElsewhere
  <2> QED
    BY <2>1, <2>2 DEF Shown
<1>8. ASSUME tl'[p] = tl[p], Shows(heap, tl[p], e)'
      PROVE  Shown(p, e)
  <2>1. Shows(heap', tl[p], e)
    BY <1>8
  <2>2. Shows(heap, tl[p], e)
    BY <1>1, <1>3, <2>1, ShownElsewhere
  <2> QED
    BY <2>2 DEF Shown
<1>9. ASSUME tl'[p] # tl[p], Shows(heap, tl[p], e)'
      PROVE  Vouched(p, e)'
  <2>1. orders'[p] # orders[p] /\ tl'[p] = [arr |-> a, len |-> Len(new)]
    BY <1>1, <1>2, <1>9 DEF TInsert
  <2>2. PICK o \in Orders, row \in Row : Inserting(w, j, o, row)
    BY <1>4, <2>1 DEF Ending
  <2>3. o = p /\ j.id = p /\ j.pc = "auditing" /\ j.handler = job[w].handler
    BY <2>1, <2>2 DEF Inserting, TypeOK
  <2>4. heap'[a] = new
    BY <1>3 DEF HeapInv, HeapType
  <2>5. PICK i \in 1 .. Len(new) : new[i] = e
    BY <1>9, <2>1, <2>4 DEF Shows
  <2>6. job[w].handler \in Appending(e)
    <3>1. job[w].handler \in {"create", "create_delivery"}
      BY <1>5 DEF HeapInv, KindsKept
    <3>2. CASE job[w].handler = "create"
      <4>1. new = <<"created", "confirmed">>
        BY <1>2, <3>2 DEF NewTimeline
      <4>2. e \in {"created", "confirmed"}
        BY <2>5, <4>1
      <4> QED
        BY <3>2, <4>2 DEF Appending, Explaining
    <3>3. CASE job[w].handler = "create_delivery"
      <4>1. new = <<"created">>
        BY <1>2, <3>3 DEF NewTimeline
      <4>2. e = "created"
        BY <2>5, <4>1
      <4> QED
        BY <3>3, <4>2 DEF Appending
    <3> QED
      BY <3>1, <3>2, <3>3
  <2>7. PICK h : h = job[w].handler
    OBVIOUS
  <2>8. Committed(w, p, h)'
    BY <1>5, <2>3, <2>7 DEF Committed
  <2>9. Vouches(p, h)' /\ h \in Appending(e)
    BY <2>6, <2>7, <2>8 DEF Vouches
  <2> QED
    BY <2>9 DEF Vouched
<1> QED
  BY <1>7, <1>8, <1>9 DEF Shown

\* What append does to the events that the slices of an order show: those of
\* other orders are out of its reach (Owned), and a slot it overwrites shows
\* the event it was given.
LEMMA ShownByAppend ==
  ASSUME TypeOK, HeapInv, NEW w \in Workers, Holding(w), NEW event \in States,
         NEW c \in Slice, c.arr \in Arrays, c.len = copy[w].len + 1,
         InPlace(w, c, event) \/ Regrown(w, c, event), NEW e
  PROVE  /\ \A o \in Orders : Shows(heap', tl[o], e) =>
              Shows(heap, tl[o], e) \/ (e = event /\ o = job[w].id)
         /\ \A v \in Workers : Holding(v) /\ Shows(heap', copy[v], e) =>
              Shows(heap, copy[v], e) \/ (e = event /\ job[v].id = job[w].id)
         /\ Shows(heap', c, e) => Shows(heap, copy[w], e) \/ e = event
<1>1. /\ copy[w].arr \in Arrays /\ copy[w].len \in Nat /\ c.len \in Nat /\ c.len >= 1
      /\ copy[w].len \in 1 .. Len(heap[copy[w].arr])
      /\ heap \in [Arrays -> Seq(Event)] /\ heap[c.arr] \in Seq(Event)
  BY DEF HeapInv, HeapType, CopiesRooted, CopyRooted, Rooted, Slice
<1>2. \A i \in 1 .. c.len : i \in 1 .. copy[w].len \/ i = c.len
  BY <1>1
<1>3. CASE InPlace(w, c, event)
  <2>1. PICK new : new = [heap[c.arr] EXCEPT ![c.len] = event]
    OBVIOUS
  <2>2. /\ c.arr = copy[w].arr /\ heap' = [heap EXCEPT ![c.arr] = new]
        /\ c.len \in 1 .. Len(heap[c.arr])
    BY <1>1, <1>3, <2>1 DEF InPlace
  <2>3. \A i \in 1 .. Len(heap[c.arr]) :
          new[i] = IF i = c.len THEN event ELSE heap[c.arr][i]
    BY <1>1, <2>1, <2>2
  <2>4. heap'[c.arr] = new
    BY <1>1, <2>2
  <2>5. ASSUME NEW s, s.len \in Nat, s.arr = c.arr, s.len <= Len(heap[c.arr]),
               Shows(heap', s, e)
        PROVE  Shows(heap, s, e) \/ e = event
    <3>1. PICK i \in 1 .. s.len : new[i] = e
      BY <2>4, <2>5 DEF Shows
    <3>2. i \in 1 .. Len(heap[c.arr])
      BY <1>1, <2>5
    <3>3. e = event \/ heap[s.arr][i] = e
      BY <2>3, <2>5, <3>1, <3>2
    <3> QED
      BY <3>3 DEF Shows
  <2>6. ASSUME NEW o \in Orders, Shows(heap', tl[o], e)
        PROVE  Shows(heap, tl[o], e) \/ (e = event /\ o = job[w].id)
    <3>1. CASE tl[o].arr = c.arr
      <4>1. o = job[w].id
        BY <2>2, <3>1 DEF HeapInv, Owned
      <4>2. tl[o].len \in Nat /\ tl[o].len <= Len(heap[c.arr])
        BY <3>1, <4>1 DEF HeapInv, HeapType, RowsRooted, CopiesRooted, CopyRooted,
                          Rooted, Slice
      <4> QED
        BY <2>5, <2>6, <3>1, <4>1, <4>2
    <3>2. CASE tl[o].arr # c.arr
      BY <2>2, <2>6, <3>2, ShownElsewhere
    <3> QED
      BY <3>1, <3>2
  <2>7. ASSUME NEW v \in Workers, Holding(v), Shows(heap', copy[v], e)
        PROVE  Shows(heap, copy[v], e) \/ (e = event /\ job[v].id = job[w].id)
    <3>1. CASE copy[v].arr = c.arr
      <4>1. job[v].id = job[w].id
        BY <2>2, <2>7, <3>1 DEF HeapInv, Owned
      <4>2. copy[v].len \in Nat /\ copy[v].len <= Len(heap[c.arr])
        BY <2>7, <3>1 DEF HeapInv, HeapType, CopiesRooted, CopyRooted, Rooted, Slice
      <4> QED
        BY <2>5, <2>7, <3>1, <4>1, <4>2
    <3>2. CASE copy[v].arr # c.arr
      BY <2>2, <2>7, <3>2, ShownElsewhere
    <3> QED
      BY <3>1, <3>2
  <2>8. ASSUME Shows(heap', c, e)
        PROVE  Shows(heap, copy[w], e) \/ e = event
    <3>1. PICK i \in 1 .. c.len : new[i] = e
      BY <2>4, <2>8 DEF Shows
    <3>2. CASE i = c.len
      BY <2>2, <2>3, <3>1, <3>2
    <3>3. CASE i \in 1 .. copy[w].len
      <4>1. i # c.len /\ i \in 1 .. Len(heap[c.arr])
        BY <1>1, <2>2, <3>3
      <4>2. heap[copy[w].arr][i] = e
        BY <2>2, <2>3, <3>1, <4>1
      <4> QED
        BY <3>3, <4>2 DEF Shows
    <3> QED
      BY <1>2, <3>2, <3>3
  <2> QED
    BY <2>6, <2>7, <2>8
<1>4. CASE Regrown(w, c, event)
  <2>1. PICK new \in Seq(Event) :
          /\ \A i \in 1 .. copy[w].len : new[i] = heap[copy[w].arr][i]
          /\ new[c.len] = event
          /\ heap' = [heap EXCEPT ![c.arr] = new]
    BY <1>4 DEF Regrown
  <2>2. /\ \A o \in Orders : tl[o].arr # c.arr
        /\ \A v \in Workers : copy[v].arr # c.arr
    BY <1>4 DEF Regrown
  <2>3. /\ \A o \in Orders : Shows(heap', tl[o], e) => Shows(heap, tl[o], e)
        /\ \A v \in Workers :
             Holding(v) /\ Shows(heap', copy[v], e) => Shows(heap, copy[v], e)
    BY <2>1, <2>2, ShownElsewhere
  <2>4. heap'[c.arr] = new
    BY <1>1, <2>1
  <2>5. Shows(heap', c, e) => Shows(heap, copy[w], e) \/ e = event
    BY <1>2, <2>1, <2>4 DEF Shows
  <2> QED
    BY <2>3, <2>5
<1> QED
  BY <1>3, <1>4

LEMMA ShownByTransition ==
  ASSUME TypeOK, HeapInv, NEW w \in Workers, TTransition(w)
  PROVE  NothingUnvouched
<1>1. PICK j \in Job, c \in Slice :
           /\ job' = [job EXCEPT ![w] = j] /\ Deciding(w, j)
           /\ copy' = [copy EXCEPT ![w] = c]
           /\ c.arr \in Arrays /\ c.len = copy[w].len + 1
           /\ j.row.state \in States \ {"pending_approval"}
           /\ InPlace(w, c, j.row.state) \/ Regrown(w, c, j.row.state)
  BY TransitionShape
<1>2. PICK event \in States : event = j.row.state
  BY <1>1
<1>3. /\ job'[w] = j /\ \A v \in Workers : v # w => job'[v] = job[v]
      /\ copy'[w] = c /\ \A v \in Workers : v # w => copy'[v] = copy[v]
      /\ tl' = tl
  BY <1>1 DEF TTransition, TypeOK, HeapInv, HeapType
<1>4. Holding(w) /\ j.pc = "storing" /\ j.id = job[w].id
  BY <1>1 DEF Deciding, Holding
<1>5. j.handler \in Appending(event)
  <2>1. event # "created" /\ event # "pending_approval"
    BY <1>1, <1>2 DEF Deciding, Accepted
  <2>2. j.handler \in Explaining(event)
    BY <1>1, <1>2, <2>1 DEF Deciding, Accepted, Explaining
  <2> QED
    BY <2>1, <2>2 DEF Appending
<1>6. PICK i : i = job[w].id
  OBVIOUS
<1>7. Vouched(i, event)'
  <2>1. PICK h : h = j.handler
    OBVIOUS
  <2>2. Committed(w, i, h)'
    BY <1>1, <1>3, <1>4, <1>6, <2>1 DEF Committed
  <2>3. Vouches(i, h)' /\ h \in Appending(event)
    BY <1>5, <2>1, <2>2 DEF Vouches
  <2> QED
    BY <2>3 DEF Vouched
<1> SUFFICES ASSUME NEW p \in Orders, NEW e \in Event, Shown(p, e)'
             PROVE  Shown(p, e) \/ (e = event /\ p = i)
  BY <1>7 DEF NothingUnvouched
<1>10. /\ \A o \in Orders : Shows(heap', tl[o], e) =>
              Shows(heap, tl[o], e) \/ (e = event /\ o = job[w].id)
       /\ \A v \in Workers : Holding(v) /\ Shows(heap', copy[v], e) =>
              Shows(heap, copy[v], e) \/ (e = event /\ job[v].id = job[w].id)
       /\ Shows(heap', c, e) => Shows(heap, copy[w], e) \/ e = event
  <2>1. Holding(w) /\ (InPlace(w, c, event) \/ Regrown(w, c, event))
    BY <1>1, <1>2, <1>4
  <2> QED
    BY <1>1, <2>1, ShownByAppend
<1>8. CASE Shows(heap, tl[p], e)'
  <2>1. Shows(heap', tl[p], e)
    BY <1>3, <1>8
  <2>2. Shows(heap, tl[p], e) \/ (e = event /\ p = i)
    BY <1>6, <1>10, <2>1
  <2> QED
    BY <2>2 DEF Shown
<1>9. ASSUME NEW v \in Workers, Holding(v)', job'[v].id = p, Shows(heap, copy[v], e)'
       PROVE  Shown(p, e) \/ (e = event /\ p = i)
  <2>1. CASE v = w
    <3>1. p = i /\ job[w].id = p /\ Shows(heap', c, e)
      BY <1>3, <1>4, <1>6, <1>9, <2>1
    <3>2. Shows(heap, copy[w], e) \/ e = event
      BY <1>10, <3>1
    <3> QED
      BY <1>4, <3>1, <3>2 DEF Shown
  <2>2. CASE v # w
    <3>1. Holding(v) /\ job[v].id = p /\ Shows(heap', copy[v], e)
      BY <1>3, <1>9, <2>2 DEF Holding
    <3>2. Shows(heap, copy[v], e) \/ (e = event /\ p = i)
      BY <1>6, <1>10, <3>1
    <3> QED
      BY <3>1, <3>2 DEF Shown
  <2> QED
    BY <2>1, <2>2
<1> QED
  BY <1>8, <1>9 DEF Shown

LEMMA LogStep == TypeOK /\ HeapInv /\ LogInv /\ [TNext]_allVars => LogInv'
<1> SUFFICES ASSUME TypeOK, HeapInv, LogInv, [TNext]_allVars
             PROVE  LogInv'
  OBVIOUS
<1>1. NothingUnvouched
  <2>1. CASE UNCHANGED <<job, heap, tl, copy>>
    BY <2>1, ShownQuietly DEF Holding
  <2>2. ASSUME NEW w \in Workers, UNCHANGED <<heap, tl>>,
               \A v \in Workers : v # w => job'[v] = job[v] /\ copy'[v] = copy[v],
               Holding(w)' => Holding(w) /\ job'[w].id = job[w].id /\ copy'[w] = copy[w]
        PROVE  NothingUnvouched
    BY <2>2, ShownQuietly DEF Holding
  <2>3. ASSUME NEW w \in Workers, TStart(w)
        PROVE  NothingUnvouched
    <3>1. PICK j \in Job : job' = [job EXCEPT ![w] = j] /\ Ordering(w, j)
      BY <2>3, OrderingShape DEF TStart
    <3>2. ~Holding(w)'
      BY <3>1 DEF Ordering, Holding, TypeOK
    <3> QED
      BY <2>2, <2>3, <3>1, <3>2 DEF TStart, tlVars, TypeOK
  <2>4. ASSUME NEW w \in Workers, TRest(w)
        PROVE  NothingUnvouched
    <3>1. UNCHANGED <<heap, tl, copy>> /\ \A v \in Workers : v # w => job'[v] = job[v]
      BY <2>4 DEF TRest, tlVars, CountOrders, ReleaseSeat, AppendAudit, Goto, Answer, TypeOK
    <3>2. ~Holding(w)'
      BY <2>4 DEF TRest, CountOrders, ReleaseSeat, AppendAudit, Goto, Answer, Idle,
                  TypeOK, Job, Holding
    <3> QED
      BY <2>2, <3>1, <3>2
  <2>5. ASSUME NEW w \in Workers, TRefuse(w)
        PROVE  NothingUnvouched
    <3>1. /\ UNCHANGED <<heap, tl>>
          /\ \A v \in Workers : v # w => job'[v] = job[v] /\ copy'[v] = copy[v]
      BY <2>5 DEF TRefuse, Refuse, Answer, TypeOK, HeapInv, HeapType
    <3>2. ~Holding(w)'
      BY <2>5 DEF TRefuse, Refuse, Answer, Idle, TypeOK, Holding
    <3> QED
      BY <2>2, <3>1, <3>2
  <2>6. ASSUME NEW w \in Workers, TSetState(w)
        PROVE  NothingUnvouched
    <3>1. PICK j \in Job : job' = [job EXCEPT ![w] = j] /\ Deciding(w, j)
      BY <2>6, DecidingShape DEF TSetState
    <3>2. Holding(w) /\ job'[w].id = job[w].id /\ UNCHANGED <<heap, tl, copy>>
      BY <2>6, <3>1 DEF TSetState, tlVars, Deciding, Holding, TypeOK
    <3> QED
      BY <2>2, <3>1, <3>2 DEF TypeOK
  <2>7. CASE UNCHANGED allVars \/ ((Tick \/ Rest) /\ UNCHANGED tlVars)
    BY <2>1, <2>7 DEF allVars, vars, tlVars, Tick, Rest
  <2> QED
    BY <2>3, <2>4, <2>5, <2>6, <2>7, ShownByLoad, ShownByStore, ShownByInsert,
       ShownByTransition DEF TNext, TServe
<1>2. \A o \in Orders : \A e : Vouched(o, e) => Vouched(o, e)'
  BY VouchesStep
<1>3. ASSUME NEW o \in Orders, NEW e \in Event, Shown(o, e)'
      PROVE  Vouched(o, e)'
  BY <1>1, <1>2, <1>3 DEF LogInv, NothingUnvouched
<1> QED
  BY <1>3 DEF LogInv

LEMMA LogStart == TInit => LogInv
  BY DEF TInit, Init, Idle, LogInv, Shown, Shows, Holding, NoSlice

\* Whatever requests overlap, no stored timeline shows an event that the audit
\* log does not have and no request in flight will append: not even the
\* events that a handler writes into an array it shares with the stored row
\* before it stores its own, or that a stale copy brings back.
THEOREM EventsAreAudited == TSpec => []EventsAudited
<1>1. TypeOK /\ HeapInv /\ LogInv => EventsAudited
  <2> SUFFICES ASSUME TypeOK, HeapInv, LogInv, NEW o \in Orders, NEW i \in 1 .. tl[o].len
               PROVE  \E h \in Appending(Events(tl[o])[i]) : Vouches(o, h)
    BY DEF EventsAudited, Vouches
  <2>1. Exists(o)
    BY DEF HeapInv, RowsRooted, NoSlice
  <2>2. PICK s : s = tl[o]
    OBVIOUS
  <2>3. Rooted(heap, s, orders[o].kind) /\ s \in Slice
    BY <2>1, <2>2 DEF HeapInv, HeapType, RowsRooted
  <2>4. s.len \in Nat /\ s.len >= 1 /\ \A k \in 1 .. s.len : heap[s.arr][k] \in Event
    BY <2>3 DEF HeapInv, HeapType, Rooted, Slice
  <2>5. \A k \in 1 .. s.len - 1 + 1 :
          SubSeq(heap[s.arr], 1, s.len)[k] = heap[s.arr][1 + k - 1]
    BY <2>4, SubSeqProperties
  <2>6. Events(s)[i] = heap[s.arr][i]
    BY <2>2, <2>4, <2>5 DEF Events
  <2>7. Events(s)[i] \in Event /\ Shown(o, Events(s)[i])
    BY <2>2, <2>4, <2>6 DEF Shown, Shows
  <2> QED
    BY <2>2, <2>7 DEF LogInv, Vouched
<1> QED
  BY <1>1, LogStart, LogStep, HeapInvHolds, PTL DEF TSpec

-----------------------------------------------------------------------------
(* Requests that do not overlap.                                           *)

\* The copy of the timeline continues the stored one, and ends with the state
\* that is about to be stored if a Machine method chose it.
CopyContinues(w) ==
  /\ job[w].pc = "loaded" => copy[w] = tl[job[w].id]
  /\ job[w].pc = "storing" =>
       LET s == tl[job[w].id]
           c == copy[w]
       IN  /\ s.len <= c.len
           /\ \A i \in 1 .. s.len : heap[c.arr][i] = heap[s.arr][i]
           /\ job[w].row.state \notin {"pending_approval", "in_progress"} =>
                heap[c.arr][c.len] = job[w].row.state

Continues == \A w \in Workers : CopyContinues(w)

\* Every timeline still shows the events it showed before the step.
Grew ==
  \A o \in Orders :
    /\ tl[o].len <= tl'[o].len
    /\ \A i \in 1 .. tl[o].len : heap'[tl'[o].arr][i] = heap[tl[o].arr][i]

SerialInv == Continues /\ TimelineMatchesState

\* A step that touches no timeline, and leaves its worker without a copy.
LEMMA UntouchedSerial ==
  ASSUME OneAtATime, HeapInv, SerialInv, NEW w \in Workers,
         UNCHANGED <<orders, heap, tl>>, job'[w].pc \notin {"loaded", "storing"}
  PROVE  SerialInv' /\ Grew
<1>1. Continues'
  <2> SUFFICES ASSUME NEW v \in Workers
               PROVE  CopyContinues(v)'
    BY DEF Continues
  <2> QED
    BY DEF OneAtATime, CopyContinues
<1>2. TimelineMatchesState'
  BY DEF SerialInv, TimelineMatchesState
<1>3. Grew
  BY DEF Grew, HeapInv, HeapType, Slice
<1> QED
  BY <1>1, <1>2, <1>3 DEF SerialInv

LEMMA LoadSerial ==
  ASSUME OneAtATime, TypeOK, HeapInv, SerialInv, NEW w \in Workers,
         NEW h \in Handlers, NEW o \in Orders, TLoad(w, h, o)
  PROVE  SerialInv' /\ Grew
<1>1. /\ job'[w].pc = "loaded" /\ job'[w].id = o
      /\ copy'[w] = tl[o] /\ UNCHANGED <<orders, heap, tl>>
  BY DEF TLoad, Load, Idle, TypeOK, HeapInv, HeapType
<1>2. Continues'
  <2> SUFFICES ASSUME NEW v \in Workers
               PROVE  CopyContinues(v)'
    BY DEF Continues
  <2> QED
    BY <1>1 DEF OneAtATime, CopyContinues
<1>3. TimelineMatchesState'
  BY <1>1 DEF SerialInv, TimelineMatchesState
<1>4. Grew
  BY <1>1 DEF Grew, HeapInv, HeapType, Slice
<1> QED
  BY <1>2, <1>3, <1>4 DEF SerialInv

LEMMA SetStateSerial ==
  ASSUME OneAtATime, TypeOK, HeapInv, SerialInv, NEW w \in Workers, TSetState(w)
  PROVE  SerialInv' /\ Grew
<1>1. PICK j \in Job : job' = [job EXCEPT ![w] = j] /\ Deciding(w, j)
  BY DecidingShape DEF TSetState
<1>2. job'[w] = j
  BY <1>1 DEF TypeOK
<1>3. /\ UNCHANGED <<orders, heap, tl, copy>>
      /\ job[w].pc = "loaded" /\ j.pc = "storing" /\ j.id = job[w].id
      /\ j.row.state \in {"pending_approval", "in_progress"}
  BY <1>1, <1>2 DEF TSetState, tlVars, Deciding
<1>4. tl[j.id].len <= tl[j.id].len /\ copy[w] = tl[j.id]
  BY <1>3 DEF HeapInv, HeapType, CopiesRooted, CopyRooted, Holding, Slice,
              SerialInv, Continues, CopyContinues
<1>5. Continues'
  <2> SUFFICES ASSUME NEW v \in Workers
               PROVE  CopyContinues(v)'
    BY DEF Continues
  <2> QED
    BY <1>2, <1>3, <1>4 DEF OneAtATime, CopyContinues
<1>6. TimelineMatchesState'
  BY <1>3 DEF SerialInv, TimelineMatchesState
<1>7. Grew
  BY <1>3 DEF Grew, HeapInv, HeapType, Slice
<1> QED
  BY <1>5, <1>6, <1>7 DEF SerialInv

LEMMA StoreSerial ==
  ASSUME OneAtATime, TypeOK, HeapInv, SerialInv, NEW w \in Workers, TStore(w)
  PROVE  SerialInv' /\ Grew
<1>1. PICK j \in Job : job' = [job EXCEPT ![w] = j] /\ Storing(w, j)
  BY StoringShape DEF TStore
<1>2. PICK o \in Orders : job[w].id = o
  BY <1>1 DEF HeapInv, CopiesRooted, CopyRooted, Holding, Storing
<1>3. /\ tl'[o] = copy[w] /\ orders'[o] = job[w].row /\ heap' = heap
      /\ \A p \in Orders : p # o => tl'[p] = tl[p] /\ orders'[p] = orders[p]
  BY <1>1, <1>2 DEF TStore, Storing, TypeOK, HeapInv, HeapType
<1>4. /\ tl[o].len <= copy[w].len
      /\ \A i \in 1 .. tl[o].len : heap[copy[w].arr][i] = heap[tl[o].arr][i]
      /\ job[w].row.state \notin {"pending_approval", "in_progress"} =>
           heap[copy[w].arr][copy[w].len] = job[w].row.state
  BY <1>1, <1>2 DEF SerialInv, Continues, CopyContinues, Storing
<1>5. job'[w].pc \notin {"loaded", "storing"}
  <2>1. j.pc \notin {"loaded", "storing"}
    BY <1>1 DEF Storing, Idle, AfterStore
  <2> QED
    BY <1>1, <2>1 DEF TypeOK
<1>6. Continues'
  <2> SUFFICES ASSUME NEW v \in Workers
               PROVE  CopyContinues(v)'
    BY DEF Continues
  <2> QED
    BY <1>5 DEF OneAtATime, CopyContinues
<1>7. TimelineMatchesState'
  BY <1>3, <1>4 DEF SerialInv, TimelineMatchesState
<1>8. Grew
  <2> SUFFICES ASSUME NEW p \in Orders
               PROVE  /\ tl[p].len <= tl'[p].len
                      /\ \A i \in 1 .. tl[p].len :
                           heap'[tl'[p].arr][i] = heap[tl[p].arr][i]
    BY DEF Grew
  <2>1. CASE p = o
    BY <1>3, <1>4, <2>1
  <2>2. CASE p # o
    BY <1>3, <2>2 DEF HeapInv, HeapType, Slice
  <2> QED
    BY <2>1, <2>2
<1> QED
  BY <1>6, <1>7, <1>8 DEF SerialInv

LEMMA InsertSerial ==
  ASSUME OneAtATime, TypeOK, HeapInv, SerialInv, NEW w \in Workers, TInsert(w)
  PROVE  SerialInv' /\ Grew
<1> DEFINE a == FreshArray
           new == NewTimeline(w)
<1>1. a \in Arrays /\ \A o \in Orders : tl[o].arr # a
  BY FreshIsFree DEF HeapInv
<1>2. heap' = [heap EXCEPT ![a] = new]
  BY DEF TInsert
<1>3. heap'[a] = new /\ \A b \in Arrays : b # a => heap'[b] = heap[b]
  BY <1>1, <1>2 DEF HeapInv, HeapType
<1>4. PICK j \in Job : /\ job' = [job EXCEPT ![w] = j]
                       /\ \/ Ending(w, j)
                          \/ \E o \in Orders : \E row \in Row : Inserting(w, j, o, row)
  BY InsertingShape DEF TInsert
<1>5. job'[w].pc \notin {"loaded", "storing"}
  <2>1. j.pc \notin {"loaded", "storing"}
    BY <1>4 DEF Ending, Inserting, Idle
  <2> QED
    BY <1>4, <2>1 DEF TypeOK
<1>6. Continues'
  <2> SUFFICES ASSUME NEW v \in Workers
               PROVE  CopyContinues(v)'
    BY DEF Continues
  <2> QED
    BY <1>5 DEF OneAtATime, CopyContinues
<1>7. \A o \in Orders :
        IF orders'[o] = orders[o] THEN tl'[o] = tl[o]
        ELSE /\ tl'[o] = [arr |-> a, len |-> Len(new)]
             /\ ~Exists(o)
             /\ orders'[o].state = IF job[w].handler = "create" THEN "confirmed"
                                   ELSE "created"
  <2>1. \A o \in Orders : tl'[o] = IF orders'[o] = orders[o] THEN tl[o]
                                   ELSE [arr |-> a, len |-> Len(new)]
    BY DEF TInsert
  <2>2. CASE Ending(w, j)
    BY <2>1, <2>2 DEF Ending
  <2>3. CASE \E o \in Orders : \E row \in Row : Inserting(w, j, o, row)
    <3>1. PICK o \in Orders, row \in Row : Inserting(w, j, o, row)
      BY <2>3
    <3>2. /\ orders'[o] = row /\ \A p \in Orders : p # o => orders'[p] = orders[p]
          /\ ~Exists(o)
          /\ row.state = (IF job[w].handler = "create" THEN "confirmed" ELSE "created")
      BY <3>1 DEF Inserting, TypeOK
    <3> HIDE DEF a, new
    <3> QED
      BY <2>1, <3>2
  <2> QED
    BY <1>4, <2>2, <2>3
<1>8. new[Len(new)] = IF job[w].handler = "create" THEN "confirmed" ELSE "created"
  BY DEF NewTimeline
<1> HIDE DEF a, new
<1>9. \A o \in Orders : Exists(o) => tl[o].arr \in Arrays
  BY DEF HeapInv, RowsRooted, Rooted
<1>10. TimelineMatchesState'
  <2> SUFFICES ASSUME NEW o \in Orders,
                      orders'[o].state \notin {"absent", "pending_approval", "in_progress"}
               PROVE  heap'[tl'[o].arr][tl'[o].len] = orders'[o].state
    BY DEF TimelineMatchesState
  <2>1. CASE orders'[o] = orders[o]
    <3>1. tl'[o] = tl[o] /\ Exists(o) /\ heap'[tl[o].arr] = heap[tl[o].arr]
      BY <1>1, <1>3, <1>7, <1>9, <2>1 DEF Exists
    <3> QED
      BY <2>1, <3>1 DEF SerialInv, TimelineMatchesState
  <2>2. CASE orders'[o] # orders[o]
    BY <1>3, <1>7, <1>8, <2>2
  <2> QED
    BY <2>1, <2>2
<1>11. Grew
  <2> SUFFICES ASSUME NEW o \in Orders
               PROVE  /\ tl[o].len <= tl'[o].len
                      /\ \A i \in 1 .. tl[o].len :
                           heap'[tl'[o].arr][i] = heap[tl[o].arr][i]
    BY DEF Grew
  <2>1. tl[o].len \in Nat /\ (~Exists(o) => tl[o].len = 0)
    BY DEF HeapInv, HeapType, Slice, RowsRooted, NoSlice
  <2>2. tl'[o].len \in Nat
    BY InsertHeap DEF HeapInv, HeapType, Slice
  <2>3. CASE ~Exists(o)
    BY <2>1, <2>2, <2>3
  <2>4. CASE Exists(o)
    <3>1. tl'[o] = tl[o] /\ heap'[tl[o].arr] = heap[tl[o].arr]
      BY <1>1, <1>3, <1>7, <1>9, <2>4
    <3> QED
      BY <2>1, <3>1
  <2> QED
    BY <2>3, <2>4
<1> QED
  BY <1>6, <1>10, <1>11 DEF SerialInv

LEMMA TransitionSerial ==
  ASSUME OneAtATime, TypeOK, HeapInv, SerialInv, NEW w \in Workers, TTransition(w)
  PROVE  SerialInv' /\ Grew
<1>1. PICK j \in Job, c \in Slice :
           /\ job' = [job EXCEPT ![w] = j] /\ Deciding(w, j)
           /\ copy' = [copy EXCEPT ![w] = c]
           /\ c.arr \in Arrays /\ c.len = copy[w].len + 1
           /\ j.row.state \in States \ {"pending_approval"}
           /\ InPlace(w, c, j.row.state) \/ Regrown(w, c, j.row.state)
  BY TransitionShape
<1> DEFINE event == j.row.state
<1>2. PICK id \in Orders :
        /\ id = job[w].id /\ Exists(id) /\ copy[w] = tl[id]
        /\ job[w].pc = "loaded" /\ Holding(w)
  BY <1>1 DEF Deciding, HeapInv, CopiesRooted, CopyRooted, Holding, SerialInv,
              Continues, CopyContinues
<1>3. /\ job'[w] = j /\ copy'[w] = c /\ UNCHANGED <<orders, tl>>
      /\ j.id = id /\ j.pc = "storing"
  BY <1>1, <1>2 DEF TypeOK, HeapInv, HeapType, TTransition, Deciding
<1>4. heap'[c.arr][c.len] = event
  BY <1>1, <1>2, AppendRooted
<1>5. ASSUME NEW o \in Orders, Exists(o)
      PROVE  \A i \in 1 .. tl[o].len : heap'[tl[o].arr][i] = heap[tl[o].arr][i]
  <2>1. /\ tl[o].arr \in Arrays /\ tl[o].len \in Nat /\ tl[id].len \in Nat
        /\ heap[tl[o].arr] \in Seq(Event) /\ tl[o].len <= Len(heap[tl[o].arr])
    BY <1>5 DEF HeapInv, HeapType, RowsRooted, Rooted, Slice
  <2>2. CASE tl[o].arr # c.arr
    BY <1>1, <2>1, <2>2 DEF InPlace, Regrown, HeapInv, HeapType
  <2>3. CASE tl[o].arr = c.arr
    <3>1. InPlace(w, c, event)
      BY <1>1, <2>3 DEF Regrown
    <3>2. o = id
      BY <1>2, <1>5, <2>3, <3>1 DEF InPlace, HeapInv, Owned
    <3>3. /\ c.len = tl[o].len + 1
          /\ heap' = [heap EXCEPT ![c.arr] = [@ EXCEPT ![c.len] = event]]
      BY <1>1, <1>2, <3>1, <3>2 DEF InPlace
    <3>4. heap'[c.arr] = [heap[c.arr] EXCEPT ![c.len] = event]
      BY <1>1, <3>3 DEF HeapInv, HeapType
    <3>5. \A i \in 1 .. tl[o].len : i \in 1 .. Len(heap[c.arr]) /\ i # c.len
      BY <2>1, <2>3, <3>3
    <3> QED
      BY <2>1, <2>3, <3>4, <3>5
  <2> QED
    BY <2>2, <2>3
<1>6. \A o \in Orders : ~Exists(o) => tl[o].len = 0
  BY DEF HeapInv, RowsRooted, NoSlice
<1>7. Grew
  <2>1. \A o \in Orders : tl[o].len \in Nat
    BY DEF HeapInv, HeapType, Slice
  <2> QED
    BY <1>3, <1>5, <1>6, <2>1 DEF Grew
<1>8. \A i \in 1 .. tl[id].len : heap'[c.arr][i] = heap[tl[id].arr][i]
  <2>1. CASE InPlace(w, c, event)
    <3>1. c.arr = tl[id].arr
      BY <1>2, <2>1 DEF InPlace
    <3>2. \A i \in 1 .. tl[id].len : heap'[tl[id].arr][i] = heap[tl[id].arr][i]
      BY <1>2, <1>5
    <3> QED
      BY <3>1, <3>2, Zenon
  <2>2. CASE Regrown(w, c, event)
    <3>1. PICK new \in Seq(Event) :
            /\ \A i \in 1 .. copy[w].len : new[i] = heap[copy[w].arr][i]
            /\ heap' = [heap EXCEPT ![c.arr] = new]
      BY <2>2 DEF Regrown
    <3>2. heap'[c.arr] = new
      BY <1>1, <3>1 DEF HeapInv, HeapType
    <3> QED
      BY <1>2, <3>1, <3>2
  <2> QED
    BY <1>1, <2>1, <2>2
<1>9. Continues'
  <2> SUFFICES ASSUME NEW v \in Workers
               PROVE  CopyContinues(v)'
    BY DEF Continues
  <2>1. v = w
    BY DEF OneAtATime
  <2>2. tl[id].len <= c.len
    BY <1>1, <1>2 DEF HeapInv, HeapType, Slice
  <2>3. \A i \in 1 .. tl[id].len : heap'[c.arr][i] = heap'[tl[id].arr][i]
    BY <1>2, <1>5, <1>8
  <2> QED
    BY <1>3, <1>4, <2>1, <2>2, <2>3 DEF CopyContinues
<1>10. TimelineMatchesState'
  <2> SUFFICES ASSUME NEW o \in Orders,
                      orders[o].state \notin {"absent", "pending_approval", "in_progress"}
               PROVE  heap'[tl[o].arr][tl[o].len] = orders[o].state
    BY <1>3 DEF TimelineMatchesState
  <2>1. Exists(o) /\ tl[o].len \in 1 .. tl[o].len
    BY DEF Exists, HeapInv, HeapType, RowsRooted, Rooted, Slice
  <2>2. heap'[tl[o].arr][tl[o].len] = heap[tl[o].arr][tl[o].len]
    BY <1>5, <2>1
  <2> QED
    BY <2>2 DEF SerialInv, TimelineMatchesState
<1> QED
  BY <1>7, <1>9, <1>10 DEF SerialInv

LEMMA SerialStep ==
  OneAtATime /\ TypeOK /\ HeapInv /\ SerialInv /\ [TNext]_allVars => SerialInv' /\ Grew
<1> SUFFICES ASSUME OneAtATime, TypeOK, HeapInv, SerialInv, [TNext]_allVars
             PROVE  SerialInv' /\ Grew
  OBVIOUS
<1>1. CASE UNCHANGED <<orders, job, heap, tl, copy>>
  <2>1. SerialInv'
    BY <1>1 DEF SerialInv, Continues, CopyContinues, TimelineMatchesState
  <2>2. Grew
    BY <1>1 DEF Grew, HeapInv, HeapType, Slice
  <2> QED
    BY <2>1, <2>2
<1>2. ASSUME NEW w \in Workers, TStart(w)
      PROVE  SerialInv' /\ Grew
  <2>1. PICK j \in Job : job' = [job EXCEPT ![w] = j] /\ Ordering(w, j)
    BY <1>2, OrderingShape DEF TStart
  <2>2. job'[w].pc \notin {"loaded", "storing"} /\ UNCHANGED <<orders, heap, tl>>
    BY <1>2, <2>1 DEF TStart, tlVars, Ordering, TypeOK
  <2> QED
    BY <2>2, UntouchedSerial
<1>3. ASSUME NEW w \in Workers, NEW h \in Handlers, NEW o \in Orders, TLoad(w, h, o)
      PROVE  SerialInv' /\ Grew
  BY <1>3, LoadSerial
<1>4. ASSUME NEW w \in Workers, TServe(w)
      PROVE  SerialInv' /\ Grew
  <2>1. CASE TRest(w)
    <3>1. UNCHANGED <<orders, heap, tl>>
      BY <2>1 DEF TRest, tlVars, CountOrders, ReleaseSeat, AppendAudit
    <3>2. job'[w].pc \notin {"loaded", "storing"}
      BY <2>1 DEF TRest, CountOrders, ReleaseSeat, AppendAudit, Goto, Answer, Idle,
                  TypeOK, Job
    <3> QED
      BY <3>1, <3>2, UntouchedSerial
  <2>2. CASE TRefuse(w)
    <3>1. job'[w].pc \notin {"loaded", "storing"} /\ UNCHANGED <<orders, heap, tl>>
      BY <2>2 DEF TRefuse, Refuse, Answer, Idle, TypeOK
    <3> QED
      BY <3>1, UntouchedSerial
  <2> QED
    BY <1>4, <2>1, <2>2, InsertSerial, TransitionSerial, SetStateSerial, StoreSerial
       DEF TServe
<1>5. CASE (Tick \/ Rest) /\ UNCHANGED tlVars
  BY <1>1, <1>5 DEF Tick, Rest, vars, tlVars
<1>6. CASE UNCHANGED allVars
  BY <1>1, <1>6 DEF allVars, vars
<1> QED
  BY <1>2, <1>3, <1>4, <1>5, <1>6 DEF TNext

LEMMA SerialInit == TInit => SerialInv
  BY DEF TInit, Init, SerialInv, Continues, CopyContinues, TimelineMatchesState, Idle,
         NoRow

LEMMA SerialInvHolds ==
  OneAtATime /\ TSpec => [](TypeOK /\ HeapInv /\ SerialInv)
<1>1. CASE OneAtATime
  BY <1>1, HeapInvHolds, SerialInit, SerialStep, PTL DEF TSpec
<1>2. CASE ~OneAtATime
  BY <1>2
<1> QED
  BY <1>1, <1>2

\* While requests do not overlap, the last event of an order is the
\* transition into its state, on whichever array append put it.
THEOREM TimelinesMatch == OneAtATime /\ TSpec => []TimelineMatchesState
<1>1. SerialInv => TimelineMatchesState
  BY DEF SerialInv
<1> QED
  BY <1>1, SerialInvHolds, PTL

\* While requests do not overlap, no event that a timeline once showed is
\* lost or rewritten: appending to a copy of a slice and storing the copy
\* extends the stored timeline.
THEOREM TimelinesOnlyGrow == OneAtATime /\ TSpec => TimelineAppendOnly
<1>1. ASSUME HeapInv, HeapInv', Grew, NEW o \in Orders
      PROVE  Events(tl[o]) = SubSeq(Events(tl[o])', 1, tl[o].len)
  <2> DEFINE s == tl[o]
             t == tl'[o]
  <2>1. /\ s.len \in Nat /\ t.len \in Nat /\ s.len <= t.len
        /\ \A i \in 1 .. s.len : heap'[t.arr][i] = heap[s.arr][i]
        /\ s.len # 0 => \A i \in 1 .. s.len : heap[s.arr][i] \in Event
        /\ t.len # 0 => \A i \in 1 .. t.len : heap'[t.arr][i] \in Event
    <3>1. /\ s.len \in Nat /\ t.len \in Nat /\ s.len <= t.len
          /\ \A i \in 1 .. s.len : heap'[t.arr][i] = heap[s.arr][i]
      BY <1>1 DEF Grew, HeapInv, HeapType, Slice
    <3>2. s.len # 0 => \A i \in 1 .. s.len : heap[s.arr][i] \in Event
      BY <1>1, <3>1 DEF HeapInv, HeapType, RowsRooted, Rooted, NoSlice, Slice
    <3>3. t.len # 0 => \A i \in 1 .. t.len : heap'[t.arr][i] \in Event
      BY <1>1, <3>1 DEF HeapInv, HeapType, RowsRooted, Rooted, NoSlice, Slice
    <3> QED
      BY <3>1, <3>2, <3>3
  <2>2. /\ Events(tl[o]) = IF s.len = 0 THEN << >> ELSE SubSeq(heap[s.arr], 1, s.len)
        /\ Events(tl[o])' = IF t.len = 0 THEN << >> ELSE SubSeq(heap'[t.arr], 1, t.len)
    BY DEF Events
  <2> HIDE DEF s, t
  <2>3. CASE s.len = 0
    BY <2>2, <2>3, SubSeqEmpty DEF s
  <2>4. CASE s.len # 0
    <3> DEFINE f == SubSeq(heap[s.arr], 1, s.len)
               g == SubSeq(heap'[t.arr], 1, t.len)
               k == SubSeq(g, 1, s.len)
    <3>1. t.len # 0
      BY <2>1, <2>4
    <3>2. /\ f \in Seq(Event) /\ Len(f) = s.len
          /\ \A i \in 1 .. s.len : f[i] = heap[s.arr][i]
      BY <2>1, <2>4, SubSeqProperties
    <3>3. /\ g \in Seq(Event) /\ Len(g) = t.len
          /\ \A i \in 1 .. t.len : g[i] = heap'[t.arr][i]
      BY <2>1, <3>1, SubSeqProperties
    <3> HIDE DEF f, g
    <3>4. \A i \in 1 .. s.len : g[i] \in Event /\ g[i] = heap[s.arr][i]
      BY <2>1, <3>1, <3>3
    <3>5. /\ k \in Seq(Event) /\ Len(k) = s.len
          /\ \A i \in 1 .. s.len : k[i] = g[i]
      BY <2>1, <2>4, <3>4, SubSeqProperties
    <3> HIDE DEF k
    <3>6. f = k
      BY <3>2, <3>4, <3>5, SeqEqual
    <3>7. Events(tl[o]) = f /\ Events(tl[o])' = g
      BY <2>2, <2>4, <3>1 DEF f, g
    <3> QED
      BY <3>6, <3>7 DEF k, s
  <2> QED
    BY <2>3, <2>4
<1>2. HeapInv /\ HeapInv' /\ Grew =>
        \A o \in Orders : Events(tl[o]) = SubSeq(Events(tl[o])', 1, tl[o].len)
  BY <1>1
<1>3. OneAtATime /\ TypeOK /\ HeapInv /\ SerialInv /\ [TNext]_allVars =>
        \A o \in Orders : Events(tl[o]) = SubSeq(Events(tl[o])', 1, tl[o].len)
  BY <1>2, HeapStep, SerialStep
<1>4. CASE OneAtATime
  <2>1. TSpec => [][\A o \in Orders :
                      Events(tl[o]) = SubSeq(Events(tl[o])', 1, tl[o].len)]_allVars
    BY <1>3, <1>4, SerialInvHolds, PTL DEF TSpec
  <2> QED
    BY <2>1 DEF TimelineAppendOnly
<1>5. CASE ~OneAtATime
  BY <1>5
<1> QED
  BY <1>4, <1>5
=============================================================================
