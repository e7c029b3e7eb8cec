--------------------------- MODULE MemoryTimeline ---------------------------
(***************************************************************************)
(* Order.Timeline in the Memory store.  The store copies Order structs, so *)
(* the row of BookingService is copied on every read and write; but the    *)
(* Timeline field is a slice, and the copies share its backing array.      *)
(* Every Machine method appends one event: in place while the array has    *)
(* room (overwriting whatever another copy put in that slot), into a new   *)
(* array of twice the capacity otherwise.                                  *)
(*                                                                         *)
(* Each step here is a step of BookingService together with what it does   *)
(* to the slices.  An event is the state it records.                       *)
(***************************************************************************)
EXTENDS BookingService, Sequences

CONSTANTS
  Arrays,   \* ids of backing arrays
  NilArray  \* the array of a nil slice

\* The allocator always has an array that nothing refers to.
ASSUME HeapAssumption ==
  /\ NilArray \notin Arrays
  /\ \A t \in [Orders -> Arrays \cup {NilArray}], c \in [Workers -> Arrays \cup {NilArray}] :
       \E a \in Arrays : a \notin {t[o] : o \in Orders} \cup {c[w] : w \in Workers}

VARIABLES
  heap,   \* the backing arrays: one slot per event of capacity
  tl,     \* the Timeline slice header of each stored order
  copy    \* the Timeline slice header of each worker's copy

tlVars == <<heap, tl, copy>>
allVars == <<vars, heap, tl, copy>>

NoSlice == [arr |-> NilArray, len |-> 0]
Cap(a) == Len(heap[a])

\* The events a slice shows.
Events(slice) ==
  IF slice.len = 0 THEN << >> ELSE SubSeq(heap[slice.arr], 1, slice.len)

InUse == {tl[o].arr : o \in Orders} \cup {copy[w].arr : w \in Workers}

\* The garbage collector reuses what no slice refers to.
FreshArray == CHOOSE a \in Arrays : a \notin InUse

\* Mutants: the new array does not take over the old events; the last event is
\* replaced; no event is appended.
AppendEventUncopied(w, event) ==
  LET s == copy[w]
  IN /\ heap' = [heap EXCEPT ![FreshArray] =
                   [i \in 1 .. 2 * s.len |-> IF i = s.len + 1 THEN event ELSE "none"]]
     /\ copy' = [copy EXCEPT ![w] = [arr |-> FreshArray, len |-> s.len + 1]]
AppendEventInPlace(w, event) ==
  /\ heap' = [heap EXCEPT ![copy[w].arr][copy[w].len] = event]
  /\ UNCHANGED copy
AppendEventForgotten(w, event) == UNCHANGED <<heap, copy>>

\* append(slice, event) by worker w, the result kept in its copy.
AppendEvent(w, event) ==
  LET s == copy[w]
  IN IF s.len < Cap(s.arr)
     THEN /\ heap' = [heap EXCEPT ![s.arr][s.len + 1] = event]
          /\ copy' = [copy EXCEPT ![w].len = s.len + 1]
     ELSE /\ heap' = [heap EXCEPT ![FreshArray] =
                        [i \in 1 .. 2 * s.len |->
                           IF i <= s.len THEN heap[s.arr][i]
                           ELSE IF i = s.len + 1 THEN event ELSE "none"]]
          /\ copy' = [copy EXCEPT ![w] = [arr |-> FreshArray, len |-> s.len + 1]]

\* Create, and for a booking Confirm, append to a nil slice: an array of one
\* slot, then one of two.
NewTimeline(w) ==
  IF job[w].handler = "create" THEN <<"created", "confirmed">> ELSE <<"created">>

TInit ==
  /\ Init
  /\ heap = [a \in Arrays |-> << >>]
  /\ tl = [o \in Orders |-> NoSlice]
  /\ copy = [w \in Workers |-> NoSlice]

TInsert(w) ==
  /\ InsertOrder(w)
  /\ heap' = [heap EXCEPT ![FreshArray] = NewTimeline(w)]
  /\ tl' = [o \in Orders |->
              IF orders'[o] = orders[o] THEN tl[o]
              ELSE [arr |-> FreshArray, len |-> Len(NewTimeline(w))]]
  /\ UNCHANGED copy

TLoad(w, h, o) ==
  /\ Load(w, h, o)
  /\ copy' = [copy EXCEPT ![w] = tl[o]]
  /\ UNCHANGED <<heap, tl>>

\* A Machine method succeeded.
TTransition(w) ==
  /\ \/ DecideReschedule(w)
     \/ DecideCancel(w)
     \/ DecideComplete(w)
     \/ DecideRequestRefund(w)
     \/ DecideApproveRefund(w)
     \/ DecideRollback(w)
  /\ job'[w].row.state # "pending_approval"
  /\ AppendEvent(w, job'[w].row.state)
  /\ UNCHANGED tl

\* CancelBooking and AssignCourier set the state themselves: no event.
TSetState(w) ==
  /\ DecideCancel(w) \/ DecideAssign(w)
  /\ job'[w].row.state \in {"pending_approval", "in_progress"}
  /\ UNCHANGED tlVars

TStore(w) ==
  /\ StoreOrder(w)
  /\ tl' = [tl EXCEPT ![job[w].id] = copy[w]]
  /\ copy' = [copy EXCEPT ![w] = NoSlice]
  /\ UNCHANGED heap

TRefuse(w) ==
  /\ Refuse(w)
  /\ copy' = [copy EXCEPT ![w] = NoSlice]
  /\ UNCHANGED <<heap, tl>>

TStart(w) ==
  /\ \/ \E s \in Sessions : Reserve(w, s)
     \/ \E t \in PickupTimes : StartDelivery(w, t)
  /\ UNCHANGED tlVars

TRest(w) ==
  /\ CountOrders(w) \/ ReleaseSeat(w) \/ AppendAudit(w)
  /\ UNCHANGED tlVars

TServe(w) ==
  \/ TInsert(w)
  \/ TTransition(w)
  \/ TSetState(w)
  \/ TStore(w)
  \/ TRefuse(w)
  \/ TRest(w)

TNext ==
  \/ \E w \in Workers :
       \/ TStart(w)
       \/ \E h \in Handlers, o \in Orders : TLoad(w, h, o)
       \/ TServe(w)
  \/ (Tick \/ Rest) /\ UNCHANGED tlVars

TSpec == TInit /\ [][TNext]_allVars

\* As FairSpec: a request that was accepted is served to its end.
FairTSpec == TSpec /\ \A w \in Workers : WF_allVars(TServe(w))

-----------------------------------------------------------------------------
\* Handlers that append the given event; a booking is created and confirmed.
Appending(event) ==
  IF event = "created" THEN {"create", "create_delivery"} ELSE Explaining(event)

\* Worker w has decided to do h to order o and will append its audit entry; a
\* cancellation that waits for approval will not.
Committed(w, o, h) ==
  /\ job[w].id = o /\ job[w].handler = h
  /\ \/ job[w].pc = "storing" /\ job[w].row.state # "pending_approval"
     \/ job[w].pc \in {"releasing", "auditing"}

\* A timeline and the audit log do not contradict each other: every event that
\* a stored timeline shows is in the log, or a request in flight will append
\* its entry.  That request may not have stored the order yet: the array it
\* wrote the event into can be the one a stored slice shows.
EventsAudited ==
  \A o \in Orders : \A i \in 1 .. tl[o].len :
    \E h \in Appending(Events(tl[o])[i]) :
      audited[o][h] > 0 \/ \E w \in Workers : Committed(w, o, h)

\* The last event of a stored order is the transition into its state, if a
\* Machine method made it: the timeline page and the state badge agree.
TimelineMatchesState ==
  \A o \in Orders :
    orders[o].state \notin {"absent", "pending_approval", "in_progress"} =>
      heap[tl[o].arr][tl[o].len] = orders[o].state

\* A stored timeline only grows: an event once shown is never rewritten.
TimelineAppendOnly ==
  [][\A o \in Orders :
       Events(tl[o]) = SubSeq(Events(tl[o])', 1, tl[o].len)]_allVars

\* However requests overlap, the first events of a booking stay, and no slot
\* that a stored timeline shows is left unwritten.
TimelineRooted ==
  \A o \in Orders :
    Exists(o) =>
      /\ Events(tl[o])[1] = "created"
      /\ orders[o].kind = "booking" => Events(tl[o])[2] = "confirmed"
      /\ \A i \in 1 .. tl[o].len : Events(tl[o])[i] # "none"
=============================================================================
