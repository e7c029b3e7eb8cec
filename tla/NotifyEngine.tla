---------------------------- MODULE NotifyEngine ----------------------------
(***************************************************************************)
(* The reminder engine of internal/notify: Engine.Send as called by        *)
(* handlers.SendNotification, over the subscriptions and delivery_attempts *)
(* tables, and the two handlers that change a subscription.                *)
(*                                                                         *)
(* A sender is a goroutine serving one notification request.  Between its  *)
(* store calls, and while it sleeps between two attempts, other senders,   *)
(* recipients and midnight take their steps.  One category; the template   *)
(* exists.  How long Backoff sleeps is left open.                          *)
(***************************************************************************)
EXTENDS Integers, FiniteSets

CONSTANTS
  Orders,       \* orders reminders are about
  Users,        \* recipients
  Senders,      \* requests that may be in flight at the same time
  ReminderCap,  \* Engine.ReminderCap (3 in the code)
  MaxAttempts,  \* Engine.MaxAttempts (5 in the code)
  Flaky,        \* may Sender.Send fail?  LocalSender as wired in never does
  Store,        \* "memory" or "postgres"
  MaxDay,       \* bound: the calendar stops here
  MaxCalls      \* bound: number of requests

ASSUME NotifyAssumption ==
  /\ IsFiniteSet(Senders)
  /\ ReminderCap \in Nat
  /\ MaxAttempts \in Nat \ {0}
  /\ Flaky \in BOOLEAN
  /\ Store \in {"memory", "postgres"}
  /\ MaxDay \in Nat
  /\ MaxCalls \in Nat

VARIABLES
  subscribed,  \* the subscriptions table; no row means subscribed
  attempts,    \* delivery_attempts, counted by order and day of SentAt
  delivered,   \* what the transport was asked to send, by order
  late,        \* history: sends to a recipient since they unsubscribed
  lost,        \* history: attempts, by order, that were not recorded
  strained,    \* history: days an order's calls overlapped, retried or ran on
  day,         \* today
  call,        \* the Send each sender is in
  calls        \* number of requests started

notifyVars == <<subscribed, attempts, delivered, late, lost, strained, day,
                call, calls>>

Days == 0 .. MaxDay
Idle == [pc |-> "idle", order |-> "none", user |-> "none", attempt |-> 0,
         ok |-> FALSE]

Init ==
  /\ subscribed = [u \in Users |-> TRUE]
  /\ attempts = [o \in Orders |-> [d \in Days |-> 0]]
  /\ delivered = [o \in Orders |-> 0]
  /\ late = [u \in Users |-> 0]
  /\ lost = [o \in Orders |-> 0]
  /\ strained = {}
  /\ day = 0
  /\ call = [w \in Senders |-> Idle]
  /\ calls = 0

Goto(w, pc) == call' = [call EXCEPT ![w].pc = pc]

-----------------------------------------------------------------------------
\* SendNotification up to the template lookup.
StartSend(w, o, u) ==
  /\ call[w].pc = "idle"
  /\ calls < MaxCalls
  /\ calls' = calls + 1
  /\ call' = [call EXCEPT ![w] = [Idle EXCEPT !.pc = "starting", !.order = o,
                                               !.user = u]]
  /\ UNCHANGED <<subscribed, attempts, delivered, late, day, lost, strained>>

\* Mutant: the subscription is not looked at.
MayReceiveAll(u) == TRUE

MayReceive(u) == subscribed[u]

\* The recipient's subscription, read once: ErrUnsubscribed ends the call.
CheckSubscription(w) ==
  /\ call[w].pc = "starting"
  /\ Goto(w, IF MayReceive(call[w].user) THEN "subscribed" ELSE "auditing")
  /\ UNCHANGED <<subscribed, attempts, delivered, late, day, calls, lost, strained>>

\* Mutant: the cap is one too high.
BelowCapOrAt(n) == n <= ReminderCap

BelowCap(n) == n < ReminderCap

\* The calls about order o that are past the cap.
Sending(o) ==
  {w \in Senders : call[w].order = o /\ call[w].pc \in {"sending", "recording", "sleeping"}}

\* Mutant: a call over the cap waits for the next day instead of giving up.
CheckCapWaits(w) ==
  /\ call[w].pc = "subscribed"
  /\ BelowCap(attempts[call[w].order][day])
  /\ call' = [call EXCEPT ![w].pc = "sending", ![w].attempt = 1]
  /\ UNCHANGED <<subscribed, attempts, delivered, late, day, calls, lost, strained>>

\* CountAttemptsForOrderOn today, once per call: ErrRateLimited ends it.
CheckCap(w) ==
  /\ call[w].pc = "subscribed"
  /\ call' = [call EXCEPT ![w] =
       IF BelowCap(attempts[call[w].order][day])
       THEN [@ EXCEPT !.pc = "sending", !.attempt = 1]
       ELSE [@ EXCEPT !.pc = "auditing"]]
  /\ strained' = strained \cup
       (IF Sending(call[w].order) # {} THEN {<<call[w].order, day>>} ELSE {})
  /\ UNCHANGED <<subscribed, attempts, delivered, late, day, calls, lost>>

\* Sender.Send.
TrySend(w) ==
  /\ call[w].pc = "sending"
  /\ delivered' = [delivered EXCEPT ![call[w].order] = @ + 1]
  /\ late' = [late EXCEPT ![call[w].user] = IF subscribed[call[w].user] THEN 0 ELSE @ + 1]
  /\ \E ok \in IF Flaky THEN BOOLEAN ELSE {TRUE} :
       call' = [call EXCEPT ![w].pc = "recording", ![w].ok = ok]
  /\ UNCHANGED <<subscribed, attempts, day, calls, lost, strained>>

\* Mutant: one attempt too many.
RetryOnceMore(attempt) == attempt <= MaxAttempts

RetryLeft(attempt) == attempt < MaxAttempts

\* Mutant: only successful attempts are kept.
AddAttemptIfSent(w) ==
  [attempts EXCEPT ![call[w].order][day] = @ + (IF call[w].ok THEN 1 ELSE 0)]

\* The attempt is dated when it is recorded, not when the cap was checked.
AddAttempt(w) == [attempts EXCEPT ![call[w].order][day] = @ + 1]

\* RecordDeliveryAttempt; its error (Postgres) is ignored.
RecordAttempt(w) ==
  /\ call[w].pc = "recording"
  /\ \/ attempts' = AddAttempt(w) /\ UNCHANGED lost
     \/ /\ Store = "postgres"
        /\ lost' = [lost EXCEPT ![call[w].order] = @ + 1]
        /\ UNCHANGED attempts
  /\ Goto(w, IF call[w].ok \/ ~RetryLeft(call[w].attempt)
             THEN "auditing" ELSE "sleeping")
  /\ UNCHANGED <<subscribed, delivered, late, strained, day, calls>>

\* The backoff is over: next attempt, without a look at the tables.
Wake(w) ==
  /\ call[w].pc = "sleeping"
  /\ call' = [call EXCEPT ![w].pc = "sending", ![w].attempt = @ + 1]
  /\ strained' = strained \cup {<<call[w].order, day>>}
  /\ UNCHANGED <<subscribed, attempts, delivered, late, day, calls, lost>>

\* notify.send or notify.send.failed to the audit log, then the response.
Answer(w) ==
  /\ call[w].pc = "auditing"
  /\ call' = [call EXCEPT ![w] = Idle]
  /\ UNCHANGED <<subscribed, attempts, delivered, late, day, calls, lost, strained>>

\* Postgres only: a lookup fails before anything was sent.
Abort(w) ==
  /\ Store = "postgres"
  /\ call[w].pc \in {"starting", "subscribed"}
  /\ call' = [call EXCEPT ![w] = Idle]
  /\ UNCHANGED <<subscribed, attempts, delivered, late, day, calls, lost, strained>>

UpdateSubscription(u, choice) ==
  /\ subscribed' = [subscribed EXCEPT ![u] = choice]
  /\ late' = [late EXCEPT ![u] = IF choice THEN 0 ELSE @]
  /\ UNCHANGED <<attempts, delivered, day, call, calls, lost, strained>>

OneClickUnsubscribe(u) ==
  /\ subscribed' = [subscribed EXCEPT ![u] = FALSE]
  /\ UNCHANGED <<attempts, delivered, late, day, call, calls, lost, strained>>

Midnight ==
  /\ day < MaxDay
  /\ day' = day + 1
  /\ strained' = strained \cup {<<o, day + 1>> : o \in {p \in Orders : Sending(p) # {}}}
  /\ UNCHANGED <<subscribed, attempts, delivered, late, call, calls, lost>>

Serve(w) ==
  \/ CheckSubscription(w)
  \/ CheckCap(w)
  \/ TrySend(w)
  \/ RecordAttempt(w)
  \/ Wake(w)
  \/ Answer(w)

Next ==
  \/ \E w \in Senders :
       \/ \E o \in Orders, u \in Users : StartSend(w, o, u)
       \/ Serve(w)
       \/ Abort(w)
  \/ \E u \in Users, choice \in BOOLEAN : UpdateSubscription(u, choice)
  \/ \E u \in Users : OneClickUnsubscribe(u)
  \/ Midnight

Spec == Init /\ [][Next]_notifyVars

\* A goroutine that can run does, a sleep ends, a transport call returns.
\* Nothing says that a statement ever fails: Abort has no fairness.
FairSpec == Spec /\ \A w \in Senders : WF_notifyVars(Serve(w))

-----------------------------------------------------------------------------
\* Type invariant; a call never gets past its last attempt.
TypeOK ==
  /\ subscribed \in [Users -> BOOLEAN]
  /\ attempts \in [Orders -> [Days -> Nat]]
  /\ delivered \in [Orders -> Nat]
  /\ late \in [Users -> Nat]
  /\ lost \in [Orders -> Nat]
  /\ strained \subseteq Orders \X Days
  /\ day \in Days
  /\ call \in [Senders ->
       [pc : {"idle", "starting", "subscribed", "sending", "recording",
              "sleeping", "auditing"},
        order : Orders \cup {"none"}, user : Users \cup {"none"},
        attempt : 0 .. MaxAttempts, ok : BOOLEAN]]
  /\ calls \in 0 .. MaxCalls

\* How far the check-once cap can be overshot on a day, by overlapping calls,
\* their retries, and calls that run past midnight: each request in flight
\* adds at most its own attempts to a count that was below the cap.
Overshoot ==
  \A o \in Orders, d \in Days :
    attempts[o][d] <= ReminderCap - 1 + Cardinality(Senders) * MaxAttempts

\* The rows of delivery_attempts about order o, numbered for each day.
Recorded(o) == UNION {{d} \X (1 .. attempts[o][d]) : d \in Days}

\* The calls about order o between the transport and the store.
Recording(o) == {w \in Senders : call[w].order = o /\ call[w].pc = "recording"}

\* Every attempt handed to the transport is in delivery_attempts, on the day
\* it was made or on a later one, or is about to be, unless the store failed
\* to keep it; and nothing else is.
EveryAttemptRecorded ==
  \A o \in Orders :
    delivered[o] = Cardinality(Recorded(o)) + lost[o] + Cardinality(Recording(o))

\* No order gets more than ReminderCap attempts recorded on a day on which
\* none of its calls overlap, retry, or run on from the day before: the
\* reminder cap of the code, which is checked once per call.
CapRespected ==
  \A o \in Orders, d \in Days :
    <<o, d>> \notin strained => attempts[o][d] <= ReminderCap

\* After a recipient unsubscribes only the requests already in flight can
\* still reach them, each with the attempts it has left.
UnsubscribeLag ==
  \A u \in Users : late[u] <= Cardinality(Senders) * MaxAttempts

\* A call gives up or gets through: the retry loop ends.
SendsReturn == \A w \in Senders : call[w].pc # "idle" ~> call[w].pc = "idle"
=============================================================================
