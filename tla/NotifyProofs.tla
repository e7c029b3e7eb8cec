---------------------------- MODULE NotifyProofs ----------------------------
(***************************************************************************)
(* Proofs about NotifyEngine, for any number of orders, recipients and     *)
(* overlapping calls, any cap and any number of attempts.                  *)
(***************************************************************************)
EXTENDS NotifyEngine, FiniteSetTheorems, TLAPS

Calls == [pc : {"idle", "starting", "subscribed", "sending", "recording",
                "sleeping", "auditing"},
          order : Orders \cup {"none"}, user : Users \cup {"none"},
          attempt : 0 .. MaxAttempts, ok : BOOLEAN]

\* A call under way is about an order; one past the cap is at its first
\* attempt or a later one, and one that sleeps has attempts left.
CallFits(c) ==
  /\ c \in Calls
  /\ c.pc # "idle" => c.order \in Orders /\ c.user \in Users
  /\ c.pc \in {"sending", "recording", "sleeping"} => c.attempt >= 1
  /\ c.pc = "sleeping" => c.attempt < MaxAttempts

Typed == TypeOK /\ \A w \in Senders : CallFits(call[w])

LEMMA IdleFits == CallFits(Idle)
  BY NotifyAssumption DEF CallFits, Calls, Idle

\* One call changes.
LEMMA CallPut ==
  ASSUME Typed, NEW w \in Senders, NEW c, CallFits(c), call' = [call EXCEPT ![w] = c]
  PROVE  /\ call' \in [Senders -> Calls] /\ \A v \in Senders : CallFits(call'[v])
         /\ call'[w] = c /\ \A v \in Senders : v # w => call'[v] = call[v]
<1>1. call \in [Senders -> Calls] /\ c \in Calls
  BY DEF Typed, TypeOK, Calls, CallFits
<1> HIDE DEF Calls
<1> QED
  BY <1>1 DEF Typed

LEMMA NotifyInit == Init => Typed
<1> SUFFICES ASSUME Init PROVE Typed
  OBVIOUS
<1>1. Idle \in Calls /\ CallFits(Idle)
  BY IdleFits DEF CallFits
<1>2. call \in [Senders -> Calls] /\ \A w \in Senders : CallFits(call[w])
  BY <1>1 DEF Init
<1>3. day \in Days /\ calls \in 0 .. MaxCalls
  BY NotifyAssumption DEF Init, Days
<1> QED
  BY <1>2, <1>3 DEF Init, Typed, TypeOK, Calls

-----------------------------------------------------------------------------
\* What each step makes of the call it is about.
Changes(w, c) == call' = [call EXCEPT ![w] = c] /\ CallFits(c)

\* The same order and the same recipient.
SameCall(c, old) == c.order = old.order /\ c.user = old.user

\* A call moves on to another place.
LEMMA GoneOn ==
  ASSUME Typed, NEW w \in Senders, call[w].pc # "idle",
         NEW p \in {"subscribed", "auditing", "sleeping"}, Goto(w, p),
         p = "sleeping" => call[w].attempt < MaxAttempts /\ call[w].attempt >= 1
  PROVE  Changes(w, [call[w] EXCEPT !.pc = p])
<1>1. CallFits(call[w]) /\ call \in [Senders -> Calls]
  BY DEF Typed, TypeOK, Calls
<1> QED
  BY <1>1 DEF Changes, Goto, CallFits, Calls

LEMMA StartShape ==
  ASSUME NEW w \in Senders, NEW o \in Orders, NEW u \in Users, StartSend(w, o, u)
  PROVE  \E c : Changes(w, c) /\ c.pc = "starting"
<1> DEFINE c == [Idle EXCEPT !.pc = "starting", !.order = o, !.user = u]
<1>1. call' = [call EXCEPT ![w] = c]
  BY DEF StartSend
<1>2. CallFits(c) /\ c.pc = "starting"
  BY IdleFits DEF CallFits, Calls, Idle
<1> QED
  BY <1>1, <1>2 DEF Changes

LEMMA CheckCapShape ==
  ASSUME Typed, NEW w \in Senders, CheckCap(w)
  PROVE  \E c : /\ Changes(w, c) /\ c.order = call[w].order
                /\ c.user = call[w].user
                /\ \/ c.pc = "auditing"
                   \/ c.pc = "sending" /\ BelowCap(attempts[c.order][day])
<1>1. CallFits(call[w]) /\ call[w].pc = "subscribed"
  BY DEF Typed, CheckCap
<1>2. CASE BelowCap(attempts[call[w].order][day])
  <2> DEFINE c == [call[w] EXCEPT !.pc = "sending", !.attempt = 1]
  <2>1. call' = [call EXCEPT ![w] = c]
    BY <1>2 DEF CheckCap
  <2>2. 1 \in 0 .. MaxAttempts
    BY NotifyAssumption
  <2>3. c \in Calls /\ c.pc = "sending" /\ c.order = call[w].order /\ c.attempt = 1
        /\ c.user = call[w].user
    BY <1>1, <2>2 DEF CallFits, Calls
  <2> HIDE DEF c
  <2>4. CallFits(c)
    BY <1>1, <2>3 DEF CallFits
  <2> QED
    BY <1>2, <2>1, <2>3, <2>4 DEF Changes
<1>3. CASE ~BelowCap(attempts[call[w].order][day])
  <2> DEFINE c == [call[w] EXCEPT !.pc = "auditing"]
  <2>1. call' = [call EXCEPT ![w] = c]
    BY <1>3 DEF CheckCap
  <2>2. CallFits(c) /\ c.pc = "auditing" /\ c.order = call[w].order
        /\ c.user = call[w].user
    BY <1>1 DEF CallFits, Calls
  <2> HIDE DEF c
  <2> QED
    BY <2>1, <2>2 DEF Changes
<1> QED
  BY <1>2, <1>3

LEMMA TryShape ==
  ASSUME Typed, NEW w \in Senders, TrySend(w)
  PROVE  \E c : /\ Changes(w, c) /\ c.pc = "recording"
                /\ SameCall(c, call[w]) /\ c.attempt = call[w].attempt
<1>1. CallFits(call[w]) /\ call[w].pc = "sending" /\ call \in [Senders -> Calls]
  BY DEF Typed, TypeOK, Calls, TrySend
<1>2. PICK ok \in BOOLEAN : call' = [call EXCEPT ![w].pc = "recording", ![w].ok = ok]
  BY DEF TrySend
<1> DEFINE c == [call[w] EXCEPT !.pc = "recording", !.ok = ok]
<1>3. call' = [call EXCEPT ![w] = c]
  BY <1>1, <1>2
<1>4. /\ CallFits(c) /\ c.pc = "recording"
      /\ SameCall(c, call[w]) /\ c.attempt = call[w].attempt
  BY <1>1 DEF CallFits, Calls, SameCall
<1> HIDE DEF c
<1> QED
  BY <1>3, <1>4 DEF Changes

LEMMA RecordShape ==
  ASSUME Typed, NEW w \in Senders, RecordAttempt(w)
  PROVE  \E c : /\ Changes(w, c) /\ c.pc \in {"auditing", "sleeping"}
                /\ SameCall(c, call[w]) /\ c.attempt = call[w].attempt
<1>1. CallFits(call[w]) /\ call[w].pc = "recording"
  BY DEF Typed, RecordAttempt
<1> DEFINE p == IF call[w].ok \/ ~RetryLeft(call[w].attempt) THEN "auditing" ELSE "sleeping"
<1>2. Goto(w, p) /\ p \in {"auditing", "sleeping"}
  BY DEF RecordAttempt
<1>3. p = "sleeping" => call[w].attempt < MaxAttempts /\ call[w].attempt >= 1
  BY <1>1 DEF RetryLeft, CallFits
<1> HIDE DEF p
<1>4. Changes(w, [call[w] EXCEPT !.pc = p])
  BY <1>1, <1>2, <1>3, GoneOn
<1> DEFINE c == [call[w] EXCEPT !.pc = p]
<1>5. c.pc = p /\ SameCall(c, call[w]) /\ c.attempt = call[w].attempt
  BY <1>1 DEF CallFits, Calls, SameCall
<1> HIDE DEF c
<1>6. Changes(w, c)
  BY <1>4 DEF c
<1> QED
  BY <1>2, <1>5, <1>6

LEMMA WakeShape ==
  ASSUME Typed, NEW w \in Senders, Wake(w)
  PROVE  \E c : /\ Changes(w, c) /\ c.pc = "sending"
                /\ SameCall(c, call[w]) /\ c.attempt = call[w].attempt + 1
<1>1. CallFits(call[w]) /\ call[w].pc = "sleeping" /\ call \in [Senders -> Calls]
  BY DEF Typed, TypeOK, Calls, Wake
<1> DEFINE c == [call[w] EXCEPT !.pc = "sending", !.attempt = call[w].attempt + 1]
<1>2. call' = [call EXCEPT ![w] = c]
  BY <1>1 DEF Wake
<1>3. call[w].attempt + 1 \in 0 .. MaxAttempts
  BY <1>1, NotifyAssumption DEF CallFits, Calls
<1>4. c \in Calls /\ c.pc = "sending" /\ c.order = call[w].order
      /\ c.user = call[w].user /\ c.attempt = call[w].attempt + 1
  BY <1>1, <1>3 DEF CallFits, Calls
<1>5. call[w].attempt \in 0 .. MaxAttempts /\ MaxAttempts \in Nat
  BY <1>1, NotifyAssumption DEF CallFits, Calls
<1> HIDE DEF c
<1>6. CallFits(c) /\ SameCall(c, call[w])
  BY <1>1, <1>4, <1>5 DEF CallFits, SameCall
<1> QED
  BY <1>2, <1>4, <1>6 DEF Changes

\* What any step of a sender makes of its call: it goes past the cap only by
\* finding the count below it.
LEMMA SenderShape ==
  ASSUME Typed, NEW w \in Senders,
         (\E o \in Orders, u \in Users : StartSend(w, o, u)) \/ Serve(w) \/ Abort(w)
  PROVE  \E c : Changes(w, c)
<1>1. CallFits(call[w]) /\ CallFits(Idle)
  BY IdleFits DEF Typed
<1>2. CASE CheckSubscription(w)
  <2>1. PICK p \in {"subscribed", "auditing"} : Goto(w, p) /\ call[w].pc # "idle"
    BY <1>2 DEF CheckSubscription
  <2>2. Changes(w, [call[w] EXCEPT !.pc = p])
    BY <2>1, GoneOn
  <2> QED
    BY <2>2
<1>3. CASE Answer(w) \/ Abort(w)
  BY <1>1, <1>3 DEF Answer, Abort, Changes
<1> QED
  BY <1>2, <1>3, StartShape, CheckCapShape, TryShape, RecordShape, WakeShape DEF Serve

LEMMA NotifyTypeStep == Typed /\ [Next]_notifyVars => Typed'
<1> SUFFICES ASSUME Typed, [Next]_notifyVars PROVE Typed'
  OBVIOUS
<1> DEFINE Sent == \A w \in Senders : CallFits(call'[w])
           Rest == /\ subscribed' \in [Users -> BOOLEAN]
                   /\ attempts' \in [Orders -> [Days -> Nat]]
                   /\ delivered' \in [Orders -> Nat]
                   /\ late' \in [Users -> Nat]
                   /\ lost' \in [Orders -> Nat]
                   /\ strained' \subseteq Orders \X Days
                   /\ day' \in Days
                   /\ calls' \in 0 .. MaxCalls
<1>1. Rest /\ Sent /\ call' \in [Senders -> Calls] => Typed'
  BY DEF Typed, TypeOK, Calls
<1>2. ASSUME NEW w \in Senders, Rest,
             (\E o \in Orders, u \in Users : StartSend(w, o, u)) \/ Serve(w) \/ Abort(w)
      PROVE  Typed'
  <2> HIDE DEF Rest
  <2>1. PICK c : Changes(w, c)
    BY <1>2, SenderShape
  <2> QED
    BY <1>1, <1>2, <2>1, CallPut DEF Changes
<1>3. ASSUME UNCHANGED call, Rest PROVE Typed'
  <2> HIDE DEF Rest
  <2>1. call \in [Senders -> Calls] /\ \A w \in Senders : CallFits(call[w])
    BY DEF Typed, TypeOK, Calls
  <2> QED
    BY <1>1, <1>3, <2>1
<1>4. ASSUME NEW w \in Senders
      PROVE  call[w].pc # "idle" => call[w].order \in Orders /\ call[w].user \in Users
  BY DEF Typed, CallFits
<1>5. ASSUME NEW w \in Senders, NEW o \in Orders, NEW u \in Users, StartSend(w, o, u)
      PROVE  Rest
  <2>1. calls' \in 0 .. MaxCalls
    BY <1>5, NotifyAssumption DEF StartSend, Typed, TypeOK
  <2> QED
    BY <1>5, <2>1 DEF StartSend, Typed, TypeOK
<1>6. ASSUME NEW w \in Senders, Serve(w) PROVE Rest
  <2>1. CASE CheckSubscription(w) \/ Answer(w)
    BY <2>1 DEF CheckSubscription, Answer, Typed, TypeOK
  <2>2. CASE CheckCap(w)
    BY <1>4, <2>2 DEF CheckCap, Typed, TypeOK
  <2>3. CASE TrySend(w)
    BY <1>4, <2>3 DEF TrySend, Typed, TypeOK
  <2>4. CASE RecordAttempt(w)
    <3>1. call[w].order \in Orders
      BY <1>4, <2>4 DEF RecordAttempt
    <3>2. AddAttempt(w) \in [Orders -> [Days -> Nat]]
      BY <3>1 DEF AddAttempt, Typed, TypeOK
    <3>3. [lost EXCEPT ![call[w].order] = @ + 1] \in [Orders -> Nat]
      BY <3>1 DEF Typed, TypeOK
    <3> QED
      BY <2>4, <3>2, <3>3 DEF RecordAttempt, Typed, TypeOK
  <2>5. CASE Wake(w)
    BY <1>4, <2>5 DEF Wake, Typed, TypeOK
  <2> QED
    BY <1>6, <2>1, <2>2, <2>3, <2>4, <2>5 DEF Serve
<1>7. ASSUME NEW w \in Senders, Abort(w) PROVE Rest
  BY <1>7 DEF Abort, Typed, TypeOK
<1>8. ASSUME NEW u \in Users, NEW choice \in BOOLEAN, UpdateSubscription(u, choice)
      PROVE  Rest /\ UNCHANGED call
  BY <1>8 DEF UpdateSubscription, Typed, TypeOK
<1>9. ASSUME NEW u \in Users, OneClickUnsubscribe(u) PROVE Rest /\ UNCHANGED call
  BY <1>9 DEF OneClickUnsubscribe, Typed, TypeOK
<1>10. CASE Midnight
  BY <1>3, <1>10, NotifyAssumption DEF Midnight, Typed, TypeOK, Days
<1>11. CASE UNCHANGED notifyVars
  BY <1>3, <1>11 DEF notifyVars, Typed, TypeOK
<1> HIDE DEF Rest
<1> QED
  BY <1>2, <1>3, <1>5, <1>6, <1>7, <1>8, <1>9, <1>10, <1>11 DEF Next

\* Every state is well typed, and no call gets past its last attempt: the
\* retry loop of Engine.Send counts no further than MaxAttempts.
THEOREM NotifyTypeCorrect == Spec => []TypeOK
<1>1. Typed => TypeOK
  BY DEF Typed
<1> QED
  BY <1>1, NotifyInit, NotifyTypeStep, PTL DEF Spec

-----------------------------------------------------------------------------
\* Why the cap holds on an unstrained day: the calls about an order take
\* turns, and the one whose turn it is found the count below the cap, which
\* no other call has raised since.
PastCap(c) == c.pc \in {"sending", "recording", "sleeping"}

OneAtATime ==
  \A v, w \in Senders :
    /\ PastCap(call[v]) /\ PastCap(call[w]) /\ call[v].order = call[w].order
    /\ <<call[v].order, day>> \notin strained
    => v = w

RoomLeft ==
  \A w \in Senders :
    /\ call[w].pc \in {"sending", "recording"}
    /\ <<call[w].order, day>> \notin strained
    => BelowCap(attempts[call[w].order][day])

Capped == OneAtATime /\ RoomLeft /\ CapRespected

LEMMA NotifyCapInit == Init => Capped
<1> SUFFICES ASSUME Init PROVE Capped
  OBVIOUS
<1>1. \A w \in Senders : call[w].pc = "idle"
  BY DEF Init, Idle
<1>2. CapRespected
  BY NotifyAssumption DEF Init, CapRespected
<1> QED
  BY <1>1, <1>2 DEF Capped, OneAtATime, RoomLeft, PastCap

\* A call that goes on without passing the cap and without recording.
LEMMA NothingCounted ==
  ASSUME Typed, Capped, NEW w \in Senders, NEW c, Changes(w, c),
         UNCHANGED <<attempts, day>>, strained \subseteq strained',
         PastCap(c) => PastCap(call[w]) /\ c.order = call[w].order,
         /\ c.pc \in {"sending", "recording"}
         /\ <<c.order, day>> \notin strained'
         => call[w].pc \in {"sending", "recording"}
  PROVE  Capped'
<1>1. call'[w] = c /\ \A v \in Senders : v # w => call'[v] = call[v]
  BY CallPut DEF Changes
<1>2. ASSUME NEW v \in Senders, PastCap(call'[v])
      PROVE  PastCap(call[v]) /\ call'[v].order = call[v].order
  BY <1>1, <1>2
<1>3. OneAtATime'
  BY <1>2 DEF Capped, OneAtATime, PastCap
<1>4. ASSUME NEW v \in Senders, call'[v].pc \in {"sending", "recording"},
             <<call'[v].order, day>> \notin strained'
      PROVE  BelowCap(attempts[call'[v].order][day])
  <2>1. call[v].pc \in {"sending", "recording"}
    BY <1>1, <1>4
  <2>2. call'[v].order = call[v].order
    BY <1>2, <1>4 DEF PastCap
  <2> QED
    BY <1>4, <2>1, <2>2 DEF Capped, RoomLeft
<1>5. RoomLeft'
  BY <1>4 DEF RoomLeft, BelowCap
<1>6. CapRespected'
  BY DEF Capped, CapRespected
<1> QED
  BY <1>3, <1>5, <1>6 DEF Capped

\* The cap is looked at: a call that finds others about its order past the
\* cap strains the day, one that finds none is alone.
LEMMA CapLooked ==
  ASSUME Typed, Capped, NEW w \in Senders, CheckCap(w)
  PROVE  Capped'
<1>1. PICK c : /\ Changes(w, c) /\ c.order = call[w].order
               /\ \/ c.pc = "auditing"
                  \/ c.pc = "sending" /\ BelowCap(attempts[c.order][day])
  BY CheckCapShape
<1>2. call'[w] = c /\ \A v \in Senders : v # w => call'[v] = call[v]
  BY <1>1, CallPut DEF Changes
<1>3. UNCHANGED <<attempts, day>> /\ strained \subseteq strained'
  BY DEF CheckCap
<1>4. CASE c.pc = "auditing"
  BY <1>1, <1>3, <1>4, NothingCounted DEF PastCap
<1>5. CASE c.pc = "sending" /\ BelowCap(attempts[c.order][day])
  <2>1. ASSUME NEW v \in Senders, v # w, PastCap(call[v]), call[v].order = c.order
        PROVE  <<c.order, day>> \in strained'
    BY <1>1, <2>1 DEF CheckCap, Sending, PastCap
  <2>2. OneAtATime'
    BY <1>2, <1>3, <2>1 DEF Capped, OneAtATime
  <2>3. ASSUME NEW v \in Senders, call'[v].pc \in {"sending", "recording"},
               <<call'[v].order, day>> \notin strained'
        PROVE  BelowCap(attempts[call'[v].order][day])
    BY <1>2, <1>3, <1>5, <2>3 DEF Capped, RoomLeft
  <2>4. RoomLeft'
    BY <1>3, <2>3 DEF RoomLeft, BelowCap
  <2>5. CapRespected'
    BY <1>3 DEF Capped, CapRespected
  <2> QED
    BY <2>2, <2>4, <2>5 DEF Capped
<1> QED
  BY <1>1, <1>4, <1>5

\* An attempt is recorded: on an unstrained day nobody else is past the cap.
LEMMA AttemptCounted ==
  ASSUME Typed, Capped, NEW w \in Senders, RecordAttempt(w)
  PROVE  Capped'
<1>1. PICK c : /\ Changes(w, c) /\ c.order = call[w].order
               /\ c.pc \in {"auditing", "sleeping"}
  BY RecordShape DEF SameCall
<1>2. call'[w] = c /\ \A v \in Senders : v # w => call'[v] = call[v]
  BY <1>1, CallPut DEF Changes
<1>3. UNCHANGED <<day, strained>> /\ call[w].pc = "recording"
  BY DEF RecordAttempt
<1>4. call[w].order \in Orders /\ day \in Days
      /\ attempts \in [Orders -> [Days -> Nat]]
  BY <1>3 DEF Typed, TypeOK, CallFits
<1>5. ASSUME NEW o \in Orders, NEW d \in Days,
             attempts'[o][d] # attempts[o][d]
      PROVE  o = call[w].order /\ d = day /\ attempts'[o][d] = attempts[o][d] + 1
  BY <1>4, <1>5 DEF RecordAttempt, AddAttempt
<1>6. OneAtATime'
  BY <1>1, <1>2, <1>3 DEF Capped, OneAtATime, PastCap
<1>7. ASSUME NEW v \in Senders, call'[v].pc \in {"sending", "recording"},
             <<call'[v].order, day>> \notin strained
      PROVE  BelowCap(attempts'[call'[v].order][day])
  <2>1. v # w /\ call'[v] = call[v]
    BY <1>1, <1>2, <1>7
  <2>2. call[v].order # call[w].order
    BY <1>3, <1>7, <2>1 DEF Capped, OneAtATime, PastCap
  <2>3. call[v].order \in Orders
    BY <1>7, <2>1 DEF Typed, CallFits
  <2>4. attempts'[call[v].order][day] = attempts[call[v].order][day]
    BY <1>4, <1>5, <2>2, <2>3
  <2> QED
    BY <1>7, <2>1, <2>4 DEF Capped, RoomLeft
<1>8. RoomLeft'
  BY <1>3, <1>7 DEF RoomLeft, BelowCap
<1>9. ASSUME NEW o \in Orders, NEW d \in Days, <<o, d>> \notin strained
      PROVE  attempts'[o][d] <= ReminderCap
  <2>1. CASE attempts'[o][d] = attempts[o][d]
    BY <1>9, <2>1 DEF Capped, CapRespected
  <2>2. CASE attempts'[o][d] # attempts[o][d]
    <3>1. o = call[w].order /\ d = day /\ attempts'[o][d] = attempts[o][d] + 1
      BY <1>5, <2>2
    <3>2. attempts[o][d] < ReminderCap
      BY <1>3, <1>9, <3>1 DEF Capped, RoomLeft, BelowCap
    <3>3. attempts[o][d] \in Nat
      BY <1>4
    <3> QED
      BY <3>1, <3>2, <3>3, NotifyAssumption
  <2> QED
    BY <2>1, <2>2
<1>10. CapRespected'
  BY <1>3, <1>9 DEF CapRespected
<1> QED
  BY <1>6, <1>8, <1>10 DEF Capped

LEMMA NotifyCapStep == Typed /\ Capped /\ [Next]_notifyVars => Capped'
<1> SUFFICES ASSUME Typed, Capped, [Next]_notifyVars PROVE Capped'
  OBVIOUS
<1>1. CallFits(Idle) /\ \A w \in Senders : CallFits(call[w])
  BY IdleFits DEF Typed
<1>2. ASSUME NEW w \in Senders, NEW o \in Orders, NEW u \in Users, StartSend(w, o, u)
      PROVE  Capped'
  <2>1. PICK c : Changes(w, c) /\ c.pc = "starting"
    BY <1>2, StartShape
  <2> QED
    BY <1>2, <2>1, NothingCounted DEF StartSend, PastCap
<1>3. ASSUME NEW w \in Senders, CheckSubscription(w) PROVE Capped'
  <2>1. PICK p \in {"subscribed", "auditing"} : Goto(w, p) /\ call[w].pc # "idle"
    BY <1>3 DEF CheckSubscription
  <2>2. Changes(w, [call[w] EXCEPT !.pc = p])
    BY <2>1, GoneOn
  <2>3. [call[w] EXCEPT !.pc = p].pc = p
    BY <1>1 DEF CallFits, Calls
  <2> QED
    BY <1>3, <2>1, <2>2, <2>3, NothingCounted DEF CheckSubscription, PastCap
<1>4. ASSUME NEW w \in Senders, TrySend(w) PROVE Capped'
  <2>1. PICK c : Changes(w, c) /\ c.order = call[w].order /\ c.pc = "recording"
    BY <1>4, TryShape DEF SameCall
  <2> QED
    BY <1>4, <2>1, NothingCounted DEF TrySend, PastCap
<1>5. ASSUME NEW w \in Senders, Wake(w) PROVE Capped'
  <2>1. PICK c : Changes(w, c) /\ c.order = call[w].order /\ c.pc = "sending"
    BY <1>5, WakeShape DEF SameCall
  <2>2. <<c.order, day>> \in strained' /\ PastCap(call[w])
    BY <1>5, <2>1 DEF Wake, PastCap
  <2> QED
    BY <1>5, <2>1, <2>2, NothingCounted DEF Wake
<1>6. ASSUME NEW w \in Senders, Answer(w) \/ Abort(w) PROVE Capped'
  <2>1. Changes(w, Idle) /\ Idle.pc = "idle"
    BY <1>1, <1>6 DEF Answer, Abort, Changes, Idle
  <2> QED
    BY <1>6, <2>1, NothingCounted DEF Answer, Abort, PastCap
<1>7. CASE UNCHANGED <<call, attempts, strained, day>>
  BY <1>7 DEF Capped, OneAtATime, RoomLeft, CapRespected, PastCap, BelowCap
<1>8. CASE Midnight
  <2>1. ASSUME NEW w \in Senders, PastCap(call[w])
        PROVE  <<call[w].order, day'>> \in strained'
    <3>1. call[w].order \in Orders
      BY <1>1, <2>1 DEF CallFits, PastCap
    <3>2. w \in Sending(call[w].order)
      BY <2>1 DEF Sending, PastCap
    <3> QED
      BY <1>8, <3>1, <3>2 DEF Midnight
  <2>2. OneAtATime' /\ RoomLeft'
    BY <1>8, <2>1 DEF Midnight, OneAtATime, RoomLeft, PastCap
  <2>3. CapRespected'
    BY <1>8 DEF Midnight, Capped, CapRespected
  <2> QED
    BY <2>2, <2>3 DEF Capped
<1>9. ASSUME NEW u \in Users, NEW choice \in BOOLEAN,
             UpdateSubscription(u, choice) \/ OneClickUnsubscribe(u)
      PROVE  Capped'
  BY <1>7, <1>9 DEF UpdateSubscription, OneClickUnsubscribe
<1>10. CASE UNCHANGED notifyVars
  BY <1>7, <1>10 DEF notifyVars
<1> QED
  BY <1>2, <1>3, <1>4, <1>5, <1>6, <1>8, <1>9, <1>10, CapLooked, AttemptCounted
     DEF Next, Serve

\* No order gets more than ReminderCap attempts recorded on a day on which
\* its calls neither overlapped nor retried nor ran past midnight: Engine.Send
\* looks at the cap once per call, and that is exactly what the look is worth.
THEOREM CapHoldsUnstrained == Spec => []CapRespected
<1>1. Init => Typed /\ Capped
  BY NotifyInit, NotifyCapInit
<1>2. Typed /\ Capped /\ [Next]_notifyVars => (Typed /\ Capped)'
  BY NotifyTypeStep, NotifyCapStep
<1>3. Capped => CapRespected
  BY DEF Capped
<1> QED
  BY <1>1, <1>2, <1>3, PTL DEF Spec

-----------------------------------------------------------------------------
\* How far the cap can be overshot, and for how long an unsubscribed recipient
\* can still be sent to: what the calls in flight have left adds up to no more
\* than all their attempts, and an attempt made is one that is not left.
InFlight == Senders \X (1 .. MaxAttempts)

\* The attempts a call may still record, and those it may still make.
Unrecorded(c) ==
  {k \in 1 .. MaxAttempts :
     \/ c.pc \in {"sending", "recording"} /\ k >= c.attempt
     \/ c.pc = "sleeping" /\ k > c.attempt}

Unsent(c) ==
  {k \in 1 .. MaxAttempts :
     \/ c.pc = "subscribed"
     \/ c.pc = "sending" /\ k >= c.attempt
     \/ c.pc \in {"recording", "sleeping"} /\ k > c.attempt}

\* Those about an order, and those to a recipient.
ToRecord(o) ==
  {p \in InFlight : call[p[1]].order = o /\ p[2] \in Unrecorded(call[p[1]])}

ToSend(u) ==
  {p \in InFlight : call[p[1]].user = u /\ p[2] \in Unsent(call[p[1]])}

Budget == Cardinality(Senders) * MaxAttempts

\* Today's count and what is left to record stay within the bound; no attempt
\* is dated in the future.
Contained ==
  \A o \in Orders :
    /\ attempts[o][day] + Cardinality(ToRecord(o)) <= ReminderCap - 1 + Budget
    /\ \A d \in Days : d > day => attempts[o][d] = 0

Lagging ==
  \A u \in Users :
    /\ subscribed[u] => late[u] = 0
    /\ late[u] + Cardinality(ToSend(u)) <= Budget

LEMMA BudgetIsNat ==
  /\ Cardinality(Senders) \in Nat /\ Budget \in Nat
  /\ IsFiniteSet(InFlight) /\ Cardinality(InFlight) = Budget
<1>1. IsFiniteSet(Senders) /\ MaxAttempts \in Nat
  BY NotifyAssumption
<1>2. Cardinality(Senders) \in Nat
  BY <1>1, FS_CardinalityType
<1>3. IsFiniteSet(1 .. MaxAttempts) /\ Cardinality(1 .. MaxAttempts) = MaxAttempts
  <2>1. 1 \in Int /\ MaxAttempts \in Int
    BY <1>1
  <2>2. Cardinality(1 .. MaxAttempts) = IF 1 > MaxAttempts THEN 0 ELSE MaxAttempts - 1 + 1
    BY <2>1, FS_Interval
  <2> QED
    BY <1>1, <2>1, <2>2, FS_Interval
<1>4. IsFiniteSet(InFlight) /\ Cardinality(InFlight) = Cardinality(Senders) * MaxAttempts
  BY <1>1, <1>3, FS_Product DEF InFlight
<1> QED
  BY <1>1, <1>2, <1>4 DEF Budget

\* A part of the attempts in flight is counted by a natural number, within
\* the budget, and smaller still if an attempt is missing.
LEMMA PartOfBudget ==
  ASSUME NEW T \in SUBSET InFlight
  PROVE  IsFiniteSet(T) /\ Cardinality(T) \in Nat /\ Cardinality(T) <= Budget
<1>1. IsFiniteSet(T) /\ Cardinality(T) <= Cardinality(InFlight)
  BY BudgetIsNat, FS_Subset
<1> QED
  BY <1>1, BudgetIsNat, FS_CardinalityType

LEMMA PartShrinks ==
  ASSUME NEW T \in SUBSET InFlight, NEW R \in SUBSET T
  PROVE  /\ Cardinality(R) \in Nat /\ Cardinality(T) \in Nat
         /\ Cardinality(R) <= Cardinality(T)
         /\ \A p \in T \ R : Cardinality(R) + 1 <= Cardinality(T)
<1>1. IsFiniteSet(T) /\ Cardinality(T) \in Nat
  BY PartOfBudget
<1>2. IsFiniteSet(R) /\ Cardinality(R) \in Nat
  BY PartOfBudget
<1>3. Cardinality(R) <= Cardinality(T) /\ (Cardinality(T) = Cardinality(R) => T = R)
  BY <1>1, FS_Subset
<1>4. ASSUME NEW p \in T \ R PROVE Cardinality(T) # Cardinality(R)
  BY <1>3
<1> QED
  BY <1>1, <1>2, <1>3, <1>4

\* A call that has less left to record, or to send, leaves less over all.
LEMMA LessToRecord ==
  ASSUME Typed, NEW w \in Senders, NEW c, Changes(w, c),
         Unrecorded(c) \subseteq Unrecorded(call[w]),
         Unrecorded(c) # {} => c.order = call[w].order,
         NEW o
  PROVE  ToRecord(o)' \subseteq ToRecord(o)
<1>1. call'[w] = c /\ \A v \in Senders : v # w => call'[v] = call[v]
  BY CallPut DEF Changes
<1>2. ASSUME NEW v \in Senders, NEW k \in Unrecorded(call'[v]), call'[v].order = o
      PROVE  k \in Unrecorded(call[v]) /\ call[v].order = o
  <2>1. CASE v # w
    BY <1>1, <1>2, <2>1
  <2>2. CASE v = w
    BY <1>1, <1>2, <2>2
  <2> QED
    BY <2>1, <2>2
<1> QED
  BY <1>2 DEF ToRecord, InFlight

LEMMA LessToSend ==
  ASSUME Typed, NEW w \in Senders, NEW c, Changes(w, c),
         Unsent(c) \subseteq Unsent(call[w]),
         Unsent(c) # {} => c.user = call[w].user,
         NEW u
  PROVE  ToSend(u)' \subseteq ToSend(u)
<1>1. call'[w] = c /\ \A v \in Senders : v # w => call'[v] = call[v]
  BY CallPut DEF Changes
<1>2. ASSUME NEW v \in Senders, NEW k \in Unsent(call'[v]), call'[v].user = u
      PROVE  k \in Unsent(call[v]) /\ call[v].user = u
  <2>1. CASE v # w
    BY <1>1, <1>2, <2>1
  <2>2. CASE v = w
    BY <1>1, <1>2, <2>2
  <2> QED
    BY <2>1, <2>2
<1> QED
  BY <1>2 DEF ToSend, InFlight

LEMMA ContainedInit == ASSUME Senders # {} PROVE Init => Contained
<1> SUFFICES ASSUME Init, NEW o \in Orders
             PROVE  /\ attempts[o][day] + Cardinality(ToRecord(o)) <= ReminderCap - 1 + Budget
                    /\ \A d \in Days : d > day => attempts[o][d] = 0
  BY DEF Contained
<1>1. ToRecord(o) = {}
  BY DEF Init, Idle, ToRecord, InFlight, Unrecorded
<1>2. \A d \in Days : attempts[o][d] = 0
  BY DEF Init
<1>3. attempts[o][day] = 0
  BY <1>2, NotifyAssumption DEF Init, Days
<1>4. Budget >= 1
  <2>1. PICK w \in Senders : <<w, 1>> \in InFlight
    BY NotifyAssumption DEF InFlight
  <2>2. Budget # 0
    BY <2>1, BudgetIsNat, FS_EmptySet
  <2> QED
    BY <2>2, BudgetIsNat
<1>5. Cardinality(ToRecord(o)) = 0
  BY <1>1, FS_EmptySet
<1> QED
  BY <1>2, <1>3, <1>4, <1>5, BudgetIsNat, NotifyAssumption

\* A call goes on and no attempt is recorded.
LEMMA NoneRecorded ==
  ASSUME Typed, Contained, UNCHANGED <<attempts, day>>,
         \A o \in Orders : ToRecord(o)' \subseteq ToRecord(o)
  PROVE  Contained'
<1> SUFFICES ASSUME NEW o \in Orders
             PROVE  attempts[o][day] + Cardinality(ToRecord(o)')
                      <= ReminderCap - 1 + Budget
  BY DEF Contained, Budget
<1>1. ToRecord(o) \in SUBSET InFlight /\ ToRecord(o)' \in SUBSET ToRecord(o)
  BY DEF ToRecord
<1> DEFINE before == ToRecord(o)
           after == ToRecord(o)'
<1>2. attempts[o][day] \in Nat
  BY DEF Typed, TypeOK
<1>3. attempts[o][day] + Cardinality(before) <= ReminderCap - 1 + Budget
  BY DEF Contained
<1> HIDE DEF before, after
<1>4. /\ Cardinality(after) \in Nat /\ Cardinality(before) \in Nat
      /\ Cardinality(after) <= Cardinality(before)
  BY <1>1, PartShrinks DEF before, after
<1>5. attempts[o][day] + Cardinality(after) <= ReminderCap - 1 + Budget
  BY <1>2, <1>3, <1>4, BudgetIsNat, NotifyAssumption
<1> QED
  BY <1>5 DEF after

\* A call gets past the cap: the count is below it, and whatever the calls in
\* flight have left fits the budget.
LEMMA CapPassed ==
  ASSUME Typed, Contained, NEW w \in Senders, CheckCap(w)
  PROVE  Contained'
<1>1. PICK c : /\ Changes(w, c) /\ c.order = call[w].order
               /\ \/ c.pc = "auditing"
                  \/ c.pc = "sending" /\ BelowCap(attempts[c.order][day])
  BY CheckCapShape
<1>2. call'[w] = c /\ \A v \in Senders : v # w => call'[v] = call[v]
  BY <1>1, CallPut DEF Changes
<1>3. UNCHANGED <<attempts, day>>
  BY DEF CheckCap
<1>4. CASE c.pc = "auditing"
  <2>1. Unrecorded(c) = {}
    BY <1>4 DEF Unrecorded
  <2>2. \A o \in Orders : ToRecord(o)' \subseteq ToRecord(o)
    BY <1>1, <2>1, LessToRecord
  <2> QED
    BY <1>3, <2>2, NoneRecorded
<1>5. CASE c.pc = "sending" /\ BelowCap(attempts[c.order][day])
  <2> SUFFICES ASSUME NEW o \in Orders
               PROVE  attempts[o][day] + Cardinality(ToRecord(o)')
                        <= ReminderCap - 1 + Budget
    BY <1>3 DEF Contained, Budget
  <2>1. attempts[o][day] \in Nat /\ ReminderCap \in Nat
    BY NotifyAssumption DEF Typed, TypeOK
  <2> DEFINE before == ToRecord(o)
             after == ToRecord(o)'
  <2>2. before \in SUBSET InFlight /\ after \in SUBSET InFlight
    BY DEF ToRecord, InFlight
  <2>3. attempts[o][day] + Cardinality(before) <= ReminderCap - 1 + Budget
    BY DEF Contained
  <2>4. o # call[w].order => after \subseteq before
    <3>1. ASSUME o # call[w].order, NEW v \in Senders, call'[v].order = o
          PROVE  call'[v] = call[v]
      BY <1>1, <1>2, <3>1
    <3> QED
      BY <3>1 DEF ToRecord, InFlight
  <2>5. Cardinality(after) \in Nat /\ Cardinality(after) <= Budget
    <3> HIDE DEF after
    <3> QED
      BY <2>2, PartOfBudget
  <2>6. CASE o = call[w].order
    <3>1. attempts[o][day] <= ReminderCap - 1
      BY <1>1, <1>5, <2>1, <2>6 DEF BelowCap
    <3> HIDE DEF after
    <3>2. attempts[o][day] + Cardinality(after) <= ReminderCap - 1 + Budget
      BY <2>1, <2>5, <3>1, BudgetIsNat
    <3> QED
      BY <3>2 DEF after
  <2>7. CASE o # call[w].order
    <3> HIDE DEF before, after
    <3>1. Cardinality(before) \in Nat /\ Cardinality(after) <= Cardinality(before)
      BY <2>2, <2>4, <2>7, PartShrinks
    <3>2. attempts[o][day] + Cardinality(after) <= ReminderCap - 1 + Budget
      BY <2>1, <2>3, <2>5, <3>1, BudgetIsNat
    <3> QED
      BY <3>2 DEF after
  <2> QED
    BY <2>6, <2>7
<1> QED
  BY <1>1, <1>4, <1>5

\* An attempt is recorded, and is left no more.
LEMMA OneRecorded ==
  ASSUME Typed, Contained, NEW w \in Senders, RecordAttempt(w)
  PROVE  Contained'
<1>1. PICK c : /\ Changes(w, c) /\ c.pc \in {"auditing", "sleeping"}
               /\ SameCall(c, call[w]) /\ c.attempt = call[w].attempt
  BY RecordShape
<1>2. call'[w] = c /\ \A v \in Senders : v # w => call'[v] = call[v]
  BY <1>1, CallPut DEF Changes
<1>3. call[w].pc = "recording" /\ UNCHANGED day
  BY DEF RecordAttempt
<1>4. /\ call[w].order \in Orders /\ call[w].attempt \in 1 .. MaxAttempts
      /\ day \in Days /\ attempts \in [Orders -> [Days -> Nat]]
  BY <1>3 DEF Typed, TypeOK, CallFits, Calls
<1>5. Unrecorded(c) \subseteq Unrecorded(call[w])
  BY <1>1, <1>3, <1>4 DEF Unrecorded
<1>6. \A o \in Orders : ToRecord(o)' \subseteq ToRecord(o)
  BY <1>1, <1>5, LessToRecord DEF SameCall
<1>7. CASE attempts' = attempts
  BY <1>3, <1>6, <1>7, NoneRecorded
<1>8. CASE attempts' = AddAttempt(w)
  <2>1. ASSUME NEW o \in Orders, NEW d \in Days
        PROVE  attempts'[o][d] = IF o = call[w].order /\ d = day
                                 THEN attempts[o][d] + 1 ELSE attempts[o][d]
    BY <1>4, <1>8 DEF AddAttempt
  <2> SUFFICES ASSUME NEW o \in Orders
               PROVE  attempts'[o][day] + Cardinality(ToRecord(o)')
                        <= ReminderCap - 1 + Budget
    <3>1. \A o \in Orders : \A d \in Days : d > day => attempts'[o][d] = 0
      <4>1. ASSUME NEW o \in Orders, NEW d \in Days, d > day
            PROVE  attempts'[o][d] = 0
        <5>1. attempts[o][d] = 0 /\ d # day
          BY <1>4, <4>1, NotifyAssumption DEF Contained, Days
        <5> QED
          BY <2>1, <5>1
      <4> QED
        BY <4>1
    <3> QED
      BY <1>3, <3>1 DEF Contained, Budget
  <2> DEFINE before == ToRecord(o)
             after == ToRecord(o)'
  <2>2. before \in SUBSET InFlight /\ after \in SUBSET before
    BY <1>6 DEF ToRecord
  <2>3. attempts[o][day] + Cardinality(before) <= ReminderCap - 1 + Budget
    BY DEF Contained
  <2>4. attempts[o][day] \in Nat
    BY <1>4
  <2>5. o = call[w].order => <<w, call[w].attempt>> \in before \ after
    <3> SUFFICES ASSUME o = call[w].order PROVE <<w, call[w].attempt>> \in before \ after
      OBVIOUS
    <3>1. <<w, call[w].attempt>> \in InFlight
      BY <1>4 DEF InFlight
    <3>2. call[w].attempt \in Unrecorded(call[w])
      BY <1>3, <1>4 DEF Unrecorded
    <3>3. call[w].attempt \notin Unrecorded(c)
      BY <1>1, <1>4 DEF Unrecorded
    <3>4. <<w, call[w].attempt>> \in before
      BY <3>1, <3>2 DEF ToRecord
    <3>5. <<w, call[w].attempt>> \notin after
      BY <1>2, <3>3 DEF ToRecord
    <3> QED
      BY <3>4, <3>5
  <2> HIDE DEF before, after
  <2>6. /\ Cardinality(before) \in Nat /\ Cardinality(after) \in Nat
        /\ Cardinality(after) <= Cardinality(before)
        /\ o = call[w].order => Cardinality(after) + 1 <= Cardinality(before)
    BY <2>2, <2>5, PartShrinks
  <2>7. attempts'[o][day] = IF o = call[w].order THEN attempts[o][day] + 1
                            ELSE attempts[o][day]
    BY <1>4, <2>1
  <2>8. attempts'[o][day] + Cardinality(after) <= ReminderCap - 1 + Budget
    BY <2>3, <2>4, <2>6, <2>7, BudgetIsNat, NotifyAssumption
  <2> QED
    BY <2>8 DEF after
<1> QED
  BY <1>7, <1>8 DEF RecordAttempt

LEMMA ContainedStep == Typed /\ Contained /\ [Next]_notifyVars => Contained'
<1> SUFFICES ASSUME Typed, Contained, [Next]_notifyVars PROVE Contained'
  OBVIOUS
<1>1. CallFits(Idle) /\ \A w \in Senders : CallFits(call[w])
  BY IdleFits DEF Typed
<1>2. ASSUME NEW w \in Senders, NEW c, Changes(w, c), UNCHANGED <<attempts, day>>,
             Unrecorded(c) = {}
      PROVE  Contained'
  <2>1. \A o \in Orders : ToRecord(o)' \subseteq ToRecord(o)
    BY <1>2, LessToRecord
  <2> QED
    BY <1>2, <2>1, NoneRecorded
<1>3. ASSUME NEW w \in Senders, NEW o \in Orders, NEW u \in Users, StartSend(w, o, u)
      PROVE  Contained'
  <2>1. PICK c : Changes(w, c) /\ c.pc = "starting"
    BY <1>3, StartShape
  <2>2. Unrecorded(c) = {}
    BY <2>1 DEF Unrecorded
  <2> QED
    BY <1>2, <1>3, <2>1, <2>2 DEF StartSend
<1>4. ASSUME NEW w \in Senders, CheckSubscription(w) PROVE Contained'
  <2>1. PICK p \in {"subscribed", "auditing"} : Goto(w, p) /\ call[w].pc # "idle"
    BY <1>4 DEF CheckSubscription
  <2> DEFINE c == [call[w] EXCEPT !.pc = p]
  <2>2. Changes(w, c)
    BY <2>1, GoneOn
  <2>3. c.pc = p
    BY <1>1 DEF CallFits, Calls
  <2> HIDE DEF c
  <2>4. Unrecorded(c) = {}
    BY <2>3 DEF Unrecorded
  <2> QED
    BY <1>2, <1>4, <2>2, <2>4 DEF CheckSubscription
<1>5. ASSUME NEW w \in Senders, TrySend(w) \/ Wake(w) PROVE Contained'
  <2>1. PICK c : /\ Changes(w, c) /\ SameCall(c, call[w])
                 /\ Unrecorded(c) \subseteq Unrecorded(call[w])
    <3>1. CASE TrySend(w)
      <4>1. PICK c : /\ Changes(w, c) /\ c.pc = "recording"
                     /\ SameCall(c, call[w]) /\ c.attempt = call[w].attempt
        BY <3>1, TryShape
      <4>2. Unrecorded(c) = Unrecorded(call[w])
        BY <3>1, <4>1 DEF Unrecorded, TrySend
      <4> QED
        BY <4>1, <4>2
    <3>2. CASE Wake(w)
      <4>1. PICK c : /\ Changes(w, c) /\ c.pc = "sending"
                     /\ SameCall(c, call[w]) /\ c.attempt = call[w].attempt + 1
        BY <3>2, WakeShape
      <4>2. call[w].attempt \in Nat /\ call[w].pc = "sleeping"
        BY <1>1, <3>2 DEF CallFits, Calls, Wake
      <4>3. Unrecorded(c) \subseteq Unrecorded(call[w])
        BY <4>1, <4>2, NotifyAssumption DEF Unrecorded
      <4> QED
        BY <4>1, <4>3
    <3> QED
      BY <1>5, <3>1, <3>2
  <2>2. \A o \in Orders : ToRecord(o)' \subseteq ToRecord(o)
    BY <2>1, LessToRecord DEF SameCall
  <2>3. UNCHANGED <<attempts, day>>
    BY <1>5 DEF TrySend, Wake
  <2> QED
    BY <2>2, <2>3, NoneRecorded
<1>6. ASSUME NEW w \in Senders, Answer(w) \/ Abort(w) PROVE Contained'
  <2>1. Changes(w, Idle) /\ Unrecorded(Idle) = {}
    BY <1>1, <1>6 DEF Answer, Abort, Changes, Idle, Unrecorded
  <2> QED
    BY <1>2, <1>6, <2>1 DEF Answer, Abort
<1>7. CASE UNCHANGED <<call, attempts, day>>
  BY <1>7, NoneRecorded DEF ToRecord
<1>8. CASE Midnight
  <2> SUFFICES ASSUME NEW o \in Orders
               PROVE  /\ attempts[o][day'] + Cardinality(ToRecord(o))
                           <= ReminderCap - 1 + Budget
                      /\ \A d \in Days : d > day' => attempts[o][d] = 0
    <3>1. UNCHANGED <<call, attempts>>
      BY <1>8 DEF Midnight
    <3>2. \A o \in Orders : ToRecord(o)' = ToRecord(o)
      BY <3>1 DEF ToRecord
    <3> QED
      BY <3>1, <3>2 DEF Contained, Budget
  <2>1. day \in Days /\ day' = day + 1 /\ day' \in Days
    BY <1>8, NotifyAssumption DEF Midnight, Typed, TypeOK, Days
  <2>2. attempts[o][day] \in Nat /\ day \in Nat
    BY <2>1, NotifyAssumption DEF Typed, TypeOK, Days
  <2>3. /\ attempts[o][day] + Cardinality(ToRecord(o)) <= ReminderCap - 1 + Budget
        /\ \A d \in Days : d > day => attempts[o][d] = 0
    BY DEF Contained
  <2>4. attempts[o][day'] = 0
    BY <2>1, <2>2, <2>3
  <2>5. Cardinality(ToRecord(o)) \in Nat
    BY PartOfBudget DEF ToRecord
  <2>6. attempts[o][day'] + Cardinality(ToRecord(o)) <= ReminderCap - 1 + Budget
    BY <2>2, <2>3, <2>4, <2>5, BudgetIsNat, NotifyAssumption
  <2>7. \A d \in Days : d > day' => attempts[o][d] = 0
    BY <2>1, <2>2, <2>3, NotifyAssumption DEF Days
  <2> QED
    BY <2>6, <2>7
<1>9. ASSUME NEW u \in Users, NEW choice \in BOOLEAN,
             UpdateSubscription(u, choice) \/ OneClickUnsubscribe(u)
      PROVE  Contained'
  BY <1>7, <1>9 DEF UpdateSubscription, OneClickUnsubscribe
<1>10. CASE UNCHANGED notifyVars
  BY <1>7, <1>10 DEF notifyVars
<1> QED
  BY <1>3, <1>4, <1>5, <1>6, <1>8, <1>9, <1>10, CapPassed, OneRecorded
     DEF Next, Serve

\* A day that is over keeps its count.
LEMMA OvershootStep ==
  Typed /\ Contained /\ Overshoot /\ Contained' /\ Typed' /\ [Next]_notifyVars => Overshoot'
<1> SUFFICES ASSUME Typed, Contained, Overshoot, Contained', Typed', [Next]_notifyVars,
                    NEW o \in Orders, NEW d \in Days
             PROVE  attempts'[o][d] <= ReminderCap - 1 + Budget
  BY DEF Overshoot, Budget
<1>1. attempts'[o][d] = attempts[o][d] \/ (d = day /\ day' = day)
  <2>1. ASSUME NEW w \in Senders, RecordAttempt(w)
        PROVE  attempts'[o][d] = attempts[o][d] \/ (d = day /\ day' = day)
    <3>1. call[w].order \in Orders /\ day \in Days
      BY <2>1 DEF RecordAttempt, Typed, TypeOK, CallFits
    <3> QED
      BY <2>1, <3>1 DEF RecordAttempt, AddAttempt, Typed, TypeOK
  <2>2. UNCHANGED attempts \/ \E w \in Senders : RecordAttempt(w)
    <3>1. ASSUME NEW w \in Senders, Serve(w), ~RecordAttempt(w) PROVE UNCHANGED attempts
      BY <3>1 DEF Serve, CheckSubscription, CheckCap, TrySend, Wake, Answer
    <3>2. ASSUME NEW w \in Senders, NEW p \in Orders, NEW u \in Users,
                 StartSend(w, p, u)
          PROVE  UNCHANGED attempts
      BY <3>2 DEF StartSend
    <3>3. ASSUME NEW w \in Senders, Abort(w) PROVE UNCHANGED attempts
      BY <3>3 DEF Abort
    <3>4. ASSUME NEW u \in Users, NEW choice \in BOOLEAN,
                 UpdateSubscription(u, choice) \/ OneClickUnsubscribe(u)
          PROVE  UNCHANGED attempts
      BY <3>4 DEF UpdateSubscription, OneClickUnsubscribe
    <3>5. ASSUME Midnight \/ UNCHANGED notifyVars PROVE UNCHANGED attempts
      BY <3>5 DEF Midnight, notifyVars
    <3> QED
      BY <3>1, <3>2, <3>3, <3>4, <3>5 DEF Next
  <2> QED
    BY <2>1, <2>2
<1>2. CASE attempts'[o][d] = attempts[o][d]
  BY <1>2 DEF Overshoot, Budget
<1>3. CASE d = day /\ day' = day
  <2>1. attempts'[o][d] + Cardinality(ToRecord(o)') <= ReminderCap - 1 + Budget
    BY <1>3 DEF Contained, Budget
  <2>2. ToRecord(o)' \in SUBSET InFlight
    BY DEF ToRecord, InFlight
  <2> DEFINE after == ToRecord(o)'
  <2> HIDE DEF after
  <2>3. Cardinality(after) \in Nat
    BY <2>2, PartOfBudget DEF after
  <2>4. attempts'[o][d] \in Nat
    BY DEF Typed, TypeOK
  <2> QED
    BY <2>1, <2>3, <2>4, BudgetIsNat, NotifyAssumption DEF after
<1> QED
  BY <1>1, <1>2, <1>3

\* However many calls overlap, retry or run past midnight, no order gets more
\* attempts on a day than the cap less one and all the attempts of the calls
\* in flight: that is what Engine.Send, which looks at the cap once per call,
\* guarantees without any condition but that there are requests at all.
THEOREM OvershootBounded == ASSUME Senders # {} PROVE Spec => []Overshoot
<1>1. Init => Typed /\ Contained /\ Overshoot
  <2>1. ASSUME Init PROVE Overshoot
    <3> SUFFICES ASSUME NEW o \in Orders, NEW d \in Days
                 PROVE  attempts[o][d] <= ReminderCap - 1 + Budget
      BY DEF Overshoot, Budget
    <3>1. attempts[o][d] = 0
      BY <2>1 DEF Init
    <3>2. Budget >= 1
      <4>1. PICK w \in Senders : <<w, 1>> \in InFlight
        BY NotifyAssumption DEF InFlight
      <4>2. Budget # 0
        BY <4>1, BudgetIsNat, FS_EmptySet
      <4> QED
        BY <4>2, BudgetIsNat
    <3> QED
      BY <3>1, <3>2, BudgetIsNat, NotifyAssumption
  <2> QED
    BY <2>1, NotifyInit, ContainedInit
<1>2. Typed /\ Contained /\ Overshoot /\ [Next]_notifyVars
      => (Typed /\ Contained /\ Overshoot)'
  BY NotifyTypeStep, ContainedStep, OvershootStep
<1> QED
  BY <1>1, <1>2, PTL DEF Spec

-----------------------------------------------------------------------------
LEMMA LaggingInit == Init => Lagging
<1> SUFFICES ASSUME Init, NEW u \in Users
             PROVE  late[u] = 0 /\ Cardinality(ToSend(u)) <= Budget
                    /\ Cardinality(ToSend(u)) \in Nat
  BY BudgetIsNat DEF Lagging, Init
<1>1. ToSend(u) \in SUBSET InFlight
  BY DEF ToSend
<1> QED
  BY <1>1, PartOfBudget DEF Init

\* Nothing is sent, nobody unsubscribes, and no call has more left to send
\* than before unless its recipient is subscribed.
LEMMA NoneSent ==
  ASSUME Typed, Lagging, UNCHANGED <<late, subscribed>>,
         \A u \in Users : ~subscribed[u] => ToSend(u)' \subseteq ToSend(u)
  PROVE  Lagging'
<1> SUFFICES ASSUME NEW u \in Users
             PROVE  late[u] + Cardinality(ToSend(u)') <= Budget
  BY DEF Lagging, Budget
<1> DEFINE before == ToSend(u)
           after == ToSend(u)'
<1>1. before \in SUBSET InFlight /\ after \in SUBSET InFlight
  BY DEF ToSend, InFlight
<1>2. late[u] \in Nat /\ subscribed[u] \in BOOLEAN
  BY DEF Typed, TypeOK
<1>3. /\ late[u] + Cardinality(before) <= Budget
      /\ subscribed[u] => late[u] = 0
  BY DEF Lagging
<1>4. ~subscribed[u] => after \subseteq before
  OBVIOUS
<1> HIDE DEF before, after
<1>5. Cardinality(after) \in Nat /\ Cardinality(after) <= Budget
  BY <1>1, PartOfBudget
<1>6. CASE subscribed[u]
  <2>1. late[u] + Cardinality(after) <= Budget
    BY <1>3, <1>5, <1>6, BudgetIsNat
  <2> QED
    BY <2>1 DEF after
<1>7. CASE ~subscribed[u]
  <2>1. Cardinality(before) \in Nat /\ Cardinality(after) <= Cardinality(before)
    BY <1>1, <1>4, <1>7, PartShrinks
  <2>2. late[u] + Cardinality(after) <= Budget
    BY <1>2, <1>3, <1>5, <2>1, BudgetIsNat
  <2> QED
    BY <2>2 DEF after
<1> QED
  BY <1>6, <1>7

\* The subscription is looked at: the attempts of a call that goes on count
\* from here, and only a subscribed recipient gets them.
LEMMA SubscriptionLooked ==
  ASSUME Typed, Lagging, NEW w \in Senders, CheckSubscription(w)
  PROVE  Lagging'
<1> DEFINE p == IF MayReceive(call[w].user) THEN "subscribed" ELSE "auditing"
           c == [call[w] EXCEPT !.pc = p]
<1>1. CallFits(call[w]) /\ call[w].pc = "starting" /\ Goto(w, p)
  BY DEF CheckSubscription, Typed
<1>2. Changes(w, c)
  BY <1>1, GoneOn
<1>3. c.pc = p /\ c.user = call[w].user
  BY <1>1 DEF CallFits, Calls
<1>4. call'[w] = c /\ \A v \in Senders : v # w => call'[v] = call[v]
  BY <1>2, CallPut DEF Changes
<1>5. ASSUME NEW u \in Users, ~subscribed[u]
      PROVE  ToSend(u)' \subseteq ToSend(u)
  <2>1. ASSUME NEW v \in Senders, NEW k \in Unsent(call'[v]), call'[v].user = u
        PROVE  k \in Unsent(call[v]) /\ call[v].user = u
    <3>1. CASE v # w
      BY <1>4, <2>1, <3>1
    <3>2. CASE v = w
      <4>1. c.user = u
        BY <1>4, <2>1, <3>2
      <4>2. p = "auditing"
        BY <1>3, <1>5, <4>1 DEF MayReceive
      <4> HIDE DEF p, c
      <4>3. Unsent(c) = {}
        BY <1>3, <4>2 DEF Unsent
      <4> QED
        BY <1>4, <2>1, <3>2, <4>3
    <3> QED
      BY <3>1, <3>2
  <2> QED
    BY <2>1 DEF ToSend, InFlight
<1>6. UNCHANGED <<late, subscribed>>
  BY DEF CheckSubscription
<1> QED
  BY <1>5, <1>6, NoneSent

\* An attempt is made, and is left no more.
LEMMA OneSent ==
  ASSUME Typed, Lagging, NEW w \in Senders, TrySend(w)
  PROVE  Lagging'
<1>1. PICK c : /\ Changes(w, c) /\ c.pc = "recording"
               /\ SameCall(c, call[w]) /\ c.attempt = call[w].attempt
  BY TryShape
<1>2. call'[w] = c /\ \A v \in Senders : v # w => call'[v] = call[v]
  BY <1>1, CallPut DEF Changes
<1>3. call[w].pc = "sending" /\ UNCHANGED subscribed
  BY DEF TrySend
<1>4. call[w].user \in Users /\ call[w].attempt \in 1 .. MaxAttempts
  BY <1>3 DEF Typed, CallFits, Calls
<1>5. Unsent(c) \subseteq Unsent(call[w])
  BY <1>1, <1>3, <1>4 DEF Unsent
<1>6. \A u \in Users : ToSend(u)' \subseteq ToSend(u)
  BY <1>1, <1>5, LessToSend DEF SameCall
<1>7. \A u \in Users : late'[u] = IF u # call[w].user THEN late[u]
                                  ELSE IF subscribed[u] THEN 0 ELSE late[u] + 1
  BY <1>4 DEF TrySend, Typed, TypeOK
<1> SUFFICES ASSUME NEW u \in Users
             PROVE  late'[u] + Cardinality(ToSend(u)') <= Budget
  <2>1. \A u \in Users : subscribed'[u] => late'[u] = 0
    BY <1>3, <1>7 DEF Lagging
  <2> QED
    BY <2>1 DEF Lagging, Budget
<1> DEFINE before == ToSend(u)
           after == ToSend(u)'
<1>8. before \in SUBSET InFlight /\ after \in SUBSET before
  BY <1>6 DEF ToSend
<1>9. late[u] + Cardinality(before) <= Budget /\ late[u] \in Nat
  BY DEF Lagging, Typed, TypeOK
<1>10. u = call[w].user => <<w, call[w].attempt>> \in before \ after
  <2> SUFFICES ASSUME u = call[w].user PROVE <<w, call[w].attempt>> \in before \ after
    OBVIOUS
  <2>1. <<w, call[w].attempt>> \in InFlight
    BY <1>4 DEF InFlight
  <2>2. call[w].attempt \in Unsent(call[w])
    BY <1>3, <1>4 DEF Unsent
  <2>3. call[w].attempt \notin Unsent(c)
    BY <1>1, <1>4 DEF Unsent
  <2>4. <<w, call[w].attempt>> \in before
    BY <2>1, <2>2 DEF ToSend
  <2>5. <<w, call[w].attempt>> \notin after
    BY <1>2, <2>3 DEF ToSend
  <2> QED
    BY <2>4, <2>5
<1> HIDE DEF before, after
<1>11. /\ Cardinality(before) \in Nat /\ Cardinality(after) \in Nat
       /\ Cardinality(after) <= Cardinality(before)
       /\ u = call[w].user => Cardinality(after) + 1 <= Cardinality(before)
  BY <1>8, <1>10, PartShrinks
<1>12. late'[u] \in {0, late[u]} \/ (u = call[w].user /\ late'[u] = late[u] + 1)
  BY <1>7
<1>13. late'[u] + Cardinality(after) <= Budget
  BY <1>9, <1>11, <1>12, BudgetIsNat
<1> QED
  BY <1>13 DEF after

LEMMA LaggingStep == Typed /\ Lagging /\ [Next]_notifyVars => Lagging'
<1> SUFFICES ASSUME Typed, Lagging, [Next]_notifyVars PROVE Lagging'
  OBVIOUS
<1>1. CallFits(Idle) /\ \A w \in Senders : CallFits(call[w])
  BY IdleFits DEF Typed
<1>2. ASSUME NEW w \in Senders, NEW c, Changes(w, c), UNCHANGED <<late, subscribed>>,
             Unsent(c) \subseteq Unsent(call[w]),
             Unsent(c) # {} => c.user = call[w].user
      PROVE  Lagging'
  <2>1. \A u \in Users : ToSend(u)' \subseteq ToSend(u)
    BY <1>2, LessToSend
  <2> QED
    BY <1>2, <2>1, NoneSent
<1>3. ASSUME NEW w \in Senders, NEW o \in Orders, NEW u \in Users, StartSend(w, o, u)
      PROVE  Lagging'
  <2>1. PICK c : Changes(w, c) /\ c.pc = "starting"
    BY <1>3, StartShape
  <2>2. Unsent(c) = {}
    BY <2>1 DEF Unsent
  <2> QED
    BY <1>2, <1>3, <2>1, <2>2 DEF StartSend
<1>4. ASSUME NEW w \in Senders, CheckCap(w) PROVE Lagging'
  <2>1. PICK c : /\ Changes(w, c) /\ c.user = call[w].user
                 /\ c.pc \in {"auditing", "sending"}
    BY <1>4, CheckCapShape
  <2>2. Unsent(c) \subseteq Unsent(call[w])
    BY <1>4, <2>1 DEF Unsent, CheckCap
  <2> QED
    BY <1>2, <1>4, <2>1, <2>2 DEF CheckCap
<1>5. ASSUME NEW w \in Senders, RecordAttempt(w) PROVE Lagging'
  <2>1. PICK c : /\ Changes(w, c) /\ c.pc \in {"auditing", "sleeping"}
                 /\ SameCall(c, call[w]) /\ c.attempt = call[w].attempt
    BY <1>5, RecordShape
  <2>2. Unsent(c) \subseteq Unsent(call[w])
    BY <1>5, <2>1 DEF Unsent, RecordAttempt
  <2> QED
    BY <1>2, <1>5, <2>1, <2>2 DEF RecordAttempt, SameCall
<1>6. ASSUME NEW w \in Senders, Wake(w) PROVE Lagging'
  <2>1. PICK c : /\ Changes(w, c) /\ c.pc = "sending"
                 /\ SameCall(c, call[w]) /\ c.attempt = call[w].attempt + 1
    BY <1>6, WakeShape
  <2>2. call[w].attempt \in Nat /\ call[w].pc = "sleeping"
    BY <1>1, <1>6 DEF CallFits, Calls, Wake
  <2>3. Unsent(c) \subseteq Unsent(call[w])
    BY <2>1, <2>2, NotifyAssumption DEF Unsent
  <2> QED
    BY <1>2, <1>6, <2>1, <2>3 DEF Wake, SameCall
<1>7. ASSUME NEW w \in Senders, Answer(w) \/ Abort(w) PROVE Lagging'
  <2>1. Changes(w, Idle) /\ Unsent(Idle) = {}
    BY <1>1, <1>7 DEF Answer, Abort, Changes, Idle, Unsent
  <2> QED
    BY <1>2, <1>7, <2>1 DEF Answer, Abort
<1>8. CASE UNCHANGED <<call, late, subscribed>>
  BY <1>8, NoneSent DEF ToSend
<1>9. CASE Midnight \/ UNCHANGED notifyVars
  BY <1>8, <1>9 DEF Midnight, notifyVars
<1>10. ASSUME NEW u \in Users, NEW choice \in BOOLEAN,
              UpdateSubscription(u, choice) \/ OneClickUnsubscribe(u)
       PROVE  Lagging'
  <2> SUFFICES ASSUME NEW v \in Users
               PROVE  /\ subscribed'[v] => late'[v] = 0
                      /\ late'[v] + Cardinality(ToSend(v)) <= Budget
    <3>1. UNCHANGED call
      BY <1>10 DEF UpdateSubscription, OneClickUnsubscribe
    <3>2. \A v \in Users : ToSend(v)' = ToSend(v)
      BY <3>1 DEF ToSend
    <3> QED
      BY <3>2 DEF Lagging, Budget
  <2>1. /\ subscribed[v] => late[v] = 0
        /\ late[v] + Cardinality(ToSend(v)) <= Budget
    BY DEF Lagging
  <2>2. late[v] \in Nat /\ subscribed[v] \in BOOLEAN
    BY DEF Typed, TypeOK
  <2>3. Cardinality(ToSend(v)) \in Nat
    BY PartOfBudget DEF ToSend
  <2>4. /\ late'[v] \in {0, late[v]}
        /\ subscribed'[v] => late'[v] = 0
    BY <1>10, <2>1 DEF UpdateSubscription, OneClickUnsubscribe, Typed, TypeOK
  <2> QED
    BY <2>1, <2>2, <2>3, <2>4, BudgetIsNat
<1> QED
  BY <1>3, <1>4, <1>5, <1>6, <1>7, <1>9, <1>10, SubscriptionLooked, OneSent
     DEF Next, Serve

\* After a recipient unsubscribes, by either of the two handlers, no more can
\* reach them than the attempts of the calls in flight: Engine.Send reads the
\* subscription once, before its first attempt.
THEOREM UnsubscribeHonoured == Spec => []UnsubscribeLag
<1>1. Typed /\ Lagging => UnsubscribeLag
  <2> SUFFICES ASSUME Typed, Lagging, NEW u \in Users PROVE late[u] <= Budget
    BY DEF UnsubscribeLag, Budget
  <2>1. Cardinality(ToSend(u)) \in Nat
    BY PartOfBudget DEF ToSend
  <2>2. late[u] \in Nat /\ late[u] + Cardinality(ToSend(u)) <= Budget
    BY DEF Typed, TypeOK, Lagging
  <2> QED
    BY <2>1, <2>2, BudgetIsNat
<1>2. Init => Typed /\ Lagging
  BY NotifyInit, LaggingInit
<1>3. Typed /\ Lagging /\ [Next]_notifyVars => (Typed /\ Lagging)'
  BY NotifyTypeStep, LaggingStep
<1> QED
  BY <1>1, <1>2, <1>3, PTL DEF Spec

-----------------------------------------------------------------------------
(* Nothing is recorded that was not sent, and nothing sent is forgotten.   *)

Accounted ==
  /\ \A o \in Orders : IsFiniteSet(Recorded(o))
  /\ EveryAttemptRecorded

LEMMA RecordingFinite ==
  ASSUME NEW o PROVE IsFiniteSet(Recording(o)) /\ Cardinality(Recording(o)) \in Nat
<1>1. IsFiniteSet(Recording(o))
  BY NotifyAssumption, FS_Subset DEF Recording
<1> QED
  BY <1>1, FS_CardinalityType

\* A call that starts or ends no recording leaves the account as it was.
LEMMA NothingRecorded ==
  ASSUME Typed, Accounted, NEW w \in Senders, NEW c, Changes(w, c),
         call[w].pc # "recording", c.pc # "recording",
         UNCHANGED <<attempts, delivered, lost>>
  PROVE  Accounted'
<1>1. call'[w] = c /\ \A v \in Senders : v # w => call'[v] = call[v]
  BY CallPut DEF Changes
<1>2. \A o \in Orders : Recording(o)' = Recording(o)
  BY <1>1 DEF Recording
<1>3. \A o \in Orders : Recorded(o)' = Recorded(o)
  BY DEF Recorded
<1> QED
  BY <1>2, <1>3 DEF Accounted, EveryAttemptRecorded

\* One more attempt in the table: one more row, of the day it is recorded on.
LEMMA RowRecorded ==
  ASSUME Typed, NEW w \in Senders, NEW o \in Orders, o = call[w].order,
         attempts' = AddAttempt(w), IsFiniteSet(Recorded(o))
  PROVE  /\ IsFiniteSet(Recorded(o)')
         /\ Cardinality(Recorded(o)') = Cardinality(Recorded(o)) + 1
<1>1. PICK n \in Nat : n = attempts[o][day] + 1
  BY DEF Typed, TypeOK
<1>2. /\ day \in Days /\ attempts[o][day] \in Nat /\ attempts'[o][day] = n
      /\ \A d \in Days : d # day => attempts'[o][d] = attempts[o][d]
  BY <1>1 DEF AddAttempt, Typed, TypeOK
<1>3. <<day, n>> \notin Recorded(o)
  BY <1>1, <1>2 DEF Recorded
<1>4. Recorded(o)' = Recorded(o) \cup {<<day, n>>}
  <2>1. 1 .. n = (1 .. attempts[o][day]) \cup {n}
    BY <1>1, <1>2
  <2>2. \A d \in Days : {d} \X (1 .. attempts'[o][d]) =
          IF d = day THEN ({d} \X (1 .. attempts[o][d])) \cup {<<day, n>>}
          ELSE {d} \X (1 .. attempts[o][d])
    BY <1>2, <2>1
  <2> QED
    BY <1>2, <2>2 DEF Recorded
<1>5. /\ IsFiniteSet(Recorded(o) \cup {<<day, n>>})
      /\ Cardinality(Recorded(o) \cup {<<day, n>>}) = Cardinality(Recorded(o)) + 1
  <2>1. PICK S, x : S = Recorded(o) /\ x = <<day, n>>
    OBVIOUS
  <2>2. IsFiniteSet(S \cup {x}) /\ Cardinality(S \cup {x}) = Cardinality(S) + 1
    BY <1>3, <2>1, FS_AddElement
  <2> QED
    BY <2>1, <2>2, Zenon
<1> QED
  BY <1>4, <1>5, Zenon

LEMMA SentAccounted ==
  ASSUME Typed, Accounted, NEW w \in Senders, TrySend(w)
  PROVE  Accounted'
<1>1. PICK c : Changes(w, c) /\ c.pc = "recording" /\ SameCall(c, call[w])
  BY TryShape
<1>2. call'[w] = c /\ \A v \in Senders : v # w => call'[v] = call[v]
  BY <1>1, CallPut DEF Changes
<1>3. PICK p \in Orders : p = call[w].order
  BY DEF TrySend, Typed, CallFits
<1>4. call[w].pc = "sending" /\ UNCHANGED <<attempts, lost>>
      /\ delivered' = [delivered EXCEPT ![p] = @ + 1]
  BY <1>3 DEF TrySend
<1>5. \A o \in Orders : Recorded(o)' = Recorded(o)
  BY <1>4 DEF Recorded
<1>6. \A o \in Orders \ {p} : Recording(o)' = Recording(o) /\ delivered'[o] = delivered[o]
  BY <1>1, <1>2, <1>3, <1>4 DEF Recording, SameCall, Typed, TypeOK
<1>7. /\ w \notin Recording(p) /\ Recording(p)' = Recording(p) \cup {w}
      /\ delivered'[p] = delivered[p] + 1
  BY <1>1, <1>2, <1>3, <1>4 DEF Recording, SameCall, Typed, TypeOK
<1>8. Cardinality(Recording(p)') = Cardinality(Recording(p)) + 1
  BY <1>7, RecordingFinite, FS_AddElement
<1>9. /\ Cardinality(Recorded(p)) \in Nat /\ Cardinality(Recording(p)) \in Nat
      /\ lost[p] \in Nat
      /\ delivered[p] = Cardinality(Recorded(p)) + lost[p] + Cardinality(Recording(p))
  BY RecordingFinite, FS_CardinalityType
     DEF Accounted, EveryAttemptRecorded, Typed, TypeOK
<1>10. delivered'[p] = Cardinality(Recorded(p)') + lost'[p] + Cardinality(Recording(p)')
  BY <1>4, <1>5, <1>7, <1>8, <1>9
<1> QED
  BY <1>4, <1>5, <1>6, <1>10 DEF Accounted, EveryAttemptRecorded

LEMMA RecordAccounted ==
  ASSUME Typed, Accounted, NEW w \in Senders, RecordAttempt(w)
  PROVE  Accounted'
<1>1. PICK c : /\ Changes(w, c) /\ c.pc \in {"auditing", "sleeping"}
               /\ SameCall(c, call[w])
  BY RecordShape
<1>2. call'[w] = c /\ \A v \in Senders : v # w => call'[v] = call[v]
  BY <1>1, CallPut DEF Changes
<1>3. PICK p \in Orders : p = call[w].order
  BY DEF RecordAttempt, Typed, CallFits
<1>4. call[w].pc = "recording" /\ UNCHANGED delivered
  BY DEF RecordAttempt
<1>5. \A o \in Orders \ {p} : Recording(o)' = Recording(o)
  BY <1>1, <1>2, <1>3, <1>4 DEF Recording, SameCall
<1>6. w \in Recording(p) /\ Recording(p)' = Recording(p) \ {w}
  BY <1>1, <1>2, <1>3, <1>4 DEF Recording, SameCall
<1>7. Cardinality(Recording(p)') = Cardinality(Recording(p)) - 1
  BY <1>6, RecordingFinite, FS_RemoveElement
<1>8. /\ IsFiniteSet(Recorded(p)) /\ Cardinality(Recorded(p)) \in Nat
      /\ Cardinality(Recording(p)) \in Nat /\ lost[p] \in Nat
      /\ delivered[p] = Cardinality(Recorded(p)) + lost[p] + Cardinality(Recording(p))
  BY RecordingFinite, FS_CardinalityType
     DEF Accounted, EveryAttemptRecorded, Typed, TypeOK
<1>9. CASE attempts' = AddAttempt(w) /\ UNCHANGED lost
  <2>1. /\ IsFiniteSet(Recorded(p)')
        /\ Cardinality(Recorded(p)') = Cardinality(Recorded(p)) + 1
    BY <1>3, <1>8, <1>9, RowRecorded
  <2>2. \A o \in Orders \ {p} : attempts'[o] = attempts[o]
    BY <1>3, <1>9 DEF AddAttempt, Typed, TypeOK
  <2>3. \A o \in Orders \ {p} : Recorded(o)' = Recorded(o)
    BY <2>2 DEF Recorded
  <2>4. delivered'[p] = Cardinality(Recorded(p)') + lost'[p] + Cardinality(Recording(p)')
    BY <1>4, <1>7, <1>8, <1>9, <2>1
  <2> QED
    BY <1>4, <1>5, <1>9, <2>1, <2>3, <2>4 DEF Accounted, EveryAttemptRecorded
<1>10. CASE lost' = [lost EXCEPT ![p] = @ + 1] /\ UNCHANGED attempts
  <2>1. \A o \in Orders : Recorded(o)' = Recorded(o)
    BY <1>10 DEF Recorded
  <2>2. lost'[p] = lost[p] + 1 /\ \A o \in Orders \ {p} : lost'[o] = lost[o]
    BY <1>10 DEF Typed, TypeOK
  <2>3. delivered'[p] = Cardinality(Recorded(p)') + lost'[p] + Cardinality(Recording(p)')
    BY <1>4, <1>7, <1>8, <2>1, <2>2
  <2> QED
    BY <1>4, <1>5, <2>1, <2>2, <2>3 DEF Accounted, EveryAttemptRecorded
<1> QED
  BY <1>3, <1>9, <1>10 DEF RecordAttempt

LEMMA AccountedInit == Init => Accounted
<1> SUFFICES ASSUME Init PROVE Accounted
  OBVIOUS
<1>1. \A o \in Orders : Recorded(o) = {} /\ Recording(o) = {}
  BY DEF Init, Idle, Recorded, Recording
<1>2. IsFiniteSet({}) /\ Cardinality({}) = 0
  BY FS_EmptySet
<1>3. \A o \in Orders : delivered[o] = 0 /\ lost[o] = 0
  BY DEF Init
<1>4. ASSUME NEW o \in Orders
      PROVE  /\ IsFiniteSet(Recorded(o))
             /\ delivered[o] = Cardinality(Recorded(o)) + lost[o]
                                + Cardinality(Recording(o))
  <2>1. Recorded(o) = {} /\ Recording(o) = {}
    BY <1>1
  <2>2. /\ IsFiniteSet(Recorded(o)) /\ Cardinality(Recorded(o)) = 0
        /\ Cardinality(Recording(o)) = 0
    BY <1>2, <2>1, Zenon
  <2> QED
    BY <1>3, <2>2
<1> QED
  BY <1>4 DEF Accounted, EveryAttemptRecorded

LEMMA AccountedStep == Typed /\ Accounted /\ [Next]_notifyVars => Accounted'
<1> SUFFICES ASSUME Typed, Accounted, [Next]_notifyVars PROVE Accounted'
  OBVIOUS
<1>1. ASSUME NEW w \in Senders, NEW o \in Orders, NEW u \in Users, StartSend(w, o, u)
      PROVE  Accounted'
  <2>1. PICK c : Changes(w, c) /\ c.pc = "starting"
    BY <1>1, StartShape
  <2> QED
    BY <1>1, <2>1, NothingRecorded DEF StartSend
<1>2. ASSUME NEW w \in Senders, CheckSubscription(w) PROVE Accounted'
  <2>1. PICK p \in {"subscribed", "auditing"} : Goto(w, p)
    BY <1>2 DEF CheckSubscription
  <2>2. Changes(w, [call[w] EXCEPT !.pc = p])
    BY <1>2, <2>1, GoneOn DEF CheckSubscription
  <2>3. CallFits(call[w])
    BY DEF Typed
  <2>4. [call[w] EXCEPT !.pc = p].pc = p
    BY <2>3 DEF CallFits, Calls
  <2>5. p # "recording" /\ call[w].pc # "recording"
        /\ UNCHANGED <<attempts, delivered, lost>>
    BY <1>2 DEF CheckSubscription
  <2> QED
    BY <2>2, <2>4, <2>5, NothingRecorded
<1>3. ASSUME NEW w \in Senders, CheckCap(w) PROVE Accounted'
  <2>1. PICK c : Changes(w, c) /\ c.pc \in {"auditing", "sending"}
    BY <1>3, CheckCapShape
  <2> QED
    BY <1>3, <2>1, NothingRecorded DEF CheckCap
<1>4. ASSUME NEW w \in Senders, Wake(w) PROVE Accounted'
  <2>1. PICK c : Changes(w, c) /\ c.pc = "sending"
    BY <1>4, WakeShape
  <2> QED
    BY <1>4, <2>1, NothingRecorded DEF Wake
<1>5. ASSUME NEW w \in Senders, Answer(w) \/ Abort(w) PROVE Accounted'
  <2>1. Changes(w, Idle) /\ Idle.pc = "idle"
    BY <1>5, IdleFits DEF Answer, Abort, Changes, Idle
  <2> QED
    BY <1>5, <2>1, NothingRecorded DEF Answer, Abort
<1>6. CASE UNCHANGED <<call, attempts, delivered, lost>>
  BY <1>6 DEF Accounted, EveryAttemptRecorded, Recorded, Recording
<1>7. CASE \/ Midnight \/ UNCHANGED notifyVars
           \/ \E u \in Users, choice \in BOOLEAN : UpdateSubscription(u, choice)
           \/ \E u \in Users : OneClickUnsubscribe(u)
  BY <1>6, <1>7 DEF Midnight, UpdateSubscription, OneClickUnsubscribe, notifyVars
<1> QED
  BY <1>1, <1>2, <1>3, <1>4, <1>5, <1>7, SentAccounted, RecordAccounted DEF Next, Serve

\* Whatever calls overlap, retry or run past midnight, every attempt handed to
\* the transport is in delivery_attempts, or about to be, or the store failed
\* to keep it; and there is no row for anything else.
THEOREM AttemptsAccounted == Spec => []EveryAttemptRecorded
<1>1. Accounted => EveryAttemptRecorded
  BY DEF Accounted
<1>2. Init => Typed /\ Accounted
  BY NotifyInit, AccountedInit
<1>3. Typed /\ Accounted /\ [Next]_notifyVars => (Typed /\ Accounted)'
  BY NotifyTypeStep, AccountedStep
<1> QED
  BY <1>1, <1>2, <1>3, PTL DEF Spec
=============================================================================
