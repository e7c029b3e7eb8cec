---------------------------- MODULE OrderMachine ----------------------------
(***************************************************************************)
(* The transition rules of internal/order/state_machine.go as operators on *)
(* one order value.  Each Go method is a pair: Can<Op>(o) is the negation  *)
(* of its error returns, and <Op>ed(o) the order it returns on success.    *)
(* Machine.Now is passed as the argument t.                                *)
(*                                                                         *)
(* The Timeline slice that every method also appends to is not a field     *)
(* here: no method reads it, and neither store keeps it together with the  *)
(* row (the Memory store shares its backing array between copies, the      *)
(* Postgres store rewrites it in separate statements after the row).       *)
(* MemoryTimeline is about it.                                             *)
(***************************************************************************)
EXTENDS Integers

CONSTANTS
  MaxReschedules,  \* order.MaxReschedules (2 in the code)
  CancelWindow,    \* order.CancelRequiresApprovalWindow, in clock ticks
  RefundWindow     \* order.RefundWindow, in clock ticks

ASSUME MachineAssumption ==
  /\ MaxReschedules \in Nat
  /\ CancelWindow \in Nat
  /\ RefundWindow \in Nat

States == {"created", "pending_approval", "confirmed", "rescheduled",
           "in_progress", "completed", "cancelled", "refund_review",
           "refunded", "rolled_back"}

\* PayWaived and PayCashRecorded are declared but no code assigns them.
Payments == {"unpaid", "refund_pending", "refunded"}

\* The zero time.Time of an order not yet completed: so far in the past that
\* every refund window that starts there has closed.
Never == -1 - RefundWindow

Created(o) == [o EXCEPT !.state = "created"]

CanConfirm(o) == o.state \in {"created", "pending_approval"}
Confirmed(o) == [o EXCEPT !.state = "confirmed"]

\* Mutants: any state, a count not kept, a count taken down.
CanRescheduleAny(o) == o.count < MaxReschedules
RescheduledUncounted(o, newStart) ==
  [o EXCEPT !.state = "rescheduled", !.pickup = newStart]
RescheduledDown(o, newStart) ==
  [o EXCEPT !.state = "rescheduled", !.count = @ - 1, !.pickup = newStart]

CanReschedule(o) ==
  /\ o.state \in {"confirmed", "rescheduled"}
  /\ o.count < MaxReschedules
Rescheduled(o, newStart) ==
  [o EXCEPT !.state = "rescheduled", !.count = @ + 1, !.pickup = newStart]

\* Mutants: a settled state missing from the list of refused ones.
CanCancelTwice(o) == o.state \notin {"completed", "refunded"}
CanCancelCompleted(o) == o.state \notin {"cancelled", "refunded"}

\* ErrInvalidState is tested before ErrNeedsApproval.
CanCancel(o) == o.state \notin {"cancelled", "completed", "refunded"}
NeedsApproval(start, t, approver) == start - t < CancelWindow /\ ~approver
Cancelled(o) == [o EXCEPT !.state = "cancelled"]

\* Mutant: an order waiting for a cancel approval can be completed.
CanCompletePending(o) == o.state \notin {"created", "cancelled", "refunded"}

CanComplete(o) == o.state \in {"confirmed", "in_progress", "rescheduled"}
Completed(o, t) == [o EXCEPT !.state = "completed", !.completedAt = t]

CanRequestRefund(o, t) ==
  /\ o.state = "completed"
  /\ t - o.completedAt <= RefundWindow
RefundRequested(o) ==
  [o EXCEPT !.state = "refund_review", !.payment = "refund_pending"]

\* Mutant: approval without a review.
CanApproveUnreviewed(o) == o.state # "refunded"

CanApproveRefund(o) == o.state = "refund_review"
RefundApproved(o) == [o EXCEPT !.state = "refunded", !.payment = "refunded"]

CanRollback(o) == o.state # "rolled_back"
RolledBack(o) == [o EXCEPT !.state = "rolled_back"]
=============================================================================
