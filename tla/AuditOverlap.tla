---------------------------- MODULE AuditOverlap ----------------------------
(***************************************************************************)
(* The audit log together with whether two appends have ever overlapped.   *)
(* Append takes no lock around its two store calls; as long as handlers    *)
(* happen to log one after another, the chain is what it is meant to be.   *)
(***************************************************************************)
EXTENDS AuditChain

VARIABLE overlapped  \* history: two appends were in flight at once

overlapVars == <<chainVars, overlapped>>

\* No two appends are in flight.
Alone == \A a, b \in Appenders : job[a].pc # "idle" /\ job[b].pc # "idle" => a = b

OInit == Init /\ overlapped = FALSE

ONext == Next /\ overlapped' = (overlapped \/ ~Alone')

OSpec == OInit /\ [][ONext]_overlapVars

-----------------------------------------------------------------------------
\* As long as no two appends have overlapped, the log verifies exactly if the
\* store has kept every time as it was hashed: failed appends and equal times
\* do no harm, one row that Postgres rounded to the microsecond does.
IntactIffWhole == ~overlapped => (Intact <=> Whole)
=============================================================================
