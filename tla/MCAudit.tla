------------------------------- MODULE MCAudit -------------------------------
(***************************************************************************)
(* The audit log for TLC: two organisations, and texts that can be read in *)
(* two ways once they are joined.                                          *)
(***************************************************************************)
EXTENDS AuditOverlap

CONSTANTS x, org1, org2

MCOrgs == {org1, org2}
MCTokens == {x, Bar}
MCTexts == {<<x>>, <<x, Bar, x>>}

\* A detail with a bar (the reason of a rollback) and one without.
MCContents ==
  {[org |-> org1, resource |-> <<x>>, detail |-> <<x, Bar, x>>],
   [org |-> org2, resource |-> <<x>>, detail |-> <<x>>]}
=============================================================================
