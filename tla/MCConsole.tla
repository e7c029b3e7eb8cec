------------------------------ MODULE MCConsole ------------------------------
(***************************************************************************)
(* ContentConsole for TLC: an admin and a teacher of one organisation, one *)
(* item each, one action that the static matrix keeps from teachers.       *)
(***************************************************************************)
EXTENDS ContentConsole, TLC

CONSTANTS ann, tim, org1, i1, i2

MCOrgOf == [u \in Users |-> org1]
MCSeedUsers == [u \in Users |->
  [role |-> IF u = ann THEN "admin" ELSE "teacher", classes |-> {}]]
MCTeacherOf == [i \in Items |-> IF i = i1 THEN tim ELSE ann]

MCAsks == {[act |-> "approve_refund", tgt |-> [org |-> org1, class |-> None, owner |-> None]]}
MCEdits == {[role |-> "student", classes |-> {}], [role |-> None, classes |-> Classes]}
MCRuleLists == {<<[act |-> "approve_refund", roles |-> {"teacher"}]>>,
                <<[act |-> "approve_refund", roles |-> {}],
                  [act |-> "approve_refund", roles |-> {"unknown"}],
                  [act |-> "approve_refund", roles |-> {"admin"}]>>}
MCBulkBodies == {[action |-> "delete", ids |-> <<i2, i1>>],
                 [action |-> "unpublish", ids |-> <<i1>>],
                 [action |-> "edit", ids |-> <<i1>>]}

MCTraffic == AccessHandlers \cup {"pin", "bulk"}
Symmetry == Permutations(Workers)
=============================================================================
