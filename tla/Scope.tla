------------------------------- MODULE Scope -------------------------------
(***************************************************************************)
(* internal/auth/scope.go: who may do what to what.  Pure operators, no    *)
(* state.  A user is its claims [id, role, org, classes]; a target names   *)
(* an organisation, a class and an owner, any of which may be None (the    *)
(* empty string of the code).  A permission table gives each action the    *)
(* roles an admin stored for it, as strings nobody checked: "unknown"      *)
(* stands for those that are no role of a user.  BuildOverlay makes no     *)
(* entry of a row that lists nothing, so {} stands for such a row and for  *)
(* no row at all.                                                          *)
(***************************************************************************)
CONSTANTS
  Users,    \* user ids
  Orgs,     \* organisations
  Classes,  \* classes
  None      \* ""

Roles == {"student", "teacher", "courier", "dispatcher", "admin"}

Listed == Roles \cup {"unknown"}

Actions == {"view_sessions", "create_booking", "manage_own_order",
            "approve_cancel", "approve_refund", "assign_courier",
            "manage_content", "export_audit", "search_audit",
            "configure_checkin", "manage_membership", "send_notifications",
            "schedule_exception"}

ASSUME ScopeAssumption == None \notin Users \cup Orgs \cup Classes

Claims == [id : Users, role : Roles, org : Orgs \cup {None}, classes : SUBSET Classes]
Targets == [org : Orgs \cup {None}, class : Classes \cup {None}, owner : Users \cup {None}]
Tables == [Actions -> SUBSET Listed]

SameOrg(u, tgt) == tgt.org = None \/ u.org = tgt.org
MemberOfClass(u, tgt) == tgt.class = None \/ tgt.class \in u.classes
Owner(u, tgt) == u.id = tgt.owner

\* What bounds a role that an overlay row admits.
ScopeAllowed(u, act, tgt) ==
  CASE act = "manage_own_order" ->
         IF u.role = "student" THEN Owner(u, tgt) ELSE SameOrg(u, tgt)
    [] act = "approve_cancel" -> SameOrg(u, tgt) /\ MemberOfClass(u, tgt)
    [] act = "manage_content" -> Owner(u, tgt)
    [] OTHER -> SameOrg(u, tgt)

\* The static matrix for everyone but admins.
StaticAllowed(u, act, tgt) ==
  \/ act = "view_sessions" /\ u.role \in {"student", "teacher"}
  \/ act = "create_booking" /\ u.role = "student" /\ SameOrg(u, tgt)
  \/ /\ act = "manage_own_order"
     /\ \/ u.role = "student" /\ Owner(u, tgt)
        \/ u.role = "teacher" /\ SameOrg(u, tgt)
  \/ /\ act = "approve_cancel"
     /\ u.role = "teacher" /\ SameOrg(u, tgt) /\ MemberOfClass(u, tgt)
  \/ act = "assign_courier" /\ u.role = "dispatcher" /\ SameOrg(u, tgt)
  \/ act = "manage_content" /\ u.role = "teacher" /\ Owner(u, tgt)
  \/ /\ act = "send_notifications"
     /\ u.role \in {"teacher", "dispatcher"} /\ SameOrg(u, tgt)

\* A stored list of roles replaces the static matrix for its action.
Can(u, table, act, tgt) ==
  IF table[act] # {}
  THEN u.role \in table[act] /\ ScopeAllowed(u, act, tgt)
  ELSE IF u.role = "admin" THEN SameOrg(u, tgt)
  ELSE StaticAllowed(u, act, tgt)

-----------------------------------------------------------------------------
\* The same decision as a table, the reference Can is held against: the roles
\* an action is open to unless a row says otherwise, and how far each reaches.
DefaultRoles ==
  [act \in Actions |->
     {"admin"} \cup
     (CASE act = "view_sessions" -> {"student", "teacher"}
        [] act = "create_booking" -> {"student"}
        [] act = "manage_own_order" -> {"student", "teacher"}
        [] act \in {"approve_cancel", "manage_content"} -> {"teacher"}
        [] act = "assign_courier" -> {"dispatcher"}
        [] act = "send_notifications" -> {"teacher", "dispatcher"}
        [] OTHER -> {})]

RolesFor(table, act) ==
  IF table[act] = {} THEN DefaultRoles[act] ELSE table[act]

Reaches(u, table, act, tgt) ==
  IF table[act] = {} /\ u.role = "admin" THEN SameOrg(u, tgt)
  ELSE IF table[act] = {} /\ act = "view_sessions" THEN TRUE
  ELSE CASE act = "manage_own_order" ->
              IF u.role = "student" THEN Owner(u, tgt) ELSE SameOrg(u, tgt)
         [] act = "manage_content" -> Owner(u, tgt)
         [] act = "approve_cancel" -> SameOrg(u, tgt) /\ MemberOfClass(u, tgt)
         [] OTHER -> SameOrg(u, tgt)

Permitted(u, table, act, tgt) ==
  u.role \in RolesFor(table, act) /\ Reaches(u, table, act, tgt)
=============================================================================
