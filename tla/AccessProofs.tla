---------------------------- MODULE AccessProofs ----------------------------
(***************************************************************************)
(* Proofs about Scope, AccessControl and ContentConsole: what auth.Can     *)
(* decides, for all users, targets and stored permissions; what requests   *)
(* are let through to do, what becomes of tokens, and which edits stand,   *)
(* for any number of users, items, tokens and overlapping requests, over   *)
(* either store.                                                           *)
(***************************************************************************)
EXTENDS ContentConsole, SequenceTheorems, TLAPS

USE DEF itemHistory, memberHistory

\* A row an admin stored for the action: both tables ask for a role on it.
LEMMA StoredRow ==
  ASSUME NEW u \in Claims, NEW table \in Tables, NEW act \in Actions, NEW tgt \in Targets,
         table[act] # {}
  PROVE  Can(u, table, act, tgt) <=> Permitted(u, table, act, tgt)
<1>1. RolesFor(table, act) = table[act]
  BY DEF RolesFor
<1>2. ScopeAllowed(u, act, tgt) <=> Reaches(u, table, act, tgt)
  <2>1. CASE act = "manage_own_order"
    BY <2>1 DEF ScopeAllowed, Reaches
  <2>2. CASE act = "approve_cancel"
    BY <2>2 DEF ScopeAllowed, Reaches
  <2>3. CASE act = "manage_content"
    BY <2>3 DEF ScopeAllowed, Reaches
  <2>4. CASE act \notin {"manage_own_order", "approve_cancel", "manage_content"}
    BY <2>4 DEF ScopeAllowed, Reaches
  <2> QED
    BY <2>1, <2>2, <2>3, <2>4
<1> QED
  BY <1>1, <1>2 DEF Can, Permitted

\* No row: an admin may do anything in the organisation.
LEMMA AdminUnlessStored ==
  ASSUME NEW u \in Claims, NEW table \in Tables, NEW act \in Actions, NEW tgt \in Targets,
         table[act] = {}, u.role = "admin"
  PROVE  Can(u, table, act, tgt) <=> Permitted(u, table, act, tgt)
<1>1. "admin" \in RolesFor(table, act)
  BY DEF RolesFor, DefaultRoles
<1>2. Reaches(u, table, act, tgt) <=> SameOrg(u, tgt)
  BY DEF Reaches
<1> QED
  BY <1>1, <1>2 DEF Can, Permitted

\* No row: everyone else is bound by the static matrix.
LEMMA StaticRow ==
  ASSUME NEW u \in Claims, NEW table \in Tables, NEW act \in Actions, NEW tgt \in Targets,
         table[act] = {}, u.role # "admin"
  PROVE  Can(u, table, act, tgt) <=> Permitted(u, table, act, tgt)
<1> DEFINE others == DefaultRoles[act] \ {"admin"}
<1>1. Can(u, table, act, tgt) <=> StaticAllowed(u, act, tgt)
  BY DEF Can
<1>2. Permitted(u, table, act, tgt) <=> u.role \in others /\ Reaches(u, table, act, tgt)
  BY DEF Permitted, RolesFor
<1>3. CASE act = "view_sessions"
  <2>1. others = {"student", "teacher"}
    BY <1>3 DEF DefaultRoles
  <2>2. Reaches(u, table, act, tgt)
    BY <1>3 DEF Reaches
  <2> QED
    BY <1>1, <1>2, <1>3, <2>1, <2>2 DEF StaticAllowed
<1>4. CASE act = "create_booking"
  <2>1. others = {"student"}
    BY <1>4 DEF DefaultRoles
  <2>2. Reaches(u, table, act, tgt) <=> SameOrg(u, tgt)
    BY <1>4 DEF Reaches
  <2> QED
    BY <1>1, <1>2, <1>4, <2>1, <2>2 DEF StaticAllowed
<1>5. CASE act = "manage_own_order"
  <2>1. others = {"student", "teacher"}
    BY <1>5 DEF DefaultRoles
  <2>2. Reaches(u, table, act, tgt) <=>
          IF u.role = "student" THEN Owner(u, tgt) ELSE SameOrg(u, tgt)
    BY <1>5 DEF Reaches
  <2> QED
    BY <1>1, <1>2, <1>5, <2>1, <2>2 DEF StaticAllowed
<1>6. CASE act = "approve_cancel"
  <2>1. others = {"teacher"}
    BY <1>6 DEF DefaultRoles
  <2>2. Reaches(u, table, act, tgt) <=> SameOrg(u, tgt) /\ MemberOfClass(u, tgt)
    BY <1>6 DEF Reaches
  <2> QED
    BY <1>1, <1>2, <1>6, <2>1, <2>2 DEF StaticAllowed
<1>7. CASE act = "manage_content"
  <2>1. others = {"teacher"}
    BY <1>7 DEF DefaultRoles
  <2>2. Reaches(u, table, act, tgt) <=> Owner(u, tgt)
    BY <1>7 DEF Reaches
  <2> QED
    BY <1>1, <1>2, <1>7, <2>1, <2>2 DEF StaticAllowed
<1>8. CASE act = "assign_courier"
  <2>1. others = {"dispatcher"}
    BY <1>8 DEF DefaultRoles
  <2>2. Reaches(u, table, act, tgt) <=> SameOrg(u, tgt)
    BY <1>8 DEF Reaches
  <2> QED
    BY <1>1, <1>2, <1>8, <2>1, <2>2 DEF StaticAllowed
<1>9. CASE act = "send_notifications"
  <2>1. others = {"teacher", "dispatcher"}
    BY <1>9 DEF DefaultRoles
  <2>2. Reaches(u, table, act, tgt) <=> SameOrg(u, tgt)
    BY <1>9 DEF Reaches
  <2> QED
    BY <1>1, <1>2, <1>9, <2>1, <2>2 DEF StaticAllowed
<1>10. CASE act \in {"approve_refund", "export_audit", "search_audit",
                     "configure_checkin", "manage_membership", "schedule_exception"}
  <2>1. others = {}
    BY <1>10 DEF DefaultRoles
  <2>2. ~StaticAllowed(u, act, tgt)
    BY <1>10 DEF StaticAllowed
  <2> QED
    BY <1>1, <1>2, <2>1, <2>2
<1> QED
  BY <1>3, <1>4, <1>5, <1>6, <1>7, <1>8, <1>9, <1>10 DEF Actions

\* The code's cascade of early returns decides exactly what the table of
\* roles and reaches says, for every user, action, target and stored table.
THEOREM CanIsPermitted ==
  \A u \in Claims, table \in Tables, act \in Actions, tgt \in Targets :
    Can(u, table, act, tgt) <=> Permitted(u, table, act, tgt)
  BY StoredRow, AdminUnlessStored, StaticRow

\* scope.go says that an overlay "never expands to foreign orgs".  Whatever
\* is stored, a user is let at a target of another organisation only as its
\* owner, or to view sessions where nothing is stored for that action.
THEOREM HomeOnly ==
  \A u \in Claims, table \in Tables, act \in Actions, tgt \in Targets :
    Can(u, table, act, tgt) =>
      \/ tgt.org \in {None, u.org}
      \/ Owner(u, tgt) /\ act \in {"manage_own_order", "manage_content"}
      \/ act = "view_sessions" /\ table[act] = {}
<1> SUFFICES ASSUME NEW u \in Claims, NEW table \in Tables, NEW act \in Actions,
                    NEW tgt \in Targets, Can(u, table, act, tgt)
             PROVE  \/ tgt.org \in {None, u.org}
                    \/ Owner(u, tgt) /\ act \in {"manage_own_order", "manage_content"}
                    \/ act = "view_sessions" /\ table[act] = {}
  OBVIOUS
<1>1. Reaches(u, table, act, tgt)
  BY CanIsPermitted DEF Permitted
<1>2. SameOrg(u, tgt) => tgt.org \in {None, u.org}
  BY DEF SameOrg
<1>3. CASE act = "manage_own_order"
  BY <1>1, <1>2, <1>3 DEF Reaches
<1>4. CASE act = "manage_content"
  BY <1>1, <1>2, <1>4 DEF Reaches
<1>5. CASE act = "view_sessions"
  BY <1>1, <1>2, <1>5 DEF Reaches
<1>6. CASE act \notin {"manage_own_order", "manage_content", "view_sessions"}
  <2>1. CASE act = "approve_cancel"
    BY <1>1, <1>2, <2>1 DEF Reaches
  <2>2. CASE act # "approve_cancel"
    BY <1>1, <1>2, <1>6, <2>2 DEF Reaches
  <2> QED
    BY <2>1, <2>2
<1> QED
  BY <1>3, <1>4, <1>5, <1>6

\* A stored row is a role gate for admins too: unless it lists them, an
\* admin is refused the action until the row is changed.
THEOREM StoredRowBindsAdmins ==
  \A u \in Claims, table \in Tables, act \in Actions, tgt \in Targets :
    u.role = "admin" /\ Can(u, table, act, tgt) =>
      table[act] = {} \/ "admin" \in table[act]
  BY DEF Can

-----------------------------------------------------------------------------
Places == {"free", "found", "authed", "granted", "editing", "ruling", "pinning", "bulk"}

Requests == [pc : Places, handler : Traffic \cup {"none"}, token : Tokens \cup {None},
             user : Users \cup {None}, expires : Nat, rights : Rights,
             member : Users \cup {None}, copy : Rights, rules : Seq(Rule),
             question : Question]

Holds == [item : Items \cup {None}, copy : Item \cup {Absent},
          action : {"none", "delete", "publish", "unpublish", "edit"}, ids : Seq(Items)]

Session == [user : Users, expires : Nat]

\* The tables.
TablesTyped ==
  /\ users \in [Users -> Rights]
  /\ perms \in [Orgs -> Tables]
  /\ sessions \in [Tokens -> Session \cup {NoSession}]
  /\ issued \subseteq Tokens
  /\ now \in 0 .. MaxTime
  /\ \A t \in Tokens : sessions[t] # NoSession => t \in issued

\* A request in flight came with a token that was issued to its user, and
\* holds rows it has read and what is left to write.
RequestTyped(r, tokens) ==
  /\ r \in Requests
  /\ r.pc = "free" => r = Free
  /\ r.pc # "free" => r.user \in Users /\ r.token \in tokens
  /\ r.pc = "editing" => r.member \in Users
  /\ r.pc = "ruling" => r.rules # << >> /\ OrgOf[r.user] \in Orgs

RequestsTyped ==
  /\ req \in [Workers -> Requests]
  /\ \A w \in Workers : RequestTyped(req[w], issued)

AccessTyped == TablesTyped /\ RequestsTyped

LEMMA FreeType == Free \in Requests /\ Free.pc = "free"
<1>1. NoRights \in Rights
  BY DEF NoRights, Rights, Roles
<1>2. NoQuestion \in Question
  BY DEF NoQuestion, Question, Actions, Targets
<1>3. << >> \in Seq(Rule)
  OBVIOUS
<1> QED
  BY <1>1, <1>2, <1>3 DEF Free, Requests, Places

LEMMA AccessInit == Init => AccessTyped
<1> SUFFICES ASSUME Init PROVE AccessTyped
  OBVIOUS
<1>1. Unset \in Tables
  BY DEF Unset, Tables
<1>2. \A w \in Workers : req[w] = Free
  BY DEF Init
<1>3. RequestTyped(Free, issued)
  BY FreeType DEF RequestTyped
<1>4. RequestsTyped
  BY <1>2, <1>3, FreeType DEF RequestsTyped, Init
<1> QED
  BY <1>1, <1>4, AccessAssumption DEF Init, AccessTyped, TablesTyped

\* One request changes and no token is withdrawn.
LEMMA RequestPut ==
  ASSUME AccessTyped, NEW w \in Workers, NEW r, RequestTyped(r, issued'),
         req' = [req EXCEPT ![w] = r], issued \subseteq issued'
  PROVE  RequestsTyped'
<1> DEFINE R == Requests
<1>1. r \in R
  BY DEF RequestTyped
<1> HIDE DEF R
<1>2. req' \in [Workers -> R]
  BY <1>1 DEF AccessTyped, RequestsTyped, R
<1>3. \A v \in Workers : RequestTyped(req'[v], issued')
  BY DEF AccessTyped, RequestsTyped, RequestTyped
<1> QED
  BY <1>2, <1>3 DEF RequestsTyped, R

LEMMA AnswerTyped ==
  ASSUME AccessTyped, NEW w \in Workers, Answer(w), issued \subseteq issued'
  PROVE  RequestsTyped'
<1>1. RequestTyped(Free, issued')
  BY FreeType DEF RequestTyped
<1> QED
  BY <1>1, RequestPut DEF Answer

\* Requests of each place, from one in flight.
LEMMA Moved ==
  ASSUME NEW r \in Requests, NEW tokens, RequestTyped(r, tokens), r.pc # "free",
         NEW p \in {"authed", "pinning", "bulk"}
  PROVE  /\ RequestTyped([r EXCEPT !.pc = p], tokens)
         /\ \A a \in Rights : RequestTyped([r EXCEPT !.pc = p, !.rights = a], tokens)
  BY DEF RequestTyped, Requests, Places

LEMMA Granted ==
  ASSUME NEW r \in Requests, NEW tokens, RequestTyped(r, tokens), r.pc # "free",
         NEW q \in Question
  PROVE  RequestTyped([r EXCEPT !.pc = "granted", !.question = q], tokens)
  BY DEF RequestTyped, Requests, Places

LEMMA Fetched ==
  ASSUME NEW r \in Requests, NEW tokens, RequestTyped(r, tokens), r.pc # "free",
         NEW v \in Users, NEW a \in Rights
  PROVE  RequestTyped([r EXCEPT !.pc = "editing", !.member = v, !.copy = a], tokens)
  BY DEF RequestTyped, Requests, Places

LEMMA Ruling ==
  ASSUME NEW r \in Requests, NEW tokens, RequestTyped(r, tokens), r.pc # "free",
         NEW list \in Seq(Rule) \ {<< >>}, OrgOf[r.user] \in Orgs
  PROVE  /\ RequestTyped([r EXCEPT !.pc = "ruling", !.rules = list], tokens)
         /\ r.pc = "ruling" => RequestTyped([r EXCEPT !.rules = list], tokens)
  BY DEF RequestTyped, Requests, Places

-----------------------------------------------------------------------------
\* What a step of AccessServe that does not answer makes of its request.
Advances(w, r) ==
  /\ req' = [req EXCEPT ![w] = r]
  /\ RequestTyped(r, issued)
  /\ r.token = req[w].token /\ r.user = req[w].user /\ r.expires = req[w].expires
  /\ UNCHANGED <<users, sessions>>
  /\ \/ /\ req[w].pc = "found" /\ r.pc = "authed" /\ ~Expired(w)
        /\ r.rights = users[r.user]
     \/ /\ r.rights = req[w].rights
        /\ \/ /\ req[w].pc = "authed" /\ r.pc = "granted" /\ UNCHANGED perms
              /\ \E table \in Readable(TableOf(w)) :
                   Can(ClaimsOf(w), table, r.question.act, r.question.tgt)
           \/ /\ req[w].pc = "authed" /\ r.pc = "editing" /\ r.rights.role = "admin"
              /\ r.copy = users[r.member]
           \/ /\ req[w].pc = "authed" /\ r.pc = "ruling" /\ r.rights.role = "admin"
           \/ req[w].pc = "ruling" /\ r.pc = "ruling"

\* Sessions only ever end.
NoneRevived ==
  sessions' = sessions \/ \E t \in issued : sessions' = [sessions EXCEPT ![t] = NoSession]

LEMMA EntryRemoved ==
  ASSUME TablesTyped, NoneRevived, UNCHANGED <<users, perms, issued, now>>
  PROVE  TablesTyped'
  BY DEF TablesTyped, NoneRevived

LEMMA ServeShape ==
  ASSUME AccessTyped, NEW w \in Workers, AccessServe(w)
  PROVE  /\ TablesTyped'
         /\ UNCHANGED <<users, issued, now>>
         /\ NoneRevived
         /\ req[w].pc \notin {"free", "pinning", "bulk"}
         /\ Answer(w) \/ \E r : Advances(w, r)
<1> USE DEF AccessTyped
<1> DEFINE Unmoved == UNCHANGED <<users, perms, issued, now>>
           Same == Unmoved /\ UNCHANGED sessions
           Shape == Answer(w) \/ \E r : Advances(w, r)
           Busy == req[w].pc \notin {"free", "pinning", "bulk"}
<1>1. Same => NoneRevived
  BY DEF NoneRevived
<1>2. RequestTyped(req[w], issued) /\ req[w] \in Requests
      /\ req \in [Workers -> Requests]
  BY DEF RequestsTyped
<1> SUFFICES Busy /\ Shape /\ NoneRevived
             /\ UNCHANGED <<users, issued, now>> /\ (Unmoved \/ TablesTyped')
  BY EntryRemoved
<1>3. CASE Resolve(w)
  <2>1. req[w].pc = "found" /\ req[w].token \in issued /\ req[w].user \in Users /\ Unmoved
    BY <1>2, <1>3 DEF Resolve, RequestTyped
  <2>2. CASE Expired(w)
    BY <1>3, <2>1, <2>2 DEF Resolve, NoneRevived
  <2>3. CASE ~Expired(w)
    <3> DEFINE r == [req[w] EXCEPT !.pc = "authed", !.rights = RowOf(req[w].user)]
    <3>1. Same /\ req' = [req EXCEPT ![w] = r]
      BY <1>2, <1>3, <2>1, <2>3 DEF Resolve
    <3>2. RowOf(req[w].user) \in Rights
      BY <2>1 DEF RowOf, TablesTyped
    <3>3. RequestTyped(r, issued)
      BY <1>2, <2>1, <3>2, Moved
    <3>4. /\ r.token = req[w].token /\ r.user = req[w].user /\ r.expires = req[w].expires
          /\ r.pc = "authed" /\ r.rights = users[r.user]
      BY <1>2 DEF Requests, RowOf
    <3> HIDE DEF r
    <3>5. Advances(w, r)
      BY <2>1, <2>3, <3>1, <3>3, <3>4 DEF Advances
    <3> QED
      BY <1>1, <2>1, <3>1, <3>5
  <2> QED
    BY <2>2, <2>3
<1>4. CASE EndSession(w)
  BY <1>2, <1>4 DEF EndSession, At, RequestTyped, NoneRevived
<1>5. CASE Ask(w)
  <2>1. Same /\ req[w].pc = "authed"
    BY <1>5 DEF Ask, At
  <2>2. CASE Answer(w)
    BY <1>1, <2>1, <2>2
  <2>3. CASE \E q \in Asks, table \in Readable(TableOf(w)) :
               /\ Can(ClaimsOf(w), table, q.act, q.tgt)
               /\ req' = [req EXCEPT ![w].pc = "granted", ![w].question = q]
    <3>1. PICK q \in Asks, table \in Readable(TableOf(w)) :
               /\ Can(ClaimsOf(w), table, q.act, q.tgt)
               /\ req' = [req EXCEPT ![w].pc = "granted", ![w].question = q]
      BY <2>3
    <3> DEFINE r == [req[w] EXCEPT !.pc = "granted", !.question = q]
    <3>2. req' = [req EXCEPT ![w] = r]
      BY <1>2, <3>1
    <3>3. RequestTyped(r, issued)
      BY <1>2, <2>1, Granted, AccessAssumption
    <3>4. /\ r.token = req[w].token /\ r.user = req[w].user /\ r.expires = req[w].expires
          /\ r.pc = "granted" /\ r.rights = req[w].rights /\ r.question = q
      BY <1>2 DEF Requests
    <3> HIDE DEF r
    <3>5. Advances(w, r)
      BY <2>1, <3>1, <3>2, <3>3, <3>4 DEF Advances
    <3> QED
      BY <1>1, <2>1, <3>5
  <2> QED
    BY <1>5, <2>2, <2>3 DEF Ask
<1>6. CASE Done(w) \/ Forbid(w)
  BY <1>1, <1>6 DEF Done, Forbid, At
<1>7. CASE ReadMember(w)
  <2>1. Same /\ req[w].pc = "authed"
    BY <1>7 DEF ReadMember, At
  <2>2. PICK v \in Users :
          /\ MayEdit(w, v)
          /\ req' = [req EXCEPT ![w].pc = "editing", ![w].member = v, ![w].copy = RowOf(v)]
    BY <1>7 DEF ReadMember
  <2>3. RowOf(v) \in Rights
    BY DEF RowOf, TablesTyped
  <2> DEFINE r == [req[w] EXCEPT !.pc = "editing", !.member = v, !.copy = RowOf(v)]
  <2>4. req' = [req EXCEPT ![w] = r]
    BY <1>2, <2>2
  <2>5. RequestTyped(r, issued)
    BY <1>2, <2>1, <2>3, Fetched
  <2>6. /\ r.token = req[w].token /\ r.user = req[w].user /\ r.expires = req[w].expires
        /\ r.pc = "editing" /\ r.rights = req[w].rights /\ r.copy = users[r.member]
    BY <1>2 DEF Requests, RowOf
  <2> HIDE DEF r
  <2>7. Advances(w, r)
    BY <2>1, <2>2, <2>4, <2>5, <2>6 DEF Advances, MayEdit
  <2> QED
    BY <1>1, <2>1, <2>7
<1>8. CASE ReadRules(w)
  <2>1. /\ Same /\ req[w].pc = "authed"
        /\ OrgOf[req[w].user] # None /\ req[w].rights.role = "admin"
    BY <1>8 DEF ReadRules, At
  <2>2. OrgOf[req[w].user] \in Orgs
    BY <1>2, <2>1, AccessAssumption DEF RequestTyped
  <2>3. PICK list \in RuleLists : req' = [req EXCEPT ![w].pc = "ruling", ![w].rules = list]
    BY <1>8 DEF ReadRules
  <2>4. list \in Seq(Rule) \ {<< >>}
    BY AccessAssumption
  <2> DEFINE r == [req[w] EXCEPT !.pc = "ruling", !.rules = list]
  <2>5. req' = [req EXCEPT ![w] = r]
    BY <1>2, <2>3
  <2>6. RequestTyped(r, issued)
    BY <1>2, <2>1, <2>2, <2>4, Ruling
  <2>7. /\ r.token = req[w].token /\ r.user = req[w].user /\ r.expires = req[w].expires
        /\ r.pc = "ruling" /\ r.rights = req[w].rights
    BY <1>2 DEF Requests
  <2> HIDE DEF r
  <2>8. Advances(w, r)
    BY <2>1, <2>5, <2>6, <2>7 DEF Advances
  <2> QED
    BY <1>1, <2>1, <2>8
<1>9. CASE WriteRule(w)
  <2> DEFINE list == req[w].rules
             org == OrgOf[req[w].user]
  <2>1. /\ list \in Seq(Rule) /\ list # << >> /\ org \in Orgs
        /\ req[w].pc # "free" /\ req[w].pc = "ruling"
    BY <1>2, <1>9 DEF WriteRule, RequestTyped, Requests
  <2>2. Head(list) \in Rule /\ Tail(list) \in Seq(Rule)
    BY <2>1
  <2>3. Len(list) # 1 => Tail(list) # << >>
    <3> HIDE DEF list
    <3>1. Len(list) \in Nat \ {0} /\ Len(Tail(list)) = Len(list) - 1
      BY <2>1, HeadTailProperties, EmptySeq
    <3>2. Len(<< >>) = 0
      BY EmptySeq
    <3>3. Tail(list) = << >> => Len(Tail(list)) = 0
      BY <3>2, Zenon
    <3> QED
      BY <3>1, <3>3
  <2>4. /\ perms' = [perms EXCEPT ![org][Head(list).act] = Head(list).roles]
        /\ UNCHANGED <<users, sessions, issued, now>>
    BY <1>9 DEF WriteRule
  <2>5. perms' \in [Orgs -> Tables]
    <3>1. Head(list).act \in Actions /\ Head(list).roles \in SUBSET Listed
      BY <2>2 DEF Rule
    <3> HIDE DEF list, org
    <3>2. perms[org] \in Tables
      BY <2>1 DEF TablesTyped
    <3>3. [perms[org] EXCEPT ![Head(list).act] = Head(list).roles] \in Tables
      BY <3>1, <3>2 DEF Tables
    <3> QED
      BY <2>1, <2>4, <3>3 DEF TablesTyped
  <2>6. TablesTyped' /\ NoneRevived
    BY <2>4, <2>5 DEF TablesTyped, NoneRevived
  <2>7. CASE Answer(w)
    BY <2>1, <2>4, <2>6, <2>7
  <2>8. CASE Len(list) # 1
    <3> DEFINE r == [req[w] EXCEPT !.rules = Tail(list)]
    <3>1. req' = [req EXCEPT ![w] = r]
      BY <1>2, <1>9, <2>8 DEF WriteRule
    <3>2. RequestTyped(r, issued)
      BY <1>2, <2>1, <2>2, <2>3, <2>8, Ruling
    <3>3. /\ r.token = req[w].token /\ r.user = req[w].user /\ r.expires = req[w].expires
          /\ r.pc = "ruling" /\ r.rights = req[w].rights
      BY <1>2, <2>1 DEF Requests
    <3> HIDE DEF r
    <3>4. Advances(w, r)
      BY <2>1, <2>4, <3>1, <3>2, <3>3 DEF Advances
    <3> QED
      BY <2>1, <2>4, <2>6, <3>4
  <2> QED
    BY <1>9, <2>7, <2>8 DEF WriteRule
<1> QED
  BY <1>3, <1>4, <1>5, <1>6, <1>7, <1>8, <1>9 DEF AccessServe

-----------------------------------------------------------------------------
\* What a request at place r holds: an item of its own user while it pins or
\* runs over a list.
HoldFits(r, h) ==
  /\ h \in Holds
  /\ r.pc \notin {"pinning", "bulk"} => h = Empty
  /\ h.item # None =>
       h.item \in Items /\ h.copy \in Item /\ TeacherOf[h.item] = r.user
  /\ r.pc = "pinning" => h.item # None
  /\ r.pc = "bulk" =>
       h.action # "none" /\ (h.item # None => h.ids # << >>)

Typed ==
  /\ AccessTyped
  /\ held \in [Workers -> Holds]
  /\ \A w \in Workers : HoldFits(req[w], held[w])
  /\ content \in [Items -> Item \cup {Absent}]
  /\ wanted \in [Items -> Item \cup {Absent}]
  /\ asked \in [Users -> Rights]

LEMMA AbsentIsNoItem == Absent \notin Item
  BY DEF Absent, Item

LEMMA EmptyFits == /\ Empty \in Holds /\ Empty.item = None
                   /\ HoldFits(Free, Empty)
                   /\ \A r : r.pc \notin {"pinning", "bulk"} => HoldFits(r, Empty)
<1>1. << >> \in Seq(Items)
  OBVIOUS
<1>2. Empty \in Holds /\ Empty.item = None
  BY <1>1 DEF Empty, Holds
<1> QED
  BY <1>2, FreeType DEF HoldFits

\* What a step of a content handler makes of its request and what it holds.
Works(w, r, h) ==
  /\ req' = [req EXCEPT ![w] = r] /\ held' = [held EXCEPT ![w] = h]
  /\ UNCHANGED <<users, perms, sessions, issued, now>>
  /\ RequestTyped(r, issued) /\ HoldFits(r, h)
  /\ h.item # None =>
       \/ h.item = held[w].item /\ h.copy = held[w].copy
       \/ h.copy = content[h.item]
  /\ \/ r = Free
     \/ /\ r.token = req[w].token /\ r.user = req[w].user /\ r.expires = req[w].expires
        /\ r.rights = req[w].rights
        /\ \/ r.pc = "bulk" /\ req[w].pc = "bulk"
           \/ req[w].pc = "authed" /\ r.pc \in {"pinning", "bulk"} /\ Teacher(w)

\* An answer leaves the worker free, with nothing held.
LEMMA AnswerWorks ==
  ASSUME Typed, NEW w \in Workers, Answer(w), held' = [held EXCEPT ![w] = Empty],
         UNCHANGED <<users, perms, sessions, issued, now>>
  PROVE  Works(w, Free, Empty)
<1>1. RequestTyped(Free, issued)
  BY FreeType DEF RequestTyped
<1> QED
  BY <1>1, EmptyFits DEF Works, Answer

LEMMA ContentShape ==
  ASSUME Typed, NEW w \in Workers, ContentServe(w)
  PROVE  (\E r, h : Works(w, r, h)) /\ UNCHANGED content
<1>1. /\ RequestTyped(req[w], issued) /\ req[w] \in Requests
      /\ req \in [Workers -> Requests] /\ held \in [Workers -> Holds]
      /\ HoldFits(req[w], held[w]) /\ held[w] \in Holds
      /\ AccessTyped
  BY DEF Typed, AccessTyped, RequestsTyped
<1>2. ASSUME NEW p \in {"pinning", "bulk"}, req[w].pc = "authed", Move(w, p), Teacher(w),
             UNCHANGED <<users, perms, sessions, issued, now>>,
             NEW h, held' = [held EXCEPT ![w] = h],
             h \in Holds,
             h.item # None => /\ h.item \in Items /\ h.copy \in Item
                              /\ TeacherOf[h.item] = req[w].user /\ h.copy = content[h.item],
             p = "pinning" => h.item # None,
             p = "bulk" => h.action # "none" /\ h.item = None
      PROVE  \E r : Works(w, r, h)
  <2> DEFINE r == [req[w] EXCEPT !.pc = p]
  <2>1. req' = [req EXCEPT ![w] = r] /\ RequestTyped(r, issued)
    BY <1>1, <1>2, Moved DEF Move
  <2>2. /\ r.token = req[w].token /\ r.user = req[w].user /\ r.expires = req[w].expires
        /\ r.rights = req[w].rights /\ r.pc = p
    BY <1>1 DEF Requests
  <2> HIDE DEF r
  <2>3. HoldFits(r, h)
    BY <1>2, <2>2 DEF HoldFits
  <2> QED
    BY <1>2, <2>1, <2>2, <2>3 DEF Works
<1>3. CASE ReadPin(w)
  <2>1. PICK i \in Items : /\ content[i] # Absent /\ Mine(w, i)
                           /\ held' = [held EXCEPT ![w] =
                                [Empty EXCEPT !.item = i, !.copy = content[i]]]
    BY <1>3 DEF ReadPin, Hold
  <2>2. content[i] \in Item
    BY <2>1 DEF Typed
  <2> DEFINE h == [Empty EXCEPT !.item = i, !.copy = content[i]]
  <2>3. h \in Holds /\ h.item = i /\ h.copy = content[i]
    BY <2>2, EmptyFits DEF Holds
  <2> HIDE DEF h
  <2>4. held' = [held EXCEPT ![w] = h]
    BY <2>1 DEF h
  <2> QED
    BY <1>2, <1>3, <2>1, <2>2, <2>3, <2>4, ConsoleAssumption DEF ReadPin, At, Mine
<1>4. CASE StartBulk(w)
  <2>1. PICK body \in BulkBodies : held' = [held EXCEPT ![w] =
                                [Empty EXCEPT !.action = body.action, !.ids = body.ids]]
    BY <1>4 DEF StartBulk, Hold
  <2> DEFINE h == [Empty EXCEPT !.action = body.action, !.ids = body.ids]
  <2>2. h \in Holds /\ h.item = None /\ h.action # "none"
    BY EmptyFits, ConsoleAssumption DEF Bulk, Holds
  <2> HIDE DEF h
  <2>3. held' = [held EXCEPT ![w] = h]
    BY <2>1 DEF h
  <2> QED
    BY <1>2, <1>4, <2>2, <2>3 DEF StartBulk, At
<1>5. CASE ReadItem(w)
  <2>1. /\ req[w].pc = "bulk" /\ held[w].ids # << >> /\ held[w].item = None
        /\ UNCHANGED <<users, perms, sessions, issued, now, req, content>>
        /\ held[w].ids \in Seq(Items) /\ held[w].action # "none"
    BY <1>1, <1>5 DEF ReadItem, Holds, HoldFits
  <2>2. Head(held[w].ids) \in Items /\ Remaining(w) \in Seq(Items)
    BY <2>1 DEF Remaining
  <2>3. req' = [req EXCEPT ![w] = req[w]]
    BY <1>1, <2>1
  <2>4. ASSUME NEW h \in Holds, held' = [held EXCEPT ![w] = h], h.action # "none",
               h.item # None => /\ h.ids # << >> /\ h.copy \in Item
                                /\ TeacherOf[h.item] = req[w].user
                                /\ h.copy = content[h.item]
        PROVE  Works(w, req[w], h)
    <3>1. HoldFits(req[w], h)
      BY <2>1, <2>4 DEF HoldFits, Holds
    <3> QED
      BY <1>1, <2>1, <2>3, <2>4, <3>1 DEF Works
  <2> DEFINE i == Head(held[w].ids)
             h1 == [held[w] EXCEPT !.item = i, !.copy = content[i]]
             h2 == [held[w] EXCEPT !.ids = Remaining(w)]
  <2>5. CASE content[i] # Absent /\ Mine(w, i)
    <3>1. content[i] \in Item
      BY <2>2, <2>5 DEF Typed
    <3>2. /\ h1 \in Holds /\ h1.item = i /\ h1.copy = content[i]
          /\ h1.action # "none" /\ h1.ids # << >>
      BY <1>1, <2>1, <2>2, <3>1 DEF Holds
    <3>3. held' = [held EXCEPT ![w] = h1]
      BY <1>5, <2>5 DEF ReadItem, Hold
    <3> HIDE DEF h1
    <3>4. Works(w, req[w], h1)
      BY <2>4, <2>5, <3>1, <3>2, <3>3 DEF Mine
    <3> QED
      BY <2>1, <3>4
  <2>6. CASE ~(content[i] # Absent /\ Mine(w, i))
    <3>1. h2 \in Holds /\ h2.item = None /\ h2.action # "none"
      BY <1>1, <2>1, <2>2 DEF Holds
    <3>2. held' = [held EXCEPT ![w] = h2]
      BY <1>5, <2>6 DEF ReadItem, Hold
    <3> HIDE DEF h2
    <3>3. Works(w, req[w], h2)
      BY <2>4, <3>1, <3>2
    <3> QED
      BY <2>1, <3>3
  <2> QED
    BY <2>5, <2>6
<1>6. CASE FinishBulk(w)
  BY <1>6, AnswerWorks DEF FinishBulk, Hold
<1>7. CASE ForbidContent(w)
  <2>1. held[w] = Empty /\ held' = [held EXCEPT ![w] = Empty]
    BY <1>1, <1>7 DEF ForbidContent, At, HoldFits
  <2> QED
    BY <1>7, <2>1, AnswerWorks DEF ForbidContent
<1> QED
  BY <1>3, <1>4, <1>5, <1>6, <1>7 DEF ContentServe

LEMMA PinShape ==
  ASSUME Typed, NEW w \in Workers, NEW b \in BOOLEAN, WritePin(w, b)
  PROVE  /\ Works(w, Free, Empty)
         /\ req[w].pc = "pinning" /\ held[w].item \in Items
         /\ [held[w].copy EXCEPT !.pinned = b] \in Item
         /\ content' = [content EXCEPT ![held[w].item] = [held[w].copy EXCEPT !.pinned = b]]
<1>1. HoldFits(req[w], held[w])
  BY DEF Typed
<1>2. req[w].pc = "pinning" /\ held[w].item \in Items /\ held[w].copy \in Item
  BY <1>1 DEF WritePin, HoldFits
<1> QED
  BY <1>2, AnswerWorks DEF WritePin, Hold, Put, Item

LEMMA BulkShape ==
  ASSUME Typed, NEW w \in Workers, NEW failed \in BOOLEAN, WriteItem(w, failed)
  PROVE  /\ \E h : Works(w, req[w], h) /\ h.item = None
         /\ req[w].pc = "bulk" /\ held[w].item \in Items
         /\ Bulked(held[w].copy, held[w].action) \in Item \cup {Absent}
         /\ IF failed THEN UNCHANGED content
            ELSE content' = [content EXCEPT ![held[w].item] =
                                Bulked(held[w].copy, held[w].action)]
<1>1. /\ RequestTyped(req[w], issued) /\ req \in [Workers -> Requests]
      /\ held[w] \in Holds /\ HoldFits(req[w], held[w])
  BY DEF Typed, AccessTyped, RequestsTyped
<1>2. /\ req[w].pc = "bulk" /\ held[w].item # None /\ held[w].item \in Items
      /\ held[w].copy \in Item
      /\ held[w].ids \in Seq(Items) /\ held[w].ids # << >> /\ held[w].action # "none"
      /\ UNCHANGED <<users, perms, sessions, issued, now, req>>
  BY <1>1 DEF WriteItem, HoldFits, Holds
<1>3. Remaining(w) \in Seq(Items)
  BY <1>2 DEF Remaining
<1>4. Bulked(held[w].copy, held[w].action) \in Item \cup {Absent}
  <2>1. held[w].action \in {"delete", "publish", "unpublish", "edit"}
    BY <1>1, <1>2 DEF Holds
  <2> QED
    BY <1>2, <2>1 DEF Bulked, Item
<1> DEFINE h == [held[w] EXCEPT !.item = None, !.copy = Absent, !.ids = Remaining(w)]
<1>5. h \in Holds /\ h.item = None /\ h.action = held[w].action
  BY <1>1, <1>3 DEF Holds
<1>6. held' = [held EXCEPT ![w] = h]
  BY DEF WriteItem, Hold
<1> HIDE DEF h
<1>7. HoldFits(req[w], h)
  BY <1>2, <1>5 DEF HoldFits
<1>8. Works(w, req[w], h)
  BY <1>1, <1>2, <1>5, <1>6, <1>7 DEF Works
<1> QED
  BY <1>2, <1>4, <1>5, <1>8 DEF WriteItem, Put

\* A request that ends before its last write holds nothing.
LEMMA EditShape ==
  ASSUME Typed, NEW w \in Workers, NEW e \in Edits, WriteMember(w, e)
  PROVE  /\ req[w].pc = "editing" /\ req[w].member \in Users
         /\ Edited(req[w].member, req[w].copy, e) \in Rights
         /\ users' = [users EXCEPT ![req[w].member] = Edited(req[w].member, req[w].copy, e)]
         /\ req' = [req EXCEPT ![w] = Free]
         /\ UNCHANGED <<perms, sessions, issued, now>>
<1>1. RequestTyped(req[w], issued) /\ req[w] \in Requests
  BY DEF Typed, AccessTyped, RequestsTyped
<1>2. req[w].pc = "editing" /\ req[w].member \in Users /\ req[w].copy \in Rights
  BY <1>1 DEF WriteMember, RequestTyped, Requests
<1>3. Edited(req[w].member, req[w].copy, e) \in Rights
  BY <1>2, AccessAssumption DEF Edited, Rights, Edit
<1> QED
  BY <1>2, <1>3 DEF WriteMember, Answer

\* One request and what it holds change.
LEMMA WorkerPut ==
  ASSUME Typed, NEW w \in Workers, NEW r, NEW h,
         req' = [req EXCEPT ![w] = r], held' = [held EXCEPT ![w] = h],
         RequestTyped(r, issued'), HoldFits(r, h), issued \subseteq issued',
         TablesTyped', content' \in [Items -> Item \cup {Absent}],
         wanted' \in [Items -> Item \cup {Absent}], asked' \in [Users -> Rights]
  PROVE  Typed'
<1>1. RequestsTyped'
  BY RequestPut DEF Typed
<1>2. \A v \in Workers : HoldFits(req'[v], held'[v])
  BY DEF Typed, AccessTyped, RequestsTyped
<1>3. held' \in [Workers -> Holds]
  BY DEF Typed, HoldFits
<1> QED
  BY <1>1, <1>2, <1>3 DEF Typed, AccessTyped

-----------------------------------------------------------------------------
\* What a step makes of the requests.
RequestsMove ==
  \/ \E w \in Workers, t \in Tokens, handler \in Traffic : Begin(w, t, handler)
  \/ \E w \in Workers : \E r : Advances(w, r)
  \/ \E w \in Workers : \E r, h : Works(w, r, h)
  \/ \E w \in Workers : req' = [req EXCEPT ![w] = Free]
  \/ req' = req
  \/ req' = [w \in Workers |-> Free]

\* The members and items change in these ways only.
LEMMA AccessStep ==
  ASSUME Typed, NEW w \in Workers, AccessServe(w), UNCHANGED <<contentVars, itemHistory, memberHistory>>
  PROVE  Typed' /\ RequestsMove /\ NoneRevived /\ UNCHANGED <<users, issued, now>>
<1>1. /\ TablesTyped' /\ UNCHANGED <<users, issued, now>> /\ NoneRevived
      /\ req[w].pc \notin {"free", "pinning", "bulk"}
      /\ Answer(w) \/ \E r : Advances(w, r)
  BY ServeShape DEF Typed
<1>2. held[w] = Empty
  BY <1>1 DEF Typed, HoldFits
<1>3. held' = [held EXCEPT ![w] = Empty] /\ UNCHANGED <<content, itemHistory, memberHistory>>
  BY <1>2 DEF contentVars, Typed
<1>4. CASE Answer(w)
  <2>1. RequestTyped(Free, issued') /\ HoldFits(Free, Empty)
    BY FreeType, EmptyFits DEF RequestTyped
  <2>2. Typed'
    BY <1>1, <1>3, <1>4, <2>1, WorkerPut DEF Answer, Typed
  <2> QED
    BY <1>1, <1>4, <2>2 DEF Answer, RequestsMove
<1>5. CASE \E r : Advances(w, r)
  <2>1. PICK r : Advances(w, r)
    BY <1>5
  <2>2. RequestTyped(r, issued') /\ HoldFits(r, Empty) /\ req' = [req EXCEPT ![w] = r]
    BY <1>1, <2>1, EmptyFits DEF Advances
  <2>3. Typed'
    BY <1>1, <1>3, <2>2, WorkerPut DEF Typed
  <2> QED
    BY <1>1, <2>1, <2>3 DEF RequestsMove
<1> QED
  BY <1>1, <1>4, <1>5

LEMMA WorksStep ==
  ASSUME Typed, NEW w \in Workers, NEW r, NEW h, Works(w, r, h),
         content' \in [Items -> Item \cup {Absent}],
         wanted' \in [Items -> Item \cup {Absent}], UNCHANGED memberHistory
  PROVE  Typed' /\ RequestsMove /\ UNCHANGED <<users, perms, sessions, issued, now>>
<1>1. TablesTyped'
  BY DEF Works, Typed, AccessTyped, TablesTyped
<1>2. asked' \in [Users -> Rights]
  BY DEF Typed
<1>3. Typed'
  BY <1>1, <1>2, WorkerPut DEF Works
<1> QED
  BY <1>3 DEF RequestsMove, Works

\* What a write wanted, applied to a row that is there, is a row or none.
LEMMA PinWanted ==
  ASSUME Typed, NEW w \in Workers, NEW b \in BOOLEAN,
         RememberWrite(w, LAMBDA c : [c EXCEPT !.pinned = b])
  PROVE  /\ wanted' = [wanted EXCEPT ![held[w].item] =
                           IF @ = Absent THEN Absent ELSE [@ EXCEPT !.pinned = b]]
         /\ wanted' \in [Items -> Item \cup {Absent}]
<1>1. wanted' = [wanted EXCEPT ![held[w].item] =
                    IF @ = Absent THEN Absent ELSE [@ EXCEPT !.pinned = b]]
  BY DEF RememberWrite
<1>2. \A c \in Item : [c EXCEPT !.pinned = b] \in Item
  BY DEF Item
<1> QED
  BY <1>1, <1>2 DEF Typed

LEMMA BulkWanted ==
  ASSUME Typed, NEW w \in Workers, held[w].action \in {"delete", "publish", "unpublish", "edit"},
         RememberWrite(w, LAMBDA c : Bulked(c, held[w].action))
  PROVE  /\ wanted' = [wanted EXCEPT ![held[w].item] =
                           IF @ = Absent THEN Absent ELSE Bulked(@, held[w].action)]
         /\ wanted' \in [Items -> Item \cup {Absent}]
<1>1. wanted' = [wanted EXCEPT ![held[w].item] =
                    IF @ = Absent THEN Absent ELSE Bulked(@, held[w].action)]
  BY DEF RememberWrite
<1>2. \A c \in Item : Bulked(c, held[w].action) \in Item \cup {Absent}
  BY DEF Item, Bulked
<1> QED
  BY <1>1, <1>2 DEF Typed

\* BulkShape, with the action it needs.
LEMMA BulkAction ==
  ASSUME Typed, NEW w \in Workers, NEW failed \in BOOLEAN, WriteItem(w, failed)
  PROVE  held[w].action \in {"delete", "publish", "unpublish", "edit"}
<1>1. HoldFits(req[w], held[w])
  BY DEF Typed
<1> QED
  BY <1>1 DEF WriteItem, HoldFits, Holds

LEMMA ServeStep ==
  ASSUME Typed, NEW w \in Workers, Serve(w)
  PROVE  Typed' /\ RequestsMove /\ NoneRevived /\ UNCHANGED <<issued, now>>
<1>1. CASE AccessServe(w) /\ UNCHANGED <<contentVars, itemHistory, memberHistory>>
  BY <1>1, AccessStep
<1>2. CASE ContentServe(w) /\ UNCHANGED <<itemHistory, memberHistory>>
  <2>1. content' \in [Items -> Item \cup {Absent}] /\ wanted' \in [Items -> Item \cup {Absent}]
    BY <1>2, ContentShape DEF Typed
  <2> QED
    BY <1>2, <2>1, ContentShape, WorksStep DEF NoneRevived
<1>3. ASSUME NEW e \in Edits, WriteMember(w, e), RememberEdit(w, e),
             UNCHANGED <<contentVars, itemHistory>>
      PROVE  Typed' /\ RequestsMove /\ NoneRevived /\ UNCHANGED <<issued, now>>
  <2>1. /\ req[w].pc = "editing" /\ req[w].member \in Users
        /\ Edited(req[w].member, req[w].copy, e) \in Rights
        /\ users' = [users EXCEPT ![req[w].member] = Edited(req[w].member, req[w].copy, e)]
        /\ req' = [req EXCEPT ![w] = Free]
        /\ UNCHANGED <<perms, sessions, issued, now>>
    BY <1>3, EditShape
  <2>2. TablesTyped'
    BY <2>1 DEF Typed, AccessTyped, TablesTyped
  <2>3. asked' \in [Users -> Rights]
    BY <1>3, AccessAssumption DEF RememberEdit, Typed, Rights, Edit
  <2>4. held[w] = Empty
    BY <2>1 DEF Typed, HoldFits
  <2>5. held' = [held EXCEPT ![w] = Empty] /\ UNCHANGED <<content, wanted>>
    BY <1>3, <2>4 DEF contentVars, Typed
  <2>6. RequestTyped(Free, issued') /\ HoldFits(Free, Empty)
    BY FreeType, EmptyFits DEF RequestTyped
  <2>7. Typed'
    BY <2>1, <2>2, <2>3, <2>5, <2>6, WorkerPut DEF Typed
  <2> QED
    BY <2>1, <2>7 DEF RequestsMove, NoneRevived
<1>4. ASSUME NEW b \in BOOLEAN, WritePin(w, b), UNCHANGED memberHistory,
             RememberWrite(w, LAMBDA c : [c EXCEPT !.pinned = b])
      PROVE  Typed' /\ RequestsMove /\ NoneRevived /\ UNCHANGED <<issued, now>>
  <2>1. content' \in [Items -> Item \cup {Absent}]
    BY <1>4, PinShape DEF Typed
  <2>2. wanted' \in [Items -> Item \cup {Absent}]
    BY <1>4, PinWanted
  <2> QED
    BY <1>4, <2>1, <2>2, PinShape, WorksStep DEF NoneRevived
<1>5. CASE WriteItem(w, FALSE) /\ UNCHANGED memberHistory
           /\ RememberWrite(w, LAMBDA c : Bulked(c, held[w].action))
  <2>1. content' \in [Items -> Item \cup {Absent}]
    BY <1>5, BulkShape DEF Typed
  <2>2. wanted' \in [Items -> Item \cup {Absent}]
    BY <1>5, BulkAction, BulkWanted
  <2> QED
    BY <1>5, <2>1, <2>2, BulkShape, WorksStep DEF NoneRevived
<1>6. CASE WriteItem(w, TRUE) /\ UNCHANGED <<itemHistory, memberHistory>>
  <2>1. content' \in [Items -> Item \cup {Absent}] /\ wanted' \in [Items -> Item \cup {Absent}]
    BY <1>6, BulkShape DEF Typed
  <2> QED
    BY <1>6, <2>1, BulkShape, WorksStep DEF NoneRevived
<1>7. CASE Abort(w) /\ Hold(w, Empty) /\ UNCHANGED <<content, itemHistory, memberHistory>>
  <2>1. Works(w, Free, Empty)
    BY <1>7, AnswerWorks DEF Abort, Hold
  <2>2. content' \in [Items -> Item \cup {Absent}] /\ wanted' \in [Items -> Item \cup {Absent}]
    BY <1>7 DEF Typed
  <2> QED
    BY <1>7, <2>1, <2>2, WorksStep DEF NoneRevived
<1> QED
  BY <1>1, <1>2, <1>3, <1>4, <1>5, <1>6, <1>7 DEF Serve

LEMMA EnvStep ==
  ASSUME Typed, AccessEnv, UNCHANGED <<contentVars, itemHistory, memberHistory>>
  PROVE  /\ Typed' /\ RequestsMove /\ issued \subseteq issued'
         /\ now <= now' /\ UNCHANGED <<users, perms>>
         /\ \A t \in issued : sessions'[t] = sessions[t]
<1>1. UNCHANGED <<content, held, wanted, asked>>
  BY DEF contentVars
<1>2. ASSUME NEW u \in Users, Login(u)
      PROVE  /\ Typed' /\ RequestsMove /\ issued \subseteq issued'
             /\ now <= now' /\ UNCHANGED <<users, perms>>
             /\ \A t \in issued : sessions'[t] = sessions[t]
  <2>1. PICK t \in Tokens \ issued :
          /\ sessions' = [sessions EXCEPT ![t] = [user |-> u, expires |-> now + TTL]]
          /\ issued' = issued \cup {t}
          /\ UNCHANGED <<users, perms, now, req>>
    BY <1>2 DEF Login
  <2>2. [user |-> u, expires |-> now + TTL] \in Session
    BY AccessAssumption DEF Session, Typed, AccessTyped, TablesTyped
  <2>3. TablesTyped'
    BY <2>1, <2>2 DEF Typed, AccessTyped, TablesTyped
  <2>4. RequestsTyped'
    BY <2>1 DEF Typed, AccessTyped, RequestsTyped, RequestTyped
  <2>5. Typed'
    BY <1>1, <2>1, <2>3, <2>4 DEF Typed, AccessTyped
  <2> QED
    BY <2>1, <2>5 DEF RequestsMove, Typed, AccessTyped, TablesTyped
<1>3. ASSUME NEW w \in Workers, NEW t \in Tokens, NEW handler \in Traffic,
             Begin(w, t, handler)
      PROVE  /\ Typed' /\ RequestsMove /\ issued \subseteq issued'
             /\ now <= now' /\ UNCHANGED <<users, perms>>
             /\ \A k \in issued : sessions'[k] = sessions[k]
  <2> DEFINE r == [Free EXCEPT !.pc = "found", !.handler = handler, !.token = t,
                               !.user = sessions[t].user, !.expires = sessions[t].expires]
  <2>1. /\ req[w].pc = "free" /\ sessions[t] # NoSession
        /\ req' = [req EXCEPT ![w] = r]
        /\ UNCHANGED <<users, perms, sessions, issued, now>>
    BY <1>3 DEF Begin
  <2>2. t \in issued /\ sessions[t] \in Session
    BY <2>1 DEF Typed, AccessTyped, TablesTyped
  <2>3. RequestTyped(r, issued') /\ r.pc = "found"
    BY <2>1, <2>2, FreeType DEF RequestTyped, Requests, Places, Session
  <2> HIDE DEF r
  <2>4. held[w] = Empty
    BY <2>1 DEF Typed, HoldFits
  <2>5. HoldFits(r, Empty) /\ held' = [held EXCEPT ![w] = Empty]
    BY <1>1, <2>3, <2>4, EmptyFits DEF Typed
  <2>6. TablesTyped'
    BY <2>1 DEF Typed, AccessTyped, TablesTyped
  <2>7. Typed'
    BY <1>1, <2>1, <2>3, <2>5, <2>6, WorkerPut DEF Typed
  <2>8. now <= now
    BY DEF Typed, AccessTyped, TablesTyped
  <2> QED
    BY <1>3, <2>1, <2>7, <2>8 DEF RequestsMove
<1>4. CASE Tick
  <2>1. TablesTyped' /\ now <= now'
    BY <1>4, AccessAssumption DEF Tick, Typed, AccessTyped, TablesTyped
  <2>2. RequestsTyped'
    BY <1>4 DEF Tick, Typed, AccessTyped, RequestsTyped, RequestTyped
  <2> QED
    BY <1>1, <1>4, <2>1, <2>2 DEF Tick, Typed, AccessTyped, RequestsMove
<1> QED
  BY <1>2, <1>3, <1>4 DEF AccessEnv

LEMMA SeedsTyped == SeedContent \in [Items -> Item \cup {Absent}] /\ SeedContent \in [Items -> Item]
  BY DEF SeedContent, SeedItem, Item

LEMMA SeedIsItem == SeedItem \in Item
  BY DEF SeedItem, Item

LEMMA CrashStep ==
  ASSUME Typed, Crash
  PROVE  /\ Typed' /\ RequestsMove /\ UNCHANGED <<issued, now>>
         /\ \A t \in Tokens : sessions'[t] = NoSession
<1>1. /\ sessions' = [t \in Tokens |-> NoSession]
      /\ req' = [w \in Workers |-> Free]
      /\ held' = [w \in Workers |-> Empty]
      /\ UNCHANGED <<issued, now>>
  BY DEF Crash, Restart
<1>2. Unset \in Tables
  BY DEF Unset, Tables
<1>3. users' \in [Users -> Rights] /\ perms' \in [Orgs -> Tables] /\ asked' \in [Users -> Rights]
  BY <1>2, AccessAssumption DEF Crash, Restart, Typed, AccessTyped, TablesTyped
<1>4. content' \in [Items -> Item \cup {Absent}] /\ wanted' \in [Items -> Item \cup {Absent}]
  <2>1. PICK kept \in Kept : content' = Reseed(content, kept) /\ wanted' = Reseed(wanted, kept)
    BY DEF Crash
  <2>2. \A table \in [Items -> Item \cup {Absent}] :
          Reseed(table, kept) \in [Items -> Item \cup {Absent}]
    BY SeedIsItem DEF Reseed
  <2> QED
    BY <2>1, <2>2 DEF Typed
<1>5. TablesTyped'
  BY <1>1, <1>3 DEF Typed, AccessTyped, TablesTyped
<1>6. RequestTyped(Free, issued') /\ HoldFits(Free, Empty) /\ Free \in Requests /\ Empty \in Holds
  BY FreeType, EmptyFits DEF RequestTyped
<1>7. RequestsTyped'
  BY <1>1, <1>6 DEF RequestsTyped
<1>8. Typed'
  BY <1>1, <1>3, <1>4, <1>5, <1>6, <1>7 DEF Typed, AccessTyped
<1> QED
  BY <1>1, <1>8 DEF RequestsMove

LEMMA ConsoleTypedInit == ConsoleInit => Typed
<1> SUFFICES ASSUME ConsoleInit PROVE Typed
  OBVIOUS
<1>1. AccessTyped
  BY AccessInit DEF ConsoleInit
<1>2. \A w \in Workers : req[w] = Free /\ held[w] = Empty
  BY DEF ConsoleInit, Init
<1> QED
  BY <1>1, <1>2, EmptyFits, SeedsTyped, AccessAssumption DEF ConsoleInit, InitHistory, Typed

\* What any step does.
LEMMA NextStep ==
  ASSUME Typed, Next
  PROVE  /\ Typed' /\ RequestsMove /\ issued \subseteq issued' /\ now <= now'
         /\ \A t \in issued : sessions'[t] = sessions[t] \/ sessions'[t] = NoSession
<1>1. now <= now /\ issued \subseteq Tokens
  BY DEF Typed, AccessTyped, TablesTyped
<1>2. NoneRevived => \A t \in issued : sessions'[t] = sessions[t] \/ sessions'[t] = NoSession
  BY DEF NoneRevived, Typed, AccessTyped, TablesTyped
<1>3. CASE AccessEnv /\ UNCHANGED <<contentVars, itemHistory, memberHistory>>
  BY <1>3, EnvStep
<1>4. CASE \E w \in Workers : Serve(w)
  BY <1>1, <1>2, <1>4, ServeStep
<1>5. CASE Crash
  BY <1>1, <1>5, CrashStep
<1> QED
  BY <1>3, <1>4, <1>5 DEF Next

LEMMA TypedStays == Typed /\ [Next]_all => Typed'
<1>1. Typed /\ Next => Typed'
  BY NextStep
<1>2. Typed /\ UNCHANGED all => Typed'
  BY DEF all, allAccess, accessVars, history, contentVars, consoleHistory, Typed, AccessTyped,
     TablesTyped, RequestsTyped
<1> QED
  BY <1>1, <1>2

LEMMA ConsoleTyped == Spec => []Typed
<1> QED
  BY ConsoleTypedInit, TypedStays, PTL DEF Spec

\* Type correctness of the console: a session holds a user and an expiry, a
\* request in flight the copies it has read.
THEOREM ConsoleTypeCorrect == Spec => []TypeOK
<1>1. Typed => TypeOK
  BY DEF Typed, AccessTyped, TablesTyped, RequestsTyped, RequestTyped, HoldFits, Session, TypeOK
<1> QED
  BY <1>1, ConsoleTyped, PTL

\* However requests in flight, logouts, expiries and restarts interleave, an
\* entry of the session map that is gone stays gone, and none is renewed.
THEOREM DeadTokensStayOut == Spec => TokensStayOut
<1>1. Typed /\ [Next]_all =>
        [\A t \in issued : (sessions[t] = NoSession => sessions'[t] = NoSession)
                            /\ (sessions'[t] # NoSession => sessions'[t] = sessions[t])]_all
  BY NextStep
<1> QED
  BY <1>1, ConsoleTyped, PTL DEF Spec, TokensStayOut

-----------------------------------------------------------------------------
\* What request r, whose moments so far are P, is owed at time t: a live
\* session as long as it has not expired, then the rights it works with.
Bearer(r) == [id |-> r.user, role |-> r.rights.role,
              org |-> OrgOf[r.user], classes |-> r.rights.classes]

Entitled(r, P) ==
  \E m \in P : m.table \in Tables /\
    \E table \in Readable(m.table) :
      Can(Bearer(r), table, r.question.act, r.question.tgt)

Justified(r, P, t) ==
  /\ r.pc = "found" /\ t <= r.expires => \E m \in P : m.live
  /\ r.pc \notin {"free", "found"} =>
       (\E m \in P : m.live) /\ (\E m \in P : m.rights = r.rights)
  /\ r.pc \in {"editing", "ruling"} => r.rights.role = "admin"
  /\ r.pc \in {"pinning", "bulk"} => r.rights.role = "teacher"
  /\ r.pc = "granted" => Entitled(r, P)

AllJustified == \A w \in Workers : Justified(req[w], past[w], now)

\* More moments, later.
LEMMA StaysJustified ==
  ASSUME NEW r, NEW P, NEW Q, P \subseteq Q, NEW t \in Int, NEW u \in Int, t <= u,
         r.expires \in Int, Justified(r, P, t)
  PROVE  Justified(r, Q, u)
<1>1. r.pc = "found" /\ u <= r.expires => t <= r.expires
  OBVIOUS
<1>2. Entitled(r, P) => Entitled(r, Q)
  BY DEF Entitled
<1> QED
  BY <1>1, <1>2 DEF Justified

\* The moments of a request that is not answered.
LEMMA MomentAdded ==
  ASSUME Remember, NEW w \in Workers, req'[w].pc # "free"
  PROVE  past'[w] = past[w] \cup {Moment(w)'}
  BY DEF Remember

LEMMA FreeJustified == \A P, t : Justified(Free, P, t)
  BY FreeType DEF Justified

LEMMA TableTyped ==
  ASSUME Typed, NEW w \in Workers, req[w].pc # "free"
  PROVE  TableOf(w) \in Tables /\ req[w].user \in Users
<1>1. req[w].user \in Users
  BY DEF Typed, AccessTyped, RequestsTyped, RequestTyped
<1>2. Unset \in Tables
  BY DEF Unset, Tables
<1> QED
  BY <1>1, <1>2, AccessAssumption DEF TableOf, Typed, AccessTyped, TablesTyped

\* A request that has just found its session.
LEMMA BeginJustified ==
  ASSUME Typed, NEW w \in Workers, NEW t \in Tokens, NEW handler \in Traffic,
         Begin(w, t, handler), Remember
  PROVE  Justified(req'[w], past'[w], now')
<1> DEFINE r == [Free EXCEPT !.pc = "found", !.handler = handler, !.token = t,
                             !.user = sessions[t].user, !.expires = sessions[t].expires]
<1>1. req'[w] = r /\ sessions' = sessions /\ sessions[t] # NoSession
  BY DEF Begin, Typed, AccessTyped, RequestsTyped
<1>2. r.pc = "found" /\ r.token = t /\ r.user = sessions[t].user /\ r.expires = sessions[t].expires
  BY DEF Free
<1>3. sessions[t] = [user |-> sessions[t].user, expires |-> sessions[t].expires]
  BY <1>1 DEF Session, Typed, AccessTyped, TablesTyped
<1> HIDE DEF r
<1>4. now' <= r.expires => Moment(w)'.live
  BY <1>1, <1>2, <1>3 DEF Moment
<1>5. Moment(w)' \in past'[w]
  BY <1>1, <1>2, MomentAdded
<1> QED
  BY <1>1, <1>2, <1>4, <1>5 DEF Justified

LEMMA AdvanceJustified ==
  ASSUME Typed, Typed', NEW w \in Workers, NEW r, Advances(w, r), Remember,
         Justified(req[w], past[w], now)
  PROVE  Justified(req'[w], past'[w], now')
<1>1. /\ req'[w] = r /\ r.pc \notin {"free", "found"}
      /\ r.user = req[w].user /\ UNCHANGED <<users, sessions>>
      /\ req[w].pc \in {"found", "authed", "ruling"}
  BY DEF Advances, Typed, AccessTyped, RequestsTyped
<1>2. past'[w] = past[w] \cup {Moment(w)'}
  BY <1>1, MomentAdded
<1>3. \E m \in past'[w] : m.live
  <2>1. now \in Int /\ req[w].expires \in Int
    BY DEF Typed, AccessTyped, TablesTyped, RequestsTyped, Requests
  <2>2. req[w].pc = "found" => now <= req[w].expires
    BY <2>1 DEF Advances, Expired
  <2> QED
    BY <1>1, <1>2, <2>2 DEF Justified
<1>4. \E m \in past'[w] : m.rights = r.rights
  <2>1. CASE req[w].pc = "found"
    <3>1. Moment(w)'.rights = r.rights
      BY <1>1, <2>1 DEF Advances, Moment
    <3> QED
      BY <1>2, <3>1
  <2>2. CASE req[w].pc # "found"
    BY <1>1, <1>2, <2>2 DEF Advances, Justified
  <2> QED
    BY <2>1, <2>2
<1>5. /\ r.pc \in {"editing", "ruling"} => r.rights.role = "admin"
      /\ r.pc \notin {"pinning", "bulk"}
  BY DEF Advances, Justified
<1>6. r.pc = "granted" => Entitled(r, past'[w])
  <2> SUFFICES ASSUME r.pc = "granted" PROVE Entitled(r, past'[w])
    OBVIOUS
  <2>1. /\ UNCHANGED perms /\ r.rights = req[w].rights
        /\ \E table \in Readable(TableOf(w)) :
             Can(ClaimsOf(w), table, r.question.act, r.question.tgt)
    BY DEF Advances
  <2>2. ClaimsOf(w) = Bearer(r)
    BY <1>1, <2>1 DEF ClaimsOf, ClaimsWith, Bearer
  <2>3. Moment(w)'.table = TableOf(w) /\ TableOf(w) \in Tables
    BY <1>1, <2>1, TableTyped DEF Moment, TableOf
  <2> QED
    BY <1>2, <2>1, <2>2, <2>3 DEF Entitled
<1> QED
  BY <1>1, <1>3, <1>4, <1>5, <1>6 DEF Justified

LEMMA WorkJustified ==
  ASSUME Typed, NEW w \in Workers, NEW r, NEW h, Works(w, r, h), Remember,
         Justified(req[w], past[w], now)
  PROVE  Justified(req'[w], past'[w], now')
<1>1. req'[w] = r
  BY DEF Works, Typed, AccessTyped, RequestsTyped
<1>2. CASE r = Free
  BY <1>1, <1>2, FreeJustified
<1>3. CASE /\ r.rights = req[w].rights
           /\ \/ r.pc = "bulk" /\ req[w].pc = "bulk"
              \/ req[w].pc = "authed" /\ r.pc \in {"pinning", "bulk"} /\ Teacher(w)
  <2>1. past'[w] = past[w] \cup {Moment(w)'}
    BY <1>1, <1>3, MomentAdded
  <2> QED
    BY <1>1, <1>3, <2>1 DEF Justified, Teacher
<1> QED
  BY <1>2, <1>3 DEF Works

LEMMA JustifiedStep ==
  ASSUME Typed, AllJustified, Next
  PROVE  AllJustified'
<1>1. Typed' /\ RequestsMove /\ now <= now' /\ Remember
  BY NextStep DEF Next
<1>2. now \in Int /\ now' \in Int /\ req \in [Workers -> Requests]
      /\ \A v \in Workers : req[v].expires \in Int
  BY <1>1 DEF Typed, AccessTyped, TablesTyped, RequestsTyped, Requests
<1>3. ASSUME NEW v \in Workers, req'[v] = req[v]
      PROVE  Justified(req'[v], past'[v], now')
  <2>1. Justified(req[v], past[v], now)
    BY DEF AllJustified
  <2>2. CASE req[v].pc = "free"
    <3>1. req[v] = Free
      BY <2>2 DEF Typed, AccessTyped, RequestsTyped, RequestTyped
    <3> QED
      BY <1>3, <3>1, FreeJustified
  <2>3. CASE req[v].pc # "free"
    <3>1. past[v] \subseteq past'[v]
      BY <1>1, <1>3, <2>3, MomentAdded
    <3> QED
      BY <1>1, <1>2, <1>3, <2>1, <3>1, StaysJustified
  <2> QED
    BY <2>2, <2>3
<1>4. ASSUME NEW w \in Workers, NEW r, req' = [req EXCEPT ![w] = r],
             Justified(req'[w], past'[w], now')
      PROVE  AllJustified'
  <2>1. ASSUME NEW v \in Workers PROVE Justified(req'[v], past'[v], now')
    <3>1. CASE v = w
      BY <1>4, <3>1
    <3>2. CASE v # w
      BY <1>2, <1>3, <1>4, <3>2
    <3> QED
      BY <3>1, <3>2
  <2> QED
    BY <2>1 DEF AllJustified
<1>5. CASE \E w \in Workers, t \in Tokens, handler \in Traffic : Begin(w, t, handler)
  <2>1. PICK w \in Workers, t \in Tokens, handler \in Traffic : Begin(w, t, handler)
    BY <1>5
  <2>2. Justified(req'[w], past'[w], now')
    BY <1>1, <2>1, BeginJustified
  <2>3. \E r : req' = [req EXCEPT ![w] = r]
    BY <2>1 DEF Begin
  <2> QED
    BY <1>4, <2>2, <2>3
<1>6. CASE \E w \in Workers : \E r : Advances(w, r)
  <2>0. PICK w \in Workers : \E r : Advances(w, r)
    BY <1>6
  <2>1. PICK r : Advances(w, r)
    BY <2>0
  <2>2. Justified(req'[w], past'[w], now')
    BY <1>1, <2>1, AdvanceJustified DEF AllJustified
  <2> QED
    BY <1>4, <2>1, <2>2 DEF Advances
<1>7. CASE \E w \in Workers : \E r, h : Works(w, r, h)
  <2>0. PICK w \in Workers : \E r, h : Works(w, r, h)
    BY <1>7
  <2>1. PICK r, h : Works(w, r, h)
    BY <2>0
  <2>2. Justified(req'[w], past'[w], now')
    BY <1>1, <2>1, WorkJustified DEF AllJustified
  <2> QED
    BY <1>4, <2>1, <2>2 DEF Works
<1>8. CASE \E w \in Workers : req' = [req EXCEPT ![w] = Free]
  <2>1. PICK w \in Workers : req' = [req EXCEPT ![w] = Free]
    BY <1>8
  <2>2. req'[w] = Free
    BY <1>2, <2>1
  <2> QED
    BY <1>4, <2>1, <2>2, FreeJustified
<1>9. CASE req' = req
  BY <1>3, <1>9 DEF AllJustified
<1>10. CASE req' = [w \in Workers |-> Free]
  BY <1>10, FreeJustified DEF AllJustified
<1> QED
  BY <1>1, <1>5, <1>6, <1>7, <1>8, <1>9, <1>10 DEF RequestsMove

LEMMA JustifiedAlways == Spec => []AllJustified
<1>1. ConsoleInit => AllJustified
  BY FreeJustified DEF ConsoleInit, Init, AllJustified
<1>2. Typed /\ AllJustified /\ [Next]_all => AllJustified'
  <2>1. UNCHANGED all /\ AllJustified => AllJustified'
    BY DEF all, allAccess, accessVars, history, AllJustified
  <2> QED
    BY <2>1, JustifiedStep
<1> QED
  BY <1>1, <1>2, ConsoleTyped, PTL DEF Spec

\* The claims a granted request was let through with, at a moment that had
\* its rights.
LEMMA GrantPermitted ==
  ASSUME Typed, NEW w \in Workers, Justified(req[w], past[w], now), req[w].pc = "granted"
  PROVE  \E m, n \in past[w] : \E table \in Readable(n.table) :
           Permitted(ClaimsWith(w, m.rights), table,
                     req[w].question.act, req[w].question.tgt)
<1>1. PICK m \in past[w] : m.rights = req[w].rights
  BY DEF Justified
<1>2. PICK n \in past[w] : n.table \in Tables /\
        \E table \in Readable(n.table) :
          Can(Bearer(req[w]), table, req[w].question.act, req[w].question.tgt)
  BY DEF Justified, Entitled
<1>8. PICK table \in Readable(n.table) :
        Can(Bearer(req[w]), table, req[w].question.act, req[w].question.tgt)
  BY <1>2
<1>3. table \in Tables
  BY <1>2 DEF Readable, Unset, Tables
<1>4. req[w] \in Requests /\ req[w].user \in Users
  BY DEF Typed, AccessTyped, RequestsTyped, RequestTyped
<1>5. Bearer(req[w]) \in Claims
  BY <1>4, AccessAssumption DEF Bearer, Claims, Requests, Rights
<1>6. req[w].question.act \in Actions /\ req[w].question.tgt \in Targets
  BY <1>4 DEF Requests, Question
<1>7. ClaimsWith(w, m.rights) = Bearer(req[w])
  BY <1>1 DEF ClaimsWith, Bearer
<1> QED
  BY <1>8, <1>3, <1>5, <1>6, <1>7, CanIsPermitted

\* However logouts, expiries, demotions and changes of permissions interleave
\* with a request, whatever it was let through to do it was entitled to at
\* some moment since it began.
THEOREM GrantsAlwaysJustified == Spec => []GrantsJustified
<1>1. Typed /\ AllJustified => GrantsJustified
  <2> SUFFICES ASSUME Typed, AllJustified PROVE GrantsJustified
    OBVIOUS
  <2>1. ASSUME NEW w \in Workers
        PROVE  /\ req[w].pc \notin {"free", "found"} => \E m \in past[w] : m.live
               /\ req[w].pc \in {"editing", "ruling"} =>
                    \E m \in past[w] : m.rights.role = "admin"
               /\ req[w].pc \in {"pinning", "bulk"} =>
                    \E m \in past[w] : m.rights.role = "teacher"
    BY DEF AllJustified, Justified
  <2>2. ASSUME NEW w \in Workers, req[w].pc = "granted"
        PROVE  \E m, n \in past[w] : \E table \in Readable(n.table) :
                 Permitted(ClaimsWith(w, m.rights), table,
                     req[w].question.act, req[w].question.tgt)
    BY <2>2, GrantPermitted DEF AllJustified
  <2> QED
    BY <2>1, <2>2 DEF GrantsJustified
<1> QED
  BY <1>1, ConsoleTyped, JustifiedAlways, PTL

-----------------------------------------------------------------------------
\* What a request holds is what it held, or the row there is: no step but its
\* own read gives a request a copy.
LEMMA HeldMoves ==
  ASSUME Typed, Next, NEW v \in Workers, held'[v].item # None
  PROVE  \/ held[v].item = held'[v].item /\ held[v].copy = held'[v].copy
         \/ held'[v].copy = content[held'[v].item]
<1> DEFINE Goal == \/ held[v].item = held'[v].item /\ held[v].copy = held'[v].copy
                   \/ held'[v].copy = content[held'[v].item]
<1>1. UNCHANGED contentVars => Goal
  BY DEF contentVars
<1>2. ASSUME NEW w \in Workers, NEW r, NEW h, Works(w, r, h)
      PROVE  Goal
  <2>1. held' = [held EXCEPT ![w] = h]
    BY <1>2 DEF Works
  <2>2. CASE v = w
    <3>1. held'[v] = h /\ h.item # None
      BY <2>1, <2>2 DEF Typed
    <3> QED
      BY <1>2, <2>2, <3>1 DEF Works
  <2>3. CASE v # w
    BY <2>1, <2>3 DEF Typed
  <2> QED
    BY <2>2, <2>3
<1> HIDE DEF Goal
<1>3. ASSUME NEW w \in Workers, Serve(w) PROVE Goal
  <2>1. ContentServe(w) => \E r, h : Works(w, r, h)
    BY ContentShape
  <2>2. \A b \in BOOLEAN : WritePin(w, b) => \E r, h : Works(w, r, h)
    BY PinShape
  <2>3. \A failed \in BOOLEAN : WriteItem(w, failed) => \E r, h : Works(w, r, h)
    BY BulkShape
  <2>4. Abort(w) /\ Hold(w, Empty) => \E r, h : Works(w, r, h)
    BY AnswerWorks DEF Abort, Hold
  <2> QED
    BY <1>1, <1>2, <1>3, <2>1, <2>2, <2>3, <2>4 DEF Serve
<1>4. CASE Crash
  <2>1. held'[v] = Empty
    BY <1>4 DEF Crash
  <2> QED
    BY <2>1, EmptyFits
<1> QED
  BY <1>1, <1>3, <1>4 DEF Next, Goal

\* An item changes only by a request of the teacher it belongs to that had
\* read it and is done with it, or by the seeding of a start.
THEOREM OnlyOwnersChange == Spec => OwnersOnly
<1>1. Typed /\ [Next]_all =>
        [\A i \in Items : content'[i] # content[i] =>
           \/ \E w \in Workers : /\ req[w].user = TeacherOf[i]
                                 /\ held[w].item = i /\ held'[w].item # i
           \/ content'[i] = SeedItem /\ \A w \in Workers : req'[w] = Free]_all
  <2> SUFFICES ASSUME Typed, Next, NEW i \in Items, content'[i] # content[i]
               PROVE  \/ \E w \in Workers : /\ req[w].user = TeacherOf[i]
                                             /\ held[w].item = i /\ held'[w].item # i
                      \/ content'[i] = SeedItem /\ \A w \in Workers : req'[w] = Free
    OBVIOUS
  <2>0. i # None
    BY ConsoleAssumption
  <2>1. ASSUME NEW w \in Workers, held[w].item \in Items,
               NEW c, content' = [content EXCEPT ![held[w].item] = c]
        PROVE  req[w].user = TeacherOf[i] /\ held[w].item = i
    <3>1. held[w].item = i
      BY <2>1 DEF Typed
    <3>2. HoldFits(req[w], held[w])
      BY DEF Typed
    <3> QED
      BY <2>0, <3>1, <3>2 DEF HoldFits
  <2>2. ASSUME NEW w \in Workers, Serve(w)
        PROVE  req[w].user = TeacherOf[i] /\ held[w].item = i /\ held'[w].item # i
    <3>1. content' # content
      OBVIOUS
    <3>2. ASSUME NEW b \in BOOLEAN, WritePin(w, b)
          PROVE  req[w].user = TeacherOf[i] /\ held[w].item = i /\ held'[w].item # i
      <4>1. Works(w, Free, Empty) /\ req[w].user = TeacherOf[i] /\ held[w].item = i
        BY <2>1, <3>2, PinShape
      <4>2. held'[w] = Empty
        BY <4>1 DEF Works, Typed
      <4> QED
        BY <2>0, <4>1, <4>2, EmptyFits
    <3>3. ASSUME NEW failed \in BOOLEAN, WriteItem(w, failed)
          PROVE  req[w].user = TeacherOf[i] /\ held[w].item = i /\ held'[w].item # i
      <4>1. PICK h : Works(w, req[w], h) /\ h.item = None
        BY <3>3, BulkShape
      <4>2. held'[w] = h
        BY <4>1 DEF Works, Typed
      <4>3. req[w].user = TeacherOf[i] /\ held[w].item = i
        BY <2>1, <3>3, BulkShape
      <4> QED
        BY <2>0, <4>1, <4>2, <4>3
    <3> QED
      BY <2>2, <3>1, <3>2, <3>3, ContentShape DEF Serve, contentVars
  <2>3. CASE Crash
    <3>1. PICK kept \in Kept : content' = Reseed(content, kept)
      BY <2>3 DEF Crash
    <3> QED
      BY <2>3, <3>1 DEF Crash, Restart, Reseed
  <2>4. CASE AccessEnv /\ UNCHANGED <<contentVars, itemHistory, memberHistory>>
    BY <2>4 DEF contentVars
  <2> QED
    BY <2>2, <2>3, <2>4 DEF Next
<1> QED
  BY <1>1, ConsoleTyped, PTL DEF Spec, OwnersOnly

-----------------------------------------------------------------------------
\* A request that edits a member holds the row there is, unless the row has
\* changed since it read it.
CopiesFresh ==
  \A w \in Workers : req[w].pc = "editing" /\ w \notin overtaken =>
    req[w].copy = users[req[w].member]

MembersStand == CopiesFresh /\ MembershipStands

LEMMA MembersInit == ConsoleInit => MembersStand
  BY FreeType DEF ConsoleInit, Init, InitHistory, MembersStand, CopiesFresh, MembershipStands

\* Only its own read makes a request one that edits.
LEMMA EditsMove ==
  ASSUME Typed, Next, NEW v \in Workers, req'[v].pc = "editing"
  PROVE  req'[v] = req[v] \/ req'[v].copy = users[req'[v].member]
<1>1. RequestsMove /\ req \in [Workers -> Requests]
  BY NextStep DEF Typed, AccessTyped, RequestsTyped
<1>2. ASSUME NEW w \in Workers, NEW r, req' = [req EXCEPT ![w] = r],
             r.pc = "editing" => r.copy = users[r.member]
      PROVE  req'[v] = req[v] \/ req'[v].copy = users[req'[v].member]
  BY <1>1, <1>2
<1>3. CASE \E w \in Workers, t \in Tokens, handler \in Traffic : Begin(w, t, handler)
  <2>1. PICK w \in Workers, t \in Tokens, handler \in Traffic : Begin(w, t, handler)
    BY <1>3
  <2> DEFINE r == [Free EXCEPT !.pc = "found", !.handler = handler, !.token = t,
                               !.user = sessions[t].user, !.expires = sessions[t].expires]
  <2>2. req' = [req EXCEPT ![w] = r] /\ r.pc # "editing"
    BY <2>1 DEF Begin, Free
  <2> HIDE DEF r
  <2> QED
    BY <1>2, <2>2
<1>4. CASE \E w \in Workers : \E r : Advances(w, r)
  <2>0. PICK w \in Workers : \E r : Advances(w, r)
    BY <1>4
  <2>1. PICK r : Advances(w, r)
    BY <2>0
  <2>2. req' = [req EXCEPT ![w] = r] /\ (r.pc = "editing" => r.copy = users[r.member])
    BY <2>1 DEF Advances
  <2> QED
    BY <1>2, <2>2
<1>5. CASE \E w \in Workers : \E r, h : Works(w, r, h)
  <2>0. PICK w \in Workers : \E r, h : Works(w, r, h)
    BY <1>5
  <2>1. PICK r, h : Works(w, r, h)
    BY <2>0
  <2>2. req' = [req EXCEPT ![w] = r] /\ r.pc # "editing"
    BY <2>1, FreeType DEF Works
  <2> QED
    BY <1>2, <2>2
<1>6. CASE \E w \in Workers : req' = [req EXCEPT ![w] = Free]
  BY <1>2, <1>6, FreeType
<1>7. CASE req' = req
  BY <1>7
<1>8. CASE req' = [w \in Workers |-> Free]
  BY <1>8, FreeType
<1> QED
  BY <1>1, <1>3, <1>4, <1>5, <1>6, <1>7, <1>8 DEF RequestsMove

LEMMA CopiesStay == Typed /\ CopiesFresh /\ Next => CopiesFresh'
<1> SUFFICES ASSUME Typed, CopiesFresh, Next, NEW v \in Workers,
                    req'[v].pc = "editing", v \notin overtaken'
             PROVE  req'[v].copy = users'[req'[v].member]
  BY DEF CopiesFresh
<1>1. v \notin overtaken /\ users'[req'[v].member] = users[req'[v].member]
  BY DEF Next, Remember
<1>2. CASE req'[v] = req[v]
  BY <1>1, <1>2 DEF CopiesFresh
<1>3. CASE req'[v].copy = users[req'[v].member]
  BY <1>1, <1>3
<1> QED
  BY <1>2, <1>3, EditsMove

\* An edit from the row there is stands; one from an older row does where it
\* names a role.
LEMMA EditStands ==
  ASSUME Typed, MembersStand, NEW w \in Workers, NEW e \in Edits,
         WriteMember(w, e), RememberEdit(w, e)
  PROVE  MembershipStands'
<1> DEFINE m == req[w].member
<1>1. /\ req[w].pc = "editing" /\ m \in Users
      /\ users' = [users EXCEPT ![m] = Edited(m, req[w].copy, e)]
  BY EditShape
<1>2. /\ asked' = [asked EXCEPT ![m] = [role |-> IF e.role = None THEN asked[m].role ELSE e.role,
                                        classes |-> e.classes]]
      /\ undone' = IF e.role # None THEN undone \ {m}
                   ELSE IF w \in overtaken THEN undone \cup {m}
                   ELSE undone
  BY <1>1 DEF RememberEdit, Typed
<1>3. w \notin overtaken => req[w].copy = users[m]
  BY <1>1 DEF MembersStand, CopiesFresh
<1>4. ASSUME NEW v \in Users \ undone' PROVE users'[v] = asked'[v]
  <2>1. CASE v # m
    <3>1. v \in Users \ undone
      BY <1>2, <1>4, <2>1
    <3>2. users'[v] = users[v] /\ asked'[v] = asked[v]
      BY <1>1, <1>2, <2>1 DEF Typed, AccessTyped, TablesTyped
    <3> QED
      BY <3>1, <3>2 DEF MembersStand, MembershipStands
  <2>2. CASE v = m
    <3>1. users'[v] = [role |-> IF e.role = None THEN req[w].copy.role ELSE e.role,
                       classes |-> e.classes]
      BY <1>1, <2>2 DEF Edited, Typed, AccessTyped, TablesTyped
    <3>2. asked'[v] = [role |-> IF e.role = None THEN asked[v].role ELSE e.role,
                       classes |-> e.classes]
      BY <1>2, <2>2 DEF Typed
    <3>3. CASE e.role # None
      BY <3>1, <3>2, <3>3
    <3>4. CASE e.role = None
      <4>1. w \notin overtaken /\ v \notin undone
        BY <1>2, <1>4, <2>2, <3>4
      <4>2. req[w].copy = asked[v]
        BY <1>3, <2>2, <4>1 DEF MembersStand, MembershipStands
      <4> QED
        BY <3>1, <3>2, <3>4, <4>2
    <3> QED
      BY <3>3, <3>4
  <2> QED
    BY <2>1, <2>2
<1> QED
  BY <1>4 DEF MembershipStands

LEMMA MembersStep == Typed /\ MembersStand /\ Next => MembersStand'
<1> SUFFICES ASSUME Typed, MembersStand, Next PROVE MembershipStands'
  BY CopiesStay DEF MembersStand
<1>1. UNCHANGED <<users, memberHistory>> => MembershipStands'
  BY DEF MembersStand, MembershipStands
<1>2. ASSUME NEW w \in Workers, Serve(w)
      PROVE  MembershipStands'
  <2>1. AccessServe(w) => UNCHANGED users
    BY ServeShape DEF Typed
  <2>2. ContentServe(w) => UNCHANGED users
    BY ContentShape DEF Works
  <2>3. \A b \in BOOLEAN : WritePin(w, b) => UNCHANGED users
    BY DEF WritePin
  <2>4. \A failed \in BOOLEAN : WriteItem(w, failed) => UNCHANGED users
    BY DEF WriteItem
  <2>5. Abort(w) => UNCHANGED users
    BY DEF Abort
  <2> QED
    BY <1>1, <1>2, <2>1, <2>2, <2>3, <2>4, <2>5, EditStands DEF Serve
<1>3. CASE AccessEnv /\ UNCHANGED <<contentVars, itemHistory, memberHistory>>
  BY <1>1, <1>3, EnvStep
<1>4. CASE Crash
  BY <1>1, <1>4 DEF Crash, Restart, MembershipStands
<1> QED
  BY <1>2, <1>3, <1>4 DEF Next

\* A member has the rights last asked for, however many edits overlap, but
\* for the role of one written back from a copy that was no longer the row.
THEOREM EditsStand == Spec => []MembershipStands
<1>1. Typed /\ MembersStand /\ [Next]_all => MembersStand'
  <2>1. UNCHANGED all /\ MembersStand => MembersStand'
    BY DEF all, allAccess, accessVars, history, MembersStand, CopiesFresh, MembershipStands
  <2> QED
    BY <2>1, MembersStep
<1>2. MembersStand => MembershipStands
  BY DEF MembersStand
<1> QED
  BY <1>1, <1>2, MembersInit, ConsoleTyped, PTL DEF Spec

-----------------------------------------------------------------------------
\* The same of the items: who holds one holds the row there is, unless the
\* row has changed since.
HoldsFresh ==
  \A w \in Workers : held[w].item # None /\ w \notin stale =>
    held[w].copy = content[held[w].item]

ItemsStand == HoldsFresh /\ ContentStands

LEMMA ItemsInit == ConsoleInit => ItemsStand
<1> SUFFICES ASSUME ConsoleInit PROVE ItemsStand
  OBVIOUS
<1>1. \A w \in Workers : held[w].item = None
  BY EmptyFits DEF ConsoleInit
<1> QED
  BY <1>1 DEF ConsoleInit, ItemsStand, HoldsFresh, ContentStands

LEMMA HoldsStay == Typed /\ HoldsFresh /\ Next => HoldsFresh'
<1> SUFFICES ASSUME Typed, HoldsFresh, Next, NEW v \in Workers,
                    held'[v].item # None, v \notin stale'
             PROVE  held'[v].copy = content'[held'[v].item]
  BY DEF HoldsFresh
<1>1. v \notin stale /\ content'[held'[v].item] = content[held'[v].item]
  BY DEF Next, RememberHolds
<1>2. CASE held[v].item = held'[v].item /\ held[v].copy = held'[v].copy
  BY <1>1, <1>2 DEF HoldsFresh
<1>3. CASE held'[v].copy = content[held'[v].item]
  BY <1>1, <1>3
<1> QED
  BY <1>2, <1>3, HeldMoves

\* A write from the row there is stands, and so does any deletion.
LEMMA WriteStands ==
  ASSUME Typed, ItemsStand, NEW w \in Workers, held[w].item \in Items, held[w].item # None,
         NEW c, content' = [content EXCEPT ![held[w].item] = c],
         NEW d, wanted' = [wanted EXCEPT ![held[w].item] = d],
         wanted[held[w].item] = held[w].copy => c = d,
         c = Absent => d = Absent,
         lost' = IF c = Absent THEN lost \ {held[w].item}
                 ELSE IF w \in stale THEN lost \cup {held[w].item}
                 ELSE lost
  PROVE  ContentStands'
<1> SUFFICES ASSUME NEW i \in Items \ lost' PROVE content'[i] = wanted'[i]
  BY DEF ContentStands
<1>1. CASE i # held[w].item
  <2>1. i \in Items \ lost
    BY <1>1
  <2>2. content'[i] = content[i] /\ wanted'[i] = wanted[i]
    BY <1>1 DEF Typed
  <2> QED
    BY <2>1, <2>2 DEF ItemsStand, ContentStands
<1>2. CASE i = held[w].item
  <2>1. content'[i] = c /\ wanted'[i] = d
    BY <1>2 DEF Typed
  <2>2. CASE c # Absent
    <3>1. w \notin stale /\ i \notin lost
      BY <1>2, <2>2
    <3>2. held[w].copy = content[i] /\ content[i] = wanted[i]
      BY <1>2, <3>1 DEF ItemsStand, HoldsFresh, ContentStands
    <3> QED
      BY <1>2, <2>1, <3>2
  <2> QED
    BY <2>1, <2>2
<1> QED
  BY <1>1, <1>2

LEMMA ItemsStep == Typed /\ ItemsStand /\ Next => ItemsStand'
<1> SUFFICES ASSUME Typed, ItemsStand, Next PROVE ContentStands'
  BY HoldsStay DEF ItemsStand
<1>1. UNCHANGED <<content, itemHistory>> => ContentStands'
  BY DEF ItemsStand, ContentStands
<1>2. ASSUME NEW w \in Workers, NEW b \in BOOLEAN, WritePin(w, b),
             RememberWrite(w, LAMBDA c : [c EXCEPT !.pinned = b])
      PROVE  ContentStands'
  <2>1. /\ held[w].copy \in Item /\ held[w].item \in Items /\ held[w].item # None
    BY <1>2, PinShape, ConsoleAssumption DEF WritePin, Typed, HoldFits
  <2> DEFINE i == held[w].item
             c == [held[w].copy EXCEPT !.pinned = b]
             d == IF wanted[i] = Absent THEN Absent ELSE [wanted[i] EXCEPT !.pinned = b]
  <2>2. content' = [content EXCEPT ![i] = c]
    BY <1>2, PinShape
  <2>3. wanted' = [wanted EXCEPT ![i] = d]
    BY <1>2, PinWanted DEF Typed
  <2>4. c # Absent
    <3>1. c \in Item
      BY <1>2, PinShape
    <3> QED
      BY <3>1, AbsentIsNoItem
  <2>5. lost' = IF c = Absent THEN lost \ {i}
                ELSE IF w \in stale THEN lost \cup {i} ELSE lost
    BY <1>2 DEF RememberWrite
  <2>6. wanted[i] = held[w].copy => c = d
    BY <2>1, AbsentIsNoItem
  <2> HIDE DEF c, d
  <2> QED
    BY <2>1, <2>2, <2>3, <2>4, <2>5, <2>6, WriteStands
<1>3. ASSUME NEW w \in Workers, WriteItem(w, FALSE),
             RememberWrite(w, LAMBDA c : Bulked(c, held[w].action))
      PROVE  ContentStands'
  <2>1. /\ held[w].copy \in Item /\ held[w].item \in Items /\ held[w].item # None
    BY <1>3, BulkShape, ConsoleAssumption DEF WriteItem, Typed, HoldFits
  <2> DEFINE i == held[w].item
             c == Bulked(held[w].copy, held[w].action)
             d == IF wanted[i] = Absent THEN Absent ELSE Bulked(wanted[i], held[w].action)
  <2>2. content' = [content EXCEPT ![i] = c]
    BY <1>3, BulkShape
  <2>3. held[w].action \in {"delete", "publish", "unpublish", "edit"}
    BY <1>3, BulkAction
  <2>4. wanted' = [wanted EXCEPT ![i] = d]
    BY <1>3, <2>3, BulkWanted DEF Typed
  <2>5. lost' = IF c = Absent THEN lost \ {i}
                ELSE IF w \in stale THEN lost \cup {i} ELSE lost
    BY <1>3 DEF RememberWrite
  <2>6. wanted[i] = held[w].copy => c = d
    BY <2>1, AbsentIsNoItem
  <2>7. c = Absent => d = Absent
    <3>1. held[w].action # "delete" => c \in Item
      BY <2>1, <2>3 DEF Bulked, Item
    <3>2. held[w].action = "delete" => d = Absent
      BY DEF Bulked
    <3> QED
      BY <3>1, <3>2, AbsentIsNoItem
  <2> HIDE DEF c, d
  <2> QED
    BY <2>1, <2>2, <2>4, <2>5, <2>6, <2>7, WriteStands
<1>4. ASSUME NEW w \in Workers, Serve(w)
      PROVE  ContentStands'
  <2>1. ContentServe(w) => UNCHANGED content
    BY ContentShape
  <2>2. WriteItem(w, TRUE) => UNCHANGED content
    BY DEF WriteItem
  <2> QED
    BY <1>1, <1>2, <1>3, <1>4, <2>1, <2>2 DEF Serve, contentVars
<1>5. CASE AccessEnv /\ UNCHANGED <<contentVars, itemHistory, memberHistory>>
  BY <1>1, <1>5 DEF contentVars
<1>6. CASE Crash
  <2>1. PICK kept \in Kept : /\ content' = Reseed(content, kept)
                             /\ wanted' = Reseed(wanted, kept)
                             /\ lost' = lost \cap kept
    BY <1>6 DEF Crash
  <2> QED
    BY <2>1 DEF Reseed, ItemsStand, ContentStands
<1> QED
  BY <1>4, <1>5, <1>6 DEF Next

\* Every write of an item that the store took since the item was last seeded
\* is in effect, however many requests overlap, but for an item written back
\* from a copy that was no longer the row.
THEOREM WritesStand == Spec => []ContentStands
<1>1. Typed /\ ItemsStand /\ [Next]_all => ItemsStand'
  <2>1. UNCHANGED all /\ ItemsStand => ItemsStand'
    BY DEF all, contentVars, consoleHistory, ItemsStand, HoldsFresh, ContentStands
  <2> QED
    BY <2>1, ItemsStep
<1>2. ItemsStand => ContentStands
  BY DEF ItemsStand
<1> QED
  BY <1>1, <1>2, ItemsInit, ConsoleTyped, PTL DEF Spec
=============================================================================
