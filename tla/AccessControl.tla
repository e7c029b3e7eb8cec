--------------------------- MODULE AccessControl ---------------------------
(***************************************************************************)
(* Sessions, users and stored permissions: internal/auth/auth.go, the      *)
(* middleware that guards every route, and the two admin handlers that     *)
(* change what a user may do.  A request is a goroutine (a worker) that    *)
(* resolves its token in two steps, then works with the copy of the user   *)
(* it read; sessions live in the memory of the process and are lost when   *)
(* it restarts.  Seeding runs at every start: with the Memory store users  *)
(* and permissions go back to the seeded ones; over Postgres it skips the  *)
(* users that are there and has no permissions, so both tables stay.       *)
(*                                                                         *)
(*   every request    Begin -> Resolve -> ...                              *)
(*   Logout           ... -> EndSession                                    *)
(*   h.can handlers   ... -> Ask -> Done                                   *)
(*   AdminMembership  ... -> ReadMember -> WriteMember                     *)
(*   AdminPermissions ... -> ReadRules -> WriteRule, once per row          *)
(*                                                                         *)
(* past, asked, undone and overtaken are history: no action reads them.    *)
(* ContentConsole adds handlers and puts the steps together.               *)
(***************************************************************************)
EXTENDS Scope, Integers, Sequences

CONSTANTS
  OrgOf,        \* [Users -> Orgs \cup {None}], User.OrgID, never updated
  SeedUsers,    \* [Users -> Rights], the users at start-up
  Tokens,       \* tokens that newToken may return, each at most once
  Workers,      \* requests in flight at the same time
  Store,        \* "memory" or "postgres"
  TTL,          \* life of a session, in ticks (12 hours)
  Traffic,      \* the handlers the clients of this instance call
  Asks,         \* [act, tgt] pairs that requests ask h.can about
  Edits,        \* [role, classes] bodies of AdminMembership, role or None
  RuleLists,    \* sequences of [act, roles], bodies of AdminPermissions; an
                \* empty one changes nothing
  MaxTime,      \* bound: the clock stops here
  MaxRequests   \* bound: number of requests begun

AccessHandlers == {"logout", "can", "membership", "permissions"}

Rights == [role : Roles, classes : SUBSET Classes]
Edit == [role : Roles \cup {None}, classes : SUBSET Classes]
Rule == [act : Actions, roles : SUBSET Listed]
Question == [act : Actions, tgt : Targets]

ASSUME AccessAssumption ==
  /\ OrgOf \in [Users -> Orgs \cup {None}]
  /\ SeedUsers \in [Users -> Rights]
  /\ None \notin Roles
  /\ Store \in {"memory", "postgres"}
  /\ TTL \in Nat /\ MaxTime \in Nat /\ MaxRequests \in Nat
  /\ Asks \subseteq Question
  /\ Edits \subseteq Edit
  /\ RuleLists \subseteq Seq(Rule) \ {<< >>}

VARIABLES
  users,     \* the users table: role and classes of each
  perms,     \* the permissions table of each organisation
  sessions,  \* Service.sessions, NoSession where there is no entry
  issued,    \* tokens handed out so far
  now,       \* time.Now
  req,       \* the request each worker serves
  begun,     \* number of requests begun
  past,      \* history: what held at some moment of each request
  asked,     \* history: the rights last asked for of each user
  undone,    \* history: users whose role was written back from an old copy
  overtaken  \* history: workers editing a member whose row has changed since
             \* they read it

accessVars == <<users, perms, sessions, issued, now, req, begun>>
memberHistory == <<asked, undone>>
history == <<past, memberHistory, overtaken>>
allAccess == <<accessVars, history>>

NoSession == [user |-> None, expires |-> 0]
NoRights == [role |-> "student", classes |-> {}]
Unset == [act \in Actions |-> {}]

NoQuestion == [act |-> "view_sessions",
               tgt |-> [org |-> None, class |-> None, owner |-> None]]

Free == [pc |-> "free", handler |-> "none", token |-> None, user |-> None,
         expires |-> 0, rights |-> NoRights, member |-> None,
         copy |-> NoRights, rules |-> << >>, question |-> NoQuestion]

\* models.User as a handler holds it: the row it read, not the row there is.
ClaimsWith(w, rights) == [id |-> req[w].user, role |-> rights.role,
                          org |-> OrgOf[req[w].user], classes |-> rights.classes]
ClaimsOf(w) == ClaimsWith(w, req[w].rights)

At(w, pc, handler) == req[w].pc = pc /\ req[w].handler = handler
Move(w, pc) == req' = [req EXCEPT ![w].pc = pc]
Answer(w) == req' = [req EXCEPT ![w] = Free]

Init ==
  /\ users = SeedUsers
  /\ perms = [org \in Orgs |-> Unset]
  /\ sessions = [t \in Tokens |-> NoSession]
  /\ issued = {}
  /\ now = 0
  /\ req = [w \in Workers |-> Free]
  /\ begun = 0

-----------------------------------------------------------------------------
\* Service.Login with the right password.  The user row it reads is used for
\* the reply only; the session keeps the name.
Login(u) ==
  /\ \E t \in Tokens \ issued :
       /\ sessions' = [sessions EXCEPT ![t] = [user |-> u, expires |-> now + TTL]]
       /\ issued' = issued \cup {t}
  /\ UNCHANGED <<users, perms, now, req, begun>>

\* RequireAuth and the first half of Resolve: the entry is copied under the
\* read lock.  A token without an entry answers 401 and changes nothing.
Begin(w, t, handler) ==
  /\ req[w].pc = "free"
  /\ handler \in Traffic
  /\ begun < MaxRequests
  /\ begun' = begun + 1
  /\ sessions[t] # NoSession
  /\ req' = [req EXCEPT ![w] = [Free EXCEPT !.pc = "found", !.handler = handler,
                                !.token = t, !.user = sessions[t].user,
                                !.expires = sessions[t].expires]]
  /\ UNCHANGED <<users, perms, sessions, issued, now>>

Expired(w) == now > req[w].expires

\* Mutant: the rights are those the user had at start-up.
RowReadOnce(u) == SeedUsers[u]

\* UserByUsername.
RowOf(u) == users[u]

\* Mutant: a session in use is renewed.
ResolveRenews(w) ==
  /\ req[w].pc = "found"
  /\ sessions' = [sessions EXCEPT ![req[w].token] =
                     [user |-> req[w].user, expires |-> now + TTL]]
  /\ req' = [req EXCEPT ![w].pc = "authed", ![w].rights = RowOf(req[w].user)]
  /\ UNCHANGED <<users, perms, issued, now, begun>>

\* The rest of Resolve, with no lock held: an expired entry is removed (by
\* its token, whatever happened to it since), else the user's row is read.
Resolve(w) ==
  /\ req[w].pc = "found"
  /\ IF Expired(w)
     THEN /\ sessions' = [sessions EXCEPT ![req[w].token] = NoSession]
          /\ Answer(w)
     ELSE /\ req' = [req EXCEPT ![w].pc = "authed", ![w].rights = RowOf(req[w].user)]
          /\ UNCHANGED sessions
  /\ UNCHANGED <<users, perms, issued, now, begun>>

\* Logout.
EndSession(w) ==
  /\ At(w, "authed", "logout")
  /\ sessions' = [sessions EXCEPT ![req[w].token] = NoSession]
  /\ Answer(w)
  /\ UNCHANGED <<users, perms, issued, now, begun>>

\* The permissions stored for the caller's organisation, none for a caller of
\* no organisation; and what ListPermissions makes of them, nothing if it fails.
TableOf(w) ==
  IF OrgOf[req[w].user] = None THEN Unset ELSE perms[OrgOf[req[w].user]]

Readable(table) == {table} \cup (IF Store = "postgres" THEN {Unset} ELSE {})

\* h.can, called by a handler that answers 403 when it returns false.
Ask(w) ==
  /\ At(w, "authed", "can")
  /\ \E q \in Asks, table \in Readable(TableOf(w)) :
       IF Can(ClaimsOf(w), table, q.act, q.tgt)
       THEN req' = [req EXCEPT ![w].pc = "granted", ![w].question = q]
       ELSE Answer(w)
  /\ UNCHANGED <<users, perms, sessions, issued, now, begun>>

Done(w) ==
  /\ req[w].pc = "granted"
  /\ Answer(w)
  /\ UNCHANGED <<users, perms, sessions, issued, now, begun>>

\* AdminMembership: only admins, only members of their own organisation.
MayEdit(w, v) == req[w].rights.role = "admin" /\ OrgOf[v] = OrgOf[req[w].user]

ReadMember(w) ==
  /\ At(w, "authed", "membership")
  /\ \E v \in Users :
       /\ MayEdit(w, v)
       /\ req' = [req EXCEPT ![w].pc = "editing", ![w].member = v,
                             ![w].copy = RowOf(v)]
  /\ UNCHANGED <<users, perms, sessions, issued, now, begun>>

\* Mutants: a body that names no role stores an empty one, or that of a new
\* user.
EditedBlank(v, copy, e) == e
EditedToSeed(v, copy, e) == [role |-> IF e.role = None THEN SeedUsers[v].role ELSE e.role,
                             classes |-> e.classes]

\* What UpdateUser is given: the copy with the classes and, if the body
\* names one, the role replaced.
Edited(v, copy, e) == [role |-> IF e.role = None THEN copy.role ELSE e.role,
                       classes |-> e.classes]

\* UpdateUser.
WriteMember(w, e) ==
  /\ req[w].pc = "editing"
  /\ users' = [users EXCEPT ![req[w].member] = Edited(req[w].member, req[w].copy, e)]
  /\ Answer(w)
  /\ UNCHANGED <<perms, sessions, issued, now, begun>>

\* AdminPermissions: only admins, for their own organisation.
ReadRules(w) ==
  /\ At(w, "authed", "permissions")
  /\ req[w].rights.role = "admin"
  /\ OrgOf[req[w].user] # None
  /\ \E list \in RuleLists :
       req' = [req EXCEPT ![w].pc = "ruling", ![w].rules = list]
  /\ UNCHANGED <<users, perms, sessions, issued, now, begun>>

\* One pass of the loop: UpsertPermission, its own store call.
WriteRule(w) ==
  /\ req[w].pc = "ruling"
  /\ LET rule == Head(req[w].rules)
     IN perms' = [perms EXCEPT ![OrgOf[req[w].user]][rule.act] = rule.roles]
  /\ IF Len(req[w].rules) = 1 THEN Answer(w)
     ELSE req' = [req EXCEPT ![w].rules = Tail(@)]
  /\ UNCHANGED <<users, sessions, issued, now, begun>>

\* Answered 400, 403 or 404 before anything was written.
Forbid(w) ==
  /\ At(w, "authed", "membership") \/ At(w, "authed", "permissions")
       \/ req[w].pc = "editing"
  /\ Answer(w)
  /\ UNCHANGED <<users, perms, sessions, issued, now, begun>>

\* Postgres only: a statement fails or the request's context ends.
Abort(w) ==
  /\ Store = "postgres"
  /\ req[w].pc # "free"
  /\ Answer(w)
  /\ UNCHANGED <<users, perms, sessions, issued, now, begun>>

Tick ==
  /\ now < MaxTime
  /\ now' = now + 1
  /\ UNCHANGED <<users, perms, sessions, issued, req, begun>>

\* The process restarts: every session and every request is gone.  Seeding
\* leaves a user alone who is there, so only the Memory store loses edits.
Restart ==
  /\ sessions' = [t \in Tokens |-> NoSession]
  /\ req' = [w \in Workers |-> Free]
  /\ IF Store = "memory"
     THEN users' = SeedUsers /\ perms' = [org \in Orgs |-> Unset]
     ELSE UNCHANGED <<users, perms>>
  /\ UNCHANGED <<issued, now, begun>>

\* What a request does between Begin and its answer, but for WriteMember,
\* Abort and Restart, which other variables follow.
AccessServe(w) ==
  \/ Resolve(w)
  \/ EndSession(w)
  \/ Ask(w)
  \/ Done(w)
  \/ ReadMember(w)
  \/ ReadRules(w)
  \/ WriteRule(w)
  \/ Forbid(w)

AccessEnv ==
  \/ \E u \in Users : Login(u)
  \/ \E w \in Workers, t \in Tokens, h \in Traffic : Begin(w, t, h)
  \/ Tick

-----------------------------------------------------------------------------
\* History.  What is true at this moment of worker w's request: whether its
\* session is in force, its user's rights, its organisation's permissions.
Moment(w) ==
  LET r == req[w]
  IN [live |-> sessions[r.token] = [user |-> r.user, expires |-> r.expires]
                 /\ now <= r.expires,
      rights |-> users[r.user],
      table |-> TableOf(w)]

InitHistory ==
  /\ past = [w \in Workers |-> {}]
  /\ asked = SeedUsers
  /\ undone = {}
  /\ overtaken = {}

\* Every step remembers its moment, and whose copy of a member it made old.
Remember ==
  /\ past' = [w \in Workers |->
                IF req'[w].pc = "free" THEN {} ELSE past[w] \cup {Moment(w)'}]
  /\ overtaken' = {w \in Workers :
                     /\ req'[w].pc = "editing"
                     /\ w \in overtaken \/ users'[req'[w].member] # users[req'[w].member]}

\* The rights body e asks for, of a member who so far was asked to have r.  A
\* body without a role writes the role of the copy, whatever became of it.
RememberEdit(w, e) ==
  LET v == req[w].member
  IN /\ asked' = [asked EXCEPT ![v] = [role |-> IF e.role = None THEN @.role ELSE e.role,
                                       classes |-> e.classes]]
     /\ undone' = IF e.role # None THEN undone \ {v}
                  ELSE IF w \in overtaken THEN undone \cup {v}
                  ELSE undone
=============================================================================
