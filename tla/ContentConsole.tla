--------------------------- MODULE ContentConsole ---------------------------
(***************************************************************************)
(* The teacher content console (internal/http/handlers/teacher.go) on top  *)
(* of AccessControl: the same requests, with two more handlers, over the   *)
(* content_items table.  Both write back a whole copy of the item they     *)
(* read, in a store call of its own.                                       *)
(*                                                                         *)
(*   TeacherPin    ... -> ReadPin -> WritePin                              *)
(*   TeacherBulk   ... -> StartBulk -> (ReadItem -> WriteItem) per id      *)
(*                                                                         *)
(* No handler creates an item: the seeded ones are all there ever are.     *)
(* Seeding writes them again whenever the process starts, over either      *)
(* store: what teachers did to them, deletions too, does not outlive it.   *)
(* wanted, lost and stale are history variables.                           *)
(***************************************************************************)
EXTENDS AccessControl

CONSTANTS
  Items,       \* ids of the seeded content items
  TeacherOf,   \* [Items -> Users], ContentItem.TeacherID, never updated
  BulkBodies   \* [action, ids] bodies of TeacherBulk

Item == [pinned : BOOLEAN, published : BOOLEAN, text : {"seeded", "edited"}]
Bulk == [action : {"delete", "publish", "unpublish", "edit"}, ids : Seq(Items)]

ASSUME ConsoleAssumption ==
  /\ None \notin Items
  /\ TeacherOf \in [Items -> Users]
  /\ BulkBodies \subseteq Bulk

VARIABLES
  content,   \* the content_items table, Absent where there is no row
  held,      \* what each worker holds: the item it read, what is left to do
  wanted,    \* history: each item with every write so far applied in turn
  lost,      \* history: items written back from an old copy
  stale      \* history: workers holding an item whose row has changed since
             \* they read it

contentVars == <<content, held>>
itemHistory == <<wanted, lost>>
consoleHistory == <<itemHistory, stale>>
all == <<allAccess, contentVars, consoleHistory>>

Absent == [absent |-> TRUE]
SeedItem == [pinned |-> FALSE, published |-> TRUE, text |-> "seeded"]
SeedContent == [i \in Items |-> SeedItem]
Empty == [item |-> None, copy |-> Absent, action |-> "none", ids |-> << >>]

Hold(w, h) == held' = [held EXCEPT ![w] = h]

ConsoleInit ==
  /\ Init /\ InitHistory
  /\ content = SeedContent
  /\ held = [w \in Workers |-> Empty]
  /\ wanted = SeedContent
  /\ lost = {}
  /\ stale = {}

\* Mutant: the owner of the item is not compared with the caller.
MineOrAny(w, i) == TRUE

\* The item belongs to the teacher the request is from.
Mine(w, i) == TeacherOf[i] = req[w].user

Teacher(w) == req[w].rights.role = "teacher"

\* What one pass of TeacherBulk makes of an item.
Bulked(c, action) ==
  CASE action = "delete" -> Absent
    [] action = "publish" -> [c EXCEPT !.published = TRUE]
    [] action = "unpublish" -> [c EXCEPT !.published = FALSE]
    [] action = "edit" -> [c EXCEPT !.text = "edited"]

\* Mutant: the SET list of the upsert leaves out the published column.
PutUnpublished(i, c) ==
  content' = [content EXCEPT ![i] =
                IF c = Absent \/ @ = Absent THEN c ELSE [c EXCEPT !.published = content[i].published]]

\* UpsertContent inserts the row when it is not there; DeleteContent of a row
\* that is not there does nothing.
Put(i, c) == content' = [content EXCEPT ![i] = c]

-----------------------------------------------------------------------------
ReadPin(w) ==
  /\ At(w, "authed", "pin")
  /\ Teacher(w)
  /\ \E i \in Items :
       /\ content[i] # Absent
       /\ Mine(w, i)
       /\ Hold(w, [Empty EXCEPT !.item = i, !.copy = content[i]])
  /\ Move(w, "pinning")
  /\ UNCHANGED <<users, perms, sessions, issued, now, begun, content>>

WritePin(w, b) ==
  /\ req[w].pc = "pinning"
  /\ Put(held[w].item, [held[w].copy EXCEPT !.pinned = b])
  /\ Hold(w, Empty)
  /\ Answer(w)
  /\ UNCHANGED <<users, perms, sessions, issued, now, begun>>

StartBulk(w) ==
  /\ At(w, "authed", "bulk")
  /\ Teacher(w)
  /\ \E body \in BulkBodies :
       Hold(w, [Empty EXCEPT !.action = body.action, !.ids = body.ids])
  /\ Move(w, "bulk")
  /\ UNCHANGED <<users, perms, sessions, issued, now, begun, content>>

\* The ids still to come.
Remaining(w) == Tail(held[w].ids)

\* ContentByID for the next id: a missing or foreign item is skipped.  (A
\* read that fails ends the request: Abort.)
ReadItem(w) ==
  /\ req[w].pc = "bulk"
  /\ held[w].ids # << >>
  /\ held[w].item = None
  /\ LET i == Head(held[w].ids)
     IN IF content[i] # Absent /\ Mine(w, i)
        THEN Hold(w, [held[w] EXCEPT !.item = i, !.copy = content[i]])
        ELSE Hold(w, [held[w] EXCEPT !.ids = Remaining(w)])
  /\ UNCHANGED <<users, perms, sessions, issued, now, req, begun, content>>

\* DeleteContent or UpsertContent, whose error is ignored, then the audit
\* entry (AuditChain) and the next id.
WriteItem(w, failed) ==
  /\ req[w].pc = "bulk"
  /\ held[w].item # None
  /\ failed => Store = "postgres"
  /\ IF failed THEN UNCHANGED content
     ELSE Put(held[w].item, Bulked(held[w].copy, held[w].action))
  /\ Hold(w, [held[w] EXCEPT !.item = None, !.copy = Absent, !.ids = Remaining(w)])
  /\ UNCHANGED <<users, perms, sessions, issued, now, req, begun>>

FinishBulk(w) ==
  /\ req[w].pc = "bulk"
  /\ held[w].ids = << >>
  /\ Hold(w, Empty)
  /\ Answer(w)
  /\ UNCHANGED <<users, perms, sessions, issued, now, begun, content>>

\* 403 for anyone but a teacher or for a foreign item, 404 for a missing one,
\* 400 for an action TeacherBulk does not know.
ForbidContent(w) ==
  /\ At(w, "authed", "pin") \/ At(w, "authed", "bulk")
  /\ Answer(w)
  /\ UNCHANGED <<users, perms, sessions, issued, now, begun, content, held>>

ContentServe(w) ==
  \/ ReadPin(w)
  \/ StartBulk(w)
  \/ ReadItem(w)
  \/ FinishBulk(w)
  \/ ForbidContent(w)

-----------------------------------------------------------------------------
\* History.  The write of worker w, applied to what was wanted so far.  A
\* deletion needs no copy; any other write is as good as the copy it changes.
RememberWrite(w, Op(_)) ==
  LET i == held[w].item
  IN /\ wanted' = [wanted EXCEPT ![i] = IF @ = Absent THEN Absent ELSE Op(@)]
     /\ lost' = IF Op(held[w].copy) = Absent THEN lost \ {i}
                ELSE IF w \in stale THEN lost \cup {i}
                ELSE lost

RememberHolds ==
  stale' = {w \in Workers :
              /\ held'[w].item # None
              /\ w \in stale \/ content'[held'[w].item] # content[held'[w].item]}

\* What a start leaves of the items: seeding upserts each of them, whatever
\* the store, and ignores an upsert that fails.  Over Postgres none is written
\* where HARBORCLASS_SEED is off.
Kept == IF Store = "memory" THEN {{}} ELSE SUBSET Items

Reseed(table, kept) == [i \in Items |-> IF i \in kept THEN table[i] ELSE SeedItem]

Crash ==
  /\ Restart
  /\ held' = [w \in Workers |-> Empty]
  /\ \E kept \in Kept :
       /\ content' = Reseed(content, kept)
       /\ wanted' = Reseed(wanted, kept)
       /\ lost' = lost \cap kept
  /\ IF Store = "memory" THEN asked' = SeedUsers /\ undone' = {}
     ELSE UNCHANGED memberHistory

Serve(w) ==
  \/ AccessServe(w) /\ UNCHANGED <<contentVars, itemHistory, memberHistory>>
  \/ ContentServe(w) /\ UNCHANGED <<itemHistory, memberHistory>>
  \/ \E e \in Edits :
       WriteMember(w, e) /\ RememberEdit(w, e) /\ UNCHANGED <<contentVars, itemHistory>>
  \/ \E b \in BOOLEAN :
       /\ WritePin(w, b) /\ UNCHANGED memberHistory
       /\ RememberWrite(w, LAMBDA c : [c EXCEPT !.pinned = b])
  \/ /\ WriteItem(w, FALSE) /\ UNCHANGED memberHistory
     /\ RememberWrite(w, LAMBDA c : Bulked(c, held[w].action))
  \/ WriteItem(w, TRUE) /\ UNCHANGED <<itemHistory, memberHistory>>
  \/ Abort(w) /\ Hold(w, Empty) /\ UNCHANGED <<content, itemHistory, memberHistory>>

Next ==
  /\ \/ AccessEnv /\ UNCHANGED <<contentVars, itemHistory, memberHistory>>
     \/ \E w \in Workers : Serve(w)
     \/ Crash
  /\ Remember /\ RememberHolds

Spec == ConsoleInit /\ [][Next]_all

-----------------------------------------------------------------------------
\* Type invariant.  A session holds a user's name and an expiry; a request in
\* flight holds the copies it has read.
TypeOK ==
  /\ users \in [Users -> Rights]
  /\ perms \in [Orgs -> Tables]
  /\ sessions \in [Tokens -> [user : Users, expires : Nat] \cup {NoSession}]
  /\ issued \subseteq Tokens
  /\ now \in 0 .. MaxTime
  /\ \A w \in Workers :
       req[w] # Free => req[w].user \in Users /\ req[w].token \in issued
  /\ content \in [Items -> Item \cup {Absent}]
  /\ \A w \in Workers :
       held[w].item # None => held[w].item \in Items /\ held[w].copy \in Item

\* However logouts, expiries, demotions and permission changes interleave with
\* a request, whatever it has been let through to do it was entitled to at
\* some moment since it began: its session was in force, its user had the
\* role, and for h.can the stored permissions of some moment allowed that
\* role the action.  (The role and the permissions may be of two different
\* moments, two reads; a failed read of the permissions counts as none.)
GrantsJustified ==
  \A w \in Workers :
    /\ req[w].pc \notin {"free", "found"} => \E m \in past[w] : m.live
    /\ req[w].pc \in {"editing", "ruling"} =>
         \E m \in past[w] : m.rights.role = "admin"
    /\ req[w].pc \in {"pinning", "bulk"} =>
         \E m \in past[w] : m.rights.role = "teacher"
    /\ req[w].pc = "granted" =>
         \E m, n \in past[w] : \E table \in Readable(n.table) :
           Permitted(ClaimsWith(w, m.rights), table,
                     req[w].question.act, req[w].question.tgt)

\* A logged-out or expired token, or one of a process that has restarted, is
\* never in force again: nothing a request still in flight does brings its
\* entry back (Resolve and Logout run with the lock released in between).
TokensStayOut ==
  [][\A t \in issued : (sessions[t] = NoSession => sessions'[t] = NoSession)
                        /\ (sessions'[t] # NoSession => sessions'[t] = sessions[t])]_all

\* A member has the rights last asked for, edits overlapping as they may, but
\* for the role of one edited without naming a role by a request whose copy
\* was no longer the row: AdminMembership writes back the role it read.
\* The next edit that names a role puts that right.
MembershipStands == \A v \in Users \ undone : users[v] = asked[v]

\* Every pin, edit, publication and deletion of an item that the store took
\* since it was last seeded is in effect, requests overlapping as they may,
\* but for an item that was pinned or edited by a request whose copy was no
\* longer the row: TeacherPin and TeacherBulk write back whole copies and can
\* undo what another did in between, or bring a deleted item back.
ContentStands == \A i \in Items \ lost : content[i] = wanted[i]

\* An item changes only by a request of the teacher it belongs to, one that
\* had read that item and is done with it then, or by the seeding of a
\* start, which makes it the seeded item.
OwnersOnly ==
  [][\A i \in Items : content'[i] # content[i] =>
       \/ \E w \in Workers : /\ req[w].user = TeacherOf[i]
                             /\ held[w].item = i /\ held'[w].item # i
       \/ content'[i] = SeedItem /\ \A w \in Workers : req'[w] = Free]_all
=============================================================================
