-------------------------- MODULE RecordWorkflows --------------------------
(***************************************************************************)
(* The records that move through statuses: pets, CMS content, rescues,     *)
(* staff memberships and invitations, foster placements, home visits,      *)
(* chats, moderation reports and sanctions, swipe sessions, favourites.    *)
(* Each handler looks at a row and then writes it; what differs is what    *)
(* protects the row in between:                                            *)
(*   - SELECT ... FOR UPDATE, with the check made on the locked row;       *)
(*   - a condition or a unique index in the writing statement;             *)
(*   - nothing: the check was made on a row read earlier (Unguarded).      *)
(*                                                                         *)
(* kind says which record a behaviour is about, and its rows have one owner *)
(* (MaxRows): records of different services or owners share nothing, and no *)
(* look-up finds another owner's.  A transaction's statements that follow its     *)
(* FOR UPDATE are one step, as its lock keeps every other writer out; a    *)
(* statement that commits on its own is one step.  Readers do not wait.    *)
(***************************************************************************)
EXTENDS Integers, Sequences, FiniteSets

CONSTANTS Requests,   \* handler calls, on any replicas
          MaxRows,    \* rows one owner can get: a pet of placements, an
                      \* application of visits, an application and a pair of
                      \* participants of chats, a user of memberships and
                      \* swipe sessions, an address of invitations
          NoOne       \* holder of a lock nobody holds

ASSUME WorkflowAssumption ==
  MaxRows \in Nat \ {0} /\ NoOne \notin Requests

VARIABLES kind,      \* the kind of record
          status,    \* status of each row
          deleted,   \* rows with deleted_at set
          version,   \* version of pets and rescues, current_version of content
          count,     \* pets.favorite_count
          lock,      \* which transaction holds the row lock
          req,       \* where each call is and what it has read
          history,   \* committed writes, with what the code noted of them
          stale,     \* calls whose reading another call has overtaken
          missed,    \* rows opened since the call looked, until it is done
          raced      \* pairs of rows of which one was opened by a call that
                     \* had looked before the other was

rowVars == <<status, deleted, version, count>>
ghostVars == <<history, stale>>
raceVars == <<missed, raced>>
vars == <<kind, rowVars, lock, req, ghostVars, raceVars>>

Rows == 1..MaxRows

-----------------------------------------------------------------------------
(* The transition tables of the code. *)

PetMoves ==
  [available       |-> {"pending", "foster", "medical_hold", "behavioral_hold",
                        "not_available", "deceased"},
   pending         |-> {"available", "adopted", "not_available", "deceased"},
   adopted         |-> {"available", "not_available", "deceased"},
   foster          |-> {"available", "adopted", "medical_hold",
                        "not_available", "deceased"},
   medical_hold    |-> {"available", "behavioral_hold", "not_available", "deceased"},
   behavioral_hold |-> {"available", "medical_hold", "not_available", "deceased"},
   not_available   |-> {"available", "deceased"},
   deceased        |-> {}]

ContentMoves ==
  [draft     |-> {"published", "archived"},
   published |-> {"draft", "archived"},
   scheduled |-> {"published", "draft", "archived"},
   archived  |-> {"draft"}]

RescueMoves ==
  [pending   |-> {"verified", "rejected"},
   verified  |-> {"suspended", "inactive"},
   suspended |-> {"verified", "inactive"},
   inactive  |-> {"verified"},
   rejected  |-> {"pending"}]

VisitMoves ==
  [scheduled   |-> {"scheduled", "in_progress", "cancelled"},
   in_progress |-> {"in_progress", "completed", "cancelled"},
   completed   |-> {},
   cancelled   |-> {}]

\* The report handlers have no table: any report may be assigned, resolved,
\* dismissed or escalated.
ReportMoves ==
  [s \in {"pending", "under_review", "resolved", "dismissed", "escalated"} |->
     {"under_review", "resolved", "dismissed", "escalated"}]

ChatMoves ==
  [s \in {"active", "locked", "archived"} |-> {"active", "locked", "archived"} \ {s}]

\* 'active' to 'active' is a swipe; 'open' is an invitation with used = false.
Moves ==
  [pet        |-> PetMoves,
   content    |-> ContentMoves,
   rescue     |-> RescueMoves,
   visit      |-> VisitMoves,
   report     |-> ReportMoves,
   sanction   |-> [imposed |-> {"appealed"}, appealed |-> {}],
   foster     |-> [active |-> {"completed", "cancelled"},
                   completed |-> {}, cancelled |-> {}],
   invitation |-> [open |-> {"used", "cancelled"}, used |-> {}, cancelled |-> {}],
   session    |-> [active |-> {"active", "ended"}, ended |-> {}],
   chat       |-> ChatMoves,
   membership |-> [active |-> {}],
   favorite   |-> [active |-> {"removed"}, removed |-> {"active"}]]

Kinds == DOMAIN Moves
StatusesOf(k) == DOMAIN Moves[k] \cup {"none"}
Statuses == UNION {StatusesOf(k) : k \in Kinds}

\* What a new row starts as, for the records that are created by a handler here.
Opening ==
  [visit |-> "scheduled", foster |-> "active", session |-> "active",
   favorite |-> "active", invitation |-> "open", chat |-> "active",
   membership |-> "active"]

\* Statuses a record is in use in.
Opened == {"active", "scheduled", "in_progress", "open", "locked", "archived"}

\* In which statuses the data of a record may be changed.
Writable(k, s) == k = "chat" => s = "active"

Lawful(k, from, to) ==
  IF from = "none" THEN k \in DOMAIN Opening /\ to = Opening[k]
                   ELSE to \in Moves[k][from]

\* Records whose handlers check a row and write it later without a condition.
Unguarded == {"rescue", "visit", "foster", "session", "chat", "membership"}

-----------------------------------------------------------------------------
Steps == {"idle", "checked", "locked", "absent", "inserted", "revising",
          "deleting", "done"}

NoRequest == [step |-> "idle", row |-> 1, to |-> "none", seen |-> "none", at |-> 0]

Request == [step : Steps, row : Rows, to : Statuses \cup {"revised"},
            seen : Statuses, at : Nat]

Write == [row : Rows, from : Statuses, to : Statuses \cup {"revised"},
          noted : Statuses, number : Nat]

TypeOK ==
  /\ kind \in Kinds
  /\ status \in [Rows -> StatusesOf(kind)]
  /\ deleted \subseteq Rows
  /\ version \in [Rows -> Nat]
  /\ count \in Nat
  /\ lock \in [Rows -> Requests \cup {NoOne}]
  /\ req \in [Requests -> Request]
  /\ history \in Seq(Write)
  /\ stale \subseteq Requests
  /\ missed \in [Requests -> SUBSET Rows]
  /\ raced \subseteq SUBSET Rows

\* The first row exists already, in any status, unless a handler here creates
\* it; the others do not.
Init ==
  /\ kind \in Kinds
  /\ \E s \in StatusesOf(kind) :
       /\ s = "none" => kind \in DOMAIN Opening
       /\ status = [x \in Rows |-> IF x = 1 THEN s ELSE "none"]
       /\ count = IF kind = "favorite" /\ s = "active" THEN 1 ELSE 0
  /\ deleted = {}
  /\ version = [x \in Rows |-> 0]
  /\ lock = [x \in Rows |-> NoOne]
  /\ req = [r \in Requests |-> NoRequest]
  /\ history = <<>>
  /\ stale = {}
  /\ missed = [r \in Requests |-> {}]
  /\ raced = {}

-----------------------------------------------------------------------------
(* Steps the handlers share. *)

Exists(x) == status[x] # "none" /\ x \notin deleted
Open == {x \in Rows : Exists(x) /\ status[x] \in Opened}
Fresh(x) == status[x] = "none" /\ \A y \in Rows : status[y] = "none" => x <= y

Begins(r, k) == kind = k /\ req[r].step = "idle"
At(r, k, step) == kind = k /\ req[r].step = step
Unlocked(x) == lock[x] = NoOne

Advance(r, step, x, to) ==
  req' = [req EXCEPT ![r] = [step |-> step, row |-> x, to |-> to,
                             seen |-> status[x], at |-> version[x]]]
Finish(r) == req' = [req EXCEPT ![r].step = "done"]
Refuse(r) == Finish(r) /\ UNCHANGED <<kind, rowVars, lock, ghostVars>>

\* Calls that acted on what they read of row x, or of all rows, without a lock.
Reading(x) == {q \in Requests :
                 \/ req[q].step = "absent"
                 \/ /\ req[q].step \in {"checked", "inserted", "revising"}
                    /\ req[q].row = x}

Readers == UNION {Reading(x) : x \in Rows}

Overtake(r, x) == stale' = stale \cup (Reading(x) \ {r})

\* A committed write; the number is the version the code puts on it, if any.
Note(x, to, noted, number) ==
  history' = Append(history, [row |-> x, from |-> status[x], to |-> to,
                              noted |-> noted, number |-> number])

Record(r, x, to, noted, number) ==
  /\ Note(x, to, noted, number)
  /\ Overtake(r, x)

Move(r, x, to, noted, number) ==
  /\ status' = [status EXCEPT ![x] = to]
  /\ Record(r, x, to, noted, number)

\* An unlocked read of a row from which the table allows a move.
Check(r, k) ==
  /\ Begins(r, k)
  /\ \E x \in Rows : Exists(x) /\ \E to \in Moves[k][status[x]] :
       Advance(r, "checked", x, to)
  /\ UNCHANGED <<kind, rowVars, lock, ghostVars>>

\* A write that trusts it: no condition on what was read.
WriteChecked(r, k) ==
  /\ At(r, k, "checked")
  /\ Move(r, req[r].row, req[r].to, req[r].seen, 0)
  /\ Finish(r)
  /\ UNCHANGED <<kind, deleted, version, count, lock>>

\* Mutant: the transition is not validated again on the locked row.
LockUnchecked(r, x, to) ==
  /\ Unlocked(x)
  /\ Advance(r, "locked", x, to) /\ lock' = [lock EXCEPT ![x] = r]
  /\ UNCHANGED <<kind, rowVars, ghostVars>>

\* SELECT ... FOR UPDATE and the check on the locked row; a refusal rolls back.
Lock(r, x, to) ==
  /\ Unlocked(x)
  /\ IF Exists(x) /\ Lawful(kind, status[x], to)
     THEN Advance(r, "locked", x, to) /\ lock' = [lock EXCEPT ![x] = r]
     ELSE Finish(r) /\ UNCHANGED lock
  /\ UNCHANGED <<kind, rowVars, ghostVars>>

LockFor(r, k, targets) ==
  /\ Begins(r, k)
  /\ \E x \in Rows, to \in targets : status[x] # "none" /\ Lock(r, x, to)

\* The rest of that transaction, with its COMMIT.
WriteLocked(r) ==
  /\ req[r].step = "locked" /\ req[r].to # "revised"
  /\ LET x == req[r].row IN
       /\ Move(r, x, req[r].to, req[r].seen, 0)
       /\ version' = IF kind = "pet" THEN [version EXCEPT ![x] = @ + 1] ELSE version
       /\ lock' = [lock EXCEPT ![x] = NoOne]
  /\ Finish(r)
  /\ UNCHANGED <<kind, deleted, count>>

\* UPDATE ... SET deleted_at WHERE deleted_at IS NULL, in one statement.
DeleteOnce(r, k) ==
  /\ Begins(r, k)
  /\ \E x \in Rows : /\ status[x] # "none" /\ Unlocked(x)
                     /\ deleted' = deleted \cup {x}
                     /\ Overtake(r, x)
  /\ Finish(r)
  /\ UNCHANGED <<kind, status, version, count, lock, history>>

\* Deletions that read the row first; their UPDATE has no condition.
ReadToDelete(r, k) ==
  /\ Begins(r, k)
  /\ \E x \in Rows : Exists(x) /\ Advance(r, "deleting", x, "none")
  /\ UNCHANGED <<kind, rowVars, lock, ghostVars>>

DeleteRead(r, k) ==
  /\ At(r, k, "deleting")
  /\ Unlocked(req[r].row)
  /\ deleted' = deleted \cup {req[r].row}
  /\ Overtake(r, req[r].row)
  /\ Finish(r)
  /\ UNCHANGED <<kind, status, version, count, lock, history>>

\* A change of a record's data: read it, then write with no condition on what
\* was read.  Pets and rescues number the change, chats do not.
ReadToRevise(r, k) ==
  /\ Begins(r, k)
  /\ \E x \in Rows : /\ Exists(x) /\ Writable(k, status[x])
                     /\ Advance(r, "revising", x, "revised")
  /\ UNCHANGED <<kind, rowVars, lock, ghostVars>>

Revise(r, k) ==
  /\ At(r, k, "revising")
  /\ Unlocked(req[r].row)
  /\ LET x == req[r].row
         numbered == k # "chat"
     IN /\ Note(x, "revised", status[x], IF numbered THEN version[x] + 1 ELSE 0)
        /\ version' = IF numbered THEN [version EXCEPT ![x] = @ + 1] ELSE version
  /\ Finish(r)
  /\ UNCHANGED <<kind, status, deleted, count, lock, stale>>

\* SELECT finds no open record, and a later INSERT adds one.
Find(r, k) ==
  /\ Begins(r, k)
  /\ IF Open # {} THEN Finish(r) ELSE Advance(r, "absent", 1, Opening[k])
  /\ UNCHANGED <<kind, rowVars, lock, ghostVars>>

Create(r, k) ==
  /\ At(r, k, "absent")
  /\ \E x \in Rows : Fresh(x) /\ Move(r, x, Opening[k], "none", 0)
  /\ Finish(r)
  /\ UNCHANGED <<kind, deleted, version, count, lock>>

\* The call fails or its process dies: PostgreSQL rolls its transaction back;
\* statements that had committed on their own stay.
Abandon(r) ==
  /\ req[r].step \notin {"idle", "done"}
  /\ Finish(r)
  /\ lock' = [x \in Rows |-> IF lock[x] = r THEN NoOne ELSE lock[x]]
  /\ UNCHANGED <<kind, rowVars, ghostVars>>

-----------------------------------------------------------------------------
(* Pets. *)

ReadPet(r) == Check(r, "pet")

\* Mutant: the log entry names the status of the first, unlocked read.
LockPetNotingRead(r) ==
  /\ At(r, "pet", "checked") /\ Unlocked(req[r].row)
  /\ IF Exists(req[r].row) /\ Lawful("pet", status[req[r].row], req[r].to)
     THEN /\ req' = [req EXCEPT ![r].step = "locked"]
          /\ lock' = [lock EXCEPT ![req[r].row] = r]
     ELSE Finish(r) /\ UNCHANGED lock
  /\ UNCHANGED <<kind, rowVars, ghostVars>>

LockPet(r) ==
  /\ At(r, "pet", "checked")
  /\ Lock(r, req[r].row, req[r].to)

ReadPetToDelete(r) == ReadToDelete(r, "pet")
DeletePet(r) == DeleteRead(r, "pet")

ReadPetToUpdate(r) == ReadToRevise(r, "pet")
UpdatePet(r) == Revise(r, "pet")

\* Favourites are added from a row read earlier; the writing statements carry
\* the condition, or the unique index does.
ReadFavorite(r) ==
  /\ Begins(r, "favorite")
  /\ IF status[1] = "active" THEN Finish(r)
     ELSE Advance(r, IF status[1] = "none" THEN "absent" ELSE "checked", 1, "active")
  /\ UNCHANGED <<kind, rowVars, lock, ghostVars>>

\* Mutant: the revival is not conditional on deleted_at.
AddFavoriteAnyway(r) ==
  /\ \/ At(r, "favorite", "absent") /\ status[1] = "none"
     \/ At(r, "favorite", "checked")
  /\ Move(r, 1, "active", req[r].seen, 0)
  /\ count' = count + 1
  /\ Finish(r)
  /\ UNCHANGED <<kind, deleted, version, lock>>

AddFavorite(r) ==
  /\ \/ At(r, "favorite", "absent") /\ status[1] = "none"
     \/ At(r, "favorite", "checked") /\ status[1] = "removed"
  /\ Move(r, 1, "active", req[r].seen, 0)
  /\ count' = count + 1
  /\ Finish(r)
  /\ UNCHANGED <<kind, deleted, version, lock>>

FavoriteIsThere(r) ==
  /\ \/ At(r, "favorite", "absent") /\ status[1] # "none"
     \/ At(r, "favorite", "checked") /\ status[1] # "removed"
  /\ Refuse(r)

RemoveFavorite(r) ==
  /\ Begins(r, "favorite")
  /\ status[1] = "active"
  /\ Move(r, 1, "removed", "active", 0)
  /\ count' = IF count > 1 THEN count - 1 ELSE 0
  /\ Finish(r)
  /\ UNCHANGED <<kind, deleted, version, lock>>

-----------------------------------------------------------------------------
(* CMS content. *)

SetContentStatus(r) == LockFor(r, "content", {"published", "draft", "archived"})

\* Mutant: the current version is read without FOR UPDATE.
LockContentPlainRead(r) ==
  /\ Begins(r, "content")
  /\ \E x \in Rows : Exists(x) /\ Advance(r, "locked", x, "revised")
  /\ UNCHANGED <<kind, rowVars, lock, ghostVars>>

\* updateContent and restoreVersion append the version after the current one.
LockContent(r) ==
  /\ Begins(r, "content")
  /\ \E x \in Rows : /\ Exists(x) /\ Unlocked(x)
                     /\ Advance(r, "locked", x, "revised")
                     /\ lock' = [lock EXCEPT ![x] = r]
  /\ UNCHANGED <<kind, rowVars, ghostVars>>

AppendVersion(r) ==
  /\ At(r, "content", "locked") /\ req[r].to = "revised"
  /\ LET x == req[r].row
         next == req[r].at + 1
     IN /\ Record(r, x, "revised", status[x], next)
        /\ version' = [version EXCEPT ![x] = next]
        /\ lock' = [lock EXCEPT ![x] = NoOne]
  /\ Finish(r)
  /\ UNCHANGED <<kind, status, deleted, count>>

DeleteContent(r) == DeleteOnce(r, "content")

-----------------------------------------------------------------------------
(* Rescues. *)

ReadRescue(r) == Check(r, "rescue")

\* The UPDATE names the rescue only: neither the status the check was made on
\* nor deleted_at is looked at again.
VerifyRescue(r) ==
  /\ At(r, "rescue", "checked")
  /\ LET x == req[r].row IN
       /\ Move(r, x, req[r].to, req[r].seen, version[x] + 1)
       /\ version' = [version EXCEPT ![x] = @ + 1]
  /\ Finish(r)
  /\ UNCHANGED <<kind, deleted, count, lock>>

DeleteRescue(r) == DeleteOnce(r, "rescue")

ReadRescueToUpdate(r) == ReadToRevise(r, "rescue")
UpdateRescuePlan(r) == Revise(r, "rescue")

\* A caller may name the version its change is to; no row of that version, no
\* change.
UpdateRescue(r) ==
  \/ Revise(r, "rescue")
  \/ /\ At(r, "rescue", "revising") /\ version[req[r].row] # req[r].at
     /\ Refuse(r)

\* The partial unique index lets one placement of a pet be active.
CreateFosterPlacement(r) ==
  /\ Begins(r, "foster")
  /\ \E x \in Rows : /\ Open = {} /\ Fresh(x)
                     /\ Move(r, x, "active", "none", 0)
  /\ Finish(r)
  /\ UNCHANGED <<kind, deleted, version, count, lock>>

ReadFosterPlacement(r) == Check(r, "foster")

\* Mutant: the outcome is stored where its status belongs.
EndFosterPlacementAsAdopted(r) ==
  /\ At(r, "foster", "checked")
  /\ Move(r, req[r].row, "adopted", req[r].seen, 0)
  /\ Finish(r)
  /\ UNCHANGED <<kind, deleted, version, count, lock>>

EndFosterPlacement(r) == WriteChecked(r, "foster")

\* createStaffMember is one transaction, but its SELECT locks nothing and no
\* index is unique; acceptInvitation looks and inserts in the same way.
FindMembership(r) == Find(r, "membership")
CreateStaffMember(r) == Create(r, "membership")

ReadMembership(r) == ReadToDelete(r, "membership")

\* The UPDATE names the user, so it takes every row of theirs.
RemoveStaffMember(r) ==
  /\ At(r, "membership", "deleting")
  /\ deleted' = deleted \cup {x \in Rows : status[x] # "none"}
  /\ stale' = stale \cup (Readers \ {r})
  /\ Finish(r)
  /\ UNCHANGED <<kind, status, version, count, lock, history>>

\* INSERT ... ON CONFLICT: the partial unique index lets one invitation of an
\* address be open; an open one gets a new token instead, when it is unlocked.
InviteStaff(r) ==
  /\ Begins(r, "invitation")
  /\ Open = {}
  /\ \E x \in Rows : Fresh(x) /\ Move(r, x, "open", "none", 0)
  /\ Finish(r)
  /\ UNCHANGED <<kind, deleted, version, count, lock>>

InviteAgain(r) ==
  /\ Begins(r, "invitation")
  /\ \E x \in Open : Unlocked(x)
  /\ Refuse(r)

\* The membership is inserted in the transaction that marks the invitation.
AcceptInvitation(r) == LockFor(r, "invitation", {"used"})

CancelInvitation(r) ==
  /\ Begins(r, "invitation")
  /\ \E x \in Rows : /\ Unlocked(x) /\ status[x] = "open"
                     /\ Move(r, x, "cancelled", "open", 0)
  /\ Finish(r)
  /\ UNCHANGED <<kind, deleted, version, count, lock>>

-----------------------------------------------------------------------------
(* Moderation. *)

AssignReport(r) == LockFor(r, "report", {"under_review"})
ResolveReport(r) == LockFor(r, "report", {"resolved", "dismissed"})
EscalateReport(r) == LockFor(r, "report", {"escalated"})

AppealSanction(r) == LockFor(r, "sanction", {"appealed"})

-----------------------------------------------------------------------------
(* Swipe sessions. *)

FindSession(r) == Find(r, "session")
StartSession(r) == Create(r, "session")

RecordSwipe(r) == LockFor(r, "session", {"active"})
EndSession(r) == LockFor(r, "session", {"ended"})

-----------------------------------------------------------------------------
(* Chats; they are read outside the transaction that writes. *)

\* openChat takes any chat of the application and the two participants that is
\* not deleted, in whatever status.
FindChat(r) == Find(r, "chat")
OpenChat(r) == Create(r, "chat")

\* sendMessage; an added reaction and a sender's deleteMessage are behind the
\* same check.
EnsureChatWritable(r) == ReadToRevise(r, "chat")
SendMessage(r) == Revise(r, "chat")

ReadChat(r) == Check(r, "chat")

UpdateChatStatus(r) == WriteChecked(r, "chat")

ReadChatToDelete(r) == ReadToDelete(r, "chat")
DeleteChat(r) == DeleteRead(r, "chat")

-----------------------------------------------------------------------------
(* Home visits; no two statements share a transaction. *)

\* Mutant: a visit that has begun is not looked for.
FindScheduledVisit(r) ==
  /\ Begins(r, "visit")
  /\ IF \E x \in Open : status[x] = "scheduled"
     THEN Finish(r) ELSE Advance(r, "absent", 1, "scheduled")
  /\ UNCHANGED <<kind, rowVars, lock, ghostVars>>

\* ensureHomeVisitRow updates an open visit's details, or creates a visit and
\* then the first entry of its log, whose trigger sets the status once more.
FindVisit(r) == Find(r, "visit")

InsertVisit(r) ==
  /\ At(r, "visit", "absent")
  /\ \E x \in Rows :
       /\ Fresh(x)
       /\ Move(r, x, "scheduled", "none", 0)
       /\ req' = [req EXCEPT ![r].step = "inserted", ![r].row = x]
  /\ UNCHANGED <<kind, deleted, version, count, lock>>

OpenVisitLog(r) ==
  /\ At(r, "visit", "inserted")
  /\ Move(r, req[r].row, "scheduled", "none", 0)
  /\ Finish(r)
  /\ UNCHANGED <<kind, deleted, version, count, lock>>

\* A call that asks for the status the visit has writes no log entry.
ReadVisit(r) ==
  /\ Check(r, "visit")
  /\ req'[r].to # req'[r].seen

\* The entry goes into the log, and its trigger writes the status.
TransitionVisit(r) == WriteChecked(r, "visit")

-----------------------------------------------------------------------------
PetStep(r) ==
  \/ ReadPet(r) \/ LockPet(r) \/ ReadPetToDelete(r) \/ DeletePet(r)
  \/ ReadPetToUpdate(r) \/ UpdatePet(r)
  \/ ReadFavorite(r) \/ AddFavorite(r) \/ FavoriteIsThere(r) \/ RemoveFavorite(r)

RescueStep(r) ==
  \/ ReadRescue(r) \/ VerifyRescue(r) \/ DeleteRescue(r)
  \/ ReadRescueToUpdate(r) \/ UpdateRescue(r) \/ UpdateRescuePlan(r)
  \/ CreateFosterPlacement(r) \/ ReadFosterPlacement(r) \/ EndFosterPlacement(r)

StaffStep(r) ==
  \/ FindMembership(r) \/ CreateStaffMember(r)
  \/ ReadMembership(r) \/ RemoveStaffMember(r)
  \/ InviteStaff(r) \/ InviteAgain(r) \/ AcceptInvitation(r) \/ CancelInvitation(r)

ContentStep(r) ==
  SetContentStatus(r) \/ LockContent(r) \/ AppendVersion(r) \/ DeleteContent(r)

ModerationStep(r) ==
  AssignReport(r) \/ ResolveReport(r) \/ EscalateReport(r) \/ AppealSanction(r)

SessionStep(r) ==
  FindSession(r) \/ StartSession(r) \/ RecordSwipe(r) \/ EndSession(r)

ChatStep(r) ==
  \/ FindChat(r) \/ OpenChat(r) \/ EnsureChatWritable(r) \/ SendMessage(r)
  \/ ReadChat(r) \/ UpdateChatStatus(r) \/ ReadChatToDelete(r) \/ DeleteChat(r)

VisitStep(r) ==
  \/ FindVisit(r) \/ InsertVisit(r) \/ OpenVisitLog(r)
  \/ ReadVisit(r) \/ TransitionVisit(r)

\* A call goes on, or is told that it may not.
Proceed(r) ==
  \/ PetStep(r) \/ RescueStep(r) \/ StaffStep(r) \/ ContentStep(r)
  \/ ModerationStep(r) \/ SessionStep(r) \/ ChatStep(r) \/ VisitStep(r)
  \/ WriteLocked(r)

\* What a call does not see that has looked and is to write, and which rows
\* were opened unseen.
Watch(r) ==
  /\ missed' = [q \in Requests |->
       IF req'[q].step \in {"absent", "inserted", "checked"}
       THEN missed[q] \cup (Open' \ Open) ELSE {}]
  /\ raced' = raced \cup {{x, y} : x \in Open' \ Open, y \in missed[r]}

Next == \E r \in Requests : (Proceed(r) \/ Abandon(r)) /\ Watch(r)

Spec == Init /\ [][Next]_vars

-----------------------------------------------------------------------------
(* Properties. *)

\* Every write follows the transition tables, leaves deleted records alone, and
\* adds no message to a closed chat; where a handler writes without a lock or a
\* condition, only a call that was overtaken between its check and its write
\* can break this (pets handlers.ts:795-800, cms handlers.ts:720-723, chat
\* handlers.ts:154-158).
LawfulWrites ==
  [][history' # history =>
       LET h == history'[Len(history')] IN
         \/ /\ h.row \notin deleted
            /\ IF h.to = "revised" THEN Writable(kind, h.from)
                                   ELSE Lawful(kind, h.from, h.to)
         \/ /\ kind \in Unguarded \/ (kind = "pet" /\ h.to = "revised")
            /\ \E r \in stale : req'[r] # req[r]]_vars

\* The transition log of a pet or a report names the status that was really
\* left, however the calls interleave.
TruthfulTrail ==
  kind \in {"pet", "report"} =>
    \A i \in 1..Len(history) : history[i].noted = history[i].from

\* No two writes to a record carry the same version: the ids of the events about
\* a pet and about a rescue itself differ (pets handlers.ts:735-737, rescue
\* handlers.ts:666-668 and 762; its staff's events carry no version), and so do
\* the entries of a content's version list.
NumberedOnce ==
  \A i, j \in 1..Len(history) :
    i # j /\ history[i].row = history[j].row /\ history[i].number # 0 =>
      history[i].number # history[j].number

\* An owner has one open record (a pet one active placement, an application one
\* open visit and one chat per pair of participants, a user one membership and
\* one active swipe session, an address one open invitation), whatever mix of
\* creations, transitions and deletions led there. Two are open together only if
\* the call that opened one of them had looked before the other was opened, and
\* wrote after (review-handlers.ts:167-198, matching handlers.ts:88-121, chat
\* handlers.ts:375-410). Where there is a unique index no call looks first.
OneOpen == \A x, y \in Open : x = y \/ {x, y} \in raced

\* The counter of favourites follows the rows through concurrent adds,
\* revivals and removals.
FavoriteCounted == kind = "favorite" => count = Cardinality(Open)
=============================================================================
