----------------------- MODULE RecordWorkflowsProofs -----------------------
(***************************************************************************)
(* What the handlers of RecordWorkflows keep for any number of concurrent  *)
(* calls and rows.                                                         *)
(***************************************************************************)
EXTENDS RecordWorkflows, FiniteSetTheorems, TLAPS

\* The transition tables lead from statuses of a kind to statuses of that kind.
LEMMA MovesClosed ==
  ASSUME NEW k \in Kinds, NEW s \in DOMAIN Moves[k]
  PROVE  Moves[k][s] \subseteq DOMAIN Moves[k]
<1>1. k \in {"pet", "content", "rescue", "visit", "report", "sanction", "foster",
             "invitation", "session", "chat", "membership", "favorite"}
  BY DEF Kinds, Moves
<1>2. CASE k = "pet"
  BY <1>2 DEF Moves, PetMoves
<1>3. CASE k = "content"
  BY <1>3 DEF Moves, ContentMoves
<1>4. CASE k = "rescue"
  BY <1>4 DEF Moves, RescueMoves
<1>5. CASE k = "visit"
  BY <1>5 DEF Moves, VisitMoves
<1>6. CASE k = "report"
  BY <1>6 DEF Moves, ReportMoves
<1>7. CASE k \in {"sanction", "foster", "invitation", "session", "membership", "favorite"}
  BY <1>7 DEF Moves
<1>8. CASE k = "chat"
  BY <1>8 DEF Moves, ChatMoves
<1> QED
  BY <1>1, <1>2, <1>3, <1>4, <1>5, <1>6, <1>7, <1>8

\* A record that is created here starts in a status of its kind.
LEMMA OpeningKnown ==
  ASSUME NEW k \in DOMAIN Opening
  PROVE  k \in Kinds /\ Opening[k] \in DOMAIN Moves[k] /\ Opening[k] \in Opened
BY DEF Opening, Opened, Kinds, Moves, VisitMoves, ChatMoves

-----------------------------------------------------------------------------
(* The inductive invariant. *)

Locking == {"pet", "content", "report", "sanction", "invitation", "session"}
Checking == {"pet", "rescue", "foster", "visit", "chat"}
Revisable == {"pet", "rescue", "chat"}
Found == {"session", "visit", "chat", "membership"}
Deletable == {"pet", "content", "rescue", "chat", "membership"}

\* Kinds a handler here creates records of, next to others of the same owner.
Multiple == Found \cup {"foster", "invitation"}

\* A transaction that holds a row lock has read what the row still is.
LockedOK(q) ==
  req[q].step = "locked" =>
    /\ kind \in Locking
    /\ lock[req[q].row] = q
    /\ req[q].row \notin deleted
    /\ req[q].seen = status[req[q].row]
    /\ req[q].at = version[req[q].row]
    /\ req[q].seen \in DOMAIN Moves[kind]
    /\ \/ kind = "content" /\ req[q].to = "revised"
       \/ req[q].to \in Moves[kind][req[q].seen]

\* A call that checked without a lock has read what the row still is, unless
\* it was overtaken.
CheckedOK(q) ==
  req[q].step = "checked" =>
    /\ kind \in Checking \cup {"favorite"}
    /\ req[q].seen \in DOMAIN Moves[kind]
    /\ req[q].to \in Moves[kind][req[q].seen]
    /\ status[req[q].row] # "none"
    /\ kind = "favorite" => req[q].row = 1 /\ req[q].to = "active"
    /\ q \notin stale => req[q].seen = status[req[q].row] /\ req[q].row \notin deleted

CreatingOK(q) ==
  /\ req[q].step = "absent" =>
       /\ kind \in Found \cup {"favorite"}
       /\ kind # "favorite" /\ q \notin stale => Open = {}
  /\ req[q].step = "inserted" =>
       kind = "visit" /\ (q \notin stale => status[req[q].row] = "scheduled")
  /\ req[q].step = "deleting" =>
       kind \in {"pet", "chat", "membership"} /\ status[req[q].row] # "none"

\* A call that is to change a record's data found it there and writable.
RevisingOK(q) ==
  req[q].step = "revising" =>
    /\ kind \in Revisable
    /\ status[req[q].row] # "none"
    /\ q \notin stale =>
         req[q].row \notin deleted /\ Writable(kind, status[req[q].row])

CallOK(q) == LockedOK(q) /\ CheckedOK(q) /\ CreatingOK(q) /\ RevisingOK(q)
CallInv == \A q \in Requests : CallOK(q)

\* Version numbers in the history are not ahead of the row.
VersionInv ==
  \A i \in 1..Len(history) : history[i].number <= version[history[i].row]

\* Only records there are, of these kinds, are deleted; only records created here have
\* more than one row.
ShapeInv ==
  /\ deleted # {} => kind \in Deletable
  /\ \A x \in deleted : status[x] # "none"
  /\ kind \notin Multiple =>
       \A x \in Rows : x # 1 => status[x] = "none"

CountInv == kind = "favorite" => count = IF status[1] = "active" THEN 1 ELSE 0

DataInv ==
  VersionInv /\ NumberedOnce /\ TruthfulTrail /\ ShapeInv /\ CountInv

dataVars == <<kind, status, deleted, version, count, history>>

IInv == TypeOK /\ CallInv /\ DataInv

-----------------------------------------------------------------------------
LEMMA KindsKnown ==
  /\ Kinds = {"pet", "content", "rescue", "visit", "report", "sanction", "foster",
              "invitation", "session", "chat", "membership", "favorite"}
  /\ Opening["visit"] = "scheduled" /\ Opening["foster"] = "active"
  /\ Opening["favorite"] = "active" /\ Opening["invitation"] = "open"
  /\ DOMAIN Opening = Multiple \cup {"favorite"}
BY DEF Kinds, Moves, Opening, Multiple, Found

LEMMA MovesKnown ==
  /\ "active" \in DOMAIN Moves["foster"]
  /\ "scheduled" \in DOMAIN Moves["visit"]
  /\ "active" \in DOMAIN Moves["favorite"] /\ "removed" \in DOMAIN Moves["favorite"]
  /\ DOMAIN Moves["invitation"] = {"open", "used", "cancelled"}
  /\ Moves["favorite"]["active"] = {"removed"}
  /\ Moves["favorite"]["removed"] = {"active"}
  /\ "cancelled" \in Moves["invitation"]["open"]
  /\ "scheduled" \in Moves["visit"]["scheduled"]
BY DEF Moves, VisitMoves

\* "none" and "revised" are not statuses of the tables.
LEMMA PseudoStatuses ==
  ASSUME NEW k \in Kinds
  PROVE  "none" \notin DOMAIN Moves[k] /\ "revised" \notin Statuses
<1>1. "none" \notin DOMAIN Moves[k]
  BY DEF Kinds, Moves, PetMoves, ContentMoves, RescueMoves, VisitMoves, ReportMoves, ChatMoves
<1>2. ASSUME "revised" \in Statuses PROVE FALSE
  BY <1>2 DEF Statuses, StatusesOf, Kinds, Moves, PetMoves, ContentMoves,
              RescueMoves, VisitMoves, ReportMoves, ChatMoves
<1> QED
  BY <1>1, <1>2

LEMMA StatusesIncluded ==
  ASSUME NEW k \in Kinds
  PROVE  StatusesOf(k) \subseteq Statuses
BY DEF Statuses

\* What Note does to the history.
LEMMA Noted ==
  ASSUME TypeOK, NEW x \in Rows, NEW to \in Statuses \cup {"revised"},
         NEW noted \in Statuses, NEW number \in Nat, Note(x, to, noted, number)
  PROVE  /\ history' \in Seq(Write)
         /\ Len(history) \in Nat /\ Len(history') = Len(history) + 1
         /\ \A i \in 1..Len(history) : history'[i] = history[i] /\ history[i] \in Write
         /\ history'[Len(history) + 1].row = x
         /\ history'[Len(history) + 1].from = status[x]
         /\ history'[Len(history) + 1].to = to
         /\ history'[Len(history) + 1].noted = noted
         /\ history'[Len(history) + 1].number = number
<1> DEFINE h == [row |-> x, from |-> status[x], to |-> to,
                 noted |-> noted, number |-> number]
<1>1. status[x] \in Statuses
  BY StatusesIncluded DEF TypeOK
<1>2. h \in Write
  BY <1>1 DEF Write
<1>3. history' = Append(history, h) /\ history \in Seq(Write)
  BY DEF Note, TypeOK
<1> HIDE DEF h
<1>6. /\ history' \in Seq(Write)
      /\ Len(history) \in Nat /\ Len(history') = Len(history) + 1
      /\ \A i \in 1..Len(history) : history'[i] = history[i] /\ history[i] \in Write
      /\ history'[Len(history) + 1] = h
  BY <1>2, <1>3
<1> QED
  BY <1>6 DEF h

\* And Record besides.
LEMMA Recorded ==
  ASSUME TypeOK, NEW r \in Requests, NEW x \in Rows,
         NEW to \in Statuses \cup {"revised"}, NEW noted \in Statuses,
         NEW number \in Nat, Record(r, x, to, noted, number)
  PROVE  /\ history' \in Seq(Write) /\ Note(x, to, noted, number)
         /\ stale' \subseteq Requests
<1>1. history' \in Seq(Write) /\ Note(x, to, noted, number)
  BY Noted DEF Record
<1>4. stale' \subseteq Requests
  BY DEF Record, Overtake, Reading, TypeOK
<1> QED
  BY <1>1, <1>4

-----------------------------------------------------------------------------
(* Types. *)

LEMMA MoveTypes ==
  ASSUME TypeOK, NEW r \in Requests, NEW x \in Rows,
         NEW to \in DOMAIN Moves[kind], NEW noted \in Statuses, NEW number \in Nat,
         Move(r, x, to, noted, number)
  PROVE  /\ status' \in [Rows -> StatusesOf(kind)] /\ history' \in Seq(Write)
         /\ stale' \subseteq Requests
<1>1. to \in StatusesOf(kind) /\ to \in Statuses
  BY StatusesIncluded DEF StatusesOf, TypeOK
<1>2. status' = [status EXCEPT ![x] = to] /\ Record(r, x, to, noted, number)
  BY DEF Move
<1>3. status' \in [Rows -> StatusesOf(kind)]
  BY <1>1, <1>2 DEF TypeOK
<1> QED
  BY <1>1, <1>2, <1>3, Recorded

LEMMA FinishTypes ==
  ASSUME TypeOK, NEW r \in Requests, Finish(r)
  PROVE  req' \in [Requests -> Request]
<1>1. req \in [Requests -> Request]
  BY DEF TypeOK
<1> QED
  BY <1>1 DEF Finish, Request, Steps

LEMMA AdvanceTypes ==
  ASSUME TypeOK, NEW r \in Requests, NEW step \in Steps, NEW x \in Rows,
         NEW to \in Statuses \cup {"revised"}, Advance(r, step, x, to)
  PROVE  req' \in [Requests -> Request]
<1>1. status[x] \in Statuses /\ version[x] \in Nat
  BY StatusesIncluded DEF TypeOK
<1> QED
  BY <1>1 DEF TypeOK, Advance, Request

LEMMA LockTypes ==
  ASSUME TypeOK, NEW r \in Requests, NEW x \in Rows, NEW to \in Statuses,
         Lock(r, x, to),
         missed' \in [Requests -> SUBSET Rows], raced' \subseteq SUBSET Rows
  PROVE  TypeOK'
<1>1. req' \in [Requests -> Request]
  BY FinishTypes, AdvanceTypes DEF Lock, Steps
<1>2. lock' \in [Rows -> Requests \cup {NoOne}]
  BY DEF Lock, TypeOK
<1> QED
  BY <1>1, <1>2 DEF TypeOK, Lock, rowVars, ghostVars

LEMMA CheckTypes ==
  ASSUME TypeOK, NEW r \in Requests, NEW k, Check(r, k),
         missed' \in [Requests -> SUBSET Rows], raced' \subseteq SUBSET Rows
  PROVE  TypeOK'
<1>1. PICK x \in Rows : \E to \in Moves[k][status[x]] :
        Exists(x) /\ Advance(r, "checked", x, to)
  BY DEF Check
<1>a. PICK to \in Moves[k][status[x]] : Advance(r, "checked", x, to)
  BY <1>1
<1>2. kind = k /\ status[x] \in DOMAIN Moves[k]
  BY <1>1 DEF Check, Begins, Exists, TypeOK, StatusesOf
<1>3. to \in Statuses
  BY <1>a, <1>2, MovesClosed, StatusesIncluded DEF TypeOK, StatusesOf
<1>4. req' \in [Requests -> Request]
  BY <1>a, <1>3, AdvanceTypes DEF Steps
<1> QED
  BY <1>4 DEF TypeOK, Check, rowVars, ghostVars

LEMMA TargetsKnown ==
  {"published", "draft", "archived", "used", "under_review", "resolved",
   "dismissed", "escalated", "appealed", "active", "ended", "none", "open",
   "scheduled", "cancelled", "removed"} \subseteq Statuses
BY DEF Statuses, StatusesOf, Kinds, Moves, ContentMoves, ReportMoves, VisitMoves

LEMMA LockForTypes ==
  ASSUME TypeOK, NEW r \in Requests, NEW k, NEW targets \in SUBSET Statuses,
         LockFor(r, k, targets),
         missed' \in [Requests -> SUBSET Rows], raced' \subseteq SUBSET Rows
  PROVE  TypeOK'
BY LockTypes DEF LockFor

LEMMA RequestFields ==
  ASSUME TypeOK, NEW r \in Requests
  PROVE  /\ req[r].step \in Steps /\ req[r].row \in Rows
         /\ req[r].to \in Statuses \cup {"revised"}
         /\ req[r].seen \in Statuses /\ req[r].at \in Nat
BY DEF TypeOK, Request

\* A move by a call that is then over, and the lock it may have held.
LEMMA WriteTypes ==
  ASSUME TypeOK, NEW r \in Requests, NEW x \in Rows,
         NEW to \in DOMAIN Moves[kind], NEW noted \in Statuses, NEW number \in Nat,
         Move(r, x, to, noted, number),
         kind' = kind, deleted' = deleted,
         version' \in [Rows -> Nat], count' \in Nat,
         lock' \in [Rows -> Requests \cup {NoOne}],
         req' \in [Requests -> Request],
         missed' \in [Requests -> SUBSET Rows], raced' \subseteq SUBSET Rows
  PROVE  TypeOK'
<1>1. /\ status' \in [Rows -> StatusesOf(kind)] /\ history' \in Seq(Write)
      /\ stale' \subseteq Requests
  BY MoveTypes
<1> QED
  BY <1>1 DEF TypeOK

LEMMA NextVersion ==
  ASSUME TypeOK, NEW x \in Rows
  PROVE  /\ version[x] + 1 \in Nat
         /\ [version EXCEPT ![x] = @ + 1] \in [Rows -> Nat]
BY DEF TypeOK

LEMMA WriteLockedTypes ==
  ASSUME TypeOK, CallInv, NEW r \in Requests, WriteLocked(r),
         missed' \in [Requests -> SUBSET Rows], raced' \subseteq SUBSET Rows
  PROVE  TypeOK'
<1> DEFINE x == req[r].row
<1>1. x \in Rows /\ req[r].seen \in Statuses
  BY RequestFields
<1>2. LockedOK(r) /\ req[r].step = "locked" /\ req[r].to # "revised"
  BY DEF WriteLocked, CallInv, CallOK
<1>3. req[r].to \in DOMAIN Moves[kind]
  BY <1>2, MovesClosed DEF LockedOK, TypeOK
<1>4. req' \in [Requests -> Request]
  BY FinishTypes DEF WriteLocked
<1>5. Move(r, x, req[r].to, req[r].seen, 0)
  BY DEF WriteLocked
<1>6. /\ kind' = kind /\ deleted' = deleted /\ count' = count
      /\ lock' \in [Rows -> Requests \cup {NoOne}]
  BY DEF WriteLocked, TypeOK
<1>7. version' \in [Rows -> Nat] /\ count' \in Nat
  BY <1>1, <1>6, NextVersion DEF WriteLocked, TypeOK
<1> HIDE DEF x
<1> QED
  BY <1>1, <1>3, <1>4, <1>5, <1>6, <1>7, WriteTypes

LEMMA AppendVersionTypes ==
  ASSUME TypeOK, NEW r \in Requests, AppendVersion(r),
         missed' \in [Requests -> SUBSET Rows], raced' \subseteq SUBSET Rows
  PROVE  TypeOK'
<1>1. req[r].row \in Rows /\ req[r].at + 1 \in Nat
  BY RequestFields
<1>2. status[req[r].row] \in Statuses
  BY <1>1, StatusesIncluded DEF TypeOK
<1>3. Record(r, req[r].row, "revised", status[req[r].row], req[r].at + 1)
  BY DEF AppendVersion
<1>4. history' \in Seq(Write) /\ stale' \subseteq Requests
  BY <1>1, <1>2, <1>3, Recorded
<1>5. req' \in [Requests -> Request]
  BY FinishTypes DEF AppendVersion
<1>6. version' \in [Rows -> Nat] /\ lock' \in [Rows -> Requests \cup {NoOne}]
  BY <1>1 DEF AppendVersion, TypeOK
<1> QED
  BY <1>4, <1>5, <1>6 DEF AppendVersion, TypeOK

LEMMA ReviseTypes ==
  ASSUME TypeOK, NEW r \in Requests, NEW k, Revise(r, k),
         missed' \in [Requests -> SUBSET Rows], raced' \subseteq SUBSET Rows
  PROVE  TypeOK'
<1> DEFINE x == req[r].row
           number == IF k # "chat" THEN version[x] + 1 ELSE 0
<1>1. x \in Rows /\ version[x] + 1 \in Nat /\ number \in Nat
  BY RequestFields, NextVersion
<1>2. status[x] \in Statuses
  BY <1>1, StatusesIncluded DEF TypeOK
<1>3. Note(x, "revised", status[x], number)
  BY DEF Revise
<1>4. version' \in [Rows -> Nat]
  BY <1>1, NextVersion DEF Revise, TypeOK
<1> HIDE DEF x, number
<1>5. history' \in Seq(Write)
  BY <1>1, <1>2, <1>3, Noted
<1>6. req' \in [Requests -> Request]
  BY FinishTypes DEF Revise
<1> QED
  BY <1>4, <1>5, <1>6 DEF Revise, TypeOK

\* The writes of calls that hold no lock: what they write, and where.
PlainWrite(r, x, to, noted, number) ==
  /\ Move(r, x, to, noted, number)
  /\ x \in Rows /\ to \in DOMAIN Moves[kind] /\ noted \in Statuses
  /\ \/ number = 0 /\ version' = version
     \/ number = version[x] + 1 /\ version' = [version EXCEPT ![x] = @ + 1]
  /\ UNCHANGED <<kind, deleted, lock>>

LEMMA PlainWriteTypes ==
  ASSUME TypeOK, NEW r \in Requests, NEW x, NEW to, NEW noted, NEW number,
         PlainWrite(r, x, to, noted, number), count' \in Nat,
         req' \in [Requests -> Request],
         missed' \in [Requests -> SUBSET Rows], raced' \subseteq SUBSET Rows
  PROVE  TypeOK'
<1>1. number \in Nat /\ version' \in [Rows -> Nat]
  BY NextVersion DEF PlainWrite, TypeOK
<1>2. lock' \in [Rows -> Requests \cup {NoOne}]
  BY DEF PlainWrite, TypeOK
<1> QED
  BY <1>1, <1>2, WriteTypes DEF PlainWrite

Writing(r) ==
  \/ AddFavorite(r) \/ RemoveFavorite(r) \/ VerifyRescue(r)
  \/ CreateFosterPlacement(r) \/ InviteStaff(r) \/ CancelInvitation(r)
  \/ InsertVisit(r) \/ OpenVisitLog(r)
  \/ \E k \in {"foster", "visit", "chat"} : WriteChecked(r, k)
  \/ \E k \in {"session", "chat", "membership"} : Create(r, k)

\* A record that is created is new, and of a kind that may have several.
LEMMA CreatesPlain ==
  ASSUME TypeOK, NEW r \in Requests, NEW k \in {"session", "chat", "membership"},
         Create(r, k)
  PROVE  /\ kind = k /\ req[r].step = "absent"
         /\ \E x \in Rows : /\ PlainWrite(r, x, Opening[k], "none", 0)
                            /\ status[x] = "none"
<1>1. PICK x \in Rows : Fresh(x) /\ Move(r, x, Opening[k], "none", 0)
  BY DEF Create
<1>2. kind = k /\ req[r].step = "absent" /\ status[x] = "none"
  BY <1>1 DEF Create, At, Fresh
<1>3. k \in DOMAIN Opening
  BY KindsKnown DEF Multiple, Found
<1>4. Opening[k] \in DOMAIN Moves[kind] /\ "none" \in Statuses
  BY <1>2, <1>3, OpeningKnown, TargetsKnown
<1>5. PlainWrite(r, x, Opening[k], "none", 0)
  BY <1>1, <1>4 DEF Create, PlainWrite
<1> QED
  BY <1>2, <1>5

\* Each of them is a PlainWrite, and the call is over or has just inserted.
LEMMA WritesArePlain ==
  ASSUME TypeOK, CallInv, NEW r \in Requests, Writing(r)
  PROVE  /\ \E x, to, noted, number :
              /\ PlainWrite(r, x, to, noted, number)
              /\ kind \notin Locking \/ lock[x] = NoOne \/ status[x] = "none"
         /\ req' \in [Requests -> Request]
         /\ count' \in Nat
<1>0. req[r].row \in Rows /\ req[r].seen \in Statuses
  BY RequestFields
<1>1. 1 \in Rows
  BY WorkflowAssumption DEF Rows
<1>2. CASE AddFavorite(r)
  <2>1. "active" \in DOMAIN Moves[kind]
    BY <1>2, MovesKnown DEF AddFavorite, At
  <2>2. PlainWrite(r, 1, "active", req[r].seen, 0)
    BY <1>0, <1>1, <1>2, <2>1 DEF AddFavorite, PlainWrite
  <2>3. req' \in [Requests -> Request] /\ count' \in Nat
    BY <1>2, FinishTypes DEF AddFavorite, TypeOK
  <2> QED
    BY <1>1, <1>2, <2>2, <2>3 DEF AddFavorite, At, Locking
<1>3. CASE RemoveFavorite(r)
  <2>1. "removed" \in DOMAIN Moves[kind] /\ "active" \in Statuses
    BY <1>3, MovesKnown, TargetsKnown DEF RemoveFavorite, Begins
  <2>2. PlainWrite(r, 1, "removed", "active", 0)
    BY <1>1, <1>3, <2>1 DEF RemoveFavorite, PlainWrite
  <2>3. req' \in [Requests -> Request] /\ count' \in Nat
    BY <1>3, FinishTypes DEF RemoveFavorite, TypeOK
  <2> QED
    BY <1>1, <1>3, <2>2, <2>3 DEF RemoveFavorite, Begins, Locking
<1>4. CASE VerifyRescue(r)
  <2>1. CheckedOK(r) /\ req[r].step = "checked" /\ kind = "rescue"
    BY <1>4 DEF VerifyRescue, At, CallInv, CallOK
  <2>2. req[r].to \in DOMAIN Moves[kind]
    BY <2>1, MovesClosed DEF CheckedOK, TypeOK
  <2>3. PlainWrite(r, req[r].row, req[r].to, req[r].seen, version[req[r].row] + 1)
    BY <1>0, <1>4, <2>2 DEF VerifyRescue, PlainWrite
  <2>4. req' \in [Requests -> Request] /\ count' \in Nat
    BY <1>4, FinishTypes DEF VerifyRescue, TypeOK
  <2> QED
    BY <1>0, <2>1, <2>3, <2>4 DEF Locking
<1>5. ASSUME NEW k \in {"foster", "visit", "chat"}, WriteChecked(r, k)
      PROVE  /\ PlainWrite(r, req[r].row, req[r].to, req[r].seen, 0)
             /\ kind \notin Locking
             /\ req' \in [Requests -> Request] /\ count' \in Nat
  <2>1. CheckedOK(r) /\ req[r].step = "checked" /\ kind = k
    BY <1>5 DEF WriteChecked, At, CallInv, CallOK
  <2>2. req[r].to \in DOMAIN Moves[kind]
    BY <2>1, MovesClosed DEF CheckedOK, TypeOK
  <2>3. PlainWrite(r, req[r].row, req[r].to, req[r].seen, 0)
    BY <1>0, <1>5, <2>2 DEF WriteChecked, PlainWrite
  <2>4. req' \in [Requests -> Request] /\ count' \in Nat
    BY <1>5, FinishTypes DEF WriteChecked, TypeOK
  <2> QED
    BY <2>1, <2>3, <2>4 DEF Locking
<1>6. CASE CreateFosterPlacement(r)
  <2>1. PICK x \in Rows : Move(r, x, "active", "none", 0)
    BY <1>6 DEF CreateFosterPlacement
  <2>2. "active" \in DOMAIN Moves[kind] /\ "none" \in Statuses /\ kind = "foster"
    BY <1>6, MovesKnown, TargetsKnown DEF CreateFosterPlacement, Begins
  <2>3. PlainWrite(r, x, "active", "none", 0)
    BY <1>6, <2>1, <2>2 DEF CreateFosterPlacement, PlainWrite
  <2>4. req' \in [Requests -> Request] /\ count' \in Nat
    BY <1>6, FinishTypes DEF CreateFosterPlacement, TypeOK
  <2> QED
    BY <2>2, <2>3, <2>4 DEF Locking
<1>7. CASE CancelInvitation(r)
  <2>1. PICK x \in Rows : Unlocked(x) /\ Move(r, x, "cancelled", "open", 0)
    BY <1>7 DEF CancelInvitation
  <2>2. "cancelled" \in DOMAIN Moves[kind] /\ "open" \in Statuses
    BY <1>7, MovesKnown, TargetsKnown DEF CancelInvitation, Begins
  <2>4. PlainWrite(r, x, "cancelled", "open", 0) /\ lock[x] = NoOne
    BY <1>7, <2>1, <2>2 DEF CancelInvitation, PlainWrite, Unlocked
  <2>5. req' \in [Requests -> Request] /\ count' \in Nat
    BY <1>7, FinishTypes DEF CancelInvitation, TypeOK
  <2> QED
    BY <2>4, <2>5
<1>8. CASE InviteStaff(r)
  <2>1. PICK x \in Rows : Fresh(x) /\ Move(r, x, "open", "none", 0)
    BY <1>8 DEF InviteStaff
  <2>2. "open" \in DOMAIN Moves[kind] /\ "none" \in Statuses
    BY <1>8, MovesKnown, TargetsKnown DEF InviteStaff, Begins
  <2>4. PlainWrite(r, x, "open", "none", 0) /\ status[x] = "none"
    BY <1>8, <2>1, <2>2 DEF InviteStaff, PlainWrite, Fresh
  <2>5. req' \in [Requests -> Request] /\ count' \in Nat
    BY <1>8, FinishTypes DEF InviteStaff, TypeOK
  <2> QED
    BY <2>4, <2>5
<1>9. CASE InsertVisit(r)
  <2>1. PICK x \in Rows : /\ Move(r, x, "scheduled", "none", 0)
                          /\ req' = [req EXCEPT ![r].step = "inserted", ![r].row = x]
    BY <1>9 DEF InsertVisit
  <2>2. "scheduled" \in DOMAIN Moves[kind] /\ "none" \in Statuses /\ kind = "visit"
    BY <1>9, MovesKnown, TargetsKnown DEF InsertVisit, At
  <2>3. PlainWrite(r, x, "scheduled", "none", 0)
    BY <1>9, <2>1, <2>2 DEF InsertVisit, PlainWrite
  <2>4. req' \in [Requests -> Request]
    <3>1. req \in [Requests -> Request]
      BY DEF TypeOK
    <3> QED
      BY <2>1, <3>1 DEF Request, Steps
  <2>5. count' \in Nat
    BY <1>9 DEF InsertVisit, TypeOK
  <2> QED
    BY <2>2, <2>3, <2>4, <2>5 DEF Locking
<1>10. CASE OpenVisitLog(r)
  <2>1. "scheduled" \in DOMAIN Moves[kind] /\ "none" \in Statuses /\ kind = "visit"
    BY <1>10, MovesKnown, TargetsKnown DEF OpenVisitLog, At
  <2>2. PlainWrite(r, req[r].row, "scheduled", "none", 0)
    BY <1>0, <1>10, <2>1 DEF OpenVisitLog, PlainWrite
  <2>3. req' \in [Requests -> Request] /\ count' \in Nat
    BY <1>10, FinishTypes DEF OpenVisitLog, TypeOK
  <2> QED
    BY <1>0, <2>1, <2>2, <2>3 DEF Locking
<1>11. ASSUME NEW k \in {"session", "chat", "membership"}, Create(r, k)
       PROVE  /\ \E x, to, noted, number :
                   PlainWrite(r, x, to, noted, number) /\ status[x] = "none"
              /\ req' \in [Requests -> Request] /\ count' \in Nat
  <2>1. req' \in [Requests -> Request] /\ count' \in Nat
    BY <1>11, FinishTypes DEF Create, TypeOK
  <2> QED
    BY <1>11, <2>1, CreatesPlain
<1>12. CASE \E k \in {"foster", "visit", "chat"} : WriteChecked(r, k)
  BY <1>5, <1>12
<1>13. CASE \E k \in {"session", "chat", "membership"} : Create(r, k)
  BY <1>11, <1>13
<1> QED
  BY <1>2, <1>3, <1>4, <1>6, <1>7, <1>8, <1>9, <1>10, <1>12, <1>13 DEF Writing

\* Steps that read, lock, refuse or give up.
Preparing(r) ==
  \/ \E k \in Checking : Check(r, k)
  \/ \E k \in Locking : \E targets \in SUBSET Statuses : LockFor(r, k, targets)
  \/ \E k \in {"pet", "chat", "membership"} : ReadToDelete(r, k)
  \/ \E k \in Revisable : ReadToRevise(r, k)
  \/ \E k \in Found : Find(r, k)
  \/ ReadFavorite(r) \/ LockPet(r) \/ LockContent(r) \/ Refuse(r) \/ Abandon(r)

Deleting(r) ==
  \/ \E k \in {"content", "rescue"} : DeleteOnce(r, k)
  \/ \E k \in {"pet", "chat"} : DeleteRead(r, k)
  \/ RemoveStaffMember(r)

Revising(r) == \E k \in Revisable : Revise(r, k)

Step(r) ==
  \/ Preparing(r) \/ Deleting(r) \/ Writing(r) \/ Revising(r)
  \/ WriteLocked(r) \/ AppendVersion(r)

LEMMA StepCases ==
  ASSUME NEW r \in Requests, Proceed(r) \/ Abandon(r)
  PROVE  Step(r)
<1>1. CASE PetStep(r)
  <2>1. CASE ReadPet(r)
    BY <2>1 DEF ReadPet, Checking, Preparing, Step
  <2>2. CASE ReadPetToDelete(r)
    BY <2>2 DEF ReadPetToDelete, Preparing, Step
  <2>3. CASE DeletePet(r)
    BY <2>3 DEF DeletePet, Deleting, Step
  <2>4. CASE ReadPetToUpdate(r)
    BY <2>4 DEF ReadPetToUpdate, Revisable, Preparing, Step
  <2>5. CASE UpdatePet(r)
    BY <2>5 DEF UpdatePet, Revisable, Revising, Step
  <2>6. CASE FavoriteIsThere(r)
    BY <2>6 DEF FavoriteIsThere, Preparing, Step
  <2>7. CASE LockPet(r) \/ ReadFavorite(r) \/ AddFavorite(r) \/ RemoveFavorite(r)
    BY <2>7 DEF Preparing, Writing, Step
  <2> QED
    BY <1>1, <2>1, <2>2, <2>3, <2>4, <2>5, <2>6, <2>7 DEF PetStep
<1>2. CASE RescueStep(r)
  <2>1. CASE ReadRescue(r) \/ ReadFosterPlacement(r)
    BY <2>1 DEF ReadRescue, ReadFosterPlacement, Checking, Preparing, Step
  <2>2. CASE DeleteRescue(r)
    BY <2>2 DEF DeleteRescue, Deleting, Step
  <2>3. CASE ReadRescueToUpdate(r)
    BY <2>3 DEF ReadRescueToUpdate, Revisable, Preparing, Step
  <2>4. CASE UpdateRescue(r) \/ UpdateRescuePlan(r)
    BY <2>4 DEF UpdateRescue, UpdateRescuePlan, Revisable, Revising, Preparing, Step
  <2>5. CASE EndFosterPlacement(r)
    BY <2>5 DEF EndFosterPlacement, Writing, Step
  <2>6. CASE VerifyRescue(r) \/ CreateFosterPlacement(r)
    BY <2>6 DEF Writing, Step
  <2> QED
    BY <1>2, <2>1, <2>2, <2>3, <2>4, <2>5, <2>6 DEF RescueStep
<1>3. CASE StaffStep(r)
  <2>1. CASE FindMembership(r)
    BY <2>1 DEF FindMembership, Found, Preparing, Step
  <2>2. CASE CreateStaffMember(r)
    BY <2>2 DEF CreateStaffMember, Writing, Step
  <2>3. CASE ReadMembership(r)
    BY <2>3 DEF ReadMembership, Preparing, Step
  <2>4. CASE InviteAgain(r)
    BY <2>4 DEF InviteAgain, Preparing, Step
  <2>5. CASE AcceptInvitation(r)
    <3>1. {"used"} \in SUBSET Statuses /\ "invitation" \in Locking
      BY TargetsKnown DEF Locking
    <3> QED
      BY <2>5, <3>1 DEF AcceptInvitation, Preparing, Step
  <2>6. CASE RemoveStaffMember(r) \/ InviteStaff(r) \/ CancelInvitation(r)
    BY <2>6 DEF Deleting, Writing, Step
  <2> QED
    BY <1>3, <2>1, <2>2, <2>3, <2>4, <2>5, <2>6 DEF StaffStep
<1>4. CASE ContentStep(r)
  <2>1. CASE SetContentStatus(r)
    <3>1. {"published", "draft", "archived"} \in SUBSET Statuses /\ "content" \in Locking
      BY TargetsKnown DEF Locking
    <3> QED
      BY <2>1, <3>1 DEF SetContentStatus, Preparing, Step
  <2>2. CASE DeleteContent(r)
    BY <2>2 DEF DeleteContent, Deleting, Step
  <2>3. CASE LockContent(r) \/ AppendVersion(r)
    BY <2>3 DEF Preparing, Step
  <2> QED
    BY <1>4, <2>1, <2>2, <2>3 DEF ContentStep
<1>5. CASE ModerationStep(r)
  <2>1. /\ {"under_review"} \in SUBSET Statuses /\ {"resolved", "dismissed"} \in SUBSET Statuses
        /\ {"escalated"} \in SUBSET Statuses /\ {"appealed"} \in SUBSET Statuses
        /\ "report" \in Locking /\ "sanction" \in Locking
    BY TargetsKnown DEF Locking
  <2>2. \E k \in Locking : \E targets \in SUBSET Statuses : LockFor(r, k, targets)
    BY <1>5, <2>1, Zenon
       DEF ModerationStep, AssignReport, ResolveReport, EscalateReport, AppealSanction
  <2> QED
    BY <2>2 DEF Preparing, Step
<1>6. CASE SessionStep(r)
  <2>1. CASE FindSession(r)
    BY <2>1 DEF FindSession, Found, Preparing, Step
  <2>2. CASE StartSession(r)
    BY <2>2 DEF StartSession, Writing, Step
  <2>3. CASE RecordSwipe(r) \/ EndSession(r)
    <3>1. /\ {"active"} \in SUBSET Statuses /\ {"ended"} \in SUBSET Statuses
          /\ "session" \in Locking
      BY TargetsKnown DEF Locking
    <3>2. \E k \in Locking : \E targets \in SUBSET Statuses : LockFor(r, k, targets)
      BY <2>3, <3>1, Zenon DEF RecordSwipe, EndSession
    <3> QED
      BY <3>2 DEF Preparing, Step
  <2> QED
    BY <1>6, <2>1, <2>2, <2>3 DEF SessionStep
<1>7. CASE ChatStep(r)
  <2>1. CASE FindChat(r)
    BY <2>1 DEF FindChat, Found, Preparing, Step
  <2>2. CASE OpenChat(r) \/ UpdateChatStatus(r)
    BY <2>2 DEF OpenChat, UpdateChatStatus, Writing, Step
  <2>3. CASE EnsureChatWritable(r) \/ SendMessage(r)
    BY <2>3 DEF EnsureChatWritable, SendMessage, Revisable, Revising, Preparing, Step
  <2>4. CASE ReadChat(r)
    BY <2>4 DEF ReadChat, Checking, Preparing, Step
  <2>5. CASE ReadChatToDelete(r) \/ DeleteChat(r)
    BY <2>5 DEF ReadChatToDelete, DeleteChat, Deleting, Preparing, Step
  <2> QED
    BY <1>7, <2>1, <2>2, <2>3, <2>4, <2>5 DEF ChatStep
<1>8. CASE VisitStep(r)
  <2>1. CASE FindVisit(r)
    BY <2>1 DEF FindVisit, Found, Preparing, Step
  <2>2. CASE ReadVisit(r)
    BY <2>2 DEF ReadVisit, Checking, Preparing, Step
  <2>3. CASE TransitionVisit(r)
    BY <2>3 DEF TransitionVisit, Writing, Step
  <2>4. CASE InsertVisit(r) \/ OpenVisitLog(r)
    BY <2>4 DEF Writing, Step
  <2> QED
    BY <1>8, <2>1, <2>2, <2>3, <2>4 DEF VisitStep
<1>9. CASE WriteLocked(r) \/ Abandon(r)
  BY <1>9 DEF Preparing, Step
<1> QED
  BY <1>1, <1>2, <1>3, <1>4, <1>5, <1>6, <1>7, <1>8, <1>9 DEF Proceed

LEMMA PreparingKeeps ==
  ASSUME NEW r \in Requests, Preparing(r)
  PROVE  UNCHANGED <<dataVars, stale>>
BY DEF Preparing, Check, LockFor, Lock, ReadToDelete, ReadToRevise, Find, ReadFavorite,
       LockPet, LockContent, Refuse, Abandon, dataVars, rowVars, ghostVars

LEMMA PreparingTypes ==
  ASSUME TypeOK, NEW r \in Requests, Preparing(r),
         missed' \in [Requests -> SUBSET Rows], raced' \subseteq SUBSET Rows
  PROVE  TypeOK'
<1>1. 1 \in Rows
  BY WorkflowAssumption DEF Rows
<1>2. UNCHANGED <<dataVars, stale>>
  BY PreparingKeeps
<1>3. CASE \E k \in Checking : Check(r, k)
  BY <1>3, CheckTypes
<1>4. CASE LockPet(r)
  <2>1. req[r].step = "checked" /\ req[r].row \in Rows
    BY <1>4, RequestFields DEF LockPet, At
  <2>2. CASE req[r].to \in Statuses
    <3>1. Lock(r, req[r].row, req[r].to)
      BY <1>4 DEF LockPet
    <3> QED
      BY <2>1, <2>2, <3>1, LockTypes
  <2>3. CASE req[r].to \notin Statuses
    <3>1. ~ Lawful(kind, status[req[r].row], req[r].to) \/ ~ Exists(req[r].row)
      <4> SUFFICES ASSUME Lawful(kind, status[req[r].row], req[r].to), Exists(req[r].row)
                   PROVE  FALSE
        OBVIOUS
      <4>1. status[req[r].row] \in DOMAIN Moves[kind] /\ req[r].to \in Moves[kind][status[req[r].row]]
        BY <2>1 DEF TypeOK, StatusesOf, Lawful, Exists
      <4>2. req[r].to \in Statuses
        BY <4>1, MovesClosed, StatusesIncluded DEF TypeOK, StatusesOf
      <4> QED
        BY <4>2, <2>3
    <3>2. Finish(r) /\ UNCHANGED lock
      BY <1>4, <3>1 DEF LockPet, Lock
    <3> QED
      BY <1>2, <3>2, FinishTypes DEF TypeOK, dataVars
  <2> QED
    BY <2>2, <2>3
<1>5. CASE \E k \in Locking : \E targets \in SUBSET Statuses : LockFor(r, k, targets)
  BY <1>5, LockForTypes
<1>6. CASE \/ \E k \in {"pet", "chat", "membership"} : ReadToDelete(r, k)
           \/ \E k \in Revisable : ReadToRevise(r, k)
           \/ ReadFavorite(r) \/ Refuse(r)
  <2>1. req' \in [Requests -> Request]
    BY <1>1, <1>6, TargetsKnown, FinishTypes, AdvanceTypes
       DEF ReadToDelete, ReadToRevise, ReadFavorite, Refuse, Steps
  <2>2. lock' = lock
    BY <1>6 DEF ReadToDelete, ReadToRevise, ReadFavorite, Refuse
  <2> QED
    BY <1>2, <2>1, <2>2 DEF TypeOK, dataVars
<1>7. ASSUME NEW k \in Found, Find(r, k) PROVE TypeOK'
  <2>1. k \in DOMAIN Opening /\ "absent" \in Steps
    BY KindsKnown DEF Multiple, Steps
  <2>2. Opening[k] \in Statuses
    BY <2>1, OpeningKnown, StatusesIncluded DEF StatusesOf
  <2>3. Finish(r) \/ Advance(r, "absent", 1, Opening[k])
    BY <1>7 DEF Find
  <2>4. req' \in [Requests -> Request]
    BY <1>1, <2>1, <2>2, <2>3, FinishTypes, AdvanceTypes
  <2>5. lock' = lock
    BY <1>7 DEF Find
  <2> QED
    BY <1>2, <2>4, <2>5 DEF TypeOK, dataVars
<1>8. CASE LockContent(r)
  <2>1. req' \in [Requests -> Request]
    BY <1>8, AdvanceTypes DEF LockContent, Steps
  <2>2. lock' \in [Rows -> Requests \cup {NoOne}]
    BY <1>8 DEF LockContent, TypeOK
  <2> QED
    BY <1>2, <2>1, <2>2 DEF TypeOK, dataVars
<1>9. CASE Abandon(r)
  <2>1. req' \in [Requests -> Request] /\ lock' \in [Rows -> Requests \cup {NoOne}]
    BY <1>9, FinishTypes DEF Abandon, TypeOK
  <2> QED
    BY <1>2, <2>1 DEF TypeOK, dataVars
<1> QED
  BY <1>3, <1>4, <1>5, <1>6, <1>7, <1>8, <1>9 DEF Preparing

LEMMA DeleteTypes ==
  ASSUME TypeOK, NEW r \in Requests, Deleting(r),
         missed' \in [Requests -> SUBSET Rows], raced' \subseteq SUBSET Rows
  PROVE  TypeOK'
<1>1. req' \in [Requests -> Request]
  BY FinishTypes DEF Deleting, DeleteOnce, DeleteRead, RemoveStaffMember
<1>2. stale' \subseteq Requests
  <2>1. (\A x : Reading(x) \subseteq Requests) /\ Readers \subseteq Requests
    BY DEF Reading, Readers
  <2> QED
    BY <2>1 DEF Deleting, DeleteOnce, DeleteRead, RemoveStaffMember, Overtake, TypeOK
<1>3. deleted' \subseteq Rows
  BY RequestFields DEF Deleting, DeleteOnce, DeleteRead, RemoveStaffMember, TypeOK
<1> QED
  BY <1>1, <1>2, <1>3 DEF Deleting, DeleteOnce, DeleteRead, RemoveStaffMember, TypeOK

LEMMA WatchTypes ==
  ASSUME TypeOK, NEW r \in Requests, Watch(r)
  PROVE  missed' \in [Requests -> SUBSET Rows] /\ raced' \subseteq SUBSET Rows
<1>1. Open' \subseteq Rows /\ \A q \in Requests : missed[q] \subseteq Rows
  BY DEF Open, Rows, TypeOK
<1>2. missed' \in [Requests -> SUBSET Rows]
  BY <1>1 DEF Watch
<1>3. {{x, y} : x \in Open' \ Open, y \in missed[r]} \subseteq SUBSET Rows
  BY <1>1
<1>4. raced' \subseteq SUBSET Rows
  <2>1. raced \subseteq SUBSET Rows
    BY DEF TypeOK
  <2> QED
    BY <1>3, <2>1 DEF Watch
<1> QED
  BY <1>2, <1>4

LEMMA TypeStep ==
  ASSUME TypeOK, CallInv, [Next]_vars
  PROVE  TypeOK'
<1>1. CASE UNCHANGED vars
  BY <1>1 DEF vars, rowVars, ghostVars, raceVars, TypeOK
<1>2. ASSUME NEW r \in Requests, Proceed(r) \/ Abandon(r), Watch(r) PROVE TypeOK'
  <2>1. Step(r)
    BY <1>2, StepCases
  <2>4. missed' \in [Requests -> SUBSET Rows] /\ raced' \subseteq SUBSET Rows
    BY <1>2, WatchTypes
  <2>2. CASE Writing(r)
    BY <2>2, <2>4, WritesArePlain, PlainWriteTypes
  <2>3. CASE Revising(r)
    BY <2>3, <2>4, ReviseTypes DEF Revising
  <2> QED
    BY <2>1, <2>2, <2>3, <2>4, PreparingTypes, DeleteTypes, WriteLockedTypes, AppendVersionTypes
       DEF Step
<1> QED
  BY <1>1, <1>2 DEF Next

-----------------------------------------------------------------------------
(* What the calls know of the rows. *)

\* A call that is over, or has not begun, claims nothing.
LEMMA FinishedCall ==
  ASSUME TypeOK, NEW r \in Requests, Finish(r)
  PROVE  CallOK(r)' /\ \A q \in Requests : q # r => req'[q] = req[q]
<1>1. req'[r].step = "done"
  BY DEF Finish, TypeOK, Request
<1>2. \A q \in Requests : q # r => req'[q] = req[q]
  BY DEF Finish, TypeOK
<1> QED
  BY <1>1, <1>2 DEF CallOK, LockedOK, CheckedOK, CreatingOK, RevisingOK

\* What Advance leaves in the call.
LEMMA AdvancedCall ==
  ASSUME TypeOK, NEW r \in Requests, NEW step, NEW x \in Rows, NEW to,
         Advance(r, step, x, to)
  PROVE  /\ req'[r].step = step /\ req'[r].row = x /\ req'[r].to = to
         /\ req'[r].seen = status[x] /\ req'[r].at = version[x]
         /\ \A q \in Requests : q # r => req'[q] = req[q]
BY DEF Advance, TypeOK

\* A step that changes no record leaves the other calls what they know.
LEMMA OthersUndisturbed ==
  ASSUME TypeOK, CallInv, NEW r \in Requests, NEW q \in Requests, q # r,
         req'[q] = req[q], UNCHANGED <<dataVars, stale>>,
         \A x \in Rows : lock[x] = q => lock'[x] = q
  PROVE  CallOK(q)'
<1>1. LockedOK(q)'
  <2>1. LockedOK(q) /\ req[q].row \in Rows
    BY RequestFields DEF CallInv, CallOK
  <2> QED
    BY <2>1 DEF LockedOK, dataVars
<1>2. CheckedOK(q)'
  BY DEF CallInv, CallOK, CheckedOK, dataVars
<1>3. CreatingOK(q)'
  BY DEF CallInv, CallOK, CreatingOK, dataVars, Open, Exists
<1>4. RevisingOK(q)'
  BY DEF CallInv, CallOK, RevisingOK, dataVars
<1> QED
  BY <1>1, <1>2, <1>3, <1>4 DEF CallOK

\* A check on an unlocked row is true when it is made.
LEMMA CheckedCall ==
  ASSUME TypeOK, NEW r \in Requests, NEW k \in Checking, Check(r, k)
  PROVE  CallOK(r)' /\ lock' = lock /\ \A q \in Requests : q # r => req'[q] = req[q]
<1>1. PICK x \in Rows : \E to \in Moves[k][status[x]] :
        Exists(x) /\ Advance(r, "checked", x, to)
  BY DEF Check
<1>2. PICK to \in Moves[k][status[x]] : Advance(r, "checked", x, to)
  BY <1>1
<1>3. /\ kind = k /\ status[x] \in DOMAIN Moves[k] /\ status[x] # "none"
      /\ x \notin deleted
  BY <1>1 DEF Check, Begins, Exists, TypeOK, StatusesOf
<1>4. UNCHANGED <<kind, status, deleted, version, lock>>
  BY DEF Check, rowVars
<1>7. /\ req'[r].step = "checked" /\ req'[r].row = x /\ req'[r].to = to
      /\ req'[r].seen = status[x]
      /\ \A q \in Requests : q # r => req'[q] = req[q]
  BY <1>2, AdvancedCall
<1>5. CheckedOK(r)'
  BY <1>1, <1>2, <1>3, <1>4, <1>7 DEF CheckedOK, Checking
<1>6. LockedOK(r)' /\ CreatingOK(r)' /\ RevisingOK(r)'
  BY <1>7 DEF LockedOK, CreatingOK, RevisingOK
<1> QED
  BY <1>4, <1>5, <1>6, <1>7 DEF CallOK

\* A refused or granted lock: the check is true of the locked row.
LEMMA LockedCall ==
  ASSUME TypeOK, NEW r \in Requests, NEW x \in Rows, NEW to,
         kind \in Locking, status[x] # "none", Lock(r, x, to)
  PROVE  /\ CallOK(r)' /\ \A q \in Requests : q # r => req'[q] = req[q]
         /\ \A q \in Requests, y \in Rows : q # r /\ lock[y] = q => lock'[y] = q
<1>1. UNCHANGED <<kind, status, deleted, version>> /\ lock[x] = NoOne
  BY DEF Lock, rowVars, Unlocked
<1>2. NoOne \notin Requests
  BY WorkflowAssumption
<1>3. CASE ~ (Exists(x) /\ Lawful(kind, status[x], to))
  <2>1. Finish(r) /\ lock' = lock
    BY <1>3 DEF Lock
  <2> QED
    BY <2>1, FinishedCall
<1>4. CASE Exists(x) /\ Lawful(kind, status[x], to)
  <2>1. Advance(r, "locked", x, to) /\ lock' = [lock EXCEPT ![x] = r]
    BY <1>4 DEF Lock
  <2>2. x \notin deleted /\ status[x] \in DOMAIN Moves[kind] /\ to \in Moves[kind][status[x]]
    BY <1>4 DEF Exists, Lawful, TypeOK, StatusesOf
  <2>3. lock'[x] = r
    BY <2>1 DEF TypeOK
  <2>7. /\ req'[r].step = "locked" /\ req'[r].row = x /\ req'[r].to = to
        /\ req'[r].seen = status[x] /\ req'[r].at = version[x]
        /\ \A q \in Requests : q # r => req'[q] = req[q]
    BY <2>1, AdvancedCall
  <2>4. LockedOK(r)'
    BY <1>1, <2>2, <2>3, <2>7 DEF LockedOK
  <2>5. CheckedOK(r)' /\ CreatingOK(r)' /\ RevisingOK(r)'
    BY <2>7 DEF CheckedOK, CreatingOK, RevisingOK
  <2>6. \A q \in Requests, y \in Rows : q # r /\ lock[y] = q => lock'[y] = q
    BY <1>1, <1>2, <2>1 DEF TypeOK
  <2> QED
    BY <2>4, <2>5, <2>6, <2>7 DEF CallOK
<1> QED
  BY <1>3, <1>4

LEMMA LockedForCall ==
  ASSUME TypeOK, NEW r \in Requests, NEW k \in Locking, NEW targets,
         LockFor(r, k, targets)
  PROVE  /\ CallOK(r)' /\ \A q \in Requests : q # r => req'[q] = req[q]
         /\ \A q \in Requests, y \in Rows : q # r /\ lock[y] = q => lock'[y] = q
<1>1. PICK x \in Rows : \E to \in targets : status[x] # "none" /\ Lock(r, x, to)
  BY DEF LockFor
<1>2. PICK to \in targets : Lock(r, x, to)
  BY <1>1
<1>3. kind \in Locking
  BY DEF LockFor, Begins
<1> QED
  BY <1>1, <1>2, <1>3, LockedCall

LEMMA LockedContentCall ==
  ASSUME TypeOK, NEW r \in Requests, LockContent(r)
  PROVE  /\ CallOK(r)' /\ \A q \in Requests : q # r => req'[q] = req[q]
         /\ \A q \in Requests, y \in Rows : q # r /\ lock[y] = q => lock'[y] = q
<1>1. PICK x \in Rows : /\ Exists(x) /\ Unlocked(x)
                        /\ Advance(r, "locked", x, "revised")
                        /\ lock' = [lock EXCEPT ![x] = r]
  BY DEF LockContent
<1>2. /\ UNCHANGED <<kind, status, deleted, version>> /\ lock[x] = NoOne
      /\ kind = "content"
  BY <1>1 DEF LockContent, rowVars, Unlocked, Begins
<1>3. x \notin deleted /\ status[x] \in DOMAIN Moves[kind] /\ lock'[x] = r
  BY <1>1 DEF Exists, TypeOK, StatusesOf
<1>4. /\ req'[r].step = "locked" /\ req'[r].row = x /\ req'[r].to = "revised"
      /\ req'[r].seen = status[x] /\ req'[r].at = version[x]
      /\ \A q \in Requests : q # r => req'[q] = req[q]
  BY <1>1, AdvancedCall
<1>5. LockedOK(r)'
  BY <1>2, <1>3, <1>4 DEF LockedOK, Locking
<1>6. CheckedOK(r)' /\ CreatingOK(r)' /\ RevisingOK(r)'
  BY <1>4 DEF CheckedOK, CreatingOK, RevisingOK
<1>7. \A q \in Requests, y \in Rows : q # r /\ lock[y] = q => lock'[y] = q
  BY <1>1, <1>2, WorkflowAssumption DEF TypeOK
<1> QED
  BY <1>4, <1>5, <1>6, <1>7 DEF CallOK

\* Reads that find nothing to continue from, and the reads of what is to be
\* changed or deleted.
LEMMA ReadingCall ==
  ASSUME TypeOK, NEW r \in Requests,
         \/ \E k \in {"pet", "chat", "membership"} : ReadToDelete(r, k)
         \/ \E k \in Revisable : ReadToRevise(r, k)
         \/ \E k \in Found : Find(r, k)
         \/ Refuse(r)
  PROVE  CallOK(r)' /\ lock' = lock /\ \A q \in Requests : q # r => req'[q] = req[q]
<1>0. 1 \in Rows
  BY WorkflowAssumption DEF Rows
<1>1. lock' = lock /\ UNCHANGED <<kind, status, deleted, version, stale>>
  BY DEF ReadToDelete, ReadToRevise, Find, Refuse, rowVars, ghostVars
<1>2. CASE Finish(r)
  BY <1>1, <1>2, FinishedCall
<1>3. ASSUME NEW k \in {"pet", "chat", "membership"}, ReadToDelete(r, k)
      PROVE  CallOK(r)' /\ \A q \in Requests : q # r => req'[q] = req[q]
  <2>1. PICK x \in Rows : Exists(x) /\ Advance(r, "deleting", x, "none")
    BY <1>3 DEF ReadToDelete
  <2>2. /\ req'[r].step = "deleting" /\ req'[r].row = x
        /\ \A q \in Requests : q # r => req'[q] = req[q]
    BY <2>1, AdvancedCall
  <2>3. kind' = k /\ status'[x] # "none"
    BY <1>1, <1>3, <2>1 DEF ReadToDelete, Begins, Exists
  <2> QED
    BY <2>2, <2>3 DEF CallOK, LockedOK, CheckedOK, CreatingOK, RevisingOK
<1>4. ASSUME NEW k \in Found, Find(r, k), ~ Finish(r)
      PROVE  CallOK(r)' /\ \A q \in Requests : q # r => req'[q] = req[q]
  <2>1. Advance(r, "absent", 1, Opening[k])
    BY <1>4 DEF Find
  <2>2. req'[r].step = "absent" /\ \A q \in Requests : q # r => req'[q] = req[q]
    BY <1>0, <2>1, AdvancedCall
  <2>3. kind' \in Found /\ Open = {}
    BY <1>1, <1>4 DEF Find, Begins
  <2>4. Open' = {}
    BY <1>1, <2>3 DEF Open, Exists
  <2> QED
    BY <1>1, <2>2, <2>3, <2>4 DEF CallOK, LockedOK, CheckedOK, CreatingOK, RevisingOK
<1>5. ASSUME NEW k \in Revisable, ReadToRevise(r, k)
      PROVE  CallOK(r)' /\ \A q \in Requests : q # r => req'[q] = req[q]
  <2>1. PICK x \in Rows : /\ Exists(x) /\ Writable(k, status[x])
                          /\ Advance(r, "revising", x, "revised")
    BY <1>5 DEF ReadToRevise
  <2>2. /\ req'[r].step = "revising" /\ req'[r].row = x
        /\ \A q \in Requests : q # r => req'[q] = req[q]
    BY <2>1, AdvancedCall
  <2>3. kind = k
    BY <1>5 DEF ReadToRevise, Begins
  <2>4. RevisingOK(r)'
    BY <1>1, <2>1, <2>2, <2>3 DEF RevisingOK, Exists, Writable
  <2> QED
    BY <2>2, <2>4 DEF CallOK, LockedOK, CheckedOK, CreatingOK
<1> QED
  BY <1>1, <1>2, <1>3, <1>4, <1>5 DEF Refuse

LEMMA ReadingFavorite ==
  ASSUME TypeOK, ShapeInv, NEW r \in Requests, ReadFavorite(r)
  PROVE  CallOK(r)' /\ lock' = lock /\ \A q \in Requests : q # r => req'[q] = req[q]
<1>0. 1 \in Rows
  BY WorkflowAssumption DEF Rows
<1>1. lock' = lock /\ UNCHANGED <<kind, status, deleted, version, stale>>
  BY DEF ReadFavorite, rowVars, ghostVars
<1>2. CASE Finish(r)
  BY <1>1, <1>2, FinishedCall
<1>3. CASE ~ Finish(r)
  <2>1. kind = "favorite" /\ status[1] # "active" /\ status[1] \in StatusesOf(kind)
    BY <1>0, <1>3 DEF ReadFavorite, Begins, TypeOK
  <2>2. CASE status[1] = "none"
    <3>1. Advance(r, "absent", 1, "active")
      BY <1>3, <2>1, <2>2 DEF ReadFavorite
    <3>2. req'[r].step = "absent" /\ \A q \in Requests : q # r => req'[q] = req[q]
      BY <1>0, <3>1, AdvancedCall
    <3> QED
      BY <1>1, <2>1, <3>2 DEF CallOK, LockedOK, CheckedOK, CreatingOK, RevisingOK
  <2>3. CASE status[1] # "none"
    <3>1. Advance(r, "checked", 1, "active")
      BY <1>3, <2>1, <2>3 DEF ReadFavorite
    <3>2. /\ req'[r].step = "checked" /\ req'[r].row = 1 /\ req'[r].to = "active"
          /\ req'[r].seen = status[1]
          /\ \A q \in Requests : q # r => req'[q] = req[q]
      BY <1>0, <3>1, AdvancedCall
    <3>3. status[1] \in DOMAIN Moves[kind] /\ "active" \in Moves[kind][status[1]]
      <4>1. status[1] = "removed"
        BY <2>1, <2>3 DEF StatusesOf, Moves
      <4> QED
        BY <2>1, <4>1, MovesKnown
    <3>4. deleted = {}
      BY <2>1 DEF ShapeInv, Deletable
    <3>5. CheckedOK(r)'
      BY <1>1, <2>1, <2>3, <3>2, <3>3, <3>4 DEF CheckedOK
    <3> QED
      BY <1>1, <3>2, <3>5 DEF CallOK, LockedOK, CreatingOK, RevisingOK
  <2> QED
    BY <2>2, <2>3
<1> QED
  BY <1>2, <1>3

LEMMA PreparingCalls ==
  ASSUME TypeOK, CallInv, ShapeInv, NEW r \in Requests, Preparing(r)
  PROVE  CallInv'
<1>1. /\ CallOK(r)' /\ \A q \in Requests : q # r => req'[q] = req[q]
      /\ \A q \in Requests, y \in Rows : q # r /\ lock[y] = q => lock'[y] = q
  <2>1. CASE \E k \in Checking : Check(r, k)
    BY <2>1, CheckedCall
  <2>2. CASE LockPet(r)
    <3>1. CheckedOK(r) /\ req[r].step = "checked" /\ kind = "pet" /\ req[r].row \in Rows
      BY <2>2, RequestFields DEF LockPet, At, CallInv, CallOK
    <3>2. Lock(r, req[r].row, req[r].to) /\ status[req[r].row] # "none" /\ kind \in Locking
      BY <2>2, <3>1 DEF LockPet, CheckedOK, Locking
    <3> QED
      BY <3>1, <3>2, LockedCall
  <2>3. CASE \E k \in Locking : \E targets \in SUBSET Statuses : LockFor(r, k, targets)
    BY <2>3, LockedForCall
  <2>4. CASE LockContent(r)
    BY <2>4, LockedContentCall
  <2>5. CASE \/ \E k \in {"pet", "chat", "membership"} : ReadToDelete(r, k)
             \/ \E k \in Revisable : ReadToRevise(r, k)
             \/ \E k \in Found : Find(r, k)
             \/ Refuse(r)
    BY <2>5, ReadingCall
  <2>6. CASE Abandon(r)
    <3>1. \A q \in Requests, y \in Rows : q # r /\ lock[y] = q => lock'[y] = q
      BY <2>6 DEF Abandon
    <3> QED
      BY <2>6, <3>1, FinishedCall DEF Abandon
  <2>7. CASE ReadFavorite(r)
    BY <2>7, ReadingFavorite
  <2> QED
    BY <2>1, <2>2, <2>3, <2>4, <2>5, <2>6, <2>7 DEF Preparing
<1>2. UNCHANGED <<dataVars, stale>>
  BY PreparingKeeps
<1>3. \A q \in Requests : q # r => CallOK(q)'
  BY <1>1, <1>2, OthersUndisturbed
<1> QED
  BY <1>1, <1>3 DEF CallInv

\* A write to a row nobody else has locked keeps what every other call knows.
LEMMA WriteDisturbs ==
  ASSUME TypeOK, CallInv, NEW r \in Requests, NEW x \in Rows, kind' = kind,
         \A q \in Requests : q # r => req'[q] = req[q],
         \A y \in Rows : y # x => status'[y] = status[y] /\ version'[y] = version[y],
         status'[x] # "none" \/ status'[x] = status[x],
         deleted' \subseteq deleted \cup {x},
         Overtake(r, x),
         \A y \in Rows : y # x => lock'[y] = lock[y],
         kind \notin Locking \/ lock[x] \in {NoOne, r} \/ status[x] = "none"
  PROVE  \A q \in Requests : q # r => CallOK(q)'
<1> SUFFICES ASSUME NEW q \in Requests, q # r PROVE CallOK(q)'
  OBVIOUS
<1>1. LockedOK(q) /\ req[q].row \in Rows
  BY RequestFields DEF CallInv, CallOK
<1>2. NoOne \notin Requests /\ kind \in Kinds
  BY WorkflowAssumption DEF TypeOK
<1>3. "none" \notin DOMAIN Moves[kind]
  BY <1>2, PseudoStatuses
<1>4. req[q].step = "locked" => req[q].row # x
  BY <1>1, <1>2, <1>3 DEF LockedOK
<1>5. LockedOK(q)'
  BY <1>1, <1>4 DEF LockedOK
<1>6. CheckedOK(q)'
  <2>1. CheckedOK(q) /\ stale \subseteq stale'
    BY DEF CallInv, CallOK, Overtake
  <2>2. req[q].step = "checked" /\ req[q].row = x => q \in stale'
    BY DEF Overtake, Reading
  <2> QED
    BY <1>1, <2>1, <2>2 DEF CheckedOK
<1>7. CreatingOK(q)'
  <2>1. CreatingOK(q) /\ stale \subseteq stale'
    BY DEF CallInv, CallOK, Overtake
  <2>2. req[q].step = "absent" => q \in stale'
    BY DEF Overtake, Reading
  <2>3. req[q].step = "inserted" /\ req[q].row = x => q \in stale'
    BY DEF Overtake, Reading
  <2> QED
    BY <1>1, <2>1, <2>2, <2>3 DEF CreatingOK
<1>8. RevisingOK(q)'
  <2>1. RevisingOK(q) /\ stale \subseteq stale'
    BY DEF CallInv, CallOK, Overtake
  <2>2. req[q].step = "revising" /\ req[q].row = x => q \in stale'
    BY DEF Overtake, Reading
  <2> QED
    BY <1>1, <2>1, <2>2 DEF RevisingOK
<1> QED
  BY <1>5, <1>6, <1>7, <1>8 DEF CallOK

\* A change of the data of an unlocked row disturbs no other call.
LEMMA RevisingCalls ==
  ASSUME TypeOK, CallInv, NEW r \in Requests, Revising(r)
  PROVE  CallInv'
<1> DEFINE x == req[r].row
<1>1. PICK k \in Revisable : Revise(r, k)
  BY DEF Revising
<1>2. /\ x \in Rows /\ lock[x] = NoOne
      /\ UNCHANGED <<kind, status, deleted, lock, stale>>
  BY <1>1, RequestFields DEF Revise, Unlocked
<1>3. \A y \in Rows : y # x => version'[y] = version[y]
  BY <1>1, <1>2 DEF Revise, TypeOK
<1>4. CallOK(r)' /\ \A q \in Requests : q # r => req'[q] = req[q]
  BY <1>1, FinishedCall DEF Revise
<1> HIDE DEF x
<1>5. ASSUME NEW q \in Requests, q # r PROVE CallOK(q)'
  <2>1. CallOK(q) /\ req[q].row \in Rows /\ NoOne \notin Requests /\ req'[q] = req[q]
    BY <1>4, <1>5, RequestFields, WorkflowAssumption DEF CallInv
  <2>2. LockedOK(q)'
    BY <1>2, <1>3, <2>1 DEF CallOK, LockedOK
  <2>3. CheckedOK(q)' /\ RevisingOK(q)'
    BY <1>2, <2>1 DEF CallOK, CheckedOK, RevisingOK
  <2>4. CreatingOK(q)'
    BY <1>2, <2>1 DEF CallOK, CreatingOK, Open, Exists
  <2> QED
    BY <2>2, <2>3, <2>4 DEF CallOK
<1> QED
  BY <1>4, <1>5 DEF CallInv

LEMMA DeletingCalls ==
  ASSUME TypeOK, CallInv, NEW r \in Requests, Deleting(r)
  PROVE  CallInv' /\ UNCHANGED <<kind, status, version, count, history>>
                  /\ kind \in Deletable /\ deleted \subseteq deleted'
                  /\ \A x \in deleted' : x \in deleted \/ status[x] # "none"
<1>1. /\ UNCHANGED <<kind, status, version, count, lock, history>>
      /\ kind \in Deletable /\ deleted \subseteq deleted'
  BY DEF Deleting, DeleteOnce, DeleteRead, RemoveStaffMember, Begins, At, Deletable
<1>2. CallOK(r)' /\ \A q \in Requests : q # r => req'[q] = req[q]
  BY FinishedCall DEF Deleting, DeleteOnce, DeleteRead, RemoveStaffMember
<1>3. CASE ~ RemoveStaffMember(r)
  <2>0. req[r].step = "deleting" => status[req[r].row] # "none"
    BY DEF CallInv, CallOK, CreatingOK
  <2>1. PICK x \in Rows : /\ Unlocked(x) /\ deleted' = deleted \cup {x} /\ Overtake(r, x)
                          /\ status[x] # "none"
    BY <1>3, <2>0, RequestFields DEF Deleting, DeleteOnce, DeleteRead, At
  <2>2. lock[x] \in {NoOne, r}
    BY <2>1 DEF Unlocked
  <2>3. \A q \in Requests : q # r => CallOK(q)'
    BY <1>1, <1>2, <2>1, <2>2, WriteDisturbs
  <2> QED
    BY <1>1, <1>2, <2>1, <2>3 DEF CallInv
<1>4. CASE RemoveStaffMember(r)
  <2>1. 1 \in Rows /\ kind = "membership"
    BY <1>4, WorkflowAssumption DEF RemoveStaffMember, At, Rows
  <2>2. stale' = stale \cup (Readers \ {r})
    BY <1>4 DEF RemoveStaffMember
  <2>4. Reading(1) \subseteq Readers
    BY <2>1 DEF Readers
  <2>3. ASSUME NEW q \in Requests, q # r PROVE CallOK(q)'
    <3>1. CallOK(q) /\ req'[q] = req[q]
      BY <1>2, <2>3 DEF CallInv
    <3>2. req[q].step \notin {"locked", "checked", "inserted", "revising"}
      BY <2>1, <3>1 DEF CallOK, LockedOK, CheckedOK, CreatingOK, RevisingOK, Locking,
                        Checking, Revisable
    <3>3. req[q].step = "absent" => q \in Reading(1)
      BY DEF Reading
    <3>4. req[q].step = "absent" => q \in stale'
      BY <2>2, <2>3, <2>4, <3>3
    <3> QED
      BY <1>1, <3>1, <3>2, <3>4 DEF CallOK, LockedOK, CheckedOK, CreatingOK, RevisingOK
  <2>5. \A x \in deleted' : x \in deleted \/ status[x] # "none"
    BY <1>4 DEF RemoveStaffMember
  <2> QED
    BY <1>1, <1>2, <2>3, <2>5 DEF CallInv
<1> QED
  BY <1>3, <1>4

\* What a plain write leaves the rows like.
LEMMA PlainWriteRows ==
  ASSUME TypeOK, NEW r \in Requests, NEW x, NEW to, NEW noted, NEW number,
         PlainWrite(r, x, to, noted, number)
  PROVE  /\ x \in Rows /\ kind' = kind /\ deleted' = deleted /\ lock' = lock
         /\ status' = [status EXCEPT ![x] = to]
         /\ \A y \in Rows : y # x => status'[y] = status[y] /\ version'[y] = version[y]
         /\ status'[x] = to /\ to # "none" /\ to \in DOMAIN Moves[kind]
         /\ Overtake(r, x)
<1>1. "none" \notin DOMAIN Moves[kind]
  BY PseudoStatuses DEF TypeOK
<1> QED
  BY <1>1 DEF PlainWrite, Move, Record, TypeOK

LEMMA WritingCalls ==
  ASSUME TypeOK, CallInv, NEW r \in Requests, Writing(r)
  PROVE  CallInv'
<1>1. PICK x, to, noted, number :
        /\ PlainWrite(r, x, to, noted, number)
        /\ kind \notin Locking \/ lock[x] = NoOne \/ status[x] = "none"
  BY WritesArePlain
<1>2. /\ x \in Rows /\ kind' = kind /\ deleted' = deleted /\ lock' = lock
      /\ \A y \in Rows : y # x => status'[y] = status[y] /\ version'[y] = version[y]
      /\ status'[x] # "none" /\ Overtake(r, x)
  BY <1>1, PlainWriteRows
<1>3. CallOK(r)' /\ \A q \in Requests : q # r => req'[q] = req[q]
  <2>1. CASE Finish(r)
    BY <2>1, FinishedCall
  <2>2. CASE ~ Finish(r)
    <3>1. InsertVisit(r)
      BY <2>2 DEF Writing, AddFavorite, RemoveFavorite, VerifyRescue, CreateFosterPlacement,
                  InviteStaff, CancelInvitation, OpenVisitLog, WriteChecked, Create
    <3>2. PICK y \in Rows : /\ Move(r, y, "scheduled", "none", 0)
                            /\ req' = [req EXCEPT ![r].step = "inserted", ![r].row = y]
      BY <3>1 DEF InsertVisit
    <3>3. /\ req'[r].step = "inserted" /\ req'[r].row = y
          /\ \A q \in Requests : q # r => req'[q] = req[q]
      BY <3>2 DEF TypeOK, Request
    <3>4. status'[y] = "scheduled" /\ kind' = "visit"
      BY <3>1, <3>2 DEF Move, TypeOK, InsertVisit, At
    <3> QED
      BY <3>3, <3>4 DEF CallOK, LockedOK, CheckedOK, CreatingOK, RevisingOK
  <2> QED
    BY <2>1, <2>2
<1>4. \A q \in Requests : q # r => CallOK(q)'
  BY <1>1, <1>2, <1>3, WriteDisturbs
<1> QED
  BY <1>3, <1>4 DEF CallInv

LEMMA LockedWriteCalls ==
  ASSUME TypeOK, CallInv, NEW r \in Requests, WriteLocked(r) \/ AppendVersion(r)
  PROVE  CallInv'
<1> DEFINE x == req[r].row
<1>1. x \in Rows /\ LockedOK(r) /\ req[r].step = "locked"
  BY RequestFields DEF WriteLocked, AppendVersion, At, CallInv, CallOK
<1>2. /\ Overtake(r, x) /\ kind' = kind /\ deleted' = deleted
      /\ Finish(r) /\ lock' = [lock EXCEPT ![x] = NoOne]
  BY DEF WriteLocked, AppendVersion, Move, Record
<1>3. /\ \A y \in Rows : y # x => status'[y] = status[y] /\ version'[y] = version[y]
      /\ \A y \in Rows : y # x => lock'[y] = lock[y]
  BY <1>1, <1>2 DEF WriteLocked, AppendVersion, Move, TypeOK
<1>4. status'[x] # "none" \/ status'[x] = status[x]
  <2>1. CASE WriteLocked(r)
    <3>1. req[r].to \in DOMAIN Moves[kind]
      BY <1>1, <2>1, MovesClosed DEF WriteLocked, LockedOK, TypeOK
    <3>2. req[r].to # "none"
      BY <3>1, PseudoStatuses DEF TypeOK
    <3> QED
      BY <1>1, <2>1, <3>2 DEF WriteLocked, Move, TypeOK
  <2>2. CASE AppendVersion(r)
    BY <2>2 DEF AppendVersion
  <2> QED
    BY <2>1, <2>2
<1>5. CallOK(r)' /\ \A q \in Requests : q # r => req'[q] = req[q]
  BY <1>2, FinishedCall
<1>6. lock[x] \in {NoOne, r}
  BY <1>1 DEF LockedOK
<1> HIDE DEF x
<1>7. \A q \in Requests : q # r => CallOK(q)'
  BY <1>1, <1>2, <1>3, <1>4, <1>5, <1>6, WriteDisturbs
<1> QED
  BY <1>5, <1>7 DEF CallInv

LEMMA CallStep ==
  ASSUME TypeOK, CallInv, ShapeInv, [Next]_vars
  PROVE  CallInv'
<1>1. CASE UNCHANGED vars
  BY <1>1 DEF vars, rowVars, ghostVars, CallInv, CallOK, LockedOK, CheckedOK, CreatingOK, RevisingOK,
              Open, Exists
<1>2. ASSUME NEW r \in Requests, Proceed(r) \/ Abandon(r) PROVE CallInv'
  <2>1. Step(r)
    BY <1>2, StepCases
  <2> QED
    BY <2>1, PreparingCalls, DeletingCalls, WritingCalls, RevisingCalls, LockedWriteCalls
       DEF Step
<1> QED
  BY <1>1, <1>2 DEF Next

-----------------------------------------------------------------------------
(* The records and their history. *)

\* What a write adds to the history, and the version numbers of that.
LEMMA VersionsKept ==
  ASSUME TypeOK, VersionInv, NumberedOnce, NEW x \in Rows,
         NEW to \in Statuses \cup {"revised"}, NEW noted \in Statuses, NEW number \in Nat,
         Note(x, to, noted, number), version' \in [Rows -> Nat],
         \A y \in Rows : version[y] <= version'[y],
         number = 0 \/ (version[x] < number /\ number <= version'[x])
  PROVE  VersionInv' /\ NumberedOnce'
<1>1. /\ Len(history') = Len(history) + 1 /\ Len(history) \in Nat
      /\ \A i \in 1..Len(history) : history'[i] = history[i] /\ history[i] \in Write
      /\ history'[Len(history) + 1].row = x
      /\ history'[Len(history) + 1].number = number
  BY Noted
<1>2. \A y \in Rows : /\ version[y] \in Nat /\ version'[y] \in Nat
                      /\ version[y] <= version'[y]
  BY DEF TypeOK
<1>3. number <= version'[x] /\ (number # 0 => version[x] < number)
  BY <1>2
<1>4. \A i \in 1..Len(history) :
        /\ history'[i].row \in Rows /\ history'[i].number \in Nat
        /\ history'[i].row = history[i].row /\ history'[i].number = history[i].number
        /\ history'[i].number <= version[history[i].row]
  BY <1>1 DEF Write, VersionInv
<1>5. \A i \in 1..Len(history') : i \in 1..Len(history) \/ i = Len(history) + 1
  BY <1>1
<1>6. VersionInv'
  <2> SUFFICES ASSUME NEW i \in 1..Len(history')
               PROVE  history'[i].number <= version'[history'[i].row]
    BY DEF VersionInv
  <2>1. CASE i = Len(history) + 1
    BY <1>1, <1>3, <2>1
  <2>2. CASE i \in 1..Len(history)
    BY <1>2, <1>4, <2>2
  <2> QED
    BY <1>5, <2>1, <2>2
<1>7. \A i \in 1..Len(history) :
        history'[i].row = x /\ number # 0 => history'[i].number < number
  BY <1>2, <1>3, <1>4
<1>8. NumberedOnce'
  <2> SUFFICES ASSUME NEW i \in 1..Len(history'), NEW j \in 1..Len(history'),
                      i # j, history'[i].row = history'[j].row, history'[i].number # 0
               PROVE  history'[i].number # history'[j].number
    BY DEF NumberedOnce
  <2>1. CASE i \in 1..Len(history) /\ j \in 1..Len(history)
    BY <1>4, <2>1 DEF NumberedOnce
  <2>2. CASE i = Len(history) + 1 /\ j \in 1..Len(history)
    BY <1>1, <1>4, <1>7, <2>2
  <2>3. CASE j = Len(history) + 1 /\ i \in 1..Len(history)
    BY <1>1, <1>4, <1>7, <2>3
  <2> QED
    BY <1>5, <2>1, <2>2, <2>3
<1> QED
  BY <1>6, <1>8

\* A number that is one more than the version, or none and the version as it was.
LEMMA VersionsGrow ==
  ASSUME TypeOK, NEW x \in Rows, NEW number,
         \/ number = 0 /\ version' = version
         \/ number \in {0, version[x] + 1} /\ version' = [version EXCEPT ![x] = @ + 1]
  PROVE  /\ number \in Nat /\ version' \in [Rows -> Nat]
         /\ \A y \in Rows : version[y] <= version'[y]
         /\ number = 0 \/ (version[x] < number /\ number <= version'[x])
<1>1. version \in [Rows -> Nat] /\ version[x] + 1 \in Nat /\ version[x] < version[x] + 1
  BY DEF TypeOK
<1>2. CASE number = 0 /\ version' = version
  BY <1>1, <1>2
<1>3. CASE number \in {0, version[x] + 1} /\ version' = [version EXCEPT ![x] = @ + 1]
  <2>1. version'[x] = version[x] + 1 /\ \A y \in Rows : y # x => version'[y] = version[y]
    BY <1>1, <1>3
  <2>2. version' \in [Rows -> Nat]
    BY <1>1, <1>3
  <2>3. \A y \in Rows : version[y] <= version'[y]
    BY <1>1, <2>1
  <2> QED
    BY <1>1, <1>3, <2>1, <2>2, <2>3
<1> QED
  BY <1>2, <1>3

\* The trail stays truthful when a pet's or report's write notes what it left.
LEMMA TrailKept ==
  ASSUME TypeOK, TruthfulTrail, NEW x \in Rows,
         NEW to \in Statuses \cup {"revised"}, NEW noted \in Statuses, NEW number \in Nat,
         Note(x, to, noted, number), kind' = kind,
         kind \in {"pet", "report"} => noted = status[x]
  PROVE  TruthfulTrail'
<1>1. /\ Len(history') = Len(history) + 1 /\ Len(history) \in Nat
      /\ \A i \in 1..Len(history) : history'[i] = history[i]
      /\ history'[Len(history) + 1].from = status[x]
      /\ history'[Len(history) + 1].noted = noted
  BY Noted
<1>2. \A i \in 1..Len(history') : i \in 1..Len(history) \/ i = Len(history) + 1
  BY <1>1
<1> QED
  BY <1>1, <1>2 DEF TruthfulTrail

\* A step makes one write: the history tells which.
LEMMA SameWrite ==
  ASSUME TypeOK, NEW x \in Rows, NEW y \in Rows,
         NEW to \in Statuses \cup {"revised"}, NEW to2 \in Statuses \cup {"revised"},
         NEW noted \in Statuses, NEW noted2 \in Statuses,
         NEW number \in Nat, NEW number2 \in Nat,
         Note(x, to, noted, number), Note(y, to2, noted2, number2)
  PROVE  x = y /\ to = to2
<1>1. history'[Len(history) + 1].row = x /\ history'[Len(history) + 1].to = to
  BY Noted
<1>2. history'[Len(history) + 1].row = y /\ history'[Len(history) + 1].to = to2
  BY Noted
<1> QED
  BY <1>1, <1>2

\* A move to a row that is already there, or to a new one of a kind that may
\* have several.
LEMMA ShapeKept ==
  ASSUME TypeOK, ShapeInv, NEW x \in Rows, NEW to,
         status' = [status EXCEPT ![x] = to], kind' = kind, deleted' = deleted,
         to # "none", status[x] # "none" \/ x = 1 \/ kind \in Multiple
  PROVE  ShapeInv'
<1>1. status'[x] = to /\ \A y \in Rows : y # x => status'[y] = status[y]
  BY DEF TypeOK
<1>2. deleted \subseteq Rows
  BY DEF TypeOK
<1> QED
  BY <1>1, <1>2 DEF ShapeInv

\* An unlocked write creates a row only where a kind may have several.
LEMMA WritingShape ==
  ASSUME TypeOK, CallInv, NEW r \in Requests, Writing(r),
         NEW x, NEW to, NEW noted, NEW number, PlainWrite(r, x, to, noted, number)
  PROVE  status[x] # "none" \/ x = 1 \/ kind \in Multiple
<1>0. x \in Rows /\ to # "none" /\ status' = [status EXCEPT ![x] = to]
  BY PlainWriteRows
<1>1. CASE AddFavorite(r) \/ RemoveFavorite(r)
  <2>1. 1 \in Rows
    BY WorkflowAssumption DEF Rows
  <2>2. PICK s : status' = [status EXCEPT ![1] = s]
    BY <1>1 DEF AddFavorite, RemoveFavorite, Move
  <2> QED
    BY <1>0, <2>1, <2>2 DEF TypeOK
<1>2. CASE VerifyRescue(r)
  <2>1. status[req[r].row] # "none" /\ req[r].row \in Rows
    BY <1>2, RequestFields DEF VerifyRescue, At, CallInv, CallOK, CheckedOK
  <2>2. status' = [status EXCEPT ![req[r].row] = req[r].to]
    BY <1>2 DEF VerifyRescue, Move
  <2> QED
    BY <1>0, <2>1, <2>2 DEF TypeOK
<1>4. CASE ~ (AddFavorite(r) \/ RemoveFavorite(r) \/ VerifyRescue(r))
  BY <1>4 DEF Writing, CreateFosterPlacement, InviteStaff, CancelInvitation, InsertVisit,
              OpenVisitLog, WriteChecked, Create, At, Begins, Multiple, Found
<1> QED
  BY <1>1, <1>2, <1>4

LEMMA CountKept ==
  ASSUME TypeOK, CountInv, NEW r \in Requests, Writing(r)
  PROVE  CountInv'
<1>0. 1 \in Rows /\ status \in [Rows -> StatusesOf(kind)]
  BY WorkflowAssumption DEF Rows, TypeOK
<1>1. CASE AddFavorite(r)
  <2>1. count' = count + 1 /\ status' = [status EXCEPT ![1] = "active"] /\ kind' = kind
    BY <1>1 DEF AddFavorite, Move
  <2>2. kind = "favorite" /\ status[1] # "active"
    BY <1>1 DEF AddFavorite, At
  <2> QED
    BY <1>0, <2>1, <2>2 DEF CountInv
<1>2. CASE RemoveFavorite(r)
  <2>1. /\ count' = IF count > 1 THEN count - 1 ELSE 0
        /\ status' = [status EXCEPT ![1] = "removed"] /\ kind' = kind
    BY <1>2 DEF RemoveFavorite, Move
  <2>2. kind = "favorite" /\ status[1] = "active"
    BY <1>2 DEF RemoveFavorite, Begins
  <2> QED
    BY <1>0, <2>1, <2>2 DEF CountInv
<1>3. CASE ~ (AddFavorite(r) \/ RemoveFavorite(r))
  BY <1>3 DEF Writing, VerifyRescue, CreateFosterPlacement, InviteStaff, CancelInvitation,
              InsertVisit, OpenVisitLog, WriteChecked, Create, At, Begins, CountInv
<1> QED
  BY <1>1, <1>2, <1>3

LEMMA WritingData ==
  ASSUME TypeOK, CallInv, DataInv, NEW r \in Requests, Writing(r)
  PROVE  DataInv'
<1>1. PICK x, to, noted, number : PlainWrite(r, x, to, noted, number)
  BY WritesArePlain
<1>2. /\ x \in Rows /\ kind' = kind /\ deleted' = deleted
      /\ status' = [status EXCEPT ![x] = to] /\ to \in DOMAIN Moves[kind] /\ to # "none"
  BY <1>1, PlainWriteRows
<1>3. /\ Note(x, to, noted, number) /\ Move(r, x, to, noted, number)
      /\ noted \in Statuses
      /\ \/ number = 0 /\ version' = version
         \/ number = version[x] + 1 /\ version' = [version EXCEPT ![x] = @ + 1]
  BY <1>1 DEF PlainWrite, Move, Record
<1>4. to \in Statuses
  BY <1>2, StatusesIncluded DEF StatusesOf, TypeOK
<1>5. /\ number \in Nat /\ version' \in [Rows -> Nat]
      /\ \A y \in Rows : version[y] <= version'[y]
      /\ number = 0 \/ (version[x] < number /\ number <= version'[x])
  BY <1>2, <1>3, VersionsGrow
<1>6. VersionInv' /\ NumberedOnce'
  BY <1>2, <1>3, <1>4, <1>5, VersionsKept DEF DataInv
<1>7. TruthfulTrail'
  <2>1. kind \notin {"pet", "report"}
    BY DEF Writing, AddFavorite, RemoveFavorite, VerifyRescue, CreateFosterPlacement,
           InviteStaff, CancelInvitation, InsertVisit, OpenVisitLog, WriteChecked, Create,
           At, Begins
  <2> QED
    BY <1>2, <2>1 DEF TruthfulTrail
<1>8. ShapeInv'
  BY <1>1, <1>2, WritingShape, ShapeKept DEF DataInv
<1>9. CountInv'
  BY CountKept DEF DataInv
<1> QED
  BY <1>6, <1>7, <1>8, <1>9 DEF DataInv

LEMMA WriteLockedData ==
  ASSUME TypeOK, CallInv, DataInv, NEW r \in Requests, WriteLocked(r)
  PROVE  DataInv'
<1> DEFINE x == req[r].row
           to == req[r].to
<1>1. /\ x \in Rows /\ req[r].seen \in Statuses /\ kind \in Locking
      /\ status[x] \in DOMAIN Moves[kind] /\ to \in Moves[kind][status[x]]
      /\ req[r].seen = status[x] /\ x \notin deleted
  BY RequestFields DEF WriteLocked, CallInv, CallOK, LockedOK
<1>2. /\ kind' = kind /\ deleted' = deleted /\ count' = count
      /\ status' = [status EXCEPT ![x] = to]
      /\ Note(x, to, req[r].seen, 0) /\ Move(r, x, to, req[r].seen, 0)
      /\ version' = version \/ version' = [version EXCEPT ![x] = @ + 1]
  BY DEF WriteLocked, Move, Record
<1>3. to \in DOMAIN Moves[kind] /\ status[x] # "none" /\ to # "none"
  BY <1>1, MovesClosed, PseudoStatuses DEF TypeOK
<1>4. to \in Statuses
  BY <1>3, StatusesIncluded DEF StatusesOf, TypeOK
<1> HIDE DEF x, to
<1>5. VersionInv' /\ NumberedOnce'
  <2>1. version' \in [Rows -> Nat] /\ \A y \in Rows : version[y] <= version'[y]
    BY <1>1, <1>2, VersionsGrow
  <2> QED
    BY <1>1, <1>2, <1>4, <2>1, VersionsKept DEF DataInv
<1>6. TruthfulTrail'
  BY <1>1, <1>2, <1>4, TrailKept DEF DataInv
<1>7. ShapeInv'
  BY <1>1, <1>2, <1>3, ShapeKept DEF DataInv
<1>8. CountInv'
  BY <1>1, <1>2 DEF CountInv, Locking
<1> QED
  BY <1>5, <1>6, <1>7, <1>8 DEF DataInv

\* A change of a record's data: the rows stay what they are.
LEMMA DataChanged ==
  ASSUME TypeOK, DataInv, NEW x \in Rows, NEW number,
         Note(x, "revised", status[x], number),
         UNCHANGED <<kind, status, deleted, count>>,
         \/ number = 0 /\ version' = version
         \/ number = version[x] + 1 /\ version' = [version EXCEPT ![x] = @ + 1]
  PROVE  DataInv'
<1>1. status[x] \in Statuses
  BY StatusesIncluded DEF TypeOK
<1>2. /\ number \in Nat /\ version' \in [Rows -> Nat]
      /\ \A y \in Rows : version[y] <= version'[y]
      /\ number = 0 \/ (version[x] < number /\ number <= version'[x])
  BY VersionsGrow
<1>3. VersionInv' /\ NumberedOnce'
  BY <1>1, <1>2, VersionsKept DEF DataInv
<1>4. TruthfulTrail'
  BY <1>1, <1>2, TrailKept DEF DataInv
<1>5. ShapeInv' /\ CountInv'
  BY DEF DataInv, ShapeInv, CountInv
<1> QED
  BY <1>3, <1>4, <1>5 DEF DataInv

LEMMA RevisingData ==
  ASSUME TypeOK, CallInv, DataInv, NEW r \in Requests, Revising(r) \/ AppendVersion(r)
  PROVE  DataInv'
<1>0. req[r].row \in Rows
  BY RequestFields
<1>1. CASE Revising(r)
  <2>1. PICK k \in Revisable : Revise(r, k)
    BY <1>1 DEF Revising
  <2>2. UNCHANGED <<kind, status, deleted, count>>
    BY <2>1 DEF Revise
  <2>3. CASE k # "chat"
    <3>1. /\ Note(req[r].row, "revised", status[req[r].row], version[req[r].row] + 1)
          /\ version' = [version EXCEPT ![req[r].row] = @ + 1]
      BY <2>1, <2>3 DEF Revise
    <3> QED
      BY <1>0, <2>2, <3>1, DataChanged
  <2>4. CASE k = "chat"
    <3>1. Note(req[r].row, "revised", status[req[r].row], 0) /\ version' = version
      BY <2>1, <2>4 DEF Revise
    <3> QED
      BY <1>0, <2>2, <3>1, DataChanged
  <2> QED
    BY <2>3, <2>4
<1>2. CASE AppendVersion(r)
  <2>1. req[r].at = version[req[r].row]
    BY <1>2 DEF AppendVersion, At, CallInv, CallOK, LockedOK
  <2>2. /\ Record(r, req[r].row, "revised", status[req[r].row], req[r].at + 1)
        /\ version' = [version EXCEPT ![req[r].row] = req[r].at + 1]
        /\ UNCHANGED <<kind, status, deleted, count>>
    BY <1>2 DEF AppendVersion
  <2>3. /\ Note(req[r].row, "revised", status[req[r].row], version[req[r].row] + 1)
        /\ version' = [version EXCEPT ![req[r].row] = @ + 1]
    BY <2>1, <2>2 DEF Record
  <2> QED
    BY <1>0, <2>2, <2>3, DataChanged
<1> QED
  BY <1>1, <1>2

LEMMA DataStep ==
  ASSUME TypeOK, CallInv, DataInv, [Next]_vars
  PROVE  DataInv'
<1>1. ASSUME UNCHANGED dataVars PROVE DataInv'
  BY <1>1 DEF dataVars, DataInv, VersionInv, NumberedOnce, TruthfulTrail, ShapeInv, CountInv
<1>2. CASE UNCHANGED vars
  BY <1>1, <1>2 DEF vars, rowVars, ghostVars, dataVars
<1>3. ASSUME NEW r \in Requests, Proceed(r) \/ Abandon(r) PROVE DataInv'
  <2>1. CASE Deleting(r)
    <3>1. /\ UNCHANGED <<kind, status, version, count, history>>
          /\ kind \in Deletable /\ deleted \subseteq deleted'
          /\ \A x \in deleted' : x \in deleted \/ status[x] # "none"
      BY <2>1, DeletingCalls
    <3> QED
      BY <3>1 DEF DataInv, VersionInv, NumberedOnce, TruthfulTrail, ShapeInv, CountInv
  <2>2. CASE Preparing(r)
    BY <1>1, <2>2, PreparingKeeps
  <2>3. Step(r)
    BY <1>3, StepCases
  <2> QED
    BY <2>1, <2>2, <2>3, WritingData, WriteLockedData, RevisingData DEF Step
<1> QED
  BY <1>2, <1>3 DEF Next

LEMMA IInvInit == Init => IInv
<1> SUFFICES ASSUME Init PROVE IInv
  OBVIOUS
<1>0. 1 \in Rows
  BY WorkflowAssumption DEF Rows
<1>1. PICK s \in StatusesOf(kind) :
        /\ status = [y \in Rows |-> IF y = 1 THEN s ELSE "none"]
        /\ count = IF kind = "favorite" /\ s = "active" THEN 1 ELSE 0
  BY DEF Init
<1>2. "none" \in StatusesOf(kind)
  BY DEF StatusesOf
<1>3. status \in [Rows -> StatusesOf(kind)] /\ count \in Nat
  BY <1>1, <1>2
<1>4. NoRequest \in Request
  BY <1>0, TargetsKnown DEF NoRequest, Request, Steps
<1>5. TypeOK
  <2>1. /\ kind \in Kinds /\ deleted \subseteq Rows /\ stale \subseteq Requests
        /\ missed \in [Requests -> SUBSET Rows] /\ raced \subseteq SUBSET Rows
    BY DEF Init
  <2>2. version \in [Rows -> Nat] /\ lock \in [Rows -> Requests \cup {NoOne}]
    BY DEF Init
  <2>3. req \in [Requests -> Request]
    BY <1>4 DEF Init
  <2>4. history \in Seq(Write)
    BY DEF Init
  <2> QED
    BY <1>3, <2>1, <2>2, <2>3, <2>4 DEF TypeOK
<1>6. CallInv
  BY DEF Init, NoRequest, CallInv, CallOK, LockedOK, CheckedOK, CreatingOK,
         RevisingOK
<1>7. VersionInv /\ NumberedOnce /\ TruthfulTrail
  BY DEF Init, VersionInv, NumberedOnce, TruthfulTrail
<1>8. ShapeInv
  BY <1>1 DEF Init, ShapeInv
<1>9. CountInv
  BY <1>0, <1>1 DEF CountInv
<1> QED
  BY <1>5, <1>6, <1>7, <1>8, <1>9 DEF IInv, DataInv

LEMMA IInvStep == IInv /\ [Next]_vars => IInv'
BY TypeStep, CallStep, DataStep DEF IInv, DataInv

LEMMA Inductive == Spec => []IInv
BY IInvInit, IInvStep, PTL DEF Spec

-----------------------------------------------------------------------------
\* The variables keep their types, whatever the calls do.
THEOREM TypeCorrect == Spec => []TypeOK
<1>1. IInv => TypeOK
  BY DEF IInv
<1> QED
  BY <1>1, Inductive, PTL

\* The transition logs of pets and reports tell the truth.
THEOREM TruthfulTrails == Spec => []TruthfulTrail
<1>1. IInv => TruthfulTrail
  BY DEF IInv, DataInv
<1> QED
  BY <1>1, Inductive, PTL

\* No version number of a pet, a rescue or a content is given twice.
THEOREM VersionsUnique == Spec => []NumberedOnce
<1>1. IInv => NumberedOnce
  BY DEF IInv, DataInv
<1> QED
  BY <1>1, Inductive, PTL

\* The counter of favourites is the number of favourites.
THEOREM FavoritesCounted == Spec => []FavoriteCounted
<1>1. IInv => FavoriteCounted
  <2> SUFFICES ASSUME IInv, kind = "favorite" PROVE count = Cardinality(Open)
    BY DEF FavoriteCounted
  <2>0. 1 \in Rows
    BY WorkflowAssumption DEF Rows
  <2>1. deleted = {} /\ \A x \in Rows : x # 1 => status[x] = "none"
    BY DEF IInv, DataInv, ShapeInv, Deletable, Multiple, Found
  <2>2. count = IF status[1] = "active" THEN 1 ELSE 0
    BY DEF IInv, DataInv, CountInv
  <2>3. status[1] \in {"active", "removed", "none"}
    BY <2>0 DEF IInv, TypeOK, StatusesOf, Moves
  <2>4. Open = IF status[1] = "active" THEN {1} ELSE {}
    BY <2>0, <2>1, <2>3 DEF Open, Exists, Opened
  <2> QED
    BY <2>2, <2>4, FS_EmptySet, FS_Singleton
<1> QED
  BY <1>1, Inductive, PTL

-----------------------------------------------------------------------------
(* Open records. *)

\* A call that found no open record, and one that read an open visit, missed
\* every other that is open now, or raced with it before.
RaceOK(q) ==
  /\ req[q].step \in {"absent", "inserted"} /\ kind # "favorite" => Open \subseteq missed[q]
  /\ req[q].step = "checked" /\ kind = "visit" =>
       \A y \in Open : y = req[q].row \/ y \in missed[q] \/ {y, req[q].row} \in raced

RaceInv == OneOpen /\ \A q \in Requests : RaceOK(q)

\* A row a call may open beside the others: it missed them, or they raced.
MayOpen(r, x) == \A y \in Open : y = x \/ y \in missed[r] \/ {y, x} \in raced

\* Only the call that steps changes where it is.
LEMMA OthersWait ==
  ASSUME TypeOK, NEW r \in Requests, Step(r), NEW q \in Requests, q # r
  PROVE  req'[q] = req[q]
<1>1. CASE Finish(r)
  BY <1>1 DEF Finish, TypeOK
<1>2. ASSUME NEW step, NEW x, NEW to, Advance(r, step, x, to)
      PROVE  req'[q] = req[q]
  BY <1>2 DEF Advance, TypeOK
<1>3. CASE Preparing(r)
  <2>1. CASE LockPet(r) \/ LockContent(r) \/ Refuse(r) \/ Abandon(r) \/ ReadFavorite(r)
    BY <1>1, <1>2, <2>1 DEF LockPet, Lock, LockContent, Refuse, Abandon, ReadFavorite
  <2>2. CASE \/ \E k \in Checking : Check(r, k)
             \/ \E k \in Locking : \E targets \in SUBSET Statuses : LockFor(r, k, targets)
    BY <1>1, <1>2, <2>2 DEF Check, LockFor, Lock
  <2>3. CASE \/ \E k \in {"pet", "chat", "membership"} : ReadToDelete(r, k)
             \/ \E k \in Revisable : ReadToRevise(r, k)
             \/ \E k \in Found : Find(r, k)
    BY <1>1, <1>2, <2>3 DEF ReadToDelete, ReadToRevise, Find
  <2> QED
    BY <1>3, <2>1, <2>2, <2>3 DEF Preparing
<1>4. CASE InsertVisit(r)
  BY <1>4 DEF InsertVisit, TypeOK
<1>5. CASE ~ Preparing(r) /\ ~ InsertVisit(r)
  <2>1. Finish(r)
    BY <1>5 DEF Step, Deleting, DeleteOnce, DeleteRead, RemoveStaffMember, Writing,
       AddFavorite, RemoveFavorite, VerifyRescue, CreateFosterPlacement, InviteStaff,
       CancelInvitation, OpenVisitLog, WriteChecked, Create, Revising, Revise,
       WriteLocked, AppendVersion
  <2> QED
    BY <1>1, <2>1
<1> QED
  BY <1>3, <1>4, <1>5

\* A plain write opens at most the row it writes.
LEMMA WriteOpens ==
  ASSUME TypeOK, NEW r \in Requests, NEW x, NEW to, NEW noted, NEW number,
         PlainWrite(r, x, to, noted, number)
  PROVE  /\ x \in Rows /\ Open' \subseteq Open \cup {x}
         /\ x \in Open' => to \in Opened /\ x \notin deleted
<1>1. /\ x \in Rows /\ deleted' = deleted /\ status'[x] = to
      /\ \A y \in Rows : y # x => status'[y] = status[y]
  BY PlainWriteRows
<1> QED
  BY <1>1 DEF Open, Exists

\* A call whose write closes a row, or writes one that is open, opens none.
LEMMA CheckedOpens ==
  ASSUME TypeOK, CallInv, RaceInv, NEW r \in Requests, NEW k \in {"foster", "visit", "chat"},
         WriteChecked(r, k), req[r].row \in Open' \ Open
  PROVE  MayOpen(r, req[r].row)
<1>1. /\ kind = k /\ req[r].step = "checked" /\ req[r].row \in Rows
      /\ req[r].seen \in DOMAIN Moves[k] /\ req[r].to \in Moves[k][req[r].seen]
      /\ status[req[r].row] # "none"
  BY RequestFields DEF WriteChecked, At, CallInv, CallOK, CheckedOK
<1>2. /\ deleted' = deleted /\ status'[req[r].row] = req[r].to
      /\ req[r].to \in Opened /\ req[r].row \notin deleted
  BY <1>1 DEF WriteChecked, Move, TypeOK, Open, Exists
<1>3. CASE k = "foster"
  BY <1>1, <1>2, <1>3 DEF Moves, Opened
<1>4. CASE k = "chat"
  <2>1. status[req[r].row] \in DOMAIN Moves["chat"]
    BY <1>1, <1>4 DEF TypeOK, StatusesOf
  <2>2. status[req[r].row] \in Opened
    BY <2>1 DEF Moves, ChatMoves, Opened
  <2> QED
    BY <1>1, <1>2, <2>2 DEF Open, Exists
<1>5. CASE k = "visit"
  BY <1>1, <1>5 DEF RaceInv, RaceOK, MayOpen
<1> QED
  BY <1>3, <1>4, <1>5

\* No write without a lock opens a row beside others it knew of.
LEMMA WritingOpens ==
  ASSUME TypeOK, CallInv, RaceInv, NEW r \in Requests, Writing(r), kind \in Multiple
  PROVE  \E x \in Rows : /\ Open' \subseteq Open \cup {x}
                         /\ x \in Open' \ Open => MayOpen(r, x)
<1>0. RaceOK(r) /\ req[r].row \in Rows /\ req[r].seen \in Statuses
  BY RequestFields DEF RaceInv
<1>1. CASE CreateFosterPlacement(r) \/ InviteStaff(r)
  <2>1. PICK x, to, noted, number : PlainWrite(r, x, to, noted, number)
    BY <1>1, WritesArePlain DEF Writing
  <2>2. Open = {}
    BY <1>1 DEF CreateFosterPlacement, InviteStaff
  <2> QED
    BY <2>1, <2>2, WriteOpens DEF MayOpen
<1>2. CASE InsertVisit(r) \/ OpenVisitLog(r)
           \/ \E k \in {"session", "chat", "membership"} : Create(r, k)
  <2>1. PICK x, to, noted, number : PlainWrite(r, x, to, noted, number)
    BY <1>2, WritesArePlain DEF Writing
  <2>2. req[r].step \in {"absent", "inserted"} /\ kind # "favorite"
    BY <1>2 DEF InsertVisit, OpenVisitLog, Create, At
  <2>3. Open \subseteq missed[r]
    BY <1>0, <2>2 DEF RaceOK
  <2> QED
    BY <2>1, <2>3, WriteOpens DEF MayOpen
<1>3. ASSUME NEW k \in {"foster", "visit", "chat"}, WriteChecked(r, k)
      PROVE  \E x \in Rows : /\ Open' \subseteq Open \cup {x}
                             /\ x \in Open' \ Open => MayOpen(r, x)
  <2>1. /\ \A y \in Rows : y # req[r].row => status'[y] = status[y]
        /\ deleted' = deleted
    BY <1>3 DEF WriteChecked, Move, TypeOK
  <2>2. Open' \subseteq Open \cup {req[r].row}
    BY <2>1 DEF Open, Exists
  <2> QED
    BY <1>0, <1>3, <2>2, CheckedOpens
<1>4. CASE CancelInvitation(r)
  <2>1. PICK x \in Rows : status' = [status EXCEPT ![x] = "cancelled"]
    BY <1>4 DEF CancelInvitation, Move
  <2>2. deleted' = deleted
    BY <1>4 DEF CancelInvitation
  <2>3. Open' \subseteq Open
    BY <2>1, <2>2 DEF Open, Exists, Opened, TypeOK
  <2> QED
    BY <2>1, <2>3
<1>5. ~ (AddFavorite(r) \/ RemoveFavorite(r) \/ VerifyRescue(r))
  BY DEF AddFavorite, RemoveFavorite, VerifyRescue, At, Begins, Multiple, Found
<1> QED
  BY <1>1, <1>2, <1>3, <1>4, <1>5 DEF Writing

\* A transaction that holds the row lock writes an open row or opens none.
LEMMA LockedOpens ==
  ASSUME TypeOK, CallInv, NEW r \in Requests, WriteLocked(r), kind \in Multiple
  PROVE  Open' \subseteq Open
<1>1. /\ req[r].row \in Rows /\ kind \in Locking /\ req[r].row \notin deleted
      /\ status[req[r].row] \in DOMAIN Moves[kind]
      /\ req[r].to \in Moves[kind][status[req[r].row]]
  BY RequestFields DEF WriteLocked, CallInv, CallOK, LockedOK
<1>2. /\ \A y \in Rows : y # req[r].row => status'[y] = status[y]
      /\ deleted' = deleted
  BY DEF WriteLocked, Move, TypeOK
<1>3. kind \in {"session", "invitation"}
  BY <1>1 DEF Locking, Multiple, Found
<1>4. status[req[r].row] \in {"active", "open"}
  BY <1>1, <1>3 DEF Moves
<1>5. req[r].row \in Open
  BY <1>1, <1>4 DEF Open, Exists, Opened
<1> QED
  BY <1>2, <1>5 DEF Open, Exists

\* No step opens more than one row, nor that one beside others it knew of.
LEMMA StepOpens ==
  ASSUME TypeOK, CallInv, RaceInv, NEW r \in Requests, Step(r), kind \in Multiple
  PROVE  \E x \in Rows : /\ Open' \subseteq Open \cup {x}
                         /\ x \in Open' \ Open => MayOpen(r, x)
<1>0. 1 \in Rows
  BY WorkflowAssumption DEF Rows
<1>1. CASE Preparing(r)
  BY <1>0, <1>1, PreparingKeeps DEF dataVars, Open, Exists
<1>2. CASE Deleting(r)
  <2>1. status' = status /\ deleted \subseteq deleted'
    BY <1>2, DeletingCalls
  <2>2. Open' \subseteq Open
    BY <2>1 DEF Open, Exists
  <2> QED
    BY <1>0, <2>2
<1>3. CASE Revising(r) \/ AppendVersion(r)
  <2>1. status' = status /\ deleted' = deleted
    BY <1>3 DEF Revising, Revise, AppendVersion
  <2>2. Open' = Open
    BY <2>1 DEF Open, Exists
  <2> QED
    BY <1>0, <2>2
<1> QED
  BY <1>0, <1>1, <1>2, <1>3, WritingOpens, LockedOpens DEF Step

LEMMA KindKept ==
  ASSUME TypeOK, CallInv, NEW r \in Requests, Step(r)
  PROVE  kind' = kind
<1>1. CASE Preparing(r)
  BY <1>1, PreparingKeeps DEF dataVars
<1>2. CASE Writing(r)
  BY <1>2, WritesArePlain DEF PlainWrite
<1>3. CASE Deleting(r)
  BY <1>3, DeletingCalls
<1> QED
  BY <1>1, <1>2, <1>3 DEF Step, Revising, Revise, WriteLocked, AppendVersion

\* Two open rows raced, after the step as before it.
LEMMA OneOpenStep ==
  ASSUME TypeOK, CallInv, RaceInv, ShapeInv', NEW r \in Requests, Step(r), Watch(r)
  PROVE  OneOpen'
<1> SUFFICES ASSUME NEW y \in Open', NEW z \in Open', y # z
             PROVE  {y, z} \in raced'
  BY DEF OneOpen
<1>1. CASE kind \notin Multiple
  BY <1>1, KindKept DEF ShapeInv, Open, Exists
<1>2. CASE kind \in Multiple
  <2>1. PICK x \in Rows : /\ Open' \subseteq Open \cup {x}
                          /\ x \in Open' \ Open => MayOpen(r, x)
    BY <1>2, StepOpens
  <2>2. raced \subseteq raced'
    BY DEF Watch
  <2>3. ASSUME NEW w \in Open, x \in Open' \ Open PROVE {w, x} \in raced'
    <3>1. w \in missed[r] \/ {w, x} \in raced
      BY <2>1, <2>3 DEF MayOpen
    <3>2. CASE w \in missed[r]
      <4>1. {x, w} \in {{a, b} : a \in Open' \ Open, b \in missed[r]}
        BY <2>3, <3>2
      <4>2. {x, w} \in raced'
        BY <4>1 DEF Watch
      <4> QED
        BY <4>2
    <3> QED
      BY <2>2, <3>1, <3>2
  <2>4. CASE y \in Open /\ z \in Open
    BY <2>2, <2>4 DEF RaceInv, OneOpen
  <2>5. CASE y \notin Open
    <3>1. y = x /\ z \in Open
      BY <2>1, <2>5
    <3>2. {z, y} \in raced'
      BY <2>3, <2>5, <3>1
    <3> QED
      BY <3>2
  <2>6. CASE z \notin Open
    <3>1. z = x /\ y \in Open
      BY <2>1, <2>6
    <3> QED
      BY <2>3, <2>6, <3>1
  <2> QED
    BY <2>4, <2>5, <2>6
<1> QED
  BY <1>1, <1>2

\* What the call that steps then knows of the open rows.
LEMMA OwnRace ==
  ASSUME TypeOK, CallInv, RaceInv, NEW r \in Requests, Step(r), Watch(r)
  PROVE  RaceOK(r)'
<1>0. kind' = kind /\ raced \subseteq raced'
  BY KindKept DEF Watch
<1>1. CASE Finish(r)
  <2>1. req'[r].step = "done"
    BY <1>1 DEF Finish, TypeOK, Request
  <2> QED
    BY <2>1 DEF RaceOK
<1>2. CASE InsertVisit(r)
  <2>1. req[r].step = "absent" /\ kind = "visit" /\ req'[r].step = "inserted"
    BY <1>2 DEF InsertVisit, At, TypeOK, Request
  <2>2. Open \subseteq missed[r]
    BY <2>1 DEF RaceInv, RaceOK
  <2>3. missed'[r] = missed[r] \cup (Open' \ Open)
    BY <2>1 DEF Watch
  <2> QED
    BY <2>1, <2>2, <2>3 DEF RaceOK
<1>3. CASE Preparing(r) /\ ~ Finish(r)
  <2>1. Open' = Open
    BY <1>3, PreparingKeeps DEF dataVars, Open, Exists
  <2>2. ASSUME NEW k \in Checking, Check(r, k) PROVE RaceOK(r)'
    <3>1. PICK x \in Rows : /\ Exists(x)
                            /\ \E to \in Moves[k][status[x]] : Advance(r, "checked", x, to)
      BY <2>2 DEF Check
    <3>2. req'[r].step = "checked" /\ req'[r].row = x /\ kind = k
      BY <2>2, <3>1, AdvancedCall DEF Check, Begins
    <3>3. CASE k = "visit"
      <4>1. status[x] \in {"scheduled", "in_progress"}
        <5>1. status[x] \in DOMAIN Moves["visit"] /\ Moves["visit"][status[x]] # {}
          BY <3>1, <3>2, <3>3 DEF Exists, TypeOK, StatusesOf
        <5> QED
          BY <5>1 DEF Moves, VisitMoves
      <4>2. x \in Open
        BY <3>1, <4>1 DEF Open, Opened
      <4>3. \A y \in Open : y = x \/ {y, x} \in raced
        BY <4>2 DEF RaceInv, OneOpen
      <4> QED
        BY <1>0, <2>1, <3>2, <4>3 DEF RaceOK
    <3> QED
      BY <1>0, <3>2, <3>3 DEF RaceOK
  <2>3. ASSUME NEW k \in Found, Find(r, k) PROVE RaceOK(r)'
    <3>1. Open = {} /\ Advance(r, "absent", 1, Opening[k])
      BY <1>3, <2>3 DEF Find
    <3>2. req'[r].step = "absent"
      BY <3>1 DEF Advance, TypeOK
    <3> QED
      BY <2>1, <3>1, <3>2 DEF RaceOK
  <2>4. CASE ReadFavorite(r)
    BY <1>0, <2>4 DEF ReadFavorite, Begins, RaceOK
  <2>5. CASE ~ \/ \E k \in Checking : Check(r, k)
               \/ \E k \in Found : Find(r, k)
               \/ ReadFavorite(r)
    <3>1. req'[r].step \in {"locked", "deleting", "revising"}
      BY <1>3, <2>5 DEF Preparing, LockFor, Lock, ReadToDelete, ReadToRevise, LockPet,
         LockContent, Refuse, Abandon, Advance, TypeOK
    <3> QED
      BY <3>1 DEF RaceOK
  <2> QED
    BY <2>2, <2>3, <2>4, <2>5
<1>4. CASE ~ Preparing(r) /\ ~ InsertVisit(r)
  BY <1>1, <1>4 DEF Step, Deleting, DeleteOnce, DeleteRead, RemoveStaffMember, Writing,
     AddFavorite, RemoveFavorite, VerifyRescue, CreateFosterPlacement, InviteStaff,
     CancelInvitation, OpenVisitLog, WriteChecked, Create, Revising, Revise,
     WriteLocked, AppendVersion
<1> QED
  BY <1>1, <1>2, <1>3, <1>4

\* And what the others know: a row opened meanwhile is one they missed.
LEMMA OthersRace ==
  ASSUME TypeOK, CallInv, RaceInv, NEW r \in Requests, Step(r), Watch(r),
         NEW q \in Requests, q # r
  PROVE  RaceOK(q)'
<1>1. req'[q] = req[q] /\ kind' = kind /\ RaceOK(q)
  BY OthersWait, KindKept DEF RaceInv
<1>2. /\ raced \subseteq raced'
      /\ req'[q].step \in {"absent", "inserted", "checked"} =>
           missed'[q] = missed[q] \cup (Open' \ Open)
  BY DEF Watch
<1> QED
  BY <1>1, <1>2 DEF RaceOK

LEMMA RaceStep == IInv /\ IInv' /\ RaceInv /\ [Next]_vars => RaceInv'
<1> SUFFICES ASSUME IInv, IInv', RaceInv, [Next]_vars PROVE RaceInv'
  OBVIOUS
<1>1. TypeOK /\ CallInv /\ ShapeInv'
  BY DEF IInv, DataInv
<1>2. CASE UNCHANGED vars
  BY <1>2 DEF vars, rowVars, raceVars, RaceInv, RaceOK, OneOpen, Open, Exists
<1>3. ASSUME NEW r \in Requests, Proceed(r) \/ Abandon(r), Watch(r) PROVE RaceInv'
  BY <1>1, <1>3, StepCases, OneOpenStep, OwnRace, OthersRace DEF RaceInv
<1> QED
  BY <1>2, <1>3 DEF Next

LEMMA RaceInit == Init => RaceInv
<1> SUFFICES ASSUME Init PROVE RaceInv
  OBVIOUS
<1>1. \A y \in Open : y = 1
  BY DEF Init, Open, Exists
<1>2. \A q \in Requests : req[q].step = "idle"
  BY DEF Init, NoRequest
<1> QED
  BY <1>1, <1>2 DEF RaceInv, RaceOK, OneOpen

\* An owner's open records are one, or were opened by calls that overlapped:
\* the later of two was opened by a call that had looked before the other was.
THEOREM OneOpenRecord == Spec => []OneOpen
<1>1. RaceInv => OneOpen
  BY DEF RaceInv
<1>2. Spec => []RaceInv
  BY Inductive, RaceInit, RaceStep, PTL DEF Spec
<1> QED
  BY <1>1, <1>2, PTL

-----------------------------------------------------------------------------
(* Lawful writes. *)

\* The last entry of the history, after a write.
LEMMA LastWrite ==
  ASSUME TypeOK, NEW x \in Rows, NEW to \in Statuses \cup {"revised"},
         NEW noted \in Statuses, NEW number \in Nat, Note(x, to, noted, number)
  PROVE  /\ history'[Len(history')].row = x
         /\ history'[Len(history')].from = status[x]
         /\ history'[Len(history')].to = to
BY Noted

\* What one unlocked write does, when its call was not overtaken.
LEMMA LawfulWriting ==
  ASSUME TypeOK, CallInv, ShapeInv, NEW r \in Requests, Writing(r),
         kind \notin Unguarded \/ r \notin stale
  PROVE  \E x \in Rows, to \in Statuses, noted \in Statuses, number \in Nat :
           /\ Note(x, to, noted, number)
           /\ x \notin deleted /\ Lawful(kind, status[x], to)
<1>1. PICK x, to, noted, number : PlainWrite(r, x, to, noted, number)
  BY WritesArePlain
<1>2. /\ x \in Rows /\ Note(x, to, noted, number) /\ noted \in Statuses
      /\ to \in DOMAIN Moves[kind]
  BY <1>1 DEF PlainWrite, Move, Record
<1>3. to \in Statuses /\ number \in Nat /\ 0 \in Nat
  BY <1>1, <1>2, StatusesIncluded, NextVersion DEF StatusesOf, TypeOK, PlainWrite
<1>4. /\ req[r].row \in Rows /\ req[r].seen \in Statuses /\ CheckedOK(r) /\ CreatingOK(r)
      /\ req[r].to \in Statuses \cup {"revised"}
  BY RequestFields DEF CallInv, CallOK
<1>5. "none" \notin DOMAIN Moves[kind]
  BY PseudoStatuses DEF TypeOK
<1>6. SUFFICES x \notin deleted /\ Lawful(kind, status[x], to)
  BY <1>2, <1>3
<1>7. 1 \in Rows
  BY WorkflowAssumption DEF Rows
<1>8. ASSUME NEW y \in Rows, NEW to2 \in Statuses \cup {"revised"}, NEW noted2 \in Statuses,
             NEW number2 \in Nat, Note(y, to2, noted2, number2)
      PROVE  x = y /\ to = to2
  BY <1>2, <1>3, <1>8, SameWrite
<1>9. CASE AddFavorite(r) \/ RemoveFavorite(r)
  <2>1. kind = "favorite" /\ deleted = {}
    BY <1>9 DEF AddFavorite, RemoveFavorite, At, Begins, ShapeInv, Deletable
  <2>2. CASE AddFavorite(r)
    <3>1. Note(1, "active", req[r].seen, 0) /\ status[1] \in {"none", "removed"}
      BY <2>2 DEF AddFavorite, Move, Record
    <3>2. x = 1 /\ to = "active"
      BY <1>3, <1>4, <1>7, <1>8, <3>1, TargetsKnown
    <3> QED
      BY <2>1, <3>1, <3>2, MovesKnown, KindsKnown DEF Lawful
  <2>3. CASE RemoveFavorite(r)
    <3>1. Note(1, "removed", "active", 0) /\ status[1] = "active"
      BY <2>3 DEF RemoveFavorite, Move, Record
    <3>2. x = 1 /\ to = "removed"
      BY <1>3, <1>4, <1>7, <1>8, <3>1, TargetsKnown
    <3> QED
      BY <2>1, <3>1, <3>2, MovesKnown DEF Lawful
  <2> QED
    BY <1>9, <2>2, <2>3
<1>10. CASE CancelInvitation(r)
  <2>1. PICK y \in Rows : status[y] = "open" /\ Note(y, "cancelled", "open", 0)
    BY <1>10 DEF CancelInvitation, Move, Record
  <2>2. x = y /\ to = "cancelled"
    BY <1>3, <1>8, <2>1, TargetsKnown
  <2>3. kind = "invitation" /\ deleted = {}
    BY <1>10 DEF CancelInvitation, Begins, ShapeInv, Deletable
  <2> QED
    BY <2>1, <2>2, <2>3, MovesKnown DEF Lawful
<1>11. ASSUME NEW y \in Rows, NEW k \in DOMAIN Opening, kind = k, status[y] = "none",
              Note(y, Opening[k], "none", 0)
       PROVE  x \notin deleted /\ Lawful(kind, status[x], to)
  <2>1. Opening[k] \in Statuses /\ "none" \in Statuses
    BY <1>11, OpeningKnown, StatusesIncluded, TargetsKnown DEF StatusesOf
  <2>2. x = y /\ to = Opening[k]
    BY <1>3, <1>8, <1>11, <2>1
  <2>3. x \notin deleted
    BY <1>11, <2>2 DEF ShapeInv
  <2> QED
    BY <1>11, <2>2, <2>3 DEF Lawful
<1>12. CASE CreateFosterPlacement(r) \/ InviteStaff(r)
  <2>1. kind \in {"foster", "invitation"} /\ kind \in DOMAIN Opening
    BY <1>12, KindsKnown DEF CreateFosterPlacement, InviteStaff, Begins, Multiple
  <2>2. PICK y \in Rows : status[y] = "none" /\ Note(y, Opening[kind], "none", 0)
    BY <1>12, KindsKnown DEF CreateFosterPlacement, InviteStaff, Begins, Fresh, Move, Record
  <2> QED
    BY <1>11, <2>1, <2>2
<1>13. ASSUME NEW k \in {"session", "chat", "membership"}, Create(r, k)
       PROVE  x \notin deleted /\ Lawful(kind, status[x], to)
  <2>1. kind = k /\ k \in DOMAIN Opening
    BY <1>13, KindsKnown DEF Create, At, Multiple, Found
  <2>2. PICK y \in Rows : status[y] = "none" /\ Note(y, Opening[k], "none", 0)
    BY <1>13 DEF Create, Fresh, Move, Record
  <2> QED
    BY <1>11, <2>1, <2>2
<1>14. CASE InsertVisit(r)
  <2>1. kind = "visit" /\ "visit" \in DOMAIN Opening
    BY <1>14, KindsKnown DEF InsertVisit, At, Multiple, Found
  <2>2. PICK y \in Rows : status[y] = "none" /\ Note(y, Opening["visit"], "none", 0)
    BY <1>14, KindsKnown DEF InsertVisit, Fresh, Move, Record
  <2> QED
    BY <1>11, <2>1, <2>2
<1>15. CASE OpenVisitLog(r)
  <2>1. /\ kind = "visit" /\ Note(req[r].row, "scheduled", "none", 0) /\ deleted = {}
        /\ status[req[r].row] = "scheduled"
    BY <1>4, <1>15 DEF OpenVisitLog, At, Move, Record, CreatingOK, Unguarded, ShapeInv, Deletable
  <2>2. x = req[r].row /\ to = "scheduled"
    BY <1>3, <1>4, <1>8, <2>1, TargetsKnown
  <2> QED
    BY <2>1, <2>2, MovesKnown DEF Lawful
<1>16. CASE VerifyRescue(r) \/ \E k \in {"foster", "visit", "chat"} : WriteChecked(r, k)
  <2>1. req[r].step = "checked" /\ kind \in Unguarded
    BY <1>16 DEF VerifyRescue, WriteChecked, At, Unguarded
  <2>2. /\ req[r].seen = status[req[r].row] /\ req[r].row \notin deleted
        /\ req[r].seen \in DOMAIN Moves[kind] /\ req[r].to \in Moves[kind][req[r].seen]
    BY <1>4, <2>1 DEF CheckedOK
  <2>3. version[req[r].row] + 1 \in Nat
    BY <1>4, NextVersion
  <2>4. \/ Note(req[r].row, req[r].to, req[r].seen, 0)
        \/ Note(req[r].row, req[r].to, req[r].seen, version[req[r].row] + 1)
    BY <1>16 DEF VerifyRescue, WriteChecked, Move, Record
  <2>5. x = req[r].row /\ to = req[r].to
    BY <1>3, <1>4, <1>8, <2>3, <2>4
  <2> QED
    BY <1>5, <2>2, <2>5 DEF Lawful
<1> QED
  BY <1>9, <1>10, <1>12, <1>13, <1>14, <1>15, <1>16 DEF Writing

\* What a change of a record's data does, when its call was not overtaken.
LEMMA RevisingLawful ==
  ASSUME TypeOK, CallInv, NEW r \in Requests, Revising(r)
  PROVE  \E x \in Rows, number \in Nat :
           /\ Note(x, "revised", status[x], number)
           /\ kind \in Revisable
           /\ r \notin stale => x \notin deleted /\ Writable(kind, status[x])
<1>1. PICK k \in Revisable : Revise(r, k)
  BY DEF Revising
<1>2. /\ req[r].row \in Rows /\ version[req[r].row] + 1 \in Nat /\ 0 \in Nat
      /\ kind = k /\ RevisingOK(r) /\ req[r].step = "revising"
  BY <1>1, RequestFields, NextVersion DEF CallInv, CallOK, Revise, At
<1>3. \/ Note(req[r].row, "revised", status[req[r].row], 0)
      \/ Note(req[r].row, "revised", status[req[r].row], version[req[r].row] + 1)
  BY <1>1 DEF Revise
<1>4. r \notin stale => req[r].row \notin deleted /\ Writable(kind, status[req[r].row])
  BY <1>2 DEF RevisingOK
<1> QED
  BY <1>2, <1>3, <1>4

\* A call that writes goes on by it.
LEMMA WritersMove ==
  ASSUME TypeOK, NEW r \in Requests, Writing(r) \/ Revising(r)
  PROVE  req'[r] # req[r]
<1>1. req'[r].step # req[r].step
  BY DEF Writing, AddFavorite, RemoveFavorite, VerifyRescue, CreateFosterPlacement,
     InviteStaff, CancelInvitation, InsertVisit, OpenVisitLog, WriteChecked, Create,
     Revising, Revise, Finish, At, Begins, TypeOK, Request
<1> QED
  BY <1>1

\* Every write follows the tables and leaves deleted records alone, except the
\* write of an unlocked handler whose reading was overtaken.
THEOREM WritesLawful == Spec => LawfulWrites
<1> DEFINE h == history'[Len(history')]
           Lawfully == /\ h.row \notin deleted
                       /\ IF h.to = "revised" THEN Writable(kind, h.from)
                                              ELSE Lawful(kind, h.from, h.to)
           Good == \/ Lawfully
                   \/ /\ kind \in Unguarded \/ (kind = "pet" /\ h.to = "revised")
                      /\ \E r \in stale : req'[r] # req[r]
<1>1. IInv /\ [Next]_vars => [history' # history => Good]_vars
  <2> SUFFICES ASSUME IInv, Next, history' # history PROVE Good
    BY DEF vars, ghostVars
  <2>1. PICK r \in Requests : Proceed(r) \/ Abandon(r)
    BY DEF Next
  <2>2. TypeOK /\ CallInv /\ ShapeInv
    BY DEF IInv, DataInv
  <2>3. Writing(r) \/ WriteLocked(r) \/ Revising(r) \/ AppendVersion(r)
    <3>1. CASE Preparing(r)
      BY <3>1, PreparingKeeps DEF dataVars
    <3>2. CASE Deleting(r)
      BY <2>2, <3>2, DeletingCalls
    <3>3. Step(r)
      BY <2>1, StepCases
    <3> QED
      BY <3>1, <3>2, <3>3 DEF Step
  <2>4. "revised" \notin Statuses
    BY <2>2, PseudoStatuses DEF TypeOK
  <2>5. CASE Writing(r) /\ (kind \notin Unguarded \/ r \notin stale)
    <3>1. PICK x \in Rows, to \in Statuses, noted \in Statuses, number \in Nat :
            /\ Note(x, to, noted, number)
            /\ x \notin deleted /\ Lawful(kind, status[x], to)
      BY <2>2, <2>5, LawfulWriting
    <3>2. h.row = x /\ h.from = status[x] /\ h.to = to
      BY <2>2, <3>1, LastWrite
    <3> QED
      BY <2>4, <3>1, <3>2
  <2>6. CASE Writing(r) /\ kind \in Unguarded /\ r \in stale
    BY <2>2, <2>6, WritersMove
  <2>7. CASE WriteLocked(r)
    <3>1. LockedOK(r) /\ req[r].step = "locked" /\ req[r].row \in Rows /\ req[r].seen \in Statuses
      BY <2>2, <2>7, RequestFields DEF WriteLocked, CallInv, CallOK
    <3>2. /\ req[r].row \notin deleted /\ status[req[r].row] \in DOMAIN Moves[kind]
          /\ req[r].to \in Moves[kind][status[req[r].row]] /\ req[r].to # "revised"
      BY <2>7, <3>1 DEF LockedOK, WriteLocked
    <3>3. Lawful(kind, status[req[r].row], req[r].to)
      BY <2>2, <3>2, PseudoStatuses DEF Lawful, TypeOK
    <3>4. Note(req[r].row, req[r].to, req[r].seen, 0) /\ 0 \in Nat
      BY <2>7 DEF WriteLocked, Move, Record
    <3>5. req[r].to \in Statuses \cup {"revised"}
      BY <2>2, RequestFields
    <3>6. h.row = req[r].row /\ h.from = status[req[r].row] /\ h.to = req[r].to
      BY <2>2, <3>1, <3>4, <3>5, LastWrite
    <3> QED
      BY <3>2, <3>3, <3>6
  <2>8. CASE Revising(r)
    <3>1. PICK x \in Rows, number \in Nat :
            /\ Note(x, "revised", status[x], number)
            /\ kind \in Revisable
            /\ r \notin stale => x \notin deleted /\ Writable(kind, status[x])
      BY <2>2, <2>8, RevisingLawful
    <3>2. status[x] \in Statuses
      BY <2>2, StatusesIncluded DEF TypeOK
    <3>3. h.row = x /\ h.from = status[x] /\ h.to = "revised"
      BY <2>2, <3>1, <3>2, LastWrite
    <3>4. CASE r \notin stale
      BY <3>1, <3>3, <3>4
    <3>5. CASE r \in stale
      <4>1. kind \in Unguarded \/ kind = "pet"
        BY <3>1 DEF Revisable, Unguarded
      <4>2. req'[r] # req[r]
        BY <2>2, <2>8, WritersMove
      <4> QED
        BY <3>3, <3>5, <4>1, <4>2
    <3> QED
      BY <3>4, <3>5
  <2>9. CASE AppendVersion(r)
    <3>1. /\ req[r].row \in Rows /\ req[r].at + 1 \in Nat /\ LockedOK(r)
          /\ req[r].step = "locked" /\ kind = "content"
      BY <2>2, <2>9, RequestFields DEF AppendVersion, At, CallInv, CallOK
    <3>2. status[req[r].row] \in Statuses
      BY <2>2, <3>1, StatusesIncluded DEF TypeOK
    <3>3. Note(req[r].row, "revised", status[req[r].row], req[r].at + 1)
      BY <2>9 DEF AppendVersion, Record
    <3>4. h.row = req[r].row /\ h.to = "revised"
      BY <2>2, <3>1, <3>2, <3>3, LastWrite
    <3> QED
      BY <3>1, <3>4 DEF LockedOK, Writable
  <2> QED
    BY <2>3, <2>5, <2>6, <2>7, <2>8, <2>9
<1> QED
  BY <1>1, Inductive, PTL DEF Spec, LawfulWrites
=============================================================================
