------------------------ MODULE ApplicationLifecycle ------------------------
(***************************************************************************)
(* The event-sourced application aggregate (services/applications): the    *)
(* domain rules (commands.ts, apply.ts), and runCommand/runCreateCommand,  *)
(* which load and fold the stream, decide, and then append, project the    *)
(* read model and stage the domain event in one transaction.               *)
(*                                                                         *)
(* A command runs in two steps, the read of the stream and the commit: any *)
(* other command, or the GDPR erasure of the adopter, may commit between.  *)
(* The unique indexes decide at the commit; an INSERT that waits for a     *)
(* concurrent transaction is one whose commit comes later.                 *)
(***************************************************************************)
EXTENDS Naturals, Sequences, SequencesExt

CONSTANTS Apps,        \* application ids
          Adopter,     \* [Apps -> user who applies]
          Pet,         \* [Apps -> pet applied for]
          Runners,     \* concurrent command handlers, on any replica
          Idle,        \* a runner with no transaction open
          VisitOutcomes,  \* outcomes a home visit can be completed with
          MaxVersion   \* [Apps -> Nat]: bound on the length of each stream

ASSUME LifecycleAssumption ==
  /\ VisitOutcomes \subseteq {"passed", "failed", "reschedule"}
  /\ MaxVersion \in [Apps -> Nat \ {0}]
  /\ DOMAIN Adopter = Apps /\ DOMAIN Pet = Apps

VARIABLES stream,   \* application_events, by aggregate, in version order
          view,     \* the applications row (read model)
          txn,      \* what each runner has loaded and decided
          staged    \* domain events committed to the outbox

vars == <<stream, view, txn, staged>>

-----------------------------------------------------------------------------
(* The domain: types.ts, apply.ts and commands.ts. *)

Status == {"draft", "submitted", "under_review", "home_visit_scheduled",
           "home_visit_completed", "approved", "rejected", "withdrawn", "adopted"}

Outcomes == VisitOutcomes \cup {"none"}

\* event type |-> the status it leads to; draftAnswersSaved leaves it alone.
StatusAfter ==
  [draftCreated |-> "draft",
   draftSubmitted |-> "submitted",
   reviewStarted |-> "under_review",
   homeVisitScheduled |-> "home_visit_scheduled",
   homeVisitCompleted |-> "home_visit_completed",
   approved |-> "approved",
   rejected |-> "rejected",
   withdrawn |-> "withdrawn",
   adopted |-> "adopted"]

EventType == DOMAIN StatusAfter \cup {"draftAnswersSaved"}

\* answers: the payload carries what the adopter wrote.  basis is no column:
\* the stream version that whoever issued the command decided on.
Event == [type : EventType, outcome : Outcomes, answers : BOOLEAN, basis : Nat]

State == [status : Status, outcome : Outcomes, answers : BOOLEAN]

INITIAL_STATE == [status |-> "draft", outcome |-> "none", answers |-> FALSE]

apply(state, event) ==
  CASE event.type = "draftAnswersSaved" ->
         [state EXCEPT !.answers = @ \/ event.answers]
    [] event.type = "homeVisitCompleted" ->
         [state EXCEPT !.status = "home_visit_completed", !.outcome = event.outcome]
    [] OTHER -> [state EXCEPT !.status = StatusAfter[event.type]]

\* state.version, bumped once per event, is the length of the stream.
fold(events) == FoldLeft(apply, INITIAL_STATE, events)

\* The statuses handle() accepts each command in, by the event it emits.
AcceptedFrom ==
  [draftAnswersSaved |-> {"draft", "under_review"},
   draftSubmitted |-> {"draft"},
   reviewStarted |-> {"submitted"},
   homeVisitScheduled |-> {"under_review", "home_visit_scheduled"},
   homeVisitCompleted |-> {"home_visit_scheduled"},
   approved |-> {"under_review", "home_visit_completed"},
   rejected |-> {"draft", "submitted", "under_review", "home_visit_completed"},
   withdrawn |-> {"draft", "submitted", "under_review", "home_visit_scheduled",
                  "home_visit_completed"},
   adopted |-> {"approved"}]

Versioned == {"draftAnswersSaved", "draftSubmitted"}  \* carry expectedVersion

\* Mutant: handle() does not check the expected version.
handleUnversioned(state, version, event, seen) ==
  state.status \in AcceptedFrom[event.type]

\* handle(): whether the command is accepted from a client that last saw
\* version `seen`.  (A second startReview emits nothing and ends there.)
handle(state, version, event, seen) ==
  /\ state.status \in AcceptedFrom[event.type]
  /\ event.type \in Versioned => seen = version

\* What a command's event looks like.
Emitted(seen, version) ==
  [type : {"draftAnswersSaved"}, outcome : {"none"}, answers : {TRUE}, basis : {seen}]
    \cup [type : {"draftSubmitted"}, outcome : {"none"}, answers : {FALSE}, basis : {seen}]
    \cup [type : {"homeVisitCompleted"}, outcome : VisitOutcomes,
          answers : {FALSE}, basis : {version}]
    \cup [type : DOMAIN AcceptedFrom \ (Versioned \cup {"homeVisitCompleted"}),
          outcome : {"none"}, answers : {FALSE}, basis : {version}]

-----------------------------------------------------------------------------

Row == [status : Status, version : Nat \ {0}, answers : BOOLEAN]
NoRow == [status |-> "draft", version |-> 0, answers |-> FALSE]

Txn == [app : Apps, version : Nat, state : State, event : Event]

Staged == [app : Apps, version : Nat, type : EventType]

TypeOK ==
  /\ stream \in [Apps -> Seq(Event)]
  /\ \A a \in Apps : Len(stream[a]) <= MaxVersion[a]
  /\ view \in [Apps -> Row \cup {NoRow}]
  /\ txn \in [Runners -> Txn \cup {Idle}]
  /\ staged \subseteq Staged

Init ==
  /\ stream = [a \in Apps |-> <<>>]
  /\ view = [a \in Apps |-> NoRow]
  /\ txn = [c \in Runners |-> Idle]
  /\ staged = {}

-----------------------------------------------------------------------------
(* runCommand and runCreateCommand. *)

\* loadAggregate and handle(); a command handle() refuses just rolls back.
Load(c, a) ==
  LET version == Len(stream[a])
      state == fold(stream[a])
  IN  /\ txn[c] = Idle
      /\ version \in 1..MaxVersion[a] - 1
      /\ \E seen \in 1..version : \E event \in Emitted(seen, version) :
           /\ handle(state, version, event, seen)
           /\ txn' = [txn EXCEPT ![c] = [app |-> a, version |-> version,
                                         state |-> state, event |-> event]]
      /\ UNCHANGED <<stream, view, staged>>

\* startDraft mints a fresh id, decides on INITIAL_STATE and loads nothing.
StartDraft(c, a) ==
  /\ txn[c] = Idle
  /\ stream[a] = <<>>
  /\ \A d \in Runners : txn[d] # Idle => txn[d].app # a
  /\ txn' = [txn EXCEPT ![c] =
       [app |-> a, version |-> 0, state |-> INITIAL_STATE,
        event |-> [type |-> "draftCreated", outcome |-> "none",
                   answers |-> FALSE, basis |-> 0]]]
  /\ UNCHANGED <<stream, view, staged>>

\* Mutant: on a conflict the event is appended at the next free version.
VersionFreeOnRetry(t) == Len(stream[t.app]) >= t.version

\* appendEvents inserts at version + 1: the (aggregate_id, version) index.
VersionFree(t) == Len(stream[t.app]) = t.version

Open(status) == status \notin {"rejected", "withdrawn"}

\* Mutant: the index covers drafts only.
PairFreeOfDrafts(a) ==
  \A b \in Apps \ {a} :
    Adopter[b] = Adopter[a] /\ Pet[b] = Pet[a] /\ view[b] # NoRow =>
      view[b].status # "draft"

\* The partial unique index on (user_id, pet_id) over open applications.
PairFree(a) ==
  \A b \in Apps \ {a} :
    Adopter[b] = Adopter[a] /\ Pet[b] = Pet[a] /\ view[b] # NoRow =>
      ~Open(view[b].status)

\* Mutant: the envelope id is the bare aggregate id.
EventIdBare(a, version) == [app |-> a, version |-> 0]

\* publishWithVersionedId: `${applicationId}:${version}`.
EventId(a, version) == [app |-> a, version |-> version]

\* projectReadModel: the row of the state the command computed.
Project(state, version) ==
  [status |-> state.status, version |-> version, answers |-> state.answers]

Commit(c) ==
  /\ txn[c] # Idle
  /\ VersionFree(txn[c])
  /\ LET t == txn[c]
         next == apply(t.state, t.event)
         version == t.version + 1
         id == EventId(t.app, version)
     IN  /\ Open(next.status) => PairFree(t.app)
         /\ stream' = [stream EXCEPT ![t.app] = Append(@, t.event)]
         /\ view' = [view EXCEPT ![t.app] = Project(next, version)]
         /\ staged' = staged \cup
              {[app |-> id.app, version |-> id.version, type |-> t.event.type]}
  /\ txn' = [txn EXCEPT ![c] = Idle]

\* A unique violation (FAILED_PRECONDITION, ALREADY_EXISTS), any other error
\* or a crash: nothing of the transaction stays.
Rollback(c) ==
  /\ txn[c] # Idle
  /\ txn' = [txn EXCEPT ![c] = Idle]
  /\ UNCHANGED <<stream, view, staged>>

\* eraseApplications: the read-model row and the event payloads of a user.
Erase(user) ==
  LET mine == {a \in Apps : Adopter[a] = user /\ view[a] # NoRow}
  IN  /\ stream' = [a \in Apps |->
           IF a \in mine
             THEN [i \in DOMAIN stream[a] |-> [stream[a][i] EXCEPT !.answers = FALSE]]
             ELSE stream[a]]
      /\ view' = [a \in Apps |->
           IF a \in mine THEN [view[a] EXCEPT !.answers = FALSE] ELSE view[a]]
      /\ UNCHANGED <<txn, staged>>

Next ==
  \/ \E c \in Runners, a \in Apps : Load(c, a) \/ StartDraft(c, a)
  \/ \E c \in Runners : Commit(c) \/ Rollback(c)
  \/ \E a \in Apps : Erase(Adopter[a])

Spec == Init /\ [][Next]_vars

-----------------------------------------------------------------------------
(* Properties. *)

\* Every event of every stream was legal after the ones before it: no race
\* approves what was withdrawn, or adopts what was never approved.  And the row
\* that lists filter and page on is where its stream has got to.
LegalHistory ==
  \A a \in Apps :
    /\ \A i \in DOMAIN stream[a] :
         IF i = 1
           THEN stream[a][1].type = "draftCreated"
           ELSE /\ stream[a][i].type # "draftCreated"
                /\ fold(SubSeq(stream[a], 1, i - 1)).status
                     \in AcceptedFrom[stream[a][i].type]
    /\ view[a].version = Len(stream[a])
    /\ view[a].status = fold(stream[a]).status

\* An answers patch or a submit lands directly after the version its author
\* had on screen: nobody's edit is overwritten unseen.
NoBlindWrite ==
  \A a \in Apps : \A i \in DOMAIN stream[a] :
    stream[a][i].type \in Versioned => stream[a][i].basis = i - 1

\* At most one open application per adopter and pet, however drafts, rejects
\* and withdrawals of the two interleave.
OneOpenApplication ==
  \A a, b \in Apps :
    /\ a # b /\ Adopter[a] = Adopter[b] /\ Pet[a] = Pet[b]
    /\ view[a] # NoRow /\ view[b] # NoRow
    => ~Open(view[a].status) \/ ~Open(view[b].status)

\* Each event of a stream is announced under an id of its own (what the
\* broker's dedup window, and EventOutbox's IdsUnique, need).
AnnouncedOnce ==
  \A a \in Apps :
    /\ {e.version : e \in {s \in staged : s.app = a}} = DOMAIN stream[a]
    /\ \A e \in staged : e.app = a => e.type = stream[a][e.version].type

\* The files as the rest of the platform sees them.
Case == INSTANCE ApplicationCase WITH
          Rivals <- [a \in Apps |-> {b \in Apps \ {a} :
                                        Adopter[b] = Adopter[a] /\ Pet[b] = Pet[a]}],
          Start <- INITIAL_STATE.status,
          First <- "draftCreated",
          Accepts <- AcceptedFrom,
          Leads <- StatusAfter,
          Closed <- {"rejected", "withdrawn"},
          moves <- [a \in Apps |-> [i \in DOMAIN stream[a] |-> stream[a][i].type]],
          status <- [a \in Apps |-> view[a].status],
          announced <- staged

\* Optimistic concurrency is serial: whichever commands load, decide and commit
\* around one another and around erasures, every commit is one lawful move on
\* the file as it is then, no move is ever rewritten, and the row, the history
\* and the announcement move together.
ImplementsCase == Case!Spec

-----------------------------------------------------------------------------
(* What the code says and does not do. *)

\* "the read model ... is the fold of these rows": what the adopter wrote is
\* gone from the row once it is gone from the stream.
ReadModelIsFold ==
  \A a \in Apps : view[a].answers = fold(stream[a]).answers
=============================================================================
