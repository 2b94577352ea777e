------------------------------ MODULE GdprSaga ------------------------------
(***************************************************************************)
(* One GDPR erasure saga: the request the gateway publishes, the services  *)
(* that erase their slice and report (registerGdprSubscriber), the audit   *)
(* row that tracks them (gdpr-subscribers.ts) and the periodic sweep that  *)
(* times the saga out and retries it (gdpr-sweep.ts).                      *)
(*                                                                         *)
(* The outbox is used through what EventDelivery promises of it: a staged  *)
(* completion is published some time after its commit.  A durable consumer *)
(* is a set of messages not yet acked: it takes them in any order, and one *)
(* it fails to ack stays in the set.                                       *)
(***************************************************************************)
EXTENDS Naturals, FiniteSets

CONSTANTS Services,    \* EXPECTED_GDPR_SERVICES
          EmailKeyed,  \* those with rows that carry an email and no user id
          EmailKnown,  \* the gateway's resolveEmail found the address
          Sweepers,    \* audit replicas: each runs the sweep, without a lock
          MaxRetries,  \* GDPR_SAGA_MAX_RETRIES (3 in the code)
          MaxFaults    \* bound on failures of every kind

ASSUME SagaAssumption ==
  /\ IsFiniteSet(Services)
  /\ Cardinality(Services) > 1
  /\ EmailKeyed \subseteq Services
  /\ EmailKnown \in BOOLEAN
  /\ MaxRetries \in Nat
  /\ MaxFaults \in Nat

VARIABLES requests,    \* attempts on gdpr.erasureRequested: 0 is the
                       \* gateway's, n the sweep's retry n
          inbox,       \* attempts each service's durable has not acked
          auditInbox,  \* attempts the audit request durable has not acked
          erased,      \* kinds of row each service has erased
          outbox,      \* services with a staged completion to publish
          reports,     \* gdpr.erasureCompleted messages audit has not acked
          window,      \* services whose completion id the broker remembers
          parked,      \* services with a completion in the dead-letter stream
          row,         \* the audit.gdpr_erasure_requests row
          sweep,       \* each sweeper's place in runGdprSweep
          seen,        \* retry_count of the row it selected
          faults

serviceVars == <<inbox, erased, outbox>>
auditVars == <<auditInbox, row, parked>>
sweepVars == <<sweep, seen>>
vars == <<requests, serviceVars, reports, window, auditVars,
          sweepVars, faults>>

Attempts == 0..MaxRetries
Report == [service : Services, ok : BOOLEAN]

Row == [exists : BOOLEAN,
        entry : [Services -> {"none", "ok", "error"}],  \* completions
        completed : BOOLEAN, failed : BOOLEAN, timedOut : BOOLEAN,
        overdue : BOOLEAN,                        \* requested_at < cutoff
        retries : Attempts]

TypeOK ==
  /\ requests \subseteq Attempts
  /\ inbox \in [Services -> SUBSET requests]
  /\ auditInbox \subseteq requests
  /\ erased \in [Services -> SUBSET {"userId", "email"}]
  /\ outbox \subseteq Services
  /\ reports \subseteq Report
  /\ window \subseteq Services
  /\ parked \subseteq Services
  /\ row \in Row
  /\ sweep \in [Sweepers -> {"idle", "overdue", "select", "publish", "update"}]
  /\ seen \in [Sweepers -> Attempts]
  /\ \A p \in Sweepers : sweep[p] \in {"publish", "update"} => seen[p] < MaxRetries
  /\ faults \in 0..MaxFaults

Init ==
  /\ requests = {}
  /\ inbox = [s \in Services |-> {}]
  /\ auditInbox = {}
  /\ erased = [s \in Services |-> {}]
  /\ outbox = {}
  /\ reports = {}
  /\ window = {}
  /\ parked = {}
  /\ row = [exists |-> FALSE, entry |-> [s \in Services |-> "none"],
            completed |-> FALSE, failed |-> FALSE, timedOut |-> FALSE,
            overdue |-> FALSE, retries |-> 0]
  /\ sweep = [p \in Sweepers |-> "idle"]
  /\ seen = [p \in Sweepers |-> 0]
  /\ faults = 0

Fault == faults < MaxFaults /\ faults' = faults + 1

-----------------------------------------------------------------------------
(* The gateway and the broker. *)

\* The stream stores attempt k and every durable bound to it will receive it.
StoreRequest(k) ==
  /\ requests' = requests \cup {k}
  /\ inbox' = [s \in Services |-> inbox[s] \cup {k}]
  /\ auditInbox' = auditInbox \cup {k}

RequestErasure ==
  /\ requests = {}
  /\ StoreRequest(0)
  /\ UNCHANGED <<erased, outbox, reports, window, row, parked,
                 sweepVars, faults>>

\* Every completion of a service has the same message id, whatever its
\* outcome and whichever attempt it answers: within the dedup window the
\* broker acknowledges and drops a second one.
PublishReport(s, ok) ==
  IF s \in window
    THEN UNCHANGED <<reports, window>>
    ELSE /\ reports' = reports \cup {[service |-> s, ok |-> ok]}
         /\ window' = window \cup {s}

WindowExpires(s) ==
  /\ s \in window
  /\ window' = window \ {s}
  /\ UNCHANGED <<requests, serviceVars, reports, auditVars,
                 sweepVars, faults>>

-----------------------------------------------------------------------------
(* A service: registerGdprSubscriber. *)

\* What erase() scrubs on attempt k.  The sweep rebuilds the payload without
\* the email, so only the gateway's attempt can reach email-keyed rows.
RowsErased(s, k) ==
  {"userId"} \cup
    (IF s \in EmailKeyed /\ EmailKnown /\ k = 0 THEN {"email"} ELSE {})

AckRequest(s, k) == inbox' = [inbox EXCEPT ![s] = @ \ {k}]

\* The transaction commits with the scrub and the staged completion in it.
Erase(s, k) ==
  /\ k \in inbox[s]
  /\ erased' = [erased EXCEPT ![s] = @ \cup RowsErased(s, k)]
  /\ outbox' = outbox \cup {s}
  /\ UNCHANGED <<requests, reports, window, auditVars, sweepVars>>

\* Mutant: the completion is published from memory after the commit, and the
\* process dies in between.
EraseWithoutOutbox(s, k) ==
  /\ k \in inbox[s]
  /\ erased' = [erased EXCEPT ![s] = @ \cup RowsErased(s, k)]
  /\ AckRequest(s, k)
  /\ UNCHANGED <<requests, outbox, reports, window, auditVars,
                 sweepVars, faults>>

\* The handler returns and the message is acked, or the process dies first.
EraseCommits(s, k) == Erase(s, k) /\ AckRequest(s, k) /\ UNCHANGED faults

EraseCommitsUnacked(s, k) == Erase(s, k) /\ Fault /\ UNCHANGED inbox

\* erase() or COMMIT throws and everything rolls back; a failure completion
\* goes out directly, unless that publish throws too.  Acked either way.
EraseFails(s, k) ==
  /\ k \in inbox[s]
  /\ Fault
  /\ AckRequest(s, k)
  /\ \/ PublishReport(s, FALSE)
     \/ UNCHANGED <<reports, window>>
  /\ UNCHANGED <<requests, erased, outbox, auditVars, sweepVars>>

\* COMMIT took effect but its reply was lost: the handler reports a failure
\* for an erasure that did happen, with the success still in the outbox.
EraseCommitUnacknowledged(s, k) ==
  /\ k \in inbox[s]
  /\ Fault
  /\ AckRequest(s, k)
  /\ erased' = [erased EXCEPT ![s] = @ \cup RowsErased(s, k)]
  /\ outbox' = outbox \cup {s}
  /\ PublishReport(s, FALSE)
  /\ UNCHANGED <<requests, auditVars, sweepVars>>

\* The inline flush or the relay publishes the staged completion.
FlushCompletion(s) ==
  /\ s \in outbox
  /\ PublishReport(s, TRUE)
  /\ outbox' = outbox \ {s}
  /\ UNCHANGED <<requests, inbox, erased, auditVars, sweepVars, faults>>

-----------------------------------------------------------------------------
(* The audit service: recordRequest and recordCompletion. *)

\* A skeleton left by an earlier completion only gets its columns filled in.
RecordRequest(k) ==
  /\ k \in auditInbox
  /\ row' = [row EXCEPT !.exists = TRUE]
  /\ auditInbox' = auditInbox \ {k}
  /\ UNCHANGED <<requests, serviceVars, reports, window, parked,
                 sweepVars, faults>>

Outcome(r) == IF r.ok THEN "ok" ELSE "error"

\* Mutant: errored acks count towards completion (before ADS-777).
MergedCountingErrors(r) ==
  LET entry == [row.entry EXCEPT ![r.service] = Outcome(r)]
  IN  [row EXCEPT !.exists = TRUE,
                  !.entry = entry,
                  !.completed = row.exists /\
                    (row.completed \/ \A s \in Services : entry[s] # "none"),
                  !.failed = @ \/ ~r.ok]

\* Mutant: completed_at is recomputed from the blob on every merge.
MergedRecomputing(r) ==
  LET entry == [row.entry EXCEPT ![r.service] = Outcome(r)]
  IN  [row EXCEPT !.exists = TRUE,
                  !.entry = entry,
                  !.completed = row.exists /\ \A s \in Services : entry[s] = "ok",
                  !.failed = @ \/ ~r.ok]

\* The upsert.  Its INSERT arm, for a completion that overtook the request,
\* never stamps completed_at; its UPDATE arm does once no service is missing
\* or errored, and never takes the stamp back.
Merged(r) ==
  LET entry == [row.entry EXCEPT ![r.service] = Outcome(r)]
  IN  [row EXCEPT !.exists = TRUE,
                  !.entry = entry,
                  !.completed = row.exists /\
                    (row.completed \/ \A s \in Services : entry[s] = "ok"),
                  !.failed = @ \/ ~r.ok]

\* Mutant: a completion that overtakes the request updates no row and is acked.
RecordCompletionOfKnown(r) ==
  /\ r \in reports
  /\ row' = IF row.exists THEN Merged(r) ELSE row
  /\ reports' = reports \ {r}
  /\ UNCHANGED <<requests, serviceVars, window, auditInbox, parked,
                 sweepVars, faults>>

RecordCompletion(r) ==
  /\ r \in reports
  /\ row' = Merged(r)
  /\ reports' = reports \ {r}
  /\ UNCHANGED <<requests, serviceVars, window, auditInbox, parked,
                 sweepVars, faults>>

\* The ack is lost, and the same completion is merged again later, perhaps
\* after newer ones.
RecordCompletionUnacked(r) ==
  /\ r \in reports
  /\ Fault
  /\ row' = Merged(r)
  /\ UNCHANGED <<requests, serviceVars, reports, window, auditInbox,
                 parked, sweepVars>>

\* The upsert failed on every delivery: the completion is dead-lettered.
ParkCompletion(r) ==
  /\ r \in reports
  /\ Fault
  /\ reports' = reports \ {r}
  /\ parked' = parked \cup {r.service}
  /\ UNCHANGED <<requests, serviceVars, window, auditInbox, row,
                 sweepVars>>

DeadlinePasses ==
  /\ row.exists /\ ~row.overdue
  /\ row' = [row EXCEPT !.overdue = TRUE]
  /\ UNCHANGED <<requests, serviceVars, reports, window, auditInbox,
                 parked, sweepVars, faults>>

-----------------------------------------------------------------------------
(* The sweep, one step per statement: each UPDATE is by correlation id only *)
(* and does not look at what changed since its SELECT.                      *)

Goto(p, l) == sweep' = [sweep EXCEPT ![p] = l]

\* Mutant: only a saga nobody reported on counts as stuck.
SelectOverdueUnheard(p) ==
  /\ sweep[p] = "idle"
  /\ LET overdue == /\ row.exists /\ row.overdue
                    /\ ~row.completed /\ ~row.timedOut
                    /\ \A s \in Services : row.entry[s] = "none"
     IN  Goto(p, IF overdue THEN "overdue" ELSE "select")
  /\ UNCHANGED <<requests, serviceVars, reports, window, auditVars,
                 seen, faults>>

SelectOverdue(p) ==
  /\ sweep[p] = "idle"
  /\ LET overdue == /\ row.exists /\ row.overdue
                    /\ ~row.completed /\ ~row.timedOut
                    /\ \E s \in Services : row.entry[s] = "none"
     IN  Goto(p, IF overdue THEN "overdue" ELSE "select")
  /\ UNCHANGED <<requests, serviceVars, reports, window, auditVars,
                 seen, faults>>

StampTimedOut(p) ==
  /\ sweep[p] = "overdue"
  /\ row' = [row EXCEPT !.timedOut = TRUE]
  /\ Goto(p, "select")
  /\ UNCHANGED <<requests, serviceVars, reports, window, auditInbox,
                 parked, seen, faults>>

\* Mutant: the retry budget is off by one.
WithinBudgetInclusive == row.retries <= MaxRetries

WithinBudget == row.retries < MaxRetries

SelectRetry(p) ==
  /\ sweep[p] = "select"
  /\ IF row.exists /\ row.failed /\ ~row.completed /\ WithinBudget
       THEN Goto(p, "publish") /\ seen' = [seen EXCEPT ![p] = row.retries]
       ELSE Goto(p, "idle") /\ UNCHANGED seen
  /\ UNCHANGED <<requests, serviceVars, reports, window, auditVars,
                 faults>>

\* A retry whose id is on the stream already (its UPDATE was lost, or another
\* replica published it) is dropped within the dedup window.
PublishRetry(p) ==
  /\ sweep[p] = "publish"
  /\ \/ StoreRequest(seen[p] + 1)
     \/ seen[p] + 1 \in requests /\ UNCHANGED <<requests, inbox, auditInbox>>
  /\ Goto(p, "update")
  /\ UNCHANGED <<erased, outbox, reports, window, row, parked, seen,
                 faults>>

CountRetry(p) ==
  /\ sweep[p] = "update"
  /\ row' = [row EXCEPT !.retries = seen[p] + 1, !.failed = FALSE]
  /\ Goto(p, "idle")
  /\ UNCHANGED <<requests, serviceVars, reports, window, auditInbox,
                 parked, seen, faults>>

\* A statement or the publish throws, or the replica dies.
SweepFails(p) ==
  /\ sweep[p] # "idle"
  /\ Fault
  /\ Goto(p, "idle")
  /\ UNCHANGED <<requests, serviceVars, reports, window, auditVars, seen>>

-----------------------------------------------------------------------------

ServiceStep(s) ==
  \/ \E k \in Attempts : EraseCommits(s, k)
  \/ FlushCompletion(s)

AuditStep ==
  \/ \E k \in Attempts : RecordRequest(k)
  \/ \E r \in Report : RecordCompletion(r)

SweepStep(p) ==
  \/ SelectOverdue(p) \/ StampTimedOut(p)
  \/ SelectRetry(p) \/ PublishRetry(p) \/ CountRetry(p)

FaultStep ==
  \/ \E s \in Services, k \in Attempts :
       \/ EraseCommitsUnacked(s, k)
       \/ EraseFails(s, k)
       \/ EraseCommitUnacknowledged(s, k)
  \/ \E r \in Report : RecordCompletionUnacked(r) \/ ParkCompletion(r)
  \/ \E p \in Sweepers : SweepFails(p)

Next ==
  \/ RequestErasure
  \/ \E s \in Services : ServiceStep(s) \/ WindowExpires(s)
  \/ AuditStep
  \/ DeadlinePasses
  \/ \E p \in Sweepers : SweepStep(p)
  \/ FaultStep

Spec == Init /\ [][Next]_vars

\* The durables redeliver what is not acked and the relay drains the outbox
\* (EventConsumer, EventOutbox); time passes; the scheduler runs the sweep.
Fairness ==
  /\ \A s \in Services : /\ WF_vars(\E k \in Attempts : EraseCommits(s, k))
                         /\ WF_vars(FlushCompletion(s))
  /\ \A k \in Attempts : WF_vars(RecordRequest(k))
  /\ \A r \in Report : WF_vars(RecordCompletion(r))
  /\ WF_vars(DeadlinePasses)
  /\ \A p \in Sweepers : WF_vars(SweepStep(p))

FairSpec == Spec /\ Fairness

-----------------------------------------------------------------------------
(* Properties. *)

\* completed_at is stamped only after every participant committed its scrub,
\* whatever was retried, redelivered, reordered or reported twice.
CompletedMeansErased ==
  row.completed => \A s \in Services : "userId" \in erased[s]

\* A scrub that committed never goes unreported: until audit has an entry for
\* the service, its completion is staged, on the stream, or parked.
ErasureLeavesATrace ==
  \A s \in Services :
    erased[s] # {} /\ row.entry[s] = "none" =>
      \/ s \in outbox \cup parked
      \/ \E r \in reports : r.service = s

\* What the row has told an operator stands: completed_at and timed_out_at
\* are never cleared, and an entry is only ever replaced by another.
VerdictsStand ==
  [][ /\ row.completed => row'.completed
      /\ row.timedOut => row'.timedOut
      /\ \A s \in Services : row.entry[s] # "none" => row'.entry[s] # "none" ]_vars

\* The services' rows and the audit row are one registrar's file: whatever is
\* lost, repeated or overtaken, an "ok" is written only of a service that has
\* erased, completed_at only over "ok" entries, and nothing is taken back.
Record == INSTANCE ErasureRecord WITH
  erased <- {s \in Services : "userId" \in erased[s]},
  note <- row.entry,
  completed <- row.completed,
  timedOut <- row.timedOut

ImplementsRecord == Record!Spec

\* A tracked saga does not wait forever on a service nobody hears from: it
\* completes, or every service reports, or the sweep times it out.
StallSurfaces ==
  row.exists ~> \/ row.completed \/ row.timedOut
                \/ \A s \in Services : row.entry[s] # "none"

\* With nothing failing, the request alone takes the saga to completed_at, in
\* whatever order completions, request and sweeps reach the audit row.
CleanRunCompletes ==
  [](faults = 0) => (requests # {} ~> row.completed)

-----------------------------------------------------------------------------
(* What the code says and does not do. *)

\* Nothing of the saga is moving any more.
Quiet ==
  /\ \A s \in Services : inbox[s] = {}
  /\ outbox = {} /\ reports = {}
  /\ \A p \in Sweepers : sweep[p] = "idle"

\* "errored acks stamp failed_at instead so operators see the saga needs
\* attention": once all is quiet, an errored entry shows as failed_at.
ErrorsStayVisible ==
  Quiet /\ ~row.completed /\ (\E s \in Services : row.entry[s] = "error") =>
    row.failed \/ row.timedOut

\* A retry carries "the SAME payload": a completed saga has erased the
\* email-keyed rows too, once all is quiet, when the gateway had the email.
CompletedMeansEmailErased ==
  Quiet /\ row.completed /\ EmailKnown =>
    \A s \in EmailKeyed : "email" \in erased[s]
=============================================================================
