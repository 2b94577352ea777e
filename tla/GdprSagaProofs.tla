--------------------------- MODULE GdprSagaProofs ---------------------------
(***************************************************************************)
(* Proofs about GdprSaga for every set of services and sweepers, every     *)
(* retry budget and any number of faults.                                  *)
(*                                                                         *)
(* SagaInv joins two facts.  Backed: a success is staged, sent or recorded *)
(* only for a service that erased.  Heard: what erased, and what the       *)
(* broker would drop as a duplicate, is on its way to audit or there.      *)
(* On it rests the refinement to ErasureRecord.  FirstAttempt, an          *)
(* invariant of its own, shows which promises hold until a retry is made.  *)
(***************************************************************************)
EXTENDS GdprSaga, TLAPS

\* Only a service that committed its scrub has a success anywhere.
Backed ==
  /\ \A s \in outbox : "userId" \in erased[s]
  /\ \A r \in reports : r.ok => "userId" \in erased[r.service]
  /\ \A s \in Services : row.entry[s] = "ok" => "userId" \in erased[s]

\* The service has a completion recorded, parked or on the stream.
Arriving(s) ==
  row.entry[s] # "none" \/ s \in parked \/ \E r \in reports : r.service = s

Heard ==
  \A s \in Services :
    /\ s \in window => Arriving(s)
    /\ erased[s] # {} => s \in outbox \/ Arriving(s)

\* Only a tracked saga is completed.
Tracked == row.completed => row.exists

SagaInv == Backed /\ CompletedMeansErased /\ Heard /\ Tracked

(* ------------------------------- Types --------------------------------- *)

\* A publish stores a well-formed report or nothing.
LEMMA PublishType ==
  ASSUME TypeOK, NEW s \in Services, NEW ok \in BOOLEAN, PublishReport(s, ok)
  PROVE  reports' \subseteq Report /\ window' \subseteq Services
<1>1. [service |-> s, ok |-> ok] \in Report
  BY DEF Report
<1>2. QED
  BY <1>1 DEF TypeOK, PublishReport

\* The merge yields a well-formed row that keeps every earlier verdict.
LEMMA MergedRow ==
  ASSUME TypeOK, NEW r \in reports
  PROVE  /\ Merged(r) \in Row
         /\ r.service \in Services /\ Outcome(r) \in {"ok", "error"}
         /\ Merged(r).exists
         /\ Merged(r).entry = [row.entry EXCEPT ![r.service] = Outcome(r)]
         /\ Merged(r).timedOut = row.timedOut
         /\ Merged(r).completed <=>
              row.exists /\ (row.completed \/ \A s \in Services : Merged(r).entry[s] = "ok")
<1> DEFINE entry == [row.entry EXCEPT ![r.service] = Outcome(r)]
           done == row.exists /\ (row.completed \/ \A s \in Services : entry[s] = "ok")
           failed == row.failed \/ ~r.ok
<1>1. row \in Row /\ r \in Report
  BY DEF TypeOK
<1>2. r.service \in Services /\ r.ok \in BOOLEAN /\ Outcome(r) \in {"ok", "error"}
  BY <1>1 DEF Report, Outcome
<1>3. entry \in [Services -> {"none", "ok", "error"}]
  BY <1>1, <1>2 DEF Row
<1>4. done \in BOOLEAN /\ failed \in BOOLEAN
  OBVIOUS
<1>5. Merged(r) = [row EXCEPT !.exists = TRUE, !.entry = entry, !.completed = done,
                              !.failed = failed]
  BY Zenon DEF Merged
<1> HIDE DEF entry, done, failed
<1>6. /\ Merged(r) \in Row
      /\ Merged(r).exists = TRUE
      /\ Merged(r).entry = entry
      /\ Merged(r).timedOut = row.timedOut
      /\ Merged(r).completed = done
  BY <1>1, <1>3, <1>4, <1>5 DEF Row
<1>7. QED
  BY <1>2, <1>6 DEF entry, done

\* A step that uses up a fault stays within the bound.
LEMMA FaultCounted == ASSUME TypeOK, Fault PROVE faults' \in 0..MaxFaults
  BY SagaAssumption DEF TypeOK, Fault

\* Everything starts out well typed.
LEMMA TypeInit == Init => TypeOK
  BY SagaAssumption DEF Init, TypeOK, Row, Attempts

\* Every step keeps every variable in its type; the sweep keeps its budget.
LEMMA TypeStep == TypeOK /\ [Next]_vars => TypeOK'
<1> SUFFICES ASSUME TypeOK, [Next]_vars PROVE TypeOK'
  OBVIOUS
<1> USE DEF TypeOK, serviceVars, auditVars, sweepVars
<1>1. CASE RequestErasure
  BY <1>1, SagaAssumption DEF RequestErasure, StoreRequest, Attempts
<1>2. ASSUME NEW s \in Services, WindowExpires(s) PROVE TypeOK'
  BY <1>2 DEF WindowExpires
<1>3. ASSUME NEW s \in Services, NEW k \in Attempts,
             EraseCommits(s, k) \/ EraseCommitsUnacked(s, k)
      PROVE  TypeOK'
  <2>1. erased' \in [Services -> SUBSET {"userId", "email"}] /\ outbox' \subseteq Services
    <3>1. RowsErased(s, k) \in SUBSET {"userId", "email"}
      BY DEF RowsErased
    <3>2. QED
      BY <1>3, <3>1 DEF EraseCommits, EraseCommitsUnacked, Erase
  <2>2. inbox' \in [Services -> SUBSET requests]
    BY <1>3 DEF EraseCommits, EraseCommitsUnacked, AckRequest
  <2>3. QED
    BY <1>3, <2>1, <2>2, FaultCounted DEF EraseCommits, EraseCommitsUnacked, Erase
<1>4. ASSUME NEW s \in Services, NEW k \in Attempts,
             EraseFails(s, k) \/ EraseCommitUnacknowledged(s, k)
      PROVE  TypeOK'
  <2>1. reports' \subseteq Report /\ window' \subseteq Services
    BY <1>4, PublishType DEF EraseFails, EraseCommitUnacknowledged
  <2>2. erased' \in [Services -> SUBSET {"userId", "email"}] /\ outbox' \subseteq Services
    <3>1. RowsErased(s, k) \in SUBSET {"userId", "email"}
      BY DEF RowsErased
    <3>2. QED
      BY <1>4, <3>1 DEF EraseFails, EraseCommitUnacknowledged
  <2>3. inbox' \in [Services -> SUBSET requests]
    BY <1>4 DEF EraseFails, EraseCommitUnacknowledged, AckRequest
  <2>4. QED
    BY <1>4, <2>1, <2>2, <2>3, FaultCounted DEF EraseFails, EraseCommitUnacknowledged
<1>5. ASSUME NEW s \in Services, FlushCompletion(s) PROVE TypeOK'
  <2>1. reports' \subseteq Report /\ window' \subseteq Services
    BY <1>5, PublishType DEF FlushCompletion
  <2>2. QED
    BY <1>5, <2>1 DEF FlushCompletion
<1>6. ASSUME NEW k \in Attempts, RecordRequest(k) PROVE TypeOK'
  <2>1. row' \in Row
    BY <1>6 DEF RecordRequest, Row
  <2>2. QED
    BY <1>6, <2>1 DEF RecordRequest
<1>7. ASSUME NEW r \in Report, RecordCompletion(r) \/ RecordCompletionUnacked(r)
      PROVE  TypeOK'
  <2>1. row' \in Row
    BY <1>7, MergedRow DEF RecordCompletion, RecordCompletionUnacked
  <2>2. QED
    BY <1>7, <2>1, FaultCounted DEF RecordCompletion, RecordCompletionUnacked
<1>8. ASSUME NEW r \in Report, ParkCompletion(r) PROVE TypeOK'
  <2>1. r.service \in Services
    BY <1>8 DEF Report
  <2>2. QED
    BY <1>8, <2>1, FaultCounted DEF ParkCompletion
<1>9. CASE DeadlinePasses
  <2>1. row' \in Row
    BY <1>9 DEF DeadlinePasses, Row
  <2>2. QED
    BY <1>9, <2>1 DEF DeadlinePasses
<1>10. ASSUME NEW p \in Sweepers, SelectOverdue(p) \/ SweepFails(p) PROVE TypeOK'
  BY <1>10, FaultCounted DEF SelectOverdue, SweepFails, Goto
<1>11. ASSUME NEW p \in Sweepers, StampTimedOut(p) PROVE TypeOK'
  <2>1. row' \in Row
    BY <1>11 DEF StampTimedOut, Row
  <2>2. QED
    BY <1>11, <2>1 DEF StampTimedOut, Goto
<1>12. ASSUME NEW p \in Sweepers, SelectRetry(p) PROVE TypeOK'
  <2>1. row.retries \in Attempts
    BY DEF Row
  <2>2. QED
    BY <1>12, <2>1 DEF SelectRetry, Goto, WithinBudget
<1>13. ASSUME NEW p \in Sweepers, PublishRetry(p) PROVE TypeOK'
  <2>1. seen[p] + 1 \in Attempts
    BY <1>13, SagaAssumption DEF PublishRetry, Attempts
  <2>2. sweep' \in [Sweepers -> {"idle", "overdue", "select", "publish", "update"}]
    BY <1>13 DEF PublishRetry, Goto
  <2>3. \A q \in Sweepers : sweep'[q] \in {"publish", "update"} => seen'[q] < MaxRetries
    BY <1>13 DEF PublishRetry, Goto
  <2>4. QED
    BY <1>13, <2>1, <2>2, <2>3 DEF PublishRetry, StoreRequest
<1>14. ASSUME NEW p \in Sweepers, CountRetry(p) PROVE TypeOK'
  <2>1. seen[p] + 1 \in Attempts
    BY <1>14, SagaAssumption DEF CountRetry, Attempts
  <2>2. row' \in Row
    BY <1>14, <2>1 DEF CountRetry, Row
  <2>3. QED
    BY <1>14, <2>2 DEF CountRetry, Goto
<1>15. CASE UNCHANGED vars
  BY <1>15 DEF vars
<1>16. QED
  BY <1>1, <1>2, <1>3, <1>4, <1>5, <1>6, <1>7, <1>8, <1>9, <1>10, <1>11, <1>12, <1>13,
     <1>14, <1>15 DEF Next, ServiceStep, AuditStep, SweepStep, FaultStep

\* Every variable keeps its type; a sweep that passed the budget check stays
\* below MaxRetries, however its statements interleave with other replicas.
THEOREM TypeCorrect == Spec => []TypeOK
  BY TypeInit, TypeStep, PTL DEF Spec

(* ------------------------------- Safety -------------------------------- *)

\* Nothing is erased, staged or recorded at the start.
LEMMA SagaInit == Init => SagaInv
  BY DEF Init, SagaInv, Backed, CompletedMeansErased, Heard, Tracked

\* A publish adds at most its own report, and leaves one wherever the broker
\* remembers the id.
LEMMA PublishEffect ==
  ASSUME TypeOK, NEW s \in Services, NEW ok \in BOOLEAN, PublishReport(s, ok)
  PROVE  /\ reports \subseteq reports'
         /\ \A r \in reports' : r \in reports \/ (r.service = s /\ r.ok = ok)
         /\ \A u \in window' : u \in window \/ u = s
         /\ s \in window \/ \E r \in reports' : r.service = s
<1> DEFINE report == [service |-> s, ok |-> ok]
<1>1. report.service = s /\ report.ok = ok
  OBVIOUS
<1>2. CASE s \in window
  BY <1>2 DEF PublishReport
<1>3. CASE s \notin window
  <2>1. reports' = reports \cup {report} /\ window' = window \cup {s}
    BY <1>3, Zenon DEF PublishReport
  <2> HIDE DEF report
  <2>2. QED
    BY <1>1, <2>1, Zenon
<1>4. QED
  BY <1>2, <1>3

\* What a service erases it never loses, and it always scrubs by user id.
LEMMA ErasedGrows ==
  ASSUME TypeOK, NEW s \in Services, NEW k \in Attempts,
         erased' = [erased EXCEPT ![s] = @ \cup RowsErased(s, k)]
  PROVE  /\ \A u \in Services : erased[u] \subseteq erased'[u]
         /\ \A u \in Services \ {s} : erased'[u] = erased[u]
         /\ "userId" \in erased'[s]
  BY DEF TypeOK, RowsErased

\* A step that erases nothing, publishes nothing and leaves the saga's row
\* with the same entries and stamps keeps the invariant.
LEMMA QuietStep ==
  ASSUME SagaInv, UNCHANGED <<erased, outbox, reports, parked>>, window' \subseteq window,
         row'.entry = row.entry, row'.completed = row.completed,
         row.exists => row'.exists
  PROVE  SagaInv'
  BY DEF SagaInv, Backed, CompletedMeansErased, Heard, Arriving, Tracked

\* Every step keeps the invariant: one case per action that erases, publishes
\* or records a completion, and one for all the others.
LEMMA SagaStep == TypeOK /\ SagaInv /\ [Next]_vars => SagaInv'
<1> SUFFICES ASSUME TypeOK, SagaInv, [Next]_vars PROVE SagaInv'
  OBVIOUS
<1>1. ASSUME NEW s \in Services, NEW k \in Attempts,
             EraseCommits(s, k) \/ EraseCommitsUnacked(s, k)
      PROVE  SagaInv'
  <2>1. /\ erased' = [erased EXCEPT ![s] = @ \cup RowsErased(s, k)]
        /\ outbox' = outbox \cup {s}
        /\ UNCHANGED <<reports, window, row, parked>>
    BY <1>1 DEF EraseCommits, EraseCommitsUnacked, Erase, auditVars
  <2>2. Backed' /\ CompletedMeansErased'
    BY <2>1, ErasedGrows DEF TypeOK, SagaInv, Backed, CompletedMeansErased, Report
  <2>3. Heard' /\ Tracked'
    BY <2>1, ErasedGrows DEF SagaInv, Heard, Arriving, Tracked
  <2>4. QED
    BY <2>2, <2>3 DEF SagaInv
<1>2. ASSUME NEW s \in Services, NEW k \in Attempts, EraseFails(s, k) PROVE SagaInv'
  <2>1. CASE UNCHANGED <<reports, window>>
    BY <1>2, <2>1, QuietStep DEF EraseFails, auditVars
  <2>2. CASE PublishReport(s, FALSE)
    <3>1. UNCHANGED <<erased, outbox, row, parked>>
      BY <1>2 DEF EraseFails, auditVars
    <3>2. Backed' /\ CompletedMeansErased'
      BY <2>2, <3>1, PublishEffect DEF SagaInv, Backed, CompletedMeansErased
    <3>3. Heard' /\ Tracked'
      BY <2>2, <3>1, PublishEffect DEF SagaInv, Heard, Arriving, Tracked
    <3>4. QED
      BY <3>2, <3>3 DEF SagaInv
  <2>3. QED
    BY <1>2, <2>1, <2>2 DEF EraseFails
<1>3. ASSUME NEW s \in Services, NEW k \in Attempts, EraseCommitUnacknowledged(s, k)
      PROVE  SagaInv'
  <2>1. /\ erased' = [erased EXCEPT ![s] = @ \cup RowsErased(s, k)]
        /\ outbox' = outbox \cup {s}
        /\ PublishReport(s, FALSE)
        /\ UNCHANGED <<row, parked>>
    BY <1>3 DEF EraseCommitUnacknowledged, auditVars
  <2>2. Backed' /\ CompletedMeansErased'
    <3>1. \A r \in reports' : r \in reports \/ ~r.ok
      BY <2>1, PublishEffect
    <3>2. \A r \in reports : r.service \in Services
      BY DEF TypeOK, Report
    <3>3. QED
      BY <2>1, <3>1, <3>2, ErasedGrows DEF TypeOK, SagaInv, Backed, CompletedMeansErased
  <2>3. Heard' /\ Tracked'
    BY <2>1, ErasedGrows, PublishEffect DEF SagaInv, Heard, Arriving, Tracked
  <2>4. QED
    BY <2>2, <2>3 DEF SagaInv
<1>4. ASSUME NEW s \in Services, FlushCompletion(s) PROVE SagaInv'
  <2>1. /\ s \in outbox /\ outbox' = outbox \ {s}
        /\ PublishReport(s, TRUE)
        /\ UNCHANGED <<erased, row, parked>>
    BY <1>4 DEF FlushCompletion, auditVars
  <2>2. Backed' /\ CompletedMeansErased'
    BY <2>1, PublishEffect DEF SagaInv, Backed, CompletedMeansErased
  <2>3. Heard' /\ Tracked'
    BY <2>1, PublishEffect DEF SagaInv, Heard, Arriving, Tracked
  <2>4. QED
    BY <2>2, <2>3 DEF SagaInv
<1>5. ASSUME NEW r \in Report, RecordCompletion(r) \/ RecordCompletionUnacked(r)
      PROVE  SagaInv'
  <2>1. /\ r \in reports /\ row' = Merged(r)
        /\ reports' \subseteq reports /\ reports \subseteq reports' \cup {r}
        /\ UNCHANGED <<erased, outbox, window, parked>>
    BY <1>5 DEF RecordCompletion, RecordCompletionUnacked, serviceVars
  <2>2. row.entry \in [Services -> {"none", "ok", "error"}]
    BY DEF TypeOK, Row
  <2>3. /\ row'.entry = [row.entry EXCEPT ![r.service] = Outcome(r)]
        /\ row'.completed <=>
             row.exists /\ (row.completed \/ \A s \in Services : row'.entry[s] = "ok")
        /\ row'.exists /\ r.service \in Services /\ Outcome(r) \in {"ok", "error"}
    BY <2>1, MergedRow
  <2>4. Backed'
    BY <2>1, <2>2, <2>3 DEF SagaInv, Backed, Outcome
  <2>5. CompletedMeansErased'
    BY <2>1, <2>3, <2>4 DEF SagaInv, Backed, CompletedMeansErased
  <2>6. \A s \in Services : Arriving(s) => Arriving(s)'
    BY <2>1, <2>2, <2>3 DEF Arriving
  <2>7. Heard' /\ Tracked'
    BY <2>1, <2>3, <2>6 DEF SagaInv, Heard, Tracked
  <2>8. QED
    BY <2>4, <2>5, <2>7 DEF SagaInv
<1>6. ASSUME NEW r \in Report, ParkCompletion(r) PROVE SagaInv'
  <2>1. /\ reports' = reports \ {r} /\ parked' = parked \cup {r.service}
        /\ UNCHANGED <<erased, outbox, window, row>>
    BY <1>6 DEF ParkCompletion, serviceVars
  <2>2. QED
    BY <2>1 DEF SagaInv, Backed, CompletedMeansErased, Heard, Arriving, Tracked
<1>7. CASE /\ UNCHANGED <<erased, outbox, reports, parked>>
           /\ window' \subseteq window
           /\ row'.entry = row.entry /\ row'.completed = row.completed
           /\ row.exists => row'.exists
  BY <1>7, QuietStep
<1>8. row \in Row
  BY DEF TypeOK
<1>9. CASE \/ RequestErasure
           \/ \E s \in Services : WindowExpires(s)
           \/ \E k \in Attempts : RecordRequest(k)
           \/ DeadlinePasses
           \/ \E p \in Sweepers : SweepStep(p) \/ SweepFails(p)
           \/ UNCHANGED vars
  BY <1>7, <1>8, <1>9 DEF RequestErasure, WindowExpires, RecordRequest, DeadlinePasses, SweepStep,
     SelectOverdue, StampTimedOut, SelectRetry, PublishRetry, CountRetry, SweepFails, vars,
     serviceVars, auditVars, Row
<1>10. QED
  BY <1>1, <1>2, <1>3, <1>4, <1>5, <1>6, <1>9 DEF Next, ServiceStep, AuditStep, FaultStep

\* Types and the saga's invariant hold in every reachable state.
LEMMA SagaCorrect == Spec => [](TypeOK /\ SagaInv)
  BY TypeInit, TypeStep, SagaInit, SagaStep, PTL DEF Spec

\* recordCompletion stamps completed_at only over services that committed their
\* scrub: retries, redeliveries, lost acks and reordering cannot complete a saga
\* early.
THEOREM Completion == Spec => []CompletedMeansErased
<1>1. SagaInv => CompletedMeansErased
  BY DEF SagaInv
<1>2. QED
  BY <1>1, SagaCorrect, PTL

\* The completion committed with a scrub is never lost on its way to the audit
\* row, although the broker drops duplicates and the handler may be re-run.
THEOREM Trace == Spec => []ErasureLeavesATrace
<1>1. SagaInv => ErasureLeavesATrace
  BY DEF SagaInv, Heard, Arriving, ErasureLeavesATrace
<1>2. QED
  BY <1>1, SagaCorrect, PTL

\* No upsert, sweep or retry takes completed_at, timed_out_at or a service's
\* entry back.
THEOREM Verdicts == Spec => VerdictsStand
<1>1. TypeOK /\ SagaInv /\ [Next]_vars =>
        [ /\ row.completed => row'.completed
          /\ row.timedOut => row'.timedOut
          /\ \A s \in Services : row.entry[s] # "none" => row'.entry[s] # "none" ]_vars
  <2> SUFFICES ASSUME TypeOK, SagaInv, Next
               PROVE  /\ row.completed => row'.completed
                      /\ row.timedOut => row'.timedOut
                      /\ \A s \in Services : row.entry[s] # "none" => row'.entry[s] # "none"
    OBVIOUS
  <2>1. row \in Row
    BY DEF TypeOK
  <2>2. ASSUME NEW r \in Report, RecordCompletion(r) \/ RecordCompletionUnacked(r)
        PROVE  /\ row.completed => row'.completed
               /\ row.timedOut => row'.timedOut
               /\ \A s \in Services : row.entry[s] # "none" => row'.entry[s] # "none"
    <3>1. r \in reports /\ row' = Merged(r)
      BY <2>2 DEF RecordCompletion, RecordCompletionUnacked
    <3>2. row.completed => row.exists
      BY DEF SagaInv, Tracked
    <3>3. row.entry \in [Services -> {"none", "ok", "error"}]
      BY <2>1 DEF Row
    <3>4. QED
      BY <3>1, <3>2, <3>3, MergedRow
  <2>3. CASE /\ row'.completed = row.completed
             /\ row.timedOut => row'.timedOut
             /\ row'.entry = row.entry
    BY <2>3
  <2>4. CASE ~ \E r \in Report : RecordCompletion(r) \/ RecordCompletionUnacked(r)
    BY <2>1, <2>3, <2>4 DEF Next, ServiceStep, AuditStep, SweepStep, FaultStep, RequestErasure,
       WindowExpires, EraseCommits, EraseCommitsUnacked, Erase, EraseFails,
       EraseCommitUnacknowledged, FlushCompletion, RecordRequest, ParkCompletion,
       DeadlinePasses, SelectOverdue, StampTimedOut, SelectRetry, PublishRetry, CountRetry,
       SweepFails, auditVars, Row
  <2>5. QED
    BY <2>2, <2>4
<1>2. QED
  BY <1>1, SagaCorrect, PTL DEF Spec, VerdictsStand

(* ----------------------------- Refinement ------------------------------ *)

\* The abstract registrar's set of services that have erased.
Done == {s \in Services : "userId" \in erased[s]}

\* A committed scrub is the registrar's Erase.
LEMMA EraseMaps ==
  ASSUME TypeOK, NEW s \in Services, NEW k \in Attempts,
         erased' = [erased EXCEPT ![s] = @ \cup RowsErased(s, k)], row' = row
  PROVE  Record!Next
<1>1. Done' = Done \cup {s}
  BY ErasedGrows DEF Done
<1>2. Record!Erase(s)
  BY <1>1 DEF Record!Erase, Done
<1>3. QED
  BY <1>2 DEF Record!Next

\* A merged completion is the registrar's Note: a success is backed by an
\* erasure, and only a tracked saga was complete before.
LEMMA MergeMaps ==
  ASSUME TypeOK, SagaInv, NEW r \in reports, row' = Merged(r), erased' = erased
  PROVE  Record!Next
<1>1. /\ r.service \in Services
      /\ row'.entry = [row.entry EXCEPT ![r.service] = Outcome(r)]
      /\ row'.timedOut = row.timedOut
      /\ row'.completed <=>
           row.exists /\ (row.completed \/ \A s \in Services : row'.entry[s] = "ok")
  BY MergedRow
<1>2. Outcome(r) \in Record!Outcomes
  BY DEF Outcome, Record!Outcomes
<1>3. Outcome(r) = "ok" => r.service \in Done
  BY <1>1 DEF SagaInv, Backed, Outcome, Done
<1>4. row.completed => row.exists
  BY DEF SagaInv, Tracked
<1>5. Record!Note(r.service, Outcome(r))
  BY <1>1, <1>3, <1>4 DEF Record!Note, Done
<1>6. QED
  BY <1>1, <1>2, <1>5 DEF Record!Next

\* Every step is one of the registrar's or changes nothing in his file.
LEMMA RecordStep == TypeOK /\ SagaInv /\ [Next]_vars => [Record!Next]_(Record!vars)
<1> SUFFICES ASSUME TypeOK, SagaInv, [Next]_vars
             PROVE  Record!Next \/ UNCHANGED Record!vars
  OBVIOUS
<1>1. ASSUME NEW s \in Services, NEW k \in Attempts,
             \/ EraseCommits(s, k)
             \/ EraseCommitsUnacked(s, k)
             \/ EraseCommitUnacknowledged(s, k)
      PROVE  Record!Next
  <2>1. erased' = [erased EXCEPT ![s] = @ \cup RowsErased(s, k)] /\ row' = row
    BY <1>1 DEF EraseCommits, EraseCommitsUnacked, EraseCommitUnacknowledged, Erase, auditVars
  <2>2. QED
    BY <2>1, EraseMaps
<1>2. ASSUME NEW r \in Report, RecordCompletion(r) \/ RecordCompletionUnacked(r)
      PROVE  Record!Next
  <2>1. r \in reports /\ row' = Merged(r) /\ erased' = erased
    BY <1>2 DEF RecordCompletion, RecordCompletionUnacked, serviceVars
  <2>2. QED
    BY <2>1, MergeMaps
<1>3. ASSUME NEW p \in Sweepers, StampTimedOut(p) PROVE Record!Next
  <2>1. row \in Row
    BY DEF TypeOK
  <2>2. /\ erased' = erased /\ row'.entry = row.entry
        /\ row'.completed = row.completed /\ row'.timedOut = TRUE
    BY <1>3, <2>1 DEF StampTimedOut, serviceVars, Row
  <2>3. Record!TimeOut
    BY <2>2 DEF Record!TimeOut
  <2>4. QED
    BY <2>3 DEF Record!Next
<1>4. CASE /\ erased' = erased /\ row'.entry = row.entry
           /\ row'.completed = row.completed /\ row'.timedOut = row.timedOut
  BY <1>4 DEF Record!vars
<1>5. row \in Row
  BY DEF TypeOK
<1>6. CASE \/ RequestErasure
           \/ \E s \in Services : WindowExpires(s) \/ FlushCompletion(s)
           \/ \E s \in Services, k \in Attempts : EraseFails(s, k)
           \/ \E k \in Attempts : RecordRequest(k)
           \/ \E r \in Report : ParkCompletion(r)
           \/ DeadlinePasses
           \/ \E p \in Sweepers : \/ SelectOverdue(p) \/ SelectRetry(p)
                                  \/ PublishRetry(p) \/ CountRetry(p) \/ SweepFails(p)
           \/ UNCHANGED vars
  BY <1>4, <1>5, <1>6 DEF RequestErasure, WindowExpires, FlushCompletion, EraseFails,
     RecordRequest, ParkCompletion, DeadlinePasses, SelectOverdue, SelectRetry, PublishRetry,
     CountRetry, SweepFails, vars, serviceVars, auditVars, Row
<1>7. QED
  BY <1>1, <1>2, <1>3, <1>6 DEF Next, ServiceStep, AuditStep, SweepStep, FaultStep

\* The saga, with its redeliveries, retries, lost answers and racing sweeps,
\* shows the outside one registrar's file: every state it reaches is reached by
\* erasing, noting and timing out alone.
THEOREM Refinement == Spec => ImplementsRecord
<1>1. Init => Record!Init
  BY DEF Init, Record!Init
<1>2. QED
  BY <1>1, SagaCorrect, RecordStep, PTL DEF Spec, ImplementsRecord, Record!Spec

(* --------------------------- What a retry costs ------------------------ *)

\* Until a retry is on the stream, whoever scrubs by user id scrubs by email
\* too; until one is counted, an errored entry comes with failed_at.
FirstAttempt ==
  /\ requests \subseteq {0} =>
       \A s \in EmailKeyed : EmailKnown /\ "userId" \in erased[s] => "email" \in erased[s]
  /\ row.retries = 0 => \A s \in Services : row.entry[s] = "error" => row.failed

\* An erasure on an attempt that is on the stream.
LEMMA ScrubOnRequest ==
  ASSUME TypeOK, FirstAttempt, NEW s \in Services, NEW k \in Attempts, k \in inbox[s],
         erased' = [erased EXCEPT ![s] = @ \cup RowsErased(s, k)],
         UNCHANGED <<requests, row>>
  PROVE  FirstAttempt'
<1>1. k \in requests /\ EmailKeyed \subseteq Services
  BY SagaAssumption DEF TypeOK
<1>2. ASSUME requests \subseteq {0}, NEW u \in EmailKeyed, EmailKnown, "userId" \in erased'[u]
      PROVE  "email" \in erased'[u]
  <2>1. CASE u = s
    <3>1. k = 0 /\ "email" \in RowsErased(s, k)
      BY <1>1, <1>2, <2>1 DEF RowsErased
    <3>2. QED
      BY <1>1, <2>1, <3>1 DEF TypeOK
  <2>2. CASE u # s
    BY <1>1, <1>2, <2>2 DEF TypeOK, FirstAttempt
  <2>3. QED
    BY <2>1, <2>2
<1>3. QED
  BY <1>2 DEF FirstAttempt

\* Only StoreRequest of a retry and CountRetry end a first attempt.
LEMMA FirstAttemptStep == TypeOK /\ FirstAttempt /\ [Next]_vars => FirstAttempt'
<1> SUFFICES ASSUME TypeOK, FirstAttempt, [Next]_vars PROVE FirstAttempt'
  OBVIOUS
<1>1. ASSUME NEW s \in Services, NEW k \in Attempts,
             \/ EraseCommits(s, k)
             \/ EraseCommitsUnacked(s, k)
             \/ EraseCommitUnacknowledged(s, k)
      PROVE  FirstAttempt'
  <2>1. /\ k \in inbox[s]
        /\ erased' = [erased EXCEPT ![s] = @ \cup RowsErased(s, k)]
        /\ UNCHANGED <<requests, row>>
    BY <1>1 DEF EraseCommits, EraseCommitsUnacked, EraseCommitUnacknowledged, Erase, auditVars
  <2>2. QED
    BY <2>1, ScrubOnRequest
<1>2. ASSUME NEW r \in Report, RecordCompletion(r) \/ RecordCompletionUnacked(r)
      PROVE  FirstAttempt'
  <2>1. r \in reports /\ row' = Merged(r) /\ UNCHANGED <<erased, requests>>
    BY <1>2 DEF RecordCompletion, RecordCompletionUnacked, serviceVars
  <2>2. row \in Row /\ r.ok \in BOOLEAN /\ r.service \in Services
    BY <1>2 DEF TypeOK, Report
  <2>3. /\ row'.entry = [row.entry EXCEPT ![r.service] = Outcome(r)]
        /\ row'.retries = row.retries
        /\ row'.failed = (row.failed \/ ~r.ok)
    <3> DEFINE entry == [row.entry EXCEPT ![r.service] = Outcome(r)]
               done == row.exists /\ (row.completed \/ \A s \in Services : entry[s] = "ok")
               failed == row.failed \/ ~r.ok
    <3>1. row' = [row EXCEPT !.exists = TRUE, !.entry = entry, !.completed = done,
                             !.failed = failed]
      BY <2>1, Zenon DEF Merged
    <3> HIDE DEF entry, done, failed
    <3>2. row'.entry = entry /\ row'.retries = row.retries /\ row'.failed = failed
      BY <2>2, <3>1 DEF Row
    <3>3. QED
      BY <3>2 DEF entry, failed
  <2>4. row.entry \in [Services -> {"none", "ok", "error"}]
    BY <2>2 DEF Row
  <2>5. QED
    BY <2>1, <2>2, <2>3, <2>4 DEF FirstAttempt, Outcome
<1>3. ASSUME NEW p \in Sweepers, CountRetry(p) PROVE FirstAttempt'
  <2>1. seen[p] \in Nat /\ row \in Row
    BY SagaAssumption DEF TypeOK, Attempts
  <2>2. row'.retries = seen[p] + 1 /\ UNCHANGED <<erased, requests>>
    BY <1>3, <2>1 DEF CountRetry, serviceVars, Row
  <2>3. row'.retries # 0
    BY <2>1, <2>2
  <2>4. QED
    BY <2>2, <2>3 DEF FirstAttempt
<1>4. ASSUME requests \subseteq requests', erased' = erased, row'.entry = row.entry,
             row'.retries = row.retries, row'.failed = row.failed
      PROVE  FirstAttempt'
  BY <1>4 DEF FirstAttempt
<1>5. row \in Row
  BY DEF TypeOK
<1>6. CASE \/ RequestErasure
           \/ \E s \in Services : WindowExpires(s) \/ FlushCompletion(s)
           \/ \E s \in Services, k \in Attempts : EraseFails(s, k)
           \/ \E k \in Attempts : RecordRequest(k)
           \/ \E r \in Report : ParkCompletion(r)
           \/ DeadlinePasses
           \/ \E p \in Sweepers : \/ SelectOverdue(p) \/ StampTimedOut(p) \/ SelectRetry(p)
                                  \/ PublishRetry(p) \/ SweepFails(p)
           \/ UNCHANGED vars
  BY <1>4, <1>5, <1>6 DEF RequestErasure, WindowExpires, FlushCompletion, EraseFails,
     RecordRequest, ParkCompletion, DeadlinePasses, SelectOverdue, StampTimedOut, SelectRetry,
     PublishRetry, StoreRequest, SweepFails, vars, serviceVars, auditVars, Row
<1>7. QED
  BY <1>1, <1>2, <1>3, <1>6 DEF Next, ServiceStep, AuditStep, SweepStep, FaultStep

LEMMA FirstAttemptHolds == Spec => [](TypeOK /\ FirstAttempt)
<1>1. Init => FirstAttempt
  BY SagaAssumption DEF Init, FirstAttempt
<1>2. QED
  BY <1>1, TypeInit, TypeStep, FirstAttemptStep, PTL DEF Spec

\* However many scrubs fail, are repeated or are reported wrongly, a saga is not
\* completed over email-keyed rows before the sweep has put a retry, which lacks
\* the email, on the stream: that is the only way into this finding.
THEOREM OnlyRetriesMissEmails ==
  Spec => [](requests \subseteq {0} => CompletedMeansEmailErased)
<1>1. TypeOK /\ SagaInv /\ FirstAttempt =>
        (requests \subseteq {0} => CompletedMeansEmailErased)
  BY SagaAssumption DEF SagaInv, CompletedMeansErased, CompletedMeansEmailErased, FirstAttempt
<1>2. QED
  BY <1>1, SagaCorrect, FirstAttemptHolds, PTL

\* The audit row shows an errored entry as failed_at until a retry is counted:
\* nothing but CountRetry's reset hides an error.
THEOREM OnlyRetriesHideErrors == Spec => [](row.retries = 0 => ErrorsStayVisible)
<1>1. FirstAttempt => (row.retries = 0 => ErrorsStayVisible)
  BY DEF FirstAttempt, ErrorsStayVisible
<1>2. QED
  BY <1>1, FirstAttemptHolds, PTL
=============================================================================
