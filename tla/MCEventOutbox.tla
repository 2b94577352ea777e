--------------------------- MODULE MCEventOutbox ---------------------------
(***************************************************************************)
(* Instances of the outbox with two replicas and two concurrent            *)
(* transactions, one on each.                                              *)
(***************************************************************************)
EXTENDS EventOutbox

CONSTANTS r1, r2, t1, t2, e1, e2, e3, id1

MCReplicas == {r1, r2}
MCTxns == {t1, t2}
MCRecords == {e1, e2, e3}
MCHome == [t \in MCTxns |-> IF t = t1 THEN r1 ELSE r2]

\* One transaction stages two events and the other one.
MCStaged == [t \in MCTxns |-> IF t = t1 THEN <<e1, e2>> ELSE <<e3>>]

\* An id names one event, as publish.ts:11-14 asks of every caller; the other
\* events carry none and opt out of de-duplication.
MCEventId == [x \in MCRecords |-> IF x = e1 THEN id1 ELSE NoId]

\* Two moderators act on one report: e1 is moderation.reportAssigned, e3 is
\* moderation.reportEscalated, and both carry the report's id as event id
\* (services/moderation/src/grpc/handlers.ts:455 and :625).
ReportRecords == {e1, e3}
ReportStaged == [t \in MCTxns |-> IF t = t1 THEN <<e1>> ELSE <<e3>>]
ReportEventId == [x \in ReportRecords |-> id1]
=============================================================================
