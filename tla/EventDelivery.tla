--------------------------- MODULE EventDelivery ---------------------------
(***************************************************************************)
(* What the transactional outbox of packages/events promises to the rest   *)
(* of the platform (publish.ts:44-78): an event becomes owed to the        *)
(* stream exactly when the business transaction that staged it commits,    *)
(* an event that is not owed never reaches the stream, and every owed      *)
(* event eventually does.  How many attempts, processes and crashes that   *)
(* takes is invisible here.                                                *)
(***************************************************************************)
CONSTANT Events

VARIABLES owed,       \* events of committed transactions
          delivered   \* events the stream holds

vars == <<owed, delivered>>

TypeOK == owed \subseteq Events /\ delivered \subseteq Events

Init == owed = {} /\ delivered = {}

\* A transaction commits together with the batch of events it staged.
Commit(batch) ==
  /\ batch \cap owed = {}
  /\ owed' = owed \cup batch
  /\ UNCHANGED delivered

Deliver(e) ==
  /\ e \in owed
  /\ delivered' = delivered \cup {e}
  /\ UNCHANGED owed

Next ==
  \/ \E batch \in SUBSET Events : Commit(batch)
  \/ \E e \in Events : Deliver(e)

Fairness == \A e \in Events : WF_vars(Deliver(e))

Spec == Init /\ [][Next]_vars

FairSpec == Spec /\ Fairness
=============================================================================
