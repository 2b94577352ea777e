--------------------------- MODULE ErasureRecord ---------------------------
(***************************************************************************)
(* What the erasure saga promises the person who asked and the operator    *)
(* who answers for it, as if one registrar kept the file: services erase;  *)
(* the registrar notes for each the last outcome heard, a success only of  *)
(* a service that has erased; declares the file complete only while every  *)
(* note is a success; and takes no declaration back.  Deliveries, retries, *)
(* lost answers, sweeps and replicas are invisible.                        *)
(***************************************************************************)
CONSTANT Services

VARIABLES erased,     \* services that have erased
          note,       \* the last outcome noted of each
          completed, timedOut

vars == <<erased, note, completed, timedOut>>

Outcomes == {"ok", "error"}

Init ==
  /\ erased = {}
  /\ note = [s \in Services |-> "none"]
  /\ ~completed
  /\ ~timedOut

Erase(s) ==
  /\ erased' = erased \cup {s}
  /\ UNCHANGED <<note, completed, timedOut>>

\* A note may be late, repeated, or older than the one it replaces.
Note(s, outcome) ==
  /\ outcome = "ok" => s \in erased
  /\ note' = [note EXCEPT ![s] = outcome]
  /\ completed => completed'
  /\ completed' => completed \/ \A u \in Services : note'[u] = "ok"
  /\ UNCHANGED <<erased, timedOut>>

\* A service may be waited for no longer; it may yet be heard.
TimeOut ==
  /\ timedOut'
  /\ UNCHANGED <<erased, note, completed>>

Next ==
  \/ \E s \in Services :
       \/ Erase(s)
       \/ \E outcome \in Outcomes : Note(s, outcome)
  \/ TimeOut

Spec == Init /\ [][Next]_vars
=============================================================================
