--------------------------- MODULE SessionLedger ---------------------------
(***************************************************************************)
(* What service.auth promises about sign-in sessions, whatever the tables  *)
(* behind them do: a session is opened once, by a login, and closed once;  *)
(* a closed session never opens again.  Rotating its refresh token, losing *)
(* a race or rolling back is invisible here.                               *)
(***************************************************************************)
CONSTANT Sessions

VARIABLES open, closed

vars == <<open, closed>>

TypeOK == open \subseteq Sessions /\ closed \subseteq Sessions

Init == open \subseteq Sessions /\ closed = {}

Open(s) ==
  /\ s \in Sessions \ (open \cup closed)
  /\ open' = open \cup {s}
  /\ UNCHANGED closed

\* One request may close several sessions: a changed password closes all.
Close(S) ==
  /\ S \subseteq open
  /\ open' = open \ S
  /\ closed' = closed \cup S

Next ==
  \/ \E s \in Sessions : Open(s)
  \/ \E S \in SUBSET open : Close(S)

Spec == Init /\ [][Next]_vars
=============================================================================
