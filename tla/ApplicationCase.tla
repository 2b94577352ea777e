-------------------------- MODULE ApplicationCase --------------------------
(***************************************************************************)
(* What the applications service promises to adopters and rescues, as if   *)
(* one clerk kept all files: the history of a file only grows, one lawful  *)
(* move at a time; its status is where the last move led; a file is open   *)
(* only while every rival file (of the same adopter, for the same pet) is  *)
(* closed; and each move is announced with the move, under its number.     *)
(* Concurrent commands, stale reads, retries and erasures are invisible.   *)
(***************************************************************************)
EXTENDS Naturals, Sequences

CONSTANTS Apps,
          Rivals,   \* [Apps -> SUBSET Apps]
          Start,    \* status of a file with no move yet
          First,    \* the move that starts a file
          Accepts,  \* move |-> the statuses it is lawful in
          Leads,    \* move |-> the status it leads to; another move leads nowhere
          Closed    \* statuses in which a file is closed

VARIABLES moves, status, announced

vars == <<moves, status, announced>>

Init ==
  /\ moves = [a \in Apps |-> <<>>]
  /\ status = [a \in Apps |-> Start]
  /\ announced = {}

Lawful(a, move) ==
  IF moves[a] = <<>> THEN move = First
                     ELSE move \in DOMAIN Accepts /\ status[a] \in Accepts[move]

After(a, move) == IF move \in DOMAIN Leads THEN Leads[move] ELSE status[a]

Move(a, move) ==
  /\ Lawful(a, move)
  /\ After(a, move) \notin Closed =>
       \A b \in Rivals[a] : moves[b] # <<>> => status[b] \in Closed
  /\ moves' = [moves EXCEPT ![a] = Append(@, move)]
  /\ status' = [status EXCEPT ![a] = After(a, move)]
  /\ announced' = announced \cup
       {[app |-> a, version |-> Len(moves[a]) + 1, type |-> move]}

Next == \E a \in Apps, move \in {First} \cup DOMAIN Accepts : Move(a, move)

Spec == Init /\ [][Next]_vars
=============================================================================
