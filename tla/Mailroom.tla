------------------------------ MODULE Mailroom ------------------------------
(***************************************************************************)
(* What the mail queue promises to its users, as if one postman ran a      *)
(* mailroom: a key is on one slip at a time; a letter is posted once per   *)
(* key, and while its slip is open; a slip says "sent" only of a letter    *)
(* that was posted; a settled slip stays as it is, and a shredded one      *)
(* never comes back.  Of Fickle letters, whose postman may come back from  *)
(* a round after he was given up, only the slip's verdict may change.      *)
(***************************************************************************)
EXTENDS Naturals

CONSTANTS Mail, Keys, KeyOf,
          Fickle,  \* subset of Mail
          Owned    \* letters that name the person who may have them shredded

VARIABLES slip, posted

vars == <<slip, posted>>

Settled == {"sent", "failed", "unsubscribed"}

Init ==
  /\ slip = [m \in Mail |-> "none"]
  /\ posted = [k \in Keys |-> 0]

Open(m) ==
  /\ slip[m] = "none"
  /\ \A n \in Mail : KeyOf[n] = KeyOf[m] => slip[n] \in {"none", "shredded"}
  /\ slip' = [slip EXCEPT ![m] = "open"]
  /\ UNCHANGED posted

Undecided(m) ==
  \/ slip[m] = "open"
  \/ m \in Fickle /\ slip[m] \in Settled

\* The postman may have left before the slip was shredded.
Post(m) ==
  /\ Undecided(m) \/ slip[m] = "shredded"
  /\ posted[KeyOf[m]] = 0
  /\ posted' = [posted EXCEPT ![KeyOf[m]] = 1]
  /\ UNCHANGED slip

Settle(m, verdict) ==
  /\ Undecided(m)
  /\ verdict = "sent" => posted[KeyOf[m]] = 1
  /\ slip' = [slip EXCEPT ![m] = verdict]
  /\ UNCHANGED posted

Reopen(m) ==
  /\ Undecided(m)
  /\ slip' = [slip EXCEPT ![m] = "open"]
  /\ UNCHANGED posted

\* Several slips have used up their attempts.
GiveUp(S) ==
  /\ \A m \in S : slip[m] = "open"
  /\ slip' = [m \in Mail |-> IF m \in S THEN "failed" ELSE slip[m]]
  /\ UNCHANGED posted

Shred ==
  /\ slip' = [m \in Mail |-> IF m \in Owned /\ slip[m] # "none" THEN "shredded"
                             ELSE slip[m]]
  /\ UNCHANGED posted

Next ==
  \/ \E m \in Mail : \/ Open(m) \/ Post(m) \/ Reopen(m)
                     \/ \E verdict \in Settled : Settle(m, verdict)
  \/ \E S \in SUBSET Mail : GiveUp(S)
  \/ Shred

Spec == Init /\ [][Next]_vars
=============================================================================
