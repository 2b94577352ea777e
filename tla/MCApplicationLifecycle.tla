----------------------- MODULE MCApplicationLifecycle -----------------------
(***************************************************************************)
(* Two applications of one adopter for one pet, two concurrent commands.   *)
(***************************************************************************)
EXTENDS ApplicationLifecycle, TLC

CONSTANTS a1, a2, c1, c2, adopter, pet

MCApps == {a1, a2}
MCAdopter == [a \in MCApps |-> adopter]
MCPet == [a \in MCApps |-> pet]
MCRunners == {c1, c2}
MCOneOutcome == {"passed"}
MCOutcomes == {"passed", "failed", "reschedule"}

\* One stream long enough for adoption after a home visit; the other only
\* has to be opened and closed.
MCMaxVersion == [a \in MCApps |-> IF a = a1 THEN 7 ELSE 2]

\* The runners are not told apart.
MCSymmetry == Permutations(MCRunners)
=============================================================================
