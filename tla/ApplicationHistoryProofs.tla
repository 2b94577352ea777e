---------------------- MODULE ApplicationHistoryProofs ----------------------
(***************************************************************************)
(* Proofs about ApplicationLifecycle for any applications, commands and    *)
(* stream lengths: what the streams hold.                                  *)
(*                                                                         *)
(* fold() runs over the whole stream, so these proofs are inductions over  *)
(* streams.  They go by the least number that is a counterexample:         *)
(*   LeastNumber, Reaches   the induction;                                 *)
(*   FoldSteps              fold() applies one event after the other;      *)
(*   FoldAppended, FoldScrubbed   what an append and an erasure do to it.  *)
(* On them rests HistoryInv: an open command decided on what the events up *)
(* to its version say, so a commit that finds no later version extends a   *)
(* legal history by a legal event, and projects its fold: one move of      *)
(* ApplicationCase, which is the refinement at the end.                    *)
(***************************************************************************)
EXTENDS ApplicationLifecycleProofs, WellFoundedInduction

(* ------------------------ Induction on numbers ------------------------- *)

\* A set of numbers with a member has a least one.
LEMMA LeastNumber ==
  ASSUME NEW T \in SUBSET Nat, T # {}
  PROVE  \E n \in T : \A m \in T : n <= m
<1>1. PICK n \in T : \A m \in T : <<m, n>> \notin OpToRel(<, Nat)
  BY NatLessThanWellFounded, WFMin
<1>2. \A m \in T : ~ (m < n)
  BY <1>1 DEF OpToRel
<1>3. QED
  BY <1>2

\* A set that holds 0 and every successor of its members below n reaches n.
LEMMA Reaches ==
  ASSUME NEW n \in Nat, NEW T \in SUBSET (0..n), 0 \in T,
         \A i \in 1..n : i - 1 \in T => i \in T
  PROVE  T = 0..n
<1> SUFFICES ASSUME (0..n) \ T # {} PROVE FALSE
  OBVIOUS
<1>1. (0..n) \ T \in SUBSET Nat
  OBVIOUS
<1>2. PICK least \in (0..n) \ T : \A m \in (0..n) \ T : least <= m
  BY <1>1, LeastNumber
<1>3. least \in 1..n
  OBVIOUS
<1>4. least - 1 \in T
  BY <1>2, <1>3
<1>5. QED
  BY <1>3, <1>4

\* The maximum of a set of positions, as FoldLeft picks it.
LEMMA MaxOfRange ==
  ASSUME NEW n \in Nat, NEW S \in SUBSET (1..n), S # {}
  PROVE  Max(S) \in S /\ \A y \in S : Max(S) >= y
<1> DEFINE bounds == {m \in Nat : \A y \in S : y <= m}
<1>1. n \in bounds /\ bounds \in SUBSET Nat
  OBVIOUS
<1>2. PICK m \in bounds : \A b \in bounds : m <= b
  BY <1>1, LeastNumber
<1>3. ASSUME m \notin S PROVE FALSE
  <2>1. m \in Nat /\ \A y \in S : y \in 1..n /\ y <= m /\ y # m
    BY <1>2, <1>3
  <2>2. PICK y \in S : TRUE
    OBVIOUS
  <2>3. m - 1 \in Nat
    BY <2>1, <2>2
  <2>4. \A x \in S : x <= m - 1
    BY <2>1
  <2>5. ~ (m <= m - 1)
    BY <2>1
  <2>6. QED
    BY <1>2, <2>3, <2>4, <2>5
<1>4. \E x \in S : \A y \in S : x >= y
  BY <1>3
<1>5. QED
  BY <1>4 DEF Max

(* ------------------------------- fold() -------------------------------- *)

\* What FoldLeft tabulates: the state after each set of the first n events.
Table(s, n, g) ==
  g = [S \in SUBSET (1..n) |->
         IF S = {} THEN INITIAL_STATE
                   ELSE LET x == Max(S) IN apply(g[S \ {x}], s[x])]

\* There is such a table, by induction on n.
LEMMA TableExists ==
  ASSUME NEW s, NEW n \in Nat
  PROVE  \E g : Table(s, n, g)
<1> DEFINE T == {i \in 0..n : \E g : Table(s, i, g)}
<1>1. 0 \in T
  <2>1. Table(s, 0, [S \in SUBSET (1..0) |-> INITIAL_STATE])
    BY DEF Table
  <2>2. QED
    BY <2>1
<1>2. ASSUME NEW i \in 1..n, i - 1 \in T PROVE i \in T
  <2>1. PICK g : Table(s, i - 1, g)
    BY <1>2
  <2> DEFINE h == [S \in SUBSET (1..i) |->
                     IF S = {} THEN INITIAL_STATE
                               ELSE LET x == Max(S) IN apply(g[S \ {x}], s[x])]
  <2>2. ASSUME NEW S \in SUBSET (1..(i - 1))
        PROVE  h[S] = g[S]
    <3>1. g[S] = IF S = {} THEN INITIAL_STATE
                           ELSE LET x == Max(S) IN apply(g[S \ {x}], s[x])
      BY <2>1, Zenon DEF Table
    <3>2. S \in SUBSET (1..i)
      OBVIOUS
    <3>3. QED
      BY <3>1, <3>2, Zenon
  <2>3. ASSUME NEW S \in SUBSET (1..i), S # {}
        PROVE  S \ {Max(S)} \in SUBSET (1..(i - 1))
    <3>1. i \in Nat /\ Max(S) \in S /\ \A y \in S : Max(S) >= y
      BY <2>3, MaxOfRange
    <3>2. \A y \in S : y \in 1..i /\ y <= Max(S)
      BY <3>1
    <3>3. Max(S) \in 1..i
      BY <3>1
    <3> HIDE DEF h
    <3>4. ASSUME NEW y \in S, y # Max(S) PROVE y \in 1..(i - 1)
      BY <3>1, <3>2, <3>3, <3>4
    <3>5. QED
      BY <3>4
  <2>4. \A S \in SUBSET (1..i) : S # {} => h[S \ {Max(S)}] = g[S \ {Max(S)}]
    BY <2>2, <2>3
  <2>5. Table(s, i, h)
    BY <2>4, Zenon DEF Table
  <2>6. QED
    BY <2>5
<1> HIDE DEF T
<1>3. T = 0..n
  <2>1. T \in SUBSET (0..n)
    BY DEF T
  <2>2. QED
    BY <1>1, <1>2, <2>1, Reaches
<1>4. QED
  BY <1>3 DEF T

\* The states a stream goes through.
Through(s, h) ==
  /\ h[0] = INITIAL_STATE
  /\ \A i \in 1..Len(s) : h[i] = apply(h[i - 1], s[i])

\* fold() is the last of the states the stream goes through.
LEMMA FoldThrough ==
  ASSUME NEW s \in Seq(Event)
  PROVE  \E h : Through(s, h) /\ fold(s) = h[Len(s)]
<1> DEFINE n == Len(s)
<1>1. n \in Nat /\ DOMAIN s = 1..n
  OBVIOUS
<1> HIDE DEF n
<1>2. PICK g : Table(s, n, g) /\ fold(s) = g[1..n]
  <2> DEFINE g == CHOOSE g : Table(s, n, g)
  <2>1. Table(s, n, g)
    BY <1>1, TableExists
  <2>2. fold(s) = g[1..n]
    BY <1>1 DEF fold, FoldLeft, MapThenFoldSet, Table
  <2>3. QED
    BY <2>1, <2>2
<1> DEFINE h == [i \in 0..n |-> g[1..i]]
<1>3. h[0] = INITIAL_STATE
  BY <1>1, <1>2 DEF Table
<1>4. ASSUME NEW i \in 1..n
      PROVE  h[i] = apply(h[i - 1], s[i])
  <2>1. 1..i \in SUBSET (1..n) /\ 1..i # {}
    BY <1>1
  <2>2. Max(1..i) = i
    <3>1. i \in 1..i
      BY <1>1
    <3>2. Max(1..i) \in 1..i /\ Max(1..i) >= i
      BY <1>1, <2>1, <3>1, MaxOfRange
    <3>3. QED
      BY <1>1, <3>2
  <2>3. (1..i) \ {i} = 1..(i - 1)
    BY <1>1
  <2>4. g[1..i] = apply(g[(1..i) \ {i}], s[i])
    BY <1>2, <2>1, <2>2 DEF Table
  <2>5. QED
    BY <1>1, <2>3, <2>4
<1>5. h[n] = g[1..n]
  BY <1>1
<1>6. QED
  BY <1>2, <1>3, <1>4, <1>5 DEF Through, n

\* Two streams that agree up to k go through the same states up to k.
LEMMA ThroughAgree ==
  ASSUME NEW s, NEW r, NEW g, NEW h, NEW k \in Nat,
         Len(s) \in Nat, Len(r) \in Nat, k <= Len(s), k <= Len(r),
         Through(s, g), Through(r, h), \A i \in 1..k : s[i] = r[i]
  PROVE  g[k] = h[k]
<1> DEFINE T == {i \in 0..k : g[i] = h[i]}
<1>1. 0 \in T
  BY DEF Through
<1>2. ASSUME NEW i \in 1..k, i - 1 \in T PROVE i \in T
  <2>1. i \in 1..Len(s) /\ i \in 1..Len(r)
    OBVIOUS
  <2>2. g[i] = apply(g[i - 1], s[i]) /\ h[i] = apply(h[i - 1], r[i])
    BY <2>1 DEF Through
  <2>3. g[i] = h[i]
    BY <1>2, <2>2
  <2>4. QED
    BY <2>3
<1> HIDE DEF T
<1>3. T \in SUBSET (0..k)
  BY DEF T
<1>4. T = 0..k
  BY <1>1, <1>2, <1>3, Reaches
<1>5. QED
  BY <1>4 DEF T

\* The state after the first k events of a stream.
After(s, k) == fold(SubSeq(s, 1, k))

\* What folding does, one event at a time.
LEMMA FoldSteps ==
  ASSUME NEW s \in Seq(Event)
  PROVE  /\ After(s, 0) = INITIAL_STATE
         /\ \A i \in 1..Len(s) : After(s, i) = apply(After(s, i - 1), s[i])
         /\ After(s, Len(s)) = fold(s)
<1>1. Len(s) \in Nat
  OBVIOUS
<1>2. PICK h : Through(s, h) /\ fold(s) = h[Len(s)]
  BY FoldThrough
<1>3. ASSUME NEW k \in 0..Len(s)
      PROVE  After(s, k) = h[k]
  <2> DEFINE r == SubSeq(s, 1, k)
  <2>1. r \in Seq(Event) /\ Len(r) = k /\ \A i \in 1..k : r[i] = s[i]
    OBVIOUS
  <2> HIDE DEF r
  <2>2. PICK g : Through(r, g) /\ fold(r) = g[Len(r)]
    BY <2>1, FoldThrough
  <2>3. k \in Nat /\ k <= Len(s)
    BY <1>1
  <2>4. g[k] = h[k]
    BY <1>1, <1>2, <2>1, <2>2, <2>3, ThroughAgree
  <2>5. QED
    BY <2>1, <2>2, <2>4 DEF After, r
<1>4. \A i \in 1..Len(s) : After(s, i) = apply(After(s, i - 1), s[i])
  <2>1. \A i \in 1..Len(s) : i \in 0..Len(s) /\ i - 1 \in 0..Len(s)
    BY <1>1
  <2>2. QED
    BY <1>2, <1>3, <2>1 DEF Through
<1>5. QED
  BY <1>1, <1>2, <1>3, <1>4 DEF Through

\* Appending an event leaves the earlier states and applies it to the last.
LEMMA FoldAppended ==
  ASSUME NEW s \in Seq(Event), NEW e \in Event
  PROVE  /\ \A k \in 0..Len(s) : After(Append(s, e), k) = After(s, k)
         /\ fold(Append(s, e)) = apply(fold(s), e)
<1> DEFINE r == Append(s, e)
<1>1. r \in Seq(Event) /\ Len(r) = Len(s) + 1 /\ Len(s) \in Nat /\ r[Len(s) + 1] = e
  OBVIOUS
<1>2. ASSUME NEW k \in 0..Len(s)
      PROVE  After(r, k) = After(s, k)
  <2>1. SubSeq(r, 1, k) = SubSeq(s, 1, k)
    OBVIOUS
  <2>2. QED
    BY <2>1 DEF After
<1> HIDE DEF r
<1>3. After(r, Len(s) + 1) = apply(After(r, Len(s)), e)
  <2>1. Len(s) + 1 \in 1..Len(r) /\ (Len(s) + 1) - 1 = Len(s)
    BY <1>1
  <2>2. QED
    BY <1>1, <2>1, FoldSteps
<1>4. After(s, Len(s)) = fold(s) /\ After(r, Len(r)) = fold(r)
  BY <1>1, FoldSteps
<1>5. QED
  BY <1>1, <1>2, <1>3, <1>4 DEF r

\* Applying an event to a state yields a state, of the status it leads to.
LEMMA ApplyType ==
  ASSUME NEW state \in State, NEW e \in Event
  PROVE  /\ apply(state, e) \in State
         /\ e.type \in DOMAIN StatusAfter => apply(state, e).status = StatusAfter[e.type]
         /\ e.type \notin DOMAIN StatusAfter => apply(state, e).status = state.status
<1>1. /\ e.type \in EventType /\ e.outcome \in Outcomes /\ e.answers \in BOOLEAN
      /\ state.answers \in BOOLEAN
  BY DEF Event, State
<1>2. CASE e.type = "draftAnswersSaved"
  BY <1>1, <1>2 DEF apply, State, StatusAfter
<1>3. CASE e.type = "homeVisitCompleted"
  <2>1. /\ e.type \in DOMAIN StatusAfter
        /\ StatusAfter[e.type] = "home_visit_completed"
        /\ StatusAfter[e.type] \in Status
    BY <1>3 DEF StatusAfter, Status
  <2>2. apply(state, e) = [state EXCEPT !.status = "home_visit_completed",
                                        !.outcome = e.outcome]
    BY <1>3 DEF apply
  <2>3. QED
    BY <1>1, <2>1, <2>2 DEF State
<1>4. CASE e.type \notin {"draftAnswersSaved", "homeVisitCompleted"}
  <2>1. e.type \in DOMAIN StatusAfter
    BY <1>1, <1>4 DEF EventType
  <2>2. StatusAfter[e.type] \in Status
    BY <2>1 DEF StatusAfter, Status
  <2>3. apply(state, e) = [state EXCEPT !.status = StatusAfter[e.type]]
    BY <1>4 DEF apply
  <2>4. QED
    BY <2>1, <2>2, <2>3 DEF State
<1>5. QED
  BY <1>2, <1>3, <1>4

\* Folding events yields states.
LEMMA FoldType ==
  ASSUME NEW s \in Seq(Event)
  PROVE  /\ \A k \in 0..Len(s) : After(s, k) \in State
         /\ fold(s) \in State
<1> DEFINE T == {k \in 0..Len(s) : After(s, k) \in State}
<1>1. Len(s) \in Nat /\ \A i \in 1..Len(s) : s[i] \in Event
  OBVIOUS
<1>2. INITIAL_STATE \in State
  BY DEF INITIAL_STATE, State, Status, Outcomes
<1>3. 0 \in T
  BY <1>1, <1>2, FoldSteps
<1>4. ASSUME NEW i \in 1..Len(s), i - 1 \in T PROVE i \in T
  <2>1. After(s, i) = apply(After(s, i - 1), s[i])
    BY FoldSteps
  <2>2. QED
    BY <1>1, <1>4, <2>1, ApplyType
<1> HIDE DEF T
<1>5. T \in SUBSET (0..Len(s))
  BY DEF T
<1>6. T = 0..Len(s)
  BY <1>1, <1>3, <1>4, <1>5, Reaches
<1>7. Len(s) \in 0..Len(s)
  BY <1>1
<1>8. QED
  BY <1>6, <1>7, FoldSteps DEF T

\* Erasing the answers of a stream leaves its statuses and outcomes, and
\* leaves no answers in any of its states.
LEMMA FoldScrubbed ==
  ASSUME NEW s \in Seq(Event)
  PROVE  LET scrubbed == [i \in DOMAIN s |-> [s[i] EXCEPT !.answers = FALSE]]
         IN  \A k \in 0..Len(s) :
               After(scrubbed, k) = [After(s, k) EXCEPT !.answers = FALSE]
<1> DEFINE scrubbed == [i \in DOMAIN s |-> [s[i] EXCEPT !.answers = FALSE]]
           T == {k \in 0..Len(s) :
                   After(scrubbed, k) = [After(s, k) EXCEPT !.answers = FALSE]}
<1>1. /\ Len(s) \in Nat /\ DOMAIN s = 1..Len(s)
      /\ \A i \in 1..Len(s) : s[i] \in Event /\ scrubbed[i] = [s[i] EXCEPT !.answers = FALSE]
  <2>1. Len(s) \in Nat /\ DOMAIN s = 1..Len(s) /\ \A i \in 1..Len(s) : s[i] \in Event
    OBVIOUS
  <2>2. QED
    BY <2>1
<1>2. scrubbed \in Seq(Event) /\ DOMAIN scrubbed = DOMAIN s
  BY Scrubbed, Zenon
<1> HIDE DEF scrubbed
<1>3. Len(scrubbed) = Len(s)
  BY <1>1, <1>2
<1>4. 0 \in T
  <2>1. [INITIAL_STATE EXCEPT !.answers = FALSE] = INITIAL_STATE
    <3>1. INITIAL_STATE \in State /\ INITIAL_STATE.answers = FALSE
      BY DEF INITIAL_STATE, State, Status, Outcomes
    <3>2. QED
      BY <3>1 DEF State
  <2>2. After(s, 0) = INITIAL_STATE /\ After(scrubbed, 0) = INITIAL_STATE
    BY <1>2, FoldSteps
  <2>3. QED
    BY <1>1, <2>1, <2>2
<1>5. ASSUME NEW i \in 1..Len(s), i - 1 \in T PROVE i \in T
  <2>1. /\ After(s, i) = apply(After(s, i - 1), s[i])
        /\ After(scrubbed, i) = apply(After(scrubbed, i - 1), scrubbed[i])
    BY <1>2, <1>3, FoldSteps
  <2>2. i \in 0..Len(s) /\ i - 1 \in 0..Len(s)
    BY <1>1
  <2>3. After(s, i - 1) \in State
    BY <2>2, FoldType
  <2>4. ASSUME NEW state \in State, NEW e \in Event
        PROVE  apply([state EXCEPT !.answers = FALSE], [e EXCEPT !.answers = FALSE])
                 = [apply(state, e) EXCEPT !.answers = FALSE]
    <3> DEFINE bare == [state EXCEPT !.answers = FALSE]
               erased == [e EXCEPT !.answers = FALSE]
    <3>1. /\ erased.type = e.type /\ erased.outcome = e.outcome /\ erased.answers = FALSE
          /\ bare.status = state.status /\ bare.outcome = state.outcome
          /\ bare.answers = FALSE
          /\ bare \in State
      BY DEF State, Event
    <3> HIDE DEF bare, erased
    <3>2. CASE e.type = "draftAnswersSaved"
      <4>1. apply(bare, erased) = [bare EXCEPT !.answers = @ \/ erased.answers]
        BY <3>1, <3>2 DEF apply
      <4>2. apply(state, e) = [state EXCEPT !.answers = @ \/ e.answers]
        BY <3>2 DEF apply
      <4>3. apply(bare, erased) = bare
        BY <3>1, <4>1 DEF State
      <4>4. [apply(state, e) EXCEPT !.answers = FALSE] = bare
        BY <4>2 DEF State, bare
      <4>5. QED
        BY <4>3, <4>4 DEF bare, erased
    <3>3. CASE e.type = "homeVisitCompleted"
      <4>1. apply(bare, erased) = [bare EXCEPT !.status = "home_visit_completed",
                                               !.outcome = e.outcome]
        BY <3>1, <3>3 DEF apply
      <4>2. apply(state, e) = [state EXCEPT !.status = "home_visit_completed",
                                            !.outcome = e.outcome]
        BY <3>3 DEF apply
      <4>3. QED
        BY <4>1, <4>2 DEF State, bare, erased
    <3>4. CASE e.type \notin {"draftAnswersSaved", "homeVisitCompleted"}
      <4>1. apply(bare, erased) = [bare EXCEPT !.status = StatusAfter[e.type]]
        BY <3>1, <3>4 DEF apply
      <4>2. apply(state, e) = [state EXCEPT !.status = StatusAfter[e.type]]
        BY <3>4 DEF apply
      <4>3. QED
        BY <4>1, <4>2 DEF State, bare, erased
    <3>5. QED
      BY <3>2, <3>3, <3>4
  <2>5. After(scrubbed, i) = [After(s, i) EXCEPT !.answers = FALSE]
    BY <1>1, <1>5, <2>1, <2>3, <2>4
  <2>6. QED
    BY <2>2, <2>5
<1> HIDE DEF T
<1>6. T \in SUBSET (0..Len(s))
  BY DEF T
<1>7. T = 0..Len(s)
  BY <1>1, <1>4, <1>5, <1>6, Reaches
<1>8. QED
  BY <1>7 DEF T, scrubbed

\* Only a saved patch adds answers.
LEMMA ApplyAnswers ==
  ASSUME NEW state \in State, NEW e \in Event
  PROVE  apply(state, e).answers
           = (state.answers \/ (e.type = "draftAnswersSaved" /\ e.answers))
<1>1. /\ e.answers \in BOOLEAN /\ e.type \in EventType /\ state.answers \in BOOLEAN
      /\ state = [status |-> state.status, outcome |-> state.outcome,
                  answers |-> state.answers]
  BY DEF Event, State
<1>2. CASE e.type = "draftAnswersSaved"
  <2>1. apply(state, e) = [state EXCEPT !.answers = @ \/ e.answers]
    BY <1>2 DEF apply
  <2>2. QED
    BY <1>1, <1>2, <2>1 DEF State
<1>3. CASE e.type = "homeVisitCompleted"
  <2>1. apply(state, e) = [state EXCEPT !.status = "home_visit_completed",
                                        !.outcome = e.outcome]
    BY <1>3 DEF apply
  <2>2. QED
    BY <1>1, <1>3, <2>1 DEF State
<1>4. CASE e.type \notin {"draftAnswersSaved", "homeVisitCompleted"}
  <2>1. apply(state, e) = [state EXCEPT !.status = StatusAfter[e.type]]
    BY <1>4 DEF apply
  <2>2. QED
    BY <1>1, <1>4, <2>1 DEF State
<1>5. QED
  BY <1>2, <1>3, <1>4

(* ------------------------- One stream's history ------------------------ *)

\* Every event of the stream was legal where it was appended.
Legal(s) ==
  \A i \in DOMAIN s :
    IF i = 1
      THEN s[1].type = "draftCreated"
      ELSE /\ s[i].type # "draftCreated"
           /\ After(s, i - 1).status \in AcceptedFrom[s[i].type]

\* The event may come next.
MayFollow(s, status, e) ==
  IF Len(s) = 0
    THEN e.type = "draftCreated"
    ELSE e.type \in DOMAIN AcceptedFrom /\ status \in AcceptedFrom[e.type]

\* A history stays legal when an event that may come next is appended.
LEMMA LegalAppended ==
  ASSUME NEW s \in Seq(Event), NEW e \in Event, Legal(s), MayFollow(s, fold(s).status, e)
  PROVE  Legal(Append(s, e))
<1> DEFINE r == Append(s, e)
<1>1. /\ Len(s) \in Nat /\ DOMAIN s = 1..Len(s)
      /\ DOMAIN r = 1..(Len(s) + 1)
      /\ r[Len(s) + 1] = e
      /\ \A i \in DOMAIN s : r[i] = s[i]
  BY Appended
<1>2. \A k \in 0..Len(s) : After(r, k) = After(s, k)
  BY FoldAppended
<1>3. After(s, Len(s)) = fold(s)
  BY FoldSteps
<1> HIDE DEF r
<1>4. SUFFICES ASSUME NEW i \in 1..(Len(s) + 1)
               PROVE  IF i = 1
                        THEN r[1].type = "draftCreated"
                        ELSE /\ r[i].type # "draftCreated"
                             /\ After(r, i - 1).status \in AcceptedFrom[r[i].type]
  BY <1>1 DEF Legal, r
<1>5. CASE i \in 1..Len(s)
  <2>1. i - 1 \in 0..Len(s)
    BY <1>1, <1>5
  <2>2. After(r, i - 1) = After(s, i - 1) /\ r[i] = s[i]
    BY <1>1, <1>2, <1>5, <2>1
  <2>3. QED
    BY <1>1, <1>5, <2>2 DEF Legal
<1>6. CASE i = Len(s) + 1
  <2>1. r[i] = e /\ After(r, i - 1).status = fold(s).status
    BY <1>1, <1>2, <1>3, <1>6
  <2>2. i = 1 <=> Len(s) = 0
    BY <1>1, <1>6
  <2>3. "draftCreated" \notin DOMAIN AcceptedFrom
    BY DEF AcceptedFrom
  <2>4. QED
    BY <2>1, <2>2, <2>3 DEF MayFollow
<1>7. QED
  BY <1>1, <1>5, <1>6

\* The erasure of a stream: the states it goes through keep their status and
\* lose their answers, and its history stays legal.
LEMMA LegalScrubbed ==
  ASSUME NEW s \in Seq(Event)
  PROVE  LET scrubbed == [i \in DOMAIN s |-> [s[i] EXCEPT !.answers = FALSE]]
         IN  /\ \A k \in 0..Len(s) : /\ After(scrubbed, k).status = After(s, k).status
                                     /\ ~ After(scrubbed, k).answers
             /\ scrubbed \in Seq(Event) /\ Len(scrubbed) = Len(s)
             /\ fold(scrubbed).status = fold(s).status
             /\ ~ fold(scrubbed).answers
             /\ Legal(s) => Legal(scrubbed)
<1> DEFINE scrubbed == [i \in DOMAIN s |-> [s[i] EXCEPT !.answers = FALSE]]
<1>1. /\ scrubbed \in Seq(Event) /\ DOMAIN scrubbed = DOMAIN s
      /\ \A i \in DOMAIN s : scrubbed[i].type = s[i].type
  BY Scrubbed, Zenon
<1>2. \A k \in 0..Len(s) : After(scrubbed, k) = [After(s, k) EXCEPT !.answers = FALSE]
  BY FoldScrubbed, Zenon
<1> HIDE DEF scrubbed
<1>3. Len(s) \in Nat /\ DOMAIN s = 1..Len(s) /\ Len(scrubbed) = Len(s)
  BY <1>1
<1>4. ASSUME NEW k \in 0..Len(s)
      PROVE  After(scrubbed, k).status = After(s, k).status /\ ~ After(scrubbed, k).answers
  <2>1. After(s, k) \in State
    BY FoldType
  <2>2. QED
    BY <1>2, <2>1 DEF State
<1>5. fold(scrubbed) = After(scrubbed, Len(s)) /\ fold(s) = After(s, Len(s))
  BY <1>1, <1>3, FoldSteps
<1>6. Len(s) \in 0..Len(s)
  BY <1>3
<1>7. Legal(s) => Legal(scrubbed)
  <2> SUFFICES ASSUME Legal(s), NEW i \in 1..Len(s)
               PROVE  IF i = 1
                        THEN scrubbed[1].type = "draftCreated"
                        ELSE /\ scrubbed[i].type # "draftCreated"
                             /\ After(scrubbed, i - 1).status
                                  \in AcceptedFrom[scrubbed[i].type]
    BY <1>1, <1>3 DEF Legal
  <2>1. i - 1 \in 0..Len(s)
    BY <1>3
  <2>2. After(scrubbed, i - 1).status = After(s, i - 1).status
    BY <1>4, <2>1
  <2>3. QED
    BY <1>1, <1>3, <2>2 DEF Legal
<1>8. QED
  BY <1>1, <1>3, <1>4, <1>5, <1>6, <1>7 DEF scrubbed

(* ---------------------------- The invariant ---------------------------- *)

\* What a command decided on is what the events up to the version it loaded
\* say, but for answers an erasure has taken out of them since.
Decided(t, events) ==
  /\ t \in Txn
  /\ t.version <= Len(events)
  /\ t.version < MaxVersion[t.app]
  /\ LET seen == After(events, t.version)
     IN  /\ t.state.status = seen.status
         /\ seen.answers => t.state.answers
  /\ IF t.version = 0
       THEN t.event.type = "draftCreated"
       ELSE /\ t.event.type \in DOMAIN AcceptedFrom
            /\ t.state.status \in AcceptedFrom[t.event.type]

\* The row never misses what the adopter wrote and the stream still holds.
RowCoversStream == \A a \in Apps : fold(stream[a]).answers => view[a].answers

HistoryInv ==
  /\ TypeOK
  /\ LegalHistory
  /\ RowCoversStream
  /\ \A c \in Runners : txn[c] # Idle => Decided(txn[c], stream[txn[c].app])

\* LegalHistory, by streams.
LEMMA LegalByStream ==
  LegalHistory <=> \A a \in Apps : /\ Legal(stream[a])
                                   /\ view[a].version = Len(stream[a])
                                   /\ view[a].status = fold(stream[a]).status
  BY DEF LegalHistory, Legal, After

\* The same of the next state.
LEMMA LegalByStreamNext ==
  LegalHistory' <=> \A a \in Apps : /\ Legal(stream'[a])
                                    /\ view'[a].version = Len(stream'[a])
                                    /\ view'[a].status = fold(stream'[a]).status
  BY DEF LegalHistory, Legal, After

\* The empty stream folds to the initial state, and nothing is projected.
LEMMA HistoryInit == Init => HistoryInv
<1> SUFFICES ASSUME Init PROVE HistoryInv
  OBVIOUS
<1>1. <<>> \in Seq(Event) /\ Len(<<>>) = 0
  OBVIOUS
<1>2. fold(<<>>) = INITIAL_STATE
  BY <1>1, FoldSteps
<1>3. INITIAL_STATE.status = "draft" /\ INITIAL_STATE.answers = FALSE
  BY DEF INITIAL_STATE
<1>4. NoRow.status = "draft" /\ NoRow.version = 0
  BY DEF NoRow
<1>5. TypeOK
  BY LifecycleAssumption DEF Init, TypeOK
<1>6. LegalHistory
  <2>1. Legal(<<>>)
    BY DEF Legal
  <2>2. QED
    BY <1>1, <1>2, <1>3, <1>4, <2>1, LegalByStream DEF Init
<1>7. QED
  BY <1>2, <1>3, <1>5, <1>6 DEF HistoryInv, RowCoversStream, Init

\* An event a command may emit carries what its kind of event carries.
LEMMA EmittedKind ==
  ASSUME NEW seen \in Nat, NEW version \in Nat, NEW event \in Emitted(seen, version)
  PROVE  event \in Event /\ event.type \in DOMAIN AcceptedFrom
<1>1. {"draftAnswersSaved", "draftSubmitted", "homeVisitCompleted"} \subseteq DOMAIN AcceptedFrom
  BY DEF AcceptedFrom
<1>2. event \in Event
  BY EmittedType
<1>3. QED
  BY <1>1, <1>2 DEF Emitted

\* A command decides on the whole stream as it finds it.
LEMMA LoadHistory ==
  ASSUME HistoryInv, NEW c \in Runners, NEW a \in Apps, Load(c, a) \/ StartDraft(c, a)
  PROVE  HistoryInv'
<1>1. SUFFICES ASSUME NEW t, Decided(t, stream[t.app]), txn' = [txn EXCEPT ![c] = t],
                      UNCHANGED <<stream, view, staged>>
               PROVE  HistoryInv'
  <2>1. ASSUME NEW t, Decided(t, stream[t.app]), txn' = [txn EXCEPT ![c] = t] PROVE HistoryInv'
    BY <1>1, <2>1 DEF Load, StartDraft
  <2>2. CASE Load(c, a)
    <3> DEFINE version == Len(stream[a])
               state == fold(stream[a])
               entry(e) == [app |-> a, version |-> version, state |-> state, event |-> e]
    <3>1. /\ stream[a] \in Seq(Event) /\ version \in Nat
          /\ version \in 1..(MaxVersion[a] - 1) /\ MaxVersion[a] \in Nat
      BY <2>2, LifecycleAssumption DEF Load, HistoryInv, TypeOK
    <3>2. state \in State /\ state = After(stream[a], version)
      BY <3>1, FoldType, FoldSteps
    <3>3. PICK seen \in 1..version : \E e \in Emitted(seen, version) :
            handle(state, version, e, seen) /\ txn' = [txn EXCEPT ![c] = entry(e)]
      BY <2>2, Zenon DEF Load
    <3>4. PICK e \in Emitted(seen, version) :
            handle(state, version, e, seen) /\ txn' = [txn EXCEPT ![c] = entry(e)]
      BY <3>3
    <3> HIDE DEF version, state
    <3>5. /\ e \in Event /\ e.type \in DOMAIN AcceptedFrom
          /\ state.status \in AcceptedFrom[e.type]
      BY <3>1, <3>4, EmittedKind DEF handle
    <3>6. version # 0 /\ version < MaxVersion[a] /\ version <= Len(stream[a])
      BY <3>1 DEF version
    <3>7. Decided(entry(e), stream[entry(e).app])
      BY <3>1, <3>2, <3>5, <3>6 DEF Decided, Txn
    <3>8. QED
      BY <2>1, <3>4, <3>7
  <2>3. CASE StartDraft(c, a)
    <3> DEFINE created == [type |-> "draftCreated", outcome |-> "none",
                           answers |-> FALSE, basis |-> 0]
               entry == [app |-> a, version |-> 0, state |-> INITIAL_STATE, event |-> created]
    <3>1. created \in Event /\ created.type = "draftCreated"
      BY DEF Event, EventType, StatusAfter, Outcomes
    <3>2. INITIAL_STATE \in State
      BY DEF INITIAL_STATE, State, Status, Outcomes
    <3>3. stream[a] \in Seq(Event) /\ After(stream[a], 0) = INITIAL_STATE
      BY FoldSteps DEF HistoryInv, TypeOK
    <3>4. 0 < MaxVersion[a] /\ 0 <= Len(stream[a])
      BY <3>3, LifecycleAssumption
    <3>5. txn' = [txn EXCEPT ![c] = entry]
      BY <2>3, Zenon DEF StartDraft
    <3> HIDE DEF created
    <3>6. Decided(entry, stream[entry.app])
      BY <3>1, <3>2, <3>3, <3>4 DEF Decided, Txn
    <3>7. QED
      BY <2>1, <3>5, <3>6
  <2>4. QED
    BY <2>2, <2>3
<1>2. TypeOK'
  BY <1>1 DEF HistoryInv, TypeOK, Decided
<1>3. LegalHistory'
  BY <1>1, LegalByStream, LegalByStreamNext DEF HistoryInv
<1>4. RowCoversStream'
  BY <1>1 DEF HistoryInv, RowCoversStream
<1>5. \A d \in Runners : txn'[d] # Idle => Decided(txn'[d], stream'[txn'[d].app])
  <2>1. \A d \in Runners : txn'[d] = IF d = c THEN t ELSE txn[d]
    BY <1>1 DEF HistoryInv, TypeOK
  <2>2. QED
    BY <1>1, <2>1 DEF HistoryInv
<1>6. QED
  BY <1>2, <1>3, <1>4, <1>5 DEF HistoryInv

\* A commit appends to the very stream its command decided on, so the event is
\* legal there, and the row it projects is the fold of the longer stream.
LEMMA CommitHistory ==
  ASSUME HistoryInv, NEW c \in Runners, Commit(c)
  PROVE  HistoryInv'
<1> DEFINE t == txn[c]
           s == stream[t.app]
           next == apply(t.state, t.event)
           row == Project(next, t.version + 1)
           id == EventId(t.app, t.version + 1)
<1>1. /\ t \in Txn /\ Decided(t, s) /\ t.version = Len(s)
      /\ s \in Seq(Event) /\ t.app \in Apps /\ t.event \in Event /\ t.state \in State
      /\ t.version \in Nat
  BY DEF Commit, VersionFree, HistoryInv, TypeOK, Decided, Txn
<1>2. /\ stream' = [stream EXCEPT ![t.app] = Append(@, t.event)]
      /\ view' = [view EXCEPT ![t.app] = row]
      /\ staged' = staged \cup {[app |-> id.app, version |-> id.version, type |-> t.event.type]}
      /\ txn' = [txn EXCEPT ![c] = Idle]
  BY Zenon DEF Commit
<1>3. next \in State
  BY <1>1, ApplyType
<1>4. row \in Row /\ row.status = next.status /\ row.version = Len(s) + 1
      /\ row.answers = next.answers
  BY <1>1, <1>3 DEF Project, Row, State
<1>5. id.app = t.app /\ id.version = Len(s) + 1
  BY <1>1 DEF EventId
<1> HIDE DEF next, row, id
<1>6. /\ fold(s) \in State /\ fold(s) = After(s, Len(s))
      /\ t.state.status = fold(s).status
      /\ fold(s).answers => t.state.answers
  BY <1>1, FoldType, FoldSteps DEF Decided
<1>7. /\ stream'[t.app] = Append(s, t.event)
      /\ view'[t.app] = row
      /\ \A a \in Apps \ {t.app} : stream'[a] = stream[a] /\ view'[a] = view[a]
      /\ \A d \in Runners : txn'[d] = IF d = c THEN Idle ELSE txn[d]
  BY <1>1, <1>2 DEF HistoryInv, TypeOK
<1>8. /\ Append(s, t.event) \in Seq(Event) /\ Len(Append(s, t.event)) = Len(s) + 1
      /\ Len(s) \in Nat
  BY <1>1
<1>9. /\ fold(Append(s, t.event)) = apply(fold(s), t.event)
      /\ \A k \in 0..Len(s) : After(Append(s, t.event), k) = After(s, k)
  BY <1>1, FoldAppended
<1>10. TypeOK'
  <2>1. MaxVersion[t.app] \in Nat /\ Len(s) + 1 <= MaxVersion[t.app]
    BY <1>1, <1>8, LifecycleAssumption DEF Decided
  <2>2. t.event.type \in EventType
    BY <1>1 DEF Event
  <2>3. staged' \subseteq Staged
    BY <1>1, <1>2, <1>5, <1>8, <2>2 DEF HistoryInv, TypeOK, Staged
  <2>4. stream' \in [Apps -> Seq(Event)] /\ view' \in [Apps -> Row \cup {NoRow}]
        /\ txn' \in [Runners -> Txn \cup {Idle}]
    BY <1>1, <1>2, <1>4, <1>8 DEF HistoryInv, TypeOK
  <2>5. \A a \in Apps : Len(stream'[a]) <= MaxVersion[a]
    BY <1>7, <1>8, <2>1 DEF HistoryInv, TypeOK
  <2>6. QED
    BY <2>3, <2>4, <2>5 DEF TypeOK
<1>11. LegalHistory'
  <2>1. Legal(s)
    BY <1>1, LegalByStream DEF HistoryInv
  <2>2. MayFollow(s, fold(s).status, t.event)
    BY <1>1, <1>6 DEF MayFollow, Decided
  <2>3. Legal(Append(s, t.event))
    BY <1>1, <2>1, <2>2, LegalAppended
  <2>4. row.status = fold(Append(s, t.event)).status
    BY <1>1, <1>4, <1>6, <1>9, ApplyType DEF next
  <2>5. QED
    BY <1>4, <1>7, <1>8, <2>3, <2>4, LegalByStream, LegalByStreamNext DEF HistoryInv
<1>12. RowCoversStream'
  <2>1. next.answers
          = (t.state.answers \/ (t.event.type = "draftAnswersSaved" /\ t.event.answers))
    BY <1>1, ApplyAnswers DEF next
  <2>2. fold(Append(s, t.event)).answers
          = (fold(s).answers \/ (t.event.type = "draftAnswersSaved" /\ t.event.answers))
    BY <1>1, <1>6, <1>9, ApplyAnswers
  <2>3. fold(Append(s, t.event)).answers => row.answers
    BY <1>4, <1>6, <2>1, <2>2, Zenon
  <2>4. QED
    BY <1>7, <2>3 DEF HistoryInv, RowCoversStream
<1>13. ASSUME NEW d \in Runners, txn'[d] # Idle
       PROVE  Decided(txn'[d], stream'[txn'[d].app])
  <2> DEFINE u == txn[d]
  <2>1. txn'[d] = u /\ u # Idle
    BY <1>7, <1>13
  <2>2. Decided(u, stream[u.app]) /\ u \in Txn /\ u.app \in Apps /\ u.version \in Nat
    BY <2>1 DEF HistoryInv, Decided, Txn
  <2> HIDE DEF u
  <2>3. CASE u.app = t.app
    <3>1. u.version \in 0..Len(s) /\ u.version <= Len(s) + 1
      BY <1>8, <2>2, <2>3 DEF Decided
    <3>2. Decided(u, Append(s, t.event))
      BY <1>8, <1>9, <2>2, <2>3, <3>1 DEF Decided
    <3>3. QED
      BY <1>7, <2>1, <2>3, <3>2
  <2>4. CASE u.app # t.app
    BY <1>7, <2>1, <2>2, <2>4
  <2>5. QED
    BY <2>3, <2>4
<1>14. QED
  BY <1>10, <1>11, <1>12, <1>13 DEF HistoryInv

\* An erasure leaves every history and row status, and takes the answers from
\* both the stream and the row.
LEMMA EraseHistory ==
  ASSUME HistoryInv, NEW user, Erase(user)
  PROVE  HistoryInv'
<1> DEFINE mine == {a \in Apps : Adopter[a] = user /\ view[a] # NoRow}
           scrubbed(s) == [i \in DOMAIN s |-> [s[i] EXCEPT !.answers = FALSE]]
<1>1. /\ stream' = [a \in Apps |-> IF a \in mine THEN scrubbed(stream[a]) ELSE stream[a]]
      /\ view' = [a \in Apps |->
                    IF a \in mine THEN [view[a] EXCEPT !.answers = FALSE] ELSE view[a]]
      /\ UNCHANGED <<txn, staged>>
  BY Zenon DEF Erase
<1>2. \A s \in Seq(Event) :
        /\ \A k \in 0..Len(s) : /\ After(scrubbed(s), k).status = After(s, k).status
                                /\ ~ After(scrubbed(s), k).answers
        /\ scrubbed(s) \in Seq(Event) /\ Len(scrubbed(s)) = Len(s)
        /\ fold(scrubbed(s)).status = fold(s).status
        /\ ~ fold(scrubbed(s)).answers
        /\ Legal(s) => Legal(scrubbed(s))
  BY LegalScrubbed, Zenon
<1>3. \A a \in Apps : stream[a] \in Seq(Event) /\ view[a] \in Row \cup {NoRow}
  BY DEF HistoryInv, TypeOK
<1>4. ASSUME NEW a \in mine
      PROVE  LET after == [view[a] EXCEPT !.answers = FALSE]
             IN  /\ after \in Row /\ after.answers = FALSE
                 /\ after.status = view[a].status /\ after.version = view[a].version
  <2>1. view[a] \in Row
    BY <1>3
  <2>2. QED
    BY <2>1 DEF Row
<1>5. ASSUME NEW a \in Apps
      PROVE  /\ stream'[a] = IF a \in mine THEN scrubbed(stream[a]) ELSE stream[a]
             /\ view'[a] = IF a \in mine THEN [view[a] EXCEPT !.answers = FALSE] ELSE view[a]
  BY <1>1
<1> HIDE DEF mine, scrubbed
<1>6. TypeOK'
  <2>1. stream' \in [Apps -> Seq(Event)] /\ view' \in [Apps -> Row \cup {NoRow}]
    BY <1>1, <1>2, <1>3, <1>4
  <2>2. \A a \in Apps : Len(stream'[a]) <= MaxVersion[a]
    BY <1>2, <1>3, <1>5 DEF HistoryInv, TypeOK
  <2>3. QED
    BY <1>1, <2>1, <2>2 DEF HistoryInv, TypeOK
<1>7. LegalHistory'
  <2> SUFFICES ASSUME NEW a \in Apps
               PROVE  /\ Legal(stream'[a])
                      /\ view'[a].version = Len(stream'[a])
                      /\ view'[a].status = fold(stream'[a]).status
    BY LegalByStreamNext
  <2>1. /\ Legal(stream[a])
        /\ view[a].version = Len(stream[a])
        /\ view[a].status = fold(stream[a]).status
    BY LegalByStream DEF HistoryInv
  <2>2. CASE a \in mine
    <3>1. stream'[a] = scrubbed(stream[a])
      BY <1>5, <2>2
    <3>2. view'[a].status = view[a].status /\ view'[a].version = view[a].version
      BY <1>4, <1>5, <2>2
    <3>3. QED
      BY <1>2, <1>3, <2>1, <3>1, <3>2
  <2>3. CASE a \notin mine
    BY <1>5, <2>1, <2>3
  <2>4. QED
    BY <2>2, <2>3
<1>8. RowCoversStream'
  BY <1>2, <1>3, <1>5 DEF HistoryInv, RowCoversStream
<1>9. ASSUME NEW d \in Runners, txn'[d] # Idle
      PROVE  Decided(txn'[d], stream'[txn'[d].app])
  <2> DEFINE u == txn[d]
  <2>1. txn'[d] = u /\ u # Idle
    BY <1>1, <1>9
  <2>2. Decided(u, stream[u.app]) /\ u.app \in Apps /\ u.version \in Nat
    BY <2>1 DEF HistoryInv, Decided, Txn
  <2> HIDE DEF u
  <2>3. CASE u.app \in mine
    <3>1. stream[u.app] \in Seq(Event) /\ u.version \in 0..Len(stream[u.app])
      BY <1>3, <2>2 DEF Decided
    <3>2. /\ Len(scrubbed(stream[u.app])) = Len(stream[u.app])
          /\ After(scrubbed(stream[u.app]), u.version).status
               = After(stream[u.app], u.version).status
          /\ ~ After(scrubbed(stream[u.app]), u.version).answers
      BY <1>2, <3>1
    <3>3. Decided(u, scrubbed(stream[u.app]))
      BY <2>2, <3>2 DEF Decided
    <3>4. QED
      BY <1>5, <2>1, <2>2, <2>3, <3>3
  <2>4. CASE u.app \notin mine
    BY <1>5, <2>1, <2>2, <2>4
  <2>5. QED
    BY <2>3, <2>4
<1>10. QED
  BY <1>6, <1>7, <1>8, <1>9 DEF HistoryInv

\* Every step keeps the invariant.
LEMMA HistoryStep == HistoryInv /\ [Next]_vars => HistoryInv'
<1> SUFFICES ASSUME HistoryInv, [Next]_vars PROVE HistoryInv'
  OBVIOUS
<1>1. ASSUME NEW c \in Runners, Rollback(c) PROVE HistoryInv'
  <2>1. /\ UNCHANGED <<stream, view, staged>>
        /\ txn' \in [Runners -> Txn \cup {Idle}]
        /\ \A d \in Runners : txn'[d] \in {Idle, txn[d]}
    BY <1>1 DEF Rollback, HistoryInv, TypeOK
  <2>2. LegalHistory' /\ RowCoversStream' /\ TypeOK'
    BY <2>1, LegalByStream, LegalByStreamNext DEF HistoryInv, RowCoversStream, TypeOK
  <2>3. QED
    BY <2>1, <2>2 DEF HistoryInv
<1>2. CASE UNCHANGED vars
  <2>1. UNCHANGED <<stream, view, staged, txn>>
    BY <1>2 DEF vars
  <2>2. LegalHistory' /\ RowCoversStream' /\ TypeOK'
    BY <2>1, LegalByStream, LegalByStreamNext DEF HistoryInv, RowCoversStream, TypeOK
  <2>3. QED
    BY <2>1, <2>2 DEF HistoryInv
<1>3. QED
  BY <1>1, <1>2, LoadHistory, CommitHistory, EraseHistory DEF Next

\* All of it holds in every reachable state.
LEMMA HistoryCorrect == Spec => []HistoryInv
  BY HistoryInit, HistoryStep, PTL DEF Spec

\* Streams, rows, open commands and announcements keep their types and bounds.
THEOREM TypeCorrect == Spec => []TypeOK
<1>1. HistoryInv => TypeOK
  BY DEF HistoryInv
<1>2. QED
  BY <1>1, HistoryCorrect, PTL

\* The (aggregate_id, version) index makes a command that loaded an older
\* version fail, so every event is legal after the ones before it, and the row
\* a commit writes is the fold of the stream it extended: no lock is needed.
THEOREM HistoryLegal == Spec => []LegalHistory
<1>1. HistoryInv => LegalHistory
  BY DEF HistoryInv
<1>2. QED
  BY <1>1, HistoryCorrect, PTL

\* An erasure may leave behind in the row what it took from the stream, when a
\* command was open; the row never lacks what the stream still holds.
THEOREM RowsCoverStreams == Spec => []RowCoversStream
<1>1. HistoryInv => RowCoversStream
  BY DEF HistoryInv
<1>2. QED
  BY <1>1, HistoryCorrect, PTL

\* An envelope id names one event: of two announcements of one version of one
\* application there is only one.
THEOREM AnnouncementsDistinct ==
  Spec => [](\A d, e \in staged : d.app = e.app /\ d.version = e.version => d = e)
<1>1. HistoryInv /\ AppInv =>
        \A d, e \in staged : d.app = e.app /\ d.version = e.version => d = e
  BY DEF HistoryInv, TypeOK, Staged, AppInv, AnnouncedOnce
<1>2. QED
  BY <1>1, HistoryCorrect, AppCorrect, PTL

(* -------------------------- Rows and erasures -------------------------- *)

\* A command that commits on a stream whose answers are those it has loaded
\* leaves the row the fold of the stream.
LEMMA FreshCommit ==
  ASSUME HistoryInv, NEW c \in Runners, Commit(c),
         txn[c].state.answers => fold(stream[txn[c].app]).answers
  PROVE  \A a \in Apps :
           view[a].answers = fold(stream[a]).answers \/ a = txn[c].app
             => view'[a].answers = fold(stream'[a]).answers
<1> DEFINE t == txn[c]
           s == stream[t.app]
           next == apply(t.state, t.event)
           row == Project(next, t.version + 1)
<1>1. /\ t \in Txn /\ Decided(t, s) /\ t.version = Len(s)
      /\ s \in Seq(Event) /\ t.app \in Apps /\ t.event \in Event /\ t.state \in State
  BY DEF Commit, VersionFree, HistoryInv, TypeOK, Decided, Txn
<1>2. /\ stream' = [stream EXCEPT ![t.app] = Append(@, t.event)]
      /\ view' = [view EXCEPT ![t.app] = row]
  BY Zenon DEF Commit
<1>3. row.answers = next.answers
  BY DEF Project
<1> HIDE DEF next, row
<1>4. /\ stream'[t.app] = Append(s, t.event) /\ view'[t.app] = row
      /\ \A a \in Apps \ {t.app} : stream'[a] = stream[a] /\ view'[a] = view[a]
  BY <1>1, <1>2 DEF HistoryInv, TypeOK
<1>5. /\ fold(s) \in State /\ fold(s) = After(s, Len(s))
      /\ fold(s).answers => t.state.answers
  BY <1>1, FoldType, FoldSteps DEF Decided
<1>6. t.state.answers = fold(s).answers
  BY <1>1, <1>5 DEF State
<1>7. next.answers
        = (t.state.answers \/ (t.event.type = "draftAnswersSaved" /\ t.event.answers))
  BY <1>1, ApplyAnswers DEF next
<1>8. fold(Append(s, t.event)).answers
        = (fold(s).answers \/ (t.event.type = "draftAnswersSaved" /\ t.event.answers))
  BY <1>1, <1>5, FoldAppended, ApplyAnswers
<1>9. row.answers = fold(Append(s, t.event)).answers
  BY <1>3, <1>6, <1>7, <1>8, Zenon
<1>10. QED
  BY <1>4, <1>9

\* An erasure leaves every row with the answers of its stream that had them.
LEMMA EraseKeepsFold ==
  ASSUME HistoryInv, NEW user, Erase(user)
  PROVE  \A a \in Apps : view[a].answers = fold(stream[a]).answers
                           => view'[a].answers = fold(stream'[a]).answers
<1> DEFINE mine == {a \in Apps : Adopter[a] = user /\ view[a] # NoRow}
           scrubbed(s) == [i \in DOMAIN s |-> [s[i] EXCEPT !.answers = FALSE]]
<1>1. /\ stream' = [a \in Apps |-> IF a \in mine THEN scrubbed(stream[a]) ELSE stream[a]]
      /\ view' = [a \in Apps |->
                    IF a \in mine THEN [view[a] EXCEPT !.answers = FALSE] ELSE view[a]]
  BY Zenon DEF Erase
<1>2. \A s \in Seq(Event) : scrubbed(s) \in Seq(Event) /\ ~ fold(scrubbed(s)).answers
  BY LegalScrubbed, Zenon
<1>3. \A a \in Apps : stream[a] \in Seq(Event) /\ view[a] \in Row \cup {NoRow}
  BY DEF HistoryInv, TypeOK
<1>4. ASSUME NEW a \in mine PROVE [view[a] EXCEPT !.answers = FALSE].answers = FALSE
  <2>1. view[a] \in Row
    BY <1>3
  <2>2. QED
    BY <2>1 DEF Row
<1>5. ASSUME NEW a \in Apps
      PROVE  /\ stream'[a] = IF a \in mine THEN scrubbed(stream[a]) ELSE stream[a]
             /\ view'[a] = IF a \in mine THEN [view[a] EXCEPT !.answers = FALSE] ELSE view[a]
  BY <1>1
<1> HIDE DEF mine, scrubbed
<1>6. \A a \in mine : fold(scrubbed(stream[a])) \in State
  BY <1>2, <1>3, FoldType DEF mine
<1>7. \A a \in mine : fold(scrubbed(stream[a])).answers = FALSE
  BY <1>2, <1>3, <1>6 DEF mine, State
<1>8. QED
  BY <1>4, <1>5, <1>7

\* A step takes the row of application a away from its stream only by committing
\* a command that had loaded answers the stream no longer has.
OvertakenByErasure(a) ==
  \E c \in Runners : /\ Commit(c) /\ txn[c].app = a
                     /\ txn[c].state.answers /\ ~ fold(stream[a]).answers

\* Erased answers come back into the read model in one way only: a command that
\* was loaded before the erasure commits after it.  Every other command, and the
\* erasure itself, keeps the row the fold of its stream.
THEOREM OnlyOvertakenCommits ==
  Spec => [][\A a \in Apps :
               /\ view[a].answers = fold(stream[a]).answers
               /\ view'[a].answers # fold(stream'[a]).answers
               => OvertakenByErasure(a)]_vars
<1> DEFINE Kept == \A a \in Apps :
             /\ view[a].answers = fold(stream[a]).answers
             /\ view'[a].answers # fold(stream'[a]).answers
             => OvertakenByErasure(a)
<1>1. HistoryInv /\ [Next]_vars => [Kept]_vars
  <2> SUFFICES ASSUME HistoryInv, Next, NEW a \in Apps,
                      view[a].answers = fold(stream[a]).answers,
                      view'[a].answers # fold(stream'[a]).answers
               PROVE  OvertakenByErasure(a)
    OBVIOUS
  <2>1. ~ UNCHANGED <<stream, view>>
    OBVIOUS
  <2>2. ASSUME NEW c \in Runners, Commit(c) PROVE OvertakenByErasure(a)
    <3>1. txn[c].state.answers /\ ~ fold(stream[txn[c].app]).answers
      BY <2>2, FreshCommit
    <3>2. txn[c].app = a
      <4>1. stream' = [stream EXCEPT ![txn[c].app] = Append(@, txn[c].event)]
        BY <2>2, Zenon DEF Commit
      <4>2. view'[a] = view[a] \/ a = txn[c].app
        BY <2>2 DEF Commit, HistoryInv, TypeOK
      <4>3. stream'[a] = stream[a] \/ a = txn[c].app
        BY <4>1 DEF HistoryInv, TypeOK
      <4>4. QED
        BY <4>2, <4>3
    <3>3. QED
      BY <2>2, <3>1, <3>2 DEF OvertakenByErasure
  <2>3. ASSUME NEW b \in Apps, Erase(Adopter[b]) PROVE FALSE
    BY <2>3, EraseKeepsFold
  <2>4. ASSUME NEW c \in Runners, NEW b \in Apps, Load(c, b) \/ StartDraft(c, b) \/ Rollback(c)
        PROVE  FALSE
    BY <2>1, <2>4 DEF Load, StartDraft, Rollback
  <2>5. QED
    BY <2>2, <2>3, <2>4 DEF Next
<1>2. QED
  BY <1>1, HistoryCorrect, PTL DEF Spec

(* ----------------------------- Refinement ------------------------------ *)

\* The moves of a stream are the types of its events.
Moves(s) == [i \in DOMAIN s |-> s[i].type]

\* Appending an event makes one more move.
LEMMA MovesAppended ==
  ASSUME NEW s \in Seq(Event), NEW e \in Event
  PROVE  /\ Moves(Append(s, e)) = Append(Moves(s), e.type)
         /\ Len(Moves(s)) = Len(s)
         /\ Moves(s) = <<>> <=> Len(s) = 0
<1>1. /\ Len(s) \in Nat /\ DOMAIN s = 1..Len(s)
      /\ DOMAIN Append(s, e) = 1..(Len(s) + 1)
      /\ Append(s, e)[Len(s) + 1] = e
      /\ \A i \in DOMAIN s : Append(s, e)[i] = s[i] /\ s[i] \in Event
  BY Appended
<1>2. \A x \in Event : x.type \in EventType
  BY DEF Event
<1>3. Moves(s) \in [1..Len(s) -> EventType]
  BY <1>1, <1>2 DEF Moves
<1>4. Moves(s) \in Seq(EventType) /\ Len(Moves(s)) = Len(s)
  <2>1. Moves(s) \in Seq(EventType)
    BY <1>1, <1>3, SeqDef
  <2>2. DOMAIN Moves(s) = 1..Len(s)
    BY <1>3
  <2>3. QED
    BY <1>1, <2>1, <2>2
<1>5. /\ DOMAIN Append(Moves(s), e.type) = 1..(Len(s) + 1)
      /\ Append(Moves(s), e.type)[Len(s) + 1] = e.type
      /\ \A i \in 1..Len(s) : Append(Moves(s), e.type)[i] = Moves(s)[i]
      /\ Append(Moves(s), e.type) \in Seq(EventType)
  BY <1>1, <1>2, <1>4
<1>6. /\ DOMAIN Moves(Append(s, e)) = 1..(Len(s) + 1)
      /\ \A i \in 1..(Len(s) + 1) : Moves(Append(s, e))[i] = Append(Moves(s), e.type)[i]
  <2>1. /\ DOMAIN Moves(Append(s, e)) = 1..(Len(s) + 1)
        /\ \A i \in 1..(Len(s) + 1) : Moves(Append(s, e))[i] = Append(s, e)[i].type
    BY <1>1 DEF Moves
  <2>2. \A i \in 1..Len(s) : Moves(s)[i] = s[i].type
    BY <1>1 DEF Moves
  <2>3. \A i \in 1..(Len(s) + 1) : i \in 1..Len(s) \/ i = Len(s) + 1
    BY <1>1
  <2>4. QED
    BY <1>1, <1>5, <2>1, <2>2, <2>3
<1>7. Moves(Append(s, e)) = Append(Moves(s), e.type)
  <2>1. Moves(Append(s, e)) = [i \in 1..(Len(s) + 1) |-> Moves(Append(s, e))[i]]
    BY <1>1 DEF Moves
  <2>2. Append(Moves(s), e.type) = [i \in 1..(Len(s) + 1) |-> Append(Moves(s), e.type)[i]]
    BY <1>5
  <2>3. QED
    BY <1>6, <2>1, <2>2
<1>8. Moves(s) = <<>> <=> Len(s) = 0
  BY <1>1, <1>4
<1>9. QED
  BY <1>4, <1>7, <1>8

\* The abstract file, in the terms of this module.
Files == [a \in Apps |-> Moves(stream[a])]
Standing == [a \in Apps |-> view[a].status]

\* A commit is one lawful move on the file as it is.
LEMMA CommitIsMove ==
  ASSUME HistoryInv, AppInv, NEW c \in Runners, Commit(c)
  PROVE  Case!Next
<1> DEFINE t == txn[c]
           s == stream[t.app]
           next == apply(t.state, t.event)
           row == Project(next, t.version + 1)
           id == EventId(t.app, t.version + 1)
<1>a. /\ t \in Txn /\ Decided(t, s) /\ t.version = Len(s)
      /\ s \in Seq(Event) /\ t.app \in Apps /\ t.event \in Event /\ t.state \in State
      /\ Len(s) \in Nat
  BY DEF Commit, VersionFree, HistoryInv, TypeOK, Decided, Txn
<1>b. PICK a \in Apps, move \in {t.event.type} : a = t.app
  BY <1>a
<1>1. /\ t \in Txn /\ Decided(t, s) /\ t.version = Len(s)
      /\ s = stream[a] /\ s \in Seq(Event) /\ t.event \in Event /\ t.state \in State
      /\ Len(s) \in Nat /\ t.app = a /\ t.event.type = move
  BY <1>a, <1>b
<1>2. /\ Open(next.status) => PairFree(a)
      /\ stream' = [stream EXCEPT ![a] = Append(@, t.event)]
      /\ view' = [view EXCEPT ![a] = row]
      /\ staged' = staged \cup {[app |-> id.app, version |-> id.version, type |-> move]}
  BY <1>1, Zenon DEF Commit
<1>3. id.app = a /\ id.version = Len(s) + 1
  BY <1>1 DEF EventId
<1>4. /\ row.status = next.status
      /\ next.status = IF move \in DOMAIN StatusAfter THEN StatusAfter[move]
                                                      ELSE view[a].status
  <2>1. t.state.status = view[a].status
    BY <1>1, FoldSteps, LegalByStream DEF Decided, HistoryInv
  <2>2. QED
    BY <1>1, <2>1, ApplyType DEF Project
<1> HIDE DEF next, row, id
<1>5. /\ stream'[a] = Append(s, t.event) /\ view'[a] = row
      /\ \A b \in Apps \ {a} : stream'[b] = stream[b] /\ view'[b] = view[b]
      /\ DOMAIN stream' = Apps /\ DOMAIN view' = Apps
  BY <1>1, <1>2 DEF HistoryInv, TypeOK
<1>6. /\ Moves(stream'[a]) = Append(Moves(s), move)
      /\ Len(Moves(s)) = Len(s)
      /\ Moves(s) = <<>> <=> Len(s) = 0
  BY <1>1, <1>5, MovesAppended
<1>7. IF Moves(s) = <<>> THEN move = "draftCreated"
        ELSE move \in DOMAIN AcceptedFrom /\ view[a].status \in AcceptedFrom[move]
  BY <1>1, <1>6, FoldSteps, LegalByStream DEF Decided, HistoryInv
<1>8. next.status \notin {"rejected", "withdrawn"} =>
        \A b \in {b \in Apps \ {a} : Adopter[b] = Adopter[a] /\ Pet[b] = Pet[a]} :
          Moves(stream[b]) # <<>> => view[b].status \in {"rejected", "withdrawn"}
  <2> SUFFICES ASSUME next.status \notin {"rejected", "withdrawn"}, NEW b \in Apps \ {a},
                      Adopter[b] = Adopter[a], Pet[b] = Pet[a], Moves(stream[b]) # <<>>
               PROVE  view[b].status \in {"rejected", "withdrawn"}
    OBVIOUS
  <2>1. PairFree(a)
    BY <1>2 DEF Open
  <2>2. stream[b] \in Seq(Event) /\ view[b].version = Len(stream[b])
    BY LegalByStream DEF HistoryInv, TypeOK
  <2>3. Len(stream[b]) # 0
    BY <1>1, <2>2, MovesAppended
  <2>4. view[b] # NoRow
    BY <2>2, <2>3 DEF NoRow
  <2>5. QED
    BY <2>1, <2>4 DEF PairFree, Open
<1>9. Files' = [Files EXCEPT ![a] = Append(@, move)]
  BY <1>1, <1>5, <1>6 DEF Files
<1>10. Standing' = [Standing EXCEPT ![a] = next.status]
  BY <1>1, <1>4, <1>5 DEF Standing
<1>11. Files[a] = Moves(s) /\ Standing[a] = view[a].status
       /\ \A b \in Apps : Files[b] = Moves(stream[b]) /\ Standing[b] = view[b].status
  BY <1>1 DEF Files, Standing
<1>12. staged' = staged \cup
         {[app |-> a, version |-> Len(Files[a]) + 1, type |-> move]}
  BY <1>2, <1>3, <1>6, <1>11
<1>13. move \in {"draftCreated"} \cup DOMAIN AcceptedFrom
  BY <1>7
<1>14. Case!Move(a, move)
  <2>1. /\ Files = [b \in Apps |-> [i \in DOMAIN stream[b] |-> stream[b][i].type]]
        /\ Files' = [b \in Apps |-> [i \in DOMAIN stream'[b] |-> stream'[b][i].type]]
    BY DEF Files, Moves
  <2>2. /\ Standing = [b \in Apps |-> view[b].status]
        /\ Standing' = [b \in Apps |-> view'[b].status]
    BY DEF Standing
  <2>3. Case!After(a, move) = next.status
    BY <1>1, <1>4 DEF Case!After
  <2>4. Case!Lawful(a, move)
    BY <1>1, <1>7, <1>11, <2>1 DEF Case!Lawful
  <2>5. QED
    BY <1>1, <1>8, <1>9, <1>10, <1>11, <1>12, <2>1, <2>2, <2>3, <2>4 DEF Case!Move
<1>15. QED
  BY <1>13, <1>14 DEF Case!Next

\* What erases moves no file and tells nobody.
LEMMA EraseIsInvisible ==
  ASSUME HistoryInv, NEW user, Erase(user)
  PROVE  UNCHANGED Case!vars
<1> DEFINE mine == {a \in Apps : Adopter[a] = user /\ view[a] # NoRow}
           scrubbed(s) == [i \in DOMAIN s |-> [s[i] EXCEPT !.answers = FALSE]]
<1>1. /\ stream' = [a \in Apps |-> IF a \in mine THEN scrubbed(stream[a]) ELSE stream[a]]
      /\ view' = [a \in Apps |->
                    IF a \in mine THEN [view[a] EXCEPT !.answers = FALSE] ELSE view[a]]
      /\ staged' = staged
  BY Zenon DEF Erase
<1>2. \A s \in Seq(Event) : /\ DOMAIN scrubbed(s) = DOMAIN s
                            /\ \A i \in DOMAIN s : scrubbed(s)[i].type = s[i].type
  BY Scrubbed, Zenon
<1>3. \A a \in Apps : stream[a] \in Seq(Event) /\ view[a] \in Row \cup {NoRow}
  BY DEF HistoryInv, TypeOK
<1>4. \A a \in mine : [view[a] EXCEPT !.answers = FALSE].status = view[a].status
  <2> SUFFICES ASSUME NEW a \in mine
               PROVE  [view[a] EXCEPT !.answers = FALSE].status = view[a].status
    OBVIOUS
  <2>1. view[a] \in Row
    BY <1>3
  <2>2. QED
    BY <2>1 DEF Row
<1> HIDE DEF scrubbed
<1>5. ASSUME NEW s \in Seq(Event)
      PROVE  [i \in DOMAIN scrubbed(s) |-> scrubbed(s)[i].type] = [i \in DOMAIN s |-> s[i].type]
  BY <1>2
<1>6. \A a \in Apps : [i \in DOMAIN stream'[a] |-> stream'[a][i].type]
                        = [i \in DOMAIN stream[a] |-> stream[a][i].type]
  BY <1>1, <1>3, <1>5
<1>7. \A a \in Apps : view'[a].status = view[a].status
  BY <1>1, <1>4
<1>8. QED
  BY <1>1, <1>6, <1>7 DEF Case!vars

\* Optimistic concurrency is serial: the service implements the clerk.
THEOREM Refinement == Spec => ImplementsCase
<1>1. Init => Case!Init
  <2> SUFFICES ASSUME Init PROVE Case!Init
    OBVIOUS
  <2>1. INITIAL_STATE.status = "draft" /\ NoRow.status = "draft"
    BY DEF INITIAL_STATE, NoRow
  <2>2. \A a \in Apps : stream[a] = <<>> /\ view[a] = NoRow
    BY DEF Init
  <2>3. [i \in DOMAIN <<>> |-> <<>>[i].type] = <<>>
    OBVIOUS
  <2>4. \A a \in Apps : [i \in DOMAIN stream[a] |-> stream[a][i].type] = <<>>
    BY <2>2, <2>3
  <2>5. QED
    BY <2>1, <2>2, <2>4 DEF Init, Case!Init
<1>2. HistoryInv /\ AppInv /\ [Next]_vars => [Case!Next]_(Case!vars)
  <2> SUFFICES ASSUME HistoryInv, AppInv, [Next]_vars PROVE [Case!Next]_(Case!vars)
    OBVIOUS
  <2>1. CASE UNCHANGED <<stream, view, staged>>
    BY <2>1 DEF Case!vars
  <2>2. QED
    BY <2>1, CommitIsMove, EraseIsInvisible DEF Next, Load, StartDraft, Rollback, vars
<1>3. QED
  BY <1>1, <1>2, HistoryCorrect, AppCorrect, PTL DEF Spec, ImplementsCase, Case!Spec
=============================================================================
