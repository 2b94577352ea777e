--------------------- MODULE ApplicationLifecycleProofs ---------------------
(***************************************************************************)
(* Proofs about ApplicationLifecycle for any applications, adopters, pets, *)
(* concurrent commands and stream lengths.                                 *)
(*                                                                         *)
(* The part that needs no induction over streams: what the unique indexes  *)
(* and the event ids give.  Shape is the part of the type invariant that   *)
(* takes, and joins each command to the version it loaded.                 *)
(***************************************************************************)
EXTENDS ApplicationLifecycle, TLAPS, SequenceTheorems

\* The runner's transaction is a command on a version it loaded.
Loaded(t) ==
  /\ t.app \in Apps
  /\ t.version \in Nat
  /\ t.event \in Event
  /\ t.event.type \in Versioned => t.event.basis = t.version

\* A row of the read model.
Projected(row) ==
  /\ row = [status |-> row.status, version |-> row.version, answers |-> row.answers]
  /\ row.version \in Nat \ {0}

Shape ==
  /\ stream \in [Apps -> Seq(Event)]
  /\ DOMAIN view = Apps
  /\ \A a \in Apps : view[a] = NoRow \/ Projected(view[a])
  /\ DOMAIN txn = Runners
  /\ \A c \in Runners : txn[c] = Idle \/ Loaded(txn[c])

\* An event handle() may emit is an event, decided on the loaded version.
LEMMA EmittedType ==
  ASSUME NEW seen \in Nat, NEW version \in Nat, NEW event \in Emitted(seen, version)
  PROVE  event \in Event /\ (event.type \in Versioned => event.basis = seen)
<1>1. DOMAIN AcceptedFrom \subseteq EventType
  BY DEF AcceptedFrom, EventType, StatusAfter
<1>2. VisitOutcomes \subseteq Outcomes /\ "none" \in Outcomes
  BY DEF Outcomes
<1>3. {"draftAnswersSaved", "draftSubmitted", "homeVisitCompleted"} \subseteq EventType
  BY DEF EventType, StatusAfter
<1>4. "homeVisitCompleted" \notin Versioned
  BY DEF Versioned
<1>5. QED
  BY <1>1, <1>2, <1>3, <1>4 DEF Emitted, Event, Versioned

\* Appending to a stream makes it one longer and leaves what it held.
LEMMA Appended ==
  ASSUME NEW s \in Seq(Event), NEW e \in Event
  PROVE  /\ Append(s, e) \in Seq(Event)
         /\ Len(s) \in Nat /\ DOMAIN s = 1..Len(s)
         /\ DOMAIN Append(s, e) = 1..Len(s) + 1
         /\ Append(s, e)[Len(s) + 1] = e
         /\ \A i \in DOMAIN s : Append(s, e)[i] = s[i]
  OBVIOUS

\* Erasing the answers of a stream changes no event in anything else.
LEMMA Scrubbed ==
  ASSUME NEW s \in Seq(Event)
  PROVE  LET scrubbed == [i \in DOMAIN s |-> [s[i] EXCEPT !.answers = FALSE]]
         IN  /\ scrubbed \in Seq(Event)
             /\ DOMAIN scrubbed = DOMAIN s
             /\ \A i \in DOMAIN s :
                  scrubbed[i].type = s[i].type /\ scrubbed[i].basis = s[i].basis
<1> DEFINE scrubbed == [i \in DOMAIN s |-> [s[i] EXCEPT !.answers = FALSE]]
<1>1. Len(s) \in Nat /\ DOMAIN s = 1..Len(s)
  OBVIOUS
<1>2. \A i \in DOMAIN s : s[i] \in Event
  OBVIOUS
<1>3. \A i \in DOMAIN s : /\ scrubbed[i] \in Event
                          /\ scrubbed[i].type = s[i].type
                          /\ scrubbed[i].basis = s[i].basis
  BY <1>2 DEF Event
<1>4. scrubbed \in [1..Len(s) -> Event] /\ DOMAIN scrubbed = DOMAIN s
  BY <1>1, <1>3
<1> HIDE DEF scrubbed
<1>5. scrubbed \in Seq(Event)
  BY <1>1, <1>4, SeqDef
<1>6. QED
  BY <1>3, <1>4, <1>5 DEF scrubbed

(* ---------------------------- The actions ------------------------------ *)

\* What a commit appends, projects and stages.
LEMMA CommitEffect ==
  ASSUME Shape, NEW c \in Runners, Commit(c)
  PROVE  LET t == txn[c]
         IN  /\ Loaded(t)
             /\ t.version = Len(stream[t.app])
             /\ stream' = [stream EXCEPT ![t.app] = Append(@, t.event)]
             /\ staged' = staged \cup {[app |-> t.app, version |-> t.version + 1,
                                        type |-> t.event.type]}
             /\ \E row : /\ Projected(row)
                         /\ Open(row.status) => PairFree(t.app)
                         /\ view' = [view EXCEPT ![t.app] = row]
             /\ txn' = [txn EXCEPT ![c] = Idle]
<1> DEFINE t == txn[c]
           next == apply(t.state, t.event)
           row == Project(next, t.version + 1)
           id == EventId(t.app, t.version + 1)
<1>1. Loaded(t) /\ t.version = Len(stream[t.app])
  BY DEF Commit, Shape, VersionFree
<1>2. row = [status |-> next.status, version |-> t.version + 1, answers |-> next.answers]
  BY DEF Project
<1>3. row.status = next.status /\ Projected(row)
  BY <1>1, <1>2 DEF Loaded, Projected
<1>4. id.app = t.app /\ id.version = t.version + 1
  BY DEF EventId
<1>5. /\ Open(next.status) => PairFree(t.app)
      /\ stream' = [stream EXCEPT ![t.app] = Append(@, t.event)]
      /\ view' = [view EXCEPT ![t.app] = row]
      /\ staged' = staged \cup {[app |-> id.app, version |-> id.version, type |-> t.event.type]}
      /\ txn' = [txn EXCEPT ![c] = Idle]
  BY Zenon DEF Commit
<1> HIDE DEF next, row, id
<1>6. QED
  BY <1>1, <1>3, <1>4, <1>5

\* The erasure changes neither the length of a stream, nor the type or basis of
\* an event, nor which rows exist and their status.
LEMMA EraseEffect ==
  ASSUME Shape, NEW user, Erase(user)
  PROVE  /\ stream' \in [Apps -> Seq(Event)] /\ DOMAIN view' = Apps
         /\ UNCHANGED <<txn, staged>>
         /\ \A a \in Apps :
              /\ DOMAIN stream'[a] = DOMAIN stream[a]
              /\ \A i \in DOMAIN stream[a] :
                   /\ stream'[a][i].type = stream[a][i].type
                   /\ stream'[a][i].basis = stream[a][i].basis
              /\ view'[a] = NoRow <=> view[a] = NoRow
              /\ view[a] # NoRow =>
                   Projected(view'[a]) /\ view'[a].status = view[a].status
<1> DEFINE mine == {a \in Apps : Adopter[a] = user /\ view[a] # NoRow}
           scrubbed(s) == [i \in DOMAIN s |-> [s[i] EXCEPT !.answers = FALSE]]
<1>1. /\ stream' = [a \in Apps |-> IF a \in mine THEN scrubbed(stream[a]) ELSE stream[a]]
      /\ view' = [a \in Apps |->
                    IF a \in mine THEN [view[a] EXCEPT !.answers = FALSE] ELSE view[a]]
      /\ UNCHANGED <<txn, staged>>
  BY Zenon DEF Erase
<1>2. \A a \in Apps : stream[a] \in Seq(Event)
  BY DEF Shape
<1>3. \A s \in Seq(Event) :
        /\ scrubbed(s) \in Seq(Event) /\ DOMAIN scrubbed(s) = DOMAIN s
        /\ \A i \in DOMAIN s :
             scrubbed(s)[i].type = s[i].type /\ scrubbed(s)[i].basis = s[i].basis
  BY Scrubbed, Zenon
<1>4. ASSUME NEW row, Projected(row)
      PROVE  LET after == [row EXCEPT !.answers = FALSE]
             IN  Projected(after) /\ after.status = row.status /\ after # NoRow
  <2> DEFINE after == [row EXCEPT !.answers = FALSE]
             copy == [status |-> row.status, version |-> row.version, answers |-> FALSE]
  <2>1. row.version \in Nat \ {0}
    BY <1>4 DEF Projected
  <2>2. \A x, y, z : [[status |-> x, version |-> y, answers |-> z] EXCEPT !.answers = FALSE]
                       = [status |-> x, version |-> y, answers |-> FALSE]
    <3> TAKE x, y, z
    <3> DEFINE record == [status |-> x, version |-> y, answers |-> z]
               fields == [status : {x}, version : {y}, answers : {z, FALSE}]
    <3>1. /\ record \in fields
          /\ record.status = x /\ record.version = y
          /\ [status |-> x, version |-> y, answers |-> FALSE] \in fields
      OBVIOUS
    <3> HIDE DEF record
    <3>2. [record EXCEPT !.answers = FALSE] = [status |-> x, version |-> y, answers |-> FALSE]
      BY <3>1
    <3>3. QED
      BY <3>2 DEF record
  <2>3. after = copy
    BY <1>4, <2>2 DEF Projected
  <2>4. copy.status = row.status /\ copy.version = row.version /\ copy.answers = FALSE
    OBVIOUS
  <2>5. NoRow.version = 0
    BY DEF NoRow
  <2> HIDE DEF after
  <2>6. Projected(copy) /\ copy # NoRow
    BY <2>1, <2>4, <2>5 DEF Projected
  <2>7. QED
    BY <2>3, <2>4, <2>6 DEF after
<1>5. \A a \in mine : Projected(view[a])
  BY DEF Shape
<1> HIDE DEF mine, scrubbed
<1>6. stream' \in [Apps -> Seq(Event)] /\ DOMAIN view' = Apps
  BY <1>1, <1>2, <1>3
<1>7. ASSUME NEW a \in Apps
      PROVE  /\ DOMAIN stream'[a] = DOMAIN stream[a]
             /\ \A i \in DOMAIN stream[a] :
                  /\ stream'[a][i].type = stream[a][i].type
                  /\ stream'[a][i].basis = stream[a][i].basis
  BY <1>1, <1>2, <1>3
<1>8. ASSUME NEW a \in Apps
      PROVE  /\ view'[a] = NoRow <=> view[a] = NoRow
             /\ view[a] # NoRow => Projected(view'[a]) /\ view'[a].status = view[a].status
  <2>1. CASE a \in mine
    <3>1. view'[a] = [view[a] EXCEPT !.answers = FALSE] /\ view[a] # NoRow
      BY <1>1, <2>1 DEF mine
    <3>2. QED
      BY <1>4, <1>5, <2>1, <3>1
  <2>2. CASE a \notin mine
    BY <1>1, <2>2 DEF Shape
  <2>3. QED
    BY <2>1, <2>2
<1>9. QED
  BY <1>1, <1>6, <1>7, <1>8

\* A command that has been accepted is well formed; nothing else moves.
LEMMA LoadEffect ==
  ASSUME Shape, NEW c \in Runners, NEW a \in Apps, Load(c, a) \/ StartDraft(c, a)
  PROVE  /\ UNCHANGED <<stream, view, staged>>
         /\ \E t : Loaded(t) /\ txn' = [txn EXCEPT ![c] = t]
<1>1. CASE Load(c, a)
  <2> DEFINE version == Len(stream[a])
             state == fold(stream[a])
  <2>1. version \in Nat
    BY DEF Shape
  <2>2. PICK seen \in 1..version : \E event \in Emitted(seen, version) :
          /\ handle(state, version, event, seen)
          /\ txn' = [txn EXCEPT ![c] = [app |-> a, version |-> version,
                                        state |-> state, event |-> event]]
    BY <1>1, Zenon DEF Load
  <2>3. PICK event \in Emitted(seen, version) :
          /\ handle(state, version, event, seen)
          /\ txn' = [txn EXCEPT ![c] = [app |-> a, version |-> version,
                                        state |-> state, event |-> event]]
    BY <2>2
  <2> HIDE DEF version, state
  <2>4. event \in Event /\ (event.type \in Versioned => event.basis = seen)
    BY <2>1, EmittedType
  <2>5. event.type \in Versioned => seen = version
    BY <2>3 DEF handle
  <2>6. Loaded([app |-> a, version |-> version, state |-> state, event |-> event])
    BY <2>1, <2>4, <2>5 DEF Loaded
  <2>7. QED
    BY <1>1, <2>3, <2>6 DEF Load
<1>2. CASE StartDraft(c, a)
  <2> DEFINE created == [type |-> "draftCreated", outcome |-> "none",
                         answers |-> FALSE, basis |-> 0]
  <2>1. created \in Event /\ created.type \notin Versioned
    BY DEF Event, EventType, StatusAfter, Outcomes, Versioned
  <2>2. txn' = [txn EXCEPT ![c] = [app |-> a, version |-> 0, state |-> INITIAL_STATE,
                                   event |-> created]]
    BY <1>2, Zenon DEF StartDraft
  <2> HIDE DEF created
  <2>3. Loaded([app |-> a, version |-> 0, state |-> INITIAL_STATE, event |-> created])
    BY <2>1 DEF Loaded
  <2>4. QED
    BY <1>2, <2>2, <2>3 DEF StartDraft
<1>3. QED
  BY <1>1, <1>2

(* ----------------------------- Invariants ------------------------------ *)

AppInv == Shape /\ NoBlindWrite /\ OneOpenApplication /\ AnnouncedOnce

\* No stream, no row and no event at the start.
LEMMA AppInit == Init => AppInv
  BY DEF Init, AppInv, Shape, NoBlindWrite, OneOpenApplication, AnnouncedOnce

\* A commit appends after the version it loaded, opens an application only
\* where the pair is free, and names its event by the new version.
LEMMA CommitStep ==
  ASSUME AppInv, NEW c \in Runners, Commit(c)
  PROVE  AppInv'
<1> DEFINE t == txn[c]
<1>1. /\ Shape
      /\ t.app \in Apps /\ t.version \in Nat /\ t.event \in Event
      /\ t.event.type \in Versioned => t.event.basis = t.version
      /\ t.version = Len(stream[t.app]) /\ stream[t.app] \in Seq(Event)
      /\ stream' = [stream EXCEPT ![t.app] = Append(@, t.event)]
      /\ staged' = staged \cup {[app |-> t.app, version |-> t.version + 1,
                                 type |-> t.event.type]}
      /\ txn' = [txn EXCEPT ![c] = Idle]
  BY CommitEffect DEF AppInv, Loaded, Shape
<1>2. PICK row : /\ Projected(row)
                 /\ Open(row.status) => PairFree(t.app)
                 /\ view' = [view EXCEPT ![t.app] = row]
  BY CommitEffect DEF AppInv
<1> HIDE DEF t
<1>3. /\ stream'[t.app] \in Seq(Event)
      /\ DOMAIN stream'[t.app] = DOMAIN stream[t.app] \cup {t.version + 1}
      /\ stream'[t.app][t.version + 1] = t.event
      /\ \A i \in DOMAIN stream[t.app] : stream'[t.app][i] = stream[t.app][i]
      /\ t.version + 1 \notin DOMAIN stream[t.app]
      /\ \A a \in Apps \ {t.app} : stream'[a] = stream[a]
  <2>1. stream'[t.app] = Append(stream[t.app], t.event)
    BY <1>1 DEF Shape
  <2>2. QED
    BY <1>1, <2>1, Appended DEF Shape
<1>4. /\ view'[t.app] = row
      /\ \A a \in Apps \ {t.app} : view'[a] = view[a]
  BY <1>1, <1>2 DEF Shape
<1>5. Shape'
  BY <1>1, <1>2, <1>3, <1>4 DEF Shape
<1>6. NoBlindWrite'
  <2> SUFFICES ASSUME NEW a \in Apps, NEW i \in DOMAIN stream'[a],
                      stream'[a][i].type \in Versioned
               PROVE  stream'[a][i].basis = i - 1
    BY DEF NoBlindWrite
  <2>1. CASE a = t.app /\ i = t.version + 1
    BY <1>1, <1>3, <2>1
  <2>2. CASE ~ (a = t.app /\ i = t.version + 1)
    <3>1. i \in DOMAIN stream[a] /\ stream'[a][i] = stream[a][i]
      BY <1>3, <2>2
    <3>2. QED
      BY <3>1 DEF AppInv, NoBlindWrite
  <2>3. QED
    BY <2>1, <2>2
<1>7. OneOpenApplication'
  <2> SUFFICES ASSUME NEW a \in Apps, NEW b \in Apps,
                      a # b, Adopter[a] = Adopter[b], Pet[a] = Pet[b],
                      view'[a] # NoRow, view'[b] # NoRow
               PROVE  ~Open(view'[a].status) \/ ~Open(view'[b].status)
    BY DEF OneOpenApplication, Open
  <2>1. CASE a # t.app /\ b # t.app
    BY <1>4, <2>1 DEF AppInv, OneOpenApplication
  <2>2. CASE a = t.app \/ b = t.app
    BY <1>2, <1>4, <2>2 DEF PairFree
  <2>3. QED
    BY <2>1, <2>2
<1>8. AnnouncedOnce'
  <2> DEFINE new == [app |-> t.app, version |-> t.version + 1, type |-> t.event.type]
  <2>1. new.app = t.app /\ new.version = t.version + 1 /\ new.type = t.event.type
    OBVIOUS
  <2>2. staged' = staged \cup {new}
    BY <1>1
  <2> HIDE DEF new
  <2>3. ASSUME NEW a \in Apps
        PROVE  {e.version : e \in {s \in staged' : s.app = a}} = DOMAIN stream'[a]
    <3>1. {e.version : e \in {s \in staged : s.app = a}} = DOMAIN stream[a]
      BY DEF AppInv, AnnouncedOnce
    <3>2. CASE a = t.app
      <4>1. {e.version : e \in {s \in staged' : s.app = a}}
              = {e.version : e \in {s \in staged : s.app = a}} \cup {t.version + 1}
        BY <2>1, <2>2, <3>2
      <4>2. QED
        BY <1>3, <3>1, <3>2, <4>1
    <3>3. CASE a # t.app
      <4>1. {s \in staged' : s.app = a} = {s \in staged : s.app = a}
        BY <2>1, <2>2, <3>3
      <4>2. QED
        BY <1>3, <3>1, <3>3, <4>1
    <3>4. QED
      BY <3>2, <3>3
  <2>4. ASSUME NEW a \in Apps, NEW e \in staged', e.app = a
        PROVE  e.type = stream'[a][e.version].type
    <3>1. CASE e = new
      BY <1>3, <2>1, <2>4, <3>1
    <3>2. CASE e \in staged
      <4>1. e.version \in DOMAIN stream[a] /\ e.type = stream[a][e.version].type
        BY <2>4, <3>2 DEF AppInv, AnnouncedOnce
      <4>2. QED
        BY <1>3, <4>1
    <3>3. QED
      BY <2>2, <3>1, <3>2
  <2>5. QED
    BY <2>3, <2>4 DEF AnnouncedOnce
<1>9. QED
  BY <1>5, <1>6, <1>7, <1>8 DEF AppInv

\* An erasure changes nothing the invariant looks at.
LEMMA EraseStep ==
  ASSUME AppInv, NEW user, Erase(user)
  PROVE  AppInv'
<1>1. /\ stream' \in [Apps -> Seq(Event)] /\ DOMAIN view' = Apps
      /\ UNCHANGED <<txn, staged>>
      /\ \A a \in Apps :
           /\ DOMAIN stream'[a] = DOMAIN stream[a]
           /\ \A i \in DOMAIN stream[a] :
                /\ stream'[a][i].type = stream[a][i].type
                /\ stream'[a][i].basis = stream[a][i].basis
           /\ view'[a] = NoRow <=> view[a] = NoRow
           /\ view[a] # NoRow => Projected(view'[a]) /\ view'[a].status = view[a].status
  BY EraseEffect DEF AppInv
<1>2. Shape'
  BY <1>1 DEF AppInv, Shape
<1>3. NoBlindWrite'
  BY <1>1 DEF AppInv, NoBlindWrite
<1>4. OneOpenApplication'
  BY <1>1 DEF AppInv, OneOpenApplication
<1>5. AnnouncedOnce'
  <2>1. \A a \in Apps : \A e \in staged : e.app = a => e.version \in DOMAIN stream[a]
    BY DEF AppInv, AnnouncedOnce
  <2>2. QED
    BY <1>1, <2>1 DEF AppInv, AnnouncedOnce
<1>6. QED
  BY <1>2, <1>3, <1>4, <1>5 DEF AppInv

\* Every step keeps the invariant.
LEMMA AppStep == AppInv /\ [Next]_vars => AppInv'
<1> SUFFICES ASSUME AppInv, [Next]_vars PROVE AppInv'
  OBVIOUS
<1>1. ASSUME NEW c \in Runners, UNCHANGED <<stream, view, staged>>,
             \E t : (t = Idle \/ Loaded(t)) /\ txn' = [txn EXCEPT ![c] = t]
      PROVE  AppInv'
  <2>1. Shape'
    BY <1>1 DEF AppInv, Shape
  <2>2. QED
    BY <1>1, <2>1 DEF AppInv, NoBlindWrite, OneOpenApplication, AnnouncedOnce
<1>2. ASSUME NEW c \in Runners, NEW a \in Apps, Load(c, a) \/ StartDraft(c, a) PROVE AppInv'
  BY <1>1, <1>2, LoadEffect DEF AppInv
<1>3. ASSUME NEW c \in Runners, Rollback(c) PROVE AppInv'
  BY <1>1, <1>3 DEF Rollback
<1>4. CASE UNCHANGED vars
  BY <1>4 DEF vars, AppInv, Shape, NoBlindWrite, OneOpenApplication, AnnouncedOnce
<1>5. QED
  BY <1>2, <1>3, <1>4, CommitStep, EraseStep DEF Next

\* All of it holds in every reachable state.
LEMMA AppCorrect == Spec => []AppInv
  BY AppInit, AppStep, PTL DEF Spec

\* The (aggregate_id, version) index with the expectedVersion check: an answers
\* patch or a submit is never applied over a version its author had not seen.
THEOREM SeenFirst == Spec => []NoBlindWrite
<1>1. AppInv => NoBlindWrite
  BY DEF AppInv
<1>2. QED
  BY <1>1, AppCorrect, PTL

\* The partial unique index, evaluated by every transaction that projects an
\* open status: never two open applications of one adopter for one pet.
THEOREM OneOpen == Spec => []OneOpenApplication
<1>1. AppInv => OneOpenApplication
  BY DEF AppInv
<1>2. QED
  BY <1>1, AppCorrect, PTL

\* publishWithVersionedId gives each event of each stream an envelope id of its
\* own, in step with the stream.
THEOREM Announced == Spec => []AnnouncedOnce
<1>1. AppInv => AnnouncedOnce
  BY DEF AppInv
<1>2. QED
  BY <1>1, AppCorrect, PTL
=============================================================================
