----------------------------- MODULE RuntimeProof -----------------------------
(***************************************************************************)
(* Proofs about Runtime, for any callers, schedules, Decisions, outputs,   *)
(* budgets and bounds.                                                     *)
(***************************************************************************)
EXTENDS Runtime, FiniteSetTheorems, SequenceTheorems, WellFoundedInduction, TLAPS

---------------------------------------------------------------------------
(* The inductive invariant.                                                *)

RunKinds == {"completed", "failed"}
Events == [kind : {"registered", "revoked", "stopped"} \cup RunKinds, schedule : Schedule,
           value : Decision \cup Output \cup {None}, by : Actor]

\* The steps of one run, of a tick, of a start; all the steps.
RunSteps == {"job", "fail", "complete"}
TickSteps == RunSteps \cup {"list", "next", "stop"}
StartSteps == {"fence", "spawn", "create", "fill", "release"}
Steps == TickSteps \cup StartSteps
             \cup {"idle", "dead", "register", "revoke", "stopping", "waiting", "loop"}

Locals == [pc : Steps, s : Schedule \cup {0}, todo : SUBSET Schedule, view : Nat,
           value : Decision \cup Output \cup {None}, created : BOOLEAN,
           seen : Worker \cup {None}]

Shape ==
    /\ record \in [Schedule -> Decision \cup {None}] /\ revocation \in [Schedule -> BOOLEAN]
    /\ ledger \in Seq(Events)
    /\ proposal \in [Output -> Schedule \cup {None}]
    /\ daemon \in Worker \cup {None, Torn} /\ startLock \in BOOLEAN /\ fence \in Nat
    /\ signalled \subseteq Worker /\ stray \in BOOLEAN /\ cut \subseteq Schedule
    /\ at \in [Actor -> Locals]

\* The schedule s had not ended at the n-th event and had runs left, and a has recorded no
\* run of it since.
Fresh(a, s, n) ==
    /\ n <= Len(ledger)
    /\ ~Ended(s, n) /\ Runs(s, n) < MaxRuns
    /\ \A j \in Of(RunKinds, s, Len(ledger)) : j > n => ledger[j].by # a

\* While no stop has removed a file that is not its own, a start finds daemon.json as it
\* left it, and a worker in a tick is the one it names.
Named(a) ==
    /\ at[a].pc \in {"fence", "spawn", "create"} => daemon = None
    /\ At(a, "fill") => daemon = Torn
    /\ a \in Worker /\ InTick(a) => daemon = a

\* What a process knows by its step.
Knows(a) ==
    /\ at[a].view <= Len(ledger)
    /\ at[a].pc \in RunSteps \cup {"register", "revoke", "stop"} => at[a].s \in Schedule
    /\ at[a].pc \in StartSteps \cup {"register", "revoke", "stopping"} => a \in Caller
    /\ at[a].pc \in {"register", "revoke"} => at[a].value \in Decision
    /\ At(a, "register") => record[at[a].s] = at[a].value
    /\ at[a].pc \in RunSteps => Fresh(a, at[a].s, at[a].view)
    /\ at[a].pc \in StartSteps => startLock
    /\ at[a].pc \in {"spawn", "create", "fill", "stopping"} => at[a].seen \in Worker
    /\ stray \/ Named(a)

\* One process admits a schedule, and one starts a daemon.
Alone ==
    \A a, b \in Actor :
        (\/ At(a, "register") /\ At(b, "register") /\ at[a].s = at[b].s
         \/ at[a].pc \in StartSteps /\ at[b].pc \in StartSteps) => a = b

IInv ==
    /\ Shape
    /\ \A a \in Actor : Knows(a)
    /\ Alone
    /\ RecordHasWitness /\ EndStopsRuns

---------------------------------------------------------------------------
(* Lemmas about the ledger and the local values.                           *)

LEMMA Constants ==
    /\ None # Torn /\ None \notin Worker /\ Torn \notin Worker /\ None \notin Decision
    /\ NumSchedules \in Nat /\ MaxStarts \in Nat /\ MaxRuns \in Nat \ {0}
    /\ \A a \in Actor : a \in Caller => a \notin Worker
BY RuntimeAssumption

LEMMA IdleType ==
    /\ Idle \in Locals /\ Idle.pc = "idle" /\ Idle.view = 0
    /\ Dead \in Locals /\ Dead.pc = "dead" /\ Dead.view = 0
<1>1. {"idle", "dead"} \subseteq Steps
  BY DEF Steps
<1> QED
  BY <1>1 DEF Idle, Dead, Locals

\* An append adds one event and changes none.
LEMMA LedgerAppend ==
    ASSUME Shape, NEW event \in Events, ledger' = Append(ledger, event)
    PROVE  /\ ledger' \in Seq(Events)
           /\ Len(ledger) \in Nat /\ Len(ledger') = Len(ledger) + 1
           /\ \A i \in 1..Len(ledger) : ledger'[i] = ledger[i]
           /\ ledger'[Len(ledger) + 1] = event
BY AppendProperties DEF Shape

Grows ==
    /\ Len(ledger) \in Nat /\ Len(ledger') \in Nat /\ Len(ledger) <= Len(ledger')
    /\ \A i \in 1..Len(ledger) : ledger'[i] = ledger[i]

\* a appends nothing, or an event that is no run but the one it is underway with.
Appends(a, event) ==
    /\ ledger' = Append(ledger, event)
    /\ event.kind \in RunKinds =>
         at[a].pc \in RunSteps /\ event.by = a /\ event.schedule = at[a].s

Emits(a) == ledger' = ledger \/ \E event \in Events : Appends(a, event)

LEMMA EmitsGrows ==
    ASSUME Shape, NEW a \in Actor, Emits(a)
    PROVE  Grows /\ ledger' \in Seq(Events)
<1>1. CASE ledger' = ledger
  BY <1>1, LenProperties DEF Shape, Grows
<1>2. ASSUME NEW event \in Events, Appends(a, event) PROVE Grows /\ ledger' \in Seq(Events)
  BY <1>2, LedgerAppend DEF Appends, Grows
<1> QED
  BY <1>1, <1>2 DEF Emits

\* What the first n events say is said for ever.
LEMMA PrefixKept ==
    ASSUME Grows, NEW n \in Nat, n <= Len(ledger), NEW s, NEW kinds
    PROVE  Of(kinds, s, n)' = Of(kinds, s, n)
<1>1. \A i \in 1..n : i \in 1..Len(ledger)
  BY DEF Grows
<1> QED
  BY <1>1 DEF Of, Grows

\* The events of some kinds are finitely many, and of a prefix no more.
LEMMA OfFinite ==
    ASSUME NEW n \in Nat, NEW m \in Nat, m <= n, NEW s, NEW kinds
    PROVE  /\ IsFiniteSet(Of(kinds, s, n)) /\ Of(kinds, s, n) \subseteq 1..n
           /\ Of(kinds, s, m) \subseteq Of(kinds, s, n)
           /\ Cardinality(Of(kinds, s, m)) <= Cardinality(Of(kinds, s, n))
<1>1. IsFiniteSet(1..n)
  BY FS_Interval
<1>2. Of(kinds, s, n) \subseteq 1..n /\ Of(kinds, s, m) \subseteq Of(kinds, s, n)
  BY DEF Of
<1> QED
  BY <1>1, <1>2, FS_Subset

\* Where the schedule has not ended and has runs left, its end is later.
LEMMA EndIsLater ==
    ASSUME NEW s, NEW n \in Nat, NEW i \in Nat, ~Ended(s, n), Runs(s, n) < MaxRuns,
           i \in Of({"revoked", "stopped", "completed", "failed"}, s, Len(ledger)),
           ledger[i].kind \in {"revoked", "stopped"} \/ Runs(s, i) >= MaxRuns
    PROVE  i > n
<1> SUFFICES ASSUME i <= n PROVE FALSE
  OBVIOUS
<1>1. CASE ledger[i].kind \in {"revoked", "stopped"}
  <2>1. i \in Of({"revoked", "stopped"}, s, n)
    BY <1>1 DEF Of
  <2> QED
    BY <2>1 DEF Ended
<1>2. CASE Runs(s, i) >= MaxRuns
  <2>1. Cardinality(Of({"completed", "failed"}, s, i)) <= Cardinality(Of({"completed", "failed"}, s, n))
    BY OfFinite
  <2>2. /\ Cardinality(Of({"completed", "failed"}, s, i)) \in Nat
        /\ Cardinality(Of({"completed", "failed"}, s, n)) \in Nat
    BY OfFinite, FS_CardinalityType
  <2> QED
    BY <1>2, <2>1, <2>2, Constants DEF Runs
<1> QED
  BY <1>1, <1>2

---------------------------------------------------------------------------
(* How the local values of a process change.                               *)

\* Only a moves.
Moves(a) == at' \in [Actor -> Locals] /\ \A b \in Actor \ {a} : at'[b] = at[b]

LEMMA Became ==
    ASSUME Shape, NEW a \in Actor, NEW new \in Locals, at' = [at EXCEPT ![a] = new]
    PROVE  Moves(a) /\ at'[a] = new
BY DEF Shape, Moves

LEMMA WentTo ==
    ASSUME Shape, NEW a \in Actor, NEW pc \in Steps, Goto(a, pc)
    PROVE  Moves(a) /\ at'[a] = [at[a] EXCEPT !.pc = pc]
<1> DEFINE new == [at[a] EXCEPT !.pc = pc]
<1>1. new \in Locals
  BY DEF Shape, Locals
<1>2. at' = [at EXCEPT ![a] = new]
  BY DEF Goto
<1> HIDE DEF new
<1>3. Moves(a) /\ at'[a] = new
  BY <1>1, <1>2, Became
<1> QED
  BY <1>3 DEF new

LEMMA Left ==
    ASSUME Shape, NEW a \in Actor, Leave(a)
    PROVE  Moves(a) /\ at'[a].pc \in {"idle", "dead"} /\ at'[a].view = 0
<1> DEFINE new == IF a \in Worker THEN Dead ELSE Idle
<1>1. new \in Locals /\ new.pc \in {"idle", "dead"} /\ new.view = 0
  BY IdleType
<1>2. at' = [at EXCEPT ![a] = new]
  BY DEF Leave
<1> HIDE DEF new
<1> QED
  BY <1>1, <1>2, Became

\* A process outside a call and a tick knows nothing.
LEMMA AtRest ==
    ASSUME Shape', NEW a \in Actor, at'[a].view = 0,
           at'[a].pc \in {"idle", "dead", "waiting", "loop"}
    PROVE  Knows(a)'
<1>1. Len(ledger') \in Nat
  BY LenProperties DEF Shape
<1>2. ~InTick(a)' /\ at'[a].pc \notin RunSteps \cup StartSteps
  BY DEF InTick, RunSteps, StartSteps
<1> QED
  BY <1>1, <1>2 DEF Knows, Named, At

---------------------------------------------------------------------------
(* What a step of another process leaves true.                             *)

LEMMA FreshKept ==
    ASSUME Shape, NEW a \in Actor, Emits(a), NEW b \in Actor \ {a},
           NEW s, NEW n \in Nat, Fresh(b, s, n)
    PROVE  Fresh(b, s, n)'
<1>1. Grows
  BY EmitsGrows
<1>2. n <= Len(ledger) /\ n <= Len(ledger')
  BY <1>1 DEF Fresh, Grows
<1>3. ~Ended(s, n)' /\ (Runs(s, n) < MaxRuns)'
  BY <1>1, <1>2, PrefixKept DEF Fresh, Ended, Runs
<1>4. ASSUME NEW j \in Of(RunKinds, s, Len(ledger))', j > n PROVE ledger'[j].by # b
  <2>1. j \in 1..Len(ledger') /\ ledger'[j].kind \in RunKinds /\ ledger'[j].schedule = s
    BY DEF Of
  <2>2. CASE j \in 1..Len(ledger)
    <3>1. ledger'[j] = ledger[j]
      BY <1>1, <2>2 DEF Grows
    <3>2. j \in Of(RunKinds, s, Len(ledger))
      BY <2>1, <2>2, <3>1 DEF Of
    <3> QED
      BY <1>4, <3>1, <3>2 DEF Fresh
  <2>3. CASE j \notin 1..Len(ledger)
    <3>1. PICK event \in Events : Appends(a, event)
      BY <2>1, <2>3 DEF Emits
    <3>2. j = Len(ledger) + 1 /\ ledger'[j] = event
      BY <2>1, <2>3, <3>1, LedgerAppend DEF Appends
    <3> QED
      BY <2>1, <3>1, <3>2 DEF Appends
  <2> QED
    BY <2>2, <2>3
<1> QED
  BY <1>2, <1>3, <1>4 DEF Fresh

LEMMA OthersKnow ==
    ASSUME Shape, Shape', NEW a \in Actor, Emits(a), NEW b \in Actor \ {a}, Knows(b),
           at'[b] = at[b],
           At(b, "register") => record'[at[b].s] = record[at[b].s],
           at[b].pc \in StartSteps => startLock',
           stray' \/ Named(b)'
    PROVE  Knows(b)'
<1>1. Grows
  BY EmitsGrows
<1>2. at[b].view \in Nat
  BY DEF Shape, Locals
<1>3. at[b].view <= Len(ledger')
  BY <1>1, <1>2 DEF Knows, Grows
<1>4. at[b].pc \in RunSteps => (Fresh(b, at[b].s, at[b].view))'
  <2>1. PICK s, n : s = at[b].s /\ n = at[b].view
    OBVIOUS
  <2>2. at[b].pc \in RunSteps => Fresh(b, s, n)'
    BY <1>2, <2>1, FreshKept DEF Knows
  <2>3. s = at'[b].s /\ n = at'[b].view
    BY <2>1
  <2> QED
    BY <2>2, <2>3
<1> QED
  BY <1>3, <1>4 DEF Knows, At

\* A record keeps its witness, and its process the admission that is under way.
LEMMA WitnessKept ==
    ASSUME Shape, Shape', RecordHasWitness, Grows, cut \subseteq cut', NEW s \in Schedule,
           record'[s] = record[s],
           \A p \in Caller : At(p, "register") /\ at[p].s = s => at'[p] = at[p] \/ s \in cut'
    PROVE  (record[s] # None /\ ~Witnessed(s, Len(ledger)))' =>
              s \in cut' \/ \E p \in Caller : (At(p, "register") /\ at[p].s = s)'
<1>1. Witnessed(s, Len(ledger)) => Witnessed(s, Len(ledger))'
  BY DEF Witnessed, Of, Grows
<1> QED
  BY <1>1 DEF RecordHasWitness, At

\* A process that is underway records its run after the schedule's end at most once.
LEMMA EndsKept ==
    ASSUME IInv, NEW a \in Actor, Emits(a)
    PROVE  EndStopsRuns'
<1>1. Grows
  BY EmitsGrows DEF IInv
<1>2. SUFFICES ASSUME NEW s \in Schedule,
                      NEW i \in Of({"revoked", "stopped", "completed", "failed"}, s, Len(ledger))',
                      ledger'[i].kind \in {"revoked", "stopped"} \/ (Runs(s, i) >= MaxRuns)',
                      NEW b \in Actor
               PROVE  Cardinality({j \in Of(RunKinds, s, Len(ledger))' :
                                      j > i /\ ledger'[j].by = b}) <= 1
  BY DEF EndStopsRuns, RunKinds
<1> DEFINE Before == {j \in Of(RunKinds, s, Len(ledger)) : j > i /\ ledger[j].by = b}
           After == {j \in Of(RunKinds, s, Len(ledger))' : j > i /\ ledger'[j].by = b}
<1>3. i \in 1..Len(ledger') /\ ledger'[i].schedule = s
  BY DEF Of
<1>4. ASSUME NEW j \in After
      PROVE  j \in 1..Len(ledger') /\ j > i /\ ledger'[j].kind \in RunKinds
             /\ ledger'[j].schedule = s /\ ledger'[j].by = b
  BY DEF Of
<1>5. ASSUME NEW j \in After, j \in 1..Len(ledger) PROVE j \in Before
  BY <1>1, <1>4, <1>5 DEF Of, Grows
<1>8. SUFFICES Cardinality(After) <= 1
  OBVIOUS
<1>6. CASE i \notin 1..Len(ledger)
  <2>1. PICK event \in Events : Appends(a, event)
    BY <1>3, <1>6 DEF Emits
  <2>2. Len(ledger') = Len(ledger) + 1 /\ Len(ledger) \in Nat
    BY <2>1, LedgerAppend DEF Appends, IInv
  <2>3. i = Len(ledger')
    BY <1>3, <1>6, <2>2
  <2>4. After = {}
    BY <1>4, <2>3
  <2> HIDE DEF After
  <2> QED
    BY <2>4, FS_EmptySet
<1>7. CASE i \in 1..Len(ledger)
  <2>1. i \in Of({"revoked", "stopped", "completed", "failed"}, s, Len(ledger))
    BY <1>1, <1>7 DEF Of, Grows
  <2>2. Len(ledger) \in Nat /\ i \in Nat /\ i <= Len(ledger)
    BY <1>1, <1>7 DEF Grows
  <2>3. ledger'[i] = ledger[i] /\ Runs(s, i)' = Runs(s, i)
    BY <1>1, <1>7, <2>2, PrefixKept DEF Runs, Grows
  <2>4. ledger[i].kind \in {"revoked", "stopped"} \/ Runs(s, i) >= MaxRuns
    BY <1>2, <2>3
  <2>5. Cardinality(Before) <= 1
    BY <2>1, <2>4 DEF IInv, EndStopsRuns, RunKinds
  <2>6. CASE After \subseteq Before
    <3>1. IsFiniteSet(Before)
      BY <2>2, OfFinite, FS_Subset
    <3>2. Cardinality(After) <= Cardinality(Before) /\ Cardinality(Before) \in Nat
          /\ Cardinality(After) \in Nat
      BY <2>6, <3>1, FS_Subset, FS_CardinalityType
    <3> HIDE DEF Before, After
    <3> QED
      BY <2>5, <3>2
  <2>7. CASE ~(After \subseteq Before)
    <3>1. PICK k \in After : k \notin 1..Len(ledger)
      BY <1>5, <2>7
    <3>2. PICK event \in Events : Appends(a, event)
      BY <1>4, <3>1 DEF Emits
    <3>3. Len(ledger') = Len(ledger) + 1 /\ ledger'[Len(ledger) + 1] = event
      BY <3>2, LedgerAppend DEF Appends, IInv
    <3>4. k = Len(ledger) + 1 /\ \A j \in After : j # k => j \in Before
      BY <1>4, <1>5, <2>2, <3>1, <3>3
    <3>5. event.kind \in RunKinds /\ event.schedule = s /\ event.by = b
      BY <1>4, <3>3, <3>4
    <3>6. b = a /\ at[a].s = s /\ at[a].pc \in RunSteps
      BY <3>2, <3>5 DEF Appends
    <3>7. Fresh(a, s, at[a].view) /\ at[a].view \in Nat
      BY <3>6 DEF IInv, Knows, Shape, Locals
    <3>8. i > at[a].view
      BY <2>1, <2>2, <2>4, <3>7, EndIsLater DEF Fresh
    <3>9. Before = {}
      BY <2>2, <3>6, <3>7, <3>8 DEF Fresh, Of
    <3>10. After = {k}
      BY <3>1, <3>4, <3>9
    <3>11. Cardinality({k}) = 1
      BY FS_Singleton
    <3> HIDE DEF After
    <3> QED
      BY <3>10, <3>11
  <2> QED
    BY <2>6, <2>7
<1> QED
  BY <1>6, <1>7

---------------------------------------------------------------------------
(* The steps that leave the records and the daemon's files alone.          *)

\* a moves, may append its event, admits nothing and starts no daemon, and is cut short
\* where it was admitting.
LEMMA StepKeeps ==
    ASSUME IInv, NEW a \in Actor, Moves(a), Emits(a), Shape', Knows(a)',
           record' = record, cut \subseteq cut',
           At(a, "register") => at[a].s \in cut', ~At(a, "register")',
           at'[a].pc \in StartSteps => at[a].pc \in StartSteps,
           UNCHANGED <<daemon, startLock, stray>>
    PROVE  IInv'
<1>1. ASSUME NEW b \in Actor \ {a} PROVE Knows(b)'
  <2>1. at'[b] = at[b]
    BY DEF Moves
  <2>2. stray' \/ Named(b)'
    BY <2>1 DEF IInv, Knows, Named, At, InTick
  <2> QED
    BY <2>1, <2>2, OthersKnow DEF IInv, Knows
<1>2. RecordHasWitness'
  <2>1. Grows
    BY EmitsGrows DEF IInv
  <2> SUFFICES ASSUME NEW s \in Schedule
               PROVE  (record[s] # None /\ ~Witnessed(s, Len(ledger)))' =>
                         s \in cut' \/ \E p \in Caller : (At(p, "register") /\ at[p].s = s)'
    BY DEF RecordHasWitness
  <2>2. \A p \in Caller : At(p, "register") /\ at[p].s = s => at'[p] = at[p] \/ s \in cut'
    BY DEF Moves, Actor
  <2> QED
    BY <2>1, <2>2, WitnessKept DEF IInv
<1>3. Alone'
  BY DEF IInv, Alone, Moves, At
<1> QED
  BY <1>1, <1>2, <1>3, EndsKept DEF IInv

\* Of the rest of the state, only what has no part in the invariant may change.
Typed ==
    /\ revocation' \in [Schedule -> BOOLEAN] /\ proposal' \in [Output -> Schedule \cup {None}]
    /\ fence' \in Nat /\ signalled' \subseteq Worker

LEMMA ShapeKept ==
    ASSUME Shape, NEW a \in Actor, Moves(a), Emits(a), Typed,
           UNCHANGED <<record, daemon, startLock, stray>>, cut' \subseteq Schedule
    PROVE  Shape'
BY EmitsGrows DEF Shape, Moves, Typed

\* A step that reads, decides and goes on, and one that leaves.
LEMMA ReadStep ==
    ASSUME IInv, NEW a \in Actor, Moves(a), Emits(a), Typed, Shape' => Knows(a)',
           ~At(a, "register"), ~At(a, "register")',
           at'[a].pc \in StartSteps => at[a].pc \in StartSteps,
           UNCHANGED <<record, daemon, startLock, stray, cut>>
    PROVE  IInv'
BY ShapeKept, StepKeeps DEF IInv, Shape

LEMMA RestStep ==
    ASSUME IInv, NEW a \in Actor, Moves(a), Emits(a), Typed, ~At(a, "register"),
           at'[a].pc \in {"idle", "dead", "waiting", "loop"}, at'[a].view = 0,
           UNCHANGED <<record, daemon, startLock, stray, cut>>
    PROVE  IInv'
BY ReadStep, AtRest DEF StartSteps, At

\* The events are of their types.
LEMMA EventType ==
    ASSUME NEW kind \in {"registered", "revoked", "stopped"} \cup RunKinds, NEW s \in Schedule,
           NEW value \in Decision \cup Output \cup {None}, NEW by \in Actor
    PROVE  /\ Event(kind, s, value, by) \in Events
           /\ Event(kind, s, value, by).kind = kind
           /\ Event(kind, s, value, by).schedule = s
           /\ Event(kind, s, value, by).value = value
           /\ Event(kind, s, value, by).by = by
BY DEF Event, Events

---------------------------------------------------------------------------
(* Schedules.                                                              *)

\* The record of one schedule changes, which no other process is admitting.
LEMMA RecordStep ==
    ASSUME IInv, NEW p \in Caller, NEW s \in Schedule, Moves(p), Emits(p), Shape', Knows(p)',
           \A t \in Schedule \ {s} : record'[t] = record[t],
           \A b \in Actor \ {p} : ~(At(b, "register") /\ at[b].s = s),
           At(p, "register") => at[p].s = s,
           At(p, "register")' => at'[p].s = s,
           record'[s] = None \/ Witnessed(s, Len(ledger))' \/ At(p, "register")',
           at'[p].pc \notin StartSteps,
           UNCHANGED <<daemon, startLock, stray, cut>>
    PROVE  IInv'
<1>1. p \in Actor /\ Grows
  BY EmitsGrows DEF Actor, IInv
<1>2. ASSUME NEW b \in Actor \ {p} PROVE Knows(b)'
  <2>1. at'[b] = at[b] /\ Knows(b)
    BY DEF Moves, IInv
  <2>2. stray' \/ Named(b)'
    BY <2>1 DEF Knows, Named, At, InTick
  <2>3. At(b, "register") => record'[at[b].s] = record[at[b].s]
    BY <2>1 DEF Knows, At
  <2>4. at[b].pc \in StartSteps => startLock'
    BY <2>1 DEF Knows
  <2> QED
    BY <1>1, <2>1, <2>2, <2>3, <2>4, OthersKnow DEF IInv
<1>3. Alone'
  BY DEF IInv, Alone, Moves, At
<1>4. RecordHasWitness'
  <2> SUFFICES ASSUME NEW t \in Schedule
               PROVE  (record[t] # None /\ ~Witnessed(t, Len(ledger)))' =>
                         t \in cut' \/ \E q \in Caller : (At(q, "register") /\ at[q].s = t)'
    BY DEF RecordHasWitness
  <2>1. CASE t = s
    BY <2>1 DEF At
  <2>2. CASE t # s
    <3>1. \A q \in Caller : At(q, "register") /\ at[q].s = t => at'[q] = at[q] \/ t \in cut'
      BY <2>2 DEF Moves, At, Actor
    <3> QED
      BY <1>1, <2>2, <3>1, WitnessKept DEF IInv
  <2> QED
    BY <2>1, <2>2
<1> QED
  BY <1>1, <1>2, <1>3, <1>4, EndsKept DEF IInv

LEMMA AdmitStep ==
    ASSUME IInv, NEW p \in Caller, NEW s \in Schedule, NEW d \in Decision, Admit(p, s, d)
    PROVE  IInv'
<1> DEFINE new == [Idle EXCEPT !.pc = "register", !.s = s, !.value = d]
<1>1. p \in Actor /\ Shape /\ p \notin Worker
  BY Constants DEF Actor, IInv
<1>2. new \in Locals /\ new.pc = "register" /\ new.s = s /\ new.value = d /\ new.view = 0
  <2>1. "register" \in Steps
    BY DEF Steps
  <2> QED
    BY <2>1, IdleType DEF Idle, Locals
<1>3. at' = [at EXCEPT ![p] = new]
  BY DEF Admit
<1> HIDE DEF new
<1>4. Moves(p) /\ at'[p] = new
  BY <1>1, <1>2, <1>3, Became
<1>5. UNCHANGED <<ledger, daemon, startLock, fence, signalled, stray, cut, revocation, proposal>>
      /\ record' = [record EXCEPT ![s] = d] /\ record[s] = None /\ At(p, "idle")
  BY DEF Admit, Begin, daemonVars
<1>6. Shape' /\ record'[s] = d /\ \A t \in Schedule \ {s} : record'[t] = record[t]
  BY <1>1, <1>4, <1>5 DEF Shape, Moves
<1>7. Emits(p) /\ Len(ledger') \in Nat
  BY <1>1, <1>5, LenProperties DEF Emits, Shape
<1>8. \A b \in Actor : At(b, "register") => at[b].s # s
  BY <1>5, Constants DEF IInv, Knows, At
<1>9. at'[p].pc = "register" /\ at'[p].pc \notin RunSteps \cup StartSteps
  BY <1>2, <1>4 DEF RunSteps, StartSteps
<1>10. at'[p].s = s /\ at'[p].value = d /\ at'[p].view = 0
  BY <1>2, <1>4
<1>11. Knows(p)'
  <2>1. Named(p)'
    BY <1>1, <1>9 DEF Named, At
  <2> QED
    BY <1>6, <1>7, <1>9, <1>10, <2>1 DEF Knows, At
<1> QED
  BY <1>4, <1>5, <1>6, <1>7, <1>8, <1>9, <1>10, <1>11, RecordStep DEF At

LEMMA RegisterStep ==
    ASSUME IInv, NEW p \in Caller, Register(p)
    PROVE  IInv'
<1>1. p \in Actor /\ Shape /\ At(p, "register") /\ Knows(p)
  BY DEF Actor, IInv, Register
<1>2. Moves(p) /\ at'[p].pc \in {"idle", "dead"} /\ at'[p].view = 0
  BY <1>1, Left DEF Register
<1>3. UNCHANGED <<daemon, startLock, fence, signalled, stray, cut, revocation, proposal>>
  BY DEF Register, daemonVars
<1>4. PICK s \in Schedule : s = at[p].s
  BY <1>1 DEF Knows, At
<1>5. record[s] = at[p].value /\ at[p].value \in Decision
  BY <1>1, <1>4 DEF Knows, At
<1>6. \A b \in Actor \ {p} : ~(At(b, "register") /\ at[b].s = s)
  BY <1>1, <1>4 DEF IInv, Alone
<1>7. Emits(p) /\ Typed
  <2>1. CASE ledger' = ledger
    BY <1>1, <1>3, <2>1 DEF Emits, Shape, Typed
  <2>2. CASE ledger' = Append(ledger, Event("registered", s, at[p].value, p))
    <3>1. Appends(p, Event("registered", s, at[p].value, p))
      BY <1>1, <1>5, <2>2, EventType DEF Appends, RunKinds
    <3> QED
      BY <1>1, <1>3, <1>5, <3>1, EventType DEF Emits, Shape, Typed
  <2> QED
    BY <1>4, <2>1, <2>2 DEF Register
<1>8. /\ \A t \in Schedule \ {s} : record'[t] = record[t]
      /\ record' \in [Schedule -> Decision \cup {None}]
      /\ record'[s] = None \/ Witnessed(s, Len(ledger))'
  <2>1. CASE record' = [record EXCEPT ![s] = None]
    BY <1>1, <2>1 DEF Shape
  <2>2. CASE record' = record /\ ledger' = Append(ledger, Event("registered", s, at[p].value, p))
    <3>1. /\ Len(ledger') = Len(ledger) + 1 /\ Len(ledger) \in Nat
          /\ ledger'[Len(ledger) + 1] = Event("registered", s, at[p].value, p)
      BY <1>1, <1>5, <2>2, LedgerAppend, EventType
    <3>2. Witnessed(s, Len(ledger))'
      BY <1>1, <1>5, <2>2, <3>1, EventType DEF Witnessed, Of
    <3> QED
      BY <1>1, <2>2, <3>2 DEF Shape
  <2> QED
    BY <1>4, <2>1, <2>2 DEF Register
<1>9. Shape'
  BY <1>1, <1>2, <1>3, <1>7, <1>8, EmitsGrows DEF Shape, Moves, Typed
<1>10. Knows(p)' /\ at'[p].pc \notin StartSteps /\ ~At(p, "register")'
  BY <1>1, <1>2, <1>9, AtRest DEF StartSteps, At
<1> QED
  BY <1>2, <1>3, <1>4, <1>6, <1>7, <1>8, <1>9, <1>10, RecordStep

LEMMA RevokeStep ==
    ASSUME IInv, NEW p \in Caller, NEW s \in Schedule, NEW d \in Decision, Revoke(p, s, d)
    PROVE  IInv'
<1> DEFINE new == [Idle EXCEPT !.pc = "revoke", !.s = s, !.value = d]
<1>1. p \in Actor /\ Shape /\ p \notin Worker
  BY Constants DEF Actor, IInv
<1>2. new \in Locals /\ new.pc = "revoke" /\ new.s = s /\ new.value = d /\ new.view = 0
  <2>1. "revoke" \in Steps
    BY DEF Steps
  <2> QED
    BY <2>1, IdleType DEF Idle, Locals
<1>3. at' = [at EXCEPT ![p] = new]
  BY DEF Revoke
<1> HIDE DEF new
<1>4. Moves(p) /\ at'[p] = new
  BY <1>1, <1>2, <1>3, Became
<1>5. UNCHANGED <<record, ledger, daemon, startLock, fence, signalled, stray, cut, proposal>>
      /\ revocation' = [revocation EXCEPT ![s] = TRUE] /\ At(p, "idle")
  BY DEF Revoke, Begin, daemonVars
<1>6. Typed /\ Emits(p) /\ Len(ledger') \in Nat
  BY <1>1, <1>5, LenProperties DEF Typed, Emits, Shape
<1>7. at'[p].pc = "revoke" /\ at'[p].pc \notin RunSteps \cup StartSteps
  BY <1>2, <1>4 DEF RunSteps, StartSteps
<1>8. at'[p].s = s /\ at'[p].value = d /\ at'[p].view = 0
  BY <1>2, <1>4
<1>9. Knows(p)'
  <2>1. Named(p)'
    BY <1>1, <1>7 DEF Named, At
  <2> QED
    BY <1>6, <1>7, <1>8, <2>1 DEF Knows, At
<1> QED
  BY <1>1, <1>4, <1>5, <1>6, <1>7, <1>9, ReadStep DEF At

LEMMA AppendRevocationStep ==
    ASSUME IInv, NEW p \in Caller, AppendRevocation(p)
    PROVE  IInv'
<1>1. p \in Actor /\ Shape /\ At(p, "revoke") /\ Knows(p)
  BY DEF Actor, IInv, AppendRevocation
<1>2. Moves(p) /\ at'[p].pc \in {"idle", "dead"} /\ at'[p].view = 0
  BY <1>1, Left DEF AppendRevocation
<1>3. UNCHANGED <<record, daemon, startLock, fence, signalled, stray, cut, proposal>>
  BY DEF AppendRevocation, daemonVars
<1>4. at[p].s \in Schedule /\ at[p].value \in Decision
  BY <1>1 DEF Knows, At
<1>5. Emits(p)
  <2>1. CASE ledger' = Append(ledger, Event("revoked", at[p].s, at[p].value, p))
    <3>1. Appends(p, Event("revoked", at[p].s, at[p].value, p))
      BY <1>1, <1>4, <2>1, EventType DEF Appends, RunKinds
    <3> QED
      BY <1>1, <1>4, <3>1, EventType DEF Emits
  <2> QED
    BY <2>1 DEF AppendRevocation, Emits
<1>6. Typed
  BY <1>1, <1>3 DEF AppendRevocation, Typed, Shape
<1> QED
  BY <1>1, <1>2, <1>3, <1>5, <1>6, RestStep DEF At

---------------------------------------------------------------------------
(* Ticks.                                                                  *)

Untouched == UNCHANGED <<record, daemon, startLock, stray, cut>>

\* A tick begins, of a command or of the worker that daemon.json names.
LEMMA TickBegins ==
    ASSUME IInv, NEW a \in Actor, Ticking(a), ~At(a, "register"), a \in Worker => daemon = a,
           UNCHANGED <<scheduleVars, ledger, daemonVars>>
    PROVE  IInv'
<1> DEFINE new == [Idle EXCEPT !.pc = "list", !.view = Len(ledger)]
<1>1. Shape /\ Len(ledger) \in Nat
  BY LenProperties DEF IInv, Shape
<1>2. new \in Locals /\ new.pc = "list" /\ new.view = Len(ledger)
  <2>1. "list" \in Steps
    BY DEF Steps, TickSteps
  <2> QED
    BY <1>1, <2>1, IdleType DEF Idle, Locals
<1>3. at' = [at EXCEPT ![a] = new]
  BY DEF Ticking
<1> HIDE DEF new
<1>4. Moves(a) /\ at'[a] = new
  BY <1>1, <1>2, <1>3, Became
<1>5. Typed /\ Emits(a) /\ Untouched /\ ledger' = ledger
  BY <1>1 DEF Typed, Emits, Untouched, Shape, scheduleVars, daemonVars
<1>6. at'[a].pc = "list" /\ at'[a].pc \notin RunSteps \cup StartSteps /\ at'[a].view = Len(ledger)
  BY <1>2, <1>4 DEF RunSteps, StartSteps
<1>7. Knows(a)'
  <2>1. Named(a)'
    BY <1>5, <1>6 DEF Named, At, Untouched
  <2> QED
    BY <1>1, <1>5, <1>6, <2>1 DEF Knows, At
<1> QED
  BY <1>4, <1>5, <1>6, <1>7, ReadStep DEF At, Untouched

LEMMA TickStarts == ASSUME IInv, NEW p \in Caller, Tick(p) PROVE IInv'
BY TickBegins, Constants DEF Tick, Begin, At, Actor

LEMMA WorkerTickStarts == ASSUME IInv, NEW w \in Worker, WorkerTick(w) PROVE IInv'
BY TickBegins DEF WorkerTick, At, Actor, Owns

\* Within a tick a process goes on to another of its steps.
LEMMA TickGoesOn ==
    ASSUME IInv, NEW a \in Actor, Moves(a), Emits(a), Typed, Untouched,
           at[a].pc \in TickSteps, at'[a].pc \in TickSteps,
           at'[a].view <= Len(ledger'),
           at'[a].pc \in RunSteps \cup {"stop"} => at'[a].s \in Schedule,
           at'[a].pc \in RunSteps => (Fresh(a, at[a].s, at[a].view))'
    PROVE  IInv'
<1>1. InTick(a) /\ ~At(a, "register") /\ ~At(a, "register")' /\ at'[a].pc \notin StartSteps
  BY DEF InTick, At, TickSteps, RunSteps, StartSteps
<1>2. at'[a].pc \notin {"register", "revoke", "stopping", "spawn", "create", "fill"}
  BY DEF TickSteps, RunSteps
<1>3. stray' \/ Named(a)'
  BY <1>1, <1>2 DEF IInv, Knows, Named, At, Untouched, StartSteps
<1>4. Knows(a)'
  BY <1>1, <1>2, <1>3 DEF Knows, At
<1> QED
  BY <1>1, <1>4, ReadStep DEF Untouched

LEMMA ListSchedulesStep == ASSUME IInv, NEW a \in Actor, ListSchedules(a) PROVE IInv'
<1>1. Shape /\ at[a].pc = "list" /\ Len(ledger) \in Nat
  BY LenProperties DEF IInv, ListSchedules, At, Shape
<1>2. Typed /\ Emits(a) /\ Untouched /\ ledger' = ledger
  BY <1>1 DEF ListSchedules, Typed, Emits, Untouched, Shape, scheduleVars, daemonVars
<1>3. CASE Leave(a)
  <2>1. Moves(a) /\ at'[a].pc \in {"idle", "dead"} /\ at'[a].view = 0
    BY <1>1, <1>3, Left
  <2> QED
    BY <1>1, <1>2, <2>1, RestStep DEF At, Untouched
<1>4. CASE at' = [at EXCEPT ![a].pc = "next",
                            ![a].todo = {s \in Schedule : record[s] # None}, ![a].view = 0]
  <2> DEFINE new == [at[a] EXCEPT !.pc = "next", !.todo = {s \in Schedule : record[s] # None},
                                  !.view = 0]
  <2>1. new \in Locals /\ new.pc = "next" /\ new.view = 0
    <3>1. "next" \in Steps /\ at[a] \in Locals
      BY <1>1 DEF Steps, TickSteps, Shape
    <3> QED
      BY <3>1 DEF Locals
  <2>2. at' = [at EXCEPT ![a] = new]
    BY <1>4
  <2> HIDE DEF new
  <2>3. Moves(a) /\ at'[a] = new
    BY <1>1, <2>1, <2>2, Became
  <2> QED
    BY <1>1, <1>2, <2>1, <2>3, TickGoesOn DEF TickSteps, RunSteps
<1> QED
  BY <1>3, <1>4 DEF ListSchedules

\* A set of schedules that is not empty has a first one.
LEMMA FirstSchedule ==
    ASSUME NEW T \in SUBSET Schedule, T # {}
    PROVE  (CHOOSE s \in T : \A t \in T : s <= t) \in T
<1>1. T \subseteq Nat
  BY Constants DEF Schedule
<1>2. PICK s \in T : \A t \in T : ~(<<t, s>> \in OpToRel(<, Nat))
  BY <1>1, WFMin, NatLessThanWellFounded, Zenon
<1>3. \A t \in T : s <= t
  <2> SUFFICES ASSUME NEW t \in T PROVE s <= t
    OBVIOUS
  <2>1. ~(<<t, s>> \in {ss \in Nat \X Nat : ss[1] < ss[2]})
    BY <1>2 DEF OpToRel
  <2> QED
    BY <1>1, <2>1
<1> QED
  BY <1>3

\* A schedule that is fresh when a process turns to it.
LEMMA TurnStep ==
    ASSUME IInv, NEW a \in Actor, NEW s \in Schedule, NEW pc \in {"job", "stop"},
           At(a, "next"), Turn(a, s, pc), ~Ended(s, Len(ledger)),
           pc = "job" => ~Exhausted(Runs(s, Len(ledger)), Proposals(s, Len(ledger))),
           UNCHANGED <<scheduleVars, ledger, daemonVars>>
    PROVE  IInv'
<1> DEFINE new == [at[a] EXCEPT !.pc = pc, !.s = s, !.view = Len(ledger), !.todo = @ \ {s}]
<1>1. Shape /\ Len(ledger) \in Nat
  BY LenProperties DEF IInv, Shape
<1>2. new \in Locals /\ new.pc = pc /\ new.s = s /\ new.view = Len(ledger)
  <2>1. pc \in Steps /\ at[a] \in Locals
    BY <1>1 DEF Steps, TickSteps, RunSteps, Shape
  <2> QED
    BY <1>1, <2>1 DEF Locals
<1>3. at' = [at EXCEPT ![a] = new]
  BY DEF Turn
<1> HIDE DEF new
<1>4. Moves(a) /\ at'[a] = new
  BY <1>1, <1>2, <1>3, Became
<1>5. Typed /\ Emits(a) /\ Untouched /\ ledger' = ledger
  BY <1>1 DEF Typed, Emits, Untouched, Shape, scheduleVars, daemonVars
<1>6. at'[a].pc = pc /\ at'[a].s = s /\ at'[a].view = Len(ledger)
  BY <1>2, <1>4
<1>7. pc = "job" => Fresh(a, s, Len(ledger))
  <2>1. Of(RunKinds, s, Len(ledger)) \subseteq 1..Len(ledger)
    BY <1>1, OfFinite
  <2>2. Runs(s, Len(ledger)) \in Nat
    BY <1>1, OfFinite, FS_CardinalityType DEF Runs
  <2> QED
    BY <1>1, <2>1, <2>2, Constants DEF Fresh, Exhausted
<1>8. pc = "job" => (Fresh(a, at[a].s, at[a].view))'
  <2>1. PICK n : n = Len(ledger)
    OBVIOUS
  <2>2. Fresh(a, s, n) => Fresh(a, s, n)'
    BY <1>5 DEF Fresh, Ended, Runs, Of
  <2>3. at'[a].s = s /\ at'[a].view = n
    BY <1>6, <2>1
  <2> QED
    BY <1>7, <2>1, <2>2, <2>3
<1> QED
  BY <1>1, <1>4, <1>5, <1>6, <1>8, TickGoesOn DEF TickSteps, RunSteps, At

LEMMA NextScheduleStep == ASSUME IInv, NEW a \in Actor, NextSchedule(a) PROVE IInv'
<1> DEFINE s == CHOOSE s \in at[a].todo : \A t \in at[a].todo : s <= t
           Skip == at' = [at EXCEPT ![a].todo = @ \ {s}]
<1>1. Shape /\ at[a].pc = "next" /\ Len(ledger) \in Nat /\ at[a] \in Locals
  BY LenProperties DEF IInv, NextSchedule, At, Shape
<1>2. s \in Schedule
  <2>1. at[a].todo \in SUBSET Schedule /\ at[a].todo # {}
    BY <1>1 DEF NextSchedule, Locals
  <2>2. s \in at[a].todo
    BY <2>1, FirstSchedule
  <2> HIDE DEF s
  <2> QED
    BY <2>1, <2>2
<1>3. \/ Skip
      \/ /\ ~Ended(s, Len(ledger))
         /\ \/ Turn(a, s, "stop")
            \/ ~Exhausted(Runs(s, Len(ledger)), Proposals(s, Len(ledger))) /\ Turn(a, s, "job")
  BY DEF NextSchedule
<1>4. UNCHANGED <<scheduleVars, ledger, daemonVars>>
  BY DEF NextSchedule
<1>5. CASE Skip
  <2> DEFINE new == [at[a] EXCEPT !.todo = @ \ {s}]
  <2>1. new \in Locals /\ new.pc = "next" /\ new.view = at[a].view
    BY <1>1 DEF Locals
  <2>2. at' = [at EXCEPT ![a] = new]
    BY <1>5
  <2> HIDE DEF new
  <2>3. Moves(a) /\ at'[a] = new
    BY <1>1, <2>1, <2>2, Became
  <2>4. Typed /\ Emits(a) /\ Untouched /\ ledger' = ledger
    BY <1>1, <1>4 DEF Typed, Emits, Untouched, Shape, scheduleVars, daemonVars
  <2>5. at[a].view <= Len(ledger)
    BY DEF IInv, Knows
  <2> QED
    BY <1>1, <2>1, <2>3, <2>4, <2>5, TickGoesOn DEF TickSteps, RunSteps
<1> HIDE DEF s, Skip
<1>6. CASE ~Skip
  BY <1>1, <1>2, <1>3, <1>4, <1>6, TurnStep DEF At
<1> QED
  BY <1>5, <1>6

LEMMA RunJobStep == ASSUME IInv, NEW a \in Actor, RunJob(a) PROVE IInv'
<1>1. Shape /\ at[a].pc = "job" /\ Len(ledger) \in Nat /\ at[a] \in Locals
  BY LenProperties DEF IInv, RunJob, At, Shape
<1>2. /\ UNCHANGED <<record, revocation, ledger, daemonVars>>
      /\ proposal' \in [Output -> Schedule \cup {None}]
  <2>1. at[a].s \in Schedule
    BY <1>1 DEF IInv, Knows, RunSteps
  <2> QED
    BY <1>1, <2>1 DEF RunJob, Shape
<1>3. Typed /\ Emits(a) /\ Untouched /\ ledger' = ledger
  BY <1>1, <1>2 DEF Typed, Emits, Untouched, Shape, daemonVars
<1>4. ASSUME NEW new \in Locals, new.pc \in {"fail", "complete"}, new.s = at[a].s,
             new.view = at[a].view, at' = [at EXCEPT ![a] = new]
      PROVE  IInv'
  <2>1. Moves(a) /\ at'[a] = new
    BY <1>1, <1>4, Became
  <2>2. Fresh(a, at[a].s, at[a].view) /\ at[a].s \in Schedule /\ at[a].view <= Len(ledger)
    BY <1>1 DEF IInv, Knows, RunSteps
  <2>3. (Fresh(a, at[a].s, at[a].view))'
    <3>1. PICK s, n : s = at[a].s /\ n = at[a].view
      OBVIOUS
    <3>2. Fresh(a, s, n)'
      BY <1>3, <2>2, <3>1 DEF Fresh, Ended, Runs, Of
    <3>3. s = at'[a].s /\ n = at'[a].view
      BY <1>4, <2>1, <3>1
    <3> QED
      BY <3>2, <3>3
  <2> QED
    BY <1>1, <1>3, <1>4, <2>1, <2>2, <2>3, TickGoesOn DEF TickSteps, RunSteps
<1>5. CASE Goto(a, "fail")
  <2> DEFINE new == [at[a] EXCEPT !.pc = "fail"]
  <2>1. new \in Locals /\ new.pc = "fail" /\ new.s = at[a].s /\ new.view = at[a].view
    <3>1. "fail" \in Steps
      BY DEF Steps, TickSteps, RunSteps
    <3> QED
      BY <1>1, <3>1 DEF Locals
  <2>2. at' = [at EXCEPT ![a] = new]
    BY <1>5 DEF Goto
  <2> HIDE DEF new
  <2> QED
    BY <1>4, <2>1, <2>2
<1>6. ASSUME NEW out \in Output, NEW created \in BOOLEAN,
             at' = [at EXCEPT ![a].pc = "complete", ![a].value = out, ![a].created = created]
      PROVE  IInv'
  <2> DEFINE new == [at[a] EXCEPT !.pc = "complete", !.value = out, !.created = created]
  <2>1. new \in Locals /\ new.pc = "complete" /\ new.s = at[a].s /\ new.view = at[a].view
    <3>1. "complete" \in Steps
      BY DEF Steps, TickSteps, RunSteps
    <3> QED
      BY <1>1, <3>1 DEF Locals
  <2>2. at' = [at EXCEPT ![a] = new]
    BY <1>6
  <2> HIDE DEF new
  <2> QED
    BY <1>4, <2>1, <2>2
<1> QED
  BY <1>5, <1>6 DEF RunJob

\* The local values of a process that is done with a schedule.
LEMMA DoneType ==
    ASSUME Shape, NEW a \in Actor
    PROVE  Done(a) \in Locals /\ Done(a).pc = "next" /\ Done(a).view = 0
<1>1. "next" \in Steps /\ at[a] \in Locals
  BY DEF Steps, TickSteps, Shape
<1> QED
  BY <1>1, IdleType DEF Done, Idle, Locals

\* The run, or its failure, or the stop, is recorded.
LEMMA RecordsStep ==
    ASSUME IInv, NEW a \in Actor, NEW kind \in {"stopped"} \cup RunKinds,
           NEW value \in Decision \cup Output \cup {None},
           Emit(Event(kind, at[a].s, value, a)),
           at[a].pc \in RunSteps \cup {"stop"}, kind \in RunKinds => at[a].pc \in RunSteps,
           NEW new \in Locals, at' = [at EXCEPT ![a] = new], new.view = 0,
           new.pc = "next" \/ (new.pc = "stop" /\ new.s \in Schedule),
           UNCHANGED <<scheduleVars, daemonVars>>
    PROVE  IInv'
<1>1. Shape /\ at[a].s \in Schedule
  BY DEF IInv, Knows
<1>2. Moves(a) /\ at'[a] = new
  BY <1>1, Became
<1>3. Emits(a)
  <2>1. CASE ledger' = Append(ledger, Event(kind, at[a].s, value, a))
    <3>1. Event(kind, at[a].s, value, a) \in Events
      BY <1>1, EventType
    <3>2. Appends(a, Event(kind, at[a].s, value, a))
      BY <1>1, <2>1, EventType DEF Appends
    <3> QED
      BY <3>1, <3>2 DEF Emits
  <2> QED
    BY <2>1 DEF Emit, Emits
<1>4. Typed /\ Untouched
  BY <1>1 DEF Typed, Untouched, Shape, scheduleVars, daemonVars
<1>5. Len(ledger') \in Nat
  BY <1>1, <1>3, EmitsGrows DEF Grows
<1> QED
  BY <1>1, <1>2, <1>3, <1>4, <1>5, TickGoesOn DEF TickSteps, RunSteps

LEMMA FailJobStep == ASSUME IInv, NEW a \in Actor, FailJob(a) PROVE IInv'
<1>1. "failed" \in RunKinds /\ at[a].pc \in RunSteps
  BY DEF RunKinds, RunSteps, FailJob, At
<1> QED
  BY <1>1, RecordsStep, DoneType DEF FailJob, IInv

LEMMA StopScheduleStep == ASSUME IInv, NEW a \in Actor, StopSchedule(a) PROVE IInv'
<1>1. "stopped" \notin RunKinds /\ at[a].pc = "stop"
  BY DEF RunKinds, StopSchedule, At
<1> QED
  BY <1>1, RecordsStep, DoneType DEF StopSchedule, IInv

LEMMA CompleteJobStep == ASSUME IInv, NEW a \in Actor, CompleteJob(a) PROVE IInv'
<1>1. "completed" \in RunKinds /\ at[a].pc \in RunSteps /\ Shape
  BY DEF RunKinds, RunSteps, CompleteJob, At, IInv
<1>2. at[a].value \in Decision \cup Output \cup {None} /\ at[a].s \in Schedule
  BY <1>1 DEF IInv, Knows, Shape, Locals
<1>3. /\ Emit(Event("completed", at[a].s, at[a].value, a))
      /\ UNCHANGED <<scheduleVars, daemonVars>>
      /\ \/ at' = [at EXCEPT ![a] = Done(a)]
         \/ at' = [at EXCEPT ![a] = [Done(a) EXCEPT !.pc = "stop", !.s = at[a].s]]
  BY DEF CompleteJob
<1>4. CASE at' = [at EXCEPT ![a] = Done(a)]
  BY <1>1, <1>2, <1>3, <1>4, RecordsStep, DoneType
<1>5. ASSUME NEW new, new = [Done(a) EXCEPT !.pc = "stop", !.s = at[a].s],
             at' = [at EXCEPT ![a] = new]
      PROVE  IInv'
  <2>1. new \in Locals /\ new.pc = "stop" /\ new.view = 0 /\ new.s \in Schedule
    <3>1. "stop" \in Steps
      BY DEF Steps, TickSteps
    <3> QED
      BY <1>1, <1>2, <1>5, <3>1, DoneType DEF Locals
  <2> QED
    BY <1>1, <1>2, <1>3, <1>5, <2>1, RecordsStep
<1> QED
  BY <1>3, <1>4, <1>5

LEMMA EndTickStep == ASSUME IInv, NEW a \in Actor, EndTick(a) PROVE IInv'
<1> DEFINE new == IF a \in Worker THEN [Idle EXCEPT !.pc = "loop"] ELSE Idle
<1>1. Shape /\ at[a].pc = "next"
  BY DEF IInv, EndTick, At
<1>2. new \in Locals /\ new.pc \in {"idle", "loop"} /\ new.view = 0
  <2>1. "loop" \in Steps
    BY DEF Steps
  <2> QED
    BY <2>1, IdleType DEF Locals
<1>3. at' = [at EXCEPT ![a] = new]
  BY DEF EndTick
<1> HIDE DEF new
<1>4. Moves(a) /\ at'[a] = new
  BY <1>1, <1>2, <1>3, Became
<1>5. Typed /\ Emits(a) /\ Untouched
  BY <1>1 DEF EndTick, Typed, Emits, Untouched, Shape, scheduleVars, daemonVars
<1> QED
  BY <1>1, <1>2, <1>4, <1>5, RestStep DEF At, Untouched

---------------------------------------------------------------------------
(* The daemon's files.                                                     *)

\* a starts or stops a daemon: what other processes rely on is left, or no longer is.
LEMMA DaemonStep ==
    ASSUME IInv, NEW a \in Actor, Moves(a), Typed, UNCHANGED <<record, ledger, cut>>,
           daemon' \in Worker \cup {None, Torn}, startLock' \in BOOLEAN, stray' \in BOOLEAN,
           ~At(a, "register"), ~At(a, "register")',
           Shape' => Knows(a)',
           at'[a].pc \in StartSteps => \A b \in Actor \ {a} : at[b].pc \notin StartSteps,
           \A b \in Actor \ {a} : at[b].pc \in StartSteps => startLock',
           stray' \/ \A b \in Actor \ {a} : Named(b)'
    PROVE  IInv'
<1>1. Shape' /\ Emits(a) /\ Grows
  BY LenProperties DEF IInv, Shape, Typed, Moves, Emits, Grows
<1>2. ASSUME NEW b \in Actor \ {a} PROVE Knows(b)'
  <2>1. at'[b] = at[b] /\ Knows(b)
    BY DEF Moves, IInv
  <2> QED
    BY <1>1, <2>1, OthersKnow DEF IInv
<1>3. RecordHasWitness'
  <2> SUFFICES ASSUME NEW s \in Schedule
               PROVE  (record[s] # None /\ ~Witnessed(s, Len(ledger)))' =>
                         s \in cut' \/ \E p \in Caller : (At(p, "register") /\ at[p].s = s)'
    BY DEF RecordHasWitness
  <2>1. \A p \in Caller : At(p, "register") /\ at[p].s = s => at'[p] = at[p] \/ s \in cut'
    BY DEF Moves, Actor
  <2> QED
    BY <1>1, <2>1, WitnessKept DEF IInv
<1>4. Alone'
  BY DEF IInv, Alone, Moves, At
<1> QED
  BY <1>1, <1>2, <1>3, <1>4, EndsKept DEF IInv

\* Where a process starts a daemon, no other does.
LEMMA StartsAlone ==
    ASSUME IInv, NEW a \in Actor, at[a].pc \in StartSteps, NEW b \in Actor \ {a}
    PROVE  at[b].pc \notin StartSteps
BY DEF IInv, Alone

\* A process in no step that relies on daemon.json.
LEMMA NotNamed ==
    ASSUME NEW b \in Actor, at'[b].pc \notin StartSteps, b \notin Worker \/ ~InTick(b)'
    PROVE  Named(b)'
BY DEF Named, At, StartSteps

LEMMA StartStep == ASSUME IInv, NEW p \in Caller, Start(p) PROVE IInv'
<1>1. p \in Actor /\ Shape /\ p \notin Worker /\ at[p].pc = "idle" /\ ~startLock
  BY Constants DEF Actor, IInv, Start, Begin, At
<1>2. Moves(p) /\ at'[p] = [at[p] EXCEPT !.pc = "fence"]
  <2>1. "fence" \in Steps
    BY DEF Steps, StartSteps
  <2> QED
    BY <1>1, <2>1, WentTo DEF Start
<1>3. at'[p].pc = "fence" /\ at'[p].view = at[p].view
  BY <1>1, <1>2 DEF Shape, Locals
<1>4. /\ UNCHANGED <<record, ledger, cut, stray, revocation, proposal, fence, signalled>>
      /\ startLock' = TRUE /\ daemon' = None /\ daemon # Torn /\ (daemon # None => ~Alive(daemon))
  BY DEF Start, Begin, scheduleVars
<1>5. \A b \in Actor : at[b].pc \notin StartSteps
  BY <1>1 DEF IInv, Knows
<1>6. Knows(p)'
  <2>1. Named(p)'
    BY <1>1, <1>3, <1>4 DEF Named, At
  <2>2. at'[p].pc \notin RunSteps
    BY <1>3 DEF RunSteps
  <2> QED
    BY <1>1, <1>3, <1>4, <2>1, <2>2 DEF IInv, Knows, At
<1>7. stray \/ \A b \in Actor \ {p} : Named(b)'
  <2> SUFFICES ASSUME ~stray, NEW b \in Actor \ {p} PROVE Named(b)'
    OBVIOUS
  <2>1. at'[b] = at[b]
    BY <1>2 DEF Moves
  <2>2. b \notin Worker \/ ~InTick(b)
    BY <1>4, Constants DEF IInv, Knows, Named, InTick, Alive
  <2> QED
    BY <1>5, <2>1, <2>2, NotNamed DEF InTick
<1>8. Typed
  BY <1>1, <1>4 DEF Typed, Shape
<1>9. ~At(p, "register") /\ ~At(p, "register")'
  BY <1>1, <1>3 DEF At
<1> QED
  BY <1>1, <1>2, <1>4, <1>5, <1>6, <1>7, <1>8, <1>9, DaemonStep DEF Shape

LEMMA NextFenceStep == ASSUME IInv, NEW p \in Caller, NextFence(p) PROVE IInv'
<1> DEFINE new == [at[p] EXCEPT !.pc = "spawn", !.seen = fence']
<1>1. p \in Actor /\ Shape /\ p \notin Worker /\ at[p].pc = "fence" /\ Knows(p) /\ at[p] \in Locals
  BY Constants DEF Actor, IInv, NextFence, At, Shape
<1>2. fence' \in Worker /\ fence' \in Nat
  BY <1>1, Constants DEF NextFence, Shape, Worker
<1>3. new \in Locals /\ new.pc = "spawn" /\ new.seen = fence' /\ new.view = at[p].view
  <2>1. "spawn" \in Steps
    BY DEF Steps, StartSteps
  <2> QED
    BY <1>1, <1>2, <2>1 DEF Locals
<1>4. at' = [at EXCEPT ![p] = new]
  BY DEF NextFence
<1> HIDE DEF new
<1>5. Moves(p) /\ at'[p] = new
  BY <1>1, <1>3, <1>4, Became
<1>6. /\ UNCHANGED <<record, ledger, cut, stray, revocation, proposal, signalled, startLock, daemon>>
      /\ Typed /\ Emits(p)
  BY <1>1, <1>2 DEF NextFence, scheduleVars, Typed, Emits, Shape
<1>7. Knows(p)'
  <2>1. at'[p].pc = "spawn" /\ at'[p].seen \in Worker /\ at'[p].view = at[p].view
    BY <1>2, <1>3, <1>5
  <2>2. at'[p].pc \in StartSteps /\ at[p].pc \in StartSteps /\ at'[p].pc \notin RunSteps
    BY <1>1, <2>1 DEF StartSteps, RunSteps
  <2>3. stray' \/ Named(p)'
    BY <1>1, <1>6, <2>1 DEF Knows, Named, At
  <2> QED
    BY <1>1, <1>6, <2>1, <2>2, <2>3 DEF Knows, At
<1>8. at[p].pc \in StartSteps /\ ~At(p, "register") /\ ~At(p, "register")'
  BY <1>1, <1>3, <1>5 DEF StartSteps, At
<1> QED
  BY <1>1, <1>5, <1>6, <1>7, <1>8, ReadStep

LEMMA RefuseFenceStep == ASSUME IInv, NEW p \in Caller, RefuseFence(p) PROVE IInv'
<1>1. p \in Actor /\ Shape /\ at[p].pc = "fence" /\ at[p].pc \in StartSteps
  BY DEF Actor, IInv, RefuseFence, At, StartSteps
<1>2. Moves(p) /\ at'[p].pc \in {"idle", "dead"} /\ at'[p].view = 0
  BY <1>1, Left DEF RefuseFence
<1>3. /\ UNCHANGED <<record, ledger, cut, stray, revocation, proposal, fence, signalled, daemon>>
      /\ startLock' = FALSE
  BY DEF RefuseFence, scheduleVars
<1>4. \A b \in Actor \ {p} : at[b].pc \notin StartSteps
  BY <1>1, StartsAlone
<1>5. Typed /\ ~At(p, "register") /\ ~At(p, "register")' /\ at'[p].pc \notin StartSteps
  BY <1>1, <1>2, <1>3 DEF Typed, Shape, At, StartSteps
<1>6. stray \/ \A b \in Actor \ {p} : Named(b)'
  BY <1>2, <1>3 DEF IInv, Knows, Named, Moves, At, InTick
<1> QED
  BY <1>1, <1>2, <1>3, <1>4, <1>5, <1>6, AtRest, DaemonStep DEF Shape

\* Two processes move: the one that starts and the worker it starts.
LEMMA SpawnStep == ASSUME IInv, NEW p \in Caller, Spawn(p) PROVE IInv'
<1>1. p \in Actor /\ Shape /\ p \notin Worker /\ at[p].pc = "spawn" /\ Knows(p) /\ at[p] \in Locals
  BY Constants DEF Actor, IInv, Spawn, At, Shape
<1>2. PICK w \in Worker : w = at[p].seen
  BY <1>1 DEF Knows
<1> DEFINE new == [at[p] EXCEPT !.pc = "create"]
           worker == [Idle EXCEPT !.pc = "waiting"]
<1>3. /\ new \in Locals /\ new.pc = "create" /\ new.seen = w /\ new.view = at[p].view
      /\ worker \in Locals /\ worker.pc = "waiting" /\ worker.view = 0
  <2>1. "create" \in Steps /\ "waiting" \in Steps
    BY DEF Steps, StartSteps
  <2>2. new \in Locals /\ new.pc = "create" /\ new.seen = w /\ new.view = at[p].view
    BY <1>1, <1>2, <2>1 DEF Locals
  <2>3. worker \in Locals /\ worker.pc = "waiting" /\ worker.view = 0
    BY <2>1, IdleType DEF Locals
  <2> QED
    BY <2>2, <2>3
<1>4. at' = [at EXCEPT ![p] = new, ![w] = worker]
  BY <1>1, <1>2 DEF Spawn, Shape
<1> HIDE DEF new, worker
<1>5. w \in Actor /\ w # p
  BY <1>1 DEF Actor
<1>6. /\ at'[p] = new /\ at'[w] = worker
      /\ \A b \in Actor \ {p, w} : at'[b] = at[b]
      /\ at' \in [Actor -> Locals]
  BY <1>1, <1>3, <1>4, <1>5 DEF Shape
<1>7. UNCHANGED <<scheduleVars, ledger, daemonVars>>
  BY DEF Spawn
<1>8. Shape' /\ Emits(p) /\ Grows
  BY <1>1, <1>6, <1>7, LenProperties DEF Shape, Emits, Grows, scheduleVars, daemonVars
<1>9. at'[p].pc = "create" /\ at'[p].seen = w /\ at'[p].view = at[p].view
  BY <1>3, <1>6
<1>10. at'[w].pc = "waiting" /\ at'[w].view = 0 /\ at'[w].pc \notin StartSteps
  BY <1>3, <1>6 DEF StartSteps
<1>11. Knows(p)'
  <2>1. at'[p].pc \in StartSteps /\ at[p].pc \in StartSteps /\ at'[p].pc \notin RunSteps
    BY <1>1, <1>9 DEF StartSteps, RunSteps
  <2>2. stray' \/ Named(p)'
    BY <1>1, <1>7, <1>9 DEF Knows, Named, At, daemonVars
  <2> QED
    BY <1>1, <1>7, <1>9, <2>1, <2>2 DEF Knows, At, daemonVars
<1>12. Knows(w)'
  BY <1>5, <1>8, <1>10, AtRest
<1>13. ASSUME NEW b \in Actor \ {p, w} PROVE Knows(b)'
  <2>1. at'[b] = at[b] /\ Knows(b) /\ b \in Actor \ {p}
    BY <1>6 DEF IInv
  <2>2. stray' \/ Named(b)'
    BY <1>7, <2>1 DEF Knows, Named, At, InTick, daemonVars
  <2>3. record' = record /\ startLock' = startLock
    BY <1>7 DEF scheduleVars, daemonVars
  <2> QED
    BY <1>1, <1>8, <2>1, <2>2, <2>3, OthersKnow DEF Knows
<1>14. ~At(w, "register") /\ ~At(p, "register")
  BY <1>1, <1>5, Constants DEF IInv, Knows, At
<1>15. RecordHasWitness'
  <2> SUFFICES ASSUME NEW s \in Schedule
               PROVE  (record[s] # None /\ ~Witnessed(s, Len(ledger)))' =>
                         s \in cut' \/ \E q \in Caller : (At(q, "register") /\ at[q].s = s)'
    BY DEF RecordHasWitness
  <2>1. \A q \in Caller : At(q, "register") /\ at[q].s = s => at'[q] = at[q] \/ s \in cut'
    BY <1>6, <1>14 DEF Actor
  <2>2. record' = record /\ cut' = cut
    BY <1>7 DEF scheduleVars, daemonVars
  <2> QED
    BY <1>1, <1>8, <2>1, <2>2, WitnessKept DEF IInv
<1>16. Alone'
  <2>1. at[p].pc \in StartSteps /\ at'[p].pc # "register" /\ at'[w].pc # "register"
    BY <1>1, <1>9, <1>10 DEF StartSteps
  <2> QED
    BY <1>6, <1>10, <2>1 DEF IInv, Alone, At
<1> QED
  BY <1>1, <1>8, <1>11, <1>12, <1>13, <1>15, <1>16, EndsKept DEF IInv

LEMMA CreateStateStep == ASSUME IInv, NEW p \in Caller, CreateState(p) PROVE IInv'
<1>1. p \in Actor /\ Shape /\ p \notin Worker /\ at[p].pc = "create" /\ Knows(p)
  BY Constants DEF Actor, IInv, CreateState, At
<1>2. Moves(p) /\ at'[p] = [at[p] EXCEPT !.pc = "fill"]
  <2>1. "fill" \in Steps
    BY DEF Steps, StartSteps
  <2> QED
    BY <1>1, <2>1, WentTo DEF CreateState
<1>3. at'[p].pc = "fill" /\ at'[p].view = at[p].view /\ at'[p].seen = at[p].seen
  BY <1>1, <1>2 DEF Shape, Locals
<1>4. /\ UNCHANGED <<record, ledger, cut, stray, revocation, proposal, fence, signalled, startLock>>
      /\ daemon' = Torn
  BY DEF CreateState, scheduleVars, counters
<1>5. /\ at[p].pc \in StartSteps /\ at'[p].pc \in StartSteps /\ at'[p].pc \notin RunSteps
      /\ at[p].seen \in Worker /\ startLock
  BY <1>1, <1>3 DEF StartSteps, RunSteps, Knows
<1>6. \A b \in Actor \ {p} : at[b].pc \notin StartSteps
  BY <1>1, <1>5, StartsAlone
<1>7. Knows(p)'
  <2>1. Named(p)'
    BY <1>1, <1>3, <1>4 DEF Named, At
  <2> QED
    BY <1>1, <1>3, <1>4, <1>5, <2>1 DEF Knows, At
<1>8. stray \/ \A b \in Actor \ {p} : Named(b)'
  <2> SUFFICES ASSUME ~stray, NEW b \in Actor \ {p} PROVE Named(b)'
    OBVIOUS
  <2>1. at'[b] = at[b] /\ daemon = None
    BY <1>1, <1>2 DEF Moves, Knows, Named
  <2>2. b \notin Worker \/ ~InTick(b)
    BY <2>1, Constants DEF IInv, Knows, Named
  <2> QED
    BY <1>6, <2>1, <2>2, NotNamed DEF InTick
<1>9. Typed /\ ~At(p, "register") /\ ~At(p, "register")'
  BY <1>1, <1>3, <1>4 DEF Typed, Shape, At
<1> QED
  BY <1>1, <1>2, <1>4, <1>5, <1>6, <1>7, <1>8, <1>9, DaemonStep DEF Shape

LEMMA FillStateStep == ASSUME IInv, NEW p \in Caller, FillState(p) PROVE IInv'
<1>1. p \in Actor /\ Shape /\ p \notin Worker /\ at[p].pc = "fill" /\ Knows(p)
  BY Constants DEF Actor, IInv, FillState, At
<1>2. Moves(p) /\ at'[p] = [at[p] EXCEPT !.pc = "release"]
  <2>1. "release" \in Steps
    BY DEF Steps, StartSteps
  <2> QED
    BY <1>1, <2>1, WentTo DEF FillState
<1>3. at'[p].pc = "release" /\ at'[p].view = at[p].view
  BY <1>1, <1>2 DEF Shape, Locals
<1>4. /\ UNCHANGED <<record, ledger, cut, stray, revocation, proposal, fence, signalled, startLock>>
      /\ daemon' = IF daemon = Torn THEN at[p].seen ELSE daemon
  BY DEF FillState, scheduleVars, counters
<1>5. /\ at[p].pc \in StartSteps /\ at'[p].pc \in StartSteps /\ at'[p].pc \notin RunSteps
      /\ at[p].seen \in Worker /\ startLock
  BY <1>1, <1>3 DEF StartSteps, RunSteps, Knows
<1>6. \A b \in Actor \ {p} : at[b].pc \notin StartSteps
  BY <1>1, <1>5, StartsAlone
<1>7. Knows(p)'
  <2>1. Named(p)'
    BY <1>1, <1>3 DEF Named, At
  <2> QED
    BY <1>1, <1>3, <1>4, <1>5, <2>1 DEF Knows, At
<1>8. stray \/ \A b \in Actor \ {p} : Named(b)'
  <2> SUFFICES ASSUME ~stray, NEW b \in Actor \ {p} PROVE Named(b)'
    OBVIOUS
  <2>1. at'[b] = at[b] /\ daemon = Torn
    BY <1>1, <1>2 DEF Moves, Knows, Named, At
  <2>2. b \notin Worker \/ ~InTick(b)
    BY <2>1, Constants DEF IInv, Knows, Named
  <2> QED
    BY <1>6, <2>1, <2>2, NotNamed DEF InTick
<1>9. Typed /\ ~At(p, "register") /\ ~At(p, "register")'
  BY <1>1, <1>3, <1>4 DEF Typed, Shape, At
<1> QED
  BY <1>1, <1>2, <1>4, <1>5, <1>6, <1>7, <1>8, <1>9, DaemonStep DEF Shape

LEMMA ReleaseStartStep == ASSUME IInv, NEW p \in Caller, ReleaseStart(p) PROVE IInv'
<1>1. p \in Actor /\ Shape /\ at[p].pc = "release" /\ at[p].pc \in StartSteps
  BY DEF Actor, IInv, ReleaseStart, At, StartSteps
<1>2. Moves(p) /\ at'[p].pc \in {"idle", "dead"} /\ at'[p].view = 0
  BY <1>1, Left DEF ReleaseStart
<1>3. /\ UNCHANGED <<record, ledger, cut, stray, revocation, proposal, fence, signalled, daemon>>
      /\ startLock' = FALSE
  BY DEF ReleaseStart, scheduleVars, counters
<1>4. \A b \in Actor \ {p} : at[b].pc \notin StartSteps
  BY <1>1, StartsAlone
<1>5. Typed /\ ~At(p, "register") /\ ~At(p, "register")' /\ at'[p].pc \notin StartSteps
  BY <1>1, <1>2, <1>3 DEF Typed, Shape, At, StartSteps
<1>6. stray \/ \A b \in Actor \ {p} : Named(b)'
  BY <1>2, <1>3 DEF IInv, Knows, Named, Moves, At, InTick
<1> QED
  BY <1>1, <1>2, <1>3, <1>4, <1>5, <1>6, AtRest, DaemonStep DEF Shape

LEMMA StopStep == ASSUME IInv, NEW p \in Caller, Stop(p) PROVE IInv'
<1> DEFINE new == [Idle EXCEPT !.pc = "stopping", !.seen = daemon]
<1>1. p \in Actor /\ Shape /\ p \notin Worker /\ at[p].pc = "idle" /\ daemon \in Worker
  BY Constants DEF Actor, IInv, Stop, Begin, At
<1>2. new \in Locals /\ new.pc = "stopping" /\ new.seen = daemon /\ new.view = 0
  <2>1. "stopping" \in Steps
    BY DEF Steps
  <2> QED
    BY <1>1, <2>1, IdleType DEF Idle, Locals
<1>3. at' = [at EXCEPT ![p] = new]
  BY DEF Stop
<1> HIDE DEF new
<1>4. Moves(p) /\ at'[p] = new
  BY <1>1, <1>2, <1>3, Became
<1>5. UNCHANGED <<record, ledger, cut, stray, revocation, proposal, fence, daemon, startLock>>
      /\ Typed /\ Emits(p) /\ Len(ledger') \in Nat
  BY <1>1, LenProperties DEF Stop, scheduleVars, Typed, Emits, Shape
<1>6. /\ at'[p].pc = "stopping" /\ at'[p].seen \in Worker /\ at'[p].view = 0
      /\ at'[p].pc \notin RunSteps \cup StartSteps
  BY <1>1, <1>2, <1>4 DEF RunSteps, StartSteps
<1>7. Knows(p)'
  <2>1. Named(p)'
    BY <1>1, <1>6, NotNamed
  <2> QED
    BY <1>1, <1>5, <1>6, <2>1 DEF Knows, At
<1> QED
  BY <1>1, <1>4, <1>5, <1>6, <1>7, ReadStep DEF At

LEMMA RemoveStateStep == ASSUME IInv, NEW p \in Caller, RemoveState(p) PROVE IInv'
<1>1. p \in Actor /\ Shape /\ at[p].pc = "stopping" /\ at[p].seen \in Worker
  BY DEF Actor, IInv, RemoveState, At, Knows
<1>2. Moves(p) /\ at'[p].pc \in {"idle", "dead"} /\ at'[p].view = 0
  BY <1>1, Left DEF RemoveState
<1>3. /\ UNCHANGED <<record, ledger, cut, revocation, proposal, fence, signalled, startLock>>
      /\ daemon' = None /\ stray' = (stray \/ daemon \notin {None, at[p].seen})
      /\ ~Alive(at[p].seen)
  BY DEF RemoveState, scheduleVars, counters
<1>4. Typed /\ ~At(p, "register") /\ ~At(p, "register")' /\ at'[p].pc \notin StartSteps
  BY <1>1, <1>2, <1>3 DEF Typed, Shape, At, StartSteps
<1>5. \A b \in Actor \ {p} : at[b].pc \in StartSteps => startLock'
  BY <1>3 DEF IInv, Knows
<1>6. stray' \/ \A b \in Actor \ {p} : Named(b)'
  <2> SUFFICES ASSUME ~stray', NEW b \in Actor \ {p} PROVE Named(b)'
    OBVIOUS
  <2>1. at'[b] = at[b] /\ daemon \in {None, at[p].seen} /\ Named(b)
    BY <1>2, <1>3 DEF Moves, IInv, Knows
  <2>2. b \notin Worker \/ ~InTick(b)
    BY <1>3, <2>1, Constants DEF Named, InTick, Alive
  <2>3. ~At(b, "fill")
    BY <1>1, <2>1, Constants DEF Named
  <2> QED
    BY <1>3, <2>1, <2>2, <2>3 DEF Named, At, InTick
<1> QED
  BY <1>1, <1>2, <1>3, <1>4, <1>5, <1>6, AtRest, DaemonStep DEF Shape

LEMMA GiveUpStep == ASSUME IInv, NEW p \in Caller, GiveUp(p) PROVE IInv'
<1>1. p \in Actor /\ Shape /\ ~At(p, "register")
  BY DEF Actor, IInv, GiveUp, At
<1>2. Moves(p) /\ at'[p].pc \in {"idle", "dead"} /\ at'[p].view = 0
  BY <1>1, Left DEF GiveUp
<1>3. Typed /\ Emits(p) /\ Untouched
  BY <1>1 DEF GiveUp, Typed, Emits, Untouched, Shape, scheduleVars, daemonVars
<1> QED
  BY <1>1, <1>2, <1>3, RestStep DEF Untouched

---------------------------------------------------------------------------
(* The daemon's workers, and crashes.                                      *)

LEMMA EstablishStep == ASSUME IInv, NEW w \in Worker, Establish(w) PROVE IInv'
<1>1. w \in Actor /\ Shape /\ at[w].pc = "waiting" /\ Knows(w)
  BY DEF Actor, IInv, Establish, At
<1>2. Typed /\ Emits(w) /\ Untouched /\ ledger' = ledger /\ ~At(w, "register")
  BY <1>1 DEF Establish, Typed, Emits, Untouched, Shape, scheduleVars, daemonVars, At
<1>3. CASE Leave(w)
  BY <1>1, <1>2, <1>3, Left, RestStep DEF Untouched
<1>4. CASE Goto(w, "loop")
  <2>1. "loop" \in Steps
    BY DEF Steps
  <2> DEFINE new == [at[w] EXCEPT !.pc = "loop"]
  <2>2. Moves(w) /\ at'[w] = new
    BY <1>1, <1>4, <2>1, WentTo
  <2>3. new.pc = "loop" /\ new.view = at[w].view
    BY <1>1 DEF Shape, Locals
  <2>4. at'[w].pc = "loop" /\ at'[w].view = at[w].view
    BY <2>2, <2>3
  <2>5. at'[w].pc \notin RunSteps \cup StartSteps /\ ~At(w, "register")'
    BY <2>4 DEF RunSteps, StartSteps, At
  <2>6. Knows(w)'
    <3>1. Named(w)'
      BY <1>1, <2>4, <2>5, NotNamed DEF InTick
    <3> QED
      BY <1>1, <1>2, <2>4, <2>5, <3>1 DEF Knows, At
  <2> QED
    BY <1>1, <1>2, <2>2, <2>5, <2>6, ReadStep DEF Untouched
<1> QED
  BY <1>3, <1>4 DEF Establish

LEMMA WorkerEndsStep == ASSUME IInv, NEW w \in Worker, WorkerEnds(w) PROVE IInv'
<1>1. w \in Actor /\ Shape /\ ~At(w, "register")
  BY DEF Actor, IInv, WorkerEnds, At
<1>2. Moves(w) /\ at'[w].pc \in {"idle", "dead"} /\ at'[w].view = 0
  BY <1>1, Left DEF WorkerEnds
<1>3. Typed /\ Emits(w) /\ Untouched
  BY <1>1 DEF WorkerEnds, Typed, Emits, Untouched, Shape, scheduleVars, daemonVars
<1> QED
  BY <1>1, <1>2, <1>3, RestStep DEF Untouched

LEMMA CrashStep == ASSUME IInv, NEW a \in Actor, Crash(a) PROVE IInv'
<1>1. Shape /\ Moves(a) /\ at'[a].pc \in {"idle", "dead"} /\ at'[a].view = 0
  BY Left DEF Crash, IInv
<1>2. /\ UNCHANGED <<record, revocation, proposal, ledger, daemon, startLock, fence, signalled, stray>>
      /\ cut' = IF At(a, "register") THEN cut \cup {at[a].s} ELSE cut
  BY DEF Crash, scheduleVars
<1>3. cut' \subseteq Schedule
  BY <1>1, <1>2 DEF IInv, Knows, Shape, At
<1>4. Typed /\ Emits(a)
  BY <1>1, <1>2 DEF Typed, Emits, Shape
<1>5. Shape'
  BY <1>1, <1>2, <1>3, <1>4, ShapeKept
<1>6. Knows(a)' /\ ~At(a, "register")' /\ at'[a].pc \notin StartSteps
  BY <1>1, <1>5, AtRest DEF At, StartSteps
<1> QED
  BY <1>1, <1>2, <1>4, <1>5, <1>6, StepKeeps

---------------------------------------------------------------------------
(* The theorems.                                                           *)

LEMMA InitIInv == Init => IInv
<1> SUFFICES ASSUME Init PROVE IInv
  OBVIOUS
<1>1. Shape
  <2>1. << >> \in Seq(Events)
    OBVIOUS
  <2> QED
    BY <2>1, IdleType DEF Init, Shape
<1>2. \A a \in Actor : at[a].pc \in {"idle", "dead"} /\ at[a].view = 0
  BY IdleType DEF Init
<1>3. Len(ledger) = 0
  BY DEF Init
<1>4. \A kinds, s : Of(kinds, s, Len(ledger)) = {}
  BY <1>3 DEF Of
<1>5. ASSUME NEW a \in Actor PROVE Knows(a)
  BY <1>2, <1>3 DEF Knows, Named, At, InTick, RunSteps, StartSteps
<1>6. Alone
  BY <1>2 DEF Alone, At, StartSteps
<1>7. RecordHasWitness
  BY DEF RecordHasWitness, Init
<1>8. EndStopsRuns
  BY <1>4 DEF EndStopsRuns
<1> QED
  BY <1>1, <1>5, <1>6, <1>7, <1>8 DEF IInv

LEMMA StutterStep == ASSUME IInv, UNCHANGED vars PROVE IInv'
<1> USE DEF vars, scheduleVars, daemonVars, counters
<1>1. Shape'
  BY DEF IInv, Shape
<1>2. ASSUME NEW a \in Actor PROVE Knows(a)'
  BY DEF IInv, Knows, Named, At, InTick, Fresh, Ended, Runs, Of
<1>3. Alone'
  BY DEF IInv, Alone, At
<1>4. RecordHasWitness'
  BY DEF IInv, RecordHasWitness, Witnessed, Of, At
<1>5. EndStopsRuns'
  BY DEF IInv, EndStopsRuns, Runs, Of
<1> QED
  BY <1>1, <1>2, <1>3, <1>4, <1>5 DEF IInv

LEMMA NextIInv == ASSUME IInv, [Next]_vars PROVE IInv'
<1>1. ASSUME NEW p \in Caller, Command(p) PROVE IInv'
  BY <1>1, AdmitStep, RevokeStep, TickStarts, StartStep, StopStep DEF Command
<1>2. ASSUME NEW p \in Caller, CommandStep(p) PROVE IInv'
  BY <1>2, RegisterStep, AppendRevocationStep, NextFenceStep, RefuseFenceStep, SpawnStep,
     CreateStateStep, FillStateStep, ReleaseStartStep, RemoveStateStep, GiveUpStep DEF CommandStep
<1>3. ASSUME NEW w \in Worker, WorkerStep(w) PROVE IInv'
  BY <1>3, EstablishStep, WorkerTickStarts, WorkerEndsStep DEF WorkerStep
<1>4. ASSUME NEW a \in Actor, TickStep(a) PROVE IInv'
  BY <1>4, ListSchedulesStep, NextScheduleStep, RunJobStep, FailJobStep, CompleteJobStep,
     StopScheduleStep, EndTickStep DEF TickStep
<1> QED
  BY <1>1, <1>2, <1>3, <1>4, CrashStep, StutterStep DEF Next

\* The invariant of the runtime: what each process knows of the records, the ledger and
\* the daemon's files by the step it has reached.
THEOREM Invariance == Spec => []IInv
<1>1. IInv /\ [Next]_vars => IInv'
  BY NextIInv
<1> QED
  BY <1>1, InitIInv, PTL DEF Spec

\* Every reachable state is well typed.
THEOREM TypeCorrect == Spec => []TypeOK
<1>1. IInv => TypeOK
  <2> SUFFICES ASSUME IInv PROVE TypeOK
    OBVIOUS
  <2>1. Len(ledger) \in Nat /\ \A i \in 1..Len(ledger) : ledger[i] \in Events
    BY LenProperties, ElementOfSeq DEF IInv, Shape
  <2>2. \A i \in 1..Len(ledger) : ledger[i].schedule \in Schedule
    BY <2>1 DEF Events
  <2>3. \A a \in Actor : at[a].view \in 0..Len(ledger)
    BY <2>1 DEF IInv, Knows, Shape, Locals
  <2> QED
    BY <2>2, <2>3 DEF IInv, Shape, TypeOK
<1> QED
  BY <1>1, Invariance, PTL

\* A schedule's record that has no witness on the ledger is being admitted, or a crash cut
\* its admission short (admitSchedule takes the record back otherwise).
THEOREM RecordsAreWitnessed == Spec => []RecordHasWitness
<1>1. IInv => RecordHasWitness
  BY DEF IInv
<1> QED
  BY <1>1, Invariance, PTL

\* Once a schedule has ended or its runs are spent, each process records at most the one
\* run it was underway with.
THEOREM EndedSchedulesStop == Spec => []EndStopsRuns
<1>1. IInv => EndStopsRuns
  BY DEF IInv
<1> QED
  BY <1>1, Invariance, PTL

\* One worker ticks at a time, whatever starts, stops and crashes there are, while no stop
\* has removed a daemon.json other than the one it read.
THEOREM WorkersTickAlone == Spec => []OneWorkerTicks
<1>1. IInv => OneWorkerTicks
  BY DEF IInv, Knows, Named, OneWorkerTicks, Actor
<1> QED
  BY <1>1, Invariance, PTL

===============================================================================
