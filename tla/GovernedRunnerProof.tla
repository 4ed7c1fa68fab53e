------------------------- MODULE GovernedRunnerProof -------------------------
(***************************************************************************)
(* Proofs about GovernedRunner, for any processes, stages, versions and    *)
(* bounds, on every surface, and about LoopLedger, the ledger that its     *)
(* runners append to, for any processes and any bounds.                    *)
(***************************************************************************)
EXTENDS GovernedRunner, LoopLedger, FiniteSetTheorems, SequenceTheorems,
        WellFoundedInduction, TLAPS

---------------------------------------------------------------------------
(* The inductive invariant.                                                *)

Binding == [pack : Pack, policy : Policy]
Subjects == {Contract} \cup Stage \cup Nat
Approval == [kind : {"approved"}, key : Subjects, subject : Subjects,
             binding : Binding \cup {None}]
OtherEvent == [kind : {"denied", "policy.evaluated", "budget.exhausted", "executed"},
               key : Subjects \cup {None}]
Results == {"none", "approved", "awaiting", "tampered", "packRules", "policy", "drift",
            "notApproved", "noRepository", "spent", "error", "executed"}
Locals == [pc : RunSteps \cup {"idle", "approveBind", "approveAppend"},
           subject : Subjects \cup {None}, pack : Pack \cup {None},
           binding : Binding \cup {None}, rules : Policy \cup {None},
           view : Nat, pick : Nat, result : Results]
Spawnable == [subject : Subjects \cup {None}, pack : Pack \cup {None},
              rules : Policy \cup {None}, binding : Binding \cup {None}, grant : Nat]

Shape ==
    /\ surface \in {"loop", "route", "session"}
    /\ pack \in Pack /\ policy \in Policy /\ expired \in BOOLEAN
    /\ attempts \in Seq(Binding)
    /\ closed \subseteq 1..Len(attempts)
    /\ ledger \in Seq(Approval \cup OtherEvent)
    /\ consumed \subseteq [key : Subjects, grant : Nat]
    /\ spawned \in Seq(Spawnable)
    /\ st \in [Proc -> Locals]

Taken == {c.grant : c \in consumed}
SpawnedKeys == {ledger[spawned[i].grant].key : i \in 1..Len(spawned)}
PickKey(p) == ledger[st[p].pick].key

IsApproval(i) == i \in 1..Len(ledger) /\ ledger[i].kind = "approved"

\* A key has one marker, taken for an approval that is on the ledger.
Marked ==
    /\ \A c \in consumed : IsApproval(c.grant) /\ ledger[c.grant].key = c.key
    /\ \A c, d \in consumed : c.key = d.key => c = d

\* The key of a loop's approval is its place.
LoopKeys == surface = "loop" => \A i \in 1..Len(ledger) : IsApproval(i) => ledger[i].key = i

\* Nothing is spawned but on an approval that was consumed; then SpawnedOnce.
SpawnedOnConsumed == \A i \in 1..Len(spawned) : spawned[i].grant \in Taken

\* A run has chosen an approval, the last it saw that was not executed.
Chosen(p) == st[p].pc \in {"eligible", "consume", "execute", "budget", "record"}

Choice(p) ==
    /\ st[p].pick \in 1..st[p].view /\ IsApproval(st[p].pick)
    /\ surface = "session" => ledger[st[p].pick].subject = st[p].subject
    /\ surface = "loop" =>
         \A i \in 1..st[p].view : IsApproval(i) /\ i > st[p].pick => i \in Taken

\* A run that has consumed its approval and is not done with it; it alone has.
Holding(p) == st[p].pc \in {"execute", "budget", "record"}

Held(p) ==
    /\ st[p].pick \in Taken
    /\ st[p].pc = "execute" => PickKey(p) \notin SpawnedKeys
    /\ st[p].pc # "execute" => PickKey(p) \in SpawnedKeys /\ PickKey(p) \notin ExecutedKeys

HoldsAlone == \A p, q \in Proc : Holding(p) /\ Holding(q) /\ PickKey(p) = PickKey(q) => p = q

\* What a run has looked at by its step: rules that do not deny, a pack that does not
\* widen, the policy a loop's approval binds, the versions a session's attempt froze.
Lawful(p) ==
    /\ st[p].pc = "bind" => surface = "loop"
    /\ st[p].pc \in {"admit", "outcome"} => surface = "session"
    /\ st[p].pc \in {"admit", "select", "eligible", "consume", "execute"} =>
         st[p].rules \in Policy \ Denying
    /\ surface = "loop" /\ Running(p) =>
         /\ st[p].pack \in Pack \ Widening
         /\ st[p].pc # "bind" => st[p].binding \in Binding /\ st[p].binding.pack = st[p].pack
         /\ st[p].pc \in {"consume", "execute"} => ledger[st[p].pick].binding = st[p].binding
    /\ surface = "route" /\ st[p].pc \in {"rules", "select", "eligible", "consume", "execute"} =>
         st[p].pack \notin Widening
    /\ surface = "session" /\ Running(p) =>
         /\ st[p].subject \in 1..Len(attempts) /\ st[p].binding = attempts[st[p].subject]
         /\ st[p].pc \in {"select", "eligible", "consume", "execute"} =>
              st[p].pack = st[p].binding.pack /\ st[p].rules = st[p].binding.policy

\* A loop's run was turned away rightly.
TurnedAway(p) ==
    surface = "loop" =>
        /\ Running(p) => st[p].result = "none"
        /\ st[p].result = "notApproved" => \A i \in 1..st[p].view : IsApproval(i) => i \in Taken
        /\ st[p].result = "spent" =>
             \E i \in 1..st[p].view :
                /\ IsApproval(i) /\ i \in Taken
                /\ \A j \in 1..st[p].view : IsApproval(j) => j <= i

\* What a process knows.
Knows(p) ==
    /\ st[p].view <= Len(ledger)
    /\ Chosen(p) => Choice(p)
    /\ Holding(p) => Held(p)
    /\ Lawful(p)
    /\ TurnedAway(p)
    /\ st[p].pc = "approveBind" =>
         /\ surface = "loop" /\ st[p].pack \in Pack
         /\ st[p].subject \in Subjects
    /\ st[p].pc = "approveAppend" => st[p].subject \in Subjects

\* A session's command is of an attempt that was captured.
OfAnAttempt ==
    surface = "session" => \A i \in 1..Len(spawned) : spawned[i].subject \in 1..Len(attempts)

IInv ==
    /\ Shape
    /\ Marked /\ LoopKeys
    /\ SpawnedOnConsumed /\ SpawnedOnce /\ OnlyWhatWasApproved /\ OfAnAttempt
    /\ HoldsAlone
    /\ \A p \in Proc : Knows(p)

---------------------------------------------------------------------------
(* Lemmas about the operators.                                             *)

\* A set of positions that is not empty has a last one.
LEMMA HasGreatest ==
    ASSUME NEW n \in Nat, NEW S, S \subseteq 1..n, S # {}
    PROVE  \E m \in S : \A i \in S : i <= m
<1> DEFINE T == {k \in Nat : \E i \in S : k = n - i}
<1>1. T \subseteq Nat /\ T # {}
  <2>1. PICK i \in S : i \in 1..n
    OBVIOUS
  <2>2. n - i \in T
    BY <2>1
  <2> QED
    BY <2>2
<1>2. PICK k \in T : \A j \in T : ~(<<j, k>> \in OpToRel(<, Nat))
  BY <1>1, WFMin, NatLessThanWellFounded, Zenon
<1>3. ASSUME NEW j \in T PROVE k <= j
  <2>1. j \in Nat /\ k \in Nat
    OBVIOUS
  <2>2. ~(<<j, k>> \in {ss \in Nat \X Nat : ss[1] < ss[2]})
    BY <1>2 DEF OpToRel
  <2> QED
    BY <2>1, <2>2
<1>4. PICK m \in S : k = n - m
  OBVIOUS
<1>5. ASSUME NEW i \in S PROVE i <= m
  <2>1. i \in 1..n /\ m \in 1..n /\ n - i \in T
    OBVIOUS
  <2> QED
    BY <1>3, <1>4, <2>1
<1> QED
  BY <1>5

\* Latest is that position, and 0 of none.
LEMMA LatestIsGreatest ==
    ASSUME NEW n \in Nat, NEW S, S \subseteq 1..n
    PROVE  \/ S = {} /\ Latest(S) = 0
           \/ Latest(S) \in S /\ \A i \in S : i <= Latest(S)
<1>1. CASE S = {}
  BY <1>1 DEF Latest
<1>2. CASE S # {}
  <2>1. \E m \in S : \A i \in S : i <= m
    BY <1>2, HasGreatest
  <2> QED
    BY <1>2, <2>1 DEF Latest
<1> QED
  BY <1>1, <1>2

\* An append adds one event and changes none.
LEMMA LedgerAppend ==
    ASSUME Shape, NEW event \in Approval \cup OtherEvent, ledger' = Append(ledger, event)
    PROVE  /\ ledger' \in Seq(Approval \cup OtherEvent)
           /\ Len(ledger) \in Nat /\ Len(ledger') = Len(ledger) + 1
           /\ \A i \in 1..Len(ledger) : ledger'[i] = ledger[i]
           /\ ledger'[Len(ledger) + 1] = event
BY AppendProperties DEF Shape

\* The constructors build events of their types.
LEMMA ApprovedType ==
    ASSUME NEW key \in Subjects, NEW subject \in Subjects, NEW binding \in Binding \cup {None}
    PROVE  Approved(key, subject, binding) \in Approval
BY DEF Approved, Approval

LEMMA OtherType ==
    ASSUME NEW kind \in {"denied", "policy.evaluated", "budget.exhausted", "executed"},
           NEW key \in Subjects \cup {None}
    PROVE  Other(kind, key) \in OtherEvent /\ Other(kind, key).kind = kind
           /\ Other(kind, key).key = key
BY DEF Other, OtherEvent

LEMMA IdleType ==
    /\ Idle \in Locals
    /\ Idle.pc = "idle" /\ Idle.view = 0 /\ Idle.result = "none"
<1>1. /\ "idle" \in RunSteps \cup {"idle", "approveBind", "approveAppend"}
      /\ "none" \in Results /\ 0 \in Nat
  BY DEF Results
<1> QED
  BY <1>1 DEF Idle, Locals

\* Only p moves.
Moves(p) == st' \in [Proc -> Locals] /\ \A q \in Proc \ {p} : st'[q] = st[q]

LEMMA Became ==
    ASSUME Shape, NEW p \in Proc, NEW new \in Locals, st' = [st EXCEPT ![p] = new]
    PROVE  Moves(p) /\ st'[p] = new
BY DEF Shape, Moves

---------------------------------------------------------------------------
(* What a step leaves as it was.                                           *)

\* The surface stays, and what was appended or marked stays.
Grows ==
    /\ surface' = surface
    /\ Len(ledger) <= Len(ledger') /\ \A i \in 1..Len(ledger) : ledger'[i] = ledger[i]
    /\ Len(attempts) <= Len(attempts')
    /\ \A a \in 1..Len(attempts) : attempts'[a] = attempts[a]
    /\ consumed \subseteq consumed'

\* A position of the ledger keeps its event.
LEMMA ApprovalsKept ==
    ASSUME Shape, Shape', Grows, NEW i \in 1..Len(ledger)
    PROVE  /\ i \in 1..Len(ledger') /\ ledger'[i] = ledger[i]
           /\ IsApproval(i)' <=> IsApproval(i)
           /\ i \in Taken => i \in Taken'
<1>1. Len(ledger) \in Nat /\ Len(ledger') \in Nat
  BY LenProperties DEF Shape
<1> QED
  BY <1>1 DEF Grows, IsApproval, Taken

\* A process that does not move keeps what it knows, unless another executes on the key
\* it holds.
LEMMA KnowsKept ==
    ASSUME Shape, Shape', Grows, NEW q \in Proc, Knows(q), st'[q] = st[q],
           Holding(q) => /\ PickKey(q) \in SpawnedKeys' <=> PickKey(q) \in SpawnedKeys
                         /\ PickKey(q) \in ExecutedKeys' => PickKey(q) \in ExecutedKeys
    PROVE  Knows(q)'
<1>1. /\ Len(ledger) \in Nat /\ Len(ledger') \in Nat /\ Len(ledger) <= Len(ledger')
      /\ st[q] \in Locals /\ st[q].view \in Nat /\ surface' = surface
  BY LenProperties DEF Shape, Grows, Locals
<1>2. st[q].view <= Len(ledger')
  BY <1>1 DEF Knows
<1>3. \A i \in 1..st[q].view : i \in 1..Len(ledger)
  BY <1>1 DEF Knows
<1>4. \A i \in 1..st[q].view : /\ ledger'[i] = ledger[i]
                               /\ IsApproval(i)' <=> IsApproval(i)
                               /\ i \in Taken => i \in Taken'
  BY <1>3, ApprovalsKept
<1>5. Chosen(q) => st[q].pick \in 1..st[q].view /\ ledger'[st[q].pick] = ledger[st[q].pick]
  BY <1>4 DEF Knows, Choice
<1>6. Chosen(q) => Choice(q)'
  <2> SUFFICES ASSUME Chosen(q) PROVE Choice(q)'
    OBVIOUS
  <2>1. Choice(q)
    BY DEF Knows
  <2>2. IsApproval(st[q].pick)'
    BY <1>4, <1>5, <2>1 DEF Choice
  <2>3. ASSUME surface = "loop", NEW i \in 1..st[q].view, IsApproval(i)', i > st[q].pick
        PROVE  i \in Taken'
    BY <1>4, <2>1, <2>3 DEF Choice
  <2> QED
    BY <1>1, <1>5, <2>1, <2>2, <2>3 DEF Choice
<1>7. Holding(q) => Held(q)'
  <2> SUFFICES ASSUME Holding(q) PROVE Held(q)'
    OBVIOUS
  <2>1. PickKey(q)' = PickKey(q)
    BY <1>5 DEF PickKey, Holding, Chosen
  <2>2. st[q].pick \in Taken => st[q].pick \in Taken'
    BY DEF Grows, Taken
  <2> QED
    BY <2>1, <2>2 DEF Knows, Held
<1>8. Lawful(q)'
  <2>1. \A a \in 1..Len(attempts) : a \in 1..Len(attempts') /\ attempts'[a] = attempts[a]
    <3>1. Len(attempts) \in Nat /\ Len(attempts') \in Nat
      BY LenProperties DEF Shape
    <3> QED
      BY <3>1 DEF Grows
  <2>2. st[q].pc \in {"consume", "execute"} => ledger'[st[q].pick] = ledger[st[q].pick]
    BY <1>5 DEF Chosen
  <2> QED
    BY <1>1, <2>1, <2>2 DEF Knows, Lawful, Running
<1>9. TurnedAway(q)'
  BY <1>1, <1>4 DEF Knows, TurnedAway, Running
<1> QED
  BY <1>1, <1>2, <1>6, <1>7, <1>8, <1>9 DEF Knows, Chosen, Holding

\* The commands spawned so far keep their approvals, and the keys of those.
LEMMA SpawnedKept ==
    ASSUME IInv, Shape', Grows, spawned' = spawned
    PROVE  /\ \A i \in 1..Len(spawned) : /\ spawned[i].grant \in 1..Len(ledger)
                                         /\ ledger'[spawned[i].grant] = ledger[spawned[i].grant]
           /\ SpawnedKeys' = SpawnedKeys
<1>1. ASSUME NEW i \in 1..Len(spawned)
      PROVE  /\ spawned[i].grant \in 1..Len(ledger)
             /\ ledger'[spawned[i].grant] = ledger[spawned[i].grant]
  <2>1. PICK c \in consumed : c.grant = spawned[i].grant
    BY DEF IInv, SpawnedOnConsumed, Taken
  <2>2. spawned[i].grant \in 1..Len(ledger)
    BY <2>1 DEF IInv, Marked, IsApproval
  <2> QED
    BY <2>2 DEF Grows
<1> QED
  BY <1>1 DEF SpawnedKeys

\* A step of p that marks and spawns nothing, and appends an event at most that is not
\* of an execution, preserves the invariant if p knows what it should at its next step.
LEMMA LocalStep ==
    ASSUME IInv, Shape', NEW p \in Proc, Moves(p), Knows(p)',
           surface' = surface, consumed' = consumed, spawned' = spawned,
           Len(attempts) <= Len(attempts'),
           \A a \in 1..Len(attempts) : attempts'[a] = attempts[a],
           \/ ledger' = ledger
           \/ \E event \in Approval \cup OtherEvent :
                /\ ledger' = Append(ledger, event) /\ event.kind # "executed"
                /\ surface = "loop" /\ event.kind = "approved" => event.key = Len(ledger) + 1,
           Holding(p)' => Holding(p) /\ PickKey(p)' = PickKey(p)
    PROVE  IInv'
<1>1. /\ Len(ledger) \in Nat /\ Len(ledger') \in Nat /\ Len(ledger) <= Len(ledger')
      /\ \A i \in 1..Len(ledger) : ledger'[i] = ledger[i]
      /\ \A i \in 1..Len(ledger') : i \in 1..Len(ledger) \/
            (/\ ledger'[i].kind # "executed"
             /\ surface = "loop" /\ ledger'[i].kind = "approved" => ledger'[i].key = i)
  <2>1. CASE ledger' = ledger
    BY <2>1, LenProperties DEF IInv, Shape
  <2>2. CASE ledger' # ledger
    <3>1. PICK event \in Approval \cup OtherEvent :
            /\ ledger' = Append(ledger, event) /\ event.kind # "executed"
            /\ surface = "loop" /\ event.kind = "approved" => event.key = Len(ledger) + 1
      BY <2>2
    <3>2. /\ Len(ledger) \in Nat /\ Len(ledger') = Len(ledger) + 1
          /\ \A i \in 1..Len(ledger) : ledger'[i] = ledger[i]
          /\ ledger'[Len(ledger) + 1] = event
      BY <3>1, LedgerAppend DEF IInv
    <3>3. \A i \in 1..Len(ledger') : i \in 1..Len(ledger) \/ i = Len(ledger) + 1
      BY <3>2
    <3> QED
      BY <3>1, <3>2, <3>3
  <2> QED
    BY <2>1, <2>2
<1>2. Grows
  BY <1>1 DEF Grows
<1>3. /\ SpawnedKeys' = SpawnedKeys
      /\ \A i \in 1..Len(spawned) : /\ spawned[i].grant \in 1..Len(ledger)
                                    /\ ledger'[spawned[i].grant] = ledger[spawned[i].grant]
  BY <1>2, SpawnedKept
<1>4. ExecutedKeys' = ExecutedKeys
  BY <1>1 DEF ExecutedKeys
<1>5. Marked'
  BY <1>1 DEF IInv, Marked, IsApproval
<1>6. LoopKeys'
  BY <1>1 DEF IInv, LoopKeys, IsApproval
<1>7. SpawnedOnConsumed' /\ SpawnedOnce'
  <2>1. SpawnedOnConsumed'
    BY DEF IInv, SpawnedOnConsumed, Taken
  <2>2. \A i, j \in 1..Len(ledger') :
          ledger'[i].kind = "executed" /\ ledger'[j] = ledger'[i] => i = j
    BY <1>1 DEF IInv, SpawnedOnce
  <2>3. ASSUME NEW i \in 1..Len(spawned), NEW j \in 1..Len(spawned),
               ledger'[spawned[i].grant].key = ledger'[spawned[j].grant].key
        PROVE  i = j
    BY <1>3, <2>3 DEF IInv, SpawnedOnce
  <2>4. ASSUME NEW key \in ExecutedKeys
        PROVE  \E i \in 1..Len(spawned) : ledger'[spawned[i].grant].key = key
    <3>1. PICK i \in 1..Len(spawned) : ledger[spawned[i].grant].key = key
      BY DEF IInv, SpawnedOnce
    <3> QED
      BY <1>3, <3>1
  <2> QED
    BY <1>4, <2>1, <2>2, <2>3, <2>4 DEF SpawnedOnce
<1>8. OnlyWhatWasApproved' /\ OfAnAttempt'
  <2>1. Len(attempts) \in Nat /\ Len(attempts') \in Nat
    BY LenProperties DEF IInv, Shape
  <2>2. OfAnAttempt'
    BY <2>1 DEF IInv, OfAnAttempt
  <2>3. surface = "session" =>
          \A i \in 1..Len(spawned) : attempts'[spawned[i].subject] = attempts[spawned[i].subject]
    BY DEF IInv, OfAnAttempt
  <2> QED
    BY <1>3, <2>2, <2>3 DEF IInv, OnlyWhatWasApproved
<1>9. ASSUME NEW q \in Proc PROVE Knows(q)'
  <2>1. CASE q = p
    BY <2>1
  <2>2. CASE q # p
    BY <2>2, <1>2, <1>3, <1>4, KnowsKept DEF IInv, Moves
  <2> QED
    BY <2>1, <2>2
<1>10. HoldsAlone'
  <2>1. ASSUME NEW q \in Proc, Holding(q)'
        PROVE  Holding(q) /\ PickKey(q)' = PickKey(q)
    <3>1. CASE q = p
      BY <2>1, <3>1
    <3>2. CASE q # p
      <4>1. st'[q] = st[q] /\ Holding(q)
        BY <2>1, <3>2 DEF Moves, Holding
      <4>2. st[q].pick \in 1..Len(ledger)
        BY <4>1 DEF IInv, Knows, Choice, Chosen, Holding, IsApproval
      <4> QED
        BY <1>1, <4>1, <4>2 DEF PickKey
    <3> QED
      BY <3>1, <3>2
  <2> QED
    BY <2>1 DEF IInv, HoldsAlone
<1> QED
  BY <1>5, <1>6, <1>7, <1>8, <1>9, <1>10 DEF IInv

\* A step that changes nothing an approval, a command or a process rests on.
LEMMA WorldStep ==
    ASSUME IInv, Shape', UNCHANGED <<surface, attempts, ledger, consumed, spawned, st>>
    PROVE  IInv'
<1>1. /\ Grows
      /\ UNCHANGED <<SpawnedKeys, ExecutedKeys>>
  <2>1. Len(ledger) \in Nat /\ Len(attempts) \in Nat
    BY LenProperties DEF IInv, Shape
  <2> QED
    BY <2>1 DEF Grows, SpawnedKeys, ExecutedKeys
<1>2. \A q \in Proc : Knows(q)'
  BY <1>1, KnowsKept DEF IInv
<1>3. Marked' /\ LoopKeys' /\ SpawnedOnConsumed' /\ OfAnAttempt' /\ HoldsAlone'
  BY DEF IInv, Marked, LoopKeys, SpawnedOnConsumed, OfAnAttempt, HoldsAlone, IsApproval, Taken,
     Holding, PickKey
<1>4. SpawnedOnce' /\ OnlyWhatWasApproved'
  BY <1>1 DEF IInv, SpawnedOnce, OnlyWhatWasApproved
<1> QED
  BY <1>2, <1>3, <1>4 DEF IInv

---------------------------------------------------------------------------
(* The initial states.                                                     *)

LEMMA InitIInv == Init => IInv
<1> SUFFICES ASSUME Init PROVE IInv
  OBVIOUS
<1>1. /\ ledger = << >> /\ attempts = << >> /\ spawned = << >>
      /\ Len(ledger) = 0 /\ Len(attempts) = 0 /\ Len(spawned) = 0
  BY DEF Init
<1>2. Shape
  <2>1. /\ attempts \in Seq(Binding) /\ ledger \in Seq(Approval \cup OtherEvent)
        /\ spawned \in Seq(Spawnable)
    BY <1>1
  <2>2. st \in [Proc -> Locals]
    BY IdleType DEF Init
  <2> QED
    BY <2>1, <2>2 DEF Init, Shape
<1>3. ASSUME NEW p \in Proc PROVE Knows(p)
  <2>1. st[p] = Idle
    BY DEF Init
  <2> QED
    BY <1>1, <2>1, IdleType
    DEF Knows, Chosen, Holding, Lawful, Running, RunSteps, TurnedAway
<1>4. Marked /\ LoopKeys /\ SpawnedOnConsumed /\ OnlyWhatWasApproved /\ OfAnAttempt
  BY <1>1 DEF Init, Marked, LoopKeys, SpawnedOnConsumed, OnlyWhatWasApproved, OfAnAttempt
<1>5. ExecutedKeys = {}
  BY <1>1 DEF ExecutedKeys
<1>6. SpawnedOnce
  BY <1>1, <1>5 DEF SpawnedOnce
<1>7. HoldsAlone
  BY IdleType DEF Init, HoldsAlone, Holding
<1> QED
  BY <1>2, <1>3, <1>4, <1>6, <1>7 DEF IInv

---------------------------------------------------------------------------
(* The steps that neither mark nor spawn nor record.                       *)

Steps == RunSteps \cup {"idle", "approveBind", "approveAppend"}

\* Only p moves, and the ledger stays or gets a denial or an evaluation.
Quietly(p) ==
    /\ Moves(p)
    /\ UNCHANGED <<worldVars, sessionVars, consumed, spawned>>
    /\ \/ ledger' = ledger
       \/ ledger' = Append(ledger, Other("denied", None))
       \/ ledger' = Append(ledger, Other("policy.evaluated", None))
       \/ ledger' = Append(ledger, Other("budget.exhausted", None))

LEMMA QuietShape ==
    ASSUME Shape, NEW p \in Proc, Quietly(p)
    PROVE  /\ Shape' /\ Grows
           /\ \A q \in Proc : st[q].view <= Len(ledger) => st[q].view <= Len(ledger')
           /\ \/ ledger' = ledger
              \/ \E event \in OtherEvent :
                   ledger' = Append(ledger, event) /\ event.kind \notin {"approved", "executed"}
<1>1. \/ ledger' = ledger
      \/ \E event \in OtherEvent :
           ledger' = Append(ledger, event) /\ event.kind \notin {"approved", "executed"}
  <2>1. ASSUME NEW kind \in {"denied", "policy.evaluated", "budget.exhausted"}
        PROVE  Other(kind, None) \in OtherEvent /\ Other(kind, None).kind = kind
    BY OtherType
  <2> QED
    BY <2>1 DEF Quietly
<1>2. /\ ledger' \in Seq(Approval \cup OtherEvent) /\ Len(ledger) \in Nat /\ Len(ledger') \in Nat
      /\ Len(ledger) <= Len(ledger') /\ \A i \in 1..Len(ledger) : ledger'[i] = ledger[i]
  BY <1>1, LedgerAppend, LenProperties DEF Shape
<1>3. /\ UNCHANGED <<surface, pack, policy, expired, attempts, closed, consumed, spawned>>
      /\ Len(attempts) \in Nat
  BY LenProperties DEF Quietly, worldVars, sessionVars, Shape
<1>4. Shape' /\ Grows
  BY <1>2, <1>3 DEF Quietly, Moves, Shape, Grows
<1>5. \A q \in Proc : st[q].view \in Nat
  BY DEF Shape, Locals
<1> QED
  BY <1>1, <1>2, <1>4, <1>5

\* Such a step preserves the invariant if p knows what it should afterwards.
LEMMA QuietStep ==
    ASSUME IInv, NEW p \in Proc, Quietly(p), Knows(p)',
           Holding(p)' => Holding(p) /\ PickKey(p)' = PickKey(p)
    PROVE  IInv'
<1>1. Shape' /\ Grows
  BY QuietShape DEF IInv
<1>2. \/ ledger' = ledger
      \/ \E event \in Approval \cup OtherEvent :
           /\ ledger' = Append(ledger, event) /\ event.kind # "executed"
           /\ surface = "loop" /\ event.kind = "approved" => event.key = Len(ledger) + 1
  BY QuietShape DEF IInv
<1>3. surface' = surface /\ consumed' = consumed /\ spawned' = spawned /\ attempts' = attempts
  BY DEF Quietly, worldVars, sessionVars
<1> QED
  BY <1>1, <1>2, <1>3, LocalStep DEF Grows, Quietly

\* What p does when it goes on, and when the runner returns.
LEMMA GotoMoves ==
    ASSUME Shape, NEW p \in Proc, NEW step \in Steps, Goto(p, step)
    PROVE  /\ Moves(p) /\ st'[p].pc = step
           /\ st'[p].subject = st[p].subject /\ st'[p].pack = st[p].pack
           /\ st'[p].binding = st[p].binding /\ st'[p].rules = st[p].rules
           /\ st'[p].view = st[p].view /\ st'[p].pick = st[p].pick
           /\ st'[p].result = st[p].result
<1> DEFINE new == [st[p] EXCEPT !.pc = step]
<1>1. st[p] \in Locals
  BY DEF Shape
<1>2. new \in Locals
  BY <1>1 DEF Locals, Steps
<1>3. st' = [st EXCEPT ![p] = new]
  BY <1>1 DEF Goto, Shape
<1> HIDE DEF new
<1>4. Moves(p) /\ st'[p] = new
  BY <1>2, <1>3, Became
<1> QED
  BY <1>1, <1>4 DEF Locals, new

LEMMA ReturnMoves ==
    ASSUME Shape, NEW p \in Proc, NEW outcome \in Results, Return(p, outcome)
    PROVE  /\ Moves(p) /\ st'[p].pc = IF surface = "session" THEN "outcome" ELSE "idle"
           /\ st'[p].subject = st[p].subject /\ st'[p].pack = st[p].pack
           /\ st'[p].binding = st[p].binding /\ st'[p].rules = st[p].rules
           /\ st'[p].view = st[p].view /\ st'[p].pick = st[p].pick
           /\ st'[p].result = outcome
<1> DEFINE step == IF surface = "session" THEN "outcome" ELSE "idle"
           new == [st[p] EXCEPT !.pc = step, !.result = outcome]
<1>1. st[p] \in Locals
  BY DEF Shape
<1>2. step \in Steps
  BY DEF Steps, RunSteps
<1>3. new \in Locals
  BY <1>1, <1>2 DEF Locals, Steps
<1>4. st' = [st EXCEPT ![p] = new]
  BY <1>1 DEF Return, Returned, Shape
<1> HIDE DEF new
<1>5. Moves(p) /\ st'[p] = new
  BY <1>3, <1>4, Became
<1> QED
  BY <1>1, <1>5 DEF Locals, new

\* A run whose runner returned knows its attempt, and why it was turned away.
LEMMA ReturnKnows ==
    ASSUME IInv, Shape', Grows, NEW p \in Proc, Running(p), NEW outcome \in Results,
           Return(p, outcome), outcome \notin {"notApproved", "spent"} \/ TurnedAway(p)'
    PROVE  Knows(p)' /\ ~Holding(p)'
<1>1. /\ st'[p].pc = IF surface = "session" THEN "outcome" ELSE "idle"
      /\ st'[p].subject = st[p].subject /\ st'[p].binding = st[p].binding
      /\ st'[p].view = st[p].view /\ st'[p].result = outcome
  BY ReturnMoves DEF IInv
<1>2. st'[p].view <= Len(ledger')
  <2>1. Len(ledger) \in Nat /\ Len(ledger') \in Nat /\ st[p].view \in Nat
    BY LenProperties DEF IInv, Shape, Locals
  <2> QED
    BY <1>1, <2>1 DEF IInv, Knows, Grows
<1>3. surface = "session" =>
        st[p].subject \in 1..Len(attempts') /\ st[p].binding = attempts'[st[p].subject]
  <2>1. Len(attempts) \in Nat /\ Len(attempts') \in Nat
    BY LenProperties DEF IInv, Shape
  <2> QED
    BY <2>1 DEF IInv, Knows, Lawful, Grows
<1>4. surface' = surface /\ surface \in {"loop", "route", "session"}
  BY DEF Grows, IInv, Shape
<1>5. Lawful(p)'
  BY <1>1, <1>3, <1>4 DEF Lawful, Running, RunSteps
<1>6. TurnedAway(p)'
  BY <1>1, <1>4 DEF TurnedAway, Running, RunSteps
<1> QED
  BY <1>1, <1>2, <1>5, <1>6 DEF Knows, Chosen, Holding

\* A run that returns, with or without a denial on the ledger.
LEMMA ReturnStep ==
    ASSUME IInv, NEW p \in Proc, Running(p), NEW outcome \in Results, Return(p, outcome),
           outcome \notin {"notApproved", "spent"} \/ TurnedAway(p)',
           UNCHANGED <<worldVars, sessionVars, consumed, spawned>>,
           ledger' = ledger \/ ledger' = Append(ledger, Other("denied", None))
    PROVE  IInv'
<1>1. Quietly(p)
  BY ReturnMoves DEF Quietly, IInv
<1>2. Shape' /\ Grows
  BY <1>1, QuietShape DEF IInv
<1>3. Knows(p)' /\ ~Holding(p)'
  BY <1>2, ReturnKnows
<1> QED
  BY <1>1, <1>3, QuietStep

LEMMA DenyStep ==
    ASSUME IInv, NEW p \in Proc, Running(p), NEW outcome \in Results, Deny(p, outcome),
           outcome \notin {"notApproved", "spent"} \/ TurnedAway(p)',
           UNCHANGED <<worldVars, sessionVars, consumed, spawned>>
    PROVE  IInv'
BY ReturnStep DEF Deny

---------------------------------------------------------------------------
(* The gates.                                                              *)

\* What the steps of a run rest on.
LEMMA RunIsTyped ==
    ASSUME IInv, NEW p \in Proc
    PROVE  /\ Shape /\ Knows(p) /\ st[p] \in Locals /\ surface \in {"loop", "route", "session"}
           /\ st[p].view \in Nat /\ st[p].pick \in Nat
           /\ Len(ledger) \in Nat /\ Len(attempts) \in Nat
BY LenProperties DEF IInv, Shape, Locals

\* p's locals but for the step are as they were, and nothing else that p knows changed.
LEMMA GoesOn ==
    ASSUME IInv, NEW p \in Proc, Quietly(p), Running(p), Running(p)', ~Holding(p)', Lawful(p)',
           Chosen(p)' => Chosen(p),
           st'[p].subject = st[p].subject, st'[p].view = st[p].view,
           st'[p].pick = st[p].pick, st'[p].result = st[p].result
    PROVE  IInv'
<1>3. Shape' /\ Grows
  BY QuietShape DEF IInv
<1>4. \A i \in 1..st[p].view : /\ ledger'[i] = ledger[i]
                               /\ IsApproval(i)' <=> IsApproval(i)
                               /\ i \in Taken => i \in Taken'
  <2>1. \A i \in 1..st[p].view : i \in 1..Len(ledger)
    BY RunIsTyped DEF Knows
  <2> QED
    BY <1>3, <2>1, ApprovalsKept DEF IInv
<1>5. Chosen(p) => st[p].pick \in 1..st[p].view /\ Choice(p)
  BY RunIsTyped DEF Knows, Choice
<1>6. Chosen(p)' => Choice(p)'
  BY <1>3, <1>4, <1>5 DEF Choice, Grows
<1>7. TurnedAway(p)'
  BY <1>3, <1>4, RunIsTyped DEF TurnedAway, Grows, Knows
<1>8. st'[p].view <= Len(ledger')
  BY QuietShape, RunIsTyped DEF Knows, IInv
<1>9. Knows(p)'
  BY <1>6, <1>7, <1>8 DEF Knows, Running, RunSteps
<1> QED
  BY <1>9, QuietStep

\* So for a run that goes on without any change to its other locals.
LEMMA GotoStep ==
    ASSUME IInv, NEW p \in Proc, NEW step \in RunSteps \ {"execute", "budget", "record"},
           Goto(p, step), UNCHANGED <<worldVars, sessionVars, consumed, spawned>>,
           ledger' = ledger, Running(p), Chosen(p)' => Chosen(p), Lawful(p)'
    PROVE  IInv'
<1>1. step \in Steps
  BY DEF Steps
<1>2. /\ Moves(p) /\ st'[p].pc = step
      /\ st'[p].subject = st[p].subject
      /\ st'[p].view = st[p].view /\ st'[p].pick = st[p].pick /\ st'[p].result = st[p].result
  BY <1>1, GotoMoves DEF IInv
<1>3. Quietly(p) /\ Running(p)' /\ ~Holding(p)'
  BY <1>2 DEF Quietly, Running, Holding
<1> QED
  BY <1>2, <1>3, GoesOn

LEMMA VerifyStep == ASSUME IInv, NEW p \in Proc, Verify(p) PROVE IInv'
<1>1. /\ st[p].pc = "verify" /\ Running(p) /\ ~Holding(p)
      /\ UNCHANGED <<worldVars, sessionVars, ledger, consumed, spawned>>
  BY DEF Verify, At, Running, RunSteps, Holding
<1>2. CASE Return(p, "tampered")
  BY <1>1, <1>2, ReturnStep DEF Results
<1>3. CASE Goto(p, IF surface = "route" THEN "packRules" ELSE "rules")
  <2> DEFINE step == IF surface = "route" THEN "packRules" ELSE "rules"
  <2>1. step \in RunSteps \ {"execute", "budget", "record"} /\ step \in Steps
    BY DEF RunSteps, Steps
  <2>2. ~Chosen(p)' /\ Lawful(p)'
    BY <1>1, <1>3, <2>1, GotoMoves, RunIsTyped
    DEF Chosen, Knows, Lawful, Running, RunSteps, worldVars, sessionVars
  <2> QED
    BY <1>1, <1>3, <2>1, <2>2, GotoStep
<1> QED
  BY <1>2, <1>3 DEF Verify

LEMMA PackRulesStep == ASSUME IInv, NEW p \in Proc, PackRules(p) PROVE IInv'
<1>1. /\ st[p].pc = "packRules" /\ Running(p) /\ ~Holding(p)
      /\ UNCHANGED <<worldVars, sessionVars, consumed, spawned>>
  BY DEF PackRules, At, Running, RunSteps, Holding
<1>2. CASE Deny(p, "packRules")
  BY <1>1, <1>2, DenyStep DEF Results
<1>3. CASE st[p].pack \notin Widening /\ Goto(p, "rules") /\ UNCHANGED ledger
  <2>1. "rules" \in RunSteps \ {"execute", "budget", "record"} /\ "rules" \in Steps
    BY DEF RunSteps, Steps
  <2>2. ~Chosen(p)' /\ Lawful(p)'
    BY <1>1, <1>3, <2>1, GotoMoves, RunIsTyped
    DEF Chosen, Knows, Lawful, Running, RunSteps, worldVars, sessionVars
  <2> QED
    BY <1>1, <1>3, <2>1, <2>2, GotoStep
<1> QED
  BY <1>1, <1>2, <1>3 DEF PackRules

LEMMA RulesStep == ASSUME IInv, NEW p \in Proc, Rules(p) PROVE IInv'
<1>1. /\ st[p].pc = "rules" /\ Running(p) /\ ~Holding(p)
      /\ UNCHANGED <<worldVars, sessionVars, consumed, spawned>>
  BY DEF Rules, At, Running, RunSteps, Holding
<1>2. CASE policy \in Denying
  BY <1>1, <1>2, DenyStep DEF Results, Rules
<1>3. CASE policy \notin Denying
  <2> DEFINE step == IF surface = "session" THEN "admit" ELSE "select"
             new == [st[p] EXCEPT !.pc = step, !.rules = policy]
  <2>1. st[p] \in Locals /\ step \in RunSteps
    BY RunIsTyped DEF RunSteps
  <2>2. new \in Locals
    BY <2>1 DEF Locals, IInv, Shape
  <2>3. st' = [st EXCEPT ![p] = new] /\ ledger' = ledger
    BY <1>3, <2>1 DEF Rules, IInv, Shape
  <2>4. /\ new.pc = step /\ new.rules = policy
        /\ new.subject = st[p].subject /\ new.pack = st[p].pack /\ new.binding = st[p].binding
        /\ new.view = st[p].view /\ new.pick = st[p].pick /\ new.result = st[p].result
    BY <2>1 DEF Locals
  <2> HIDE DEF new
  <2>5. Moves(p) /\ st'[p] = new
    BY <2>2, <2>3, Became DEF IInv
  <2>6. Quietly(p)
    BY <1>1, <2>3, <2>5 DEF Quietly
  <2>7. Lawful(p)' /\ Running(p)' /\ ~Chosen(p)' /\ ~Holding(p)'
    BY <1>1, <1>3, <2>4, <2>5, RunIsTyped
    DEF Chosen, Holding, Knows, Lawful, Running, RunSteps, worldVars, sessionVars, Shape
  <2> QED
    BY <1>1, <2>4, <2>5, <2>6, <2>7, GoesOn
<1> QED
  BY <1>2, <1>3

LEMMA AdmitStep == ASSUME IInv, NEW p \in Proc, Admit(p) PROVE IInv'
<1>1. /\ st[p].pc = "admit" /\ Running(p) /\ ~Holding(p) /\ surface = "session"
      /\ UNCHANGED <<worldVars, sessionVars, consumed, spawned>>
  BY RunIsTyped DEF Admit, At, Running, RunSteps, Holding, Knows, Lawful
<1>2. CASE AdmissionProblem(p)
  BY <1>1, <1>2, DenyStep DEF Results, Admit
<1>3. CASE ~AdmissionProblem(p)
  <2> DEFINE new == [st[p] EXCEPT !.pc = "select", !.pack = pack]
  <2>1. st[p] \in Locals /\ "select" \in RunSteps
    BY RunIsTyped DEF RunSteps
  <2>2. new \in Locals
    BY <2>1 DEF Locals, IInv, Shape
  <2>3. /\ st' = [st EXCEPT ![p] = new]
        /\ ledger' = Append(ledger, Other("policy.evaluated", None))
    BY <1>3, <2>1 DEF Admit, IInv, Shape
  <2>4. /\ new.pc = "select" /\ new.rules = st[p].rules
        /\ new.subject = st[p].subject /\ new.pack = pack /\ new.binding = st[p].binding
        /\ new.view = st[p].view /\ new.pick = st[p].pick /\ new.result = st[p].result
    BY <2>1 DEF Locals
  <2> HIDE DEF new
  <2>5. Moves(p) /\ st'[p] = new
    BY <2>2, <2>3, Became DEF IInv
  <2>6. Quietly(p)
    BY <1>1, <2>3, <2>5 DEF Quietly
  <2>7. Lawful(p)' /\ Running(p)' /\ ~Chosen(p)' /\ ~Holding(p)'
    BY <1>1, <1>3, <2>4, <2>5, RunIsTyped
    DEF Chosen, Holding, Knows, Lawful, Running, RunSteps, worldVars, sessionVars, AdmissionProblem
  <2> QED
    BY <1>1, <2>4, <2>5, <2>6, <2>7, GoesOn
<1> QED
  BY <1>2, <1>3

\* An approval of a loop that an execution named was taken.
LEMMA ExecutedIsTaken ==
    ASSUME IInv, surface = "loop", NEW i \in 1..Len(ledger), IsApproval(i),
           ledger[i].key \in ExecutedKeys
    PROVE  i \in Taken
<1>1. PICK j \in 1..Len(spawned) : ledger[spawned[j].grant].key = ledger[i].key
  BY DEF IInv, SpawnedOnce
<1>2. spawned[j].grant \in Taken /\ IsApproval(spawned[j].grant)
  BY DEF IInv, SpawnedOnConsumed, Marked, Taken
<1>3. spawned[j].grant = i
  BY <1>1, <1>2 DEF IInv, LoopKeys, IsApproval
<1> QED
  BY <1>2, <1>3

LEMMA SelectStep == ASSUME IInv, NEW p \in Proc, Select(p) PROVE IInv'
<1> DEFINE S == {i \in Open : surface = "session" => ledger[i].subject = st[p].subject}
           pick == Latest(S)
<1>1. /\ st[p].pc = "select" /\ Running(p) /\ ~Holding(p)
      /\ UNCHANGED <<worldVars, sessionVars, ledger, consumed, spawned>>
      /\ UNCHANGED <<surface, attempts>>
  BY DEF Select, At, Running, RunSteps, Holding, worldVars, sessionVars
<1>2. /\ st[p] \in Locals /\ Len(ledger) \in Nat /\ S \subseteq 1..Len(ledger)
      /\ Lawful(p) /\ surface \in {"loop", "route", "session"} /\ TurnedAway(p)
  BY RunIsTyped DEF Open, Knows
<1>3. \/ S = {} /\ pick = 0
      \/ pick \in S /\ \A i \in S : i <= pick
  BY <1>2, LatestIsGreatest
<1>4. pick \in Nat
  BY <1>2, <1>3
<1>5. ASSUME surface = "loop", NEW i \in 1..Len(ledger), IsApproval(i), i \notin S
      PROVE  i \in Taken
  BY <1>5, ExecutedIsTaken DEF Open, IsApproval
<1>6. /\ \A i : IsApproval(i)' <=> IsApproval(i)
      /\ Taken' = Taken
  BY <1>1 DEF IsApproval, Taken
<1>7. CASE pick = 0
  <2> DEFINE step == IF surface = "session" THEN "outcome" ELSE "idle"
             new == [st[p] EXCEPT !.pc = step, !.result = "notApproved", !.view = Len(ledger),
                                  !.pick = 0]
  <2>1. step \in Steps /\ "notApproved" \in Results /\ S = {}
    BY <1>2, <1>3, <1>7 DEF Steps, RunSteps, Results
  <2>2. new \in Locals
    BY <1>2, <2>1 DEF Locals, Steps
  <2>3. st' = [st EXCEPT ![p] = new]
    <3> DEFINE back == [st[p] EXCEPT !.pc = step, !.result = "notApproved"]
    <3>1. Returned(p, "notApproved") = [st EXCEPT ![p] = back]
      BY <1>2 DEF Returned, IInv, Shape
    <3>2. st' = [Returned(p, "notApproved") EXCEPT ![p].view = Len(ledger), ![p].pick = 0,
                                                   ![p].pc = @]
      BY <1>7 DEF Select
    <3>3. st' = [[st EXCEPT ![p] = back] EXCEPT ![p] = [back EXCEPT !.view = Len(ledger), !.pick = 0,
                                                                 !.pc = @]]
      <4> HIDE DEF back
      <4> QED
        BY <3>1, <3>2 DEF IInv, Shape
    <3>4. [back EXCEPT !.view = Len(ledger), !.pick = 0, !.pc = @] = new
      BY <1>2 DEF Locals
    <3> HIDE DEF back, new
    <3> QED
      BY <3>3, <3>4 DEF IInv, Shape
  <2>4. /\ new.pc = step /\ new.result = "notApproved" /\ new.view = Len(ledger)
        /\ new.subject = st[p].subject /\ new.binding = st[p].binding
    BY <1>2 DEF Locals
  <2> HIDE DEF new
  <2>5. Moves(p) /\ st'[p] = new
    BY <2>2, <2>3, Became DEF IInv
  <2>6. Quietly(p)
    BY <1>1, <2>5 DEF Quietly
  <2>7. /\ Lawful(p)' /\ ~Chosen(p)' /\ ~Holding(p)'
        /\ surface = "loop" => ~Running(p)'
    BY <1>1, <1>2, <2>4, <2>5 DEF Chosen, Holding, Lawful, Running, RunSteps
  <2>8. TurnedAway(p)'
    BY <1>1, <1>5, <1>6, <2>1, <2>4, <2>5, <2>7 DEF TurnedAway
  <2>9. Knows(p)'
    BY <1>1, <1>2, <2>4, <2>5, <2>7, <2>8 DEF Knows
  <2> QED
    BY <2>6, <2>7, <2>9, QuietStep
<1>8. CASE pick # 0
  <2> DEFINE new == [st[p] EXCEPT !.pc = "eligible", !.view = Len(ledger), !.pick = pick]
  <2>1. new \in Locals
    BY <1>2, <1>4 DEF Locals, RunSteps
  <2>2. st' = [st EXCEPT ![p] = new]
    BY <1>2, <1>8 DEF Select, IInv, Shape
  <2>3. /\ new.pc = "eligible" /\ new.result = st[p].result /\ new.view = Len(ledger)
        /\ new.subject = st[p].subject /\ new.binding = st[p].binding /\ new.pick = pick
        /\ new.rules = st[p].rules /\ new.pack = st[p].pack
    BY <1>2 DEF Locals
  <2> HIDE DEF new
  <2>4. Moves(p) /\ st'[p] = new
    BY <2>1, <2>2, Became DEF IInv
  <2>5. Quietly(p)
    BY <1>1, <2>4 DEF Quietly
  <2>6. pick \in S /\ pick \in 1..Len(ledger) /\ \A i \in S : i <= pick
    BY <1>2, <1>3, <1>8
  <2>7. IsApproval(pick) /\ (surface = "session" => ledger[pick].subject = st[p].subject)
    BY <2>6 DEF Open, IsApproval
  <2>8. ASSUME surface = "loop", NEW i \in 1..Len(ledger), IsApproval(i), i > pick
        PROVE  i \in Taken
    <3> HIDE DEF S, pick
    <3>1. i \notin S
      BY <1>2, <1>4, <2>6, <2>8
    <3> QED
      BY <1>5, <2>8, <3>1
  <2> HIDE DEF pick
  <2>9. Choice(p)'
    BY <1>1, <1>6, <2>3, <2>4, <2>6, <2>7, <2>8 DEF Choice
  <2>10. Lawful(p)' /\ ~Holding(p)' /\ Running(p)'
    BY <1>1, <1>2, <2>3, <2>4 DEF Holding, Lawful, Running, RunSteps
  <2>11. TurnedAway(p)'
    BY <1>1, <1>2, <2>3, <2>4 DEF TurnedAway
  <2>12. Knows(p)'
    BY <1>1, <1>2, <2>3, <2>4, <2>9, <2>10, <2>11 DEF Knows
  <2> QED
    BY <2>5, <2>10, <2>12, QuietStep
<1> QED
  BY <1>7, <1>8

LEMMA EligibleStep == ASSUME IInv, NEW p \in Proc, Eligible(p) PROVE IInv'
<1>1. /\ st[p].pc = "eligible" /\ Running(p) /\ ~Holding(p) /\ Chosen(p)
      /\ UNCHANGED <<worldVars, sessionVars, consumed, spawned>>
  BY DEF Eligible, At, Running, RunSteps, Holding, Chosen
<1>2. CASE Deny(p, "drift")
  BY <1>1, <1>2, DenyStep DEF Results
<1>3. CASE /\ ~(st[p].binding # None /\ ledger[st[p].pick].binding # st[p].binding)
           /\ Goto(p, "consume") /\ UNCHANGED ledger
  <2>1. "consume" \in RunSteps \ {"execute", "budget", "record"} /\ "consume" \in Steps
    BY DEF RunSteps, Steps
  <2>2. surface = "loop" => ledger[st[p].pick].binding = st[p].binding
    BY <1>1, <1>3, RunIsTyped, BindingAssumption DEF Knows, Lawful, Binding
  <2>3. Lawful(p)'
    BY <1>1, <1>3, <2>1, <2>2, GotoMoves, RunIsTyped
    DEF Knows, Lawful, Running, RunSteps, worldVars, sessionVars
  <2> QED
    BY <1>1, <1>3, <2>1, <2>3, GotoStep
<1> QED
  BY <1>2, <1>3 DEF Eligible

---------------------------------------------------------------------------
(* The steps that mark, spawn and record.                                  *)

\* The approval a run has chosen is one by its type, and is where it was.
LEMMA PickIsApproval ==
    ASSUME IInv, NEW p \in Proc, Chosen(p)
    PROVE  /\ st[p].pick \in 1..Len(ledger) /\ IsApproval(st[p].pick) /\ Choice(p)
           /\ ledger[st[p].pick] \in Approval /\ PickKey(p) \in Subjects
<1>1. Choice(p) /\ IsApproval(st[p].pick) /\ st[p].pick \in 1..Len(ledger)
  BY DEF IInv, Knows, Choice, IsApproval
<1>2. ledger[st[p].pick] \in Approval \cup OtherEvent
  BY <1>1, ElementOfSeq DEF IInv, Shape
<1>3. ledger[st[p].pick] \in Approval
  BY <1>1, <1>2 DEF IsApproval, OtherEvent
<1> QED
  BY <1>1, <1>3 DEF PickKey, Approval

\* A marked key is the key of the approval that was taken.
LEMMA TakenKeys ==
    ASSUME IInv
    PROVE  \A key : key \in {c.key : c \in consumed} <=> \E i \in Taken : ledger[i].key = key
BY DEF IInv, Marked, Taken

\* What is spawned is marked, and what was executed is spawned.
LEMMA KeysAreMarked ==
    ASSUME IInv
    PROVE  /\ SpawnedKeys \subseteq {c.key : c \in consumed}
           /\ ExecutedKeys \subseteq SpawnedKeys
<1>1. SpawnedKeys \subseteq {c.key : c \in consumed}
  BY TakenKeys DEF IInv, SpawnedOnConsumed, SpawnedKeys
<1>2. ExecutedKeys \subseteq SpawnedKeys
  BY DEF IInv, SpawnedOnce, SpawnedKeys
<1> QED
  BY <1>1, <1>2

\* A run that finds the key of its approval marked is turned away rightly.
LEMMA SpentIsTaken ==
    ASSUME IInv, NEW p \in Proc, Chosen(p), surface = "loop",
           PickKey(p) \in {c.key : c \in consumed}
    PROVE  \E i \in 1..st[p].view :
              /\ IsApproval(i) /\ i \in Taken
              /\ \A j \in 1..st[p].view : IsApproval(j) => j <= i
<1> DEFINE A == {i \in 1..st[p].view : IsApproval(i)}
<1>1. Choice(p) /\ st[p].view \in Nat /\ st[p].pick \in A
  BY PickIsApproval, RunIsTyped DEF Choice
<1>2. st[p].pick \in Taken
  <2>1. PICK i \in Taken : ledger[i].key = PickKey(p)
    BY TakenKeys
  <2>2. IsApproval(i)
    BY DEF IInv, Marked, Taken
  <2>3. i = ledger[i].key /\ st[p].pick = PickKey(p)
    BY <2>2, PickIsApproval DEF IInv, LoopKeys, PickKey, IsApproval
  <2> QED
    BY <2>1, <2>3
<1>3. PICK m \in A : \A i \in A : i <= m
  BY <1>1, HasGreatest
<1>4. m \in Taken
  <2>1. CASE m = st[p].pick
    BY <1>2, <2>1
  <2>2. CASE m > st[p].pick
    BY <1>1, <2>2 DEF Choice
  <2>3. m >= st[p].pick /\ m \in Nat /\ st[p].pick \in Nat
    BY <1>1, <1>3
  <2> QED
    BY <2>1, <2>2, <2>3
<1> QED
  BY <1>3, <1>4

LEMMA ConsumeStep == ASSUME IInv, NEW p \in Proc, Consume(p) PROVE IInv'
<1>1. /\ st[p].pc = "consume" /\ Running(p) /\ ~Holding(p) /\ Chosen(p)
      /\ UNCHANGED <<worldVars, sessionVars, spawned>>
      /\ UNCHANGED <<surface, pack, policy, expired, attempts, closed, spawned>>
  BY DEF Consume, At, Running, RunSteps, Holding, Chosen, worldVars, sessionVars
<1>2. CASE Return(p, "noRepository") /\ UNCHANGED <<ledger, consumed>>
  BY <1>1, <1>2, ReturnStep DEF Results
<1>3. CASE /\ PickKey(p) \in {c.key : c \in consumed}
           /\ Deny(p, "spent") /\ UNCHANGED consumed
  <2>1. "spent" \in Results /\ Return(p, "spent")
    BY <1>3 DEF Results, Deny
  <2>2. st'[p].pc = (IF surface = "session" THEN "outcome" ELSE "idle") /\ st'[p].view = st[p].view
        /\ st'[p].result = "spent" /\ Moves(p)
    BY <2>1, ReturnMoves DEF IInv
  <2>3. Shape' /\ Grows
    BY <1>1, <1>3, <2>2, QuietShape DEF IInv, Quietly, Deny
  <2>4. \A i \in 1..st[p].view : /\ IsApproval(i)' <=> IsApproval(i)
                                 /\ i \in Taken => i \in Taken'
    <3>1. \A i \in 1..st[p].view : i \in 1..Len(ledger)
      BY RunIsTyped DEF Knows
    <3> QED
      BY <2>3, <3>1, ApprovalsKept DEF IInv
  <2>5. TurnedAway(p)'
    BY <1>1, <1>3, <2>2, <2>4, SpentIsTaken DEF TurnedAway, Running, RunSteps
  <2> QED
    BY <1>1, <1>3, <2>1, <2>5, DenyStep
<1>4. CASE /\ PickKey(p) \notin {c.key : c \in consumed}
           /\ consumed' = consumed \cup {[key |-> PickKey(p), grant |-> st[p].pick]}
           /\ Goto(p, "execute") /\ UNCHANGED ledger
  <2>1. "execute" \in Steps
    BY DEF Steps, RunSteps
  <2>2. /\ Moves(p) /\ st'[p].pc = "execute"
        /\ st'[p].subject = st[p].subject /\ st'[p].pack = st[p].pack
        /\ st'[p].binding = st[p].binding /\ st'[p].rules = st[p].rules
        /\ st'[p].view = st[p].view /\ st'[p].pick = st[p].pick
        /\ st'[p].result = st[p].result
    BY <1>4, <2>1, GotoMoves DEF IInv
  <2>3. /\ PickKey(p) \in Subjects /\ st[p].pick \in Nat /\ IsApproval(st[p].pick) /\ Choice(p)
        /\ st[p].pick \in 1..Len(ledger)
    BY <1>1, PickIsApproval, RunIsTyped
  <2>4. Shape' /\ Grows
    <3>1. Len(ledger) \in Nat /\ Len(attempts) \in Nat
      BY RunIsTyped
    <3>2. consumed' \subseteq [key : Subjects, grant : Nat]
      BY <1>4, <2>3 DEF IInv, Shape
    <3> QED
      BY <1>1, <1>4, <2>2, <3>1, <3>2 DEF IInv, Shape, Moves, Grows
  <2>5. Marked'
    BY <1>4, <2>3 DEF IInv, Marked, IsApproval, PickKey
  <2>6. Taken' = Taken \cup {st[p].pick}
    <3> DEFINE mark == [key |-> PickKey(p), grant |-> st[p].pick]
    <3>1. mark.grant = st[p].pick /\ consumed' = consumed \cup {mark}
      BY <1>4
    <3> HIDE DEF mark
    <3> QED
      BY <3>1 DEF Taken
  <2>7. SpawnedKeys' = SpawnedKeys /\ ExecutedKeys' = ExecutedKeys
    BY <1>1, <1>4 DEF SpawnedKeys, ExecutedKeys
  <2>8. LoopKeys' /\ SpawnedOnConsumed' /\ OfAnAttempt'
    BY <1>1, <1>4, <2>6 DEF IInv, LoopKeys, SpawnedOnConsumed, OfAnAttempt, IsApproval
  <2>9. SpawnedOnce' /\ OnlyWhatWasApproved'
    BY <1>1, <1>4, <2>7 DEF IInv, SpawnedOnce, OnlyWhatWasApproved
  <2>10. PickKey(p)' = PickKey(p)
    BY <1>4, <2>2 DEF PickKey
  <2>11. Knows(p)'
    <3>1. Choice(p)'
      BY <1>1, <1>4, <2>2, <2>3, <2>6 DEF Choice, IsApproval
    <3>2. Held(p)'
      BY <1>4, <2>2, <2>6, <2>7, <2>10, KeysAreMarked DEF Held
    <3>3. Lawful(p)'
      BY <1>1, <1>4, <2>2, RunIsTyped DEF Knows, Lawful, Running, RunSteps
    <3>4. TurnedAway(p)'
      BY <1>1, <2>2, RunIsTyped DEF Knows, TurnedAway
    <3>5. st'[p].view <= Len(ledger')
      BY <1>4, <2>2, RunIsTyped DEF Knows
    <3> QED
      BY <2>2, <3>1, <3>2, <3>3, <3>4, <3>5 DEF Knows
  <2>12. ASSUME NEW q \in Proc \ {p} PROVE Knows(q)' /\ st'[q] = st[q]
    BY <2>2, <2>4, <2>7, KnowsKept DEF IInv, Moves
  <2>13. HoldsAlone'
    <3>1. ASSUME NEW q \in Proc \ {p}, Holding(q)'
          PROVE  Holding(q) /\ PickKey(q)' = PickKey(q) /\ PickKey(q) # PickKey(p)
      <4>1. Holding(q) /\ PickKey(q)' = PickKey(q)
        BY <1>4, <2>12, <3>1 DEF Holding, PickKey
      <4>2. st[q].pick \in Taken
        BY <4>1 DEF IInv, Knows, Held
      <4>3. PickKey(q) \in {c.key : c \in consumed}
        BY <4>2, TakenKeys DEF PickKey
      <4> QED
        BY <1>4, <4>1, <4>3
    <3> QED
      BY <2>10, <3>1 DEF IInv, HoldsAlone
  <2> QED
    BY <2>4, <2>5, <2>8, <2>9, <2>11, <2>12, <2>13 DEF IInv
<1> QED
  BY <1>2, <1>3, <1>4 DEF Consume, PickKey

LEMMA ExecuteStep == ASSUME IInv, NEW p \in Proc, Execute(p) PROVE IInv'
<1>1. /\ st[p].pc = "execute" /\ Running(p) /\ Holding(p) /\ Chosen(p)
      /\ UNCHANGED <<worldVars, sessionVars, ledger, consumed>>
      /\ UNCHANGED <<surface, pack, policy, expired, attempts, closed, ledger, consumed>>
  BY DEF Execute, At, Running, RunSteps, Holding, Chosen, worldVars, sessionVars
<1>2. CASE Return(p, "error") /\ UNCHANGED spawned
  BY <1>1, <1>2, ReturnStep DEF Results
<1>3. CASE /\ spawned' = Append(spawned, Command(p))
           /\ \E timedOut \in BOOLEAN : Goto(p, IF timedOut THEN "budget" ELSE "record")
  <2>1. PICK step \in {"budget", "record"} : Goto(p, step)
    BY <1>3
  <2>2. step \in Steps
    BY DEF Steps, RunSteps
  <2>3. /\ Moves(p) /\ st'[p].pc = step
        /\ st'[p].subject = st[p].subject /\ st'[p].pack = st[p].pack
        /\ st'[p].binding = st[p].binding /\ st'[p].rules = st[p].rules
        /\ st'[p].view = st[p].view /\ st'[p].pick = st[p].pick
        /\ st'[p].result = st[p].result
    BY <2>1, <2>2, GotoMoves DEF IInv
  <2>4. /\ st[p] \in Locals /\ Command(p) \in Spawnable
        /\ Command(p).subject = st[p].subject /\ Command(p).pack = st[p].pack
        /\ Command(p).rules = st[p].rules /\ Command(p).binding = st[p].binding
        /\ Command(p).grant = st[p].pick
    BY RunIsTyped DEF Command, Spawnable, Locals
  <2>5. /\ Held(p) /\ Choice(p) /\ Lawful(p)
        /\ st[p].pick \in Taken /\ PickKey(p) \notin SpawnedKeys
    BY <1>1, RunIsTyped DEF Knows, Held
  <2>6. /\ spawned' \in Seq(Spawnable) /\ Len(spawned) \in Nat /\ Len(spawned') = Len(spawned) + 1
        /\ \A i \in 1..Len(spawned) : spawned'[i] = spawned[i]
        /\ spawned'[Len(spawned) + 1] = Command(p)
    BY <1>3, <2>4, AppendProperties DEF IInv, Shape
  <2>7. \A i \in 1..Len(spawned') : i \in 1..Len(spawned) \/ i = Len(spawned) + 1
    BY <2>6
  <2>8. Len(spawned) + 1 \in 1..Len(spawned') /\ 1..Len(spawned) \subseteq 1..Len(spawned')
    BY <2>6
  <2> HIDE DEF Command
  <2>9. Shape' /\ Grows
    BY <1>1, <2>3, <2>6, RunIsTyped DEF Shape, Moves, Grows
  <2>10. SpawnedKeys' = SpawnedKeys \cup {PickKey(p)}
    BY <1>1, <2>4, <2>6, <2>7, <2>8 DEF SpawnedKeys, PickKey
  <2>11. Taken' = Taken /\ ExecutedKeys' = ExecutedKeys
    BY <1>1 DEF Taken, ExecutedKeys
  <2>12. Marked' /\ LoopKeys'
    BY <1>1 DEF IInv, Marked, LoopKeys, IsApproval
  <2>13. SpawnedOnConsumed' /\ OfAnAttempt'
    <3>1. SpawnedOnConsumed'
      BY <2>4, <2>5, <2>6, <2>7, <2>11 DEF IInv, SpawnedOnConsumed
    <3>2. OfAnAttempt'
      BY <1>1, <2>4, <2>5, <2>6, <2>7 DEF IInv, OfAnAttempt, Lawful
    <3> QED
      BY <3>1, <3>2
  <2>14. SpawnedOnce'
    <3>1. ASSUME NEW i \in 1..Len(spawned'), NEW j \in 1..Len(spawned'),
                 ledger[spawned'[i].grant].key = ledger[spawned'[j].grant].key
          PROVE  i = j
      <4>1. CASE i \in 1..Len(spawned) /\ j \in 1..Len(spawned)
        BY <2>6, <3>1, <4>1 DEF IInv, SpawnedOnce
      <4>2. CASE i \in 1..Len(spawned) /\ j = Len(spawned) + 1
        BY <2>4, <2>5, <2>6, <3>1, <4>2 DEF SpawnedKeys, PickKey
      <4>3. CASE i = Len(spawned) + 1 /\ j \in 1..Len(spawned)
        BY <2>4, <2>5, <2>6, <3>1, <4>3 DEF SpawnedKeys, PickKey
      <4> QED
        BY <2>7, <4>1, <4>2, <4>3
    <3>2. ASSUME NEW key \in ExecutedKeys
          PROVE  \E i \in 1..Len(spawned') : ledger[spawned'[i].grant].key = key
      BY <2>6, <2>8 DEF IInv, SpawnedOnce
    <3>3. \A i, j \in 1..Len(ledger) :
            ledger[i].kind = "executed" /\ ledger[j] = ledger[i] => i = j
      BY DEF IInv, SpawnedOnce
    <3> QED
      BY <1>1, <2>11, <3>1, <3>2, <3>3 DEF SpawnedOnce
  <2>15. OnlyWhatWasApproved'
    <3> DEFINE Lawfully(command) ==
          /\ command.rules \notin Denying
          /\ surface # "session" => command.pack \notin Widening
          /\ surface = "loop" => /\ ledger[command.grant].binding = command.binding
                                 /\ command.binding.pack = command.pack
          /\ surface = "session" =>
               /\ ledger[command.grant].subject = command.subject
               /\ attempts[command.subject] = [pack |-> command.pack, policy |-> command.rules]
    <3>1. \A i \in 1..Len(spawned) : Lawfully(spawned[i])
      BY DEF IInv, OnlyWhatWasApproved
    <3>2. Lawfully(Command(p))
      <4>1. surface = "session" => attempts[st[p].subject] \in Binding
        BY <1>1, <2>5, ElementOfSeq DEF Lawful, IInv, Shape
      <4>2. surface = "session" => attempts[st[p].subject] = [pack |-> st[p].pack, policy |-> st[p].rules]
        BY <1>1, <2>5, <4>1 DEF Lawful, Binding
      <4>3. surface # "session" => st[p].pack \notin Widening
        BY <1>1, <2>5, RunIsTyped DEF Lawful
      <4> QED
        BY <1>1, <2>4, <2>5, <4>2, <4>3 DEF Lawful, Choice
    <3>3. \A i \in 1..Len(spawned') : Lawfully(spawned'[i])
      <4> HIDE DEF Lawfully
      <4> QED
        BY <2>6, <2>7, <3>1, <3>2
    <3> QED
      BY <1>1, <3>3 DEF OnlyWhatWasApproved
  <2>16. PickKey(p)' = PickKey(p) /\ st'[p].pc # "execute"
    BY <1>1, <2>3 DEF PickKey
  <2>17. Knows(p)'
    <3>1. Choice(p)'
      BY <1>1, <2>3, <2>5, <2>11 DEF Choice, IsApproval
    <3>2. Held(p)'
      BY <2>3, <2>5, <2>10, <2>11, <2>16, KeysAreMarked DEF Held
    <3>3. Lawful(p)'
      BY <1>1, <2>3, <2>5 DEF Lawful, Running, RunSteps
    <3>4. TurnedAway(p)'
      BY <1>1, <2>3, RunIsTyped DEF Knows, TurnedAway
    <3>5. st'[p].view <= Len(ledger')
      BY <1>1, <2>3, RunIsTyped DEF Knows
    <3> QED
      BY <2>3, <3>1, <3>2, <3>3, <3>4, <3>5 DEF Knows
  <2>18. ASSUME NEW q \in Proc \ {p} PROVE Knows(q)' /\ st'[q] = st[q]
    <3>1. Holding(q) => PickKey(q) # PickKey(p)
      BY <1>1 DEF IInv, HoldsAlone
    <3> QED
      BY <2>3, <2>9, <2>10, <2>11, <3>1, KnowsKept DEF IInv, Moves
  <2>19. HoldsAlone'
    <3>1. ASSUME NEW q \in Proc, Holding(q)' PROVE Holding(q) /\ PickKey(q)' = PickKey(q)
      BY <1>1, <2>16, <2>18, <3>1 DEF Holding, PickKey
    <3> QED
      BY <3>1 DEF IInv, HoldsAlone
  <2> QED
    BY <2>9, <2>12, <2>13, <2>14, <2>15, <2>17, <2>18, <2>19 DEF IInv
<1> QED
  BY <1>2, <1>3 DEF Execute

LEMMA RecordBudgetStep == ASSUME IInv, NEW p \in Proc, RecordBudget(p) PROVE IInv'
<1>1. /\ st[p].pc = "budget" /\ Running(p) /\ Holding(p) /\ Chosen(p)
      /\ UNCHANGED <<worldVars, sessionVars, consumed, spawned>>
      /\ UNCHANGED <<surface, attempts>>
  BY DEF RecordBudget, At, Running, RunSteps, Holding, Chosen, worldVars, sessionVars
<1>2. Goto(p, "record") /\ "record" \in Steps
  BY DEF RecordBudget, Steps, RunSteps
<1>3. /\ Moves(p) /\ st'[p].pc = "record"
      /\ st'[p].subject = st[p].subject /\ st'[p].binding = st[p].binding
      /\ st'[p].pack = st[p].pack
      /\ st'[p].view = st[p].view /\ st'[p].pick = st[p].pick
      /\ st'[p].result = st[p].result
  BY <1>2, GotoMoves DEF IInv
<1>4. Quietly(p)
  BY <1>1, <1>3 DEF Quietly, RecordBudget
<1>5. Shape' /\ Grows
  BY <1>4, QuietShape DEF IInv
<1>6. \A i \in 1..st[p].view : /\ ledger'[i] = ledger[i]
                               /\ IsApproval(i)' <=> IsApproval(i)
                               /\ i \in Taken => i \in Taken'
  <2>1. \A i \in 1..st[p].view : i \in 1..Len(ledger)
    BY RunIsTyped DEF Knows
  <2> QED
    BY <1>5, <2>1, ApprovalsKept DEF IInv
<1>7. Choice(p) /\ st[p].pick \in 1..st[p].view /\ Held(p) /\ Lawful(p) /\ TurnedAway(p)
  BY <1>1, RunIsTyped DEF Knows, Choice
<1>8. PickKey(p)' = PickKey(p)
  BY <1>3, <1>6, <1>7 DEF PickKey
<1>9. ExecutedKeys' = ExecutedKeys /\ SpawnedKeys' = SpawnedKeys
  <2>1. SpawnedKeys' = SpawnedKeys
    BY <1>1, <1>5, SpawnedKept
  <2>2. PICK event \in OtherEvent :
          ledger' = Append(ledger, event) /\ event.kind \notin {"approved", "executed"}
    BY OtherType DEF RecordBudget
  <2>3. /\ Len(ledger) \in Nat /\ Len(ledger') = Len(ledger) + 1
        /\ \A i \in 1..Len(ledger) : ledger'[i] = ledger[i]
        /\ ledger'[Len(ledger) + 1] = event
    BY <2>2, LedgerAppend DEF IInv
  <2>4. \A i \in 1..Len(ledger') : i \in 1..Len(ledger) \/ ledger'[i].kind # "executed"
    BY <2>2, <2>3
  <2>5. 1..Len(ledger) \subseteq 1..Len(ledger')
    BY <2>3
  <2> QED
    BY <2>1, <2>3, <2>4, <2>5 DEF ExecutedKeys
<1>10. Knows(p)'
  <2>1. Choice(p)'
    BY <1>1, <1>3, <1>6, <1>7 DEF Choice
  <2>2. Held(p)'
    BY <1>1, <1>3, <1>6, <1>7, <1>8, <1>9 DEF Held
  <2>3. Lawful(p)'
    BY <1>1, <1>3, <1>7 DEF Lawful, Running, RunSteps
  <2>4. TurnedAway(p)'
    BY <1>1, <1>3, <1>6, <1>7 DEF TurnedAway
  <2>5. st'[p].view <= Len(ledger')
    BY <1>3, <1>4, QuietShape, RunIsTyped DEF Knows, IInv
  <2> QED
    BY <1>3, <2>1, <2>2, <2>3, <2>4, <2>5 DEF Knows
<1> QED
  BY <1>1, <1>4, <1>8, <1>10, QuietStep

LEMMA RecordStep == ASSUME IInv, NEW p \in Proc, Record(p) PROVE IInv'
<1> DEFINE event == Other("executed", PickKey(p))
           last == Len(ledger) + 1
<1>1. /\ st[p].pc = "record" /\ Running(p) /\ Holding(p) /\ Chosen(p)
      /\ UNCHANGED <<worldVars, sessionVars, consumed, spawned>>
      /\ UNCHANGED <<surface, pack, policy, expired, attempts, closed, consumed, spawned>>
      /\ ledger' = Append(ledger, event) /\ Return(p, "executed") /\ "executed" \in Results
  BY DEF Record, At, Running, RunSteps, Holding, Chosen, worldVars, sessionVars, PickKey, Results
<1>2. Moves(p) /\ st'[p].pick = st[p].pick
  BY <1>1, ReturnMoves DEF IInv
<1>3. /\ event \in OtherEvent /\ event.kind = "executed" /\ event.key = PickKey(p)
  BY <1>1, PickIsApproval, OtherType
<1> HIDE DEF event
<1>4. /\ ledger' \in Seq(Approval \cup OtherEvent)
      /\ Len(ledger) \in Nat /\ Len(ledger') = last
      /\ \A i \in 1..Len(ledger) : ledger'[i] = ledger[i]
      /\ ledger'[last] = event
  BY <1>1, <1>3, LedgerAppend DEF IInv
<1>5. /\ \A i \in 1..Len(ledger') : i \in 1..Len(ledger) \/ i = last
      /\ 1..Len(ledger) \subseteq 1..Len(ledger') /\ last \in 1..Len(ledger')
  BY <1>4
<1>6. Shape' /\ Grows
  BY <1>1, <1>2, <1>4, RunIsTyped DEF Shape, Moves, Grows
<1>7. /\ SpawnedKeys' = SpawnedKeys
      /\ \A i \in 1..Len(spawned) : /\ spawned[i].grant \in 1..Len(ledger)
                                    /\ ledger'[spawned[i].grant] = ledger[spawned[i].grant]
  BY <1>1, <1>6, SpawnedKept
<1>8. ExecutedKeys' = ExecutedKeys \cup {PickKey(p)}
  BY <1>3, <1>4, <1>5 DEF ExecutedKeys
<1>9. PickKey(p) \in SpawnedKeys /\ PickKey(p) \notin ExecutedKeys
  BY <1>1 DEF IInv, Knows, Held
<1>10. Marked' /\ LoopKeys'
  BY <1>1, <1>3, <1>4, <1>5 DEF IInv, Marked, LoopKeys, IsApproval
<1>11. SpawnedOnConsumed' /\ OfAnAttempt'
  BY <1>1 DEF IInv, SpawnedOnConsumed, OfAnAttempt, Taken
<1>12. OnlyWhatWasApproved'
  BY <1>1, <1>7 DEF IInv, OnlyWhatWasApproved
<1>13. SpawnedOnce'
  <2>1. ASSUME NEW i \in 1..Len(ledger'), NEW j \in 1..Len(ledger'),
               ledger'[i].kind = "executed", ledger'[j] = ledger'[i]
        PROVE  i = j
    <3>1. CASE i \in 1..Len(ledger) /\ j \in 1..Len(ledger)
      BY <1>4, <2>1, <3>1 DEF IInv, SpawnedOnce
    <3>2. \A k \in 1..Len(ledger) : ledger[k] # event
      BY <1>3, <1>9 DEF ExecutedKeys
    <3> QED
      BY <1>4, <1>5, <2>1, <3>1, <3>2
  <2>2. ASSUME NEW i \in 1..Len(spawned), NEW j \in 1..Len(spawned),
               ledger'[spawned[i].grant].key = ledger'[spawned[j].grant].key
        PROVE  i = j
    BY <1>7, <2>2 DEF IInv, SpawnedOnce
  <2>3. ASSUME NEW key \in ExecutedKeys'
        PROVE  \E i \in 1..Len(spawned) : ledger'[spawned[i].grant].key = key
    <3>1. key \in SpawnedKeys
      BY <1>8, <1>9, KeysAreMarked
    <3> QED
      BY <1>7, <3>1 DEF SpawnedKeys
  <2>4. spawned' = spawned
    BY <1>1
  <2> QED
    BY <2>1, <2>2, <2>3, <2>4 DEF SpawnedOnce
<1>14. Knows(p)' /\ ~Holding(p)'
  BY <1>1, <1>6, ReturnKnows
<1>15. ASSUME NEW q \in Proc \ {p} PROVE Knows(q)' /\ st'[q] = st[q]
  <2>1. Holding(q) => PickKey(q) # PickKey(p)
    BY <1>1 DEF IInv, HoldsAlone
  <2> QED
    BY <1>2, <1>6, <1>7, <1>8, <2>1, KnowsKept DEF IInv, Moves
<1>16. HoldsAlone'
  <2>1. ASSUME NEW q \in Proc, Holding(q)' PROVE Holding(q) /\ PickKey(q)' = PickKey(q)
    <3>1. q # p
      BY <1>14, <2>1
    <3>2. Holding(q) /\ st'[q] = st[q]
      BY <1>15, <2>1, <3>1 DEF Holding
    <3>3. st[q].pick \in 1..Len(ledger)
      BY <3>2, PickIsApproval DEF Holding, Chosen
    <3> QED
      BY <1>4, <3>2, <3>3 DEF PickKey
  <2> QED
    BY <2>1 DEF IInv, HoldsAlone
<1> QED
  BY <1>6, <1>10, <1>11, <1>12, <1>13, <1>14, <1>15, <1>16 DEF IInv

LEMMA OutcomeStep == ASSUME IInv, NEW p \in Proc, Outcome(p) PROVE IInv'
<1>1. /\ st[p].pc = "outcome" /\ Running(p) /\ surface = "session"
      /\ UNCHANGED <<surface, pack, policy, expired, attempts, ledger, consumed, spawned>>
      /\ closed' = closed \cup {st[p].subject} /\ Goto(p, "idle") /\ "idle" \in Steps
  BY RunIsTyped DEF Outcome, At, Running, RunSteps, worldVars, Knows, Lawful, Steps
<1>2. Moves(p) /\ st'[p].pc = "idle" /\ st'[p].view = st[p].view
  BY <1>1, GotoMoves DEF IInv
<1>3. st[p].subject \in 1..Len(attempts)
  BY <1>1, RunIsTyped DEF Knows, Lawful
<1>4. Shape'
  BY <1>1, <1>2, <1>3 DEF IInv, Shape, Moves
<1>5. Knows(p)' /\ ~Holding(p)'
  BY <1>1, <1>2, RunIsTyped
  DEF Knows, Chosen, Holding, Lawful, Running, RunSteps, TurnedAway
<1> QED
  BY <1>1, <1>2, <1>4, <1>5, LocalStep, RunIsTyped

---------------------------------------------------------------------------
(* Approvals, and what begins a run.                                       *)

\* A process that is at one of its first steps, with locals that are new.
LEMMA StartStep ==
    ASSUME IInv, NEW p \in Proc, NEW new \in Locals, st' = [st EXCEPT ![p] = new],
           UNCHANGED <<worldVars, sessionVars, ledger, consumed, spawned>>,
           new.view = 0,
           new.pc \in {"idle", "approveBind", "approveAppend", "bind", "verify"},
           new.result \in {"none", "packRules", "awaiting", "approved"},
           new.pc # "idle" => new.result = "none",
           new.pc = "approveBind" => /\ surface = "loop" /\ new.pack \in Pack
                                     /\ new.subject \in Subjects,
           new.pc = "approveAppend" => new.subject \in Subjects,
           new.pc = "bind" => surface = "loop" /\ new.pack \in Pack \ Widening,
           new.pc = "verify" =>
             /\ surface # "loop"
             /\ surface = "session" => /\ new.subject \in 1..Len(attempts)
                                       /\ new.binding = attempts[new.subject]
    PROVE  IInv'
<1>1. Moves(p) /\ st'[p] = new
  BY Became DEF IInv
<1>2. Quietly(p)
  BY <1>1 DEF Quietly
<1>3. UNCHANGED <<surface, attempts>>
  BY DEF worldVars, sessionVars
<1>4. ~Chosen(p)' /\ ~Holding(p)'
  BY <1>1 DEF Chosen, Holding
<1>5. Lawful(p)'
  BY <1>1, <1>3, RunIsTyped DEF Lawful, Running, RunSteps
<1>6. TurnedAway(p)'
  BY <1>1 DEF TurnedAway, Running, RunSteps
<1>7. st'[p].view <= Len(ledger')
  BY <1>1, RunIsTyped
<1>8. Knows(p)'
  BY <1>1, <1>3, <1>4, <1>5, <1>6, <1>7 DEF Knows
<1> QED
  BY <1>2, <1>4, <1>8, QuietStep

LEMMA ApproveLoopStep == ASSUME IInv, NEW p \in Proc, ApproveLoop(p) PROVE IInv'
<1> DEFINE refused == [Idle EXCEPT !.result = "packRules"]
           begun == [Idle EXCEPT !.pc = "approveBind", !.subject = Contract, !.pack = pack]
<1>1. refused \in Locals /\ refused.view = 0 /\ refused.pc = "idle" /\ refused.result = "packRules"
  BY IdleType DEF Locals, Results
<1>2. Contract \in Subjects /\ pack \in Pack /\ surface = "loop"
  BY DEF Subjects, IInv, Shape, ApproveLoop
<1>3. /\ begun \in Locals /\ begun.view = 0 /\ begun.pc = "approveBind" /\ begun.result = "none"
      /\ begun.subject = Contract /\ begun.pack = pack
  BY <1>2, IdleType DEF Locals
<1>4. /\ st' = [st EXCEPT ![p] = refused] \/ st' = [st EXCEPT ![p] = begun]
      /\ UNCHANGED <<worldVars, sessionVars, ledger, consumed, spawned>>
  BY DEF ApproveLoop
<1> HIDE DEF refused, begun
<1> QED
  BY <1>1, <1>2, <1>3, <1>4, StartStep

LEMMA ApproveStageStep ==
    ASSUME IInv, NEW p \in Proc, NEW s \in Stage, ApproveStage(p, s) PROVE IInv'
<1> DEFINE begun == [Idle EXCEPT !.pc = "approveAppend", !.subject = s]
<1>1. s \in Subjects /\ surface = "route"
  BY DEF Subjects, ApproveStage
<1>2. /\ begun \in Locals /\ begun.view = 0 /\ begun.pc = "approveAppend" /\ begun.result = "none"
      /\ begun.subject = s
  BY <1>1, IdleType DEF Locals
<1>3. /\ st' = [st EXCEPT ![p] = begun]
      /\ UNCHANGED <<worldVars, sessionVars, ledger, consumed, spawned>>
  BY DEF ApproveStage
<1> HIDE DEF begun
<1> QED
  BY <1>1, <1>2, <1>3, StartStep

LEMMA ApproveAttemptStep ==
    ASSUME IInv, NEW p \in Proc, NEW a \in 1..Len(attempts), ApproveAttempt(p, a) PROVE IInv'
<1> DEFINE begun == [Idle EXCEPT !.pc = "approveAppend", !.subject = a, !.binding = attempts[a]]
<1>1. a \in Subjects /\ attempts[a] \in Binding
  BY ElementOfSeq, RunIsTyped DEF Subjects, IInv, Shape
<1>2. /\ begun \in Locals /\ begun.view = 0 /\ begun.pc = "approveAppend" /\ begun.result = "none"
      /\ begun.subject = a /\ begun.binding = attempts[a]
  BY <1>1, IdleType DEF Locals
<1>3. /\ st' = [st EXCEPT ![p] = begun]
      /\ UNCHANGED <<worldVars, sessionVars, ledger, consumed, spawned>>
  BY DEF ApproveAttempt
<1> HIDE DEF begun
<1> QED
  BY <1>1, <1>2, <1>3, StartStep

LEMMA RunLoopStep == ASSUME IInv, NEW p \in Proc, RunLoop(p) PROVE IInv'
<1> DEFINE refused == [Idle EXCEPT !.result = "packRules"]
           begun == [Idle EXCEPT !.pc = "bind", !.subject = Contract, !.pack = pack]
<1>1. refused \in Locals /\ refused.view = 0 /\ refused.pc = "idle" /\ refused.result = "packRules"
  BY IdleType DEF Locals, Results
<1>2. Contract \in Subjects /\ pack \in Pack /\ surface = "loop"
  BY DEF Subjects, IInv, Shape, RunLoop
<1>3. /\ begun \in Locals /\ begun.view = 0 /\ begun.pc = "bind" /\ begun.result = "none"
      /\ begun.pack = pack
  BY <1>2, IdleType DEF Locals, RunSteps
<1>4. /\ \/ st' = [st EXCEPT ![p] = refused]
         \/ pack \notin Widening /\ st' = [st EXCEPT ![p] = begun]
      /\ UNCHANGED <<worldVars, sessionVars, ledger, consumed, spawned>>
  BY DEF RunLoop
<1> HIDE DEF refused, begun
<1> QED
  BY <1>1, <1>2, <1>3, <1>4, StartStep

LEMMA RunStageStep ==
    ASSUME IInv, NEW p \in Proc, NEW s \in Stage, RunStage(p, s) PROVE IInv'
<1> DEFINE begun == [Idle EXCEPT !.pc = "verify", !.subject = s, !.pack = pack]
<1>1. s \in Subjects /\ surface = "route" /\ pack \in Pack
  BY DEF Subjects, RunStage, IInv, Shape
<1>2. begun \in Locals /\ begun.view = 0 /\ begun.pc = "verify" /\ begun.result = "none"
  BY <1>1, IdleType DEF Locals, RunSteps
<1>3. /\ st' = [st EXCEPT ![p] = begun]
      /\ UNCHANGED <<worldVars, sessionVars, ledger, consumed, spawned>>
  BY DEF RunStage
<1> HIDE DEF begun
<1> QED
  BY <1>1, <1>2, <1>3, StartStep

LEMMA RunAttemptStep == ASSUME IInv, NEW p \in Proc, RunAttempt(p) PROVE IInv'
<1> DEFINE a == Len(attempts)
           waiting == [Idle EXCEPT !.result = "awaiting"]
           begun == [Idle EXCEPT !.pc = "verify", !.subject = a, !.binding = attempts[a]]
<1>1. a \in 1..Len(attempts) /\ a \in Subjects /\ surface = "session"
  BY RunIsTyped DEF Subjects, RunAttempt
<1>2. attempts[a] \in Binding
  BY <1>1, ElementOfSeq DEF IInv, Shape
<1>3. waiting \in Locals /\ waiting.view = 0 /\ waiting.pc = "idle" /\ waiting.result = "awaiting"
  BY IdleType DEF Locals, Results
<1>4. /\ begun \in Locals /\ begun.view = 0 /\ begun.pc = "verify" /\ begun.result = "none"
      /\ begun.subject = a /\ begun.binding = attempts[a]
  BY <1>1, <1>2, IdleType DEF Locals, RunSteps
<1>5. /\ st' = [st EXCEPT ![p] = waiting] \/ st' = [st EXCEPT ![p] = begun]
      /\ UNCHANGED <<worldVars, sessionVars, ledger, consumed, spawned>>
  BY DEF RunAttempt
<1> HIDE DEF waiting, begun, a
<1> QED
  BY <1>1, <1>3, <1>4, <1>5, StartStep

LEMMA CrashStep == ASSUME IInv, NEW p \in Proc, Crash(p) PROVE IInv'
BY IdleType, StartStep DEF Crash

\* approvalBindingOf, for an approval and for a run.
LEMMA BindingStep ==
    ASSUME IInv, NEW p \in Proc, ApproveBind(p) \/ Bind(p) PROVE IInv'
<1> DEFINE step == IF st[p].pc = "bind" THEN "verify" ELSE "approveAppend"
           bound == [pack |-> st[p].pack, policy |-> policy]
           new == [st[p] EXCEPT !.pc = step, !.binding = bound]
<1>1. /\ st[p].pc \in {"bind", "approveBind"} /\ step \in Steps
      /\ UNCHANGED <<worldVars, sessionVars, ledger, consumed, spawned>>
      /\ UNCHANGED <<surface, attempts>>
  BY DEF ApproveBind, Bind, At, Steps, RunSteps, worldVars, sessionVars
<1>2. /\ st[p] \in Locals /\ surface = "loop" /\ st[p].pack \in Pack
      /\ st[p].pc = "bind" => /\ st[p].pack \notin Widening /\ st[p].result = "none"
      /\ st[p].pc = "approveBind" => st[p].subject \in Subjects
      /\ TurnedAway(p) /\ st[p].view <= Len(ledger)
  BY <1>1, RunIsTyped DEF Knows, Lawful, TurnedAway, Running, RunSteps
<1>3. bound \in Binding /\ bound.pack = st[p].pack
  BY <1>2 DEF Binding, IInv, Shape
<1> HIDE DEF bound
<1>4. new \in Locals
  BY <1>1, <1>2, <1>3 DEF Locals, Steps
<1>5. st' = [st EXCEPT ![p] = new]
  BY <1>1, <1>2 DEF ApproveBind, Bind, At, IInv, Shape, bound
<1>6. /\ new.pc = step /\ new.binding = bound /\ new.subject = st[p].subject
      /\ new.pack = st[p].pack /\ new.view = st[p].view /\ new.result = st[p].result
  BY <1>2 DEF Locals
<1> HIDE DEF new
<1>7. Moves(p) /\ st'[p] = new
  BY <1>4, <1>5, Became DEF IInv
<1>8. Quietly(p)
  BY <1>1, <1>7 DEF Quietly
<1>9. ~Chosen(p)' /\ ~Holding(p)'
  BY <1>6, <1>7 DEF Chosen, Holding
<1>10. Lawful(p)'
  BY <1>1, <1>2, <1>3, <1>6, <1>7 DEF Lawful, Running, RunSteps
<1>11. TurnedAway(p)'
  <2>1. /\ \A i : IsApproval(i)' <=> IsApproval(i)
        /\ Taken' = Taken
    BY <1>1 DEF IsApproval, Taken
  <2> QED
    BY <1>1, <1>2, <1>6, <1>7, <2>1 DEF TurnedAway, Running, RunSteps
<1>12. st'[p].view <= Len(ledger')
  BY <1>1, <1>2, <1>6, <1>7
<1>13. Knows(p)'
  BY <1>1, <1>2, <1>6, <1>7, <1>9, <1>10, <1>11, <1>12 DEF Knows
<1> QED
  BY <1>8, <1>9, <1>13, QuietStep

\* A process that is idle again with nothing chosen.
LEMMA IdleKnows ==
    ASSUME Shape', NEW p \in Proc, NEW answer \in {"approved", "awaiting"},
           st'[p] = [Idle EXCEPT !.result = answer]
    PROVE  Knows(p)' /\ ~Holding(p)'
<1>1. st'[p].pc = "idle" /\ st'[p].view = 0 /\ st'[p].result = answer
  BY IdleType DEF Locals
<1>2. Len(ledger') \in Nat
  BY LenProperties DEF Shape
<1> QED
  BY <1>1, <1>2 DEF Knows, Chosen, Holding, Lawful, Running, RunSteps, TurnedAway

LEMMA ApproveAppendStep == ASSUME IInv, NEW p \in Proc, ApproveAppend(p) PROVE IInv'
<1> DEFINE event == Approved(KeyOf(st[p].subject), st[p].subject, st[p].binding)
           new == [Idle EXCEPT !.result = "approved"]
<1>1. /\ st[p].pc = "approveAppend" /\ ledger' = Append(ledger, event)
      /\ st' = [st EXCEPT ![p] = new]
      /\ UNCHANGED <<surface, pack, policy, expired, attempts, closed, consumed, spawned>>
  BY DEF ApproveAppend, At, worldVars, sessionVars
<1>2. /\ st[p].subject \in Subjects /\ st[p].binding \in Binding \cup {None}
      /\ Len(ledger) \in Nat /\ Len(attempts) \in Nat
  BY <1>1, RunIsTyped DEF Knows, Locals
<1>3. KeyOf(st[p].subject) \in Subjects
  BY <1>2 DEF KeyOf, Subjects
<1>4. /\ event \in Approval \cup OtherEvent /\ event.kind = "approved"
      /\ surface = "loop" => event.key = Len(ledger) + 1
  <2>1. event \in Approval
    BY <1>2, <1>3, ApprovedType
  <2>2. event.kind = "approved" /\ event.key = KeyOf(st[p].subject)
    BY DEF Approved
  <2> QED
    BY <2>1, <2>2 DEF KeyOf
<1> HIDE DEF event
<1>5. new \in Locals
  BY IdleType DEF Locals, Results
<1> HIDE DEF new
<1>6. Moves(p) /\ st'[p] = new
  BY <1>1, <1>5, Became DEF IInv
<1>7. ledger' \in Seq(Approval \cup OtherEvent)
  BY <1>1, <1>4, LedgerAppend DEF IInv
<1>8. Shape'
  BY <1>1, <1>6, <1>7 DEF IInv, Shape, Moves
<1>9. Knows(p)' /\ ~Holding(p)'
  BY <1>6, <1>8, IdleKnows DEF new
<1>10. \E e \in Approval \cup OtherEvent :
         /\ ledger' = Append(ledger, e) /\ e.kind # "executed"
         /\ surface = "loop" /\ e.kind = "approved" => e.key = Len(ledger) + 1
  BY <1>1, <1>4
<1> QED
  BY <1>1, <1>2, <1>6, <1>8, <1>9, <1>10, LocalStep

LEMMA CaptureStep == ASSUME IInv, NEW p \in Proc, Capture(p) PROVE IInv'
<1> DEFINE frozen == [pack |-> pack, policy |-> policy]
           new == [Idle EXCEPT !.result = "awaiting"]
<1>1. /\ attempts' = Append(attempts, frozen) /\ st' = [st EXCEPT ![p] = new]
      /\ UNCHANGED <<surface, pack, policy, expired, closed, ledger, consumed, spawned>>
  BY DEF Capture, worldVars
<1>2. frozen \in Binding /\ attempts \in Seq(Binding)
  BY DEF Binding, IInv, Shape
<1> HIDE DEF frozen
<1>3. /\ attempts' \in Seq(Binding) /\ Len(attempts) \in Nat /\ Len(attempts') = Len(attempts) + 1
      /\ \A a \in 1..Len(attempts) : attempts'[a] = attempts[a]
  BY <1>1, <1>2, AppendProperties
<1>4. new \in Locals
  BY IdleType DEF Locals, Results
<1> HIDE DEF new
<1>5. Moves(p) /\ st'[p] = new
  BY <1>1, <1>4, Became DEF IInv
<1>6. Shape'
  BY <1>1, <1>3, <1>5 DEF IInv, Shape, Moves
<1>7. Knows(p)' /\ ~Holding(p)'
  BY <1>5, <1>6, IdleKnows DEF new
<1> QED
  BY <1>1, <1>3, <1>5, <1>6, <1>7, LocalStep

LEMMA EditStep == ASSUME IInv, Edit PROVE IInv'
<1>1. /\ UNCHANGED <<surface, attempts, closed, ledger, consumed, spawned, st>>
      /\ pack' \in Pack /\ policy' \in Policy /\ expired' \in BOOLEAN
  BY DEF Edit, sessionVars, IInv, Shape
<1>2. Shape'
  BY <1>1 DEF IInv, Shape
<1> QED
  BY <1>1, <1>2, WorldStep

---------------------------------------------------------------------------
(* The theorems.                                                           *)

LEMMA NextIInv == IInv /\ [Next]_vars => IInv'
<1> SUFFICES ASSUME IInv, [Next]_vars PROVE IInv'
  OBVIOUS
<1>1. ASSUME NEW p \in Proc, Approve(p) PROVE IInv'
  BY <1>1, ApproveLoopStep, BindingStep, ApproveAppendStep, ApproveStageStep, ApproveAttemptStep
  DEF Approve
<1>2. ASSUME NEW p \in Proc, Run(p) PROVE IInv'
  BY <1>2, RunLoopStep, BindingStep, CaptureStep, RunAttemptStep, RunStageStep, VerifyStep,
     PackRulesStep, RulesStep, AdmitStep, SelectStep, EligibleStep, ConsumeStep, ExecuteStep,
     RecordBudgetStep, RecordStep, OutcomeStep
  DEF Run
<1>3. CASE UNCHANGED vars
  <2>1. /\ UNCHANGED <<surface, attempts, ledger, consumed, spawned, st>>
        /\ UNCHANGED <<pack, policy, expired, closed>>
    BY <1>3 DEF vars, worldVars, sessionVars
  <2>2. Shape'
    BY <2>1 DEF IInv, Shape
  <2> QED
    BY <2>1, <2>2, WorldStep
<1> QED
  BY <1>1, <1>2, <1>3, CrashStep, EditStep DEF Next

\* The invariant of governed execution: what each runner knows at its step holds, whatever
\* approvers, other runners, edits and crashes do in between.
THEOREM Invariance == Spec => []IInv
BY InitIInv, NextIInv, PTL DEF Spec

\* Every marker was taken for an approval of that key which is on the ledger.
THEOREM TypeCorrect == Spec => []TypeOK
<1>1. IInv => TypeOK
  <2> SUFFICES ASSUME IInv PROVE TypeOK
    OBVIOUS
  <2>1. \A i \in 1..Len(attempts) : attempts[i] \in Binding
    BY ElementOfSeq DEF IInv, Shape
  <2> QED
    BY <2>1 DEF IInv, Shape, Marked, IsApproval, TypeOK, Locals, Binding
<1> QED
  BY <1>1, Invariance, PTL

\* runGovernedCommand spawns at most one command on an approval, and records no execution
\* twice, nor one that was not spawned.
THEOREM OneSpawnPerApproval == Spec => []SpawnedOnce
<1>1. IInv => SpawnedOnce
  BY DEF IInv
<1> QED
  BY <1>1, Invariance, PTL

\* What runGovernedCommand spawns is what the approval, the policy it evaluated and the
\* frozen attempt allow.
THEOREM SpawnsAreLawful == Spec => []OnlyWhatWasApproved
<1>1. IInv => OnlyWhatWasApproved
  BY DEF IInv
<1> QED
  BY <1>1, Invariance, PTL

\* A loop's run that is turned away for want of an approval, or for one that is used, saw
\* no approval that another run had not taken.
THEOREM RefusalsAreRight == Spec => []TurnedAwayRightly
<1>1. IInv => TurnedAwayRightly
  <2> SUFFICES ASSUME IInv, surface = "loop", NEW p \in Proc
               PROVE  LET approvals == {i \in 1..st[p].view : ledger[i].kind = "approved"}
                          taken == {c.grant : c \in consumed}
                      IN
                      /\ st[p].result = "notApproved" => approvals \subseteq taken
                      /\ st[p].result = "spent" =>
                            \E i \in approvals \cap taken : \A j \in approvals : j <= i
    BY DEF TurnedAwayRightly
  <2>1. TurnedAway(p) /\ \A i \in 1..st[p].view : i \in 1..Len(ledger)
    BY RunIsTyped DEF Knows
  <2>2. \A i \in 1..st[p].view : IsApproval(i) <=> ledger[i].kind = "approved"
    BY <2>1 DEF IsApproval
  <2> QED
    BY <2>1, <2>2 DEF TurnedAway, Taken
<1> QED
  BY <1>1, Invariance, PTL

---------------------------------------------------------------------------
(* The inductive invariant.                                                *)

\* Steps under the guard of the level that is being reclaimed.
Guarding == {"compare", "remove", "unguard"}

Acquiring == {"claim", "read", "check"} \cup Guarding

\* Whoever is inside the callback or under a guard is named by the lock file of it.
Owned(p) ==
    /\ Holds(p) => lock[0] = p
    /\ (alive[p] /\ pc[p] \in Guarding) =>
            level[p] < MAX_TAKEOVER_DEPTH /\ lock[level[p] + 1] = p

\* What was judged reclaimable below the level in hand still is, and what is about to
\* be removed is what was judged.
Judged(p) ==
    /\ (alive[p] /\ pc[p] \in Acquiring) =>
            \A d \in Level : d < level[p] => HolderIsReclaimable(raw[p][d])
    /\ (alive[p] /\ pc[p] \in {"compare", "remove"}) =>
            HolderIsReclaimable(raw[p][level[p]])
    /\ Ready(p, "remove") => lock[level[p]] = raw[p][level[p]]

LockInv == \A p \in Pid : Owned(p) /\ Judged(p)

\* The parsed ledger a writer works on: what it read, and after its append one more line.
WriterKnows(p) ==
    /\ Ready(p, "line") => seen[p] = records /\ ~HeadProblem(records, anchor)
    /\ Ready(p, "anchor") =>
            /\ seen[p] \in Seq(Line)
            /\ records = Append(seen[p], NewLine(p))

\* An append has its line on the ledger and not yet its anchor.
Anchoring == \E p \in Pid : Ready(p, "anchor")
Pending == IF Anchoring THEN 1 ELSE 0

\* A ledger no append to which was cut short.
Whole ==
    /\ records \in Seq(Line)
    /\ \A p \in Pid : WriterKnows(p)
    /\ \A line \in acked : \E i \in 1..Len(records) : records[i] = line
    /\ anchor # Nil =>
        /\ ~HeadProblem(records, anchor)
        /\ \A line \in acked : \E i \in 1..anchor.count : records[i] = line
        /\ Len(records) - anchor.count <= faults + Pending

Typed ==
    /\ LedgerTypeOK
    /\ seen = [p \in Pid |-> seen[p]]

LedgerInv == Typed /\ LockInv /\ (torn = 0 => Whole)


---------------------------------------------------------------------------
(* Constants.                                                              *)

\* Two values are not three.
LEMMA PairIsSmall ==
    ASSUME NEW a, NEW b
    PROVE  Cardinality({a} \cup {b}) # 3
<1>1. IsFiniteSet({a}) /\ Cardinality({a}) = 1
  BY FS_Singleton
<1>2. CASE b \in {a}
  <2>1. {a} \cup {b} = {a}
    BY <1>2
  <2>. QED BY <1>1, <2>1
<1>3. CASE b \notin {a}
  <2>1. Cardinality({a} \cup {b}) = 2
    BY <1>1, <1>3, FS_AddElement
  <2>. QED BY <2>1
<1>. QED BY <1>2, <1>3

---------------------------------------------------------------------------
(* Types.                                                                  *)

\* The special contents of a lock file are different, and no process is one.
LEMMA Values ==
    /\ Nil # Gone /\ Nil # Foreign /\ Gone # Foreign
    /\ \A p \in Pid : p # Nil /\ p # Gone /\ p # Foreign
<1>1. Nil # Gone
  <2>. SUFFICES ASSUME Nil = Gone PROVE FALSE
    OBVIOUS
  <2>1. {Nil, Gone, Foreign} = {Nil} \cup {Foreign}
    OBVIOUS
  <2>. QED BY <2>1, PairIsSmall, ValuesAssumption
<1>2. Nil # Foreign
  <2>. SUFFICES ASSUME Nil = Foreign PROVE FALSE
    OBVIOUS
  <2>1. {Nil, Gone, Foreign} = {Nil} \cup {Gone}
    OBVIOUS
  <2>. QED BY <2>1, PairIsSmall, ValuesAssumption
<1>3. Gone # Foreign
  <2>. SUFFICES ASSUME Gone = Foreign PROVE FALSE
    OBVIOUS
  <2>1. {Nil, Gone, Foreign} = {Nil} \cup {Gone}
    OBVIOUS
  <2>. QED BY <2>1, PairIsSmall, ValuesAssumption
<1>. QED BY <1>1, <1>2, <1>3, ValuesAssumption

\* The steps of one process.
Act(p) == Call(p) \/ VerifyLines(p) \/ Step(p) \/ Fault(p)

\* A step of p leaves the other processes where they are; nobody comes back to
\* life, and what is old stays old.
Frame(p) ==
    /\ \A q \in Pid \ {p} :
        /\ pc'[q] = pc[q] /\ level'[q] = level[q] /\ raw'[q] = raw[q]
        /\ seen'[q] = seen[q] /\ alive'[q] = alive[q]
    /\ \A q \in Pid : alive'[q] => alive[q]
    /\ aged' = aged

\* What Return leaves.
LEMMA ReturnForm ==
    ASSUME Typed, NEW p \in Pid, NEW outcome \in Outcomes, Finish(p, outcome)
    PROVE  /\ pc' \in [Pid -> {"idle", "claim", "read", "check", "compare", "remove", "unguard",
                        "verifyHead"} \cup Inside]
           /\ level' \in [Pid -> Level]
           /\ raw' \in [Pid -> [Level -> Pid \cup {Nil, Gone, Foreign}]]
           /\ result' \in [Pid -> Outcomes]
           /\ seen' = [q \in Pid |-> seen'[q]]
           /\ pc'[p] = "idle"
           /\ \A q \in Pid \ {p} :
                /\ pc'[q] = pc[q] /\ level'[q] = level[q] /\ raw'[q] = raw[q]
                /\ seen'[q] = seen[q]
<1>1. Unread \in [Level -> Pid \cup {Nil, Gone, Foreign}]
  BY DEF Unread
<1>2. 0 \in Level
  BY DEF Level, MAX_TAKEOVER_DEPTH
<1>3. level' \in [Pid -> Level] /\ raw' \in [Pid -> [Level -> Pid \cup {Nil, Gone, Foreign}]]
  BY <1>1, <1>2 DEF Finish, Typed, LedgerTypeOK
<1>4. /\ pc' = [pc EXCEPT ![p] = "idle"] /\ seen' = [seen EXCEPT ![p] = << >>]
      /\ raw' = [raw EXCEPT ![p] = Unread] /\ level' = [level EXCEPT ![p] = 0]
      /\ result' = [result EXCEPT ![p] = outcome]
  BY DEF Finish, Proceed
<1>5. /\ DOMAIN pc = Pid /\ DOMAIN seen = Pid /\ DOMAIN raw = Pid /\ DOMAIN level = Pid
  BY DEF Typed, LedgerTypeOK
<1>6. /\ pc'[p] = "idle"
      /\ \A q \in Pid \ {p} :
                /\ pc'[q] = pc[q] /\ level'[q] = level[q] /\ raw'[q] = raw[q]
                /\ seen'[q] = seen[q]
  BY <1>4, <1>5
<1>7. seen' = [q \in Pid |-> seen'[q]]
  BY <1>4, <1>5
<1>8. /\ pc' \in [Pid -> {"idle", "claim", "read", "check", "compare", "remove", "unguard",
                        "verifyHead"} \cup Inside]
      /\ result' \in [Pid -> Outcomes]
  BY <1>4 DEF Typed, LedgerTypeOK
<1>. QED BY <1>3, <1>6, <1>7, <1>8

\* The initial state is well typed.
LEMMA TypedInit == LedgerInit => Typed
<1>. SUFFICES ASSUME LedgerInit PROVE Typed
  OBVIOUS
<1>1. 0 \in Level
  BY DEF Level, MAX_TAKEOVER_DEPTH
<1>2. lock \in [Level -> Pid \cup {Nil, Gone, Foreign}]
  BY DEF LedgerInit, Leftovers
<1>3. raw \in [Pid -> [Level -> Pid \cup {Nil, Gone, Foreign}]]
  BY DEF LedgerInit, Unread
<1>. QED BY <1>1, <1>2, <1>3 DEF LedgerInit, Typed, LedgerTypeOK, Outcomes

\* The steps of acquireLock keep the types.
LEMMA TypedAcquire ==
    ASSUME Typed, NEW p \in Pid,
           Call(p) \/ Claim(p) \/ Read(p) \/ Check(p) \/ Compare(p) \/ Remove(p) \/ Unguard(p)
    PROVE  Typed' /\ Frame(p)
<1>. USE DEF Typed, LedgerTypeOK, Frame, Ready, Proceed, Inside, lockVars, fileVars, takeVars
<1>0. /\ 0 \in Level /\ "none" \in Outcomes /\ "locked" \in Outcomes /\ "chain" \in Outcomes
      /\ \A d \in Level : d # 0 => d - 1 \in Level
      /\ \A d \in Level : d < MAX_TAKEOVER_DEPTH => d + 1 \in Level
      /\ \A d \in Level : d = MAX_TAKEOVER_DEPTH \/ d < MAX_TAKEOVER_DEPTH
  BY DEF Level, MAX_TAKEOVER_DEPTH, Outcomes
<1>1. CASE Call(p)
  BY <1>0, <1>1 DEF Call
<1>2. CASE Claim(p)
  <2>1. level[p] \in Level
    OBVIOUS
  <2>2. lock' \in [Level -> Pid \cup {Nil, Gone, Foreign}]
    BY <1>2 DEF Claim
  <2>3. level' \in [Pid -> Level] /\ \A q \in Pid \ {p} : level'[q] = level[q]
    BY <1>0, <1>2 DEF Claim
  <2>4. /\ pc' \in [Pid -> {"idle", "claim", "read", "check", "compare", "remove", "unguard",
                        "verifyHead"} \cup Inside]
        /\ \A q \in Pid \ {p} : pc'[q] = pc[q]
    BY <1>2 DEF Claim
  <2>. QED BY <1>2, <2>2, <2>3, <2>4 DEF Claim
<1>3. CASE Read(p)
  <2>1. level[p] \in Level /\ lock[level[p]] \in Pid \cup {Nil, Gone, Foreign}
    OBVIOUS
  <2>2. /\ raw' \in [Pid -> [Level -> Pid \cup {Nil, Gone, Foreign}]]
        /\ \A q \in Pid \ {p} : raw'[q] = raw[q]
    BY <1>3, <2>1 DEF Read
  <2>. QED BY <1>3, <2>2 DEF Read
<1>4. CASE Check(p)
  <2>1. CASE Finish(p, "locked") \/ Finish(p, "chain")
    <3>1. UNCHANGED <<lock, aged, records, anchor, acked, torn, alive, uses, faults>>
      BY <1>4 DEF Check
    <3>. QED BY <1>0, <2>1, <3>1, ReturnForm
  <2>2. CASE ~(Finish(p, "locked") \/ Finish(p, "chain"))
    <3>1. Unread \in [Level -> Pid \cup {Nil, Gone, Foreign}]
      BY DEF Unread
    <3>2. UNCHANGED <<lock, aged, records, anchor, acked, torn, alive, uses, faults, seen, result>>
      BY <1>4, <2>2 DEF Check
    <3>3. level' \in [Pid -> Level] /\ \A q \in Pid \ {p} : level'[q] = level[q]
      <4>1. PICK d \in Level : level' = [level EXCEPT ![p] = d]
        BY <1>0, <1>4, <2>2 DEF Check
      <4>. QED BY <4>1
    <3>4. /\ raw' \in [Pid -> [Level -> Pid \cup {Nil, Gone, Foreign}]]
          /\ \A q \in Pid \ {p} : raw'[q] = raw[q]
      BY <3>1, <1>4, <2>2 DEF Check
    <3>5. pc' = [pc EXCEPT ![p] = "claim"]
      BY <1>4, <2>2 DEF Check
    <3>. QED BY <3>2, <3>3, <3>4, <3>5
  <2>. QED BY <2>1, <2>2
<1>5. CASE Compare(p)
  BY <1>5 DEF Compare
<1>6. CASE Remove(p)
  <2>1. lock' \in [Level -> Pid \cup {Nil, Gone, Foreign}]
    BY <1>6 DEF Remove
  <2>. QED BY <1>6, <2>1 DEF Remove
<1>7. CASE Unguard(p)
  <2>1. lock' \in [Level -> Pid \cup {Nil, Gone, Foreign}]
    BY <1>7 DEF Unguard
  <2>. QED BY <1>7, <2>1 DEF Unguard
<1>. QED BY <1>1, <1>2, <1>3, <1>4, <1>5, <1>6, <1>7

\* So do the steps under the lock, and those of a verification.
LEMMA TypedInside ==
    ASSUME Typed, NEW p \in Pid,
           \/ Fold(p) \/ AppendLine(p) \/ WriteAnchor(p) \/ Release(p)
           \/ VerifyLines(p) \/ VerifyHead(p)
    PROVE  Typed' /\ Frame(p)
<1>. USE DEF Typed, LedgerTypeOK, Frame, Ready, Proceed, Inside, lockVars, fileVars, takeVars
<1>0. 0 \in Level /\ {"none", "tampered", "intact", "ok"} \subseteq Outcomes
  BY DEF Level, MAX_TAKEOVER_DEPTH, Outcomes
<1>1. CASE Fold(p)
  BY <1>0, <1>1 DEF Fold
<1>2. CASE AppendLine(p)
  BY <1>2 DEF AppendLine
<1>3. CASE WriteAnchor(p)
  BY <1>0, <1>3 DEF WriteAnchor
<1>4. CASE Release(p)
  <2>1. result[p] \in Outcomes /\ Finish(p, result[p])
    BY <1>4 DEF Release
  <2>2. lock' \in [Level -> Pid \cup {Nil, Gone, Foreign}]
    BY <1>4 DEF Release
  <2>3. UNCHANGED <<aged, records, anchor, acked, torn, alive, uses, faults>>
    BY <1>4 DEF Release
  <2>. QED BY <2>1, <2>2, <2>3, ReturnForm
<1>5. CASE VerifyLines(p)
  <2>1. uses' \in Nat /\ UNCHANGED <<lock, aged, records, anchor, acked, torn, alive, faults>>
    BY <1>5 DEF VerifyLines
  <2>2. CASE Finish(p, "tampered")
    BY <1>0, <2>1, <2>2, ReturnForm
  <2>3. CASE ~Finish(p, "tampered")
    BY <1>0, <1>5, <2>1, <2>3 DEF VerifyLines
  <2>. QED BY <2>2, <2>3
<1>6. CASE VerifyHead(p)
  <2>1. PICK outcome \in {"tampered", "intact"} : Finish(p, outcome)
    BY <1>6 DEF VerifyHead
  <2>2. UNCHANGED <<lock, aged, records, anchor, acked, torn, alive, uses, faults>>
    BY <1>6 DEF VerifyHead
  <2>. QED BY <1>0, <2>1, <2>2, ReturnForm
<1>. QED BY <1>1, <1>2, <1>3, <1>4, <1>5, <1>6

\* So do the faults.
LEMMA TypedFault ==
    ASSUME Typed, NEW p \in Pid, Fault(p)
    PROVE  Typed' /\ Frame(p)
<1>. USE DEF Typed, LedgerTypeOK, Frame, Ready, Proceed, Inside, lockVars, fileVars, takeVars
<1>0. "none" \in Outcomes /\ "failed" \in Outcomes /\ result[p] \in Outcomes
  BY DEF Outcomes
<1>1. CASE End(p)
  <2>1. /\ Finish(p, "none") /\ alive' = [alive EXCEPT ![p] = FALSE]
        /\ faults' \in Nat /\ UNCHANGED <<lock, aged, records, anchor, acked, torn, uses>>
    BY <1>1 DEF End
  <2>2. alive' \in [Pid -> BOOLEAN] /\ \A q \in Pid \ {p} : alive'[q] = alive[q]
    BY <2>1
  <2>3. \A q \in Pid : alive'[q] => alive[q]
    BY <2>1
  <2>. QED BY <1>0, <2>1, <2>2, <2>3, ReturnForm
<1>2. CASE TornAppend(p)
  <2>1. faults' \in Nat /\ torn' \in Nat /\ UNCHANGED <<lock, aged, anchor, acked, uses>>
    BY <1>2 DEF TornAppend
  <2>2. CASE Finish(p, "none") /\ alive' = [alive EXCEPT ![p] = FALSE]
    <3>1. alive' \in [Pid -> BOOLEAN] /\ \A q \in Pid \ {p} : alive'[q] = alive[q]
      BY <2>2
    <3>2. \A q \in Pid : alive'[q] => alive[q]
      BY <2>2
    <3>. QED BY <1>0, <2>1, <2>2, <3>1, <3>2, ReturnForm
  <2>3. CASE Proceed(p, "release") /\ result' = [result EXCEPT ![p] = "failed"]
               /\ UNCHANGED <<alive, takeVars, seen>>
    <3>1. records' = AppendText(records, Torn)
      BY <1>2 DEF TornAppend
    <3>. QED BY <1>0, <2>1, <2>3, <3>1
  <2>. QED BY <1>2, <2>2, <2>3 DEF TornAppend
<1>3. CASE WriteFails(p)
  BY <1>0, <1>3 DEF WriteFails
<1>4. CASE RemoveLockFails(p)
  <2>1. faults' \in Nat /\ UNCHANGED <<lock, aged, records, anchor, acked, torn, alive, uses>>
    BY <1>4 DEF RemoveLockFails
  <2>2. CASE Finish(p, result[p])
    BY <1>0, <2>1, <2>2, ReturnForm
  <2>3. CASE ~Finish(p, result[p])
    BY <1>4, <2>1, <2>3 DEF RemoveLockFails
  <2>. QED BY <2>2, <2>3
<1>. QED BY <1>1, <1>2, <1>3, <1>4 DEF Fault

\* Each step of a process keeps the types, and leaves the other processes alone.
LEMMA TypedAct ==
    ASSUME Typed, NEW p \in Pid, Act(p)
    PROVE  Typed' /\ Frame(p)
BY TypedAcquire, TypedInside, TypedFault DEF Act, Step

\* Time passes.
LEMMA TypedGrace ==
    ASSUME Typed, Grace
    PROVE  Typed'
BY DEF Typed, LedgerTypeOK, Grace, fileVars, takeVars

---------------------------------------------------------------------------
(* The lock and its guards.                                                *)

\* There are three levels, and each but the last has a guard.
LEMMA LevelFacts ==
    /\ Level = {0, 1, 2} /\ MAX_TAKEOVER_DEPTH = 2
    /\ \A d \in Level : d < MAX_TAKEOVER_DEPTH => d + 1 \in Level /\ d + 1 # d /\ d + 1 # 0
BY DEF Level, MAX_TAKEOVER_DEPTH

\* Nobody is judged gone who runs, and no free lock is reclaimed.
LEMMA NotReclaimable ==
    ASSUME NEW pid, HolderIsReclaimable(pid)
    PROVE  pid # Nil /\ (\A q \in Pid : alive[q] => pid # q)
BY Values DEF HolderIsReclaimable

\* p changes a lock file only when it is free or p's own, or judged to be gone and
\* under p's guard.
Rightful(p) ==
    \A d \in Level :
        \/ lock'[d] = lock[d]
        \/ lock[d] = Nil
        \/ alive[p] /\ lock[d] = p
        \/ HolderIsReclaimable(lock[d]) /\ d < MAX_TAKEOVER_DEPTH /\ lock[d + 1] = p

\* That disturbs nobody else.
LEMMA OthersKeepLocks ==
    ASSUME Typed, LockInv, NEW p \in Pid, Frame(p), Rightful(p), NEW q \in Pid \ {p}
    PROVE  Owned(q)' /\ Judged(q)'
<1>. USE LevelFacts
<1>1. /\ pc'[q] = pc[q] /\ level'[q] = level[q] /\ raw'[q] = raw[q] /\ (alive'[q] <=> alive[q])
      /\ level[q] \in Level
  BY DEF Frame, Typed, LedgerTypeOK
<1>2. Owned(q) /\ Judged(q)
  BY DEF LockInv
<1>3. ASSUME NEW d \in Level, alive[q], lock[d] = q
      PROVE  lock'[d] = q
  BY <1>3, Values, NotReclaimable DEF Rightful
<1>4. Owned(q)'
  <2>1. 0 \in Level
    OBVIOUS
  <2>2. Holds(q)' => lock'[0] = q
    BY <1>1, <1>2, <1>3, <2>1 DEF Owned, Holds
  <2>3. ASSUME alive'[q], pc'[q] \in Guarding
        PROVE  level'[q] < MAX_TAKEOVER_DEPTH /\ lock'[level'[q] + 1] = q
    BY <1>1, <1>2, <1>3, <2>3 DEF Owned
  <2>. QED BY <2>2, <2>3 DEF Owned
<1>5. Judged(q)'
  <2>1. ASSUME alive[q], pc[q] \in Acquiring, NEW d \in Level, d < level[q]
        PROVE  HolderIsReclaimable(raw[q][d])'
    <3>1. HolderIsReclaimable(raw[q][d])
      BY <1>2, <2>1 DEF Judged
    <3>2. raw'[q][d] = raw[q][d]
      BY <1>1
    <3>. QED BY <3>1, <3>2 DEF HolderIsReclaimable, Frame
  <2>2. ASSUME alive[q], pc[q] \in {"compare", "remove"}
        PROVE  HolderIsReclaimable(raw[q][level[q]])'
    <3>1. HolderIsReclaimable(raw[q][level[q]])
      BY <1>2, <2>2 DEF Judged
    <3>2. raw'[q][level'[q]] = raw[q][level[q]]
      BY <1>1
    <3>. QED BY <3>1, <3>2 DEF HolderIsReclaimable, Frame
  <2>3. ASSUME Ready(q, "remove")
        PROVE  lock'[level[q]] = lock[level[q]]
    <3>1. /\ lock[level[q]] = raw[q][level[q]] /\ HolderIsReclaimable(lock[level[q]])
          /\ level[q] < MAX_TAKEOVER_DEPTH /\ lock[level[q] + 1] = q
      BY <1>2, <2>3 DEF Owned, Judged, Ready, Guarding
    <3>. QED BY <1>1, <3>1, NotReclaimable DEF Rightful
  <2>4. Ready(q, "remove") <=> Ready(q, "remove")'
    BY <1>1 DEF Ready
  <2>. QED BY <1>1, <1>2, <2>1, <2>2, <2>3, <2>4 DEF Judged
<1>. QED BY <1>4, <1>5

\* Every step changes lock files rightfully.
LEMMA ActRightful ==
    ASSUME Typed, LockInv, NEW p \in Pid, Act(p)
    PROVE  Rightful(p)
<1>. USE LevelFacts
<1>0. level[p] \in Level /\ Owned(p) /\ Judged(p) /\ DOMAIN lock = Level
  BY DEF Typed, LedgerTypeOK, LockInv
<1>1. CASE Claim(p)
  BY <1>0, <1>1 DEF Claim, Rightful
<1>2. CASE Remove(p)
  <2>1. /\ lock[level[p]] = raw[p][level[p]] /\ HolderIsReclaimable(lock[level[p]])
        /\ level[p] < MAX_TAKEOVER_DEPTH /\ lock[level[p] + 1] = p
        /\ lock' = [lock EXCEPT ![level[p]] = Nil]
    BY <1>0, <1>2 DEF Owned, Judged, Ready, Guarding, Remove
  <2>. QED BY <1>0, <2>1 DEF Rightful
<1>3. CASE Unguard(p)
  <2>1. /\ alive[p] /\ lock[level[p] + 1] = p
        /\ lock' = [lock EXCEPT ![level[p] + 1] = Nil]
    BY <1>0, <1>3 DEF Owned, Ready, Guarding, Unguard
  <2>. QED BY <1>0, <2>1 DEF Rightful
<1>4. CASE Release(p)
  <2>1. /\ alive[p] /\ lock[0] = p
        /\ lock' = [lock EXCEPT ![0] = Nil]
    BY <1>0, <1>4 DEF Owned, Ready, Holds, Inside, Release
  <2>. QED BY <1>0, <2>1 DEF Rightful
<1>5. ASSUME UNCHANGED lock
      PROVE  Rightful(p)
  BY <1>5 DEF Rightful
<1>6. CASE Call(p) \/ VerifyLines(p) \/ VerifyHead(p) \/ Fault(p)
  BY <1>5, <1>6 DEF Call, VerifyLines, VerifyHead, Fault, End, TornAppend, WriteFails,
        RemoveLockFails, lockVars
<1>7. CASE Read(p) \/ Check(p) \/ Compare(p) \/ Fold(p) \/ AppendLine(p) \/ WriteAnchor(p)
  BY <1>5, <1>7 DEF Read, Check, Compare, Fold, AppendLine, WriteAnchor, lockVars
<1>. QED BY <1>1, <1>2, <1>3, <1>4, <1>6, <1>7 DEF Act, Step

\* The process that takes the step.
LEMMA OwnLocks ==
    ASSUME Typed, LockInv, NEW p \in Pid, Act(p), Typed', Frame(p)
    PROVE  Owned(p)' /\ Judged(p)'
<1>. USE LevelFacts
<1>0. /\ level[p] \in Level /\ Owned(p) /\ Judged(p) /\ DOMAIN lock = Level
      /\ level'[p] \in Level /\ DOMAIN level = Pid /\ DOMAIN pc = Pid
      /\ DOMAIN raw = Pid /\ DOMAIN raw[p] = Level /\ DOMAIN alive = Pid
  BY DEF Typed, LedgerTypeOK, LockInv
<1>1. ASSUME pc'[p] \in {"idle", "verifyHead"} \/ (pc'[p] = "claim" /\ level'[p] = 0)
      PROVE  Owned(p)' /\ Judged(p)'
  <2>1. Judged(p)'
    BY <1>0, <1>1 DEF Judged, Ready, Acquiring, Guarding
  <2>. QED BY <1>1, <2>1 DEF Owned, Holds, Inside, Guarding
<1>2. ASSUME pc[p] \in Inside, alive[p], pc'[p] \in Inside, UNCHANGED <<lock, alive>>
      PROVE  Owned(p)' /\ Judged(p)'
  <2>1. lock[0] = p
    BY <1>0, <1>2 DEF Owned, Holds
  <2>. QED BY <1>2, <2>1 DEF Owned, Judged, Holds, Inside, Guarding, Acquiring, Ready
<1>3. CASE Call(p) \/ VerifyLines(p) \/ VerifyHead(p) \/ Release(p) \/ End(p)
  <2>1. pc'[p] \in {"idle", "verifyHead"} \/ (pc'[p] = "claim" /\ level'[p] = 0)
    BY <1>0, <1>3 DEF Call, VerifyLines, VerifyHead, Release, End, Finish, Proceed
  <2>. QED BY <1>1, <2>1
<1>4. CASE Fold(p) \/ AppendLine(p) \/ WriteAnchor(p) \/ WriteFails(p)
  <2>1. /\ pc[p] \in Inside /\ alive[p] /\ pc'[p] \in Inside /\ UNCHANGED <<lock, alive>>
    BY <1>0, <1>4 DEF Fold, AppendLine, WriteAnchor, WriteFails, Ready, Proceed, Inside, lockVars
  <2>. QED BY <1>2, <2>1
<1>5. CASE TornAppend(p)
  <2>1. CASE Finish(p, "none")
    <3>1. pc'[p] = "idle"
      BY <1>0, <2>1 DEF Finish, Proceed
    <3>. QED BY <1>1, <3>1
  <2>2. CASE Proceed(p, "release") /\ UNCHANGED alive
    <3>1. /\ pc[p] \in Inside /\ alive[p] /\ pc'[p] \in Inside /\ UNCHANGED <<lock, alive>>
      BY <1>0, <1>5, <2>2 DEF TornAppend, Ready, Proceed, Inside, lockVars
    <3>. QED BY <1>2, <3>1
  <2>. QED BY <1>5, <2>1, <2>2 DEF TornAppend
<1>6. CASE Claim(p)
  <2>1. CASE lock[level[p]] # Nil
    <3>1. /\ pc'[p] = "read" /\ pc[p] = "claim" /\ alive[p]
          /\ UNCHANGED <<lock, level, raw, alive, aged>>
      BY <1>0, <1>6, <2>1 DEF Claim, Ready, Proceed
    <3>. QED BY <1>0, <3>1 DEF Owned, Judged, Holds, Inside, Guarding, Acquiring, Ready,
                HolderIsReclaimable
  <2>2. CASE lock[level[p]] = Nil /\ level[p] = 0
    <3>1. pc'[p] = "fold" /\ lock'[0] = p
      BY <1>0, <1>6, <2>2 DEF Claim, Ready, Proceed
    <3>. QED BY <3>1 DEF Owned, Judged, Holds, Inside, Guarding, Acquiring, Ready
  <2>3. CASE lock[level[p]] = Nil /\ level[p] # 0
    <3>1. /\ pc[p] = "claim" /\ pc'[p] = "compare" /\ level'[p] = level[p] - 1
          /\ lock'[level[p]] = p /\ UNCHANGED <<raw, alive, aged>> /\ alive[p]
      BY <1>0, <1>6, <2>3 DEF Claim, Ready, Proceed
    <3>2. \A d \in Level : d < level[p] => HolderIsReclaimable(raw[p][d])'
      BY <1>0, <3>1 DEF Judged, Acquiring, HolderIsReclaimable
    <3>3. /\ level'[p] \in Level /\ level'[p] < level[p] /\ level'[p] < MAX_TAKEOVER_DEPTH
          /\ level'[p] + 1 = level[p]
      BY <1>0, <2>3, <3>1
    <3>4. \A d \in Level : d < level'[p] => d < level[p]
      BY <1>0, <3>3
    <3>5. Owned(p)'
      BY <3>1, <3>3 DEF Owned, Holds, Inside
    <3>6. Judged(p)'
      BY <3>1, <3>2, <3>3, <3>4 DEF Judged, Ready
    <3>. QED BY <3>5, <3>6
  <2>. QED BY <2>1, <2>2, <2>3
<1>7. CASE Read(p)
  <2>1. /\ pc[p] = "read" /\ pc'[p] \in {"claim", "check"} /\ alive[p]
        /\ UNCHANGED <<lock, level, alive, aged>>
        /\ \A d \in Level : d # level[p] => raw'[p][d] = raw[p][d]
    BY <1>0, <1>7 DEF Read, Ready, Proceed, lockVars
  <2>2. \A d \in Level : d < level[p] => d # level[p]
    BY <1>0
  <2>3. \A d \in Level : d < level[p] => HolderIsReclaimable(raw[p][d])'
    BY <1>0, <2>1, <2>2 DEF Judged, Acquiring, HolderIsReclaimable
  <2>. QED BY <2>1, <2>3 DEF Owned, Judged, Holds, Inside, Guarding, Ready
<1>8. CASE Check(p)
  <2>1. CASE Finish(p, "locked") \/ Finish(p, "chain")
    <3>1. pc'[p] = "idle"
      BY <1>0, <2>1 DEF Finish, Proceed
    <3>. QED BY <1>1, <3>1
  <2>2. CASE level' = [level EXCEPT ![p] = 0] /\ Proceed(p, "claim")
    <3>1. pc'[p] = "claim" /\ level'[p] = 0
      BY <1>0, <2>2 DEF Proceed
    <3>. QED BY <1>1, <3>1
  <2>3. CASE /\ HolderIsReclaimable(raw[p][level[p]])
             /\ level[p] < MAX_TAKEOVER_DEPTH
             /\ level' = [level EXCEPT ![p] = level[p] + 1]
             /\ Proceed(p, "claim")
             /\ UNCHANGED raw
    <3>1. /\ pc[p] = "check" /\ pc'[p] = "claim" /\ level'[p] = level[p] + 1 /\ alive[p]
          /\ UNCHANGED <<raw, alive, aged>>
      BY <1>0, <1>8, <2>3 DEF Check, Ready, Proceed, lockVars
    <3>2. \A d \in Level : d < level[p] + 1 => d < level[p] \/ d = level[p]
      BY <1>0
    <3>3. \A d \in Level : d < level'[p] => HolderIsReclaimable(raw[p][d])'
      BY <1>0, <2>3, <3>1, <3>2 DEF Judged, Acquiring, HolderIsReclaimable
    <3>. QED BY <3>1, <3>3 DEF Owned, Judged, Holds, Inside, Guarding, Ready
  <2>. QED BY <1>8, <2>1, <2>2, <2>3 DEF Check
<1>9. CASE Compare(p)
  <2>1. /\ pc[p] = "compare" /\ alive[p] /\ UNCHANGED <<lock, level, raw, alive, aged>>
        /\ \/ pc'[p] = "remove" /\ lock[level[p]] = raw[p][level[p]]
           \/ pc'[p] = "unguard"
    BY <1>0, <1>9 DEF Compare, Ready, Proceed, lockVars, takeVars
  <2>. QED BY <1>0, <2>1 DEF Owned, Judged, Holds, Inside, Guarding, Acquiring, Ready,
                HolderIsReclaimable
<1>10. CASE Remove(p)
  <2>1. /\ pc[p] = "remove" /\ alive[p] /\ pc'[p] = "unguard"
        /\ UNCHANGED <<level, raw, alive, aged>>
        /\ lock' = [lock EXCEPT ![level[p]] = Nil]
    BY <1>0, <1>10 DEF Remove, Ready, Proceed, takeVars
  <2>2. level[p] < MAX_TAKEOVER_DEPTH /\ lock'[level[p] + 1] = p
    BY <1>0, <2>1 DEF Owned, Guarding
  <2>3. \A d \in Level : d < level[p] => HolderIsReclaimable(raw[p][d])'
    BY <1>0, <2>1 DEF Judged, Acquiring, Guarding, HolderIsReclaimable
  <2>. QED BY <2>1, <2>2, <2>3 DEF Owned, Judged, Holds, Inside, Ready
<1>11. ASSUME pc[p] = "unguard", alive[p], pc'[p] = "claim", UNCHANGED <<level, raw, alive, aged>>
       PROVE  Owned(p)' /\ Judged(p)'
  <2>1. \A d \in Level : d < level[p] => HolderIsReclaimable(raw[p][d])'
    BY <1>0, <1>11 DEF Judged, Acquiring, Guarding, HolderIsReclaimable
  <2>. QED BY <1>11, <2>1 DEF Owned, Judged, Holds, Inside, Guarding, Ready
<1>12. CASE Unguard(p)
  <2>1. /\ pc[p] = "unguard" /\ alive[p] /\ pc'[p] = "claim"
        /\ UNCHANGED <<level, raw, alive, aged>>
    BY <1>0, <1>12 DEF Unguard, Ready, Proceed, takeVars
  <2>. QED BY <1>11, <2>1
<1>13. CASE RemoveLockFails(p)
  <2>1. CASE Finish(p, result[p])
    <3>1. pc'[p] = "idle"
      BY <1>0, <2>1 DEF Finish, Proceed
    <3>. QED BY <1>1, <3>1
  <2>2. CASE Ready(p, "unguard") /\ Proceed(p, "claim") /\ UNCHANGED takeVars
    <3>1. /\ pc[p] = "unguard" /\ alive[p] /\ pc'[p] = "claim"
          /\ UNCHANGED <<level, raw, alive, aged>>
      BY <1>0, <1>13, <2>2 DEF RemoveLockFails, Ready, Proceed, takeVars, lockVars
    <3>. QED BY <1>11, <3>1
  <2>. QED BY <1>13, <2>1, <2>2 DEF RemoveLockFails
<1>. QED BY <1>3, <1>4, <1>5, <1>6, <1>7, <1>8, <1>9, <1>10, <1>12, <1>13 DEF Act, Step, Fault

\* A step of a process keeps the locks with those that they name.
LEMMA LockAct ==
    ASSUME Typed, LockInv, NEW p \in Pid, Act(p)
    PROVE  LockInv'
<1>1. Typed' /\ Frame(p)
  BY TypedAct
<1>2. Rightful(p)
  BY ActRightful
<1>3. Owned(p)' /\ Judged(p)'
  BY <1>1, OwnLocks
<1>4. \A q \in Pid \ {p} : Owned(q)' /\ Judged(q)'
  BY <1>1, <1>2, OthersKeepLocks
<1>. QED BY <1>3, <1>4 DEF LockInv

\* A lock without a pid grows old.
LEMMA LockGrace ==
    ASSUME LockInv, Grace
    PROVE  LockInv'
<1>1. /\ aged' = TRUE /\ UNCHANGED <<lock, level, raw, alive, pc>>
  BY DEF Grace, takeVars
<1>2. \A pid : HolderIsReclaimable(pid) => HolderIsReclaimable(pid)'
  BY <1>1 DEF HolderIsReclaimable
<1>3. ASSUME NEW q \in Pid
      PROVE  Owned(q)' /\ Judged(q)'
  <2>1. Owned(q) /\ Judged(q)
    BY DEF LockInv
  <2>2. \A d \in Level : HolderIsReclaimable(raw[q][d]) => HolderIsReclaimable(raw[q][d])'
    BY <1>1 DEF HolderIsReclaimable
  <2>3. HolderIsReclaimable(raw[q][level[q]]) => HolderIsReclaimable(raw[q][level[q]])'
    BY <1>1 DEF HolderIsReclaimable
  <2>. QED BY <1>1, <2>1, <2>2, <2>3 DEF Owned, Judged, Holds, Ready
<1>. QED BY <1>3 DEF LockInv

\* At most one process is inside the callback.
LEMMA OneHolder ==
    ASSUME LockInv, NEW p \in Pid, Holds(p)
    PROVE  /\ holder = {p}
           /\ lock[0] = p
           /\ \A q \in Pid : Holds(q) => q = p
<1>1. \A q \in Pid : Holds(q) => lock[0] = q
  BY DEF LockInv, Owned
<1>. QED BY <1>1 DEF holder

---------------------------------------------------------------------------
(* Lines and their anchor.                                                 *)

\* A line that parses is none of the damaged ones.
LEMMA WholeLines ==
    ASSUME NEW line \in Line
    PROVE  line # Torn /\ line # Garbled /\ HashOf(line) \in Hash
<1>1. line # Torn /\ line # Garbled
  BY LinesAssumption
<1>2. line.prev \in Hash /\ <<line.by, line.n>> \in (Pid \cup {Gone}) \X Nat
  BY DEF Line
<1>3. Append(line.prev, <<line.by, line.n>>) \in Hash
  BY <1>2, AppendProperties DEF Hash
<1>. QED BY <1>1, <1>3 DEF HashOf

\* The last hash of a ledger of whole lines is a hash.
LEMMA LastHashType ==
    ASSUME NEW lines \in Seq(Line)
    PROVE  LastHash(lines) \in Hash
<1>1. CASE lines = << >>
  BY <1>1 DEF LastHash, GENESIS, Hash
<1>2. CASE lines # << >>
  <2>1. lines[Len(lines)] \in Line
    BY <1>2
  <2>. QED BY <1>2, <2>1, WholeLines DEF LastHash
<1>. QED BY <1>1, <1>2

\* What is appended to a whole ledger is its last line, and the anchor stays.
LEMMA AppendWhole ==
    ASSUME NEW lines \in Seq(Line), NEW line \in Line
    PROVE  /\ AppendText(lines, line) = Append(lines, line)
           /\ Append(lines, line) \in Seq(Line)
           /\ Len(Append(lines, line)) = Len(lines) + 1
           /\ Append(lines, line)[Len(lines) + 1] = line
           /\ \A i \in 1..Len(lines) : Append(lines, line)[i] = lines[i]
<1>1. lines # << >> => lines[Len(lines)] \in Line
  OBVIOUS
<1>2. AppendText(lines, line) = Append(lines, line)
  BY <1>1, WholeLines DEF AppendText
<1>. QED BY <1>2, AppendProperties

\* A head that is accepted is the place of a line.
LEMMA HeadCount ==
    ASSUME NEW lines \in Seq(Line), NEW head, head # Nil, ~HeadProblem(lines, head)
    PROVE  head.count \in 1..Len(lines) /\ Len(lines) \in Nat
BY DEF HeadProblem

\* A head that is accepted is accepted after one more line.
LEMMA HeadStays ==
    ASSUME NEW lines \in Seq(Line), NEW line \in Line, NEW head, head # Nil,
           ~HeadProblem(lines, head)
    PROVE  ~HeadProblem(Append(lines, line), head)
<1>1. head.count \in 1..Len(lines) /\ Len(lines) \in Nat
  BY HeadCount
<1>2. Append(lines, line)[head.count] = lines[head.count]
  BY <1>1, AppendWhole
<1>3. head.count \in 1..Len(Append(lines, line))
  BY <1>1, AppendWhole
<1>. QED BY <1>2, <1>3 DEF HeadProblem

\* The anchor of the last line.
LEMMA HeadOfLast ==
    ASSUME NEW lines \in Seq(Line), NEW head, lines # << >>,
           head = [count |-> Len(lines), headHash |-> HashOf(lines[Len(lines)])]
    PROVE  head # Nil => ~HeadProblem(lines, head)
<1>1. Len(lines) \in 1..Len(lines) /\ lines[Len(lines)] \in Line
  OBVIOUS
<1>2. lines[Len(lines)] # Torn /\ lines[Len(lines)] # Garbled
  BY <1>1, WholeLines
<1>3. head.count = Len(lines) /\ head.headHash = HashOf(lines[Len(lines)])
  OBVIOUS
<1>. QED BY <1>1, <1>2, <1>3 DEF HeadProblem

\* The line a writer makes is a line.
LEMMA NewLineType ==
    ASSUME NEW p \in Pid, seen[p] \in Seq(Line)
    PROVE  NewLine(p) \in Line
<1>1. LastHash(seen[p]) \in Hash /\ Len(seen[p]) + 1 \in Nat
  BY LastHashType
<1>. QED BY <1>1 DEF NewLine, Line

---------------------------------------------------------------------------
(* A ledger no append to which was cut short.                              *)

\* The ledger of the initial state is whole.
LEMMA WholeInit == LedgerInit => Whole
<1>. SUFFICES ASSUME LedgerInit PROVE Whole
  OBVIOUS
<1>1. \A p \in Pid : pc[p] = "idle"
  BY DEF LedgerInit
<1>2. (\A p \in Pid : WriterKnows(p)) /\ ~Anchoring
  BY <1>1 DEF WriterKnows, Ready, Anchoring
<1>3. FirstLine \in Line
  BY DEF FirstLine, Line, Hash, GENESIS
<1>4. faults = 0 /\ Pending = 0
  BY <1>2 DEF LedgerInit, Pending
<1>5. CASE records = << >> /\ anchor = Nil /\ acked = {}
  BY <1>2, <1>5 DEF Whole
<1>6. CASE /\ records = <<FirstLine>>
           /\ anchor = [count |-> 1, headHash |-> HashOf(FirstLine)]
           /\ acked = {FirstLine}
  <2>1. /\ records \in Seq(Line) /\ Len(records) = 1 /\ records[1] = FirstLine
        /\ records # << >> /\ anchor.count = 1
    BY <1>3, <1>6
  <2>2. anchor # Nil => ~HeadProblem(records, anchor)
    BY <1>6, <2>1, HeadOfLast
  <2>3. \A line \in acked : line = FirstLine
    BY <1>6
  <2>. QED BY <1>2, <1>4, <2>1, <2>2, <2>3 DEF Whole
<1>. QED BY <1>5, <1>6 DEF LedgerInit

\* A lag within a bound is within a higher one.
LEMMA Between ==
    ASSUME NEW n \in Nat, NEW count \in Nat, NEW low \in Nat, NEW high \in Nat,
           n - count <= low, low <= high
    PROVE  n - count <= high
OBVIOUS

\* A step that leaves the files alone.
LEMMA WholeQuiet ==
    ASSUME Typed, Whole, NEW p \in Pid, Frame(p), UNCHANGED <<records, anchor, acked>>,
           WriterKnows(p)', \/ faults' = faults /\ ~Ready(p, "anchor")
                            \/ faults' = faults + 1
    PROVE  Whole'
<1>0. faults \in Nat
  BY DEF Typed, LedgerTypeOK
<1>1. ASSUME NEW q \in Pid, q # p
      PROVE  WriterKnows(q)' /\ (Ready(q, "anchor") <=> Ready(q, "anchor")')
  <2>1. pc'[q] = pc[q] /\ alive'[q] = alive[q] /\ seen'[q] = seen[q]
    BY <1>1 DEF Frame
  <2>2. NewLine(q)' = NewLine(q)
    BY <2>1 DEF NewLine
  <2>3. WriterKnows(q)
    BY DEF Whole
  <2>. QED BY <2>1, <2>2, <2>3 DEF WriterKnows, Ready
<1>2. faults + Pending <= faults' + Pending'
  <2>1. CASE faults' = faults + 1
    BY <1>0, <2>1 DEF Pending
  <2>2. CASE faults' = faults /\ ~Ready(p, "anchor")
    <3>1. Anchoring => Anchoring'
      BY <1>1, <2>2 DEF Anchoring
    <3>. QED BY <1>0, <2>2, <3>1 DEF Pending
  <2>. QED BY <2>1, <2>2
<1>3. \A q \in Pid : WriterKnows(q)'
  BY <1>1
<1>4. ASSUME anchor # Nil
      PROVE  Len(records) - anchor.count <= faults' + Pending'
  <2>1. Len(records) - anchor.count <= faults + Pending
    BY <1>4 DEF Whole
  <2>2. Len(records) \in Nat /\ anchor.count \in Nat
    BY <1>4, HeadCount DEF Whole
  <2>3. faults' \in Nat /\ Pending \in {0, 1} /\ Pending' \in {0, 1}
    BY <1>0 DEF Pending
  <2>4. faults + Pending \in Nat /\ faults' + Pending' \in Nat
    <3>1. faults' \in Nat
      BY <1>0
    <3>2. faults + Pending \in Nat
      BY <1>0 DEF Pending
    <3>3. Pending' = 0 \/ Pending' = 1
      BY DEF Pending
    <3>4. faults' + Pending' \in Nat
      BY <3>1, <3>3
    <3>. QED BY <3>2, <3>4
  <2>. QED BY <1>2, <2>1, <2>2, <2>4, Between
<1>. QED BY <1>3, <1>4 DEF Whole

\* appendFileSync has written the whole line.
LEMMA WholeAppend ==
    ASSUME Typed, LockInv, Whole, NEW p \in Pid, Frame(p), AppendLine(p)
    PROVE  Whole'
<1>1. /\ Ready(p, "line") /\ records' = AppendText(records, NewLine(p))
      /\ UNCHANGED <<anchor, acked, seen, alive, faults>>
      /\ pc' = [pc EXCEPT ![p] = "anchor"]
  BY DEF AppendLine, Proceed
<1>2. records \in Seq(Line) /\ seen[p] = records
  BY <1>1 DEF Whole, WriterKnows
<1>3. NewLine(p) \in Line
  BY <1>2, NewLineType
<1>4. /\ records' = Append(records, NewLine(p)) /\ records' \in Seq(Line)
      /\ Len(records') = Len(records) + 1 /\ Len(records) \in Nat
      /\ \A i \in 1..Len(records) : records'[i] = records[i]
  <2>1. records' = Append(records, NewLine(p))
    BY <1>1, <1>2, <1>3, AppendWhole
  <2>. QED BY <1>2, <1>3, <2>1, AppendWhole
<1>5. \A q \in Pid \ {p} : ~Ready(q, "line") /\ ~Ready(q, "anchor")
  <2>1. Holds(p)
    BY <1>1 DEF Ready, Holds, Inside
  <2>. QED BY <2>1, OneHolder DEF Ready, Holds, Inside
<1>6. \A q \in Pid \ {p} : ~Ready(q, "line")' /\ ~Ready(q, "anchor")'
  BY <1>5 DEF Frame, Ready
<1>7. pc'[p] = "anchor" /\ alive'[p]
  BY <1>1 DEF Typed, LedgerTypeOK, Ready
<1>8. \A q \in Pid : WriterKnows(q)'
  <2>1. NewLine(p)' = NewLine(p)
    BY <1>1 DEF NewLine
  <2>2. WriterKnows(p)'
    BY <1>1, <1>2, <1>4, <1>7, <2>1 DEF WriterKnows, Ready
  <2>. QED BY <1>6, <2>2 DEF WriterKnows
<1>9. Pending = 0 /\ Pending' = 1
  <2>1. ~Anchoring
    BY <1>1, <1>5 DEF Anchoring, Ready
  <2>2. Ready(p, "anchor")'
    BY <1>7 DEF Ready
  <2>. QED BY <2>1, <2>2 DEF Pending, Anchoring
<1>10. ASSUME anchor # Nil
       PROVE  /\ ~HeadProblem(records', anchor)
              /\ \A line \in acked : \E i \in 1..anchor.count : records'[i] = line
              /\ Len(records') - anchor.count <= faults + Pending'
  <2>1. /\ ~HeadProblem(records, anchor)
        /\ \A line \in acked : \E i \in 1..anchor.count : records[i] = line
        /\ Len(records) - anchor.count <= faults + Pending
    BY <1>10 DEF Whole
  <2>2. anchor.count \in 1..Len(records)
    BY <1>2, <1>10, <2>1, HeadCount
  <2>3. \A i \in 1..anchor.count : records'[i] = records[i]
    BY <1>4, <2>2
  <2>4. ~HeadProblem(records', anchor)
    BY <1>2, <1>3, <1>4, <1>10, <2>1, HeadStays
  <2>5. faults \in Nat
    BY DEF Typed, LedgerTypeOK
  <2>6. Len(records') - anchor.count <= faults + Pending'
    BY <1>4, <1>9, <2>1, <2>2, <2>5
  <2>. QED BY <2>1, <2>3, <2>4, <2>6
<1>11. \A line \in acked : \E i \in 1..Len(records') : records'[i] = line
  <2>1. \A line \in acked : \E i \in 1..Len(records) : records[i] = line
    BY DEF Whole
  <2>. QED BY <1>4, <2>1
<1>. QED BY <1>1, <1>4, <1>8, <1>10, <1>11 DEF Whole

\* The anchor moves to the line just written.
LEMMA WholeAnchor ==
    ASSUME Typed, LockInv, Whole, NEW p \in Pid, Frame(p), WriteAnchor(p)
    PROVE  Whole'
<1>1. /\ Ready(p, "anchor")
      /\ anchor' = [count |-> Len(seen[p]) + 1, headHash |-> HashOf(NewLine(p))]
      /\ acked' = acked \cup {NewLine(p)}
      /\ UNCHANGED <<records, seen, alive, faults>>
      /\ pc' = [pc EXCEPT ![p] = "release"]
  BY DEF WriteAnchor, Proceed
<1>2. /\ records \in Seq(Line) /\ seen[p] \in Seq(Line)
      /\ records = Append(seen[p], NewLine(p))
  BY <1>1 DEF Whole, WriterKnows
<1>3. NewLine(p) \in Line
  BY <1>2, NewLineType
<1>4. /\ Len(records) = Len(seen[p]) + 1 /\ records[Len(records)] = NewLine(p)
      /\ records # << >> /\ Len(records) \in Nat /\ Len(records) \in 1..Len(records)
  BY <1>2, <1>3, AppendWhole
<1>5. anchor' = [count |-> Len(records), headHash |-> HashOf(records[Len(records)])]
  BY <1>1, <1>4
<1>6. anchor' # Nil => ~HeadProblem(records, anchor')
  BY <1>2, <1>4, <1>5, HeadOfLast
<1>7. \A line \in acked' : \E i \in 1..Len(records) : records[i] = line
  <2>1. \A line \in acked : \E i \in 1..Len(records) : records[i] = line
    BY DEF Whole
  <2>. QED BY <1>1, <1>4, <2>1
<1>8. \A q \in Pid : WriterKnows(q)'
  <2>1. Holds(p)
    BY <1>1 DEF Ready, Holds, Inside
  <2>2. \A q \in Pid \ {p} : ~Ready(q, "line") /\ ~Ready(q, "anchor")
    BY <2>1, OneHolder DEF Ready, Holds, Inside
  <2>3. \A q \in Pid \ {p} : ~Ready(q, "line")' /\ ~Ready(q, "anchor")'
    BY <2>2 DEF Frame, Ready
  <2>4. pc'[p] = "release"
    BY <1>1 DEF Typed, LedgerTypeOK
  <2>. QED BY <2>3, <2>4 DEF WriterKnows, Ready
<1>9. Len(records) - anchor'.count <= faults + Pending'
  <2>1. anchor'.count = Len(records)
    BY <1>5
  <2>2. faults \in Nat /\ Pending' \in {0, 1}
    BY DEF Typed, LedgerTypeOK, Pending
  <2>3. faults + Pending' \in Nat
    BY <2>2 DEF Pending
  <2>4. Len(records) - anchor'.count <= 0 /\ 0 <= faults + Pending' /\ 0 \in Nat
    BY <1>4, <2>1, <2>3
  <2>. QED BY <1>4, <2>1, <2>3, <2>4, Between
<1>10. anchor'.count = Len(records)
  BY <1>5
<1>. QED BY <1>1, <1>2, <1>6, <1>7, <1>8, <1>9, <1>10 DEF Whole

\* A step that cuts no line short keeps the ledger whole.
LEMMA WholeAct ==
    ASSUME Typed, LockInv, torn = 0 => Whole, NEW p \in Pid, Act(p), torn' = 0
    PROVE  Whole'
<1>0. Frame(p)
  BY TypedAct
<1>1. torn = 0 /\ ~TornAppend(p)
  <2>1. torn \in Nat
    BY DEF Typed, LedgerTypeOK
  <2>2. ~TornAppend(p)
    BY <2>1 DEF TornAppend
  <2>3. torn' = torn
    <3>1. CASE Call(p) \/ VerifyLines(p) \/ VerifyHead(p)
      BY <3>1 DEF Call, VerifyLines, VerifyHead, fileVars
    <3>2. CASE Claim(p) \/ Read(p) \/ Check(p) \/ Compare(p) \/ Remove(p) \/ Unguard(p)
      BY <3>2 DEF Claim, Read, Check, Compare, Remove, Unguard, fileVars
    <3>3. CASE Fold(p) \/ AppendLine(p) \/ WriteAnchor(p) \/ Release(p)
      BY <3>3 DEF Fold, AppendLine, WriteAnchor, Release, fileVars
    <3>4. CASE Fault(p)
      BY <2>2, <3>4 DEF Fault, End, WriteFails, RemoveLockFails, fileVars
    <3>. QED BY <3>1, <3>2, <3>3, <3>4 DEF Act, Step
  <2>. QED BY <2>2, <2>3
<1>2. Whole
  BY <1>1
<1>3. DOMAIN pc = Pid /\ DOMAIN seen = Pid /\ DOMAIN alive = Pid /\ faults \in Nat
  BY DEF Typed, LedgerTypeOK
<1>4. ASSUME UNCHANGED <<records, anchor, acked>>,
             pc'[p] \notin {"line", "anchor"} \/ ~alive'[p],
             \/ faults' = faults /\ ~Ready(p, "anchor")
             \/ faults' = faults + 1
      PROVE  Whole'
  <2>1. WriterKnows(p)'
    BY <1>4 DEF WriterKnows, Ready
  <2>. QED BY <1>0, <1>2, <1>4, <2>1, WholeQuiet
<1>5. CASE Call(p) \/ VerifyLines(p) \/ VerifyHead(p) \/ Release(p)
  <2>1. /\ UNCHANGED <<records, anchor, acked>> /\ faults' = faults /\ ~Ready(p, "anchor")
        /\ pc'[p] \notin {"line", "anchor"}
    BY <1>3, <1>5 DEF Call, VerifyLines, VerifyHead, Release, Finish, Proceed, fileVars, Ready
  <2>. QED BY <1>4, <2>1
<1>6. CASE Claim(p) \/ Read(p) \/ Check(p) \/ Compare(p) \/ Remove(p) \/ Unguard(p)
  <2>1. /\ UNCHANGED <<records, anchor, acked>> /\ faults' = faults /\ ~Ready(p, "anchor")
    BY <1>3, <1>6 DEF Claim, Read, Check, Compare, Remove, Unguard, fileVars, Ready
  <2>2. pc'[p] \notin {"line", "anchor"}
    BY <1>3, <1>6 DEF Claim, Read, Check, Compare, Remove, Unguard, Finish, Proceed
  <2>. QED BY <1>4, <2>1, <2>2
<1>7. CASE Fold(p)
  <2>1. /\ UNCHANGED <<records, anchor, acked>> /\ faults' = faults /\ ~Ready(p, "anchor")
        /\ seen'[p] = records
    BY <1>3, <1>7 DEF Fold, fileVars, Ready
  <2>2. CASE HeadProblem(records, anchor)
    <3>1. pc'[p] = "release"
      BY <1>3, <1>7, <2>2 DEF Fold, Proceed
    <3>. QED BY <1>4, <2>1, <3>1
  <2>3. CASE ~HeadProblem(records, anchor)
    <3>1. pc'[p] = "line"
      BY <1>3, <1>7, <2>3 DEF Fold, Proceed
    <3>2. WriterKnows(p)'
      BY <2>1, <2>3, <3>1 DEF WriterKnows, Ready
    <3>. QED BY <1>0, <1>2, <2>1, <3>2, WholeQuiet
  <2>. QED BY <2>2, <2>3
<1>8. CASE AppendLine(p)
  BY <1>0, <1>2, <1>8, WholeAppend
<1>9. CASE WriteAnchor(p)
  BY <1>0, <1>2, <1>9, WholeAnchor
<1>10. CASE End(p)
  <2>1. UNCHANGED <<records, anchor, acked>> /\ ~alive'[p]
    BY <1>3, <1>10 DEF End, fileVars
  <2>2. (faults' = faults /\ ~Ready(p, "anchor")) \/ faults' = faults + 1
    BY <1>10 DEF End, Ready
  <2>. QED BY <1>4, <2>1, <2>2
<1>11. CASE WriteFails(p) \/ RemoveLockFails(p)
  <2>1. /\ UNCHANGED <<records, anchor, acked>> /\ faults' = faults + 1
        /\ pc'[p] \notin {"line", "anchor"}
    BY <1>3, <1>11 DEF WriteFails, RemoveLockFails, Finish, Proceed, fileVars
  <2>. QED BY <1>4, <2>1
<1>. QED BY <1>1, <1>5, <1>6, <1>7, <1>8, <1>9, <1>10, <1>11 DEF Act, Step, Fault

\* Time passes.
LEMMA WholeGrace ==
    ASSUME Whole, Grace
    PROVE  Whole'
<1>1. UNCHANGED <<records, anchor, acked, faults, pc, alive, seen>>
  BY DEF Grace, fileVars
<1>. QED BY <1>1 DEF Whole, WriterKnows, NewLine, Pending, Anchoring, Ready

---------------------------------------------------------------------------
(* The invariant, and what follows from it.                                *)

\* Nobody is under a lock in the initial state.
LEMMA LockInit == LedgerInit => LockInv
<1>. SUFFICES ASSUME LedgerInit, NEW p \in Pid PROVE Owned(p) /\ Judged(p)
  BY DEF LockInv
<1>1. pc[p] = "idle"
  BY DEF LedgerInit
<1>. QED BY <1>1 DEF Owned, Judged, Holds, Ready, Inside, Guarding, Acquiring

\* Every step keeps the invariant.
LEMMA Inductive ==
    ASSUME LedgerInv, [LedgerNext]_ledgerVars
    PROVE  LedgerInv'
<1>1. CASE UNCHANGED ledgerVars
  <2>1. UNCHANGED <<lock, aged, records, anchor, acked, torn, level, raw, alive, pc, seen,
                    result, uses, faults>>
    BY <1>1 DEF ledgerVars, lockVars, fileVars, takeVars
  <2>2. Typed'
    BY <2>1 DEF LedgerInv, Typed, LedgerTypeOK
  <2>3. LockInv'
    BY <2>1 DEF LedgerInv, LockInv, Owned, Judged, Holds, Ready, HolderIsReclaimable
  <2>4. (torn = 0 => Whole)'
    BY <2>1 DEF LedgerInv, Whole, WriterKnows, NewLine, Pending, Anchoring, Ready
  <2>. QED BY <2>2, <2>3, <2>4 DEF LedgerInv
<1>2. CASE Grace
  <2>1. torn' = torn
    BY <1>2 DEF Grace, fileVars
  <2>. QED BY <1>2, <2>1, TypedGrace, LockGrace, WholeGrace DEF LedgerInv
<1>3. ASSUME NEW p \in Pid, Act(p)
      PROVE  LedgerInv'
  BY <1>3, TypedAct, LockAct, WholeAct DEF LedgerInv
<1>. QED BY <1>1, <1>2, <1>3 DEF LedgerNext, Act

\* Every reachable state satisfies the invariant.
THEOREM LedgerInvariance == LedgerSpec => []LedgerInv
<1>1. LedgerInit => LedgerInv
  BY TypedInit, LockInit, WholeInit DEF LedgerInv
<1>. QED BY <1>1, Inductive, PTL DEF LedgerSpec

\* The state always has the types the code gives it.
THEOREM LedgerTypeCorrect == LedgerSpec => []LedgerTypeOK
<1>1. LedgerInv => LedgerTypeOK
  BY DEF LedgerInv, Typed
<1>. QED BY <1>1, LedgerInvariance, PTL

\* While no line was cut short the anchor names a line of the ledger, every
\* acknowledged record is behind it, and it lags the end by no more than the
\* interrupted appends and the one in progress.
THEOREM AnchorIsBehind == LedgerSpec => []AnchorFollows
<1>1. LedgerInv => AnchorFollows
  <2>. SUFFICES ASSUME LedgerInv, torn = 0, anchor # Nil
                PROVE  Len(records) - anchor.count <= faults + Cardinality(holder)
    BY DEF LedgerInv, Whole, AnchorFollows
  <2>1. Len(records) - anchor.count <= faults + Pending
    BY DEF LedgerInv, Whole
  <2>2. Len(records) \in Nat /\ anchor.count \in Nat /\ faults \in Nat
    BY HeadCount DEF LedgerInv, Whole, Typed, LedgerTypeOK
  <2>3. CASE ~Anchoring /\ holder = {}
    <3>1. Pending = 0 /\ Cardinality(holder) = 0
      BY <2>3, FS_EmptySet DEF Pending
    <3>. QED BY <2>1, <3>1
  <2>4. ASSUME NEW p \in Pid, Holds(p)
        PROVE  Len(records) - anchor.count <= faults + Cardinality(holder)
    <3>1. holder = {p}
      BY <2>4, OneHolder DEF LedgerInv
    <3>2. Cardinality(holder) = 1
      BY <3>1, FS_Singleton
    <3>3. Pending = 0 \/ Pending = 1
      BY DEF Pending
    <3>. QED BY <2>1, <2>2, <3>2, <3>3
  <2>5. Anchoring \/ holder # {} => \E p \in Pid : Holds(p)
    BY DEF Anchoring, holder, Holds, Ready, Inside
  <2>. QED BY <2>3, <2>4, <2>5
<1>. QED BY <1>1, LedgerInvariance, PTL

---------------------------------------------------------------------------
(* The lock file and its guards implement the path lock.                   *)

\* A step that lets its process in or out of nothing keeps the holder.
LEMMA HolderStays ==
    ASSUME NEW p \in Pid, Frame(p), Holds(p)' <=> Holds(p)
    PROVE  holder' = holder
<1>1. \A q \in Pid : Holds(q)' <=> Holds(q)
  BY DEF Frame, Holds
<1>. QED BY <1>1 DEF holder

\* The holder's step out of the callback leaves nobody inside.
LEMMA HolderLeaves ==
    ASSUME LockInv, NEW p \in Pid, Frame(p), Holds(p), ~Holds(p)'
    PROVE  holder = {p} /\ holder' = {}
<1>1. holder = {p} /\ \A q \in Pid : Holds(q) => q = p
  BY OneHolder
<1>2. \A q \in Pid : ~Holds(q)'
  BY <1>1 DEF Frame, Holds
<1>. QED BY <1>1, <1>2 DEF holder

\* Each step of a process is a step of the path lock, or none of its.
LEMMA ActRefines ==
    ASSUME LedgerInv, NEW p \in Pid, Act(p)
    PROVE  PL!Next \/ UNCHANGED <<holder, orphan>>
<1>. USE LevelFacts
<1>0. /\ Typed /\ LockInv /\ Frame(p) /\ Owned(p) /\ Judged(p)
      /\ DOMAIN pc = Pid /\ DOMAIN lock = Level /\ DOMAIN alive = Pid /\ level[p] \in Level
  BY TypedAct DEF LedgerInv, LockInv, Typed, LedgerTypeOK
<1>1. ASSUME lock'[0] = lock[0], Holds(p)' <=> Holds(p)
      PROVE  UNCHANGED <<holder, orphan>>
  BY <1>0, <1>1, HolderStays DEF orphan
<1>2. ASSUME lock'[0] = lock[0], Holds(p), ~Holds(p)'
      PROVE  PL!Crash(p)
  <2>1. holder = {p} /\ holder' = {} /\ lock[0] = p
    BY <1>0, <1>2, HolderLeaves, OneHolder
  <2>2. orphan' = TRUE
    BY <1>2, <2>1, Values DEF orphan
  <2>. QED BY <2>1, <2>2 DEF PL!Crash
<1>3. CASE Claim(p)
  <2>1. CASE lock[level[p]] = Nil /\ level[p] = 0
    <3>1. lock[0] = Nil /\ lock'[0] = p /\ Holds(p)'
      BY <1>0, <1>3, <2>1 DEF Claim, Ready, Proceed, Holds, Inside
    <3>2. holder = {} /\ orphan = FALSE
      BY <1>0, <3>1, OneHolder, Values DEF holder, orphan
    <3>3. holder' = {p}
      BY <1>0, <3>1, <3>2 DEF holder, Frame, Holds
    <3>4. orphan' = FALSE
      BY <3>1, <3>3 DEF orphan
    <3>. QED BY <3>2, <3>3, <3>4 DEF PL!Acquire, PL!Next
  <2>2. CASE ~(lock[level[p]] = Nil /\ level[p] = 0)
    <3>1. lock'[0] = lock[0] /\ (Holds(p)' <=> Holds(p))
      BY <1>0, <1>3, <2>2 DEF Claim, Ready, Proceed, Holds, Inside
    <3>. QED BY <1>1, <3>1
  <2>. QED BY <2>1, <2>2
<1>4. CASE Remove(p)
  <2>1. ~Holds(p) /\ ~Holds(p)'
    BY <1>0, <1>4 DEF Remove, Ready, Proceed, Holds, Inside
  <2>2. holder' = holder
    BY <1>0, <2>1, HolderStays
  <2>3. CASE level[p] = 0
    <3>1. HolderIsReclaimable(lock[0])
      BY <1>0, <1>4, <2>3 DEF Remove, Judged, Ready
    <3>2. lock[0] # Nil /\ lock[0] \notin holder
      BY <3>1, NotReclaimable DEF holder, Holds
    <3>3. lock'[0] = Nil
      BY <1>0, <1>4, <2>3 DEF Remove
    <3>4. orphan /\ orphan' = FALSE
      BY <3>2, <3>3 DEF orphan
    <3>. QED BY <2>2, <3>4 DEF PL!Reclaim, PL!Next
  <2>4. CASE level[p] # 0
    <3>1. lock'[0] = lock[0]
      BY <1>0, <1>4, <2>4 DEF Remove
    <3>. QED BY <1>1, <2>1, <3>1
  <2>. QED BY <2>3, <2>4
<1>5. CASE Unguard(p)
  <2>1. lock'[0] = lock[0] /\ (Holds(p)' <=> Holds(p))
    <3>1. level[p] + 1 # 0
      BY <1>0
    <3>. QED BY <1>0, <1>5, <3>1 DEF Unguard, Ready, Proceed, Holds, Inside
  <2>. QED BY <1>1, <2>1
<1>6. CASE Release(p)
  <2>1. Holds(p) /\ ~Holds(p)' /\ lock'[0] = Nil
    BY <1>0, <1>6 DEF Release, Finish, Ready, Proceed, Holds, Inside
  <2>2. holder = {p} /\ holder' = {} /\ lock[0] = p
    BY <1>0, <2>1, HolderLeaves, OneHolder
  <2>3. orphan = FALSE /\ orphan' = FALSE
    BY <2>1, <2>2 DEF orphan
  <2>. QED BY <2>2, <2>3 DEF PL!Release, PL!Next
<1>7. CASE Fault(p)
  <2>1. lock' = lock
    BY <1>7 DEF Fault, End, TornAppend, WriteFails, RemoveLockFails, lockVars
  <2>2. Holds(p)' => Holds(p)
    BY <1>0, <1>7 DEF Fault, End, TornAppend, WriteFails, RemoveLockFails, Finish, Ready, Proceed,
          Holds, Inside
  <2>. QED BY <1>1, <1>2, <2>1, <2>2 DEF PL!Next
<1>8. CASE Call(p) \/ VerifyLines(p) \/ VerifyHead(p)
  <2>1. lock' = lock /\ (Holds(p)' <=> Holds(p))
    BY <1>0, <1>8 DEF Call, VerifyLines, VerifyHead, Finish, Ready, Proceed, Holds, Inside, lockVars
  <2>. QED BY <1>1, <2>1
<1>9. CASE Read(p) \/ Check(p) \/ Compare(p)
  <2>1. lock' = lock /\ (Holds(p)' <=> Holds(p))
    BY <1>0, <1>9 DEF Read, Check, Compare, Finish, Ready, Proceed, Holds, Inside, lockVars
  <2>. QED BY <1>1, <2>1
<1>10. CASE Fold(p) \/ AppendLine(p) \/ WriteAnchor(p)
  <2>1. lock' = lock /\ (Holds(p)' <=> Holds(p))
    BY <1>0, <1>10 DEF Fold, AppendLine, WriteAnchor, Ready, Proceed, Holds, Inside, lockVars
  <2>. QED BY <1>1, <2>1
<1>. QED BY <1>3, <1>4, <1>5, <1>6, <1>7, <1>8, <1>9, <1>10 DEF Act, Step

\* The ledger's lock, with its guards and its failed removals, implements the lock
\* that the governed stores rely on.
THEOREM LockRefinement == LedgerSpec => ImplementsPathLock
<1>1. LedgerInit => PL!Init
  BY DEF LedgerInit, PL!Init, holder, Holds, Inside, orphan
<1>2. LedgerInv /\ [LedgerNext]_ledgerVars => [PL!Next]_(PL!vars)
  <2>. SUFFICES ASSUME LedgerInv, [LedgerNext]_ledgerVars
                PROVE  PL!Next \/ UNCHANGED <<holder, orphan>>
    BY DEF PL!vars
  <2>1. CASE UNCHANGED ledgerVars \/ Grace
    <3>1. UNCHANGED <<lock, alive, pc>>
      BY <2>1 DEF ledgerVars, lockVars, Grace
    <3>. QED BY <3>1 DEF holder, Holds, orphan
  <2>. QED BY <2>1, ActRefines DEF LedgerNext, Act
<1>. QED BY <1>1, <1>2, LedgerInvariance, PTL DEF LedgerSpec, ImplementsPathLock, PL!Spec

=============================================================================
