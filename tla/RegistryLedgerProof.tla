------------------------ MODULE RegistryLedgerProof ------------------------
(***************************************************************************)
(* Proofs about RegistryLedger, for any writers, subjects and bounds.      *)
(***************************************************************************)
EXTENDS RegistryLedger, SequenceTheorems, TLAPS

---------------------------------------------------------------------------
(* The inductive invariant.                                                *)

LinesOf(lines) == {lines[i] : i \in 1..Len(lines)}

\* The types, without the ceiling; a token carries the name of who drew it.
Shape ==
    /\ lock \in LockFile \cup {None}
    /\ alive \in [Writer -> BOOLEAN]
    /\ pc \in [Writer -> {"idle", "open", "stat"} \cup Reclaiming \cup Inside]
    /\ token \in [Writer -> Token]
    /\ \A w \in Writer : token[w].by = w
    /\ seen \in [Writer -> Seq(Token) \cup {None}]
    /\ subject \in [Writer -> Subject \cup {None}]
    /\ head = [w \in Writer |-> head[w]]
    /\ result \in [Writer -> Results]
    /\ ledger \in Seq(LinesOf(ledger))
    /\ calls \in Nat /\ faults \in Nat /\ expired \in Nat

HasTorn(lines) == \E i \in 1..Len(lines) : lines[i] = Torn

\* Line i is the event of w's call.
Writes(w, lines, i) ==
    /\ i \in 1..Len(lines)
    /\ lines[i] # Torn
    /\ lines[i].by = token[w] /\ lines[i].subject = subject[w]

Chained(lines, i) == \A j \in 1..i : Linked(lines, j)

\* A call has no result before it is over; one that has appended finds its line,
\* or a torn one, in the file; one that was acknowledged is chained.
Recorded(w) ==
    /\ pc[w] \notin {"idle", "release", "releaseRm"} => result[w] = "none"
    /\ pc[w] = "refold" => HasTorn(ledger) \/ \E i \in 1..Len(ledger) : Writes(w, ledger, i)
    /\ result[w] = "ok" =>
         \E i \in 1..Len(ledger) : Writes(w, ledger, i) /\ Chained(ledger, i)

\* What a holder knows of the ledger, at the step it has reached.
Judged(w) ==
    /\ lock # None /\ lock.lock = token[w]
    /\ pc[w] \in {"head", "size", "append"} =>
         Folds(ledger) /\ subject[w] \notin Spent(ledger)
    /\ pc[w] \in {"size", "append"} => head[w] = LastHash(ledger)
    /\ pc[w] = "append" => Len(ledger) < Ceiling

\* A whole ledger: no line is torn but the last, every other line extends its
\* predecessor, no subject is spent twice, the ceiling is kept.
Whole ==
    /\ \A i \in 1..Len(ledger) : ledger[i] = Torn => i = Len(ledger)
    /\ \A i \in 1..Len(ledger) : ledger[i] # Torn => Linked(ledger, i)
    /\ ~DoubleSpend
    /\ Len(ledger) <= Ceiling

\* While no lock file has outlived staleMs nobody reclaims one, so every holder
\* owns the file and what it judged is still so.
Quiet ==
    /\ lock # None => ~lock.old
    /\ \A w \in Writer : pc[w] \notin Reclaiming
    /\ \A w \in Holders : Judged(w)
    /\ Whole

IInv ==
    /\ Shape
    /\ \A w \in Writer : Recorded(w)
    /\ expired = 0 => Quiet

---------------------------------------------------------------------------
(* How the ledger grows.                                                   *)

\* The next ledger is this one, or this one and one more line.
Grows(lines, more) ==
    /\ more \in Seq(LinesOf(more))
    /\ Len(lines) <= Len(more)
    /\ \A i \in 1..Len(lines) : more[i] = lines[i]

\* AppendText writes after a torn line without ending it.
LEMMA AppendTextGrows ==
    ASSUME NEW lines, lines \in Seq(LinesOf(lines)), NEW line
    PROVE  /\ Grows(lines, AppendText(lines, line))
           /\ \/ HasTorn(lines) /\ AppendText(lines, line) = lines
              \/ /\ Len(AppendText(lines, line)) = Len(lines) + 1
                 /\ AppendText(lines, line)[Len(lines) + 1] = line
<1>. DEFINE more == Append(lines, line)
            S == LinesOf(lines) \cup {line}
<1>1. lines \in Seq(S)
  BY SeqMonotonic, LinesOf(lines) \subseteq S
<1>2. /\ more \in Seq(S) /\ Len(more) = Len(lines) + 1
      /\ \A i \in 1..Len(lines) : more[i] = lines[i]
      /\ more[Len(lines) + 1] = line
      /\ Len(lines) \in Nat
  BY <1>1
<1>3. more \in Seq(LinesOf(more))
  <2>1. DOMAIN more = 1..Len(more) /\ Len(more) \in Nat /\ more \in [1..Len(more) -> S]
    BY <1>2, LenProperties
  <2>2. more \in [1..Len(more) -> LinesOf(more)]
    BY <2>1 DEF LinesOf
  <2>. QED BY <2>1, <2>2, SeqDef
<1>4. CASE lines # << >> /\ lines[Len(lines)] = Torn
  <2>1. Len(lines) \in 1..Len(lines)
    BY <1>2, <1>4, EmptySeq
  <2>2. AppendText(lines, line) = lines
    BY <1>4 DEF AppendText
  <2>3. Grows(lines, lines)
    BY <1>2 DEF Grows
  <2>. QED BY <1>4, <2>1, <2>2, <2>3 DEF HasTorn
<1>5. CASE ~(lines # << >> /\ lines[Len(lines)] = Torn)
  <2>1. AppendText(lines, line) = more
    BY <1>5 DEF AppendText
  <2>2. Grows(lines, more)
    BY <1>2, <1>3 DEF Grows
  <2>. QED BY <1>2, <2>1, <2>2
<1>. QED BY <1>4, <1>5

\* A chain is not disturbed by what follows it.
LEMMA ChainKept ==
    ASSUME NEW lines, lines \in Seq(LinesOf(lines)), NEW more, Grows(lines, more),
           NEW i \in 1..Len(lines)
    PROVE  /\ Linked(lines, i) <=> Linked(more, i)
           /\ Chained(lines, i) <=> Chained(more, i)
<1>1. ASSUME NEW j \in 1..Len(lines)
      PROVE  Linked(lines, j) <=> Linked(more, j)
  <2>1. Len(lines) \in Nat
    BY LenProperties
  <2>2. more[j] = lines[j] /\ (j # 1 => more[j - 1] = lines[j - 1])
    BY <2>1 DEF Grows
  <2>. QED BY <2>2 DEF Linked
<1>2. \A j \in 1..i : j \in 1..Len(lines)
  BY LenProperties
<1>. QED BY <1>1, <1>2 DEF Chained

\* A ledger that stays as it is.
LEMMA SameGrows ==
    ASSUME Shape, UNCHANGED ledger
    PROVE  Grows(ledger, ledger')
<1>1. Len(ledger) \in Nat /\ ledger \in Seq(LinesOf(ledger))
  BY LenProperties DEF Shape
<1>. QED BY <1>1 DEF Grows

\* Whatever happens, lines are only added, at the end.
LEMMA StepGrows ==
    ASSUME Shape, [Next]_vars
    PROVE  Grows(ledger, ledger')
<1>1. CASE UNCHANGED ledger
  BY <1>1, SameGrows
<1>2. ASSUME NEW line, ledger' = AppendText(ledger, line)
      PROVE  Grows(ledger, ledger')
  BY <1>2, AppendTextGrows DEF Shape
<1>3. CASE UNCHANGED vars \/ Expire
  BY <1>1, <1>3 DEF vars, fileVars, Expire
<1>4. ASSUME NEW w \in Writer, Call(w) \/ Step(w)
      PROVE  Grows(ledger, ledger')
  <2>1. CASE AppendLine(w)
    BY <1>2, <2>1 DEF AppendLine
  <2>2. CASE Call(w) \/ Open(w) \/ WriteToken(w) \/ Stat(w) \/ ReadToken(w) \/ Reread(w)
    BY <1>1, <2>2 DEF Call, Open, WriteToken, Stat, ReadToken, Reread, fileVars
  <2>3. CASE RmStale(w) \/ FoldAndGuard(w) \/ ChainHead(w) \/ CheckCeiling(w)
    BY <1>1, <2>3 DEF RmStale, FoldAndGuard, ChainHead, CheckCeiling, fileVars
  <2>4. CASE Refold(w) \/ ReleaseRead(w) \/ ReleaseRm(w)
    BY <1>1, <2>4 DEF Refold, ReleaseRead, ReleaseRm, fileVars
  <2>. QED BY <1>4, <2>1, <2>2, <2>3, <2>4 DEF Step
<1>5. ASSUME NEW w \in Writer, Environment(w)
      PROVE  Grows(ledger, ledger')
  BY <1>1, <1>2, <1>5 DEF Environment, Crash, WriteTokenFails, AppendFails, TornAppend, fileVars
<1>. QED BY <1>3, <1>4, <1>5 DEF Next

---------------------------------------------------------------------------
(* Types.                                                                  *)

\* What readLockToken returns.
LEMMA ContentsType ==
    ASSUME lock \in LockFile \cup {None}
    PROVE  Contents(lock) \in Seq(Token) \cup {None}
BY DEF Contents, LockFile, Token

LEMMA ShapeInit == Init => Shape
<1>. SUFFICES ASSUME Init PROVE Shape
  OBVIOUS
<1>1. \A w \in Writer : [by |-> w, n |-> 0] \in Token
  BY DEF Token
<1>2. ledger \in Seq(LinesOf(ledger))
  BY DEF Init
<1>. QED BY <1>1, <1>2 DEF Init, Shape, Results

LEMMA ShapeStep ==
    ASSUME Shape, [Next]_vars
    PROVE  Shape'
<1>1. ledger' \in Seq(LinesOf(ledger'))
  BY StepGrows DEF Grows
<1>2. CASE UNCHANGED vars
  BY <1>2 DEF vars, fileVars, callVars, counters, Shape
<1>3. CASE Expire
  <2>1. lock' \in LockFile
    <3>1. lock \in LockFile /\ lock' = [lock EXCEPT !.old = TRUE]
      BY <1>3 DEF Expire, Shape
    <3>. QED BY <3>1 DEF LockFile
  <2>2. expired' \in Nat
    BY <1>3 DEF Expire, Shape
  <2>. QED BY <1>1, <1>3, <2>1, <2>2 DEF Expire, callVars, Shape
<1>4. ASSUME NEW w \in Writer, Call(w)
      PROVE  Shape'
  BY <1>1, <1>4 DEF Call, Goto, fileVars, Shape, Results
<1>5. ASSUME NEW w \in Writer, Step(w)
      PROVE  Shape'
  <2>1. CASE Open(w)
    <3>1. CASE lock = None
      <4>1. [token[w] EXCEPT !.n = token[w].n + 1] \in Token
        <5>1. token[w] \in Token
          BY DEF Shape
        <5>. QED BY <5>1 DEF Token
      <4>2. /\ token' = [token EXCEPT ![w] = [token[w] EXCEPT !.n = token[w].n + 1]]
            /\ lock' = [lock |-> token'[w], written |-> FALSE, old |-> FALSE]
            /\ pc' = [pc EXCEPT ![w] = "write"]
        BY <2>1, <3>1 DEF Open, Goto, Shape
      <4>3. token' \in [Writer -> Token] /\ \A v \in Writer : token'[v].by = v
        BY <4>1, <4>2 DEF Shape, Token
      <4>4. lock' \in LockFile
        BY <4>2, <4>3 DEF LockFile
      <4>5. pc' \in [Writer -> {"idle", "open", "stat"} \cup Reclaiming \cup Inside]
        BY <4>2 DEF Shape, Inside
      <4>. QED BY <1>1, <2>1, <4>3, <4>4, <4>5 DEF Open, counters, Shape
    <3>2. CASE lock # None
      BY <1>1, <2>1, <3>2 DEF Open, Goto, counters, Shape
    <3>. QED BY <3>1, <3>2
  <2>2. CASE WriteToken(w)
    BY <1>1, <2>2 DEF WriteToken, Goto, callVars, counters, Shape, LockFile, Inside
  <2>3. CASE Stat(w)
    BY <1>1, <2>3 DEF Stat, Return, Goto, fileVars, counters, Shape, Results, Reclaiming
  <2>4. CASE ReadToken(w)
    <3>1. seen' \in [Writer -> Seq(Token) \cup {None}]
      BY <2>4, ContentsType DEF ReadToken, Shape
    <3>. QED BY <1>1, <2>4, <3>1 DEF ReadToken, Goto, fileVars, counters, Shape, Reclaiming
  <2>5. CASE Reread(w)
    BY <1>1, <2>5 DEF Reread, Goto, fileVars, callVars, counters, Shape, Reclaiming
  <2>6. CASE RmStale(w)
    BY <1>1, <2>6 DEF RmStale, Goto, callVars, counters, Shape
  <2>7. CASE FoldAndGuard(w)
    BY <1>1, <2>7 DEF FoldAndGuard, Finish, Goto, fileVars, counters, Shape, Results, Inside
  <2>8. CASE ChainHead(w)
    BY <1>1, <2>8 DEF ChainHead, Finish, Goto, fileVars, counters, Shape, Results, Inside
  <2>9. CASE CheckCeiling(w)
    BY <1>1, <2>9 DEF CheckCeiling, Finish, Goto, fileVars, counters, Shape, Results, Inside
  <2>10. CASE AppendLine(w)
    BY <1>1, <2>10 DEF AppendLine, Goto, callVars, counters, Shape, Inside
  <2>11. CASE Refold(w)
    BY <1>1, <2>11 DEF Refold, Finish, Goto, fileVars, counters, Shape, Results, Inside
  <2>12. CASE ReleaseRead(w)
    BY <1>1, <2>12 DEF ReleaseRead, Goto, fileVars, callVars, counters, Shape, Inside
  <2>13. CASE ReleaseRm(w)
    BY <1>1, <2>13 DEF ReleaseRm, Goto, callVars, counters, Shape
  <2>. QED BY <1>5, <2>1, <2>2, <2>3, <2>4, <2>5, <2>6, <2>7, <2>8, <2>9, <2>10, <2>11,
              <2>12, <2>13 DEF Step
<1>6. ASSUME NEW w \in Writer, Environment(w)
      PROVE  Shape'
  <2>1. CASE Crash(w)
    BY <1>1, <2>1 DEF Crash, Fault, callVars, Shape
  <2>2. CASE WriteTokenFails(w)
    BY <1>1, <2>2 DEF WriteTokenFails, Fault, Return, Goto, fileVars, Shape, Results
  <2>3. CASE AppendFails(w)
    BY <1>1, <2>3 DEF AppendFails, Fault, Finish, Goto, Shape, Results, Inside
  <2>. QED BY <1>6, <2>1, <2>2, <2>3 DEF Environment
<1>. QED BY <1>2, <1>3, <1>4, <1>5, <1>6 DEF Next

---------------------------------------------------------------------------
(* Acknowledged appends.                                                   *)

Over == {"idle", "release", "releaseRm"}

\* A line once in the file stays where it is.
LEMMA WritesKept ==
    ASSUME Shape, [Next]_vars, NEW v \in Writer,
           token'[v] = token[v], subject'[v] = subject[v],
           NEW i \in 1..Len(ledger)
    PROVE  /\ i \in 1..Len(ledger')
           /\ ledger'[i] = ledger[i]
           /\ Writes(v, ledger, i) => Writes(v, ledger, i)'
           /\ Chained(ledger, i) => Chained(ledger, i)'
<1>1. Grows(ledger, ledger') /\ ledger \in Seq(LinesOf(ledger))
  BY StepGrows DEF Shape
<1>2. i \in 1..Len(ledger') /\ ledger'[i] = ledger[i]
  <2>1. Len(ledger) \in Nat /\ Len(ledger') \in Nat
    BY <1>1, LenProperties DEF Grows
  <2>. QED BY <1>1, <2>1 DEF Grows
<1>3. Writes(v, ledger, i) => Writes(v, ledger, i)'
  BY <1>2 DEF Writes
<1>4. Chained(ledger, i) => Chained(ledger', i)
  BY <1>1, ChainKept
<1>5. Chained(ledger', i) <=> Chained(ledger, i)'
  BY DEF Chained
<1>. QED BY <1>2, <1>3, <1>4, <1>5

\* A step that neither appends nor acknowledges for v.
LEMMA RecordedKept ==
    ASSUME Shape, [Next]_vars, NEW v \in Writer, Recorded(v),
           token'[v] = token[v], subject'[v] = subject[v],
           pc'[v] \notin Over => result'[v] = "none",
           pc'[v] = "refold" => pc[v] = "refold",
           result'[v] = "ok" => result[v] = "ok"
    PROVE  Recorded(v)'
<1>1. pc'[v] = "refold" =>
        (HasTorn(ledger) \/ \E i \in 1..Len(ledger) : Writes(v, ledger, i))'
  BY WritesKept DEF Recorded, HasTorn
<1>2. result'[v] = "ok" =>
        (\E i \in 1..Len(ledger) : Writes(v, ledger, i) /\ Chained(ledger, i))'
  <2>. SUFFICES ASSUME result'[v] = "ok"
                PROVE  (\E i \in 1..Len(ledger) : Writes(v, ledger, i) /\ Chained(ledger, i))'
    OBVIOUS
  <2>1. PICK i \in 1..Len(ledger) : Writes(v, ledger, i) /\ Chained(ledger, i)
    BY DEF Recorded
  <2>. QED BY <2>1, WritesKept
<1>. QED BY <1>1, <1>2 DEF Recorded, Over

\* A call whose result is still open, and that has not appended.
LEMMA RecordedAfresh ==
    ASSUME NEW v \in Writer, result'[v] = "none", pc'[v] # "refold"
    PROVE  Recorded(v)'
BY DEF Recorded

LEMMA AppendRecorded ==
    ASSUME Shape, NEW w \in Writer, Recorded(w), AppendLine(w)
    PROVE  Recorded(w)'
<1>1. /\ ledger' = AppendText(ledger, Event(w))
      /\ ledger \in Seq(LinesOf(ledger))
      /\ pc'[w] = "refold" /\ result'[w] = "none"
      /\ token' = token /\ subject' = subject
  BY DEF AppendLine, At, Goto, callVars, Shape, Recorded
<1>2. Len(ledger) \in Nat
  BY <1>1, LenProperties
<1>3. CASE HasTorn(ledger) /\ ledger' = ledger
  BY <1>1, <1>3 DEF Recorded, HasTorn
<1>4. CASE Len(ledger') = Len(ledger) + 1 /\ ledger'[Len(ledger) + 1] = Event(w)
  <2>1. PICK i \in 1..Len(ledger') : i = Len(ledger) + 1
    BY <1>2, <1>4
  <2>2. CASE Event(w) = Torn
    BY <1>1, <1>4, <2>1, <2>2 DEF Recorded, HasTorn
  <2>3. CASE Event(w) # Torn
    <3>1. Event(w).by = token[w] /\ Event(w).subject = subject[w]
      BY DEF Event
    <3>2. Writes(w, ledger, i)'
      BY <1>1, <1>4, <2>1, <2>3, <3>1 DEF Writes
    <3>. QED BY <1>1, <2>1, <3>2 DEF Recorded
  <2>. QED BY <2>2, <2>3
<1>. QED BY <1>1, <1>3, <1>4, AppendTextGrows

LEMMA RefoldRecorded ==
    ASSUME Shape, NEW w \in Writer, Recorded(w), Refold(w)
    PROVE  Recorded(w)'
<1>1. /\ UNCHANGED <<ledger, token, subject>>
      /\ pc[w] = "refold" /\ pc'[w] = "release"
      /\ result'[w] = IF Folds(ledger) THEN "ok" ELSE "corrupt"
  BY DEF Refold, At, Finish, Goto, fileVars, Shape
<1>2. CASE ~Folds(ledger)
  BY <1>1, <1>2 DEF Recorded
<1>3. CASE Folds(ledger)
  <2>1. ~HasTorn(ledger)
    BY <1>3 DEF Folds, Linked, HasTorn
  <2>2. PICK i \in 1..Len(ledger) : Writes(w, ledger, i)
    BY <1>1, <2>1 DEF Recorded
  <2>3. \A j \in 1..i : j \in 1..Len(ledger)
    BY LenProperties DEF Shape
  <2>4. Chained(ledger, i)
    BY <1>3, <2>3 DEF Chained, Folds
  <2>5. Writes(w, ledger, i)' /\ Chained(ledger, i)'
    BY <1>1, <2>2, <2>4 DEF Writes, Chained, Linked
  <2>. QED BY <1>1, <2>2, <2>5 DEF Recorded
<1>. QED BY <1>2, <1>3

\* What an action of w leaves of the others.
LeavesOthers(w) ==
    \A v \in Writer \ {w} :
        /\ pc'[v] = pc[v] /\ alive'[v] = alive[v]
        /\ token'[v] = token[v] /\ subject'[v] = subject[v]
        /\ head'[v] = head[v] /\ result'[v] = result[v]

LEMMA OneWriter ==
    ASSUME Shape, NEW w \in Writer, Call(w) \/ Step(w) \/ Environment(w)
    PROVE  LeavesOthers(w)
<1>1. CASE Call(w)
  BY <1>1 DEF Call, Goto, fileVars, LeavesOthers, Shape
<1>2. CASE Open(w) \/ WriteToken(w) \/ Stat(w) \/ ReadToken(w)
  BY <1>2 DEF Open, WriteToken, Stat, ReadToken, Return, Goto, fileVars, callVars,
              LeavesOthers, Shape
<1>3. CASE Reread(w) \/ RmStale(w) \/ FoldAndGuard(w) \/ ChainHead(w)
  BY <1>3 DEF Reread, RmStale, FoldAndGuard, ChainHead, Finish, Goto, fileVars, callVars,
              LeavesOthers, Shape
<1>4. CASE CheckCeiling(w) \/ AppendLine(w) \/ Refold(w) \/ ReleaseRead(w) \/ ReleaseRm(w)
  BY <1>4 DEF CheckCeiling, AppendLine, Refold, ReleaseRead, ReleaseRm, Finish, Goto,
              fileVars, callVars, LeavesOthers, Shape
<1>5. CASE Environment(w)
  BY <1>5 DEF Environment, Crash, WriteTokenFails, AppendFails, Return, Finish, Goto,
              fileVars, callVars, LeavesOthers, Shape
<1>. QED BY <1>1, <1>2, <1>3, <1>4, <1>5 DEF Step

LEMMA RecordedStep ==
    ASSUME Shape, [Next]_vars, \A v \in Writer : Recorded(v)
    PROVE  \A v \in Writer : Recorded(v)'
<1>1. CASE UNCHANGED vars \/ Expire
  BY <1>1, RecordedKept DEF vars, callVars, Expire, Recorded, Over
<1>2. ASSUME NEW w \in Writer, Call(w) \/ Step(w) \/ Environment(w)
      PROVE  \A v \in Writer : Recorded(v)'
  <2>1. \A v \in Writer \ {w} : Recorded(v)'
    BY <1>2, OneWriter, RecordedKept DEF LeavesOthers, Recorded, Over
  <2>2. Recorded(w)'
    <3>1. CASE Call(w)
      BY <3>1, RecordedAfresh DEF Call, Goto, Shape
    <3>2. CASE Open(w)
      BY <3>2, RecordedAfresh DEF Open, At, Goto, Shape, Recorded
    <3>3. CASE AppendLine(w)
      BY <3>3, AppendRecorded
    <3>4. CASE Refold(w)
      BY <3>4, RefoldRecorded
    <3>5. CASE WriteToken(w) \/ Stat(w) \/ ReadToken(w) \/ Reread(w) \/ RmStale(w)
      BY <3>5, RecordedKept DEF WriteToken, Stat, ReadToken, Reread, RmStale, Return, At, Goto,
                                callVars, Shape, Recorded, Over
    <3>6. CASE FoldAndGuard(w) \/ ChainHead(w) \/ CheckCeiling(w)
      BY <3>6, RecordedKept DEF FoldAndGuard, ChainHead, CheckCeiling, Finish, At, Goto,
                                Shape, Recorded, Over
    <3>7. CASE ReleaseRead(w) \/ ReleaseRm(w)
      BY <3>7, RecordedKept DEF ReleaseRead, ReleaseRm, At, Goto, callVars, Shape, Recorded, Over
    <3>8. CASE Environment(w)
      BY <3>8, RecordedKept DEF Environment, Crash, WriteTokenFails, AppendFails, Return, Finish,
                                At, Goto, callVars, Shape, Recorded, Over
    <3>. QED BY <1>2, <3>1, <3>2, <3>3, <3>4, <3>5, <3>6, <3>7, <3>8 DEF Step
  <2>. QED BY <2>1, <2>2
<1>. QED BY <1>1, <1>2 DEF Next

---------------------------------------------------------------------------
(* While nothing has expired.                                              *)

\* A lock file with w's token in it.
LEMMA FreshLock ==
    ASSUME NEW file, NEW t \in Token, NEW b \in BOOLEAN,
           file = [lock |-> t, written |-> b, old |-> FALSE]
    PROVE  file # None /\ file.lock = t /\ ~file.old
<1>1. file \in [lock : [by : Writer, n : Nat], written : BOOLEAN, old : BOOLEAN]
  BY DEF Token
<1>. QED BY <1>1, ValuesAssumption

\* A token names the one writer that drew it, so the file has one owner.
LEMMA OneHolder ==
    ASSUME Shape, Quiet
    PROVE  \A v, w \in Holders : v = w
<1>. SUFFICES ASSUME NEW v \in Holders, NEW w \in Holders PROVE v = w
  OBVIOUS
<1>1. token[v] = lock.lock /\ token[w] = lock.lock
  BY DEF Quiet, Judged
<1>2. token[v].by = v /\ token[w].by = w
  BY DEF Shape, Holders
<1>. QED BY <1>1, <1>2

\* One line on a ledger that folds, by a writer that judged that ledger.
LEMMA AppendWhole ==
    ASSUME Shape, Whole, Folds(ledger), Len(ledger) < Ceiling, NEW line,
           ledger' = AppendText(ledger, line),
           \/ line = Torn
           \/ line.prev = LastHash(ledger) /\ line.subject \notin Spent(ledger)
    PROVE  Whole'
<1>. DEFINE n == Len(ledger)
<1>1. Len(ledger) \in Nat /\ ledger \in Seq(LinesOf(ledger))
  BY LenProperties DEF Shape
<1>2. \A i \in 1..n : ledger[i] # Torn /\ Linked(ledger, i)
  BY DEF Folds, Linked
<1>3. /\ Grows(ledger, ledger')
      /\ Len(ledger') = n + 1 /\ ledger'[n + 1] = line
  <2>1. ~HasTorn(ledger)
    BY <1>2 DEF HasTorn
  <2>. QED BY <1>1, <2>1, AppendTextGrows
<1>4. ASSUME NEW i \in 1..Len(ledger')
      PROVE  i = n + 1 \/ (i \in 1..n /\ ledger'[i] = ledger[i] /\ Linked(ledger', i))
  <2>1. i = n + 1 \/ i \in 1..n
    BY <1>1, <1>3
  <2>2. ASSUME i \in 1..n PROVE ledger'[i] = ledger[i] /\ Linked(ledger', i)
    <3>1. Linked(ledger, i) <=> Linked(ledger', i)
      BY <1>1, <1>3, <2>2, ChainKept
    <3>2. Linked(ledger, i) /\ ledger'[i] = ledger[i]
      BY <1>2, <1>3, <2>2 DEF Grows
    <3>. QED BY <3>1, <3>2
  <2>. QED BY <2>1, <2>2
<1>5. ledger'[n + 1] # Torn => Linked(ledger', n + 1)
  <2>. SUFFICES ASSUME line # Torn
                PROVE  line.prev = IF n + 1 = 1 THEN Genesis ELSE Hash(ledger'[n])
    BY <1>1, <1>3 DEF Linked
  <2>1. CASE ledger = << >>
    BY <2>1 DEF LastHash
  <2>2. CASE ledger # << >>
    <3>1. n \in 1..n
      BY <1>1, <2>2, EmptySeq
    <3>. QED BY <1>1, <1>3, <2>2, <3>1 DEF LastHash, Grows
  <2>. QED BY <2>1, <2>2
<1>6. \A i \in 1..Len(ledger') : /\ ledger'[i] = Torn => i = Len(ledger')
                                 /\ ledger'[i] # Torn => Linked(ledger', i)
  BY <1>2, <1>3, <1>4, <1>5
<1>7. ASSUME NEW i \in 1..Len(ledger'), NEW j \in 1..Len(ledger'), i # j,
             ledger'[i] # Torn, ledger'[j] # Torn,
             ledger'[i].subject = ledger'[j].subject
      PROVE  FALSE
  <2>1. CASE i = n + 1 /\ j \in 1..n
    BY <1>2, <1>3, <1>4, <1>7, <2>1 DEF Spent
  <2>2. CASE j = n + 1 /\ i \in 1..n
    BY <1>2, <1>3, <1>4, <1>7, <2>2 DEF Spent
  <2>3. CASE i \in 1..n /\ j \in 1..n
    <3>1. ledger[i] # Torn /\ ledger[j] # Torn /\ ledger[i].subject = ledger[j].subject
      BY <1>3, <1>7, <2>3 DEF Grows
    <3>. QED BY <1>7, <2>3, <3>1 DEF Whole, DoubleSpend
  <2>. QED BY <1>4, <1>7, <2>1, <2>2, <2>3
<1>8. Len(ledger') <= Ceiling
  BY <1>1, <1>3, BoundsAssumption
<1>9. \A i \in 1..Len(ledger') : Linked(ledger', i) <=> Linked(ledger, i)'
  BY DEF Linked
<1>. QED BY <1>6, <1>7, <1>8, <1>9 DEF Whole, DoubleSpend

LEMMA SameWhole ==
    ASSUME Whole, UNCHANGED ledger
    PROVE  Whole'
BY DEF Whole, DoubleSpend, Linked

\* What a step of w has to keep.
QuietAt(w) ==
    /\ (lock # None => ~lock.old)'
    /\ pc'[w] \notin Reclaiming
    /\ alive'[w] /\ pc'[w] \in Inside => Judged(w)'
    /\ Whole'
    /\ \/ w \in Holders
       \/ /\ UNCHANGED ledger
          /\ lock = None \/ (lock' # None /\ lock'.lock = lock.lock)

LEMMA QuietStep ==
    ASSUME Shape, Quiet, NEW w \in Writer, LeavesOthers(w), QuietAt(w)
    PROVE  Quiet'
<1>1. ASSUME NEW v \in Writer \ {w}, alive'[v], pc'[v] \in Inside
      PROVE  Judged(v)'
  <2>1. v \in Holders /\ Judged(v) /\ lock # None
    BY <1>1 DEF LeavesOthers, Holders, Quiet, Judged
  <2>2. w \notin Holders
    BY <1>1, <2>1, OneHolder
  <2>3. ledger' = ledger /\ lock' # None /\ lock'.lock = lock.lock
    BY <2>1, <2>2 DEF QuietAt
  <2>4. /\ pc'[v] = pc[v] /\ token'[v] = token[v]
        /\ subject'[v] = subject[v] /\ head'[v] = head[v]
    BY <1>1 DEF LeavesOthers
  <2>. QED BY <2>1, <2>3, <2>4 DEF Judged, Folds, Linked, Spent, LastHash
<1>2. \A v \in Writer : pc'[v] \notin Reclaiming
  BY DEF LeavesOthers, QuietAt, Quiet
<1>. QED BY <1>1, <1>2 DEF QuietAt, Quiet, Holders

\* The steps of acquireLedgerLock: the reclaiming ones are out of reach.
LEMMA AcquireQuiet ==
    ASSUME Shape, Quiet, NEW w \in Writer,
           \/ Call(w) \/ Open(w) \/ WriteToken(w) \/ Stat(w)
           \/ ReadToken(w) \/ Reread(w) \/ RmStale(w)
    PROVE  QuietAt(w)
<1>1. CASE ReadToken(w) \/ Reread(w) \/ RmStale(w)
  BY <1>1 DEF ReadToken, Reread, RmStale, At, Quiet, Reclaiming
<1>2. CASE Call(w)
  <2>1. UNCHANGED <<lock, ledger>> /\ pc'[w] = "open"
    BY <1>2 DEF Call, Goto, fileVars, Shape
  <2>. QED BY <2>1, SameWhole DEF Quiet, QuietAt, Inside, Reclaiming
<1>3. CASE Open(w)
  <2>1. UNCHANGED ledger /\ Whole'
    BY <1>3, SameWhole DEF Open, Quiet
  <2>2. CASE lock = None
    <3>1. lock' = [lock |-> token'[w], written |-> FALSE, old |-> FALSE] /\ pc'[w] = "write"
      BY <1>3, <2>2 DEF Open, Goto, Shape
    <3>2. Shape'
      BY <1>3, ShapeStep DEF Next, Step
    <3>3. token'[w] \in Token
      BY <3>2 DEF Shape
    <3>4. lock' # None /\ lock'.lock = token'[w] /\ ~lock'.old
      BY <3>1, <3>3, FreshLock
    <3>5. Judged(w)'
      BY <3>1, <3>4 DEF Judged
    <3>. QED BY <2>1, <2>2, <3>1, <3>4, <3>5 DEF QuietAt, Reclaiming
  <2>3. CASE lock # None
    BY <1>3, <2>1, <2>3 DEF Open, Goto, Shape, Quiet, QuietAt, Inside, Reclaiming
  <2>. QED BY <2>2, <2>3
<1>4. CASE WriteToken(w)
  <2>1. UNCHANGED <<ledger, token>> /\ Whole' /\ w \in Holders /\ pc'[w] = "fold"
    BY <1>4, SameWhole DEF WriteToken, At, Goto, callVars, Quiet, Shape, Holders, Inside
  <2>2. lock \in LockFile /\ lock.lock = token[w]
    BY <2>1 DEF Quiet, Judged, Shape
  <2>3. lock' = [lock EXCEPT !.written = TRUE, !.old = FALSE]
    BY <1>4, <2>2, ValuesAssumption DEF WriteToken, Quiet, Judged, LockFile, Token
  <2>4. lock' = [lock |-> token[w], written |-> TRUE, old |-> FALSE]
    BY <2>2, <2>3 DEF LockFile
  <2>5. token[w] \in Token
    BY DEF Shape
  <2>6. lock' # None /\ lock'.lock = token'[w] /\ ~lock'.old
    BY <2>1, <2>4, <2>5, FreshLock
  <2>. QED BY <2>1, <2>6 DEF QuietAt, Judged, Reclaiming
<1>5. CASE Stat(w)
  <2>1. UNCHANGED <<lock, ledger>> /\ pc'[w] \in {"open", "idle"}
    BY <1>5 DEF Stat, Return, Goto, fileVars, Quiet, Shape
  <2>. QED BY <2>1, SameWhole DEF Quiet, QuietAt, Inside, Reclaiming
<1>. QED BY <1>1, <1>2, <1>3, <1>4, <1>5

\* The steps under the lock.
LEMMA AppendQuiet ==
    ASSUME Shape, Quiet, NEW w \in Writer,
           \/ FoldAndGuard(w) \/ ChainHead(w) \/ CheckCeiling(w) \/ AppendLine(w)
           \/ Refold(w) \/ ReleaseRead(w) \/ ReleaseRm(w)
    PROVE  QuietAt(w)
<1>1. /\ pc[w] \in Inside /\ w \in Holders /\ Judged(w) /\ token' = token
      /\ alive' = alive /\ subject' = subject
  BY DEF FoldAndGuard, ChainHead, CheckCeiling, AppendLine, Refold, ReleaseRead, ReleaseRm,
         At, Inside, Holders, Quiet, callVars
<1>2. CASE FoldAndGuard(w)
  <2>1. /\ UNCHANGED <<lock, ledger>>
        /\ pc'[w] \in {"head", "release"}
        /\ pc'[w] = "head" => Folds(ledger) /\ subject[w] \notin Spent(ledger)
    BY <1>2 DEF FoldAndGuard, Finish, Goto, fileVars, Shape
  <2>. QED BY <1>1, <2>1, SameWhole DEF Quiet, QuietAt, Judged, Folds, Linked, Spent, Reclaiming
<1>3. CASE ChainHead(w)
  <2>1. /\ UNCHANGED <<lock, ledger>> /\ pc[w] = "head"
        /\ pc'[w] \in {"size", "release"}
        /\ pc'[w] = "size" => head'[w] = LastHash(ledger)
    BY <1>3 DEF ChainHead, At, Finish, Goto, fileVars, Shape
  <2>. QED BY <1>1, <2>1, SameWhole DEF Quiet, QuietAt, Judged, Folds, Linked, Spent, LastHash,
                                        Reclaiming
<1>4. CASE CheckCeiling(w)
  <2>1. /\ UNCHANGED <<lock, ledger, head>> /\ pc[w] = "size"
        /\ pc'[w] \in {"append", "release"}
        /\ pc'[w] = "append" => ~(Len(ledger) + 1 > Ceiling)
    BY <1>4 DEF CheckCeiling, At, Finish, Goto, fileVars, Shape
  <2>2. pc'[w] = "append" => Len(ledger) < Ceiling
    BY <2>1, LenProperties, BoundsAssumption DEF Shape
  <2>. QED BY <1>1, <2>1, <2>2, SameWhole DEF Quiet, QuietAt, Judged, Folds, Linked, Spent,
                                              LastHash, Reclaiming
<1>5. CASE AppendLine(w)
  <2>1. /\ lock' = lock /\ pc[w] = "append" /\ pc'[w] = "refold"
        /\ ledger' = AppendText(ledger, Event(w))
    BY <1>5 DEF AppendLine, At, Goto, Shape
  <2>2. Event(w).prev = head[w] /\ Event(w).subject = subject[w]
    BY DEF Event
  <2>3. Whole'
    BY <1>1, <2>1, <2>2, AppendWhole DEF Quiet, Judged
  <2>. QED BY <1>1, <2>1, <2>3 DEF Quiet, QuietAt, Judged, Reclaiming
<1>6. CASE Refold(w) \/ ReleaseRead(w)
  <2>1. UNCHANGED <<lock, ledger>> /\ pc'[w] \in {"release", "releaseRm", "idle"}
    BY <1>6 DEF Refold, ReleaseRead, Finish, Goto, fileVars, Shape
  <2>. QED BY <1>1, <2>1, SameWhole DEF Quiet, QuietAt, Judged, Reclaiming, Inside
<1>7. CASE ReleaseRm(w)
  <2>1. lock' = None /\ UNCHANGED ledger /\ pc'[w] = "idle"
    BY <1>7 DEF ReleaseRm, Goto, Shape
  <2>. QED BY <1>1, <2>1, SameWhole DEF Quiet, QuietAt, Reclaiming, Inside
<1>. QED BY <1>2, <1>3, <1>4, <1>5, <1>6, <1>7

\* Faults.
LEMMA FaultQuiet ==
    ASSUME Shape, Quiet, NEW w \in Writer, Environment(w)
    PROVE  QuietAt(w)
<1>1. /\ alive[w] /\ lock' = lock /\ token' = token
      /\ \/ ~alive'[w] /\ pc' = pc
         \/ pc[w] \in Inside /\ pc'[w] = "idle"
         \/ pc[w] \in Inside /\ pc'[w] = "release"
  BY DEF Environment, Crash, WriteTokenFails, AppendFails, At, Return, Finish, Goto, fileVars,
         callVars, Shape, Inside
<1>2. \/ UNCHANGED ledger
      \/ pc[w] = "append" /\ ledger' = AppendText(ledger, Torn)
  <2>1. CASE Crash(w)
    BY <2>1 DEF Crash, TornAppend
  <2>2. CASE WriteTokenFails(w)
    BY <2>2 DEF WriteTokenFails, fileVars
  <2>3. CASE AppendFails(w)
    BY <2>3 DEF AppendFails, At, TornAppend
  <2>. QED BY <2>1, <2>2, <2>3 DEF Environment
<1>3. pc[w] \in Inside => w \in Holders /\ Judged(w)
  BY <1>1 DEF Holders, Quiet
<1>4. Whole'
  <2>1. CASE UNCHANGED ledger
    BY <2>1, SameWhole DEF Quiet
  <2>2. CASE pc[w] = "append" /\ ledger' = AppendText(ledger, Torn)
    BY <1>3, <2>2, AppendWhole DEF Quiet, Judged, Inside
  <2>. QED BY <1>2, <2>1, <2>2
<1>5. w \in Holders \/ UNCHANGED ledger
  BY <1>2, <1>3 DEF Inside
<1>6. pc'[w] \notin Reclaiming
  BY <1>1 DEF Quiet, Reclaiming
<1>. QED BY <1>1, <1>3, <1>4, <1>5, <1>6 DEF QuietAt, Quiet, Judged, Inside

---------------------------------------------------------------------------
(* Theorems.                                                               *)

LEMMA InitInv == Init => IInv
<1>. SUFFICES ASSUME Init PROVE IInv
  OBVIOUS
<1>1. Shape
  BY ShapeInit
<1>2. \A w \in Writer : Recorded(w)
  BY DEF Init, Recorded
<1>3. Quiet
  BY BoundsAssumption
     DEF Init, Quiet, Holders, Whole, DoubleSpend, Inside, Reclaiming
<1>. QED BY <1>1, <1>2, <1>3 DEF IInv

\* The bounds on faults and calls play no part in the invariant.
THEOREM Invariant == Spec => []IInv
<1>1. IInv /\ [Next]_vars => IInv'
  <2>. SUFFICES ASSUME IInv, [Next]_vars PROVE IInv'
    OBVIOUS
  <2>1. Shape' /\ \A w \in Writer : Recorded(w)'
    BY ShapeStep, RecordedStep DEF IInv
  <2>2. ASSUME expired' = 0 PROVE Quiet'
    <3>1. CASE UNCHANGED vars
      <4>1. expired = 0
        BY <2>2, <3>1 DEF vars, counters
      <4>. QED BY <3>1, <4>1 DEF IInv, vars, fileVars, callVars, Quiet, Holders, Judged, Whole,
                                DoubleSpend, Folds, Linked, Spent, LastHash
    <3>2. CASE Expire
      BY <2>2, <3>2 DEF Expire, IInv, Shape
    <3>3. ASSUME NEW w \in Writer, Call(w) \/ Step(w) \/ Environment(w)
          PROVE  Quiet'
      <4>1. expired = 0
        BY <2>2, <3>3 DEF Call, Step, Open, WriteToken, Stat, ReadToken, Reread, RmStale,
                          FoldAndGuard, ChainHead, CheckCeiling, AppendLine, Refold, ReleaseRead,
                          ReleaseRm, Environment, Crash, WriteTokenFails, AppendFails, counters
      <4>2. QuietAt(w)
        BY <3>3, <4>1, AcquireQuiet, AppendQuiet, FaultQuiet DEF IInv, Step
      <4>. QED BY <3>3, <4>1, <4>2, OneWriter, QuietStep DEF IInv
    <3>. QED BY <3>1, <3>2, <3>3 DEF Next
  <2>. QED BY <2>1, <2>2 DEF IInv
<1>. QED BY InitInv, <1>1, PTL DEF Spec

\* Every state is well typed, and while no lock file has expired the ledger
\* keeps to its ceiling (appendWithinCeiling).
THEOREM TypeCorrect == Spec => []TypeOK
<1>1. IInv => TypeOK
  BY DEF IInv, Shape, Quiet, Whole, TypeOK
<1>. QED BY <1>1, Invariant, PTL

\* While no lock file has outlived staleMs, one running writer at most is
\* between acquireLedgerLock and its release, whatever crashes or fails.
THEOREM ExclusiveAppend == Spec => []Exclusion
<1>1. IInv => Exclusion
  BY OneHolder DEF IInv, Exclusion
<1>. QED BY <1>1, Invariant, PTL

\* Then appendLedgerEvent leaves a ledger that folds, but for one torn last
\* line.
THEOREM LedgerStaysWhole == Spec => []LedgerIntact
<1>1. IInv => LedgerIntact
  BY DEF IInv, Quiet, Whole, LedgerIntact
<1>. QED BY <1>1, Invariant, PTL

\* Then no subject is spent twice: what the guard judged still holds at the
\* append.
THEOREM SingleSpend == Spec => []SpentOnce
<1>1. IInv => SpentOnce
  BY DEF IInv, Quiet, Whole, SpentOnce
<1>. QED BY <1>1, Invariant, PTL

\* Whatever expires and races: an acknowledged append stays in the ledger, on an
\* unbroken chain (the second fold of appendLedgerEvent).
THEOREM Acknowledged == Spec => []AckedIsChained
<1>1. IInv => AckedIsChained
  BY DEF IInv, Recorded, Writes, Chained, AckedIsChained
<1>. QED BY <1>1, Invariant, PTL

=============================================================================
