---------------------------- MODULE GovernedRunner ----------------------------
(***************************************************************************)
(* Governed execution, runGovernedCommand of                               *)
(* scripts/lib/core/governed-runner.js, and what calls it: a loop          *)
(* contract, the stages of a route (one ledger for all of them), or the    *)
(* frozen attempts of a session.  Approvers and runners are processes      *)
(* without a common lock: the ledger, whose appends LoopLedger shows to be *)
(* atomic, the pack and the policy files are read at different times, and  *)
(* only the consumed marker is exclusive.  The runs of a session alone     *)
(* hold the session lock.                                                  *)
(*                                                                         *)
(* A pack version stands for everything the loop pack, the route or the    *)
(* runner registry says (command, rules, capability), a policy version for *)
(* rules.json.  Left out: dry runs, and the command text.                  *)
(***************************************************************************)
EXTENDS Integers, Sequences, FiniteSets

CONSTANTS
    Proc,
    Stage,          \* the command stages of the route
    Pack, Widening, \* pack versions; those whose own rules allow a command
    Policy, Denying,\* policy versions; those that do not allow the command
    MaxCalls,       \* bound: approvals, captures and runs
    MaxEdits,       \* bound: edits of the pack and the policy
    MaxCrashes,     \* bound: processes that crash during a call
    None

ASSUME VersionsAssumption == Widening \subseteq Pack /\ Denying \subseteq Policy

\* What an approval binds is never nothing.
ASSUME BindingAssumption == None \notin [pack : Pack, policy : Policy]

VARIABLES
    surface,        \* who uses the ledger: "loop", "route" or "session"
    pack, policy,   \* the versions on disk
    expired,        \* has the context authority of the session expired?
    attempts,       \* the frozen admission record of each captured attempt
    closed,         \* attempts with an admission outcome on the ledger
    ledger,
    consumed,       \* the consumed markers, with the approval each was taken for
    spawned,        \* history: the commands spawned
    st,             \* st[p]: the step and the local values of each process
    calls, edits, crashes       \* counters for the bounds

worldVars == <<surface, pack, policy, expired, edits>>
sessionVars == <<attempts, closed>>
vars == <<worldVars, sessionVars, ledger, consumed, spawned, st, calls, crashes>>

---------------------------------------------------------------------------
Contract == "contract"
Subject == CASE surface = "loop" -> {Contract}
             [] surface = "route" -> Stage
             [] surface = "session" -> 1..Len(attempts)

Approved(key, subject, binding) ==
    [kind |-> "approved", key |-> key, subject |-> subject, binding |-> binding]
Other(kind, key) == [kind |-> kind, key |-> key]

Idle == [pc |-> "idle", subject |-> None, pack |-> None, binding |-> None, rules |-> None,
         view |-> 0, pick |-> 0, result |-> "none"]

RunSteps == {"bind", "verify", "packRules", "rules", "admit", "select", "eligible", "consume",
             "execute", "budget", "record", "outcome"}
Running(p) == st[p].pc \in RunSteps

TypeOK ==
    /\ surface \in {"loop", "route", "session"}
    /\ pack \in Pack /\ policy \in Policy /\ expired \in BOOLEAN
    /\ \A i \in 1..Len(attempts) : attempts[i] \in [pack : Pack, policy : Policy]
    /\ closed \subseteq 1..Len(attempts)
    /\ \A c \in consumed : ledger[c.grant].kind = "approved" /\ ledger[c.grant].key = c.key
    /\ \A p \in Proc : st[p].pc \in RunSteps \cup {"idle", "approveBind", "approveAppend"}

---------------------------------------------------------------------------
At(p, step) == st[p].pc = step
Goto(p, step) == st' = [st EXCEPT ![p].pc = step]

\* Only a session's attempt has something to record once the runner returned.
Returned(p, outcome) ==
    [st EXCEPT ![p].pc = IF surface = "session" THEN "outcome" ELSE "idle",
               ![p].result = outcome]
Return(p, outcome) == st' = Returned(p, outcome)

\* A refusal that is recorded; the approval stays as it is.
Deny(p, outcome) ==
    /\ ledger' = Append(ledger, Other("denied", None))
    /\ Return(p, outcome)

Begin(p) == At(p, "idle") /\ calls < MaxCalls /\ calls' = calls + 1

---------------------------------------------------------------------------
(* Approvals.                                                              *)

\* approveLoopContract: loadContract refuses pack rules that allow.
ApproveLoop(p) ==
    /\ surface = "loop"
    /\ Begin(p)
    /\ st' = [st EXCEPT ![p] =
                IF pack \in Widening THEN [Idle EXCEPT !.result = "packRules"]
                ELSE [Idle EXCEPT !.pc = "approveBind", !.subject = Contract, !.pack = pack]]
    /\ UNCHANGED <<worldVars, sessionVars, ledger, consumed, spawned, crashes>>

\* approvalBindingOf reads the rules after the contract.
ApproveBind(p) ==
    /\ At(p, "approveBind")
    /\ st' = [st EXCEPT ![p].pc = "approveAppend",
                        ![p].binding = [pack |-> st[p].pack, policy |-> policy]]
    /\ UNCHANGED <<worldVars, sessionVars, ledger, consumed, spawned, calls, crashes>>

\* approveRouteStage reads nothing that the approval would bind.
ApproveStage(p, s) ==
    /\ surface = "route"
    /\ Begin(p)
    /\ st' = [st EXCEPT ![p] = [Idle EXCEPT !.pc = "approveAppend", !.subject = s]]
    /\ UNCHANGED <<worldVars, sessionVars, ledger, consumed, spawned, crashes>>

\* grantSessionExecution, without the session lock: the attempt is still
\* "requested" when the ledger is read, and the tuple is the one it froze.
ApproveAttempt(p, a) ==
    /\ surface = "session"
    /\ a \notin closed
    /\ Begin(p)
    /\ st' = [st EXCEPT ![p] = [Idle EXCEPT !.pc = "approveAppend", !.subject = a,
                                            !.binding = attempts[a]]]
    /\ UNCHANGED <<worldVars, sessionVars, ledger, consumed, spawned, crashes>>

\* A loop's key is a new UUID, for which its place on the ledger stands; a
\* stage's and an attempt's key are the same for every approval of it.
KeyOf(subject) == IF surface = "loop" THEN Len(ledger) + 1 ELSE subject

ApproveAppend(p) ==
    /\ At(p, "approveAppend")
    /\ ledger' = Append(ledger, Approved(KeyOf(st[p].subject), st[p].subject, st[p].binding))
    /\ st' = [st EXCEPT ![p] = [Idle EXCEPT !.result = "approved"]]
    /\ UNCHANGED <<worldVars, sessionVars, consumed, spawned, calls, crashes>>

---------------------------------------------------------------------------
(* What happens before runGovernedCommand.                                 *)

\* executeLoopContract.
RunLoop(p) ==
    /\ surface = "loop"
    /\ Begin(p)
    /\ st' = [st EXCEPT ![p] =
                IF pack \in Widening THEN [Idle EXCEPT !.result = "packRules"]
                ELSE [Idle EXCEPT !.pc = "bind", !.subject = Contract, !.pack = pack]]
    /\ UNCHANGED <<worldVars, sessionVars, ledger, consumed, spawned, crashes>>

Bind(p) ==
    /\ At(p, "bind")
    /\ st' = [st EXCEPT ![p].pc = "verify",
                        ![p].binding = [pack |-> st[p].pack, policy |-> policy]]
    /\ UNCHANGED <<worldVars, sessionVars, ledger, consumed, spawned, calls, crashes>>

\* executeRouteStage passes no approvalBinding.
RunStage(p, s) ==
    /\ surface = "route"
    /\ Begin(p)
    /\ st' = [st EXCEPT ![p] = [Idle EXCEPT !.pc = "verify", !.subject = s, !.pack = pack]]
    /\ UNCHANGED <<worldVars, sessionVars, ledger, consumed, spawned, crashes>>

\* The session lock.
SessionFree == \A q \in Proc : ~Running(q)

\* executeAttempt freezes what the gates will verify and captures the attempt; a
\* new one is captured when the last was decided, its deadline passed or its
\* fence is old.
Capture(p) ==
    /\ surface = "session"
    /\ SessionFree
    /\ Begin(p)
    /\ attempts' = Append(attempts, [pack |-> pack, policy |-> policy])
    /\ st' = [st EXCEPT ![p] = [Idle EXCEPT !.result = "awaiting"]]
    /\ UNCHANGED <<worldVars, closed, ledger, consumed, spawned, crashes>>

ExecutedKeys == {ledger[i].key : i \in {j \in 1..Len(ledger) : ledger[j].kind = "executed"}}

\* latestUnconsumedApprovalFor: approvals no executed record names.
Open ==
    {i \in 1..Len(ledger) : ledger[i].kind = "approved" /\ ledger[i].key \notin ExecutedKeys}

\* A mutant: the oldest one.
Bug_Oldest(indices) == IF indices = {} THEN 0 ELSE CHOOSE i \in indices : \A j \in indices : i <= j

Latest(indices) == IF indices = {} THEN 0 ELSE CHOOSE i \in indices : \A j \in indices : j <= i

\* runCapturedAttempt, for the newest attempt while it is open.
RunAttempt(p) ==
    LET a == Len(attempts) IN
    /\ surface = "session"
    /\ SessionFree
    /\ a > 0 /\ a \notin closed
    /\ Begin(p)
    /\ st' = [st EXCEPT ![p] =
                IF {i \in Open : ledger[i].subject = a /\ ledger[i].binding = attempts[a]} = {}
                THEN [Idle EXCEPT !.result = "awaiting"]
                ELSE [Idle EXCEPT !.pc = "verify", !.subject = a, !.binding = attempts[a]]]
    /\ UNCHANGED <<worldVars, sessionVars, ledger, consumed, spawned, crashes>>

---------------------------------------------------------------------------
(* runGovernedCommand.                                                     *)

\* verifyLedgerChain: an append in progress can make it refuse (LoopLedger).
Appending(q) == st[q].pc \in {"approveAppend", "record", "outcome"}

Verify(p) ==
    /\ At(p, "verify")
    /\ \/ Goto(p, IF surface = "route" THEN "packRules" ELSE "rules")
       \/ (\E q \in Proc \ {p} : Appending(q)) /\ Return(p, "tampered")
    /\ UNCHANGED <<worldVars, sessionVars, ledger, consumed, spawned, calls, crashes>>

\* packAllowRuleProblem, for rules nobody looked at before.
PackRules(p) ==
    /\ At(p, "packRules")
    /\ IF st[p].pack \in Widening
       THEN Deny(p, "packRules")
       ELSE Goto(p, "rules") /\ UNCHANGED ledger
    /\ UNCHANGED <<worldVars, sessionVars, consumed, spawned, calls, crashes>>

\* loadPolicyRules.  A named command is resolved and an attempt is admitted with
\* the rules that are evaluated afterwards; a loop's binding came from others.
Rules(p) ==
    /\ At(p, "rules")
    /\ IF policy \in Denying
       THEN Deny(p, "policy")
       ELSE /\ st' = [st EXCEPT ![p].pc = IF surface = "session" THEN "admit" ELSE "select",
                                ![p].rules = policy]
            /\ UNCHANGED ledger
    /\ UNCHANGED <<worldVars, sessionVars, consumed, spawned, calls, crashes>>

\* A mutant: the frozen policy is not compared.
Bug_PolicyDriftUnseen(p) == pack # st[p].binding.pack \/ expired

\* frozenAdmissionProblem: the registry is read here.
AdmissionProblem(p) ==
    \/ st[p].rules # st[p].binding.policy
    \/ pack # st[p].binding.pack
    \/ expired

\* Then the policy.evaluated record.
Admit(p) ==
    /\ At(p, "admit")
    /\ IF AdmissionProblem(p)
       THEN Deny(p, "drift")
       ELSE /\ st' = [st EXCEPT ![p].pc = "select", ![p].pack = pack]
            /\ ledger' = Append(ledger, Other("policy.evaluated", None))
    /\ UNCHANGED <<worldVars, sessionVars, consumed, spawned, calls, crashes>>

Select(p) ==
    LET pick == Latest({i \in Open : surface = "session" => ledger[i].subject = st[p].subject})
    IN
    /\ At(p, "select")
    /\ st' = [(IF pick = 0 THEN Returned(p, "notApproved") ELSE st) EXCEPT
                ![p].view = Len(ledger),
                ![p].pick = pick,
                ![p].pc = IF pick = 0 THEN @ ELSE "eligible"]
    /\ UNCHANGED <<worldVars, sessionVars, ledger, consumed, spawned, calls, crashes>>

\* eligibilityProblem.
Eligible(p) ==
    /\ At(p, "eligible")
    /\ IF st[p].binding # None /\ ledger[st[p].pick].binding # st[p].binding
       THEN Deny(p, "drift")
       ELSE Goto(p, "consume") /\ UNCHANGED ledger
    /\ UNCHANGED <<worldVars, sessionVars, consumed, spawned, calls, crashes>>

\* A mutant: the marker is written over.
Bug_ConsumeUnchecked(p) ==
    /\ At(p, "consume")
    /\ consumed' = consumed \cup {[key |-> ledger[st[p].pick].key, grant |-> st[p].pick]}
    /\ Goto(p, "execute")
    /\ UNCHANGED <<worldVars, sessionVars, ledger, spawned, calls, crashes>>

\* The target is a git repository, or the call ends here; then consumeApproval.
Consume(p) ==
    LET key == ledger[st[p].pick].key IN
    /\ At(p, "consume")
    /\ \/ Return(p, "noRepository") /\ UNCHANGED <<ledger, consumed>>
       \/ /\ key \in {c.key : c \in consumed}
          /\ Deny(p, "spent")
          /\ UNCHANGED consumed
       \/ /\ key \notin {c.key : c \in consumed}
          /\ consumed' = consumed \cup {[key |-> key, grant |-> st[p].pick]}
          /\ Goto(p, "execute")
          /\ UNCHANGED ledger
    /\ UNCHANGED <<worldVars, sessionVars, spawned, calls, crashes>>

Command(p) == [subject |-> st[p].subject, pack |-> st[p].pack, rules |-> st[p].rules,
               binding |-> st[p].binding, grant |-> st[p].pick]

\* executeInWorktree, which may fail before it has spawned anything.
Execute(p) ==
    /\ At(p, "execute")
    /\ \/ Return(p, "error") /\ UNCHANGED spawned
       \/ /\ spawned' = Append(spawned, Command(p))
          /\ \E timedOut \in BOOLEAN : Goto(p, IF timedOut THEN "budget" ELSE "record")
    /\ UNCHANGED <<worldVars, sessionVars, ledger, consumed, calls, crashes>>

RecordBudget(p) ==
    /\ At(p, "budget")
    /\ ledger' = Append(ledger, Other("budget.exhausted", None))
    /\ Goto(p, "record")
    /\ UNCHANGED <<worldVars, sessionVars, consumed, spawned, calls, crashes>>

\* recordGovernedExecution.
Record(p) ==
    /\ At(p, "record")
    /\ ledger' = Append(ledger, Other("executed", ledger[st[p].pick].key))
    /\ Return(p, "executed")
    /\ UNCHANGED <<worldVars, sessionVars, consumed, spawned, calls, crashes>>

\* attempt_admitted or attempt_denied, back in runCapturedAttempt.
Outcome(p) ==
    /\ At(p, "outcome")
    /\ closed' = closed \cup {st[p].subject}
    /\ Goto(p, "idle")
    /\ UNCHANGED <<worldVars, attempts, ledger, consumed, spawned, calls, crashes>>

---------------------------------------------------------------------------
(* The rest of the world.                                                  *)

\* The process dies; its child, if it had one, is not waited for.
Crash(p) ==
    /\ ~At(p, "idle")
    /\ crashes < MaxCrashes
    /\ crashes' = crashes + 1
    /\ st' = [st EXCEPT ![p] = Idle]
    /\ UNCHANGED <<worldVars, sessionVars, ledger, consumed, spawned, calls>>

Edit ==
    /\ edits < MaxEdits
    /\ edits' = edits + 1
    /\ \/ pack' \in Pack \ {pack} /\ UNCHANGED <<policy, expired>>
       \/ policy' \in Policy \ {policy} /\ UNCHANGED <<pack, expired>>
       \/ surface = "session" /\ ~expired /\ expired' = TRUE /\ UNCHANGED <<pack, policy>>
    /\ UNCHANGED <<surface, sessionVars, ledger, consumed, spawned, st, calls, crashes>>

Init ==
    /\ surface \in {"loop", "route", "session"}
    /\ pack \in Pack /\ policy \in Policy
    /\ expired = FALSE
    /\ attempts = << >> /\ closed = {}
    /\ ledger = << >> /\ consumed = {} /\ spawned = << >>
    /\ st = [p \in Proc |-> Idle]
    /\ calls = 0 /\ edits = 0 /\ crashes = 0

Approve(p) ==
    \/ ApproveLoop(p) \/ ApproveBind(p) \/ ApproveAppend(p)
    \/ \E s \in Stage : ApproveStage(p, s)
    \/ \E a \in 1..Len(attempts) : ApproveAttempt(p, a)

Run(p) ==
    \/ RunLoop(p) \/ Bind(p) \/ Capture(p) \/ RunAttempt(p)
    \/ \E s \in Stage : RunStage(p, s)
    \/ Verify(p) \/ PackRules(p) \/ Rules(p) \/ Admit(p) \/ Select(p) \/ Eligible(p)
    \/ Consume(p) \/ Execute(p) \/ RecordBudget(p) \/ Record(p) \/ Outcome(p)

Next == (\E p \in Proc : Approve(p) \/ Run(p) \/ Crash(p)) \/ Edit

Spec == Init /\ [][Next]_vars

---------------------------------------------------------------------------
(* Properties.                                                             *)

\* An approval spawns at most one command, whichever runners chose it at the same
\* time and whichever of them crashed, and an executed record names a command
\* that was spawned on the approval it says it consumed.
SpawnedOnce ==
    /\ \A i, j \in 1..Len(spawned) :
          ledger[spawned[i].grant].key = ledger[spawned[j].grant].key => i = j
    /\ \A i, j \in 1..Len(ledger) :
          ledger[i].kind = "executed" /\ ledger[j] = ledger[i] => i = j
    /\ \A key \in ExecutedKeys :
          \E i \in 1..Len(spawned) : ledger[spawned[i].grant].key = key

\* A loop spawns the contract that was approved, after it has found the approved
\* policy in force; a session's attempt runs on its own grant with the capability
\* and the very rules it froze, and those are the rules that were evaluated; no
\* pack rule ever allowed the command.
OnlyWhatWasApproved ==
    \A i \in 1..Len(spawned) :
        LET command == spawned[i]
            grant == ledger[command.grant]
        IN
        /\ command.rules \notin Denying
        /\ surface # "session" => command.pack \notin Widening
        /\ surface = "loop" => grant.binding = command.binding /\ command.binding.pack = command.pack
        /\ surface = "session" => /\ grant.subject = command.subject
                                  /\ attempts[command.subject] = [pack |-> command.pack,
                                                                  policy |-> command.rules]

\* One approval of a loop is good for one run: a run is turned away for want of an
\* approval only if every approval, or as one that was used already only if the
\* newest approval it saw, was taken by another run.
TurnedAwayRightly ==
    surface = "loop" =>
        \A p \in Proc :
            LET approvals == {i \in 1..st[p].view : ledger[i].kind = "approved"}
                taken == {c.grant : c \in consumed}
            IN
            /\ st[p].result = "notApproved" => approvals \subseteq taken
            /\ st[p].result = "spent" =>
                  \E i \in approvals \cap taken : \A j \in approvals : j <= i

=============================================================================
