----------------------------- MODULE Approvals -----------------------------
(***************************************************************************)
(* Single-use approvals (core/approval-registry.js) of one approver, and   *)
(* the Decisions they settle.                                              *)
(*                                                                         *)
(* Consumption admits the Decision inside the guard of a governed append,  *)
(* so under the approvals lock and then the lock of the Decision's home,   *)
(* and appends `consumed` afterwards.  The governed append is              *)
(* RegistryLedger's: while no lock of a living writer is given up for dead *)
(* it excludes the others, and a crashed writer's lock is reclaimed; a     *)
(* writer that finds it busy and gives up changes nothing, like any call   *)
(* that is refused early.                                                  *)
(*                                                                         *)
(* Each call names the identity of its Decision, so a retry may name       *)
(* another.  One identity has the artifact home of ArtifactAdmission; in   *)
(* the homes of the others only consumptions admit, and as one step: the   *)
(* approvals lock keeps any other consumption out.                         *)
(***************************************************************************)
EXTENDS ArtifactAdmission

CONSTANTS
    Approval,
    Here,           \* the Decision identity whose home ArtifactAdmission is
    Elsewhere       \* the other Decision identities that calls name

ASSUME ApprovalAssumption == None \notin Approval /\ Here \notin Elsewhere

VARIABLES
    approvals,  \* approvals[a]: is a granted, and revoked?
    consumed,   \* consumed[a]: the consumed events of a, each with the body its call asked for
    writer,     \* who is inside the approvals' governed append
    decision,   \* decision[p]: the identity and the body that p's consumption names
    others,     \* others[i]: the body of the Decision committed under another identity
    settled     \* history: settled[a]: the Decisions committed for a

decisionVars == <<others, settled>>
approvalVars == <<approvals, consumed, writer, decision, decisionVars>>
vars == <<admissionVars, approvalVars>>

Identity == {Here} \cup Elsewhere

\* What a consumption names, and what a consumed event cites.
Named == [identity : Identity, body : Body]
Decision == [identity : Identity, revision : Revision]

\* consumptionVerdict; the validity window, judged at the call's own clock, and
\* the scope decide nothing the processes share.
Consumable(a) == approvals[a] = {"granted"} /\ consumed[a] = <<>>

---------------------------------------------------------------------------

\* grantApproval and revokeApproval: the guard under the lock decides.
Grant(a) ==
    /\ writer = None
    /\ active /\ approvals[a] = {}
    /\ approvals' = [approvals EXCEPT ![a] = {"granted"}]
    /\ UNCHANGED <<admissionVars, consumed, writer, decision, decisionVars>>

Revoke(a) ==
    /\ writer = None
    /\ Consumable(a)
    /\ approvals' = [approvals EXCEPT ![a] = @ \cup {"revoked"}]
    /\ UNCHANGED <<admissionVars, consumed, writer, decision, decisionVars>>

\* consumeApproval: the verdict before the lock.
Consume(p) ==
    /\ At(p, "idle")
    /\ Called("consume")
    /\ \E a \in Approval, named \in Named :
        /\ Consumable(a)
        /\ st' = [st EXCEPT ![p] = [Idle EXCEPT !.pc = "reserve", !.via = a,
                                        !.content = [body |-> named.body, expected |-> 0],
                                        !.attempt = calls + 1]]
        /\ decision' = [decision EXCEPT ![p] = named]
    /\ UNCHANGED <<env, storeVars, historyVars, faults, expiries, approvals, consumed, writer,
                   decisionVars>>

Reserve(p) ==
    /\ At(p, "reserve")
    /\ writer = None
    /\ writer' = p
    /\ Goto(p, "consumable")
    /\ UNCHANGED <<env, storeVars, historyVars, counters, approvals, consumed, decision,
                   decisionVars>>

\* A mutant: the verdict from before the lock is trusted.
Bug_VerdictOnce(p) == TRUE

StillConsumable(p) == Consumable(st[p].via)

\* The call is over: the governed append is left.
Ends(p, result) ==
    /\ st' = [st EXCEPT ![p] = [Idle EXCEPT !.result = result]]
    /\ decision' = [decision EXCEPT ![p] = None]
    /\ writer' = None

\* The verdict under the lock; then the admission begins.
Judged(p) ==
    /\ At(p, "consumable")
    /\ IF StillConsumable(p)
       THEN /\ Goto(p, IF decision[p].identity = Here THEN "verify" ELSE "elsewhere")
            /\ UNCHANGED <<writer, decision>>
       ELSE Ends(p, "spent")
    /\ UNCHANGED <<env, storeVars, historyVars, counters, approvals, consumed, decisionVars>>

\* The Decision of p's consumption, once it has a revision.
DecisionOf(p, revision) == [identity |-> decision[p].identity, revision |-> revision]

\* The admission in another home, whose first revision it can only be.
AdmitElsewhere(p) ==
    LET identity == decision[p].identity
        body == decision[p].body
        a == st[p].via
        Outcome(result) ==
            st' = [st EXCEPT ![p] = [Idle EXCEPT !.pc = "admitted", !.via = a, !.revision = 1,
                                                 !.result = result]]
    IN
    /\ At(p, "elsewhere")
    /\ \/ /\ active /\ others[identity] = None
          /\ Outcome("ok")
          /\ others' = [others EXCEPT ![identity] = body]
          /\ settled' = [settled EXCEPT ![a] = @ \cup {DecisionOf(p, 1)}]
       \/ /\ active /\ others[identity] # None
          /\ Outcome(IF others[identity] = body THEN "ok" ELSE "stale")
          /\ UNCHANGED decisionVars
       \/ ~active /\ Outcome("denied") /\ UNCHANGED decisionVars
       \/ Outcome("inFlight") /\ UNCHANGED decisionVars
    /\ UNCHANGED <<env, storeVars, historyVars, counters, approvals, consumed, writer, decision>>

\* A refused admission leaves the approval as it was.  The append may fail.
Admitted(p) ==
    LET a == st[p].via
        event == [identity |-> decision[p].identity, revision |-> st[p].revision,
                  body |-> decision[p].body]
    IN
    /\ At(p, "admitted")
    /\ \/ /\ st[p].result = "ok"
          /\ consumed' = [consumed EXCEPT ![a] = Append(@, event)]
          /\ UNCHANGED faults
       \/ /\ st[p].result = "ok"
          /\ faults < instance.faults
          /\ faults' = faults + 1
          /\ UNCHANGED consumed
       \/ st[p].result # "ok" /\ UNCHANGED <<consumed, faults>>
    /\ Ends(p, st[p].result)
    /\ UNCHANGED <<env, storeVars, historyVars, calls, expiries, approvals, decisionVars>>

\* The decisions made for an approval.
AdmissionStep(p) ==
    /\ Step(p)
    /\ settled' = IF At(p, "commit") /\ st[p].via # None /\ journal' # journal
                  THEN [settled EXCEPT ![st[p].via] = @ \cup {DecisionOf(p, st[p].revision)}]
                  ELSE settled
    /\ UNCHANGED <<approvals, consumed, writer, decision, others>>

\* The crash of a writer; its lock is reclaimed in time.
CrashWriter(p) ==
    /\ Crash(p)
    /\ writer' = IF writer = p THEN None ELSE writer
    /\ decision' = [decision EXCEPT ![p] = None]
    /\ UNCHANGED <<approvals, consumed, decisionVars>>

Init ==
    /\ AdmissionInit
    /\ approvals = [a \in Approval |-> {}]
    /\ consumed = [a \in Approval |-> <<>>]
    /\ writer = None
    /\ decision = [p \in Proc |-> None]
    /\ others = [i \in Elsewhere |-> None]
    /\ settled = [a \in Approval |-> {}]

Next ==
    \/ \E p \in Proc : \/ (Admit(p) \/ Show(p)) /\ UNCHANGED approvalVars
                       \/ AdmissionStep(p) \/ CrashWriter(p)
                       \/ Consume(p) \/ Reserve(p) \/ Judged(p) \/ AdmitElsewhere(p)
                       \/ Admitted(p)
    \/ (Expire \/ Deactivate) /\ UNCHANGED approvalVars
    \/ \E a \in Approval : "consume" \in instance.operations /\ (Grant(a) \/ Revoke(a))

Spec == Init /\ [][Next]_vars

---------------------------------------------------------------------------
(* Properties.                                                             *)

ApprovalsTypeOK ==
    /\ approvals \in [Approval -> SUBSET {"granted", "revoked"}]
    /\ consumed \in [Approval -> Seq([identity : Identity, revision : 0..MaxCalls, body : Body])]
    /\ writer \in Proc \cup {None}
    /\ decision \in [Proc -> Named \cup {None}]
    /\ others \in [Elsewhere -> Body \cup {None}]
    /\ settled \in [Approval -> SUBSET Decision]

\* The Decision an event cites is committed, with the body its call asked for.
Backed(event) ==
    IF event.identity = Here
    THEN \E i \in Of(journal, "committed") :
            /\ journal[i].revision = event.revision
            /\ journal[i].content = [body |-> event.body, expected |-> 0]
    ELSE event.revision = 1 /\ others[event.identity] = event.body

Cited(a) ==
    {[identity |-> consumed[a][n].identity, revision |-> consumed[a][n].revision] :
        n \in 1..Len(consumed[a])}

\* The Decisions settled for an approval that its consumption does not cite.
Orphans(a) == settled[a] \ Cited(a)

\* One authorization is consumed once ("one authorization can never be replayed",
\* "consumption and settlement are one transaction"): an approval has at most one
\* consumption and then no revocation; the consumption cites a Decision committed
\* with the content of the call that consumed it; and every other Decision settled
\* for it, under whatever identity a retry named, is the loss of one crash or
\* failing write, or of the process still inside.
AuthorizationAccounted ==
    \A a \in Approval :
        /\ Len(consumed[a]) <= 1
        /\ consumed[a] # <<>> => "revoked" \notin approvals[a]
        /\ \A n \in 1..Len(consumed[a]) : Backed(consumed[a][n])
        /\ Cardinality(Orphans(a)) <=
                faults + (IF writer # None /\ st[writer].via = a THEN 1 ELSE 0)

=============================================================================
