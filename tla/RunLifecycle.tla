---------------------------- MODULE RunLifecycle ----------------------------
(***************************************************************************)
(* What a Harness Run promises its readers: the closed ten-state machine   *)
(* of scripts/lib/harness/run-state-machine.js, a history that only grows  *)
(* along legal edges, and a final state nothing follows.  The record can   *)
(* only be lost as a whole, when a crash cuts a write of it short.         *)
(***************************************************************************)
EXTENDS Naturals, Sequences

VARIABLES
    history,    \* stateHistory: << >> before the run is created
    lost        \* is the record unreadable?

lifecycle == <<history, lost>>

State == {"created", "admitted", "running", "paused", "blocked", "settling",
          "failed", "completed", "cancelled", "expired"}

FinalStates == {"completed", "failed", "cancelled", "expired"}

TRANSITIONS == [
    created   |-> {"admitted", "cancelled", "expired"},
    admitted  |-> {"running", "cancelled", "expired"},
    running   |-> {"paused", "blocked", "failed", "settling", "cancelled"},
    paused    |-> {"running", "cancelled", "expired"},
    blocked   |-> {"running", "failed", "cancelled", "expired"},
    settling  |-> {"completed", "failed", "cancelled"},
    completed |-> {}, failed |-> {}, cancelled |-> {}, expired |-> {}]

isLegalTransition(from, to) == to \in TRANSITIONS[from]

isFinal(state) == state \in FinalStates

LastOf(h) == h[Len(h)]

\* A path of the state machine.
Legal(h) ==
    /\ h # << >> => h[1] = "created"
    /\ \A i \in 2..Len(h) : isLegalTransition(h[i - 1], h[i])

---------------------------------------------------------------------------

LifecycleInit == history = << >> /\ lost = FALSE

Create ==
    /\ ~lost /\ history = << >>
    /\ history' = <<"created">>
    /\ UNCHANGED lost

Advance(to) ==
    /\ ~lost /\ history # << >>
    /\ isLegalTransition(LastOf(history), to)
    /\ history' = Append(history, to)
    /\ UNCHANGED lost

Lose == ~lost /\ lost' = TRUE /\ history' = << >>

LifecycleNext == Create \/ (\E to \in State : Advance(to)) \/ Lose

LifecycleSpec == LifecycleInit /\ [][LifecycleNext]_lifecycle

=============================================================================
