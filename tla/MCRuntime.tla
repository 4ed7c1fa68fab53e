------------------------------ MODULE MCRuntime ------------------------------
(* Runtime on small instances: schedules under two callers and their ticks, *)
(* a call more or a crash; a daemon that is started and stopped; and one    *)
(* that ticks while a caller admits a schedule and ticks too.               *)
EXTENDS Runtime

MCMixes == {[uses |-> {"admit", "revoke", "tick"}, calls |-> 4, ticks |-> 0, crashes |-> 0],
            [uses |-> {"admit", "revoke", "tick"}, calls |-> 3, ticks |-> 0, crashes |-> 1],
            [uses |-> {"start", "stop"}, calls |-> 6, ticks |-> 2, crashes |-> 1],
            [uses |-> {"admit", "tick", "start"}, calls |-> 3, ticks |-> 1, crashes |-> 1]}

=============================================================================
