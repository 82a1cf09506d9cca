---------------------------- MODULE MC_Timers ----------------------------
(* Timer names and their uses on which TLC explores Timers. *)
EXTENDS Timers

CONSTANTS n1, n2

Use(n, k, l) == [name |-> n, kind |-> k, limit |-> l]

\* No name is used for both repetitions and cron expressions: a repeating
\* entry that leaks would multiply the entries of a cron timer of its name
\* without a bound.
SafeConfigs == {Use(n1, "once", 0), Use(n1, "repeat", 2), Use(n2, "cron", 2)}

\* With timers that repeat without a limit and once only, for liveness and storage.
LiveConfigs ==
    {Use(n1, "once", 0), Use(n1, "repeat", 0), Use(n1, "repeat", 1), Use(n2, "cron", 2)}
=============================================================================
