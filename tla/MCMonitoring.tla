----------------------------- MODULE MCMonitoring ----------------------------
(***************************************************************************)
(* A task whose period ends at tick 2: the source shows each kind of       *)
(* snapshot that the rules tell apart, and ends at any tick.               *)
(***************************************************************************)
EXTENDS Monitoring, TLC

MCPeriodEnd == 2
MCRetryDelays == <<1, 2>>

Plain == [complete |-> TRUE, matches |-> TRUE, supported |-> TRUE,
          canceled |-> FALSE, ended |-> NoTime, flag |-> FALSE,
          cancel_at |-> NoTime, period_end |-> MCPeriodEnd]

Scheduled == [Plain EXCEPT !.flag = TRUE]

MCSymmetry == Permutations(Worker)

MCScheduled == {Scheduled}

MCSubscriptions ==
    {Plain, Scheduled, [Plain EXCEPT !.cancel_at = MCPeriodEnd],
     [Plain EXCEPT !.supported = FALSE], [Plain EXCEPT !.period_end = MCPeriodEnd + 1]}
    \cup {[Scheduled EXCEPT !.canceled = TRUE, !.ended = t] : t \in {1, 3, 4}}
=============================================================================
