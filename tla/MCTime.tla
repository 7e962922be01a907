------------------------------- MODULE MCTime -------------------------------
(* Instances of Time: which programs run. *)
EXTENDS Time

MCTicks == {0, 1, 2}

\* Both sleep.  Slot 1 sets alarms and collects and forks children; slot 2
\* uses a POSIX timer, sends signals and exits.
MCCalls ==
    [p \in Slots |->
        CASE p = 1 -> {"sleep", "alarm", "waitid", "fork"}
          [] p = 2 -> {"sleep", "timer_create", "timer_settime", "timer_delete", "kill", "exit"}
          [] OTHER -> {}]
=============================================================================
