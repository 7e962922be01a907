------------------------------- MODULE Sched --------------------------------
(***************************************************************************)
(* The scheduler of kernel/schedule.c, as operators on a record s that has *)
(* at least the fields                                                     *)
(*     state        pcb slot -> process state                              *)
(*     rc           pcb slot -> the value schedule() will return           *)
(*     ready_queue  sequence of pcb slots                                  *)
(*     current      the slot that runs                                     *)
(* A state of current stays "READY" while it runs: the kernel has the name *)
(* PROC_RUNNING and never assigns it.                                      *)
(***************************************************************************)
EXTENDS Integers, Sequences

IDLE == 0      \* sched_start creates the idle process first: slot 0
INIT == 1      \* create_init takes slot 1

\* Mutant: list_add instead of list_add_tail.
ready_AtHead(s, p) ==
    [s EXCEPT !.state[p] = "READY", !.ready_queue = <<p>> \o @]

ready(s, p) ==
    [s EXCEPT !.state[p] = "READY", !.ready_queue = Append(@, p)]

wake(s, p, rc) == ready([s EXCEPT !.rc[p] = rc], p)

zombie(s, p) == [s EXCEPT !.state[p] = "ZOMBIE"]

reap(s, p) == [s EXCEPT !.state[p] = "DEAD"]

\* _schedule: take the first of the queue.  When that is the idle process
\* and somebody else is queued, idle goes back to the tail.
schedule(s) ==
    LET p    == Head(s.ready_queue)
        rest == Tail(s.ready_queue)
    IN  IF p = IDLE /\ rest # << >>
        THEN [s EXCEPT !.state[p] = "READY",
                       !.ready_queue = Append(Tail(rest), p),
                       !.current = Head(rest)]
        ELSE [s EXCEPT !.ready_queue = rest, !.current = p]

\* Mutant: a process in waitid is woken like any other sleeper.
needs_wake_AcceptedOnly(s, p, is_sigchld, accepted) ==
    \/ s.state[p] = "SIGWAIT"
    \/ s.state[p] \in {"INTERRUPTIBLE", "WAITING"} /\ accepted

\* Mutant: a process in waitid is woken by SIGCHLD alone.
needs_wake_ChildOnly(s, p, is_sigchld, accepted) ==
    \/ s.state[p] = "SIGWAIT"
    \/ s.state[p] = "INTERRUPTIBLE" /\ accepted
    \/ s.state[p] = "WAITING" /\ is_sigchld

\* needs_wake of dispatch/signal.c; accepted says whether the target neither
\* ignores nor blocks sig_no.
needs_wake(s, p, is_sigchld, accepted) ==
    \/ s.state[p] = "SIGWAIT"
    \/ s.state[p] = "INTERRUPTIBLE" /\ accepted
    \/ s.state[p] = "WAITING" /\ (is_sigchld \/ accepted)
=============================================================================
