-------------------------------- MODULE Time --------------------------------
(***************************************************************************)
(* sleep, alarm and POSIX timers of several processes (dispatch/time.c) on *)
(* the timer list of module KTimer and the scheduler of module Sched.      *)
(*                                                                         *)
(* Slot 0 is the idle process.  Every process handles every signal, so a   *)
(* signal is always accepted.  The variable now counts ticks without end;  *)
(* tick_count of the code is now % TickRange.  Two misuses of a linked     *)
(* list end a behaviour, for the pointers mean nothing afterwards: linking *)
(* a node that is linked ("relinked", "requeued"), and unlinking one that  *)
(* is not, which faults on the list poison ("fault").                      *)
(***************************************************************************)
EXTENDS KTimer, Sched

CONSTANTS NSlots,      \* process slots, the idle one included
          TimerIds,    \* the memory for POSIX timers
          Calls,       \* slot -> the system calls its program makes
          Ticks,       \* the intervals they ask for
          FirstTick,   \* tick_count when the model starts
          MaxTime,     \* bound: last value of now
          MaxGen       \* bound: how often a process slot is reused

ASSUME NSlotsAssumption == NSlots \in Nat /\ NSlots > 1
ASSUME FirstTickAssumption == FirstTick \in 0 .. TickRange - 1

SIGALRM == 2
SIGUSR1 == 17

Slots  == 0 .. NSlots - 1
t_sleep(p) == <<"t_sleep", p>>
t_alarm(p) == <<"t_alarm", p>>
posix(k)   == <<"posix", k>>
Timers == {t_sleep(p) : p \in Slots} \cup {t_alarm(p) : p \in Slots}
            \cup {posix(k) : k \in TimerIds}

VARIABLES
    sched,     \* state, rc, ready_queue, current (see Sched), and
               \*   pending  slot -> the pending signals
               \*   panic    "no", or why the kernel stopped
    pc,        \* slot -> "user", "preempted", "new", "sleep"
    gen,       \* slot -> generation of its pid
    timers,    \* the record of KTimer
    posix_timers,   \* id -> [pid, live]; freed memory keeps its contents
    now,
    due        \* auxiliary: timer -> the value of now it was set for

vars == <<sched, pc, gen, timers, posix_timers, now, due>>

tick_count == now % TickRange
pid(p)     == <<p, gen[p]>>
Running    == sched.panic = "no"

Init ==
    /\ sched = [state       |-> [p \in Slots |-> "READY"],
                rc          |-> [p \in Slots |-> 0],
                ready_queue |-> [i \in 1 .. NSlots - 1 |-> i - 1],
                current     |-> NSlots - 1,
                pending     |-> [p \in Slots |-> {}],
                panic       |-> "no"]
    /\ pc = [p \in Slots |-> IF p = NSlots - 1 THEN "user" ELSE "new"]
    /\ gen = [p \in Slots |-> 0]
    /\ timers = [queue |-> << >>, expires |-> [t \in Timers |-> 0],
                 armed |-> [t \in Timers |-> FALSE]]
    /\ posix_timers = [k \in TimerIds |-> [pid |-> <<0, 0>>, live |-> FALSE]]
    /\ now = FirstTick
    /\ due = [t \in Timers |-> 0]

-----------------------------------------------------------------------------
get_pcb_exists(id) == sched.state[id[1]] # "DEAD" /\ gen[id[1]] = id[2]

Panic(s, why) == [s EXCEPT !.panic = why]

\* __kill with a signal that is accepted.
kill(s, p, sig) ==
    LET t == [s EXCEPT !.pending[p] = @ \cup {sig}]
    IN  IF needs_wake(s, p, FALSE, TRUE) THEN wake(t, p, sig) ELSE t

\* Mutant: a process that a signal has woken already is left alone.
wake_action_IfAsleep(s, p) ==
    IF s.state[p] = "INTERRUPTIBLE" THEN wake(s, p, 0) ELSE s

\* wake(p, 0), whatever p's state is: a signal may have woken p already.
wake_action(s, p) ==
    IF Contains(s.ready_queue, p)
    THEN Panic([s EXCEPT !.rc[p] = 0], "requeued")
    ELSE wake(s, p, 0)

alrm_action(s, p) == kill(s, p, SIGALRM)

posix_timer_action(s, k) ==
    LET id == posix_timers[k].pid
    IN  IF get_pcb_exists(id) THEN kill(s, id[1], SIGALRM) ELSE Panic(s, "dead process")

\* t->action(t->data); after panic() nothing more happens.
Action(s, t) ==
    IF s.panic = "dead process" THEN s
    ELSE CASE t[1] = "t_sleep" -> wake_action(s, t[2])
           [] t[1] = "t_alarm" -> alrm_action(s, t[2])
           [] t[1] = "posix"   -> posix_timer_action(s, t[2])

\* tick(): fire what is due, then the next process runs.
tick ==
    LET p     == sched.current
        fired == FoldLeft(Action, sched, Fired(timers, (now + 1) % TickRange))
    IN
    /\ Running /\ pc[p] = "user"
    /\ now < MaxTime /\ now' = now + 1
    /\ timers' = ktimers_tick(timers, (now + 1) % TickRange)
    /\ sched' = IF fired.panic # "no" THEN fired ELSE schedule(ready(fired, p))
    /\ pc' = [pc EXCEPT ![p] = "preempted"]
    /\ UNCHANGED <<gen, posix_timers, due>>

-----------------------------------------------------------------------------
(* System calls of the current process *)

CanCall(c) ==
    /\ Running /\ sched.current # IDLE /\ pc[sched.current] = "user"
    /\ c \in Calls[sched.current]

fls(S) == CHOOSE n \in S : \A m \in S : m <= n

\* One signal is delivered; its handler is user code like any other.
return_to_user(s) ==
    LET p == s.current
    IN
    /\ pc' = [pc EXCEPT ![p] = "user"]
    /\ sched' = IF s.pending[p] = {} THEN s
                ELSE [s EXCEPT !.pending[p] = @ \ {fls(@)}]

\* Arm t, in the timer list tl.
Start(t, ticks, tl) ==
    /\ timers' = ktimer_start(tl, tick_count, t, ticks)
    /\ due' = [due EXCEPT ![t] = now + ticks]

Halt(why) ==
    /\ sched' = Panic(sched, why)
    /\ UNCHANGED <<pc, timers, due>>

sys_sleep(ticks) ==
    LET p == sched.current
    IN
    /\ CanCall("sleep")
    /\ IF linked(timers, t_sleep(p)) THEN Halt("relinked")
       ELSE /\ Start(t_sleep(p), ticks, timers)
            /\ sched' = schedule([sched EXCEPT !.state[p] = "INTERRUPTIBLE"])
            /\ pc' = [pc EXCEPT ![p] = "sleep"]
    /\ UNCHANGED <<gen, posix_timers, now>>

\* schedule() returns 0 when the timer woke p, else the signal that did.
ResumeSleep ==
    LET p == sched.current
    IN
    /\ Running /\ pc[p] = "sleep"
    /\ \/ /\ sched.rc[p] = 0
          /\ return_to_user(sched)
          /\ UNCHANGED timers
       \/ /\ sched.rc[p] # 0
          /\ linked(timers, t_sleep(p))
          /\ timers' = ktimer_remove(timers, t_sleep(p))
          /\ return_to_user(sched)
       \/ /\ sched.rc[p] # 0
          /\ ~linked(timers, t_sleep(p))
          /\ sched' = Panic(sched, "fault")
          /\ UNCHANGED <<pc, timers>>
    /\ UNCHANGED <<gen, posix_timers, now, due>>

sys_alarm(ticks) ==
    LET p     == sched.current
        t     == t_alarm(p)
        after == IF timers.armed[t] THEN ktimer_remove(timers, t) ELSE timers
    IN
    /\ CanCall("alarm")
    /\ IF timers.armed[t] /\ ~linked(timers, t) THEN Halt("fault")
       ELSE IF ticks = 0 THEN timers' = after /\ return_to_user(sched) /\ UNCHANGED due
       ELSE IF linked(after, t) THEN Halt("relinked")
       ELSE Start(t, ticks, after) /\ return_to_user(sched)
    /\ UNCHANGED <<gen, posix_timers, now>>

\* The timer of id k, as get_timer_by_id finds it for the current process.
Mine(k) == posix_timers[k].live /\ posix_timers[k].pid = pid(sched.current)

sys_timer_create(k) ==
    /\ CanCall("timer_create")
    /\ ~posix_timers[k].live
    /\ posix_timers' = [posix_timers EXCEPT ![k] = [pid |-> pid(sched.current), live |-> TRUE]]
    /\ timers' = [timers EXCEPT !.armed[posix(k)] = FALSE]
    /\ return_to_user(sched)
    /\ UNCHANGED <<gen, now, due>>

sys_timer_settime(k, ticks) ==
    /\ CanCall("timer_settime")
    /\ Mine(k)
    /\ IF linked(timers, posix(k)) THEN Halt("relinked")
       ELSE Start(posix(k), ticks, timers) /\ return_to_user(sched)
    /\ UNCHANGED <<gen, posix_timers, now>>

sys_timer_delete(k) ==
    /\ CanCall("timer_delete")
    /\ Mine(k)
    /\ posix_timers' = [posix_timers EXCEPT ![k].live = FALSE]
    /\ return_to_user(sched)
    /\ UNCHANGED <<gen, timers, now, due>>

sys_kill(q) ==
    /\ CanCall("kill")
    /\ q # IDLE /\ sched.state[q] # "DEAD"
    /\ return_to_user(kill(sched, q, SIGUSR1))
    /\ UNCHANGED <<gen, timers, posix_timers, now, due>>

\* do_exit leaves the timers of the process alone.
sys_exit ==
    /\ CanCall("exit")
    /\ sched' = schedule(zombie(sched, sched.current))
    /\ UNCHANGED <<pc, gen, timers, posix_timers, now, due>>

\* waitid of some process collects q's status.
Reap(q) ==
    /\ CanCall("waitid")
    /\ sched.state[q] = "ZOMBIE"
    /\ return_to_user(reap(sched, q))
    /\ UNCHANGED <<gen, timers, posix_timers, now, due>>

\* fork takes q's slot for a new process: pcb_common_init, pcb_clone.
Fork(q) ==
    /\ CanCall("fork")
    /\ sched.state[q] = "DEAD" /\ gen[q] < MaxGen
    /\ gen' = [gen EXCEPT ![q] = @ + 1]
    /\ timers' = [timers EXCEPT !.armed[t_alarm(q)] = FALSE, !.armed[t_sleep(q)] = FALSE]
    /\ LET p == sched.current
           s == ready([sched EXCEPT !.pending[q] = {}], q)
       IN  /\ sched' = IF s.pending[p] = {} THEN s
                       ELSE [s EXCEPT !.pending[p] = @ \ {fls(@)}]
           /\ pc' = [pc EXCEPT ![q] = "new"]
    /\ UNCHANGED <<posix_timers, now, due>>

\* A process goes on after an interrupt, or runs for the first time.
ResumeUser ==
    LET p == sched.current
    IN
    /\ Running
    /\ \/ pc[p] = "preempted" /\ return_to_user(sched)
       \/ pc[p] = "new" /\ pc' = [pc EXCEPT ![p] = "user"] /\ UNCHANGED sched
    /\ UNCHANGED <<gen, timers, posix_timers, now, due>>

\* The kernel has stopped, or the time the model looks at is over.
Over == (~Running \/ now = MaxTime) /\ UNCHANGED vars

Next ==
    \/ tick
    \/ \E n \in Ticks : sys_sleep(n) \/ sys_alarm(n)
    \/ \E k \in TimerIds : sys_timer_create(k) \/ sys_timer_delete(k)
    \/ \E k \in TimerIds, n \in Ticks : sys_timer_settime(k, n)
    \/ \E q \in Slots : sys_kill(q) \/ Reap(q) \/ Fork(q)
    \/ sys_exit
    \/ ResumeSleep
    \/ ResumeUser
    \/ Over

Spec == Init /\ [][Next]_vars

-----------------------------------------------------------------------------
(* Properties *)

\* A tick fires exactly the timers that are due by then: none early, although
\* the walk stops at the first one that is not due, and none late.
FiresOnTime ==
    [][now' = now + 1 =>
           \A t \in Timers : linked(timers, t) => (linked(timers', t) <=> due[t] > now')]_vars

\* Signals and the timer race to wake a sleeper, and sleep decides by what
\* schedule() returns whether it must unlink its timer.  While p sleeps the
\* timer is linked, so it cannot oversleep.  Once p is awake schedule() returns
\* 0 exactly if the timer has fired and is gone, also when a signal woke p
\* first and the timer fired before p ran, or both in one tick; else the timer
\* is still linked and ktimer_remove returns the time that was left.  t_sleep
\* is free whenever its process may call sleep again.
SleepOutcome ==
    \A p \in Slots :
        /\ pc[p] = "sleep" /\ sched.panic # "dead process" =>
              IF sched.state[p] = "READY" /\ sched.rc[p] = 0
              THEN due[t_sleep(p)] <= now /\ ~linked(timers, t_sleep(p))
              ELSE /\ linked(timers, t_sleep(p))
                   /\ remaining(timers, tick_count, t_sleep(p)) = due[t_sleep(p)] - now
        /\ linked(timers, t_sleep(p)) => pc[p] = "sleep"

\* "timer is currently armed": TF_ARMED is set only while the timer is linked,
\* so that alarm unlinks only what is linked.
ArmedIsLinked == \A t \in Timers : timers.armed[t] => linked(timers, t)

\* A process is never put into the ready queue a second time.
NoRequeue == sched.panic # "requeued"

\* "POSIX timer expired for dead process" cannot happen.
NoDeadTimer == sched.panic # "dead process"

\* timer_settime may set a timer that is armed.
NoRelink == sched.panic # "relinked"

\* A deleted POSIX timer does not fire: its memory is out of the list.
DeletedNotLinked ==
    \A k \in TimerIds : ~posix_timers[k].live => ~linked(timers, posix(k))
=============================================================================
