---------------------------- MODULE SignalProofs ----------------------------
(***************************************************************************)
(* Proofs about Signal, for every set of signals that has SIGKILL, every   *)
(* set of masks and calls, and any number of signals sent.                 *)
(***************************************************************************)
EXTENDS Signal, SequenceTheorems, WellFoundedInduction, TLAPS

Actions == [Signals -> [handler : {"SIG_IGN", "sig_terminate", "user"}, sa_mask : Sets \cup {{}}]]

Queues == {<< >>, <<OTHERS>>, <<P>>, <<OTHERS, P>>, <<P, OTHERS>>}

SchedType ==
    [state       : [{OTHERS, P} -> {"READY", "SIGWAIT", "INTERRUPTIBLE", "ZOMBIE"}],
     rc          : [{OTHERS, P} -> Int],
     ready_queue : Queues,
     current     : {OTHERS, P}]

\* Who runs is READY and not queued, and P sleeps only inside of the call that
\* put it to sleep.
Placed ==
    /\ sched \in SchedType
    /\ sched.state[OTHERS] = "READY"
    /\ sched.current = P => sched.state[P] = "READY"
    /\ pc \in {"user", "preempted", "sigwait", "sigsuspend"}
    /\ sched.state[P] = "SIGWAIT" => pc = "sigwait"
    /\ sched.state[P] = "INTERRUPTIBLE" => pc = "sigsuspend"

WokenInv == Placed /\ WokenBySignal

\* SIGKILL has its default action, and nobody waits for it in sigwait.
KillInv ==
    /\ pending \subseteq Signals
    /\ actions \in Actions
    /\ actions[SIGKILL].handler = "sig_terminate"
    /\ SIGKILL \notin waitset

-----------------------------------------------------------------------------
LEMMA SignalsAreNumbers == Signals \subseteq Int /\ SIGKILL \in Signals
  BY SignalsAssumption

LEMMA InQueues ==
  << >> \in Queues /\ <<OTHERS>> \in Queues /\ <<P>> \in Queues
  /\ <<OTHERS, P>> \in Queues /\ <<P, OTHERS>> \in Queues
  BY DEF Queues

LEMMA AppendPair ==
  ASSUME NEW a \in Nat, NEW b \in Nat
  PROVE  Append(<<a>>, b) = <<a, b>>
  <1> DEFINE both == Append(<<a>>, b)
  <1>1. both \in Seq(Nat) /\ <<a, b>> \in Seq(Nat)
    OBVIOUS
  <1>2. Len(both) = 2 /\ \A i \in 1 .. 2 : both[i] = <<a, b>>[i]
    OBVIOUS
  <1> QED
    BY <1>1, <1>2, SeqEqual

LEMMA InitWoken == Init => WokenInv
  <1> SUFFICES ASSUME Init PROVE WokenInv
    OBVIOUS
  <1>1. sched \in SchedType
    BY InQueues DEF Init, SchedType, OTHERS, P
  <1> QED
    BY <1>1 DEF Init, WokenInv, Placed, WokenBySignal, Asleep, OTHERS, P

\* schedule with one or two processes in the queue, none of them idle.
LEMMA ScheduleTakesHead ==
  ASSUME NEW s \in SchedType, s.ready_queue = <<OTHERS>> \/ s.ready_queue = <<P, OTHERS>>
  PROVE  schedule(s) = [s EXCEPT !.ready_queue = IF s.ready_queue = <<OTHERS>> THEN << >> ELSE <<OTHERS>>,
                                 !.current = IF s.ready_queue = <<OTHERS>> THEN OTHERS ELSE P]
  <1>1. CASE s.ready_queue = <<OTHERS>>
    <2>1. Head(s.ready_queue) = OTHERS /\ Tail(s.ready_queue) = << >>
      BY <1>1
    <2> QED
      BY <2>1, <1>1 DEF schedule, OTHERS, IDLE
  <1>2. CASE s.ready_queue = <<P, OTHERS>>
    <2>1. Head(s.ready_queue) = P /\ Tail(s.ready_queue) = <<OTHERS>> /\ <<P, OTHERS>> # <<OTHERS>>
      BY <1>2
    <2> QED
      BY <2>1, <1>2 DEF schedule, OTHERS, P, IDLE
  <1> QED
    BY <1>1, <1>2

\* P leaves the CPU to the others and is not queued: it sleeps or has exited.
LEMMA Leaves ==
  ASSUME WokenInv, sched.current = P, NEW st \in {"SIGWAIT", "INTERRUPTIBLE", "ZOMBIE"},
         sched' = schedule([sched EXCEPT !.state[P] = st])
  PROVE  /\ sched' \in SchedType
         /\ sched'.state[OTHERS] = "READY" /\ sched'.state[P] = st
         /\ sched'.current = OTHERS /\ sched'.ready_queue = << >>
  <1> DEFINE s == [sched EXCEPT !.state[P] = st]
  <1>1. s \in SchedType /\ s.ready_queue = <<OTHERS>>
    BY DEF WokenInv, Placed, WokenBySignal, SchedType
  <1>2. s.state[OTHERS] = "READY" /\ s.state[P] = st
    BY DEF WokenInv, Placed, SchedType, OTHERS, P
  <1> HIDE DEF s
  <1>3. sched' = [s EXCEPT !.ready_queue = << >>, !.current = OTHERS]
    BY <1>1, ScheduleTakesHead DEF s
  <1> QED
    BY <1>1, <1>2, <1>3, InQueues DEF SchedType

\* While P keeps the CPU and ends in user mode, nothing is claimed of rc.
LEMMA InUserMode ==
  ASSUME WokenInv, sched.current = P, pc' = "user", UNCHANGED sched
  PROVE  WokenInv'
  BY DEF WokenInv, Placed, WokenBySignal, Asleep

LEMMA FallsAsleep ==
  ASSUME WokenInv, sched.current = P,
         \/ Sleep("SIGWAIT", "sigwait")
         \/ Sleep("INTERRUPTIBLE", "sigsuspend")
  PROVE  WokenInv'
  <1>1. CASE Sleep("SIGWAIT", "sigwait")
    BY <1>1, Leaves DEF Sleep, WokenInv, Placed, WokenBySignal, Asleep, OTHERS, P
  <1>2. CASE Sleep("INTERRUPTIBLE", "sigsuspend")
    BY <1>2, Leaves DEF Sleep, WokenInv, Placed, WokenBySignal, Asleep, OTHERS, P
  <1> QED
    BY <1>1, <1>2

LEMMA Wakes ==
  ASSUME NEW s \in SchedType, NEW n \in Int, s.ready_queue = << >>
  PROVE  /\ wake(s, P, n) \in SchedType
         /\ wake(s, P, n).state[OTHERS] = s.state[OTHERS] /\ wake(s, P, n).state[P] = "READY"
         /\ wake(s, P, n).rc[P] = n
         /\ wake(s, P, n).current = s.current /\ wake(s, P, n).ready_queue = <<P>>
  <1> DEFINE t == [s EXCEPT !.rc[P] = n]
  <1>1. t \in SchedType /\ t.rc[P] = n
    BY DEF SchedType
  <1>2. t.state = s.state /\ t.current = s.current /\ t.ready_queue = << >>
    BY DEF SchedType
  <1> HIDE DEF t
  <1>3. Append(t.ready_queue, P) = <<P>> /\ P # OTHERS
    BY <1>2 DEF OTHERS, P
  <1>4. wake(s, P, n) = [t EXCEPT !.state[P] = "READY", !.ready_queue = <<P>>]
    BY <1>1, <1>3 DEF wake, ready, t, SchedType
  <1>5. wake(s, P, n) \in SchedType
    <2>1. [t.state EXCEPT ![P] = "READY"] \in
             [{OTHERS, P} -> {"READY", "SIGWAIT", "INTERRUPTIBLE", "ZOMBIE"}]
      BY <1>1 DEF SchedType
    <2> QED
      BY <1>1, <1>4, <2>1, InQueues DEF SchedType
  <1>6. /\ wake(s, P, n).state[OTHERS] = s.state[OTHERS] /\ wake(s, P, n).state[P] = "READY"
    BY <1>1, <1>2, <1>3, <1>4 DEF SchedType
  <1>7. /\ wake(s, P, n).rc[P] = n
        /\ wake(s, P, n).current = s.current /\ wake(s, P, n).ready_queue = <<P>>
    BY <1>1, <1>2, <1>4 DEF SchedType
  <1> QED
    BY <1>5, <1>6, <1>7

\* A signal wakes a sleeper once, with its own number, and is pending.
LEMMA SendStep ==
  ASSUME WokenInv, NEW n \in Signals, Send(n)
  PROVE  WokenInv'
  <1> USE DEF Send, kill
  <1>1. n \in Int /\ n \in pending' /\ pending \subseteq pending'
    BY SignalsAreNumbers DEF PendingAfterKill
  <1>2. \A m : signal_accepted(m)' = signal_accepted(m)
    BY DEF signal_accepted
  <1>3. CASE needs_wake(sched, P, n = SIGCHLD, signal_accepted(n))
    <2>1. Asleep
      BY <1>3 DEF needs_wake, Asleep, WokenInv, Placed, SchedType, P
    <2>2. sched.ready_queue = << >> /\ sched.current = OTHERS
      BY <2>1 DEF WokenInv, Placed, WokenBySignal, Asleep, SchedType
    <2>3. sched' = wake(sched, P, n)
      BY <1>3
    <2>4. /\ sched' \in SchedType
          /\ sched'.state[OTHERS] = "READY" /\ sched'.state[P] = "READY"
          /\ sched'.rc[P] = n
          /\ sched'.current = OTHERS /\ sched'.ready_queue = <<P>>
      BY <2>2, <2>3, <1>1, Wakes DEF WokenInv, Placed
    <2>5. pc = "sigsuspend" => signal_accepted(n)
      BY <1>3, <2>1 DEF needs_wake, Asleep, WokenInv, Placed
    <2> QED
      BY <1>1, <1>2, <2>4, <2>5 DEF WokenInv, Placed, WokenBySignal, Asleep, OTHERS, P
  <1>4. CASE ~needs_wake(sched, P, n = SIGCHLD, signal_accepted(n))
    <2>1. sched' = sched
      BY <1>4
    <2> QED
      BY <2>1, <1>1, <1>2 DEF WokenInv, Placed, WokenBySignal, Asleep
  <1> QED
    BY <1>3, <1>4

LEMMA TickStep ==
  ASSUME WokenInv, tick
  PROVE  WokenInv'
  <1> DEFINE s == ready(sched, sched.current)
  <1>0. \A m : signal_accepted(m)' = signal_accepted(m)
    BY DEF tick, sig, signal_accepted
  <1>1. /\ s \in SchedType /\ s.state = sched.state /\ s.rc = sched.rc
        /\ s.ready_queue = Append(sched.ready_queue, sched.current)
    <2>1. sched \in SchedType /\ sched.state[sched.current] = "READY"
      BY DEF WokenInv, Placed, SchedType
    <2>2. Append(sched.ready_queue, sched.current) \in {<<OTHERS>>, <<OTHERS, P>>, <<P, OTHERS>>}
      <3>1. Append(<<OTHERS>>, P) = <<OTHERS, P>> /\ Append(<<P>>, OTHERS) = <<P, OTHERS>>
            /\ Append(<< >>, OTHERS) = <<OTHERS>>
        BY AppendPair DEF OTHERS, P
      <3> QED
        BY <3>1 DEF WokenInv, Placed, WokenBySignal, SchedType
    <2>3. [sched.state EXCEPT ![sched.current] = "READY"] = sched.state
      BY <2>1 DEF SchedType
    <2>4. s = [sched EXCEPT !.ready_queue = Append(sched.ready_queue, sched.current)]
      BY <2>1, <2>3 DEF ready, SchedType
    <2> QED
      BY <2>1, <2>2, <2>4, InQueues DEF SchedType
  <1>2. sched' = schedule(s)
    BY DEF tick
  <1> HIDE DEF s
  <1>3. CASE sched.current = P
    <2>1. Append(sched.ready_queue, sched.current) = <<OTHERS, P>>
      <3>1. Append(<<OTHERS>>, P) = <<OTHERS, P>>
        BY AppendPair DEF OTHERS, P
      <3> QED
        BY <1>3, <3>1 DEF WokenInv, WokenBySignal
    <2>2. sched' = [s EXCEPT !.ready_queue = <<P>>, !.current = OTHERS]
      <3>1. Head(<<OTHERS, P>>) = OTHERS /\ Tail(<<OTHERS, P>>) = <<P>>
        OBVIOUS
      <3> QED
        BY <1>1, <1>2, <2>1, <3>1 DEF schedule, OTHERS, P, IDLE
    <2>3. /\ sched' \in SchedType /\ sched'.state = sched.state
          /\ sched'.ready_queue = <<P>> /\ sched'.current = OTHERS /\ pc' = "preempted"
      BY <1>1, <1>3, <2>2, InQueues DEF SchedType, tick
    <2> QED
      BY <1>3, <2>3 DEF WokenInv, Placed, WokenBySignal, Asleep, OTHERS, P
  <1>4. CASE sched.current = OTHERS
    <2>1. pc' = pc
      BY <1>4 DEF tick, OTHERS, P
    <2>2. CASE sched.state[P] = "READY"
      <3>1. s.ready_queue = <<P, OTHERS>>
        <4>1. Append(<<P>>, OTHERS) = <<P, OTHERS>> /\ P # OTHERS
          BY AppendPair DEF OTHERS, P
        <4> QED
          BY <4>1, <1>1, <1>4, <2>2 DEF WokenInv, WokenBySignal
      <3>2. sched' = [s EXCEPT !.ready_queue = <<OTHERS>>, !.current = P]
        <4>1. <<P, OTHERS>> # <<OTHERS>>
          OBVIOUS
        <4> QED
          BY <1>1, <1>2, <3>1, <4>1, ScheduleTakesHead
      <3>3. /\ sched' \in SchedType /\ sched'.state = sched.state /\ sched'.rc = sched.rc
            /\ sched'.ready_queue = <<OTHERS>> /\ sched'.current = P
        BY <1>1, <3>2, InQueues DEF SchedType
      <3> QED
        BY <1>0, <2>1, <2>2, <3>3 DEF WokenInv, Placed, WokenBySignal, Asleep, OTHERS, P, tick, sig
    <2>3. CASE sched.state[P] # "READY"
      <3>1. s.ready_queue = <<OTHERS>>
        <4>1. Append(<< >>, OTHERS) = <<OTHERS>> /\ P # OTHERS
          BY DEF OTHERS, P
        <4> QED
          BY <4>1, <1>1, <1>4, <2>3 DEF WokenInv, WokenBySignal
      <3>2. sched' = [s EXCEPT !.ready_queue = << >>, !.current = OTHERS]
        BY <1>1, <1>2, <3>1, ScheduleTakesHead
      <3>3. /\ sched' \in SchedType /\ sched'.state = sched.state /\ sched'.rc = sched.rc
            /\ sched'.ready_queue = << >> /\ sched'.current = OTHERS
        BY <1>1, <3>2, InQueues DEF SchedType
      <3> QED
        BY <1>0, <2>1, <2>3, <3>3 DEF WokenInv, Placed, WokenBySignal, Asleep, OTHERS, P, tick, sig
    <2> QED
      BY <2>2, <2>3
  <1> QED
    BY <1>3, <1>4 DEF WokenInv, Placed, SchedType

LEMMA StepWoken ==
  ASSUME WokenInv, [Next]_vars
  PROVE  WokenInv'
  <1>1. ASSUME NEW n \in Signals, Send(n) PROVE WokenInv'
    BY <1>1, SendStep
  <1>2. ASSUME NEW n \in Signals, Raise(n) PROVE WokenInv'
    BY <1>2, InUserMode DEF Raise, CanCall, return_to_user
  <1>3. ASSUME NEW n \in Signals, NEW h \in Handlers, NEW s \in Sets, sys_sigaction(n, h, s)
        PROVE  WokenInv'
    BY <1>3, InUserMode DEF sys_sigaction, CanCall, return_to_user
  <1>4. ASSUME NEW how \in Hows, NEW s \in Sets, sys_sigprocmask(how, s) PROVE WokenInv'
    BY <1>4, InUserMode DEF sys_sigprocmask, CanCall, return_to_user
  <1>5. ASSUME NEW s \in Sets, sys_sigwait(s) PROVE WokenInv'
    BY <1>5, InUserMode, FallsAsleep DEF sys_sigwait, CanCall, WaitReturns, return_to_user
  <1>6. ASSUME NEW s \in Sets, sys_sigsuspend(s) PROVE WokenInv'
    BY <1>6, FallsAsleep DEF sys_sigsuspend, CanCall
  <1>7. CASE OtherCall
    BY <1>7, InUserMode DEF OtherCall, CanCall, return_to_user
  <1>8. CASE Exec
    BY <1>8, InUserMode DEF Exec, CanCall, return_to_user
  <1>9. CASE SigReturn
    BY <1>9, InUserMode DEF SigReturn, return_to_user
  <1>10. CASE Exit
    <2>1. sched.current = P /\ pc = "user" /\ pc' = pc
          /\ sched' = schedule([sched EXCEPT !.state[P] = "ZOMBIE"])
      BY <1>10 DEF Exit, zombie
    <2> QED
      BY <2>1, Leaves DEF WokenInv, Placed, WokenBySignal, Asleep, OTHERS, P
  <1>11. CASE ResumeSigwait
    BY <1>11, InUserMode, FallsAsleep DEF ResumeSigwait, WaitReturns, return_to_user
  <1>12. CASE ResumeToUser
    BY <1>12, InUserMode DEF ResumeToUser, return_to_user
  <1>13. CASE tick
    BY <1>13, TickStep
  <1>14. CASE UNCHANGED vars
    BY <1>14 DEF vars, sig, WokenInv, Placed, WokenBySignal, Asleep, signal_accepted
  <1> QED
    BY <1>1, <1>2, <1>3, <1>4, <1>5, <1>6, <1>7, <1>8, <1>9, <1>10, <1>11, <1>12, <1>13, <1>14
       DEF Next

\* The signal that woke P from sigwait or sigsuspend is pending, and in
\* sigsuspend accepted, until P runs, and P is queued exactly once, however
\* many signals are sent meanwhile (__kill, sys_sigwait, sys_sigsuspend).
THEOREM WokenCorrect == Spec => []WokenBySignal
  <1>1. Init => WokenInv
    BY InitWoken
  <1>2. WokenInv /\ [Next]_vars => WokenInv'
    BY StepWoken
  <1>3. WokenInv => WokenBySignal
    BY DEF WokenInv
  <1> QED
    BY <1>1, <1>2, <1>3, PTL DEF Spec

-----------------------------------------------------------------------------
LEMMA InitKill == Init => KillInv
  <1> SUFFICES ASSUME Init PROVE KillInv
    OBVIOUS
  <1>1. actions \in Actions
    BY DEF Init, Actions, sig_default
  <1>2. sig_default(SIGKILL) = "sig_terminate"
    BY DEF sig_default, SIGKILL
  <1> QED
    BY <1>1, <1>2, SignalsAreNumbers DEF Init, KillInv

\* Every step that sets actions leaves SIGKILL's alone or gives it its default.
LEMMA StepActions ==
  ASSUME KillInv, [Next]_vars
  PROVE  actions' \in Actions /\ actions'[SIGKILL].handler = "sig_terminate"
  <1> DEFINE Goal == actions' \in Actions /\ actions'[SIGKILL].handler = "sig_terminate"
  <1> USE SignalsAreNumbers
  <1>1. ASSUME UNCHANGED actions PROVE Goal
    BY <1>1 DEF KillInv
  <1>2. ASSUME NEW n \in Signals, NEW h \in Handlers, NEW s \in Sets, sys_sigaction(n, h, s)
        PROVE  Goal
    <2>1. n # SIGKILL
      BY <1>2 DEF sys_sigaction, SigactionValid, sig_unblockable
    <2>2. NewHandler(n, h) \in {"SIG_IGN", "sig_terminate", "user"}
      BY DEF NewHandler, sig_default, Handlers
    <2>3. actions' = [actions EXCEPT ![n] = [handler |-> NewHandler(n, h), sa_mask |-> s]]
      BY <1>2 DEF sys_sigaction, return_to_user, Now
    <2> QED
      BY <2>1, <2>2, <2>3 DEF KillInv, Actions
  <1>3. CASE Exec
    <2>1. actions' = [n \in Signals |->
                         IF actions[n].handler = "SIG_IGN" THEN actions[n]
                         ELSE [actions[n] EXCEPT !.handler = sig_default(n)]]
      BY <1>3 DEF Exec, return_to_user, Now
    <2>2. actions' \in Actions
      BY <2>1 DEF KillInv, Actions, sig_default
    <2>3. sig_default(SIGKILL) = "sig_terminate"
      BY DEF sig_default, SIGKILL
    <2> QED
      BY <2>1, <2>2, <2>3 DEF KillInv, Actions
  <1>4. ASSUME NEW n \in Signals, Send(n) \/ Raise(n) PROVE Goal
    BY <1>1, <1>4 DEF Send, Raise, return_to_user, Now
  <1>5. ASSUME NEW how \in Hows, NEW s \in Sets, sys_sigprocmask(how, s) PROVE Goal
    BY <1>1, <1>5 DEF sys_sigprocmask, return_to_user, Now
  <1>6. ASSUME NEW s \in Sets, sys_sigwait(s) \/ sys_sigsuspend(s) PROVE Goal
    BY <1>1, <1>6 DEF sys_sigwait, sys_sigsuspend, WaitReturns, return_to_user, Now, sig
  <1>7. CASE OtherCall \/ SigReturn \/ ResumeToUser
    BY <1>1, <1>7 DEF OtherCall, SigReturn, ResumeToUser, return_to_user, Now
  <1>8. CASE ResumeSigwait
    BY <1>1, <1>8 DEF ResumeSigwait, WaitReturns, return_to_user, Now, sig
  <1>9. CASE Exit \/ tick \/ UNCHANGED vars
    BY <1>1, <1>9 DEF Exit, tick, sig, vars
  <1> QED
    BY <1>2, <1>3, <1>4, <1>5, <1>6, <1>7, <1>8, <1>9 DEF Next

\* BIT(SIGSTOP), which is in SIG_NOIGNORE, is the bit of SIGKILL.
LEMMA NotWaitedFor == \A s : SIGKILL \notin WaitSet(s)
  BY DEF WaitSet, SIG_NOIGNORE, SIGKILL, SIGSTOP

\* fls takes a member of the set; a set of signals has a highest one.
LEMMA TakesFromSet ==
  ASSUME NEW S \in SUBSET Signals, S # {}
  PROVE  fls(S) \in S
  <1> DEFINE R == OpToRel(<, Nat)
             T == {28 - m : m \in S}
  <1>1. ASSUME NEW m \in S PROVE m \in Nat /\ 28 - m \in Nat
    BY SignalsAssumption
  <1>2. T \in SUBSET Nat /\ T # {}
    BY <1>1
  <1>3. IsWellFoundedOn(R, Nat)
    BY NatLessThanWellFounded
  <1>4. \A x, y \in Nat : <<x, y>> \in R <=> x < y
    BY DEF OpToRel
  <1> HIDE DEF R, T
  <1>5. PICK t \in T : \A u \in T : ~(<<u, t>> \in R)
    BY <1>2, <1>3, WFMin
  <1>6. PICK n \in S : t = 28 - n
    BY DEF T
  <1>7. ASSUME NEW m \in S PROVE m <= n
    <2>1. 28 - m \in T
      BY DEF T
    <2>2. ~(28 - m < 28 - n)
      BY <1>1, <1>4, <1>5, <1>6, <2>1
    <2> QED
      BY <1>1, <2>2
  <1> QED
    BY <1>7 DEF fls

LEMMA StepKill ==
  ASSUME KillInv, [Next]_vars
  PROVE  KillInv'
  <1>0. \A sm : return_to_user(sm) => pending' \subseteq sm.pending
    BY DEF return_to_user, PendingAfterDelivery
  <1>1. SIGKILL \notin waitset'
    BY NotWaitedFor
       DEF KillInv, Next, vars, sig, Send, Raise, sys_sigaction, sys_sigprocmask, sys_sigwait,
           sys_sigsuspend, OtherCall, Exec, SigReturn, Exit, ResumeSigwait, ResumeToUser, tick
  <1>2. pending' \subseteq Signals
    <2>1. ASSUME NEW n \in Signals, Send(n) \/ Raise(n) PROVE pending' \subseteq Signals
      <3>1. pending \cup {n} \subseteq Signals
        BY DEF KillInv
      <3>2. [Now EXCEPT !.pending = PendingAfterKill(n)].pending = pending \cup {n}
        BY DEF Now, PendingAfterKill
      <3> QED
        BY <1>0, <2>1, <3>1, <3>2 DEF Send, kill, Raise, PendingAfterKill
    <2>2. ASSUME NEW n \in Signals, NEW h \in Handlers, NEW s \in Sets, sys_sigaction(n, h, s)
          PROVE  pending' \subseteq Signals
      <3> DEFINE sm == [Now EXCEPT !.actions[n] = [handler |-> NewHandler(n, h), sa_mask |-> s],
                                   !.mask = Now.mask \cup {n}]
      <3>1. return_to_user(sm)
        BY <2>2 DEF sys_sigaction
      <3>2. sm.pending = pending
        BY DEF Now
      <3> HIDE DEF sm
      <3> QED
        BY <1>0, <3>1, <3>2 DEF KillInv
    <2>3. ASSUME NEW how \in Hows, NEW s \in Sets, sys_sigprocmask(how, s)
          PROVE  pending' \subseteq Signals
      BY <1>0, <2>3 DEF sys_sigprocmask, Now, KillInv
    <2>4. ASSUME NEW k, WaitReturns(k) PROVE pending' \subseteq Signals
      BY <1>0, <2>4 DEF WaitReturns, Now, KillInv
    <2>5. ASSUME return_to_user(Now) PROVE pending' \subseteq Signals
      BY <1>0, <2>5 DEF Now, KillInv
    <2>6. ASSUME NEW s \in Sets, sys_sigwait(s) \/ sys_sigsuspend(s) PROVE pending' \subseteq Signals
      BY <2>4, <2>6 DEF sys_sigwait, sys_sigsuspend, sig, KillInv
    <2>7. CASE Exec
      <3> DEFINE sm == [Now EXCEPT
                          !.actions = [n \in Signals |->
                              IF actions[n].handler = "SIG_IGN"
                              THEN actions[n]
                              ELSE [actions[n] EXCEPT !.handler = sig_default(n)]],
                          !.frames = << >>]
      <3>1. return_to_user(sm)
        BY <2>7 DEF Exec
      <3>2. sm.pending = pending
        BY DEF Now
      <3> HIDE DEF sm
      <3> QED
        BY <1>0, <3>1, <3>2 DEF KillInv
    <2>8. CASE SigReturn
      <3> DEFINE sm == [Now EXCEPT !.mask = Last(frames).mask, !.frames = Front(frames)]
      <3>1. return_to_user(sm)
        BY <2>8 DEF SigReturn
      <3>2. sm.pending = pending
        BY DEF Now
      <3> HIDE DEF sm
      <3> QED
        BY <1>0, <3>1, <3>2 DEF KillInv
    <2>9. CASE OtherCall \/ ResumeToUser
      BY <2>5, <2>9 DEF OtherCall, ResumeToUser
    <2>10. CASE ResumeSigwait
      BY <2>4, <2>5, <2>10 DEF ResumeSigwait, sig, KillInv
    <2>11. CASE Exit \/ tick \/ UNCHANGED vars
      BY <2>11 DEF Exit, tick, vars, sig, KillInv
    <2> QED
      BY <2>1, <2>2, <2>3, <2>6, <2>7, <2>8, <2>9, <2>10, <2>11 DEF Next
  <1> QED
    BY <1>1, <1>2, StepActions DEF KillInv

\* frames is a sequence, whatever the masks saved in it are.
Stacked(f) == \E S : f \in Seq(S)

LEMMA PushStacked ==
  ASSUME NEW f, Stacked(f), NEW x
  PROVE  Stacked(Append(f, x)) /\ Append(f, x) # << >> /\ Last(Append(f, x)) = x
  <1>1. PICK S : f \in Seq(S)
    BY DEF Stacked
  <1> DEFINE T == S \cup {x}
  <1>2. f \in Seq(T) /\ x \in T
    BY <1>1
  <1> HIDE DEF T
  <1>3. Append(f, x) \in Seq(T) /\ Len(Append(f, x)) = Len(f) + 1 /\ Append(f, x)[Len(f) + 1] = x
    BY <1>2
  <1> QED
    BY <1>2, <1>3 DEF Stacked, Last

LEMMA PopStacked ==
  ASSUME NEW f, Stacked(f), f # << >>
  PROVE  Stacked(Front(f))
  <1>1. PICK S : f \in Seq(S)
    BY DEF Stacked
  <1>2. Len(f) \in Nat /\ Len(f) # 0
    BY <1>1
  <1>3. SubSeq(f, 1, Len(f) - 1) \in Seq(S)
    BY <1>1, <1>2
  <1> QED
    BY <1>3 DEF Stacked, Front

LEMMA ReturnStacked ==
  ASSUME NEW sm, return_to_user(sm), Stacked(sm.frames)
  PROVE  Stacked(frames')
  <1>1. CASE frames' = sm.frames
    BY <1>1
  <1>2. CASE \E x : frames' = Append(sm.frames, x)
    BY <1>2, PushStacked
  <1> QED
    BY <1>1, <1>2 DEF return_to_user, DeliverTo

\* The way back to user mode takes SIGKILL out of what the call left pending
\* only by putting a frame of sig_terminate on top.
LEMMA ReturnDelivers ==
  ASSUME NEW sm, return_to_user(sm), Stacked(sm.frames),
         sm.actions[SIGKILL].handler = "sig_terminate",
         SIGKILL \in sm.pending, SIGKILL \notin pending'
  PROVE  frames' # << >> /\ Last(frames').handler = "sig_terminate"
  <1> DEFINE n == fls(sm.pending \cap sm.mask)
             f == [handler |-> "sig_terminate",
                   mask    |-> IF sm.restore # {} THEN sm.restore ELSE sm.mask]
  <1>1. sm.pending \cap sm.mask # {} /\ pending' = sm.pending \ {n}
    BY DEF return_to_user, PendingAfterDelivery
  <1>2. n = SIGKILL
    BY <1>1
  <1>3. frames' = Append(sm.frames, f)
    BY <1>1, <1>2 DEF return_to_user, DeliverTo
  <1> QED
    BY <1>3, PushStacked

\* What a call that returns to user mode does to the stack and to a pending
\* SIGKILL; each such call leaves some signal state sm.
Delivers(sm) ==
    /\ return_to_user(sm)
    /\ Stacked(sm.frames)
    /\ sm.actions[SIGKILL].handler = "sig_terminate"
    /\ SIGKILL \in pending => SIGKILL \in sm.pending

LEMMA CallsDeliver ==
  ASSUME KillInv, Stacked(frames), [Next]_vars
  PROVE  \/ \E sm : Delivers(sm)
         \/ UNCHANGED frames /\ pending \subseteq pending'
  <1> DEFINE Goal == (\E sm : Delivers(sm)) \/ (UNCHANGED frames /\ pending \subseteq pending')
  <1> USE SignalsAreNumbers DEF Delivers
  <1>1. ASSUME NEW n \in Signals, Send(n) PROVE Goal
    BY <1>1 DEF Send, kill, PendingAfterKill
  <1>2. ASSUME NEW n \in Signals, Raise(n) PROVE Goal
    <2> DEFINE sm == [Now EXCEPT !.pending = PendingAfterKill(n)]
    <2>1. return_to_user(sm)
      BY <1>2 DEF Raise
    <2>2. sm.frames = frames /\ sm.actions = actions /\ pending \subseteq sm.pending
      BY DEF Now, PendingAfterKill
    <2> QED
      BY <2>1, <2>2 DEF KillInv
  <1>3. ASSUME NEW n \in Signals, NEW h \in Handlers, NEW s \in Sets, sys_sigaction(n, h, s)
        PROVE  Goal
    <2> DEFINE sm == [Now EXCEPT
                          !.actions[n] = [handler |-> NewHandler(n, h), sa_mask |-> s],
                          !.mask = @ \cup {n}]
    <2>1. return_to_user(sm) /\ actions' = sm.actions
      BY <1>3 DEF sys_sigaction, return_to_user
    <2>2. sm.frames = frames /\ sm.pending = pending
      BY DEF Now
    <2>3. actions'[SIGKILL].handler = "sig_terminate"
      BY StepActions
    <2> HIDE DEF sm
    <2> QED
      BY <2>1, <2>2, <2>3
  <1>4. ASSUME NEW how \in Hows, NEW s \in Sets, sys_sigprocmask(how, s) PROVE Goal
    <2> DEFINE sm == [Now EXCEPT !.mask = ProcMask(how, s)]
    <2>1. return_to_user(sm)
      BY <1>4 DEF sys_sigprocmask
    <2>2. sm.frames = frames /\ sm.actions = actions /\ sm.pending = pending
      BY DEF Now
    <2> HIDE DEF sm
    <2> QED
      BY <2>1, <2>2 DEF KillInv
  <1>5. ASSUME NEW k, k # SIGKILL, WaitReturns(k) PROVE Goal
    <2> DEFINE sm == [Now EXCEPT !.pending = @ \ {k}]
    <2>1. return_to_user(sm)
      BY <1>5 DEF WaitReturns
    <2>2. sm.frames = frames /\ sm.actions = actions /\ sm.pending = pending \ {k}
      BY DEF Now
    <2> HIDE DEF sm
    <2> QED
      BY <1>5, <2>1, <2>2 DEF KillInv
  <1>6. ASSUME return_to_user(Now) PROVE Goal
    BY <1>6 DEF Now, KillInv
  <1>7. ASSUME NEW s \in Sets, sys_sigwait(s) PROVE Goal
    <2>1. CASE UNCHANGED sig
      BY <2>1 DEF sig
    <2>2. CASE /\ pending \cap WaitSet(s) # {}
               /\ WaitReturns(fls(pending \cap WaitSet(s)))
      <3>1. fls(pending \cap WaitSet(s)) # SIGKILL
        BY <2>2, TakesFromSet, NotWaitedFor DEF KillInv
      <3> QED
        BY <2>2, <3>1, <1>5
    <2> QED
      BY <1>7, <2>1, <2>2 DEF sys_sigwait
  <1>8. ASSUME NEW s \in Sets, sys_sigsuspend(s) PROVE Goal
    BY <1>8 DEF sys_sigsuspend
  <1>9. CASE OtherCall \/ ResumeToUser
    BY <1>6, <1>9 DEF OtherCall, ResumeToUser
  <1>10. CASE Exec
    <2> DEFINE sm == [Now EXCEPT
                          !.actions = [n \in Signals |->
                              IF actions[n].handler = "SIG_IGN" THEN actions[n]
                              ELSE [actions[n] EXCEPT !.handler = sig_default(n)]],
                          !.frames = << >>]
    <2>1. return_to_user(sm) /\ actions' = sm.actions
      BY <1>10 DEF Exec, return_to_user
    <2>2. sm.frames = << >> /\ sm.pending = pending
      BY DEF Now
    <2>3. actions'[SIGKILL].handler = "sig_terminate"
      BY StepActions
    <2>4. Stacked(<< >>)
      BY DEF Stacked
    <2> HIDE DEF sm
    <2> QED
      BY <2>1, <2>2, <2>3, <2>4
  <1>11. CASE SigReturn
    <2> DEFINE sm == [Now EXCEPT !.mask = Last(frames).mask, !.frames = Front(frames)]
    <2>1. return_to_user(sm) /\ frames # << >>
      BY <1>11 DEF SigReturn, InHandler
    <2>2. sm.frames = Front(frames) /\ sm.actions = actions /\ sm.pending = pending
      BY DEF Now
    <2> HIDE DEF sm
    <2> QED
      BY <2>1, <2>2, PopStacked DEF KillInv
  <1>12. CASE ResumeSigwait
    <2>1. CASE sched.rc[P] \in waitset /\ WaitReturns(sched.rc[P])
      BY <2>1, <1>5 DEF KillInv
    <2>2. CASE return_to_user(Now) \/ UNCHANGED sig
      BY <2>2, <1>6 DEF sig
    <2> QED
      BY <1>12, <2>1, <2>2 DEF ResumeSigwait
  <1>13. CASE Exit \/ tick \/ UNCHANGED vars
    BY <1>13 DEF Exit, tick, vars, sig
  <1> QED
    BY <1>1, <1>2, <1>3, <1>4, <1>7, <1>8, <1>9, <1>10, <1>11, <1>12, <1>13 DEF Next

\* A pending SIGKILL leaves only into sig_terminate, whatever the program
\* passes to sigaction, sigprocmask, sigwait, sigsuspend and exec, from
\* however deeply nested handlers, for every set of signals with SIGKILL.
THEOREM KillTaken == Spec => KillStartsExit
  <1> DEFINE Inv == KillInv /\ Stacked(frames)
  <1>1. Init => Inv
    BY InitKill DEF Init, Stacked
  <1>2. Inv /\ [Next]_vars => Inv'
    <2> SUFFICES ASSUME Inv, [Next]_vars PROVE Inv'
      OBVIOUS
    <2>1. Stacked(frames)'
      BY CallsDeliver, ReturnStacked DEF Delivers
    <2> QED
      BY <2>1, StepKill
  <1>3. Inv /\ [Next]_vars =>
            [(SIGKILL \in pending /\ SIGKILL \notin pending') =>
                frames' # << >> /\ Last(frames').handler = "sig_terminate"]_vars
    BY CallsDeliver, ReturnDelivers DEF Delivers
  <1> QED
    BY <1>1, <1>2, <1>3, PTL DEF Spec, KillStartsExit
=============================================================================
