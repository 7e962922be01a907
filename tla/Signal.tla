------------------------------- MODULE Signal -------------------------------
(***************************************************************************)
(* The signals of one user process P (dispatch/signal.c): its mask, the    *)
(* pending set, handlers and the frames they run on, sigwait and           *)
(* sigsuspend, while other processes send it signals.                      *)
(*                                                                         *)
(* Slot 2 of the scheduler record is P, slot 1 stands for all the others.  *)
(* A sigset_t is the set of the signal numbers n whose bit n - 1 is set; a *)
(* bit of the mask that is SET lets the signal through.  29 stands for the *)
(* bits above the signal numbers.                                          *)
(***************************************************************************)
EXTENDS Sched, SequencesExt, FiniteSets

CONSTANTS Signals,     \* the signal numbers in use
          Calls,       \* the system calls the program of P makes
          Sets,        \* the sigset_t arguments it passes
          MaxFrames    \* bound: handlers running and waiting to run

SIGCHLD == 4
SIGSTOP == 27
SIGKILL == 28

ASSUME SignalsAssumption == Signals \subseteq 1..28 /\ SIGKILL \in Signals
ASSUME SetsAssumption == Sets \subseteq SUBSET (Signals \cup {29})

OTHERS == 1
P      == 2
Bits   == Signals \cup {29}

\* BIT(SIGKILL) | BIT(SIGSTOP), where BIT(n) is bit n: signal number n + 1.
SIG_NOIGNORE == {SIGKILL + 1, SIGSTOP + 1}

VARIABLES
    sched,       \* state, rc, ready_queue, current: see Sched
    pc,          \* "user", or the call P is inside of
    pending, mask, restore,      \* sig_struct; restore = {} is its zero
    actions,     \* signal -> [handler, sa_mask]
    frames,      \* the signal frames on P's stack, the innermost last
    waitset      \* the set the sigwait P is in waits for, {} outside of it

sig  == <<pending, mask, restore, actions, frames>>
vars == <<sched, pc, sig, waitset>>

fls(S) == CHOOSE n \in S : \A m \in S : m <= n

sig_default(n) == IF n \in {4, 5, 23} THEN "SIG_IGN" ELSE "sig_terminate"

sig_unblockable(n) == n \in {SIGKILL, SIGSTOP}

signal_accepted(n) == actions[n].handler # "SIG_IGN" /\ n \in mask

Init ==
    /\ sched = [state       |-> [p \in {OTHERS, P} |-> "READY"],
                rc          |-> [p \in {OTHERS, P} |-> 0],
                ready_queue |-> <<OTHERS>>,
                current     |-> P]
    /\ pc = "user"
    /\ pending = {} /\ mask = Bits /\ restore = {}
    /\ actions = [n \in Signals |-> [handler |-> sig_default(n), sa_mask |-> {}]]
    /\ frames = << >>
    /\ waitset = {}

-----------------------------------------------------------------------------
(* Sending *)

\* Mutant: a signal the process ignores is not made pending.
PendingAfterKill_NotIgnored(n) ==
    IF actions[n].handler = "SIG_IGN" THEN pending ELSE pending \cup {n}

PendingAfterKill(n) == pending \cup {n}

\* A pending signal may become a frame.  Signals may be sent without end, but
\* not so that the frames outgrow the bound.
InBound(n) == Len(frames) + Cardinality(pending \cup {n}) <= MaxFrames

\* __kill(P, n).
kill(n) ==
    /\ InBound(n)
    /\ pending' = PendingAfterKill(n)
    /\ sched' = IF needs_wake(sched, P, n = SIGCHLD, signal_accepted(n))
                THEN wake(sched, P, n) ELSE sched

\* sys_kill or sys_sigqueue of another process; a timer or an exception.
Send(n) ==
    /\ sched.current = OTHERS
    /\ sched.state[P] # "ZOMBIE"
    /\ kill(n)
    /\ UNCHANGED <<pc, mask, restore, actions, frames, waitset>>

-----------------------------------------------------------------------------
(* The way back to user mode *)

\* place_sig_frame and the mask of send_signal_user.  sm is the signal state
\* the system call leaves: pending, mask, restore, actions, frames.
DeliverTo(sm, n) ==
    /\ frames' = Append(sm.frames,
                    [handler |-> sm.actions[n].handler,
                     mask    |-> IF sm.restore # {} THEN sm.restore ELSE sm.mask])
    /\ restore' = {}
    /\ mask' = sm.mask \ sm.actions[n].sa_mask

\* Mutant: a signal that is ignored stays pending.
PendingAfterDelivery_IgnoredStays(sm, n) ==
    IF sm.actions[n].handler = "SIG_IGN" THEN sm.pending ELSE sm.pending \ {n}

PendingAfterDelivery(sm, n) == sm.pending \ {n}

\* handle_signal takes the highest signal that is let through.
return_to_user(sm) ==
    LET n == fls(sm.pending \cap sm.mask)
    IN
    /\ pc' = "user"
    /\ actions' = sm.actions
    /\ IF sm.pending \cap sm.mask = {}
       THEN /\ pending' = sm.pending
            /\ mask' = sm.mask /\ restore' = sm.restore /\ frames' = sm.frames
       ELSE /\ pending' = PendingAfterDelivery(sm, n)
            /\ IF sm.actions[n].handler = "SIG_IGN"
               THEN mask' = sm.mask /\ restore' = sm.restore /\ frames' = sm.frames
               ELSE DeliverTo(sm, n)

\* The signal state now, to change with EXCEPT.
Now == [pending |-> pending, mask |-> mask, restore |-> restore,
        actions |-> actions, frames |-> frames]

-----------------------------------------------------------------------------
(* What P does in user mode *)

InHandler(h) == frames # << >> /\ Last(frames).handler = h

\* P executes its own program, or a handler of it, and may make call c.
CanCall(c) ==
    /\ c \in Calls
    /\ sched.current = P /\ pc = "user"
    /\ ~InHandler("sig_terminate")

\* Mutant: the signal may be SIGKILL.
SigactionValid_Any(n) == TRUE

SigactionValid(n) == ~sig_unblockable(n)

NewHandler(n, handler) == IF handler = "SIG_DFL" THEN sig_default(n) ELSE handler

\* A signal is let through again when it is given a new action.
sys_sigaction(n, handler, sa_mask) ==
    /\ CanCall("sigaction")
    /\ SigactionValid(n)                                     \* else -EINVAL
    /\ return_to_user([Now EXCEPT
           !.actions[n] = [handler |-> NewHandler(n, handler), sa_mask |-> sa_mask],
           !.mask = @ \cup {n}])
    /\ UNCHANGED <<sched, waitset>>

ProcMask(how, set) ==
    CASE how = "SIG_BLOCK"   -> (mask \ set) \cup (SIG_NOIGNORE \cap Bits)
      [] how = "SIG_SETMASK" -> (Bits \ set) \cup (SIG_NOIGNORE \cap Bits)
      [] how = "SIG_UNBLOCK" -> mask \cup set

sys_sigprocmask(how, set) ==
    /\ CanCall("sigprocmask")
    /\ return_to_user([Now EXCEPT !.mask = ProcMask(how, set)])
    /\ UNCHANGED <<sched, waitset>>

\* Any call that leaves the signal state alone, one that fails included.
OtherCall ==
    /\ CanCall("other")
    /\ return_to_user(Now)
    /\ UNCHANGED <<sched, waitset>>

\* kill(getpid(), n), or an instruction that faults.
Raise(n) ==
    /\ CanCall("raise")
    /\ InBound(n)
    /\ return_to_user([Now EXCEPT !.pending = PendingAfterKill(n)])
    /\ UNCHANGED <<sched, waitset>>

\* exec succeeds: sig_exec, and a stack without signal frames.
Exec ==
    /\ CanCall("exec")
    /\ return_to_user([Now EXCEPT
           !.actions = [n \in Signals |->
                           IF actions[n].handler = "SIG_IGN" THEN actions[n]
                           ELSE [actions[n] EXCEPT !.handler = sig_default(n)]],
           !.frames = << >>])
    /\ UNCHANGED <<sched, waitset>>

\* The handler returns to the trampoline, which calls sigreturn: sig_restore.
SigReturn ==
    /\ sched.current = P /\ pc = "user"
    /\ InHandler("user")
    /\ return_to_user([Now EXCEPT !.mask = Last(frames).mask, !.frames = Front(frames)])
    /\ UNCHANGED <<sched, waitset>>

\* sig_terminate and sig_stop exit; a program may exit anywhere.
Exit ==
    /\ sched.current = P /\ pc = "user"
    /\ InHandler("sig_terminate") \/ "exit" \in Calls
    /\ sched' = schedule(zombie(sched, P))
    /\ UNCHANGED <<pc, sig, waitset>>

-----------------------------------------------------------------------------
(* Calls that sleep *)

Sleep(state, call) ==
    /\ sched' = schedule([sched EXCEPT !.state[P] = state])
    /\ pc' = call

\* sigwait returns n to the program.
WaitReturns(n) == return_to_user([Now EXCEPT !.pending = @ \ {n}])

\* Mutant: sigwait may be asked for any signal.
WaitSet_Any(arg) == arg

\* What sigwait waits for, of what it is asked for.
WaitSet(arg) == arg \ SIG_NOIGNORE

\* sys_sigwait up to its return or its first schedule().
sys_sigwait(arg) ==
    LET set == WaitSet(arg)
    IN
    /\ CanCall("sigwait")
    /\ \/ /\ pending \cap set # {}
          /\ WaitReturns(fls(pending \cap set))
          /\ UNCHANGED sched
          /\ waitset' = {}
       \/ /\ pending \cap set = {}
          /\ waitset' = set
          /\ Sleep("SIGWAIT", "sigwait")
          /\ UNCHANGED sig

\* The rest of the loop after schedule() returned the signal that woke P.
ResumeSigwait ==
    LET signo == sched.rc[P]
    IN
    /\ sched.current = P /\ pc = "sigwait"
    /\ \/ /\ signo \in waitset
          /\ WaitReturns(signo)
          /\ waitset' = {} /\ UNCHANGED sched
       \/ /\ signo \notin waitset /\ signal_accepted(signo)   \* -EINTR
          /\ return_to_user(Now)
          /\ waitset' = {} /\ UNCHANGED sched
       \/ /\ signo \notin waitset /\ ~signal_accepted(signo)
          /\ Sleep("SIGWAIT", "sigwait")
          /\ UNCHANGED <<sig, waitset>>

\* sys_sigsuspend up to its schedule().
sys_sigsuspend(arg) ==
    /\ CanCall("sigsuspend")
    /\ restore' = mask
    /\ mask' = (Bits \ arg) \cup (SIG_NOIGNORE \cap Bits)
    /\ Sleep("INTERRUPTIBLE", "sigsuspend")
    /\ UNCHANGED <<pending, actions, frames, waitset>>

\* sigsuspend has been woken, or P has been preempted: on to user mode.
ResumeToUser ==
    /\ sched.current = P /\ pc \in {"sigsuspend", "preempted"}
    /\ return_to_user(Now)
    /\ UNCHANGED <<sched, waitset>>

\* The timer interrupt: the next in the ready queue runs.
tick ==
    /\ sched.current = P => pc = "user"
    /\ sched' = schedule(ready(sched, sched.current))
    /\ pc' = IF sched.current = P THEN "preempted" ELSE pc
    /\ UNCHANGED <<sig, waitset>>

Handlers == {"SIG_IGN", "SIG_DFL", "user"}
Hows     == {"SIG_BLOCK", "SIG_SETMASK", "SIG_UNBLOCK"}

Next ==
    \/ \E n \in Signals : Send(n) \/ Raise(n)
    \/ \E n \in Signals, h \in Handlers, s \in Sets : sys_sigaction(n, h, s)
    \/ \E how \in Hows, s \in Sets : sys_sigprocmask(how, s)
    \/ \E s \in Sets : sys_sigwait(s) \/ sys_sigsuspend(s)
    \/ OtherCall
    \/ Exec
    \/ SigReturn
    \/ Exit
    \/ ResumeSigwait
    \/ ResumeToUser
    \/ tick

Spec == Init /\ [][Next]_vars

\* The timer interrupts and the kernel finishes what it resumes, whatever the
\* program does; in sig_terminate P needs to run only a few instructions.
FairSpec ==
    /\ Spec
    /\ WF_vars(tick) /\ WF_vars(ResumeSigwait) /\ WF_vars(ResumeToUser)
    /\ SF_vars(InHandler("sig_terminate") /\ Exit)

-----------------------------------------------------------------------------
(* Properties *)

Asleep == sched.state[P] \in {"SIGWAIT", "INTERRUPTIBLE"}

\* sigwait trusts the number schedule() returns: it hands it to the program
\* and clears that bit.  Between the wake-up and P's turn to run other signals
\* may come; still the signal that woke P is pending, and when it woke P from
\* sigsuspend it is one the suspend mask lets through and P handles.  Asleep, P
\* is in no queue; awake it is queued exactly once unless it runs, however many
\* signals are sent to it before it gets the CPU.
WokenBySignal ==
    /\ pc \in {"sigwait", "sigsuspend"} /\ ~Asleep =>
          /\ sched.rc[P] \in pending
          /\ pc = "sigsuspend" => signal_accepted(sched.rc[P])
    /\ sched.ready_queue =
          IF sched.current = P THEN <<OTHERS>>
          ELSE IF sched.state[P] = "READY" THEN <<P>> ELSE << >>

\* A SIGKILL that is pending stays so until it starts sig_terminate: no action
\* the program sets gives it to a handler or drops it, and sigwait never takes
\* it, although SIG_NOIGNORE, which should keep it out of the set, names its
\* bit only by an accident (BIT(SIGSTOP) is the bit of SIGKILL).
KillStartsExit ==
    [][(SIGKILL \in pending /\ SIGKILL \notin pending') =>
           frames' # << >> /\ Last(frames').handler = "sig_terminate"]_vars

\* sig_terminate, interrupted by a handler of the program.
HandlerOverExit ==
    InHandler("user") /\ \E i \in DOMAIN frames : frames[i].handler = "sig_terminate"

\* SIGKILL ends P: whatever actions and masks the program has set, in or out of
\* handlers and before or after exec, a SIGKILL that is pending and let through
\* leads to sig_terminate and from there to exit.  The code leaves two ways
\* around, and there is no third: P sleeps on with SIGKILL pending (sigsuspend,
\* and sigwait after another signal woke it, do not look at what is pending),
\* or a signal that comes after SIGKILL puts a handler of the program on top of
\* sig_terminate, which runs in user mode with nothing blocked.
KillEnds ==
    (SIGKILL \in pending \cap mask \/ InHandler("sig_terminate"))
        ~> \/ sched.state[P] = "ZOMBIE"
           \/ Asleep /\ SIGKILL \in pending
           \/ HandlerOverExit

HigherSent(n) == \E m \in Signals : m > n /\ (Send(m) \/ Raise(m))

\* Each way back to user mode delivers one signal, the highest.  The others
\* get their turn: a signal that is pending and let through is delivered (or
\* dropped because it is ignored) unless P blocks it, sleeps or exits first,
\* however many signals of its own or a lower number keep coming.  Only higher
\* ones that never cease to come can keep it waiting for ever.
DeliveredEventually ==
    \A n \in Signals :
        \/ []<><<HigherSent(n)>>_vars
        \/ n \in pending \cap mask
              ~> (n \notin pending \cap mask \/ Asleep \/ sched.state[P] = "ZOMBIE")

\* "signals which cannot be ignored by the user": the program cannot block
\* SIGSTOP with sigprocmask.
StopNotBlocked == SIGSTOP \in Signals => SIGSTOP \in mask

\* sigsuspend does not sleep on a signal that is already pending when its mask
\* lets it through.
SuspendSeesPending ==
    pc = "sigsuspend" /\ Asleep => \A n \in pending : ~signal_accepted(n)

\* sigwait does not sleep on a signal of its set that is pending.
SigwaitSeesPending == pc = "sigwait" /\ Asleep => pending \cap waitset = {}

\* sigsuspend ends when a handler runs: it returns on top of a new frame, with
\* the original mask saved in it.
SuspendEndsInHandler ==
    [][pc = "sigsuspend" /\ pc' = "user" => Len(frames') = Len(frames) + 1]_vars
=============================================================================
