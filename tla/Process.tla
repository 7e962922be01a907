------------------------------ MODULE Process -------------------------------
(***************************************************************************)
(* The process table: fork, exit, waitid, kill, yield and the timer tick   *)
(* (dispatch/process.c, kernel/schedule.c, the sending and delivering half *)
(* of dispatch/signal.c, kernel/entry.S).                                  *)
(*                                                                         *)
(* One CPU; every gate disables interrupts, so kernel code is atomic from  *)
(* one call of schedule() to the next.  A step is a system call or a timer *)
(* interrupt of the current process up to its return to user mode or its   *)
(* call of schedule(), or the continuation of a process that schedule()    *)
(* has just switched to.  Signals have their default action here and none  *)
(* is blocked; handlers and masks are the subject of module Signal.        *)
(*                                                                         *)
(* A pid is a pair <<slot, generation>> for the number                     *)
(* slot + PT_SIZE * generation: PT_SIZE is a power of two, so              *)
(* pid & PID_MASK is the slot and "pid += PT_SIZE" the next generation.    *)
(***************************************************************************)
EXTENDS List, Sched, Integers, SequencesExt

CONSTANTS NSlots,        \* PT_SIZE
          MaxGen,        \* bound: how often a slot's pid may be advanced
          Signals,       \* the signal numbers processes send
          WaitIds,       \* what waitid is asked to wait for
          WaitOptions,   \* the option sets waitid is given
          P_ALL          \* waitid for any child

ASSUME NSlotsAssumption == NSlots \in Nat /\ NSlots > 2
ASSUME SignalsAssumption == Signals \subseteq 1..28

SIGCHLD == 4
SIGKILL == 28

Slots == 0 .. NSlots - 1
Pids  == Slots \X (-1 .. MaxGen)
NoPcb == -1              \* a NULL struct pcb pointer

Kids(p)  == <<"children", p>>       \* &proctab[p].children
Child(p) == <<"child_chain", p>>    \* &proctab[p].child_chain
Nodes    == {"children", "child_chain"} \X Slots

VARIABLES
    sched,         \* state, rc, ready_queue, current (see Sched), and per slot
                   \*   pending  the pending signals
                   \*   pc       what the process does when it next runs
                   \*   dying    it is inside sig_terminate
    gen,           \* slot -> generation of its pid
    parent_pid,    \* slot -> pid
    children,      \* the list nodes of all pcbs
    child_stats,   \* slot -> queue of the pids whose exit status it holds
    wait_args,     \* slot -> arguments of the waitid it sleeps in
    panic          \* "no", or why the kernel stopped

vars == <<sched, gen, parent_pid, children, child_stats, wait_args, panic>>

pid(p) == <<p, gen[p]>>

get_pcb(id) ==
    IF id[1] \in Slots /\ sched.state[id[1]] # "DEAD" /\ gen[id[1]] = id[2]
    THEN id[1] ELSE NoPcb

-----------------------------------------------------------------------------
(* Signals with default actions. *)

sig_default(sig) == IF sig \in {4, 5, 23} THEN "SIG_IGN" ELSE "sig_terminate"

\* Mutant: wakes without asking needs_wake.
kill_AlwaysWakes(s, p, sig) == wake([s EXCEPT !.pending[p] = @ \cup {sig}], p, sig)

\* __kill: nothing is blocked here, so a signal is accepted unless ignored.
kill(s, p, sig) ==
    LET t == [s EXCEPT !.pending[p] = @ \cup {sig}]
    IN  IF needs_wake(s, p, sig = SIGCHLD, sig_default(sig) # "SIG_IGN")
        THEN wake(t, p, sig) ELSE t

fls(S) == CHOOSE n \in S : \A m \in S : m <= n

\* return_to_user: handle_signal delivers one signal, the highest numbered.
\* send_signal refuses a kernel process and leaves the signal pending.
return_to_user(s) ==
    LET p   == s.current
        sig == fls(s.pending[p])
        t   == [s EXCEPT !.pc[p] = "user"]
    IN  IF s.pending[p] = {} \/ p = IDLE THEN t
        ELSE [t EXCEPT !.pending[p] = @ \ {sig},
                       !.dying[p] = @ \/ sig_default(sig) = "sig_terminate"]

\* The current process gives up the CPU; pc says where it will go on.
leave(s, pc) == schedule([s EXCEPT !.pc[s.current] = pc])

-----------------------------------------------------------------------------
\* create_kernel_process makes idle in slot 0, then create_init makes init in
\* slot 1; sched_start takes the head of the queue, idle, to run first.
InitialSched ==
    [state       |-> [p \in Slots |-> IF p \in {IDLE, INIT} THEN "READY" ELSE "DEAD"],
     rc          |-> [p \in Slots |-> 0],
     ready_queue |-> <<INIT>>,
     current     |-> IDLE,
     pending     |-> [p \in Slots |-> {}],
     pc          |-> [p \in Slots |-> "new"],
     dying       |-> [p \in Slots |-> FALSE]]

\* Before a slot is first used its pid is i - PT_SIZE; slot 0 starts at 0.
InitialGen == [p \in Slots |-> IF p = IDLE THEN 1 ELSE IF p = INIT THEN 0 ELSE -1]

\* pcb_common_init of the two; the other pcbs hold no valid pointer yet.
InitialChildren ==
    LET nodes == [x \in Nodes |-> LIST_POISON]
    IN  INIT_LIST_HEAD(INIT_LIST_HEAD([next |-> nodes, prev |-> nodes], Kids(IDLE)), Kids(INIT))

Init ==
    /\ sched = InitialSched
    /\ gen = InitialGen
    /\ parent_pid = [p \in Slots |-> <<INIT, 0>>]
    /\ children = InitialChildren
    /\ child_stats = [p \in Slots |-> << >>]
    /\ wait_args = [p \in Slots |-> [id |-> P_ALL, options |-> {}]]
    /\ panic = "no"

\* The current process executes user instructions.
InUser == panic = "no" /\ sched.pc[sched.current] = "user"

\* It can make any system call: it is a user process outside sig_terminate.
CanCall == InUser /\ sched.current # IDLE /\ ~sched.dying[sched.current]

-----------------------------------------------------------------------------
\* get_free_pcb: the first dead slot.
FirstFree(c) ==
    sched.state[c] = "DEAD" /\ \A q \in 0 .. c - 1 : sched.state[q] # "DEAD"

\* pcb_clone, "p->pid += PT_SIZE"; mutant: every process of a slot has the
\* same pid.
NextGen_Same(c) == 0

NextGen(c) == gen[c] + 1

\* Mutant: the child's list of children is not initialised.
LinkChild_NoListInit(c, p) == list_add_tail(children, Child(c), Kids(p))

LinkChild(c, p) == list_add_tail(INIT_LIST_HEAD(children, Kids(c)), Child(c), Kids(p))

\* The child starts in user mode with its parent's registers, no pending
\* signal, no children and no statuses, at the tail of the ready queue.
ForkInto(c, p) ==
    /\ NextGen(c) <= MaxGen
    /\ gen' = [gen EXCEPT ![c] = NextGen(c)]
    /\ parent_pid' = [parent_pid EXCEPT ![c] = pid(p)]
    /\ children' = LinkChild(c, p)
    /\ child_stats' = [child_stats EXCEPT ![c] = << >>]
    /\ sched' = return_to_user(ready([sched EXCEPT !.pending[c] = {},
                                                   !.pc[c] = "new",
                                                   !.dying[c] = FALSE], c))

sys_fork ==
    /\ CanCall
    /\ \/ \E c \in Slots : FirstFree(c) /\ ForkInto(c, sched.current)
       \/ /\ \A c \in Slots : sched.state[c] # "DEAD"          \* -EAGAIN
          /\ sched' = return_to_user(sched)
          /\ UNCHANGED <<gen, parent_pid, children, child_stats>>
    /\ UNCHANGED <<wait_args, panic>>

sys_yield ==
    /\ CanCall
    /\ sched' = leave(ready(sched, sched.current), "yielded")
    /\ UNCHANGED <<gen, parent_pid, children, child_stats, wait_args, panic>>

\* The timer interrupt; timers themselves are in module KTimer.
tick ==
    /\ InUser
    /\ sched' = leave(ready(sched, sched.current), "yielded")
    /\ UNCHANGED <<gen, parent_pid, children, child_stats, wait_args, panic>>

sys_kill(id, sig) ==
    /\ CanCall
    /\ sched' = return_to_user(IF get_pcb(id) = NoPcb THEN sched
                               ELSE kill(sched, get_pcb(id), sig))
    /\ UNCHANGED <<gen, parent_pid, children, child_stats, wait_args, panic>>

-----------------------------------------------------------------------------
(* sys_exit, do_exit.  Until schedule() nothing else runs, so a panic on   *)
(* the way is the only thing of that step anybody sees.                    *)

\* report_status: queue p's status with its parent and send SIGCHLD.
StatsAfterReport(p) ==
    [child_stats EXCEPT ![get_pcb(parent_pid[p])] = Append(@, pid(p))]

\* Mutant: a status given to init stays in the list it was in.
StatsAfterExit_NoUnlink(p) ==
    LET r == StatsAfterReport(p)
    IN  IF p = INIT THEN r ELSE [r EXCEPT ![INIT] = @ \o r[p]]

\* do_exit hands the statuses p has not collected to init.  For init itself
\* that moves the only status it holds, its own, to the place it is in.
StatsAfterExit(p) ==
    LET r == StatsAfterReport(p)
    IN  IF p = INIT THEN r ELSE [r EXCEPT ![INIT] = @ \o r[p], ![p] = << >>]

\* Every status handed over sends SIGCHLD; after the first, sending it again
\* changes nothing.
SchedAfterExit(p) ==
    LET s == kill(sched, get_pcb(parent_pid[p]), SIGCHLD)
        t == IF StatsAfterReport(p)[p] = << >> THEN s ELSE kill(s, INIT, SIGCHLD)
    IN  schedule(zombie(t, p))

ExitPanic(p) ==
    IF get_pcb(parent_pid[p]) = NoPcb THEN "no parent"
    ELSE IF ~list_walk_ends(children, Kids(p)) THEN "bad list"
    ELSE IF get_pcb(<<INIT, 0>>) = NoPcb THEN "no init"
    \* with two statuses or more the loop that moves them never ends
    ELSE IF p = INIT /\ Len(StatsAfterReport(p)[p]) > 1 THEN "loop"
    ELSE "no"

sys_exit ==
    LET p == sched.current
    IN
    /\ InUser
    /\ p # IDLE
    /\ panic' = ExitPanic(p)
    /\ IF panic' = "no"
       THEN /\ parent_pid' = [q \in Slots |-> IF Child(q) \in list_nodes(children, Kids(p))
                                              THEN <<INIT, 0>> ELSE parent_pid[q]]
            /\ child_stats' = StatsAfterExit(p)
            /\ sched' = SchedAfterExit(p)
       ELSE UNCHANGED <<parent_pid, child_stats, sched>>
    /\ UNCHANGED <<gen, children, wait_args>>

-----------------------------------------------------------------------------
(* sys_waitid.  Every status is _WEXITED: do_exit is the only reporter.    *)

Matches(id, options, st) == (id = P_ALL \/ st = id) /\ "WEXITED" \in options

Matching(p, id, options) ==
    {i \in DOMAIN child_stats[p] : Matches(id, options, child_stats[p][i])}

\* get_status: the first one that matches.
get_status(p, id, options, i) ==
    i \in Matching(p, id, options) /\ \A j \in Matching(p, id, options) : i <= j

StatsAfterCollect(p, i) == [child_stats EXCEPT ![p] = RemoveAt(@, i)]

\* From "reap zombie" to the end; i is the place of the status.
CollectStatus(p, i) ==
    LET z == get_pcb(child_stats[p][i])
    IN  IF z = NoPcb
        THEN /\ panic' = "reap"
             /\ UNCHANGED <<sched, children, child_stats>>
        ELSE /\ children' = list_del(children, Child(z))
             /\ sched' = return_to_user(reap(sched, z))
             /\ child_stats' = StatsAfterCollect(p, i)
             /\ UNCHANGED panic

\* One turn of the for (;;) loop.
WaitLoop(p, id, options) ==
    \/ /\ \E i \in DOMAIN child_stats[p] :
              get_status(p, id, options, i) /\ CollectStatus(p, i)
       /\ UNCHANGED wait_args
    \/ /\ Matching(p, id, options) = {}
       /\ "WNOHANG" \in options
       /\ sched' = return_to_user(sched)
       /\ UNCHANGED <<children, child_stats, wait_args, panic>>
    \/ /\ Matching(p, id, options) = {}
       /\ "WNOHANG" \notin options
       /\ wait_args' = [wait_args EXCEPT ![p] = [id |-> id, options |-> options]]
       /\ sched' = leave([sched EXCEPT !.state[p] = "WAITING"], "waiting")
       /\ UNCHANGED <<children, child_stats, panic>>

\* bad_infop: infop is no writable user memory (-EFAULT).  -ECHILD is decided
\* by the list of children alone.
sys_waitid(id, options, bad_infop) ==
    LET p == sched.current
    IN
    /\ CanCall
    /\ \/ /\ bad_infop \/ list_empty(children, Kids(p))
          /\ sched' = return_to_user(sched)
          /\ UNCHANGED <<children, child_stats, wait_args, panic>>
       \/ /\ ~bad_infop /\ ~list_empty(children, Kids(p))
          /\ WaitLoop(p, id, options)
    /\ UNCHANGED <<gen, parent_pid>>

\* waitid goes on after schedule(): -EINTR unless SIGCHLD woke it.  (si_code
\* is only ever written for a handler with SA_SIGINFO, so signal_from_user is
\* false here.)
ResumeWaitid ==
    LET p == sched.current
    IN
    /\ panic = "no"
    /\ sched.pc[p] = "waiting"
    /\ \/ /\ sched.rc[p] # SIGCHLD
          /\ sched' = return_to_user(sched)
          /\ UNCHANGED <<children, child_stats, wait_args, panic>>
       \/ /\ sched.rc[p] = SIGCHLD
          /\ WaitLoop(p, wait_args[p].id, wait_args[p].options)
    /\ UNCHANGED <<gen, parent_pid>>

\* yield and tick return through handle_signal; a process that has never run
\* goes straight to user mode.
ResumeUser ==
    /\ panic = "no"
    /\ \/ /\ sched.pc[sched.current] = "yielded"
          /\ sched' = return_to_user(sched)
       \/ /\ sched.pc[sched.current] = "new"
          /\ sched' = [sched EXCEPT !.pc[sched.current] = "user"]
    /\ UNCHANGED <<gen, parent_pid, children, child_stats, wait_args, panic>>

\* panic() never returns.
Halted == panic # "no" /\ UNCHANGED vars

Next ==
    \/ sys_fork
    \/ sys_exit
    \/ sys_yield
    \/ tick
    \/ \E id \in Pids, sig \in Signals : sys_kill(id, sig)
    \/ \E id \in WaitIds, options \in WaitOptions, bad_infop \in BOOLEAN :
           sys_waitid(id, options, bad_infop)
    \/ ResumeWaitid
    \/ ResumeUser
    \/ Halted

Spec == Init /\ [][Next]_vars

\* What keeps running whatever user programs do: the timer interrupts, the
\* kernel finishes what it resumes, and a process in sig_terminate that gets
\* the CPU again and again executes the few instructions to its exit.
Fairness ==
    /\ WF_vars(tick)
    /\ WF_vars(ResumeUser)
    /\ WF_vars(ResumeWaitid)
    /\ \A p \in Slots : SF_vars(sched.current = p /\ sched.dying[p] /\ sys_exit)

FairSpec == Spec /\ Fairness

-----------------------------------------------------------------------------
(* Properties *)

States == {"READY", "WAITING", "ZOMBIE", "DEAD"}

SchedType ==
    [state : [Slots -> States], rc : [Slots -> Nat],
     ready_queue : Seq(Slots), current : Slots,
     pending : [Slots -> SUBSET Nat],
     pc : [Slots -> {"new", "user", "yielded", "waiting"}],
     dying : [Slots -> BOOLEAN]]

\* The shape of the state.
TypeOK ==
    /\ sched \in SchedType
    /\ gen \in [Slots -> Int]
    /\ parent_pid \in [Slots -> Slots \X Int]
    /\ children \in [next : [Nodes -> Nodes \cup {LIST_POISON}],
                     prev : [Nodes -> Nodes \cup {LIST_POISON}]]
    /\ child_stats \in [Slots -> Seq(Slots \X Int)]
    /\ wait_args \in [Slots -> [id : WaitIds \cup {P_ALL}, options : WaitOptions \cup {{}}]]
    /\ panic \in {"no", "no parent", "bad list", "no init", "loop", "reap"}

Queued(s, p) == Contains(s.ready_queue, p)

NoDuplicates(seq) == \A i, j \in DOMAIN seq : seq[i] = seq[j] => i = j

\* ready() adds a pcb to the ready queue without looking whether it is there:
\* linking it twice would cut the queue.  No sequence of forks, exits, waits,
\* signals and ticks does: the queue holds each process at most once, it holds
\* exactly the READY ones other than current, and it is never empty when
\* schedule() takes its head, because idle is queued whenever it does not run.
ReadyQueueSound ==
    /\ NoDuplicates(sched.ready_queue)
    /\ \A p \in Slots : Queued(sched, p) <=> sched.state[p] = "READY" /\ p # sched.current
    /\ sched.state[sched.current] = "READY"
    /\ sched.state[IDLE] = "READY"

Zombies == {pid(p) : p \in {q \in Slots : sched.state[q] = "ZOMBIE"}}

\* Every exit status that some process holds names a zombie by its pid, and no
\* zombie has two: waitid never finds its child gone ("Tried to reap
\* non-existant child") and never frees a slot twice, whichever way statuses
\* were handed on when their holder exited.
StatusNamesZombie ==
    \A p, q \in Slots : \A i \in DOMAIN child_stats[p], j \in DOMAIN child_stats[q] :
        /\ child_stats[p][i] \in Zombies
        /\ child_stats[p][i] = child_stats[q][j] => p = q /\ i = j

\* waitid sets PROC_WAITING after it looked for a status; __kill wakes before
\* the status can be missed.  A process asleep in waitid holds no status it
\* waits for.
NoMissedStatus ==
    \A p \in Slots : sched.state[p] = "WAITING" =>
        Matching(p, wait_args[p].id, wait_args[p].options) = {}

\* init is never freed, so do_exit always finds it, and waitid always finds
\* the zombie of a status.
NoReapPanic == panic \notin {"reap", "no init"}

\* do_exit can always walk its list of children to the end.  Orphans stay
\* linked in the list of a pcb that is freed, initialised again and given
\* children of its own; when init reaps them, list_del writes through those
\* links into the new owner's list.  That may drop a child (NoParentPanic), but
\* it never leads a walk out of the list or into a circle without the head.
ChildrenWalkable == panic # "bad list"

\* A pid that named a process and does not any more never names one again, so
\* a kill cannot reach a later occupant of the slot.
StalePidStaysStale ==
    [][\A id \in Pids : get_pcb(id) = NoPcb /\ id[2] <= gen[id[1]] => get_pcb(id)' = NoPcb]_vars

\* Round robin: a queued process gets the CPU (or the kernel has stopped).
QueuedRuns ==
    \A p \in Slots \ {IDLE} :
        Queued(sched, p) ~> (sched.current = p \/ panic # "no")

\* Asleep in waitid with SIGKILL pending, after SIGCHLD woke it.
SleepsOnKill(p) ==
    sched.state[p] = "WAITING" /\ SIGKILL \in sched.pending[p] /\ sched.rc[p] = SIGCHLD

\* A user process that was sent SIGKILL exits, whether it runs, is queued, has
\* never run or sleeps in waitid, unless SIGKILL comes between a SIGCHLD that
\* wakes waitid and its turn to run.  Then schedule() returns SIGCHLD, waitid
\* looks only for a status and, when there is none for it (it waits for another
\* child), sleeps again with SIGKILL pending; the next signal that wakes it
\* ends it.  That is the only way.
KilledExits ==
    \A p \in Slots \ {IDLE} :
        SIGKILL \in sched.pending[p] /\ sched.state[p] \notin {"ZOMBIE", "DEAD"}
            ~> (sched.state[p] = "ZOMBIE" \/ SleepsOnKill(p) \/ panic # "no")

\* report_status: "Process %d has no parent" cannot happen.
NoParentPanic == panic # "no parent"

\* A live process that holds a status can collect it: waitid does not say
\* -ECHILD.
HolderCanCollect ==
    \A p \in Slots :
        sched.state[p] \in {"READY", "WAITING"} /\ child_stats[p] # << >>
            => ~list_empty(children, Kids(p))
=============================================================================
