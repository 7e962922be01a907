--------------------------- MODULE ProcessProofs ----------------------------
(***************************************************************************)
(* Proofs about module Process, for every size of the process table, every *)
(* set of signals and every bound on pids.                                 *)
(***************************************************************************)
EXTENDS Process, TLAPS

-----------------------------------------------------------------------------
(* Sequences, element by element. *)

\* Append adds one element behind the others (list_add_tail on a queue).
LEMMA AppendFacts ==
    ASSUME NEW S, NEW seq \in Seq(S), NEW e \in S
    PROVE  /\ Append(seq, e) \in Seq(S)
           /\ Len(Append(seq, e)) = Len(seq) + 1
           /\ DOMAIN Append(seq, e) = 1..(Len(seq) + 1)
           /\ \A i \in 1..Len(seq) : Append(seq, e)[i] = seq[i]
           /\ Append(seq, e)[Len(seq) + 1] = e
  OBVIOUS

\* Head and Tail split off the first element (list_dequeue).
LEMMA TailFacts ==
    ASSUME NEW S, NEW seq \in Seq(S), seq # << >>
    PROVE  /\ Head(seq) \in S
           /\ Head(seq) = seq[1]
           /\ Tail(seq) \in Seq(S)
           /\ Len(Tail(seq)) = Len(seq) - 1
           /\ \A i \in 1..Len(seq) - 1 : Tail(seq)[i] = seq[i + 1]
  OBVIOUS

\* The head of a queue that is not empty is in it.
LEMMA HeadContained ==
    ASSUME NEW S, NEW seq \in Seq(S), seq # << >>
    PROVE  Contains(seq, Head(seq))
  <1>1. 1 \in 1..Len(seq) /\ seq[1] = Head(seq)
    OBVIOUS
  <1> QED
    BY <1>1 DEF Contains

\* Concatenation, element by element: the statuses do_exit hands to init.
LEMMA ConcatFacts ==
    ASSUME NEW S, NEW a \in Seq(S), NEW b \in Seq(S)
    PROVE  /\ a \o b \in Seq(S)
           /\ Len(a \o b) = Len(a) + Len(b)
           /\ \A i \in 1..Len(a) + Len(b) :
                 (a \o b)[i] = IF i <= Len(a) THEN a[i] ELSE b[i - Len(a)]
  OBVIOUS

\* RemoveAt closes the gap (list_del of one status).
LEMMA RemoveAtFacts ==
    ASSUME NEW S, NEW seq \in Seq(S), NEW k \in 1..Len(seq)
    PROVE  /\ RemoveAt(seq, k) \in Seq(S)
           /\ Len(RemoveAt(seq, k)) = Len(seq) - 1
           /\ \A i \in 1..Len(seq) - 1 :
                 RemoveAt(seq, k)[i] = IF i < k THEN seq[i] ELSE seq[i + 1]
  <1> DEFINE a == SubSeq(seq, 1, k - 1)
             b == SubSeq(seq, k + 1, Len(seq))
  <1>1. /\ a \in Seq(S) /\ Len(a) = k - 1
        /\ \A i \in 1..k - 1 : a[i] = seq[i]
    OBVIOUS
  <1>2. /\ b \in Seq(S) /\ Len(b) = Len(seq) - k
        /\ \A i \in 1..Len(seq) - k : b[i] = seq[k + i]
    OBVIOUS
  <1>3. RemoveAt(seq, k) = a \o b
    BY DEF RemoveAt
  <1> HIDE DEF a, b
  <1>4. /\ a \o b \in Seq(S)
        /\ Len(a \o b) = Len(a) + Len(b)
        /\ \A i \in 1..Len(a) + Len(b) :
              (a \o b)[i] = IF i <= Len(a) THEN a[i] ELSE b[i - Len(a)]
    BY <1>1, <1>2, ConcatFacts
  <1>5. \A i \in 1..Len(seq) - 1 : (a \o b)[i] = IF i < k THEN seq[i] ELSE seq[i + 1]
    <2> TAKE i \in 1..Len(seq) - 1
    <2>1. CASE i < k
      BY <1>1, <1>2, <1>4, <2>1
    <2>2. CASE ~(i < k)
      <3>1. /\ i - (k - 1) \in 1..Len(seq) - k
            /\ k + (i - (k - 1)) = i + 1
            /\ i - Len(a) = i - (k - 1)
            /\ ~(i <= Len(a))
            /\ i \in 1..Len(a) + Len(b)
        BY <1>1, <1>2, <2>2
      <3>2. (a \o b)[i] = b[i - (k - 1)]
        BY <1>4, <3>1
      <3>3. b[i - (k - 1)] = seq[i + 1]
        BY <1>2, <3>1
      <3> QED
        BY <2>2, <3>2, <3>3
    <2> QED
      BY <2>1, <2>2
  <1> QED
    BY <1>1, <1>2, <1>3, <1>4, <1>5

-----------------------------------------------------------------------------
(* The scheduler.  Sound(s) is ReadyQueueSound for a record s.  Between    *)
(* ready(current), zombie(current) or PROC_WAITING and the switch, the     *)
(* queue holds all READY processes: Unscheduled(s).                        *)

Sound(s) ==
    /\ NoDuplicates(s.ready_queue)
    /\ \A p \in Slots : Queued(s, p) <=> s.state[p] = "READY" /\ p # s.current
    /\ s.state[s.current] = "READY"
    /\ s.state[IDLE] = "READY"

Unscheduled(s) ==
    /\ NoDuplicates(s.ready_queue)
    /\ \A p \in Slots : Queued(s, p) <=> s.state[p] = "READY"
    /\ s.state[IDLE] = "READY"

\* idle and init have slots of their own, and NULL is no slot.
LEMMA SlotFacts ==
    /\ IDLE \in Slots
    /\ INIT \in Slots
    /\ IDLE # INIT
    /\ NoPcb \notin Slots
  BY NSlotsAssumption DEF IDLE, INIT, Slots, NoPcb

\* Appending a process that is not queued keeps the queue free of duplicates
\* and adds just that process.
LEMMA EnqueueSound ==
    ASSUME NEW seq \in Seq(Slots), NEW p \in Slots,
           NoDuplicates(seq), ~Contains(seq, p)
    PROVE  /\ NoDuplicates(Append(seq, p))
           /\ \A q \in Slots : Contains(Append(seq, p), q) <=> Contains(seq, q) \/ q = p
  <1>1. /\ DOMAIN Append(seq, p) = 1..(Len(seq) + 1)
        /\ Len(Append(seq, p)) = Len(seq) + 1
        /\ \A i \in 1..Len(seq) : Append(seq, p)[i] = seq[i]
        /\ Append(seq, p)[Len(seq) + 1] = p
    BY AppendFacts
  <1>2. DOMAIN seq = 1..Len(seq) /\ Len(seq) \in Nat
    OBVIOUS
  <1> QED
    BY <1>1, <1>2 DEF NoDuplicates, Contains

\* ready() keeps the shape of the scheduler's state.
LEMMA ReadyType ==
    ASSUME NEW s \in SchedType, NEW p \in Slots
    PROVE  ready(s, p) \in SchedType
  BY AppendFacts DEF ready, SchedType, States

\* Queueing the running process, as sys_yield and tick do, leaves a queue of
\* all READY processes: what schedule() starts from.
LEMMA ReadyCurrent ==
    ASSUME NEW s \in SchedType, Sound(s)
    PROVE  Unscheduled(ready(s, s.current))
  <1>1. s.current \in Slots /\ s.ready_queue \in Seq(Slots)
    BY DEF SchedType
  <1>2. /\ ready(s, s.current).ready_queue = Append(s.ready_queue, s.current)
        /\ ready(s, s.current).state = [s.state EXCEPT ![s.current] = "READY"]
        /\ s.state \in [Slots -> States]
    BY DEF ready, SchedType
  <1>3. ~Contains(s.ready_queue, s.current) /\ NoDuplicates(s.ready_queue)
    BY <1>1 DEF Sound, Queued
  <1>4. /\ NoDuplicates(Append(s.ready_queue, s.current))
        /\ \A q \in Slots : Contains(Append(s.ready_queue, s.current), q)
                                <=> Contains(s.ready_queue, q) \/ q = s.current
    BY <1>1, <1>3, EnqueueSound
  <1> QED
    BY <1>1, <1>2, <1>4, SlotFacts DEF Sound, Unscheduled, Queued

\* The queue without its head.
LEMMA DequeueSound ==
    ASSUME NEW seq \in Seq(Slots), seq # << >>, NoDuplicates(seq)
    PROVE  /\ NoDuplicates(Tail(seq))
           /\ \A q \in Slots :
                 Contains(Tail(seq), q) <=> Contains(seq, q) /\ q # Head(seq)
  <1>1. /\ Head(seq) \in Slots
        /\ Head(seq) = seq[1]
        /\ Tail(seq) \in Seq(Slots)
        /\ Len(Tail(seq)) = Len(seq) - 1
        /\ \A i \in 1..Len(seq) - 1 : Tail(seq)[i] = seq[i + 1]
    BY TailFacts
  <1>2. /\ DOMAIN seq = 1..Len(seq) /\ Len(seq) \in Nat /\ Len(seq) > 0
        /\ DOMAIN Tail(seq) = 1..Len(seq) - 1
    BY <1>1
  <1>3. NoDuplicates(Tail(seq))
    <2> SUFFICES ASSUME NEW i \in 1..Len(seq) - 1, NEW j \in 1..Len(seq) - 1,
                        Tail(seq)[i] = Tail(seq)[j]
                 PROVE  i = j
      BY <1>2 DEF NoDuplicates
    <2>1. seq[i + 1] = seq[j + 1] /\ i + 1 \in DOMAIN seq /\ j + 1 \in DOMAIN seq
      BY <1>1, <1>2
    <2>2. i + 1 = j + 1
      BY <2>1 DEF NoDuplicates
    <2> QED
      BY <2>2
  <1>4. ASSUME NEW q \in Slots, NEW i \in DOMAIN Tail(seq), Tail(seq)[i] = q
        PROVE  (\E j \in DOMAIN seq : seq[j] = q) /\ q # Head(seq)
    <2>1. i + 1 \in DOMAIN seq /\ seq[i + 1] = q /\ i + 1 # 1 /\ 1 \in DOMAIN seq
      BY <1>1, <1>2, <1>4
    <2> QED
      BY <1>1, <2>1 DEF NoDuplicates
  <1>5. ASSUME NEW q \in Slots, NEW j \in DOMAIN seq, seq[j] = q, q # Head(seq)
        PROVE  \E i \in DOMAIN Tail(seq) : Tail(seq)[i] = q
    <2>1. j - 1 \in 1..Len(seq) - 1 /\ (j - 1) + 1 = j
      BY <1>1, <1>2, <1>5
    <2>2. Tail(seq)[j - 1] = q
      BY <1>1, <1>5, <2>1
    <2> QED
      BY <1>2, <2>1, <2>2
  <1> QED
    BY <1>1, <1>2, <1>3, <1>4, <1>5 DEF Contains

\* The switch: current is a READY process taken out of the queue; nobody's
\* state changes.
LEMMA ScheduleSound ==
    ASSUME NEW s \in SchedType, Unscheduled(s)
    PROVE  /\ schedule(s) \in SchedType
           /\ Sound(schedule(s))
           /\ schedule(s).state = s.state
           /\ schedule(s).pc = s.pc
  <1> DEFINE rq == s.ready_queue
             p == Head(rq)
             rest == Tail(rq)
  <1>1. /\ rq \in Seq(Slots)
        /\ s.state \in [Slots -> States]
        /\ NoDuplicates(rq)
        /\ \A q \in Slots : Contains(rq, q) <=> s.state[q] = "READY"
        /\ s.state[IDLE] = "READY"
    BY DEF SchedType, Unscheduled, Queued
  <1>2. rq # << >>
    BY <1>1, SlotFacts DEF Contains
  <1>3. p \in Slots /\ rest \in Seq(Slots) /\ p = rq[1]
    BY <1>1, <1>2, TailFacts
  <1>4. /\ NoDuplicates(rest)
        /\ \A q \in Slots : Contains(rest, q) <=> s.state[q] = "READY" /\ q # p
    BY <1>1, <1>2, DequeueSound
  <1>5. s.state[p] = "READY"
    BY <1>1, <1>2, <1>3, HeadContained
  <1>6. CASE p = IDLE /\ rest # << >>
    <2> DEFINE next == Head(rest)
               r2 == Tail(rest)
               u == [s EXCEPT !.state[p] = "READY",
                              !.ready_queue = Append(r2, p),
                              !.current = next]
    <2>1. next \in Slots /\ r2 \in Seq(Slots) /\ next = rest[1]
      BY <1>3, <1>6, TailFacts
    <2>2. /\ NoDuplicates(r2)
          /\ \A q \in Slots : Contains(r2, q) <=> s.state[q] = "READY" /\ q # p /\ q # next
      BY <1>3, <1>4, <1>6, DequeueSound
    <2>3. s.state[next] = "READY" /\ next # p
      <3>1. Contains(rest, next)
        BY <1>3, <1>6, HeadContained
      <3> QED
        BY <1>4, <2>1, <3>1
    <2>4. /\ Append(r2, p) \in Seq(Slots)
          /\ NoDuplicates(Append(r2, p))
          /\ \A q \in Slots : Contains(Append(r2, p), q) <=> Contains(r2, q) \/ q = p
      BY <1>3, <2>1, <2>2, AppendFacts, EnqueueSound
    <2>5. [s.state EXCEPT ![p] = "READY"] = s.state
      BY <1>1, <1>3, <1>5
    <2>6. schedule(s) = u
      BY <1>6 DEF schedule
    <2>7. /\ u.ready_queue = Append(r2, p) /\ u.current = next
          /\ u.state = s.state /\ u.pc = s.pc
      BY <2>5 DEF SchedType
    <2>8. u \in SchedType
      BY <1>1, <1>3, <2>1, <2>4, <2>5 DEF SchedType, States
    <2> HIDE DEF u, r2, next, rest, p
    <2>9. Sound(u)
      BY <1>1, <1>5, <2>2, <2>3, <2>4, <2>7 DEF Sound, Queued
    <2> QED
      BY <2>6, <2>7, <2>8, <2>9
  <1>7. CASE ~(p = IDLE /\ rest # << >>)
    <2> DEFINE u == [s EXCEPT !.ready_queue = rest, !.current = p]
    <2>1. schedule(s) = u
      BY <1>7 DEF schedule
    <2>2. u.ready_queue = rest /\ u.current = p /\ u.state = s.state /\ u.pc = s.pc
      BY DEF SchedType
    <2>3. u \in SchedType
      BY <1>3 DEF SchedType
    <2>4. Sound(u)
      BY <1>1, <1>4, <1>5, <2>2 DEF Sound, Queued
    <2> QED
      BY <2>1, <2>2, <2>3, <2>4
  <1> QED
    BY <1>6, <1>7

\* __kill keeps the queue sound.  It changes the state of at most its target,
\* from WAITING to READY, and SIGCHLD always does.
LEMMA KillSound ==
    ASSUME NEW s \in SchedType, Sound(s), NEW p \in Slots, NEW sig \in Nat
    PROVE  LET t == kill(s, p, sig)
           IN  /\ t \in SchedType
               /\ Sound(t)
               /\ t.current = s.current
               /\ t.pc = s.pc
               /\ \A q \in Slots : \/ t.state[q] = s.state[q]
                                   \/ s.state[q] = "WAITING" /\ t.state[q] = "READY"
               /\ sig = SIGCHLD => t.state[p] # "WAITING"
  <1> DEFINE m == [s EXCEPT !.pending[p] = @ \cup {sig}]
             w == wake(m, p, sig)
  <1>1. /\ m \in SchedType
        /\ m.state = s.state /\ m.ready_queue = s.ready_queue
        /\ m.current = s.current /\ m.pc = s.pc
    BY DEF SchedType
  <1>2. Sound(m)
    BY <1>1 DEF Sound, Queued
  <1>3. CASE s.state[p] = "WAITING"
    <2>1. /\ w \in SchedType
          /\ w.state = [m.state EXCEPT ![p] = "READY"]
          /\ w.ready_queue = Append(m.ready_queue, p)
          /\ w.current = m.current /\ w.pc = m.pc
      <3> HIDE DEF m
      <3>1. [m EXCEPT !.rc[p] = sig] \in SchedType
        BY <1>1 DEF SchedType
      <3>2. w \in SchedType
        BY <3>1, ReadyType DEF wake
      <3>3. /\ w.state = [m.state EXCEPT ![p] = "READY"]
            /\ w.ready_queue = Append(m.ready_queue, p)
            /\ w.current = m.current /\ w.pc = m.pc
        BY <1>1 DEF wake, ready, SchedType
      <3> QED
        BY <3>2, <3>3
    <2> HIDE DEF m, w
    <2>2. m.ready_queue \in Seq(Slots) /\ m.state \in [Slots -> States] /\ m.current \in Slots
      BY <1>1 DEF SchedType
    <2>3. /\ NoDuplicates(m.ready_queue) /\ ~Contains(m.ready_queue, p) /\ p # m.current
      BY <1>1, <1>2, <1>3 DEF Sound, Queued
    <2>4. /\ NoDuplicates(Append(m.ready_queue, p))
          /\ \A q \in Slots : Contains(Append(m.ready_queue, p), q)
                                  <=> Contains(m.ready_queue, q) \/ q = p
      BY <2>2, <2>3, EnqueueSound
    <2>5. Sound(w)
      BY <1>2, <2>1, <2>2, <2>3, <2>4, SlotFacts DEF Sound, Queued
    <2>6. \A q \in Slots : \/ w.state[q] = s.state[q]
                           \/ s.state[q] = "WAITING" /\ w.state[q] = "READY"
      BY <1>1, <1>3, <2>1, <2>2
    <2>7. w.state[p] = "READY"
      BY <2>1, <2>2
    <2>8. sig = SIGCHLD => kill(s, p, sig) = w
      BY <1>3 DEF kill, needs_wake, m, w
    <2>9. kill(s, p, sig) = w \/ kill(s, p, sig) = m
      BY DEF kill, m, w
    <2> QED
      BY <1>1, <1>2, <2>1, <2>5, <2>6, <2>7, <2>8, <2>9
  <1>4. CASE s.state[p] # "WAITING"
    <2>1. s.state[p] \in {"READY", "ZOMBIE", "DEAD"}
      BY <1>4 DEF SchedType, States
    <2>2. kill(s, p, sig) = m
      BY <2>1 DEF kill, needs_wake
    <2> QED
      BY <1>1, <1>2, <1>4, <2>2
  <1> QED
    BY <1>3, <1>4

\* Delivering a signal changes neither the queue nor anybody's state.
LEMMA ReturnSound ==
    ASSUME NEW s \in SchedType, Sound(s)
    PROVE  LET t == return_to_user(s)
           IN  /\ t \in SchedType
               /\ Sound(t)
               /\ t.state = s.state
               /\ \A q \in Slots : t.pc[q] # s.pc[q] => t.pc[q] = "user"
  <1> DEFINE p == s.current
             sig == fls(s.pending[p])
             t == [s EXCEPT !.pc[p] = "user"]
             u == [t EXCEPT !.pending[p] = @ \ {sig},
                            !.dying[p] = @ \/ sig_default(sig) = "sig_terminate"]
  <1>1. return_to_user(s) = t \/ return_to_user(s) = u
    BY DEF return_to_user
  <1>2. p \in Slots
    BY DEF SchedType
  <1>3. /\ t \in SchedType
        /\ t.state = s.state /\ t.ready_queue = s.ready_queue /\ t.current = s.current
        /\ t.pc = [s.pc EXCEPT ![p] = "user"]
    BY <1>2 DEF SchedType
  <1>4. /\ u \in SchedType
        /\ u.state = s.state /\ u.ready_queue = s.ready_queue /\ u.current = s.current
        /\ u.pc = [s.pc EXCEPT ![p] = "user"]
    <2> HIDE DEF t, sig
    <2>1. (t.dying[p] \/ sig_default(sig) = "sig_terminate") \in BOOLEAN
      BY Zenon
    <2> QED
      BY <1>2, <1>3, <2>1 DEF SchedType
  <1>5. s.pc \in [Slots -> {"new", "user", "yielded", "waiting"}]
    BY DEF SchedType
  <1> HIDE DEF t, u, p
  <1>6. Sound(t) /\ Sound(u)
    BY <1>3, <1>4 DEF Sound, Queued
  <1> QED
    BY <1>1, <1>2, <1>3, <1>4, <1>5, <1>6

-----------------------------------------------------------------------------
(* The statuses.  Z stands for the pids of the zombies.                    *)

StatsType == [Slots -> Seq(Slots \X Int)]

StatsOK(stats, Z) ==
    \A p, q \in Slots : \A i \in DOMAIN stats[p], j \in DOMAIN stats[q] :
        /\ stats[p][i] \in Z
        /\ stats[p][i] = stats[q][j] => p = q /\ i = j
        /\ stats[p][i] = <<INIT, 0>> => p = INIT

\* report_status: the pid of a process that was no zombie.
LEMMA StatsAppend ==
    ASSUME NEW stats \in StatsType, NEW Z, StatsOK(stats, Z),
           NEW par \in Slots, NEW id \in Slots \X Int, id \notin Z,
           id = <<INIT, 0>> => par = INIT
    PROVE  /\ [stats EXCEPT ![par] = Append(@, id)] \in StatsType
           /\ StatsOK([stats EXCEPT ![par] = Append(@, id)], Z \cup {id})
  <1> DEFINE new == [stats EXCEPT ![par] = Append(@, id)]
  <1>1. stats[par] \in Seq(Slots \X Int)
    BY DEF StatsType
  <1>2. /\ Append(stats[par], id) \in Seq(Slots \X Int)
        /\ DOMAIN Append(stats[par], id) = 1..(Len(stats[par]) + 1)
        /\ \A i \in 1..Len(stats[par]) : Append(stats[par], id)[i] = stats[par][i]
        /\ Append(stats[par], id)[Len(stats[par]) + 1] = id
    BY <1>1, AppendFacts
  <1>3. new \in StatsType
    BY <1>2 DEF StatsType
  <1>4. /\ new[par] = Append(stats[par], id)
        /\ \A p \in Slots \ {par} : new[p] = stats[p]
    BY DEF StatsType
  <1>5. DOMAIN stats[par] = 1..Len(stats[par]) /\ Len(stats[par]) \in Nat
    BY <1>1
  <1> HIDE DEF new
  <1>6. ASSUME NEW p \in Slots, NEW i \in DOMAIN new[p]
        PROVE  \/ i \in DOMAIN stats[p] /\ new[p][i] = stats[p][i]
               \/ p = par /\ i = Len(stats[par]) + 1 /\ new[p][i] = id
    <2>1. CASE p = par
      <3>1. i \in 1..Len(stats[par]) \/ i = Len(stats[par]) + 1
        BY <1>2, <1>4, <1>5, <2>1
      <3> QED
        BY <1>2, <1>4, <1>5, <2>1, <3>1
    <2> QED
      BY <1>4, <2>1
  <1>7. \A p \in Slots : \A i \in DOMAIN stats[p] : stats[p][i] # id
    BY DEF StatsOK
  <1> QED
    BY <1>3, <1>6, <1>7 DEF StatsOK, new

\* do_exit: p's statuses go to init.
LEMMA StatsMove ==
    ASSUME NEW stats \in StatsType, NEW Z, StatsOK(stats, Z),
           NEW p \in Slots, p # INIT
    PROVE  LET new == [stats EXCEPT ![INIT] = @ \o stats[p], ![p] = << >>]
           IN  new \in StatsType /\ StatsOK(new, Z)
  <1> DEFINE a == stats[INIT]
             b == stats[p]
             new == [stats EXCEPT ![INIT] = @ \o stats[p], ![p] = << >>]
  <1>1. a \in Seq(Slots \X Int) /\ b \in Seq(Slots \X Int)
    BY SlotFacts DEF StatsType
  <1>2. /\ a \o b \in Seq(Slots \X Int)
        /\ Len(a \o b) = Len(a) + Len(b)
        /\ \A i \in 1..Len(a) + Len(b) :
              (a \o b)[i] = IF i <= Len(a) THEN a[i] ELSE b[i - Len(a)]
    BY <1>1, ConcatFacts
  <1>3. /\ new \in StatsType
        /\ new[INIT] = a \o b
        /\ new[p] = << >>
        /\ \A q \in Slots \ {INIT, p} : new[q] = stats[q]
    <2> DEFINE ab == a \o b
               e == << >>
    <2>1. new = [stats EXCEPT ![INIT] = ab, ![p] = e]
      OBVIOUS
    <2>2. ab \in Seq(Slots \X Int) /\ e \in Seq(Slots \X Int)
      BY <1>2
    <2> HIDE DEF ab, e, new
    <2>3. /\ new \in StatsType
          /\ new[INIT] = ab
          /\ new[p] = e
          /\ \A q \in Slots \ {INIT, p} : new[q] = stats[q]
      BY <2>1, <2>2, SlotFacts DEF StatsType
    <2> QED
      BY <2>3 DEF ab, e
  <1>4. /\ Len(a) \in Nat /\ DOMAIN a = 1..Len(a)
        /\ Len(b) \in Nat /\ DOMAIN b = 1..Len(b)
        /\ DOMAIN (a \o b) = 1..Len(a) + Len(b)
    BY <1>1, <1>2
  <1> HIDE DEF new, a, b
  \* where an entry of the new table came from
  <1> DEFINE From(q, i, r, k) ==
                 /\ r \in Slots /\ k \in DOMAIN stats[r] /\ new[q][i] = stats[r][k]
                 /\ q = r \/ (q = INIT /\ r = p)
                 /\ i = IF q = INIT /\ r = p THEN Len(a) + k ELSE k
  <1>5. ASSUME NEW q \in Slots, NEW i \in DOMAIN new[q]
        PROVE  \E r, k : From(q, i, r, k)
    <2>1. CASE q = INIT /\ i <= Len(a)
      <3>1. i \in DOMAIN stats[INIT] /\ new[q][i] = stats[INIT][i]
        BY <1>2, <1>3, <1>4, <2>1 DEF a
      <3>2. From(q, i, INIT, i)
        BY <2>1, <3>1, SlotFacts
      <3> QED
        BY <3>2
    <2>2. CASE q = INIT /\ ~(i <= Len(a))
      <3>1. i \in 1..Len(a) + Len(b)
        BY <1>3, <1>4, <2>2
      <3>2. i - Len(a) \in 1..Len(b) /\ i = Len(a) + (i - Len(a))
        BY <1>4, <2>2, <3>1
      <3>3. new[q][i] = b[i - Len(a)]
        BY <1>2, <1>3, <2>2, <3>1
      <3>4. From(q, i, p, i - Len(a))
        BY <1>4, <2>2, <3>2, <3>3 DEF b
      <3> QED
        BY <3>4
    <2>3. CASE q # INIT
      <3>1. q # p
        BY <1>3
      <3>2. From(q, i, q, i)
        BY <1>3, <2>3, <3>1
      <3> QED
        BY <3>2
    <2> QED
      BY <2>1, <2>2, <2>3
  <1>6. ASSUME NEW q1 \in Slots, NEW q2 \in Slots,
               NEW i1 \in DOMAIN new[q1], NEW i2 \in DOMAIN new[q2]
        PROVE  /\ new[q1][i1] \in Z
               /\ new[q1][i1] = new[q2][i2] => q1 = q2 /\ i1 = i2
               /\ new[q1][i1] = <<INIT, 0>> => q1 = INIT
    <2>1. PICK r1, k1 : From(q1, i1, r1, k1)
      BY <1>5
    <2>2. PICK r2, k2 : From(q2, i2, r2, k2)
      BY <1>5
    <2>3. new[q1][i1] \in Z /\ (new[q1][i1] = <<INIT, 0>> => q1 = INIT)
      BY <2>1 DEF StatsOK
    <2>4. ASSUME new[q1][i1] = new[q2][i2]
          PROVE  q1 = q2 /\ i1 = i2
      <3>1. r1 = r2 /\ k1 = k2
        BY <2>1, <2>2, <2>4 DEF StatsOK
      <3>2. q1 # p /\ q2 # p
        BY <1>3
      <3>3. q1 = q2
        BY <2>1, <2>2, <3>1, <3>2
      <3> QED
        BY <2>1, <2>2, <3>1, <3>3
    <2> QED
      BY <2>3, <2>4
  <1>7. StatsOK(new, Z)
    BY <1>6 DEF StatsOK
  <1> QED
    BY <1>3, <1>7 DEF new

\* waitid: a status is taken out, and its zombie with it.
LEMMA StatsRemove ==
    ASSUME NEW stats \in StatsType, NEW Z, StatsOK(stats, Z),
           NEW p \in Slots, NEW k \in DOMAIN stats[p]
    PROVE  LET new == [stats EXCEPT ![p] = RemoveAt(@, k)]
           IN  new \in StatsType /\ StatsOK(new, Z \ {stats[p][k]})
  <1> DEFINE old == stats[p]
             cut == RemoveAt(old, k)
             new == [stats EXCEPT ![p] = RemoveAt(@, k)]
  <1>1. old \in Seq(Slots \X Int) /\ k \in 1..Len(old) /\ Len(old) \in Nat
    BY DEF StatsType
  <1>2. /\ cut \in Seq(Slots \X Int)
        /\ Len(cut) = Len(old) - 1
        /\ \A i \in 1..Len(old) - 1 : cut[i] = IF i < k THEN old[i] ELSE old[i + 1]
    BY <1>1, RemoveAtFacts
  <1>3. /\ new \in StatsType
        /\ new[p] = cut
        /\ \A q \in Slots \ {p} : new[q] = stats[q]
    BY <1>2 DEF StatsType
  <1>4. DOMAIN cut = 1..Len(old) - 1 /\ DOMAIN old = 1..Len(old)
    BY <1>1, <1>2
  <1> HIDE DEF new, cut, old
  <1> DEFINE Was(q, i) == IF q = p /\ ~(i < k) THEN i + 1 ELSE i
  <1>5. ASSUME NEW q \in Slots, NEW i \in DOMAIN new[q]
        PROVE  /\ Was(q, i) \in DOMAIN stats[q]
               /\ new[q][i] = stats[q][Was(q, i)]
               /\ q = p => Was(q, i) # k
    <2>1. CASE q = p
      <3>1. i \in 1..Len(old) - 1 /\ new[q][i] = cut[i]
        BY <1>3, <1>4, <2>1
      <3>2. Was(q, i) \in 1..Len(old) /\ Was(q, i) # k
        BY <1>1, <2>1, <3>1
      <3>3. cut[i] = old[Was(q, i)]
        BY <1>2, <2>1, <3>1
      <3> QED
        BY <1>4, <2>1, <3>1, <3>2, <3>3 DEF old
    <2>2. CASE q # p
      BY <1>3, <2>2
    <2> QED
      BY <2>1, <2>2
  <1>6. ASSUME NEW q \in Slots, NEW r \in Slots, NEW i \in DOMAIN new[q], NEW j \in DOMAIN new[r]
        PROVE  /\ new[q][i] \in Z \ {stats[p][k]}
               /\ new[q][i] = new[r][j] => q = r /\ i = j
               /\ new[q][i] = <<INIT, 0>> => q = INIT
    <2>1. new[q][i] \in Z /\ (new[q][i] = <<INIT, 0>> => q = INIT)
      BY <1>5 DEF StatsOK
    <2>2. new[q][i] # stats[p][k]
      BY <1>5 DEF StatsOK
    <2>3. ASSUME new[q][i] = new[r][j] PROVE q = r /\ i = j
      <3>1. q = r /\ Was(q, i) = Was(r, j)
        BY <1>5, <2>3 DEF StatsOK
      <3>2. q = p => i \in Int /\ j \in Int /\ k \in Int
        BY <1>1, <1>3, <1>4, <3>1
      <3>3. q = p => i = j
        BY <3>1, <3>2
      <3> QED
        BY <3>1, <3>3
    <2> QED
      BY <2>1, <2>2, <2>3
  <1>7. StatsOK(new, Z \ {stats[p][k]})
    BY <1>6 DEF StatsOK
  <1> QED
    BY <1>3, <1>7 DEF new

\* fork: the new pcb holds no status.
LEMMA StatsReset ==
    ASSUME NEW stats \in StatsType, NEW Z, StatsOK(stats, Z), NEW c \in Slots
    PROVE  /\ [stats EXCEPT ![c] = << >>] \in StatsType
           /\ StatsOK([stats EXCEPT ![c] = << >>], Z)
  <1> DEFINE new == [stats EXCEPT ![c] = << >>]
  <1>1. new \in StatsType /\ new[c] = << >> /\ \A q \in Slots \ {c} : new[q] = stats[q]
    BY DEF StatsType
  <1> HIDE DEF new
  <1>2. \A q \in Slots : \A i \in DOMAIN new[q] : q # c /\ new[q] = stats[q]
    BY <1>1
  <1> QED
    BY <1>1, <1>2 DEF StatsOK, new

-----------------------------------------------------------------------------
(* The inductive invariant.  Beside the properties it says that init keeps *)
(* its pid, its parent (itself) and its slot, that only init ever holds    *)
(* init's status, so that nobody can reap it, and that idle never waits.   *)

IInv ==
    /\ TypeOK
    /\ Sound(sched)
    /\ StatsOK(child_stats, Zombies)
    /\ NoMissedStatus
    /\ NoReapPanic
    /\ gen[INIT] = 0
    /\ parent_pid[INIT] = <<INIT, 0>>
    /\ sched.state[INIT] # "DEAD"
    /\ sched.pc[IDLE] # "waiting"

\* What a step may do to a slot: leave its pid alone, and then not revive it,
\* or give it the next pid.
SlotsAdvance ==
    \A p \in Slots :
        \/ gen'[p] = gen[p] /\ (sched.state[p] = "DEAD" => sched'.state[p] = "DEAD")
        \/ gen'[p] = gen[p] + 1

\* The parts of the type invariant that the steps use.
LEMMA TypeFacts ==
    ASSUME TypeOK
    PROVE  /\ sched \in SchedType
           /\ sched.current \in Slots
           /\ sched.state \in [Slots -> States]
           /\ sched.pc \in [Slots -> {"new", "user", "yielded", "waiting"}]
           /\ gen \in [Slots -> Int]
           /\ child_stats \in StatsType
  BY DEF TypeOK, SchedType, StatsType

\* Making a process READY that was not.
LEMMA ReadySound ==
    ASSUME NEW s \in SchedType, Sound(s), NEW p \in Slots, s.state[p] # "READY"
    PROVE  /\ ready(s, p) \in SchedType
           /\ Sound(ready(s, p))
           /\ ready(s, p).state = [s.state EXCEPT ![p] = "READY"]
           /\ ready(s, p).pc = s.pc
           /\ ready(s, p).current = s.current
  <1> DEFINE t == ready(s, p)
  <1>1. /\ t \in SchedType
        /\ t.state = [s.state EXCEPT ![p] = "READY"]
        /\ t.ready_queue = Append(s.ready_queue, p)
        /\ t.current = s.current /\ t.pc = s.pc
    BY ReadyType DEF ready, SchedType
  <1> HIDE DEF t
  <1>2. s.ready_queue \in Seq(Slots) /\ s.state \in [Slots -> States] /\ s.current \in Slots
    BY DEF SchedType
  <1>3. NoDuplicates(s.ready_queue) /\ ~Contains(s.ready_queue, p) /\ p # s.current
    BY DEF Sound, Queued
  <1>4. /\ NoDuplicates(Append(s.ready_queue, p))
        /\ \A q \in Slots : Contains(Append(s.ready_queue, p), q)
                                <=> Contains(s.ready_queue, q) \/ q = p
    BY <1>2, <1>3, EnqueueSound
  <1>5. Sound(t)
    BY <1>1, <1>2, <1>3, <1>4, SlotFacts DEF Sound, Queued
  <1> QED
    BY <1>1, <1>5 DEF t

\* A step that only schedules, wakes and delivers signals keeps the invariant.
LEMMA QuietStep ==
    ASSUME IInv,
           sched' \in SchedType, Sound(sched'),
           \A q \in Slots : \/ sched'.state[q] = sched.state[q]
                            \/ sched.state[q] = "WAITING" /\ sched'.state[q] = "READY",
           sched'.pc[IDLE] # "waiting",
           UNCHANGED <<gen, parent_pid, children, child_stats, wait_args, panic>>
    PROVE  IInv' /\ SlotsAdvance
  <1>1. TypeOK'
    BY DEF IInv, TypeOK
  <1>2. Zombies' = Zombies
    BY TypeFacts DEF IInv, Zombies, pid, States
  <1>3. StatsOK(child_stats, Zombies)'
    BY <1>2 DEF IInv, StatsOK
  <1>4. NoMissedStatus'
    BY DEF IInv, NoMissedStatus, Matching, Matches
  <1>5. NoReapPanic'
    BY DEF IInv, NoReapPanic
  <1>6. sched'.state[INIT] # "DEAD"
    BY SlotFacts DEF IInv
  <1>7. SlotsAdvance
    BY DEF SlotsAdvance
  <1> QED
    BY <1>1, <1>3, <1>4, <1>5, <1>6, <1>7 DEF IInv, Sound, Queued, NoDuplicates

\* return_to_user alone.
LEMMA ReturnStep ==
    ASSUME IInv, sched' = return_to_user(sched),
           UNCHANGED <<gen, parent_pid, children, child_stats, wait_args, panic>>
    PROVE  IInv' /\ SlotsAdvance
  <1>1. sched \in SchedType /\ Sound(sched)
    BY TypeFacts DEF IInv
  <1>2. /\ sched' \in SchedType /\ Sound(sched')
        /\ sched'.state = sched.state
        /\ \A q \in Slots : sched'.pc[q] # sched.pc[q] => sched'.pc[q] = "user"
    BY <1>1, ReturnSound
  <1>3. sched'.pc[IDLE] # "waiting"
    BY <1>2, SlotFacts DEF IInv
  <1> QED
    BY <1>2, <1>3, QuietStep

\* ready(current); schedule().
LEMMA PreemptStep ==
    ASSUME IInv, sched' = leave(ready(sched, sched.current), "yielded"),
           UNCHANGED <<gen, parent_pid, children, child_stats, wait_args, panic>>
    PROVE  IInv' /\ SlotsAdvance
  <1> DEFINE r == ready(sched, sched.current)
             t == [r EXCEPT !.pc[r.current] = "yielded"]
  <1>1. /\ sched \in SchedType /\ Sound(sched) /\ sched.current \in Slots
        /\ sched.state \in [Slots -> States]
    BY TypeFacts DEF IInv
  <1>2. r \in SchedType /\ Unscheduled(r)
    BY <1>1, ReadyType, ReadyCurrent
  <1>3. r.state = sched.state /\ r.pc = sched.pc /\ r.current = sched.current
    <2>1. sched.state[sched.current] = "READY"
      BY <1>1 DEF Sound
    <2>2. [sched.state EXCEPT ![sched.current] = "READY"] = sched.state
      BY <1>1, <2>1
    <2> QED
      BY <2>2 DEF ready, SchedType
  <1> HIDE DEF r
  <1>4. /\ t \in SchedType /\ t.state = r.state /\ t.ready_queue = r.ready_queue
        /\ t.pc = [r.pc EXCEPT ![r.current] = "yielded"]
        /\ r.pc \in [Slots -> {"new", "user", "yielded", "waiting"}]
    BY <1>1, <1>2, <1>3 DEF SchedType
  <1> HIDE DEF t
  <1>5. Unscheduled(t)
    BY <1>2, <1>4 DEF Unscheduled, Queued
  <1>6. sched' = schedule(t)
    BY DEF leave, r, t
  <1>7. /\ sched' \in SchedType /\ Sound(sched')
        /\ sched'.state = sched.state /\ sched'.pc = t.pc
    BY <1>3, <1>4, <1>5, <1>6, ScheduleSound
  <1>8. sched'.pc[IDLE] # "waiting"
    BY <1>3, <1>4, <1>7, SlotFacts DEF IInv
  <1> QED
    BY <1>7, <1>8, QuietStep

\* sys_kill keeps the invariant, whether or not the pid names a process.
LEMMA KillStep ==
    ASSUME IInv, NEW id \in Pids, NEW sig \in Signals, sys_kill(id, sig)
    PROVE  IInv' /\ SlotsAdvance
  <1>1. UNCHANGED <<gen, parent_pid, children, child_stats, wait_args, panic>>
    BY DEF sys_kill
  <1>2. CASE get_pcb(id) = NoPcb
    BY <1>1, <1>2, ReturnStep DEF sys_kill
  <1>3. CASE get_pcb(id) # NoPcb
    <2> DEFINE p == get_pcb(id)
               t == kill(sched, p, sig)
    <2>1. p \in Slots
      BY <1>3 DEF get_pcb
    <2>2. sig \in Nat
      BY SignalsAssumption
    <2>3. sched \in SchedType /\ Sound(sched)
      BY TypeFacts DEF IInv
    <2> HIDE DEF p
    <2>4. /\ t \in SchedType /\ Sound(t) /\ t.pc = sched.pc
          /\ \A q \in Slots : \/ t.state[q] = sched.state[q]
                              \/ sched.state[q] = "WAITING" /\ t.state[q] = "READY"
      BY <2>1, <2>2, <2>3, KillSound
    <2>5. sched' = return_to_user(t)
      BY <1>3 DEF sys_kill, p
    <2> HIDE DEF t
    <2>6. /\ sched' \in SchedType /\ Sound(sched') /\ sched'.state = t.state
          /\ \A q \in Slots : sched'.pc[q] # t.pc[q] => sched'.pc[q] = "user"
      BY <2>4, <2>5, ReturnSound
    <2>7. sched'.pc[IDLE] # "waiting"
      BY <2>4, <2>6, SlotFacts DEF IInv
    <2> QED
      BY <1>1, <2>4, <2>6, <2>7, QuietStep
  <1> QED
    BY <1>2, <1>3

-----------------------------------------------------------------------------
(* Lists keep their type, whatever they link. *)

ListType == [next : [Nodes -> Nodes \cup {LIST_POISON}],
             prev : [Nodes -> Nodes \cup {LIST_POISON}]]

\* list_add_tail yields pointers to list nodes.
LEMMA InsertType ==
    ASSUME NEW l \in ListType, NEW new \in Nodes, NEW h \in Nodes
    PROVE  list_add_tail(l, new, h) \in ListType
  <1> DEFINE p == l.prev[h]
             prv == [l.prev EXCEPT ![h] = new, ![new] = p]
             nxt == [l.next EXCEPT ![new] = h, ![p] = new]
  <1>1. p \in Nodes \cup {LIST_POISON}
    BY DEF ListType
  <1>2. prv \in [Nodes -> Nodes \cup {LIST_POISON}] /\ nxt \in [Nodes -> Nodes \cup {LIST_POISON}]
    BY <1>1 DEF ListType
  <1>3. list_add_tail(l, new, h) = [next |-> nxt, prev |-> prv]
    BY DEF list_add_tail, list_insert
  <1> QED
    BY <1>2, <1>3 DEF ListType

\* INIT_LIST_HEAD yields pointers to list nodes.
LEMMA InitHeadType ==
    ASSUME NEW l \in ListType, NEW h \in Nodes
    PROVE  INIT_LIST_HEAD(l, h) \in ListType
  BY DEF INIT_LIST_HEAD, ListType

\* list_del yields pointers to list nodes.
LEMMA DelType ==
    ASSUME NEW l \in ListType, NEW e \in Nodes
    PROVE  list_del(l, e) \in ListType
  BY DEF list_del, ListType

\* Every pcb has its two list nodes.
LEMMA NodeFacts == \A p \in Slots : Kids(p) \in Nodes /\ Child(p) \in Nodes
  BY DEF Kids, Child, Nodes

-----------------------------------------------------------------------------
(* fork *)

\* sys_fork keeps the invariant: get_free_pcb's slot was DEAD, so the child is
\* queued nowhere, and no status names the new pid.
LEMMA ForkStep ==
    ASSUME IInv, sys_fork
    PROVE  IInv' /\ SlotsAdvance
  <1>1. CASE /\ \A c \in Slots : sched.state[c] # "DEAD"
             /\ sched' = return_to_user(sched)
             /\ UNCHANGED <<gen, parent_pid, children, child_stats>>
    BY <1>1, ReturnStep DEF sys_fork
  <1>2. CASE \E c \in Slots : FirstFree(c) /\ ForkInto(c, sched.current)
    <2> DEFINE p == sched.current
    <2>1. PICK c \in Slots : FirstFree(c) /\ ForkInto(c, p)
      BY <1>2
    <2>2. /\ sched \in SchedType /\ Sound(sched) /\ p \in Slots
          /\ gen \in [Slots -> Int] /\ child_stats \in StatsType
          /\ sched.state \in [Slots -> States]
          /\ parent_pid \in [Slots -> Slots \X Int]
          /\ children \in ListType
      BY TypeFacts DEF IInv, TypeOK, ListType
    <2>3. sched.state[c] = "DEAD" /\ c # INIT /\ c # IDLE /\ c # p
      BY <2>1, <2>2 DEF FirstFree, IInv, Sound
    <2> DEFINE s == [sched EXCEPT !.pending[c] = {}, !.pc[c] = "new", !.dying[c] = FALSE]
               t == ready(s, c)
    <2>4. /\ s \in SchedType
          /\ s.state = sched.state /\ s.ready_queue = sched.ready_queue
          /\ s.current = sched.current
          /\ s.pc = [sched.pc EXCEPT ![c] = "new"]
      BY <2>2 DEF SchedType
    <2>5. sched' = return_to_user(t)
      BY <2>1 DEF ForkInto
    <2> HIDE DEF s
    <2>6. Sound(s)
      BY <2>2, <2>4 DEF Sound, Queued
    <2>7. /\ t \in SchedType /\ Sound(t)
          /\ t.state = [sched.state EXCEPT ![c] = "READY"]
          /\ t.pc = s.pc
      BY <2>3, <2>4, <2>6, ReadySound
    <2> HIDE DEF t
    <2>8. /\ sched' \in SchedType /\ Sound(sched')
          /\ sched'.state = [sched.state EXCEPT ![c] = "READY"]
          /\ \A q \in Slots : sched'.pc[q] # t.pc[q] => sched'.pc[q] = "user"
      BY <2>5, <2>7, ReturnSound
    <2>9. sched'.pc[IDLE] # "waiting" /\ sched'.state[INIT] # "DEAD"
      <3>1. s.pc[IDLE] = sched.pc[IDLE]
        BY <2>2, <2>3, <2>4, SlotFacts DEF SchedType
      <3>2. sched'.pc[IDLE] # "waiting"
        BY <2>7, <2>8, <3>1, SlotFacts DEF IInv
      <3>3. sched'.state[INIT] # "DEAD"
        BY <2>2, <2>3, <2>8, SlotFacts DEF IInv
      <3> QED
        BY <3>2, <3>3
    <2>10. /\ gen' = [gen EXCEPT ![c] = gen[c] + 1]
           /\ parent_pid' = [parent_pid EXCEPT ![c] = <<p, gen[p]>>]
           /\ child_stats' = [child_stats EXCEPT ![c] = << >>]
           /\ children' = list_add_tail(INIT_LIST_HEAD(children, Kids(c)), Child(c), Kids(p))
           /\ UNCHANGED <<wait_args, panic>>
      BY <2>1 DEF ForkInto, NextGen, LinkChild, pid, sys_fork
    <2>11. /\ gen' \in [Slots -> Int] /\ gen'[INIT] = 0
           /\ parent_pid' \in [Slots -> Slots \X Int] /\ parent_pid'[INIT] = <<INIT, 0>>
      BY <2>2, <2>3, <2>10, SlotFacts DEF IInv
    <2>12. children' \in ListType
      BY <2>2, <2>10, InitHeadType, InsertType, NodeFacts
    <2>13. Zombies' = Zombies
      BY <2>2, <2>3, <2>8, <2>10 DEF Zombies, pid
    <2>14. child_stats' \in StatsType /\ StatsOK(child_stats', Zombies')
      BY <2>2, <2>10, <2>13, StatsReset DEF IInv
    <2>15. TypeOK'
      BY <2>8, <2>10, <2>11, <2>12, <2>14 DEF IInv, TypeOK, ListType, StatsType
    <2>16. NoMissedStatus'
      <3> SUFFICES ASSUME NEW q \in Slots, sched'.state[q] = "WAITING"
                   PROVE  Matching(q, wait_args[q].id, wait_args[q].options)' = {}
        BY DEF NoMissedStatus
      <3>1. q # c /\ sched.state[q] = "WAITING"
        BY <2>2, <2>8
      <3>2. child_stats'[q] = child_stats[q] /\ wait_args' = wait_args
        BY <2>2, <2>10, <3>1 DEF StatsType
      <3> QED
        BY <3>1, <3>2 DEF IInv, NoMissedStatus, Matching, Matches
    <2>17. NoReapPanic'
      BY <2>10 DEF IInv, NoReapPanic
    <2>18. SlotsAdvance
      BY <2>2, <2>8, <2>10 DEF SlotsAdvance
    <2> QED
      BY <2>8, <2>9, <2>11, <2>14, <2>15, <2>16, <2>17, <2>18 DEF IInv, Sound, Queued, NoDuplicates
  <1> QED
    BY <1>1, <1>2 DEF sys_fork

-----------------------------------------------------------------------------
(* exit *)

\* A process other than idle that leaves the CPU in a state other than READY:
\* it is in no queue, so the queue holds all READY processes.
LEMMA BlockUnscheduled ==
    ASSUME NEW s \in SchedType, Sound(s), s.current # IDLE,
           NEW t \in SchedType, NEW st \in States, st # "READY",
           t.state = [s.state EXCEPT ![s.current] = st],
           t.ready_queue = s.ready_queue
    PROVE  Unscheduled(t)
  <1>1. s.current \in Slots /\ s.state \in [Slots -> States]
    BY DEF SchedType
  <1> QED
    BY <1>1, SlotFacts DEF Sound, Unscheduled, Queued

\* The scheduler's part of do_exit: p becomes a zombie; the parent, and init
\* when it is given statuses, are not left waiting.
LEMMA ExitSched ==
    ASSUME IInv, NEW p, p = sched.current, p # IDLE,
           get_pcb(parent_pid[p]) # NoPcb
    PROVE  LET t == SchedAfterExit(p)
           IN  /\ t \in SchedType /\ Sound(t)
               /\ t.state[p] = "ZOMBIE"
               /\ \A q \in Slots \ {p} :
                     \/ t.state[q] = sched.state[q]
                     \/ sched.state[q] = "WAITING" /\ t.state[q] = "READY"
               /\ t.state[get_pcb(parent_pid[p])] # "WAITING"
               /\ StatsAfterReport(p)[p] # << >> => t.state[INIT] # "WAITING"
               /\ t.pc = sched.pc
  <1> DEFINE par == get_pcb(parent_pid[p])
             s == kill(sched, par, SIGCHLD)
             u == IF StatsAfterReport(p)[p] = << >> THEN s ELSE kill(s, INIT, SIGCHLD)
             z == zombie(u, p)
  <1>1. /\ sched \in SchedType /\ Sound(sched) /\ p \in Slots
        /\ sched.state \in [Slots -> States]
    BY TypeFacts DEF IInv
  <1>2. par \in Slots
    BY DEF get_pcb
  <1>3. SIGCHLD \in Nat
    BY DEF SIGCHLD
  <1> HIDE DEF par
  <1>4. /\ s \in SchedType /\ Sound(s) /\ s.current = p /\ s.pc = sched.pc
        /\ \A q \in Slots : \/ s.state[q] = sched.state[q]
                            \/ sched.state[q] = "WAITING" /\ s.state[q] = "READY"
        /\ s.state[par] # "WAITING"
    BY <1>1, <1>2, <1>3, KillSound
  <1> HIDE DEF s
  <1>5. LET v == kill(s, INIT, SIGCHLD)
        IN  /\ v \in SchedType /\ Sound(v) /\ v.current = p /\ v.pc = sched.pc
            /\ \A q \in Slots : \/ v.state[q] = s.state[q]
                                \/ s.state[q] = "WAITING" /\ v.state[q] = "READY"
            /\ v.state[INIT] # "WAITING"
    BY <1>3, <1>4, KillSound, SlotFacts
  <1>6. /\ u \in SchedType /\ Sound(u) /\ u.current = p /\ u.pc = sched.pc
        /\ \A q \in Slots : \/ u.state[q] = sched.state[q]
                            \/ sched.state[q] = "WAITING" /\ u.state[q] = "READY"
        /\ u.state[par] # "WAITING"
        /\ StatsAfterReport(p)[p] # << >> => u.state[INIT] # "WAITING"
    BY <1>2, <1>4, <1>5
  <1> HIDE DEF u
  <1>7. /\ z \in SchedType /\ z.state = [u.state EXCEPT ![p] = "ZOMBIE"]
        /\ z.ready_queue = u.ready_queue /\ z.pc = u.pc
        /\ u.state \in [Slots -> States]
    BY <1>1, <1>6 DEF zombie, SchedType, States
  <1> HIDE DEF z
  <1>8. Unscheduled(z)
    BY <1>6, <1>7, BlockUnscheduled DEF States
  <1>9. /\ schedule(z) \in SchedType /\ Sound(schedule(z))
        /\ schedule(z).state = z.state /\ schedule(z).pc = z.pc
    BY <1>7, <1>8, ScheduleSound
  <1>10. SchedAfterExit(p) = schedule(z)
    BY DEF SchedAfterExit, z, u, s, par
  <1>11. /\ z.state[p] = "ZOMBIE" /\ z.state[par] # "WAITING"
         /\ StatsAfterReport(p)[p] # << >> => z.state[INIT] # "WAITING"
         /\ \A q \in Slots \ {p} : z.state[q] = u.state[q]
    BY <1>1, <1>2, <1>6, <1>7, SlotFacts
  <1>12. \A q \in Slots \ {p} : \/ z.state[q] = sched.state[q]
                                \/ sched.state[q] = "WAITING" /\ z.state[q] = "READY"
    BY <1>6, <1>11
  <1>13. z.state[get_pcb(parent_pid[p])] # "WAITING"
    BY <1>11 DEF par
  <1>14. schedule(z).pc = sched.pc
    BY <1>6, <1>7, <1>9
  <1> QED
    BY <1>9, <1>10, <1>11, <1>12, <1>13, <1>14

\* sys_exit keeps the invariant: the exiting process gets exactly one status,
\* and the statuses it held move to init.
LEMMA ExitStep ==
    ASSUME IInv, sys_exit
    PROVE  IInv' /\ SlotsAdvance
  <1> DEFINE p == sched.current
             par == get_pcb(parent_pid[p])
             r == StatsAfterReport(p)
             Z == Zombies \cup {pid(p)}
  <1>1. /\ sched \in SchedType /\ Sound(sched) /\ p \in Slots
        /\ gen \in [Slots -> Int] /\ child_stats \in StatsType
        /\ sched.state \in [Slots -> States]
        /\ parent_pid \in [Slots -> Slots \X Int]
    BY TypeFacts DEF IInv, TypeOK
  <1>2. p # IDLE /\ panic' = ExitPanic(p) /\ UNCHANGED <<gen, children, wait_args>>
    BY DEF sys_exit
  <1>3. get_pcb(<<INIT, 0>>) = INIT
    BY SlotFacts DEF get_pcb, IInv
  <1>4. INIT # NoPcb
    BY DEF INIT, NoPcb
  <1>5. CASE panic' # "no"
    <2>1. UNCHANGED <<parent_pid, child_stats, sched>>
      BY <1>5 DEF sys_exit
    <2>2. panic' \in {"no parent", "bad list", "loop"}
      BY <1>2, <1>3, <1>4, <1>5 DEF ExitPanic
    <2>3. TypeOK'
      BY <1>2, <2>1, <2>2 DEF IInv, TypeOK
    <2>4. NoReapPanic'
      BY <2>2 DEF NoReapPanic
    <2>5. Zombies' = Zombies /\ (NoMissedStatus <=> NoMissedStatus')
      BY <1>2, <2>1 DEF Zombies, pid, NoMissedStatus, Matching, Matches
    <2>6. SlotsAdvance
      BY <1>2, <2>1 DEF SlotsAdvance
    <2> QED
      BY <1>2, <2>1, <2>3, <2>4, <2>5, <2>6
         DEF IInv, Sound, Queued, NoDuplicates, StatsOK
  <1>6. CASE panic' = "no"
    <2>1. /\ child_stats' = StatsAfterExit(p)
          /\ sched' = SchedAfterExit(p)
          /\ parent_pid' = [q \in Slots |-> IF Child(q) \in list_nodes(children, Kids(p))
                                            THEN <<INIT, 0>> ELSE parent_pid[q]]
      BY <1>6 DEF sys_exit
    <2>2. par # NoPcb
      BY <1>2, <1>6 DEF ExitPanic
    <2>3. par \in Slots
      BY <2>2 DEF get_pcb
    <2>4. /\ sched' \in SchedType /\ Sound(sched')
          /\ sched'.state[p] = "ZOMBIE"
          /\ \A q \in Slots \ {p} :
                \/ sched'.state[q] = sched.state[q]
                \/ sched.state[q] = "WAITING" /\ sched'.state[q] = "READY"
          /\ sched'.state[par] # "WAITING"
          /\ r[p] # << >> => sched'.state[INIT] # "WAITING"
          /\ sched'.pc = sched.pc
      BY <1>2, <2>1, <2>2, ExitSched
    <2>5. sched.state[p] = "READY"
      BY <1>1 DEF Sound
    <2>6. pid(p) \in Slots \X Int /\ pid(p) \notin Zombies /\ pid(p) = <<p, gen[p]>>
      BY <1>1, <2>5 DEF pid, Zombies
    <2>7. pid(p) = <<INIT, 0>> => par = INIT
      BY <1>3, <2>6 DEF IInv
    <2>8. /\ r = [child_stats EXCEPT ![par] = Append(@, pid(p))]
          /\ r \in StatsType /\ StatsOK(r, Z)
      BY <1>1, <2>3, <2>6, <2>7, StatsAppend DEF StatsAfterReport, IInv
    <2> HIDE DEF r, par
    <2>9. child_stats' \in StatsType /\ StatsOK(child_stats', Z)
      <3>1. CASE p = INIT
        BY <2>1, <2>8, <3>1 DEF StatsAfterExit, r
      <3>2. CASE p # INIT
        <4>1. child_stats' = [r EXCEPT ![INIT] = @ \o r[p], ![p] = << >>]
          BY <2>1, <3>2 DEF StatsAfterExit, r
        <4> QED
          BY <1>1, <2>8, <3>2, <4>1, StatsMove
      <3> QED
        BY <3>1, <3>2
    <2>10. sched'.state \in [Slots -> States]
      BY <2>4 DEF SchedType
    <2>11. Zombies' = Z
      <3>1. \A q \in Slots : sched'.state[q] = "ZOMBIE" <=> sched.state[q] = "ZOMBIE" \/ q = p
        BY <2>4, <2>5
      <3> QED
        BY <1>1, <1>2, <3>1 DEF Zombies, pid
    <2>12. TypeOK'
      <3>1. parent_pid' \in [Slots -> Slots \X Int]
        BY <1>1, <2>1, SlotFacts
      <3> QED
        BY <1>2, <1>6, <2>4, <2>9, <3>1 DEF IInv, TypeOK, StatsType
    <2>13. parent_pid'[INIT] = <<INIT, 0>> /\ gen'[INIT] = 0
      BY <1>2, <2>1, SlotFacts DEF IInv
    <2>14. sched'.state[INIT] # "DEAD" /\ sched'.pc[IDLE] # "waiting"
      BY <2>4, SlotFacts DEF IInv
    <2>15. NoMissedStatus'
      <3> SUFFICES ASSUME NEW q \in Slots, sched'.state[q] = "WAITING"
                   PROVE  Matching(q, wait_args[q].id, wait_args[q].options)' = {}
        BY DEF NoMissedStatus
      <3>1. q # p /\ q # par /\ sched.state[q] = "WAITING"
        BY <2>3, <2>4
      <3>2. r[q] = child_stats[q]
        BY <1>1, <2>8, <3>1 DEF StatsType
      <3>3. child_stats'[q] = child_stats[q]
        <4>1. CASE p = INIT
          BY <2>1, <3>2, <4>1 DEF StatsAfterExit, r
        <4>2. CASE p # INIT /\ q # INIT
          BY <2>1, <2>8, <3>1, <3>2, <4>2 DEF StatsAfterExit, StatsType, r
        <4>3. CASE p # INIT /\ q = INIT
          <5>1. r[p] = << >>
            BY <2>4, <4>3
          <5>2. r[INIT] \in Seq(Slots \X Int)
            BY <2>8, SlotFacts DEF StatsType
          <5>3. r[INIT] \o << >> = r[INIT]
            BY <5>2
          <5>4. child_stats'[INIT] = r[INIT] \o r[p]
            BY <2>1, <2>8, <4>3, SlotFacts DEF StatsAfterExit, StatsType, r
          <5> QED
            BY <3>2, <4>3, <5>1, <5>3, <5>4
        <4> QED
          BY <4>1, <4>2, <4>3
      <3> QED
        BY <1>2, <3>1, <3>3 DEF IInv, NoMissedStatus, Matching, Matches
    <2>16. NoReapPanic'
      BY <1>6 DEF NoReapPanic
    <2>17. SlotsAdvance
      BY <1>2, <2>4, <2>5 DEF SlotsAdvance
    <2> QED
      BY <2>4, <2>9, <2>11, <2>12, <2>13, <2>14, <2>15, <2>16, <2>17
         DEF IInv, Sound, Queued, NoDuplicates
  <1> QED
    BY <1>5, <1>6

-----------------------------------------------------------------------------
(* waitid *)

\* A status always names a zombie that is not init, so it can be reaped.
LEMMA CollectStep ==
    ASSUME IInv, NEW k \in DOMAIN child_stats[sched.current], sched.current # IDLE,
           CollectStatus(sched.current, k),
           UNCHANGED <<gen, parent_pid, wait_args>>
    PROVE  IInv' /\ SlotsAdvance
  <1> DEFINE p == sched.current
             st == child_stats[p][k]
             z == st[1]
             s == reap(sched, z)
  <1>1. /\ sched \in SchedType /\ Sound(sched) /\ p \in Slots
        /\ gen \in [Slots -> Int] /\ child_stats \in StatsType
        /\ sched.state \in [Slots -> States]
        /\ children \in ListType
    BY TypeFacts DEF IInv, TypeOK, ListType
  <1>2. PICK y \in Slots : sched.state[y] = "ZOMBIE" /\ st = <<y, gen[y]>>
    BY <1>1 DEF IInv, StatsOK, Zombies, pid
  <1>3. z \in Slots /\ sched.state[z] = "ZOMBIE" /\ st = <<z, gen[z]>>
    BY <1>2
  <1>4. sched.state[p] = "READY" /\ sched.state[IDLE] = "READY"
    BY <1>1 DEF Sound
  <1>5. z # INIT /\ z # IDLE /\ z # p
    <2>1. z # IDLE /\ z # p
      BY <1>3, <1>4
    <2>2. ASSUME z = INIT PROVE FALSE
      <3>1. st = <<INIT, 0>>
        BY <1>3, <2>2 DEF IInv
      <3>2. p = INIT
        BY <1>1, <3>1 DEF IInv, StatsOK
      <3> QED
        BY <2>1, <2>2, <3>2
    <2> QED
      BY <2>1, <2>2
  <1>6. get_pcb(st) = z /\ z # NoPcb
    <2>1. st[1] = z /\ st[2] = gen[z]
      BY <1>3
    <2> QED
      BY <1>3, <2>1, SlotFacts DEF get_pcb
  <1>7. /\ children' = list_del(children, Child(z))
        /\ sched' = return_to_user(s)
        /\ child_stats' = [child_stats EXCEPT ![p] = RemoveAt(@, k)]
        /\ UNCHANGED panic
    BY <1>6 DEF CollectStatus, StatsAfterCollect
  <1> HIDE DEF z
  <1>8. /\ s \in SchedType
        /\ s.state = [sched.state EXCEPT ![z] = "DEAD"]
        /\ s.ready_queue = sched.ready_queue /\ s.current = sched.current /\ s.pc = sched.pc
    BY <1>1, <1>3 DEF reap, SchedType, States
  <1> HIDE DEF s
  <1>9. Sound(s)
    BY <1>1, <1>3, <1>5, <1>8, SlotFacts DEF Sound, Queued
  <1>10. /\ sched' \in SchedType /\ Sound(sched') /\ sched'.state = s.state
         /\ \A q \in Slots : sched'.pc[q] # s.pc[q] => sched'.pc[q] = "user"
    BY <1>7, <1>8, <1>9, ReturnSound
  <1>11. child_stats' \in StatsType /\ StatsOK(child_stats', Zombies \ {st})
    BY <1>1, <1>7, StatsRemove DEF IInv
  <1>12. Zombies' = Zombies \ {st}
    <2>1. \A q \in Slots : sched'.state[q] = "ZOMBIE" <=> sched.state[q] = "ZOMBIE" /\ q # z
      BY <1>1, <1>3, <1>8, <1>10
    <2>2. \A q \in Slots : <<q, gen[q]>> = st <=> q = z
      BY <1>3
    <2> HIDE DEF st
    <2> QED
      BY <2>1, <2>2 DEF Zombies, pid
  <1>13. children' \in ListType
    BY <1>1, <1>3, <1>7, DelType, NodeFacts
  <1>14. TypeOK'
    BY <1>7, <1>10, <1>11, <1>13 DEF IInv, TypeOK, StatsType, ListType
  <1>15. NoMissedStatus'
    <2> SUFFICES ASSUME NEW q \in Slots, sched'.state[q] = "WAITING"
                 PROVE  Matching(q, wait_args[q].id, wait_args[q].options)' = {}
      BY DEF NoMissedStatus
    <2>1. q # p /\ sched.state[q] = "WAITING"
      BY <1>1, <1>3, <1>4, <1>5, <1>8, <1>10
    <2>2. child_stats'[q] = child_stats[q]
      BY <1>1, <1>7, <2>1 DEF StatsType
    <2> QED
      BY <2>1, <2>2 DEF IInv, NoMissedStatus, Matching, Matches
  <1>16. NoReapPanic'
    BY <1>7 DEF IInv, NoReapPanic
  <1>17. sched'.state[INIT] # "DEAD" /\ sched'.pc[IDLE] # "waiting"
    <2>1. sched'.pc[IDLE] # "waiting"
      BY <1>8, <1>10, SlotFacts DEF IInv
    <2> QED
      BY <1>1, <1>5, <1>8, <1>10, <2>1, SlotFacts DEF IInv
  <1>18. SlotsAdvance
    BY <1>1, <1>8, <1>10 DEF SlotsAdvance
  <1> QED
    BY <1>10, <1>11, <1>12, <1>14, <1>15, <1>16, <1>17, <1>18
       DEF IInv, Sound, Queued, NoDuplicates

\* Going to sleep: no status matches at that moment.
LEMMA BlockStep ==
    ASSUME IInv, sched.current # IDLE,
           NEW id \in WaitIds \cup {P_ALL}, NEW options \in WaitOptions \cup {{}},
           Matching(sched.current, id, options) = {},
           wait_args' = [wait_args EXCEPT ![sched.current] = [id |-> id, options |-> options]],
           sched' = leave([sched EXCEPT !.state[sched.current] = "WAITING"], "waiting"),
           UNCHANGED <<gen, parent_pid, children, child_stats, panic>>
    PROVE  IInv' /\ SlotsAdvance
  <1> DEFINE p == sched.current
             s == [sched EXCEPT !.state[p] = "WAITING"]
             t == [s EXCEPT !.pc[s.current] = "waiting"]
  <1>1. /\ sched \in SchedType /\ Sound(sched) /\ p \in Slots
        /\ sched.state \in [Slots -> States]
        /\ sched.pc \in [Slots -> {"new", "user", "yielded", "waiting"}]
    BY TypeFacts DEF IInv
  <1>2. s.current = p
    BY DEF SchedType
  <1>3. /\ t \in SchedType
        /\ t.state = [sched.state EXCEPT ![p] = "WAITING"]
        /\ t.ready_queue = sched.ready_queue
        /\ t.pc = [sched.pc EXCEPT ![p] = "waiting"]
    BY <1>1, <1>2 DEF SchedType, States
  <1>4. sched' = schedule(t)
    BY DEF leave
  <1> HIDE DEF s, t
  <1>5. Unscheduled(t)
    BY <1>1, <1>3, BlockUnscheduled DEF States
  <1>6. /\ sched' \in SchedType /\ Sound(sched')
        /\ sched'.state = t.state /\ sched'.pc = t.pc
    BY <1>3, <1>4, <1>5, ScheduleSound
  <1>7. wait_args \in [Slots -> [id : WaitIds \cup {P_ALL}, options : WaitOptions \cup {{}}]]
    BY DEF IInv, TypeOK
  <1>8. /\ wait_args' \in [Slots -> [id : WaitIds \cup {P_ALL}, options : WaitOptions \cup {{}}]]
        /\ wait_args'[p] = [id |-> id, options |-> options]
        /\ \A q \in Slots \ {p} : wait_args'[q] = wait_args[q]
    BY <1>1, <1>7
  <1>9. TypeOK'
    BY <1>6, <1>8 DEF IInv, TypeOK
  <1>10. Zombies' = Zombies
    <2>1. sched.state[p] = "READY"
      BY <1>1 DEF Sound
    <2>2. \A q \in Slots : sched'.state[q] = "ZOMBIE" <=> sched.state[q] = "ZOMBIE"
      BY <1>1, <1>3, <1>6, <2>1
    <2> QED
      BY <2>2 DEF Zombies, pid
  <1>11. NoMissedStatus'
    <2> SUFFICES ASSUME NEW q \in Slots, sched'.state[q] = "WAITING"
                 PROVE  Matching(q, wait_args[q].id, wait_args[q].options)' = {}
      BY DEF NoMissedStatus
    <2>1. CASE q = p
      <3>1. wait_args'[q].id = id /\ wait_args'[q].options = options
        BY <1>8, <2>1
      <3> QED
        BY <2>1, <3>1 DEF Matching, Matches
    <2>2. CASE q # p
      <3>1. sched.state[q] = "WAITING" /\ wait_args'[q] = wait_args[q]
        BY <1>1, <1>3, <1>6, <1>8, <2>2
      <3> QED
        BY <3>1 DEF IInv, NoMissedStatus, Matching, Matches
    <2> QED
      BY <2>1, <2>2
  <1>12. sched'.state[INIT] # "DEAD" /\ sched'.pc[IDLE] # "waiting"
    BY <1>1, <1>3, <1>6, SlotFacts DEF IInv
  <1>13. StatsOK(child_stats, Zombies)'
    BY <1>10 DEF IInv, StatsOK
  <1>14. NoReapPanic'
    BY DEF IInv, NoReapPanic
  <1>15. SlotsAdvance
    <2>1. sched.state[p] = "READY"
      BY <1>1 DEF Sound
    <2> QED
      BY <1>1, <1>3, <1>6, <2>1 DEF SlotsAdvance
  <1> QED
    BY <1>6, <1>9, <1>11, <1>12, <1>13, <1>14, <1>15 DEF IInv, Sound, Queued, NoDuplicates

\* One turn of waitid's loop keeps the invariant, in each of its three ways out.
LEMMA WaitLoopStep ==
    ASSUME IInv, sched.current # IDLE,
           NEW id \in WaitIds \cup {P_ALL}, NEW options \in WaitOptions \cup {{}},
           WaitLoop(sched.current, id, options), UNCHANGED <<gen, parent_pid>>
    PROVE  IInv' /\ SlotsAdvance
  <1>1. ASSUME NEW i \in DOMAIN child_stats[sched.current],
               CollectStatus(sched.current, i), UNCHANGED wait_args
        PROVE  IInv' /\ SlotsAdvance
    BY <1>1, CollectStep
  <1>2. ASSUME sched' = return_to_user(sched),
               UNCHANGED <<children, child_stats, wait_args, panic>>
        PROVE  IInv' /\ SlotsAdvance
    BY <1>2, ReturnStep
  <1>3. ASSUME Matching(sched.current, id, options) = {},
               wait_args' = [wait_args EXCEPT ![sched.current] = [id |-> id, options |-> options]],
               sched' = leave([sched EXCEPT !.state[sched.current] = "WAITING"], "waiting"),
               UNCHANGED <<children, child_stats, panic>>
        PROVE  IInv' /\ SlotsAdvance
    BY <1>3, BlockStep
  <1> QED
    BY <1>1, <1>2, <1>3 DEF WaitLoop

\* sys_waitid keeps the invariant.
LEMMA WaitidStep ==
    ASSUME IInv, NEW id \in WaitIds, NEW options \in WaitOptions, NEW bad_infop \in BOOLEAN,
           sys_waitid(id, options, bad_infop)
    PROVE  IInv' /\ SlotsAdvance
  <1>1. CASE sched' = return_to_user(sched) /\ UNCHANGED <<children, child_stats, wait_args, panic>>
    BY <1>1, ReturnStep DEF sys_waitid
  <1>2. CASE WaitLoop(sched.current, id, options)
    BY <1>2, WaitLoopStep DEF sys_waitid, CanCall
  <1> QED
    BY <1>1, <1>2 DEF sys_waitid

\* So does waitid when it goes on after schedule().
LEMMA ResumeWaitidStep ==
    ASSUME IInv, ResumeWaitid
    PROVE  IInv' /\ SlotsAdvance
  <1>1. sched.current # IDLE
    BY DEF IInv, ResumeWaitid
  <1>2. CASE sched' = return_to_user(sched) /\ UNCHANGED <<children, child_stats, wait_args, panic>>
    BY <1>2, ReturnStep DEF ResumeWaitid
  <1>3. CASE WaitLoop(sched.current, wait_args[sched.current].id, wait_args[sched.current].options)
    <2>1. /\ wait_args[sched.current].id \in WaitIds \cup {P_ALL}
          /\ wait_args[sched.current].options \in WaitOptions \cup {{}}
      BY TypeFacts DEF IInv, TypeOK
    <2> QED
      BY <1>1, <1>3, <2>1, WaitLoopStep DEF ResumeWaitid
  <1> QED
    BY <1>2, <1>3 DEF ResumeWaitid

\* A process that schedule() switched to returns to user mode.
LEMMA ResumeUserStep ==
    ASSUME IInv, ResumeUser
    PROVE  IInv' /\ SlotsAdvance
  <1>1. CASE sched' = return_to_user(sched)
    BY <1>1, ReturnStep DEF ResumeUser
  <1>2. CASE sched' = [sched EXCEPT !.pc[sched.current] = "user"]
    <2>1. sched \in SchedType /\ Sound(sched) /\ sched.current \in Slots
      BY TypeFacts DEF IInv
    <2>2. /\ sched' \in SchedType
          /\ sched'.state = sched.state /\ sched'.current = sched.current
          /\ sched'.ready_queue = sched.ready_queue
          /\ sched'.pc = [sched.pc EXCEPT ![sched.current] = "user"]
          /\ sched.pc \in [Slots -> {"new", "user", "yielded", "waiting"}]
      BY <1>2, <2>1 DEF SchedType
    <2>3. Sound(sched')
      BY <2>1, <2>2 DEF Sound, Queued
    <2>4. sched'.pc[IDLE] # "waiting"
      BY <2>1, <2>2, SlotFacts DEF IInv
    <2> QED
      BY <2>2, <2>3, <2>4, QuietStep DEF ResumeUser
  <1> QED
    BY <1>1, <1>2 DEF ResumeUser

-----------------------------------------------------------------------------
\* The state that sched_start and create_init leave satisfies the invariant.
LEMMA InitIInv ==
    ASSUME Init
    PROVE  IInv
  <1>1. TypeOK
    <2>1. children \in ListType
      <3> DEFINE nodes == [x \in Nodes |-> LIST_POISON]
                 l == [next |-> nodes, prev |-> nodes]
      <3>1. l \in ListType
        BY DEF ListType
      <3>2. children = INIT_LIST_HEAD(INIT_LIST_HEAD(l, Kids(IDLE)), Kids(INIT))
        BY DEF Init, InitialChildren
      <3> HIDE DEF l
      <3> QED
        BY <3>1, <3>2, InitHeadType, NodeFacts, SlotFacts
    <2>2. sched \in SchedType
      BY SlotFacts DEF Init, InitialSched, SchedType, States
    <2>3. gen \in [Slots -> Int] /\ parent_pid \in [Slots -> Slots \X Int]
      BY SlotFacts DEF Init, InitialGen
    <2>4. /\ child_stats \in [Slots -> Seq(Slots \X Int)]
          /\ wait_args \in [Slots -> [id : WaitIds \cup {P_ALL}, options : WaitOptions \cup {{}}]]
          /\ panic = "no"
      BY DEF Init
    <2> QED
      BY <2>1, <2>2, <2>3, <2>4 DEF TypeOK, ListType
  <1>2. Sound(sched)
    <2>1. /\ sched.ready_queue = <<INIT>> /\ sched.current = IDLE
          /\ sched.state = [p \in Slots |-> IF p \in {IDLE, INIT} THEN "READY" ELSE "DEAD"]
      BY DEF Init, InitialSched
    <2> QED
      BY <2>1, SlotFacts DEF Sound, Queued, Contains, NoDuplicates
  <1>3. \A p \in Slots : child_stats[p] = << >>
    BY DEF Init
  <1>4. StatsOK(child_stats, Zombies)
    BY <1>3 DEF StatsOK
  <1>5. NoMissedStatus
    BY <1>3 DEF NoMissedStatus, Matching
  <1>6. /\ NoReapPanic /\ gen[INIT] = 0 /\ parent_pid[INIT] = <<INIT, 0>>
        /\ sched.state[INIT] # "DEAD" /\ sched.pc[IDLE] # "waiting"
    BY SlotFacts DEF Init, InitialSched, InitialGen, NoReapPanic
  <1> QED
    BY <1>1, <1>2, <1>4, <1>5, <1>6 DEF IInv

\* Every step of the kernel keeps the invariant.
LEMMA StepIInv ==
    ASSUME IInv, [Next]_vars
    PROVE  IInv' /\ SlotsAdvance
  <1>1. CASE sys_fork
    BY <1>1, ForkStep
  <1>2. CASE sys_exit
    BY <1>2, ExitStep
  <1>3. CASE sys_yield
    BY <1>3, PreemptStep DEF sys_yield
  <1>4. CASE tick
    BY <1>4, PreemptStep DEF tick
  <1>5. CASE \E id \in Pids, sig \in Signals : sys_kill(id, sig)
    BY <1>5, KillStep
  <1>6. CASE \E id \in WaitIds, options \in WaitOptions, bad_infop \in BOOLEAN :
                 sys_waitid(id, options, bad_infop)
    BY <1>6, WaitidStep
  <1>7. CASE ResumeWaitid
    BY <1>7, ResumeWaitidStep
  <1>8. CASE ResumeUser
    BY <1>8, ResumeUserStep
  <1>9. CASE UNCHANGED vars
    <2>1. sched' \in SchedType /\ Sound(sched') /\ sched' = sched
      BY <1>9, TypeFacts DEF vars, IInv, Sound, Queued, NoDuplicates
    <2>2. sched'.pc[IDLE] # "waiting"
      BY <2>1 DEF IInv
    <2> QED
      BY <1>9, <2>1, <2>2, QuietStep DEF vars
  <1> QED
    BY <1>1, <1>2, <1>3, <1>4, <1>5, <1>6, <1>7, <1>8, <1>9 DEF Next, Halted

\* The inductive invariant holds in every state the kernel reaches.
THEOREM InvariantIInv == Spec => []IInv
  <1>1. Init => IInv
    BY InitIInv
  <1>2. IInv /\ [Next]_vars => IInv'
    BY StepIInv
  <1> QED
    BY <1>1, <1>2, PTL DEF Spec

-----------------------------------------------------------------------------
(* The properties of module Process, for every value of its constants. *)

\* The state always has its declared shape.
THEOREM TypeCorrect == Spec => []TypeOK
  BY InvariantIInv, PTL DEF IInv

\* The ready queue never holds a process twice, never misses a READY process
\* and is never empty when schedule() takes its head.
THEOREM QueueCorrect == Spec => []ReadyQueueSound
  <1>1. IInv => ReadyQueueSound
    BY DEF IInv, Sound, ReadyQueueSound
  <1> QED
    BY <1>1, InvariantIInv, PTL

\* Every exit status names a zombie, and no two name the same.
THEOREM StatusCorrect == Spec => []StatusNamesZombie
  <1>1. IInv => StatusNamesZombie
    BY DEF IInv, StatsOK, StatusNamesZombie
  <1> QED
    BY <1>1, InvariantIInv, PTL

\* Nobody sleeps in waitid while it holds a status it waits for.
THEOREM WaitCorrect == Spec => []NoMissedStatus
  BY InvariantIInv, PTL DEF IInv

\* The panics "Tried to reap non-existant child" and "No init process" are
\* unreachable.
THEOREM ReapCorrect == Spec => []NoReapPanic
  BY InvariantIInv, PTL DEF IInv

\* A pid that has ceased to name a process never names one again.
THEOREM PidsNotRecycled == Spec => StalePidStaysStale
  <1> DEFINE Stale == \A id \in Pids : get_pcb(id) = NoPcb /\ id[2] <= gen[id[1]]
                                           => get_pcb(id)' = NoPcb
  <1>1. IInv /\ [Next]_vars => [Stale]_vars
    <2> SUFFICES ASSUME IInv, [Next]_vars, NEW id \in Pids,
                        get_pcb(id) = NoPcb, id[2] <= gen[id[1]]
                 PROVE  get_pcb(id)' = NoPcb
      OBVIOUS
    <2>1. SlotsAdvance
      BY StepIInv
    <2>2. id[1] \in Slots /\ id[2] \in Int /\ gen[id[1]] \in Int
      BY TypeFacts DEF Pids, IInv
    <2>3. sched.state[id[1]] = "DEAD" \/ gen[id[1]] # id[2]
      BY <2>2, SlotFacts DEF get_pcb
    <2>4. \/ gen'[id[1]] = gen[id[1]] /\ (sched.state[id[1]] = "DEAD" => sched'.state[id[1]] = "DEAD")
          \/ gen'[id[1]] = gen[id[1]] + 1
      BY <2>1, <2>2 DEF SlotsAdvance
    <2>5. sched'.state[id[1]] = "DEAD" \/ gen'[id[1]] # id[2]
      BY <2>2, <2>3, <2>4
    <2> QED
      BY <2>5 DEF get_pcb
  <1> QED
    BY <1>1, InvariantIInv, PTL DEF Spec, StalePidStaysStale
=============================================================================
