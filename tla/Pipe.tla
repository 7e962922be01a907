-------------------------------- MODULE Pipe --------------------------------
(***************************************************************************)
(* One pipe (fs/pipe.c) between reading and writing processes, on the wait *)
(* queues of include/kernel/wait.h and the scheduler of module Sched.  The *)
(* flexbuf that holds the bytes is a queue here; module Flexbuf is about   *)
(* how it keeps them.                                                      *)
(*                                                                         *)
(* A byte is <<writer, i>>: the i-th byte of a write of that writer.  A    *)
(* step is one turn of a loop of pipe_read or pipe_write; the process      *)
(* stays in the kernel, where nothing interrupts it, until it returns or   *)
(* sleeps.  A pcb that is put into the ready queue while it is there ends  *)
(* a behaviour ("requeued"): the queue means nothing then.                 *)
(***************************************************************************)
EXTENDS Sched, SequencesExt

CONSTANTS Readers, Writers,  \* process slots; 0 is the idle process
          PIPE_BUF,
          EINTR, EAGAIN,     \* the error numbers
          Lengths,           \* how many bytes reads and writes ask for
          MaxCalls,          \* bound: writes of all writers
          MaxSignals         \* bound: signals sent

ASSUME SlotsAssumption ==
    Readers \subseteq Nat \ {0} /\ Writers \subseteq Nat \ {0} /\ Readers \cap Writers = {}
ASSUME SizesAssumption ==
    /\ PIPE_BUF \in Nat /\ EINTR \in 1 .. PIPE_BUF /\ EAGAIN \in Nat \ {0}
    /\ Lengths \subseteq Nat \ {0}

Procs == Readers \cup Writers
Slots == {IDLE} \cup Procs
SIGUSR1 == 17

VARIABLES
    sched,        \* state, rc, ready_queue, current (see Sched), pending, panic
    pc,           \* slot -> "user", "preempted", "new", "reading", "writing",
                  \*   "read_wait", "write_wait", "closed"
    buf,          \* pipe->buf
    read_wait, write_wait,   \* the wait queues
    nonblock,     \* O_NONBLOCK in the f_flags of both ends
    req,          \* slot -> its call: len asked for, nr bytes of whole blocks,
                  \*   blk bytes of the block being written
    calls,        \* writer -> the lengths of its writes so far
    written,      \* auxiliary: writer -> for each write, the bytes put into the pipe
    results,      \* auxiliary: writer -> what its writes returned
    undone,       \* auxiliary: writer -> for each write, how often -EINTR was added
                  \*   to its count of bytes
    signals

pipe == <<buf, read_wait, write_wait>>
vars == <<sched, pc, pipe, nonblock, req, calls, written, results, undone, signals>>

Running    == sched.panic = "no"
closed     == {p \in Procs : pc[p] = "closed"}
write_end  == ~(Writers \subseteq closed)
headroom   == PIPE_BUF - Len(buf)
Smaller(a, b) == IF a < b THEN a ELSE b

Init ==
    /\ sched = [state       |-> [p \in Slots |-> "READY"],
                rc          |-> [p \in Slots |-> 0],
                ready_queue |-> SetToSeq(Procs),
                current     |-> IDLE,
                pending     |-> [p \in Slots |-> FALSE],
                panic       |-> "no"]
    /\ pc = [p \in Slots |-> IF p = IDLE THEN "user" ELSE "new"]
    /\ buf = << >> /\ read_wait = << >> /\ write_wait = << >>
    /\ nonblock \in BOOLEAN
    /\ req = [p \in Procs |-> [len |-> 0, nr |-> 0, blk |-> 0]]
    /\ calls = [w \in Writers |-> << >>]
    /\ written = [w \in Writers |-> << >>]
    /\ results = [w \in Writers |-> << >>]
    /\ undone = [w \in Writers |-> << >>]
    /\ signals = 0

-----------------------------------------------------------------------------
\* wake_all: the woken processes stay in the wait queue until they run.
wake_one(s, p) ==
    IF s.panic # "no" \/ Contains(s.ready_queue, p) \/ s.current = p
    THEN [s EXCEPT !.panic = "requeued"] ELSE wake(s, p, 0)

wake_all(s, q) == FoldLeft(wake_one, s, q)

\* wait_interruptible up to its schedule().
wait_interruptible(p) == schedule([sched EXCEPT !.state[p] = "INTERRUPTIBLE"])

\* Back to user mode; the handler of a pending signal runs there.
return_to_user(s, p) ==
    /\ sched' = [s EXCEPT !.pending[p] = FALSE]
    /\ pc' = [pc EXCEPT ![p] = "user"]
    /\ req' = [q \in Procs |-> IF q = p THEN [len |-> 0, nr |-> 0, blk |-> 0] ELSE req[q]]

InKernel(p, where) == Running /\ sched.current = p /\ pc[p] = where

-----------------------------------------------------------------------------
(* pipe_read *)

sys_read(r, len) ==
    /\ InKernel(r, "user")
    /\ pc' = [pc EXCEPT ![r] = "reading"]
    /\ req' = [req EXCEPT ![r].len = len]
    /\ UNCHANGED <<sched, pipe, nonblock, calls, written, results, undone, signals>>

SchedAfterRead == wake_all(sched, write_wait)

pipe_read(r) ==
    /\ InKernel(r, "reading")
    /\ \/ /\ buf # << >>
          /\ buf' = SubSeq(buf, Smaller(req[r].len, Len(buf)) + 1, Len(buf))
          /\ return_to_user(SchedAfterRead, r)
          /\ UNCHANGED read_wait
       \/ /\ buf = << >>
          /\ ~write_end \/ nonblock                    \* 0 or -EAGAIN
          /\ return_to_user(sched, r)
          /\ UNCHANGED <<buf, read_wait>>
       \/ /\ buf = << >>
          /\ write_end /\ ~nonblock
          /\ read_wait' = Append(read_wait, r)
          /\ sched' = wait_interruptible(r)
          /\ pc' = [pc EXCEPT ![r] = "read_wait"]
          /\ UNCHANGED <<buf, req>>
    /\ UNCHANGED <<write_wait, nonblock, calls, written, results, undone, signals>>

\* Woken up: off the wait queue, then -EINTR or another turn.
ResumeRead(r) ==
    /\ InKernel(r, "read_wait")
    /\ read_wait' = Remove(read_wait, r)
    /\ \/ sched.rc[r] # 0 /\ return_to_user(sched, r)
       \/ sched.rc[r] = 0 /\ pc' = [pc EXCEPT ![r] = "reading"] /\ UNCHANGED <<sched, req>>
    /\ UNCHANGED <<buf, write_wait, nonblock, calls, written, results, undone, signals>>

-----------------------------------------------------------------------------
(* pipe_write *)

sys_write(w, len) ==
    /\ InKernel(w, "user")
    /\ MapThenSumSet(LAMBDA v : Len(calls[v]), Writers) < MaxCalls
    /\ calls' = [calls EXCEPT ![w] = Append(@, len)]
    /\ pc' = [pc EXCEPT ![w] = "writing"]
    /\ req' = [req EXCEPT ![w].len = len]
    /\ written' = [written EXCEPT ![w] = Append(@, << >>)]
    /\ undone' = [undone EXCEPT ![w] = Append(@, 0)]
    /\ UNCHANGED <<sched, pipe, nonblock, results, signals>>

\* Mutant: every turn starts at the beginning of the user's buffer.
Src_FromStart(w, from, to) == [i \in 1 .. to - from + 1 |-> <<w, i>>]

\* Bytes from .. to of the call w is in.
Src(w, from, to) == [i \in 1 .. to - from + 1 |-> <<w, from + i - 1>>]

flexbuf_enqueue(w, bytes) ==
    /\ buf' = buf \o bytes
    /\ written' = [written EXCEPT ![w][Len(calls[w])] = @ \o bytes]

write_returns(s, w, rc) ==
    /\ return_to_user(s, w)
    /\ results' = [results EXCEPT ![w] = Append(@, rc)]

\* How much the next turn of pipe_do_write enqueues.
ThisLen(w) ==
    Smaller(Smaller(req[w].len - req[w].nr, PIPE_BUF) - req[w].blk, headroom)

\* The O_NONBLOCK cases that return before the loop.
pipe_write_nonblock(w) ==
    LET len == req[w].len
    IN
    /\ InKernel(w, "writing") /\ nonblock /\ req[w].nr = 0 /\ req[w].blk = 0
    /\ \/ /\ (len <= PIPE_BUF /\ len > headroom) \/ (len > PIPE_BUF /\ headroom = 0)
          /\ write_returns(sched, w, -EAGAIN)
          /\ UNCHANGED <<buf, written>>
       \/ /\ len > PIPE_BUF /\ headroom > 0
          /\ flexbuf_enqueue(w, Src(w, 1, headroom))
          /\ write_returns(sched, w, headroom)
    /\ UNCHANGED <<read_wait, write_wait, nonblock, calls, undone, signals>>

\* Mutant: readers are not told of a single byte.
SchedAfterWrite_OffByOne(n) == IF n > 1 THEN wake_all(sched, read_wait) ELSE sched

SchedAfterWrite(n) == IF n > 0 THEN wake_all(sched, read_wait) ELSE sched

\* One turn of the loop in pipe_do_write; when it ends a block, pipe_write
\* goes on to the next one or returns.
pipe_do_write(w) ==
    LET nr       == req[w].nr
        blk      == req[w].blk + ThisLen(w)
        this_len == Smaller(req[w].len - nr, PIPE_BUF)
        s        == SchedAfterWrite(ThisLen(w))
    IN
    /\ InKernel(w, "writing")
    /\ nonblock /\ nr = 0 /\ req[w].blk = 0 => req[w].len <= headroom
    /\ flexbuf_enqueue(w, Src(w, nr + req[w].blk + 1, nr + blk))
    /\ \/ /\ blk = this_len /\ nr + blk = req[w].len
          /\ write_returns(s, w, nr + blk)
          /\ UNCHANGED write_wait
       \/ /\ blk = this_len /\ nr + blk < req[w].len
          /\ sched' = s
          /\ req' = [req EXCEPT ![w].nr = nr + blk, ![w].blk = 0]
          /\ UNCHANGED <<pc, results, write_wait>>
       \/ /\ blk < this_len
          /\ write_wait' = Append(write_wait, w)
          /\ sched' = IF s.panic # "no" THEN s
                      ELSE schedule([s EXCEPT !.state[w] = "INTERRUPTIBLE"])
          /\ pc' = [pc EXCEPT ![w] = "write_wait"]
          /\ req' = [req EXCEPT ![w].blk = blk]
          /\ UNCHANGED results
    /\ UNCHANGED <<read_wait, nonblock, calls, undone, signals>>

\* Woken up.  After a signal pipe_do_write returns the bytes of the block, or
\* -EINTR when it has none, and pipe_write adds that to nr_bytes.  From less
\* than EINTR that gives a number beyond every length, which write returns;
\* otherwise pipe_write goes on, with a count of EINTR bytes less.
ResumeWrite(w) ==
    LET none == req[w].blk = 0
        nr   == req[w].nr + (IF none THEN -EINTR ELSE req[w].blk)
    IN
    /\ InKernel(w, "write_wait")
    /\ write_wait' = Remove(write_wait, w)
    /\ \/ /\ sched.rc[w] = 0
          /\ pc' = [pc EXCEPT ![w] = "writing"]
          /\ UNCHANGED <<sched, req, results, undone>>
       \/ /\ sched.rc[w] # 0
          /\ undone' = [undone EXCEPT ![w][Len(calls[w])] = IF none THEN @ + 1 ELSE @]
          /\ \/ nr < 0 /\ write_returns(sched, w, nr)
             \/ /\ nr >= 0
                /\ pc' = [pc EXCEPT ![w] = "writing"]
                /\ req' = [req EXCEPT ![w].nr = nr, ![w].blk = 0]
                /\ UNCHANGED <<sched, results>>
    /\ UNCHANGED <<buf, read_wait, nonblock, calls, written, signals>>

-----------------------------------------------------------------------------
\* Mutant: each end tells its own side.
SchedAfterClose_Swapped(p) ==
    IF p \in Readers
    THEN IF Readers \subseteq closed \cup {p} THEN wake_all(sched, read_wait) ELSE sched
    ELSE IF Writers \subseteq closed \cup {p} THEN wake_all(sched, write_wait) ELSE sched

\* The last reader's close tells the writers, and the other way round.
SchedAfterClose(p) ==
    IF p \in Readers
    THEN IF Readers \subseteq closed \cup {p} THEN wake_all(sched, write_wait) ELSE sched
    ELSE IF Writers \subseteq closed \cup {p} THEN wake_all(sched, read_wait) ELSE sched

\* p exits and its end of the pipe is closed.
pipe_release(p) ==
    /\ InKernel(p, "user")
    /\ pc' = [pc EXCEPT ![p] = "closed"]
    /\ LET s == SchedAfterClose(p)
       IN  sched' = IF s.panic # "no" THEN s ELSE schedule(zombie(s, p))
    /\ UNCHANGED <<pipe, nonblock, req, calls, written, results, undone, signals>>

\* The running process sends q a signal that q handles.
sys_kill(q) ==
    /\ Running /\ pc[sched.current] = "user" /\ sched.current # IDLE
    /\ q # sched.current /\ pc[q] # "closed"
    /\ signals < MaxSignals /\ signals' = signals + 1
    /\ LET s == [sched EXCEPT !.pending[q] = TRUE]
       IN  sched' = IF needs_wake(s, q, FALSE, TRUE) THEN wake(s, q, SIGUSR1) ELSE s
    /\ UNCHANGED <<pc, pipe, nonblock, req, calls, written, results, undone>>

tick ==
    LET p == sched.current
    IN
    /\ InKernel(p, "user")
    /\ sched' = schedule(ready(sched, p))
    /\ pc' = [pc EXCEPT ![p] = "preempted"]
    /\ UNCHANGED <<pipe, nonblock, req, calls, written, results, undone, signals>>

ResumeUser ==
    LET p == sched.current
    IN
    /\ Running /\ pc[p] \in {"preempted", "new"}
    /\ return_to_user(sched, p)
    /\ UNCHANGED <<pipe, nonblock, calls, written, results, undone, signals>>

Halted == ~Running /\ UNCHANGED vars

ReaderStep(r) == pipe_read(r) \/ ResumeRead(r)
WriterStep(w) == pipe_do_write(w) \/ pipe_write_nonblock(w) \/ ResumeWrite(w)

\* A read takes what is there: beyond PIPE_BUF its length makes no difference.
Next ==
    \/ \E r \in Readers, n \in 1 .. PIPE_BUF : sys_read(r, n)
    \/ \E w \in Writers, n \in Lengths : sys_write(w, n)
    \/ \E r \in Readers : ReaderStep(r)
    \/ \E w \in Writers : WriterStep(w)
    \/ \E p \in Procs : pipe_release(p) \/ sys_kill(p)
    \/ tick
    \/ ResumeUser
    \/ Halted

Spec == Init /\ [][Next]_vars

\* The timer interrupts, and the kernel finishes what it has begun.  A timer
\* interrupt that comes while a process is in the kernel stays pending and is
\* taken on the way out, so system calls cannot put it off for ever.
FairSpec ==
    /\ Spec
    /\ SF_vars(tick) /\ WF_vars(ResumeUser)
    /\ \A r \in Readers : WF_vars(ReaderStep(r))
    /\ \A w \in Writers : WF_vars(WriterStep(w))

-----------------------------------------------------------------------------
(* Properties *)

Blocked(p) == sched.state[p] = "INTERRUPTIBLE"

\* No wake-up is lost between a look at the buffer and the sleep that follows:
\* a reader sleeps only while the pipe is empty and has a writer, a writer only
\* while it is full.  It never holds more: pipe_headroom, an unsigned
\* difference, would wrap and let writers in without end.
SleepersCannotGoOn ==
    /\ Len(buf) <= PIPE_BUF
    /\ Running =>
          /\ \A r \in Readers : Blocked(r) => buf = << >> /\ write_end
          /\ \A w \in Writers : Blocked(w) => Len(buf) = PIPE_BUF

\* Whoever writes in between and whatever signals come, a write puts its bytes
\* into the pipe in order and leaves none out: each is the first one or comes
\* after the one before it.  One that returns n has put exactly its first n
\* bytes, each of them once, but for this: where a signal ends the wait for
\* room for a new block, pipe_write takes the -EINTR for a count of bytes and
\* goes back by EINTR of them.  Every such signal makes the result smaller by
\* EINTR than what was put, or the pipe get EINTR bytes twice, and there is no
\* other way for the two to differ.
WriteReturnsWhatItWrote ==
    \A w \in Writers : \A c \in DOMAIN calls[w] :
        LET put == written[w][c]
        IN
        /\ \A i \in DOMAIN put : \/ put[i] = <<w, 1>>
                                 \/ \E j \in 1 .. i - 1 : put[i] = <<w, put[j][2] + 1>>
        /\ c \in DOMAIN results[w] =>
              LET n == results[w][c]
              IN  \/ n = -EAGAIN /\ put = << >>
                  \/ /\ Len(put) = n + EINTR * undone[w][c]
                     /\ n >= 0 => Range(put) = {<<w, i>> : i \in 1 .. n}

\* A reader that sleeps when the last writer goes away sees the end of file.
EofSeen ==
    \A r \in Readers : (pc[r] = "read_wait" /\ ~write_end) ~> (pc[r] = "user" \/ ~Running)

\* "atomically with respect to other writers": while a writer sleeps in the
\* middle of a block, nobody's bytes come after the ones it has put.
AtomicWrites ==
    \A w \in Writers :
        pc[w] = "write_wait" /\ req[w].blk > 0 /\ buf # << >> => Last(buf)[1] = w

\* A process is never put into the ready queue a second time.
NoRequeue == Running
=============================================================================
