-------------------------------- MODULE Tty ---------------------------------
(***************************************************************************)
(* The terminal layer (drivers/tty.c) above the PC console: processes open *)
(* consoles, read lines, write and switch screens; the keyboard interrupt  *)
(* edits the line of the visible console and hands it to a reader.         *)
(*                                                                         *)
(* The kernel is not preempted, so a call is one step up to the point      *)
(* where it sleeps.  Between its wake-up and its turn to run a process is  *)
(* "woken": it is in the ready queue and still in the wait queue.  The     *)
(* order of the ready queue is left open.  A woken process that is woken   *)
(* again is linked into the ready queue twice; what the corrupted queue    *)
(* does then is not modelled and the behaviour ends (corrupt).  The same   *)
(* holds for a wait queue that is initialised while processes are in it.   *)
(*                                                                         *)
(* k is the state of the kernel:                                           *)
(*     cons, kb  the console (see Console) and the keyboard's modifiers    *)
(*     ttys      console -> slot of tty_table, 0 for NULL                  *)
(*     tty       slot -> struct tty; buffer is the line being edited       *)
(*     pool, made  buffers in the free list, buffers kmalloc'ed so far     *)
(*     dropped   buffers a tty had when its slot was initialised again     *)
(*     pc, rc    what a process does; what wait_interruptible returns      *)
(***************************************************************************)
EXTENDS Console, Printf, FiniteSets

CONSTANTS
    Procs,             \* processes; each has one terminal file
    NR_TTYS,
    TTY_BUFFER_SIZE,
    NBuffers,          \* kmalloc fails beyond this many buffers
    KBUF,              \* the size of kprintf's buffer
    Programs,          \* name -> what may happen in a behaviour: see MCTty
    MaxKeys, MaxSignals     \* bounds; a program has its own number of calls

VARIABLES
    k,
    file,       \* process -> [minor, tty] of its open file; tty 0: none
    req,        \* process -> the length it reads with
    program,    \* the name of the one that runs
    said,       \* what kprintf has just printed
    keys,       \* slot -> the characters typed since it was initialised
    got,        \* slot -> the characters read since then
    count       \* keys, calls and signals so far

vars == <<k, file, req, program, said, keys, got, count>>

Slots  == 1 .. NR_TTYS
UINT   == 2^30         \* stands for the 2^32 values of an unsigned int
NoFile == [minor |-> 0, tty |-> 0]
Silent == [print |-> << >>, text |-> << >>, ret |-> 0, hung |-> FALSE]
NULL   == [has |-> FALSE, data |-> << >>]

VEOF   == 4
VEOL   == NL
VERASE == BS

\* tty.index is never assigned: it keeps the 0 of the zeroed table.
ZeroTty == [flags |-> 0, open |-> 0, index |-> 0, buffer |-> NULL,
            wait |-> << >>, flushed |-> << >>]

-----------------------------------------------------------------------------
(* drivers/tty.c below its file operations *)

\* The buffers of a tty: its lines to be read and the one that is edited.
Buffers(t) == Len(t.flushed) + IF t.buffer.has THEN 1 ELSE 0

init_tty(t) ==
    [t EXCEPT !.open = 0, !.flags = 1, !.buffer = NULL, !.wait = << >>, !.flushed = << >>]

FreeSlots(s) == {i \in Slots : s.tty[i].flags = 0}

\* The first free slot, 0 when there is none.
alloc_tty(s) == IF FreeSlots(s) = {} THEN 0 ELSE Min(FreeSlots(s))

free_tty(t) == [t EXCEPT !.flags = 0]

\* From the free list, or from kmalloc, which may fail.
CanAlloc(s) == s.pool > 0 \/ s.made < NBuffers

\* Mutant: the buffer is used and stays in the free list.
alloc_tty_buffer_Kept(s, i) ==
    LET t == IF CanAlloc(s) THEN [has |-> TRUE, data |-> << >>] ELSE NULL
    IN  [s EXCEPT !.tty[i].buffer = t,
                  !.made = IF s.pool = 0 /\ CanAlloc(s) THEN @ + 1 ELSE @]

alloc_tty_buffer(s, i) ==
    LET t == IF CanAlloc(s) THEN [has |-> TRUE, data |-> << >>] ELSE NULL
    IN  [s EXCEPT !.tty[i].buffer = t,
                  !.pool = IF @ > 0 THEN @ - 1 ELSE 0,
                  !.made = IF s.pool = 0 /\ CanAlloc(s) THEN @ + 1 ELSE @]

free_tty_buffer(s) == [s EXCEPT !.pool = @ + 1]

\* The first of the wait queue becomes ready and stays in the queue.
wake_first(s, q) ==
    IF q = << >> THEN s
    ELSE IF s.pc[Head(q)] = "waiting"
    THEN [s EXCEPT !.pc[Head(q)] = "woken", !.rc[Head(q)] = 0]
    ELSE [s EXCEPT !.corrupt = TRUE]

tty_buffer_flush(s, i) ==
    alloc_tty_buffer(wake_first([s EXCEPT !.tty[i].flushed =
                                     Append(@, [data |-> s.tty[i].buffer.data, read |-> 0])],
                                s.tty[i].wait), i)

\* The echo goes to the console the tty's index names.
Echo(s, i, c) == [s EXCEPT !.cons = console_write(@, s.tty[i], <<c>>)]

InsertRaw(s, i, c) == Echo([s EXCEPT !.tty[i].buffer.data = Append(@, c)], i, c)

Erase(s, i) ==
    Echo([s EXCEPT !.tty[i].buffer.data = IF @ = << >> THEN @ ELSE Front(@)], i, BS)

FlushIf(s, i, line_done) ==
    IF line_done \/ Len(s.tty[i].buffer.data) >= TTY_BUFFER_SIZE
    THEN tty_buffer_flush(s, i) ELSE s

Edit(s, i, c) ==
    CASE ~s.tty[i].buffer.has -> s                             \* -ENOMEM
      [] c = VERASE -> FlushIf(Erase(s, i), i, FALSE)
      [] c = VEOL   -> FlushIf(InsertRaw(s, i, c), i, TRUE)
      [] c = VEOF   -> FlushIf(s, i, TRUE)
      [] OTHER      -> FlushIf(InsertRaw(s, i, c), i, FALSE)

tty_insert_char(s, i, c) ==
    Edit(IF s.tty[i].buffer.has THEN s ELSE alloc_tty_buffer(s, i), i, c)

-----------------------------------------------------------------------------
Init ==
    \* Boot has cleared console 0; the rest of the memory is zero.
    /\ k = [cons |-> [mem     |-> [i \in Consoles |-> [j \in 1 .. CONSOLE_SIZE |-> 0]],
                      offset  |-> [i \in Consoles |-> 0],
                      vga     |-> Blank(CONSOLE_SIZE),
                      visible |-> 0, cursor |-> 0],
            kb   |-> {}, ttys |-> [i \in Consoles |-> 0], tty |-> [i \in Slots |-> ZeroTty],
            pool |-> 0, made |-> 0, dropped |-> 0, corrupt |-> FALSE,
            pc   |-> [p \in Procs |-> "user"], rc |-> [p \in Procs |-> 0]]
    /\ file = [p \in Procs |-> NoFile]
    /\ program \in DOMAIN Programs
    /\ req \in [Procs -> Programs[program].lens]
    /\ said = Silent
    /\ keys = [i \in Slots |-> << >>] /\ got = [i \in Slots |-> << >>]
    /\ count = [keys |-> 0, calls |-> 0, signals |-> 0]

InUser(p) == ~k.corrupt /\ k.pc[p] = "user"
Call(name) ==
    /\ name \in Programs[program].calls
    /\ count.calls < Programs[program].max /\ count' = [count EXCEPT !.calls = @ + 1]

\* driver->op->open and what follows it in tty_open; i is the slot.
tty_opened(s, i, index) ==
    [s EXCEPT !.cons = console_open(@, s.tty[i]), !.ttys[index] = i, !.tty[i].open = @ + 1]

\* tty_open: -ENXIO for a minor the driver does not have, -ENOMEM without a
\* free slot, else the console's tty, a fresh one the first time.
tty_open(p, index) ==
    LET old   == k.ttys[index]
        fresh == alloc_tty(k)
    IN
    /\ InUser(p) /\ file[p] = NoFile /\ Call("open")
    /\ \/ /\ index < NR_CONSOLES => old = 0 /\ fresh = 0
          /\ UNCHANGED <<k, file, keys, got>>
       \/ /\ index < NR_CONSOLES /\ old # 0
          /\ k' = tty_opened(k, old, index)
          /\ file' = [file EXCEPT ![p] = [minor |-> index, tty |-> old]]
          /\ UNCHANGED <<keys, got>>
       \/ /\ index < NR_CONSOLES /\ old = 0 /\ fresh # 0
          /\ k' = tty_opened([k EXCEPT !.tty[fresh] = init_tty(@),
                                        !.dropped = @ + Buffers(k.tty[fresh]),
                                        !.corrupt = k.tty[fresh].wait # << >>], fresh, index)
          /\ file' = [file EXCEPT ![p] = [minor |-> index, tty |-> fresh]]
          /\ keys' = [keys EXCEPT ![fresh] = << >>] /\ got' = [got EXCEPT ![fresh] = << >>]
    /\ said' = Silent /\ UNCHANGED <<req, program>>

\* tty_release looks the tty up again; ttys keeps pointing to a freed one.
tty_release(p) ==
    LET i == k.ttys[file[p].minor]
    IN
    /\ InUser(p) /\ file[p] # NoFile /\ Call("close")
    /\ k' = [k EXCEPT !.cons = console_close(@, k.tty[i]),
                      !.tty[i] = IF @.open = 1 THEN free_tty([@ EXCEPT !.open = 0])
                                 ELSE [@ EXCEPT !.open = ((@ + UINT) - 1) % UINT]]
    /\ file' = [file EXCEPT ![p] = NoFile]
    /\ said' = Silent /\ UNCHANGED <<req, program, keys, got>>

-----------------------------------------------------------------------------
(* tty_read *)

tty_buffer_copy(b, len) ==
    SubSeq(b.data, b.read + 1, b.read + Smaller(len, Len(b.data) - b.read))

tty_buffer_empty(b) == b.read = Len(b.data)

\* Mutant: what does not fit the caller's buffer is dropped with the line.
Consumed_Whole(s, i, n) == free_tty_buffer([s EXCEPT !.tty[i].flushed = Tail(@)])

\* The line gives n characters; it is freed when it has no more.
Consumed(s, i, n) ==
    LET b == [Head(s.tty[i].flushed) EXCEPT !.read = @ + n]
    IN  IF tty_buffer_empty(b)
        THEN free_tty_buffer([s EXCEPT !.tty[i].flushed = Tail(@)])
        ELSE [s EXCEPT !.tty[i].flushed = <<b>> \o Tail(@)]

wait_interruptible(s, p, i) ==
    [s EXCEPT !.pc[p] = "waiting", !.tty[i].wait = Append(@, p)]

\* The loop of tty_read and what follows it, from state s.
ReadOrWait(s, p, i) ==
    IF s.tty[i].flushed = << >>
    THEN k' = wait_interruptible(s, p, i) /\ UNCHANGED got
    ELSE \E out \in {tty_buffer_copy(Head(s.tty[i].flushed), req[p])} :
            /\ k' = Consumed([s EXCEPT !.pc[p] = "user"], i, Len(out))
            /\ got' = [got EXCEPT ![i] = @ \o out]

tty_read(p) ==
    /\ InUser(p) /\ file[p] # NoFile /\ Call("read")
    /\ ReadOrWait(k, p, file[p].tty)
    /\ said' = Silent /\ UNCHANGED <<file, req, program, keys>>

\* The rest of wait_interruptible: off the queue, -EINTR or another turn.
Resume(p) ==
    LET i == file[p].tty
        s == [k EXCEPT !.tty[i].wait = Remove(@, p)]
    IN
    /\ ~k.corrupt /\ k.pc[p] = "woken"
    /\ \/ k.rc[p] # 0 /\ k' = [s EXCEPT !.pc[p] = "user"] /\ UNCHANGED got
       \/ k.rc[p] = 0 /\ ReadOrWait(s, p, i)
    /\ said' = Silent /\ UNCHANGED <<file, req, program, keys, count>>

-----------------------------------------------------------------------------
tty_write(p, text) ==
    /\ InUser(p) /\ file[p] # NoFile /\ Call("write")
    /\ k' = [k EXCEPT !.cons = console_write(@, k.tty[file[p].tty], text)]
    /\ said' = Silent /\ UNCHANGED <<file, req, program, keys, got>>

\* TCGETS copies the termios and changes nothing.
tty_ioctl(p, command) ==
    /\ InUser(p) /\ file[p] # NoFile /\ Call("ioctl")
    /\ k' = [k EXCEPT !.cons = console_ioctl(@, k.tty[file[p].tty], command)]
    /\ said' = Silent /\ UNCHANGED <<file, req, program, keys, got>>

\* The kernel prints, from whatever call or interrupt it is in.  A print
\* that never returns is the end of the behaviour.
kprintf ==
    /\ ~k.corrupt /\ Call("kprintf")
    /\ \E print \in Programs[program].prints :
       \E out \in {vsnprintf(KBUF, Formats(print), ArgumentsOf(print))} :
          /\ k' = [k EXCEPT !.cons = kputs(@, out.text), !.corrupt = out.hung]
          /\ said' = [print |-> print, text |-> out.text, ret |-> out.ret, hung |-> out.hung]
    /\ UNCHANGED <<file, req, program, keys, got>>

\* A signal that the sleeping process handles wakes it.
Signal(p) ==
    /\ ~k.corrupt /\ k.pc[p] = "waiting"
    /\ count.signals < MaxSignals /\ count' = [count EXCEPT !.signals = @ + 1]
    /\ k' = [k EXCEPT !.pc[p] = "woken", !.rc[p] = 1]
    /\ said' = Silent /\ UNCHANGED <<file, req, program, keys, got>>

\* The keyboard interrupt with scan code s: F1... switch the console, other
\* keys go to the tty of the visible console, if it was ever opened.
int_keyboard(s) ==
    LET i == k.ttys[k.cons.visible]
        c == kbtoa(k.kb, s)
        n == [k EXCEPT !.kb = kbstate(@, s)]
    IN
    /\ ~k.corrupt
    /\ count.keys < MaxKeys /\ count' = [count EXCEPT !.keys = @ + 1]
    /\ \/ /\ s \in 59 .. 58 + NR_CONSOLES
          /\ k' = [n EXCEPT !.cons = console_switch(@, s - 59)]
          /\ UNCHANGED keys
       \/ /\ s \notin 59 .. 58 + NR_CONSOLES
          /\ i # 0 /\ c # NOCHAR
          /\ k' = tty_insert_char(n, i, c % 256)
          /\ keys' = IF k.tty[i].buffer.has \/ CanAlloc(k)
                     THEN [keys EXCEPT ![i] = Append(@, c % 256)] ELSE keys
       \/ /\ s \notin 59 .. 58 + NR_CONSOLES
          /\ i = 0 \/ c = NOCHAR
          /\ k' = n
          /\ UNCHANGED keys
    /\ said' = Silent /\ UNCHANGED <<file, req, program, got>>

Next ==
    \/ \E p \in Procs :
          \/ \E index \in Programs[program].minors : tty_open(p, index)
          \/ \E text \in Programs[program].texts : tty_write(p, text)
          \/ \E command \in {"SWITCH", "CLEAR", "TCGETS"} : tty_ioctl(p, command)
          \/ tty_release(p)
          \/ tty_read(p)
          \/ Resume(p)
          \/ Signal(p)
    \/ kprintf
    \/ \E s \in Programs[program].keys : int_keyboard(s)

Spec == Init /\ [][Next]_vars

-----------------------------------------------------------------------------
(* Properties *)

\* What the characters ks amount to: an erase takes back the last character
\* of the line, and a line ends with VEOL, VEOF or when the buffer is full.
Cook(acc, c) ==
    LET line == CASE c = VERASE -> IF acc.line = << >> THEN << >> ELSE Front(acc.line)
                  [] c = VEOF   -> acc.line
                  [] OTHER      -> Append(acc.line, c)
    IN  IF c \in {VEOL, VEOF} \/ Len(line) = TTY_BUFFER_SIZE
        THEN [done |-> acc.done \o line, line |-> << >>]
        ELSE [done |-> acc.done, line |-> line]

Cooked(ks) ==
    LET r == FoldLeft(Cook, [done |-> << >>, line |-> << >>], ks) IN r.done \o r.line

Unread(t) ==
    FlattenSeq([n \in DOMAIN t.flushed |->
        SubSeq(t.flushed[n].data, t.flushed[n].read + 1, Len(t.flushed[n].data))]) \o t.buffer.data

\* The keyboard interrupt appends to a line while any number of readers take
\* from the flushed ones, with buffers of their own length, are interrupted
\* by signals and read again (tty_read, tty_insert_char).  What they have
\* read, in the order they read it, and what is still to be read are together
\* the text that was typed: nothing is lost, doubled or out of order, and an
\* erase never reaches a line that was handed over.  This holds also for the
\* tty that two consoles share, because ttys keeps pointing to a freed one
\* and alloc_tty gives its slot to another console.
InputInOrder ==
    \A i \in Slots : got[i] \o Unread(k.tty[i]) = Cooked(keys[i])

\* Not a property of the code: no reader sleeps in tty_read while there is a
\* line and nobody who was woken for it.  A reader with a small buffer takes
\* part of a line and leaves the rest beside the next sleeper, whom only
\* another line wakes.
NoSleeperLeft ==
    \A i \in Slots :
        LET in(state) == {p \in Procs : file[p].tty = i /\ k.pc[p] = state}
        IN  in("waiting") # {} /\ k.tty[i].flushed # << >> =>
                \E p \in in("woken") : k.rc[p] = 0

\* Nor is this one: wake_first finds a process that still sleeps.  The head
\* of the wait queue stays there until it runs, and the next line, or a line
\* after a signal, makes it ready a second time.
WokenOnce == [][\A s \in Programs[program].keys : int_keyboard(s) => ~k.corrupt']_vars

\* A tty buffer is in one place: the free list, a line to be read, or the line
\* that is edited.  None is lost or freed twice (tty_read, tty_buffer_flush,
\* alloc_tty_buffer), also when kmalloc fails and when consoles share a tty;
\* only those of a slot that alloc_tty gives away again are, each once.
BuffersAccounted ==
    k.made = k.pool + k.dropped + FoldFunction(+, 0, [i \in Slots |-> Buffers(k.tty[i])])

\* The screens are kept apart: one step changes the screen of at most
\* one console, and switching (console_switch, from a key or an ioctl) changes
\* none, although the visible one's is in the screen memory and the others'
\* in constab.
ScreensApart ==
    [][/\ \E i \in Consoles : \A j \in Consoles \ {i} : console_mem(k.cons, j)' = console_mem(k.cons, j)
       /\ k.cons.visible' # k.cons.visible =>
             \A j \in Consoles : console_mem(k.cons, j)' = console_mem(k.cons, j)]_vars

\* Not a property of the code: a write changes the screen of the console that
\* was opened.  tty.index is 0 for every tty.
OwnScreen ==
    [][\A p \in Procs, text \in Programs[program].texts :
          tty_write(p, text) =>
             \A j \in Consoles \ {file[p].minor} : console_mem(k.cons, j)' = console_mem(k.cons, j)]_vars

\* kprintf formats into a buffer on the stack (vsnprintf, KBUF bytes).  For
\* every directive, with its flags, widths, precisions and qualifiers, and
\* for the directives behind it, what it leaves there is what C99 says the
\* format stands for but for the six departures Printf names, cut to the
\* buffer and terminated, and it returns the length before the cut.  It fails
\* to return for decimal numbers of ten digits, and for nothing else.
PrintsAsSpecified ==
    said # Silent =>
        IF NeverEnds(said.print) THEN said.hung
        ELSE LET full == Printed(said.print, Telos)
             IN  /\ ~said.hung
                 /\ said.ret = Len(full)
                 /\ said.text = SubSeq(full, 1, Smaller(Len(full), KBUF - 1))

\* Not a property of the code: "follows C99 vsnprintf" (lib/vsprintf.c:816).
FollowsC99 ==
    said # Silent /\ ~said.hung => said.ret = Len(Printed(said.print, C99))
=============================================================================
