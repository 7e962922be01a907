------------------------------ MODULE Flexbuf -------------------------------
(***************************************************************************)
(* The buffer of a pipe (kernel/flexbuf.c): bytes in pages that are not    *)
(* contiguous, the first one entered at offset pos.  A pipe, its only      *)
(* client, keeps at most Limit bytes in it: PIPE_BUF, the size of a page.  *)
(*                                                                         *)
(* fb.page[i] is the page slot i points to.  Pages nobody points to any    *)
(* more may be handed out again here; pages counts those the kernel has    *)
(* really given away.  A word has WordSize values (2^32).                  *)
(*                                                                         *)
(* With a length of 0 at the start of a page the loop of flexbuf_do_io     *)
(* goes on far behind the descriptor.  It copies nothing, but it loads a   *)
(* pointer in each turn, and nothing says that there is memory: it comes   *)
(* back, or the kernel faults.                                             *)
(***************************************************************************)
EXTENDS Integers, Sequences

CONSTANTS FRAME_SIZE, Slots, WordSize, Limit, Bytes,
          MaxPages       \* bound: pages are counted up to here

ASSUME SizesAssumption ==
    /\ FRAME_SIZE \in Nat \ {0} /\ Limit \in Nat /\ Slots \in Nat \ {0}
    /\ WordSize \in Nat /\ WordSize % FRAME_SIZE = 0

Pages == 0 .. Slots          \* one more than there are slots
NONE  == -1                  \* a slot that was never assigned

VARIABLES fb,      \* size, pos, page
          mem,     \* page -> its bytes
          got,     \* the bytes the last flexbuf_dequeue returned
          io,      \* the slots the last flexbuf_do_io looked at
          pages,   \* how many pages are allocated
          fault    \* whether a load behind the descriptor has faulted

vars == <<fb, mem, got, io, pages, fault>>

Smaller(a, b) == IF a < b THEN a ELSE b

\* In unsigned arithmetic: a length of 0 at a page's start wraps.
pages_in_range(addr, len) ==
    ((((addr % FRAME_SIZE) + (len - 1)) % WordSize) \div FRAME_SIZE) + 1

nr_pages(pos, size) == IF size = 0 THEN 0 ELSE pages_in_range(pos, size)

-----------------------------------------------------------------------------
(* flexbuf_do_io *)

\* Turn k of the loop: nr_bytes before it, and start and end in its page.
Done(start, k)  == IF k = 0 THEN 0 ELSE (FRAME_SIZE - start) + (k - 1) * FRAME_SIZE
Begin(start, k) == IF k = 0 THEN start ELSE 0
End(start, length, k) ==
    IF k = 0 THEN Smaller(FRAME_SIZE, start + length)
    ELSE Smaller(FRAME_SIZE, length - Done(start, k))

\* The slots visited, and where in them byte i of the user's buffer is.
do_io(f, length, off) ==
    LET len   == Smaller(length, f.size - off)
        start == (f.pos + off) % FRAME_SIZE
        first == (f.pos + off) \div FRAME_SIZE
        turns == pages_in_range(f.pos + off, len)
        turn(i) == CHOOSE k \in 0 .. turns - 1 :
                      /\ Done(start, k) < i
                      /\ i <= Done(start, k) + End(start, len, k) - Begin(start, k)
    IN  [slots |-> first .. first + turns - 1,
         at    |-> [i \in 1 .. len |->
                       <<first + turn(i), Begin(start, turn(i)) + i - 1 - Done(start, turn(i))>>]]

ReadBytes(f, x) == [i \in DOMAIN x.at |-> mem[f.page[x.at[i][1]]][x.at[i][2]]]

WriteBytes(f, m, x, data) ==
    [p \in Pages |-> [o \in 0 .. FRAME_SIZE - 1 |->
        IF \E i \in DOMAIN x.at : f.page[x.at[i][1]] = p /\ x.at[i][2] = o
        THEN data[CHOOSE i \in DOMAIN x.at : f.page[x.at[i][1]] = p /\ x.at[i][2] = o]
        ELSE m[p][o]]]

-----------------------------------------------------------------------------
\* kalloc_pages(1) for each of the slots in new: pages that no slot in use
\* points to.
Fresh(used, new) ==
    CHOOSE g \in [new -> Pages \ used] : \A i, j \in new : g[i] = g[j] => i = j

GrownPages(f, size) == nr_pages(f.pos, size)

\* flexbuf_realloc to a larger size, within the slots of the descriptor.
flexbuf_realloc(f, size) ==
    LET old == nr_pages(f.pos, f.size)
        new == old .. GrownPages(f, size) - 1
        g   == Fresh({f.page[i] : i \in 0 .. old - 1}, new)
    IN  [f EXCEPT !.size = size,
                  !.page = [i \in DOMAIN @ |-> IF i \in new THEN g[i] ELSE @[i]]]

Init ==
    /\ fb = [size |-> 0, pos |-> 0, page |-> [i \in 0 .. Slots - 1 |-> NONE]]
    /\ mem = [p \in Pages |-> [o \in 0 .. FRAME_SIZE - 1 |-> 0]]
    /\ got = << >>
    /\ io = {}
    /\ pages = 0
    /\ fault = FALSE

\* flexbuf_do_io looks at these slots, some of them outside the descriptor.
MayFault(slots) ==
    /\ ~(slots \subseteq 0 .. Slots - 1)
    /\ fault' = TRUE
    /\ io' = slots
    /\ UNCHANGED <<fb, mem, got, pages>>

\* flexbuf_write at the end of the buffer.
flexbuf_enqueue(data) ==
    LET f == IF Len(data) > 0 THEN flexbuf_realloc(fb, fb.size + Len(data)) ELSE fb
        x == do_io(f, Len(data), fb.size)
        n == pages + nr_pages(f.pos, f.size) - nr_pages(fb.pos, fb.size)
    IN
    /\ ~fault /\ fb.size + Len(data) <= Limit
    /\ \/ MayFault(x.slots)
       \/ /\ fb' = f
          /\ mem' = WriteBytes(f, mem, x, data)
          /\ got' = << >>
          /\ io' = x.slots
          /\ pages' = Smaller(n, MaxPages)
          /\ UNCHANGED fault

\* Mutant: a page whose last byte has been read stays in the array.
Shift_Late(n) == (fb.pos + n - 1) \div FRAME_SIZE

Shift(n) == (fb.pos + n) \div FRAME_SIZE

PosAfter(n) == (fb.pos + n) % FRAME_SIZE

\* The pages that are used up leave the array and are not given back.
flexbuf_dequeue(n) ==
    LET x     == do_io(fb, n, 0)
        taken == Len(x.at)
        shift == Shift(taken)
    IN
    /\ ~fault
    /\ \/ MayFault(x.slots)
       \/ /\ got' = ReadBytes(fb, x)
          /\ fb' = [size |-> fb.size - taken,
                    pos  |-> PosAfter(taken),
                    page |-> [i \in DOMAIN fb.page |->
                                 IF i < shift THEN fb.page[i + shift] ELSE fb.page[i]]]
          /\ io' = x.slots
          /\ UNCHANGED <<mem, pages, fault>>

Data == UNION {[1 .. n -> Bytes] : n \in 0 .. Limit}

Next ==
    \/ \E data \in Data : flexbuf_enqueue(data)
    \/ \E n \in 1 .. Limit : flexbuf_dequeue(n)
    \/ fault /\ UNCHANGED vars

Spec == Init /\ [][Next]_vars

-----------------------------------------------------------------------------
(* Properties *)

\* The bytes in the buffer, as flexbuf_read would return them.
Contents == ReadBytes(fb, do_io(fb, fb.size, 0))

\* With at most a page of bytes in it, as in a pipe, the flexbuf is a queue:
\* whatever the offset of its first byte and however reads and writes fall
\* across the border of its two pages, flexbuf_dequeue returns the oldest bytes
\* in the order in which flexbuf_enqueue was given them.  This holds as long as
\* the kernel comes back from calls without a byte to copy (see the head of
\* this module), and is false of longer queues: the loop that moves the page
\* pointers moves only as many as have been used up.
Queue == INSTANCE Fifo WITH q <- Contents
QueueSpec == Queue!Spec

\* "performed by iterating over the range of pages involved in the I/O
\* request": flexbuf_do_io looks only at slots of the descriptor.
WithinDescriptor == io \subseteq 0 .. Slots - 1

\* flexbuf_nr_pages is the "Number of pages allocated for a flexbuf".
PagesCounted == pages = nr_pages(fb.pos, fb.size)
=============================================================================
