# Telos in TLA+

A TLA+ development for Telos, a small x86 kernel written in C. It models the
parts of the kernel in which several actors meet (processes, the timer and the
keyboard interrupt, signals, readers and writers) and the data structures they
meet in: the process table, timers, pipes, address spaces, the kernel's heap,
files, directories and mounts, the buffer cache, terminals. TLC checks small
instances; TLAPS proves invariants of the process table, of signals, of memory
areas and of the heap for every size of them.

Paths below are relative to `src/`.

## The system

One CPU. Every gate into the kernel disables interrupts, so kernel code is
atomic from one call of `schedule()` to the next; user code can be interrupted
anywhere by the timer (`tick`, 100 Hz), which always ends in `schedule()`. What
makes the kernel hard to test is therefore not preemption inside it but the
state that a system call reads before it sleeps and uses after it wakes, and
the wake-ups themselves.

| Part | Source | State | Operations | Meets |
|---|---|---|---|---|
| scheduler | `kernel/schedule.c`, `kernel/entry.S` | ready queue, `current`, `pcb.state`, `pcb.rc` | `ready`, `wake`, `zombie`, `reap`, `schedule` | everything |
| lists | `include/kernel/list.h` | `next`, `prev` of nodes embedded in pcbs, statuses, timers | `list_add_tail`, `list_del`, walks | everything |
| wait queues | `include/kernel/wait.h` | a list of pcbs | `wait_interruptible`, `wake_all`, `wake_first` | pipes, terminals, block layer |
| process table | `dispatch/process.c` | `proctab`, pids, parents, children, exit statuses | `fork`, `exec`, `exit`, `waitid`, `yield` | scheduler, signals, timers, memory, files |
| signals | `dispatch/signal.c` | pending set, mask, `restore`, actions, frames on the user stack | `kill`, `sigqueue`, `sigaction`, `sigprocmask`, `sigwait`, `sigsuspend`, `sigreturn`, `handle_signal` | every sleep, exit, timers |
| kernel timers | `kernel/timer.c` | a list sorted by expiry, `TF_ARMED` | `ktimer_start`, `ktimer_remove`, `ktimers_tick` | `tick` |
| time calls | `dispatch/time.c` | two timers per pcb, POSIX timers by id | `sleep`, `alarm`, `timer_create`, `timer_settime`, `timer_delete` | timers, signals, exit and reuse of slots |
| pipes | `fs/pipe.c` | buffer, two wait queues, two ends | `read`, `write`, `release` | wait queues, signals, flexbuf |
| flexbuf | `kernel/flexbuf.c` | pages, offset, size | `enqueue`, `dequeue`, `realloc` | pipes, page allocator |
| slab, kmalloc, kernel pages | `kernel/slab.c`, `kernel/kmalloc.c`, `kernel/paging.c` | slabs with bitmaps on three lists; a list of headers; mapped pages and `first_free` | `slab_alloc`, `slab_free`, `kmalloc`, `kfree`, `kalloc_pages`, `kfree_pages` | all object owners |
| frames and page tables | `kernel/paging.c` | reference counts, page table entries, free lists | `kalloc_frame`, `pm_copy`, `pm_unmap`, `copy_page` | fork, exit, faults |
| memory areas | `kernel/vma.c`, `kernel/mmap.c`, `dispatch/mem.c` | a sorted list of areas per process | `mmap`, `munmap`, `sbrk`, `vm_verify`, `vma_find` | page faults, exec, every user pointer |
| files | `fs/inode.c`, `fs/open.c`, `fs/fcntl.c`, `fs/read_write.c` | open files, descriptors, inodes, reference counts | `open`, `close`, `dup`, `read`, `write`, `lseek` | fork, exit, file systems |
| names and mounts | `fs/namei.c`, `fs/super.c` | directory tree, mount points, superblocks | lookup, `mkdir`, `unlink`, `rename`, `mount`, `umount` | file systems |
| file systems | `fs/ramfs`, `fs/modfs`, `fs/ext2` | inodes and directory entries | the inode operations | names, buffers |
| buffers, block layer | `fs/buffer.c`, `drivers/block` | buffers by block number, block size, requests | `read_block`, `flush_buffer`, `set_blocksize`, `submit_block` | file systems, drivers |
| terminals, console | `drivers/tty.c`, `drivers/pc_console.c`, `lib/kbtoa.c` | line buffers, wait queues, screens, modifier keys | key interrupt, `open`, `read`, `write`, `ioctl`, `release` | interrupts, wait queues, signals |
| formatted output | `lib/vsprintf.c` | none | `vsnprintf` | `kprintf`, the console |
| clock | `kernel/rtc.c` | CMOS registers | conversions | time calls |
| boot, descriptor tables, PIC, string library | `kernel/kernel.c`, `gdt.c`, `pic.c`, `lib/string.c` | | run once, or pure | |

The hard behaviours, with the line where each bites, are the "hazards" of
`PROJECT.json`: wake-ups that race with each other or with a process's turn to
run, slots and pids that are reused while others still point to them, lists
whose nodes are linked twice or unlinked twice, work that is done in several
blocks with a sleep in between, references that an error path forgets, cached
bounds and copies that go stale, and offsets at the edges of pages and blocks.

## Modules

```
List   Sched   KTimer   Fifo      AddressSpaces  Vma    PageHeap  List
   \  /  | \    /         | (ref.)        |       /          |  \  / |
 Process |  Time       Flexbuf         Memory             Kmalloc  Slab
    |  Signal Pipe                        |                   \   /
    |    |                          MemoryProofs              Heap -- HeapProofs
    |  SignalProofs
ProcessProofs

Inode - Ramfs - Namei - Super - Vfs          FileSpec   Vsprintf - Printf   Console
                                                | (ref.)               \    /
                                 RamFile, Block - FileIO                 Tty
```

- **List** (`include/kernel/list.h`): next and prev pointers of embedded nodes,
  with exactly the stores of the C functions and no checks. Process, Slab and
  Kmalloc use it.
- **Sched** (`kernel/schedule.c`, `needs_wake` of `dispatch/signal.c`): operators
  on a record with `state`, `rc`, `ready_queue` and `current`. `schedule` takes
  the head of the queue; idle steps back if somebody else is queued. Modules
  add fields of their own to the record.
- **Process** (`dispatch/process.c`): all slots of the process table; `fork`,
  `exit`, `waitid`, `kill`, `yield`, the tick. A pid is a slot with a
  generation. `children` keeps the real pointers, for the code leaves orphans
  linked in the list of a dead parent. `panic` names the panic or endless loop
  that ended a behaviour.
- **Signal** (`dispatch/signal.c`): one process, all its signal state, against
  senders. Masks are sets of signal numbers, with 29 for the bits above them.
  A handler is a frame with the mask it will restore.
- **KTimer** (`kernel/timer.c`) and **Time** (`dispatch/time.c`): the timer list
  as operators, and the calls of several processes on it. `tick_count` wraps
  at `TickRange`; `now` and `due` do not and exist for the properties.
- **Pipe** (`fs/pipe.c`): readers and writers on one pipe. A step is one turn of
  a loop in `pipe_read` or `pipe_write`, because the process may sleep there.
- **Flexbuf** (`kernel/flexbuf.c`): pages and offsets, in unsigned arithmetic.
  **Fifo** is what it promises: a queue of bytes.
- **Vma** (`kernel/vma.c`, the list half of `kernel/mmap.c`, `pm_apply`): areas
  as operators on a set of records; the list is kept in order, so the first
  area with a property is the one that starts lowest.
- **Memory** (`kernel/paging.c`, `dispatch/mem.c`, exec and fork as far as memory
  goes, the page fault): frames with counts, directories, one page table per
  address space, husks, the kernel's page tables. A frame has contents, and a
  freed one holds "stale", so that a page that was not cleared shows.
  **AddressSpaces** is what user mode is promised: every process has pages of
  its own, a new page holds nothing that anybody stored, and fork copies.
- **PageHeap** (`kalloc_pages` and `kfree_pages` of `kernel/paging.c`): the pages
  of the kernel's heap that are mapped, and `first_free`. **Kmalloc**
  (`kernel/kmalloc.c`): headers in units of 16 bytes, first fit, splitting.
  **Slab** (`kernel/slab.c`): one cache with its bitmaps and three lists.
  **Heap** lets all three be called in any order on the same pages, with a ledger
  (`owner`, `runs`) of who was given what.
- **Inode** (`fs/inode.c`), **Ramfs** (`fs/ramfs`, `fs/modfs`), **Namei**
  (`fs/namei.c`, `fs/open.c`, `fs/stat.c`, `fs/fcntl.c`) and **Super**
  (`fs/super.c`): operators on a record of tables (inodes, open files, directory
  entries, super blocks, processes), each returning the tables and a result as
  the C function does. **Vfs** makes each system call a step.
- **RamFile** (the contents of a ramfs file, in frames), **Block** (`fs/buffer.c`,
  `drivers/block`, the block maps of `fs/ext2`) and **FileIO**
  (`fs/read_write.c`): reading and writing ramfs files, a block device, and an
  ext2 file on it. **FileSpec** is what a program is promised: a file is an
  array of cells, each call moves a stretch of them and returns how much; and
  what ramfs does otherwise at the ends of frames.
- **Console** (`drivers/pc_console.c`, `lib/kbtoa.c`) and **Tty**
  (`drivers/tty.c`): screens, the cursor, keys and their modifiers; terminals,
  line editing, readers that sleep. The screen is a sequence of cells; a write
  outside it has no meaning and would stop TLC.
- **Vsprintf** (`lib/vsprintf.c`): decoding of a format and the conversions,
  character by character, because the property is about the characters.
  **Printf** is the reference: what C99 says a directive stands for, written
  from directives and not from format strings, and the six places in which the
  code departs from it.
- **MCProcess, ... MCTty**: the constants of the instances.
- **ProcessProofs**, **SignalProofs**, **MemoryProofs** and **HeapProofs**: the
  theorems about Process, Signal, Memory with Vma, and Heap.

How steps correspond to code: an action is a system call, or an interrupt, up
to its return to user mode or its call of `schedule()`; a `Resume...` action is
the rest of it after `schedule()` returned. `return_to_user` (the end of nearly
every action) is `handle_signal` on the way out, in `kernel/entry.S`. Where the
code links a node that is linked or unlinks one that is not, the pointers mean
nothing afterwards; Time and Pipe end the behaviour there with a reason in
`panic` ("requeued", "relinked", "fault"), Tty with `corrupt`; Process, Slab and
Kmalloc follow the pointers.

## Runs

| Run | Instance | Shows |
|---|---|---|
| `process_table` | 5 slots, each pid advanced at most once, waitid for any child, blocking or not | The ready queue holds exactly the READY processes, once; every exit status names a zombie and no zombie has two; nobody sleeps in waitid on a status it could take; a walk over a list of children ends, although reaped orphans write into the lists of later owners; a stale pid stays stale. |
| `process_live` | 4 slots, no reuse, SIGKILL, waitid for any child or a particular one, fair | A queued process gets the CPU; a process that was sent SIGKILL exits, unless SIGCHLD had just woken it from waitid for another child. |
| `process_orphan` | 5 slots, one reuse | Violated: see below. |
| `signal` | SIGALRM, SIGURG, SIGKILL; masks none and all; every call; any number of signals sent, two frames; fair | A woken sleeper was woken by a signal that is pending and, in sigsuspend, accepted; it is queued once; a pending SIGKILL is never dropped, handled or taken by sigwait, and ends the process but for two ways around that `KillEnds` names; what is pending and let through is delivered, unless higher signals never cease. |
| `time` | two processes and idle, three ticks, intervals 0 to 2, one POSIX timer, kill, one reuse | A tick fires exactly what is due; whether the timer, a signal or both wake a sleeper, what `schedule()` returns to it fits its timer: gone if 0, else linked with the right remaining time; `t_sleep` is free whenever its process can call sleep. |
| `pipe` | two writers, one reader, PIPE_BUF 2, EINTR 2, three writes of 1 or 3 bytes, two signals, blocking and not; fair | A reader sleeps only on an empty pipe with a writer, a writer only on a full one, which is never overfull; a write puts its bytes in order and without gaps, and its result differs from what it put by EINTR for each signal between two blocks and by nothing else; a sleeping reader sees the end of file. |
| `flexbuf` | pages of 3 bytes, at most one page's worth in the buffer (as PIPE_BUF is), two byte values | Flexbuf implements Fifo, up to a call without a byte to copy that faults behind the descriptor. |
| `memory` | three processes, four calls in any order, five user pages of which two are touched, seven frames, one husk, two zombies at a time | The count of a frame is the number of references to it, and whoever can write to it is its only user; areas are disjoint, cover what is mapped, and `pm_apply` visits exactly their pages; directories have all kernel tables, and kmap_page_table writes to nothing else but, in the case `KernelShared` names, the evicted directory of a zombie; Memory implements AddressSpaces. |
| `heap` | four pages of five units, blocks of 2 and 5 units, slabs of two objects with three bits, runs of one and two pages | No two callers hold the same memory, or a header, or memory that is not mapped; kmalloc's blocks tile its pages; the lists hold exactly the free blocks, and each slab according to its objects; `first_free` is the least free page; no page changes hands without being freed. |
| `vfs` | two processes with two descriptors each, an ext2 root of five inodes, with or without a ramfs on a directory of it, slab memory zero at first or not, four calls that change something | Counts of inodes and files cover those who hold them; lookup crosses every mount down and up again and follows no other inode's `i_mount`; directory entries lead to inodes and make up the link counts; a lookup gives back all it took, wherever it ends; no regular file on a read-only file system is open for writing. |
| `fileio` | four calls on two open files of one ramfs file, or on a device of 37 sectors and an ext2 file on it with three levels of indirection, at positions before, at and behind the end | The frames of a file hold its size; no two buffers are of the same bytes; the blocks of an ext2 file are found in its order, through what the device and its buffers hold; reads return what was written, positions move by what is returned, and nothing else changes: FileIO implements FileSpec. |
| `tty` | two processes, two consoles of 2 x 2 cells, four keys, line buffers of two characters, one signal; five programs, with up to five calls; 16,000 format strings | What readers have got and what is left is what was typed; a line buffer is in one place or was dropped with the slot of a freed tty; a step changes at most one screen, and switching none; kprintf prints what C99 says but for six departures, and fails to return for decimal numbers of ten digits and for nothing else. |

Bounds. Four slots are idle, init and two more: enough for a child, a grandchild
that becomes an orphan, and a status handed to init; reuse of an orphan's
parent slot with a child of the new owner needs a fifth. The number of signals
sent in Signal has no bound; three signal numbers have the
three kinds of default (terminate, ignore, unblockable), and two frames a
handler on top of another. Two signals in Pipe end two waits of one write. Three ticks let two
timers be due in the same tick, in order and out of order. PIPE_BUF = 2 has
empty, partly full and full; a length of 1 makes writes that fit, 3 is longer
than a block and needs several turns; three writes make
one writer start again while the other sleeps. Pages of 3 bytes
give every offset of a first byte with reads and writes inside and across a
page. Page tables of four entries put the fixed mapping across two
tables for `pm_apply`. Seven frames are enough for three directories with their
tables and too few for all pages, so that faults, forks and exec also run out
of memory. Four calls make a chain of two forks with a reuse or an eviction of
a husk, or a fork between mmap, munmap, sbrk and exec; ten temporary slots let
the third fork of a process fail. Two zombies at a time fill the list of husks
while the directory of the first is still named. With five calls TLC
finds no error either (752,000 states), in a time too long for a regular run.

Four pages let a run of two be found behind a gap and the heap be full; blocks of
2 units leave a rest to split off and blocks of 5 need two pages; a bitmap longer
than the objects of a slab is what the code has. Ten inodes are the five of the
volume, a ramfs and three files; four calls make, for example, mkdir, open in
it, unlink and close, or mount, chdir, umount; five find no error either
(628,000 states). The name ab lets an entry be reused by a shorter name. Blocks of two sectors on the
volume, against one sector of the raw device, make transfers begin and end
inside blocks; two pointers to a block reach the third level of indirection
with a file of 15 sectors. A buffer of 16 characters (`KBUF`) cuts many of the
outputs. The `Numbers` of MCTty have every number of digits and the borders at
which the code changes how it divides.

Deadlock is checked in the runs with a scheduler or a halted state: the idle
process can always be interrupted, and Memory stops after its last call with
`Halted`. In Heap all pages may be in use, and Vfs, FileIO and Tty end with their
last call, so `heap`, `vfs`, `fileio` and `tty` do not check it. `Halted` and
`Over` stand for a stopped kernel and the end of the modelled time.

Where the code does not do what one would expect, a property names the
exception and says that there is no other: `KilledExits`, `KillEnds`,
`WriteReturnsWhatItWrote`, `KernelShared`, `MountsPaired`, `BuffersAccounted` and, in
the abstract modules, FileSpec (frames' ends) and Printf (departures from C99).
Where the code follows a pointer that means nothing, a behaviour ends, with the
reason in a variable: `panic`, `corrupt` (Tty), `lost` (Vfs: an `i_mount` or a buffer
that was never set, a working directory given back by one of two processes that
share it), `fault` (FileIO: a block behind the device's end). The properties of
Vfs say nothing of such a last state. `MountsPaired` is about slab memory that
was zero at first: `iget` never sets `i_mount`. Each of these ends is refutable
on its own, see the table below.

### Fairness

Weak fairness of the tick (interrupts are enabled in user mode and the PIT does
not stop), and of the `Resume...` actions (the kernel finishes what it has
begun). In Pipe system calls take several steps, during which the interrupt
stays pending and is taken on the way out: strong fairness of the tick. In
Process a process inside `sig_terminate` executes the few instructions to its
`exit` if it gets the CPU again and again: strong fairness of that exit, per
slot. Nothing else that user programs do is assumed.

### Where code and documentation part

One run ends in a violation of what the repository says, with the quotation in
`PROJECT.json`:

- `process_orphan`: orphans stay linked in the list of their dead parent's pcb.
  When the slot is reused, reaping the orphan drops the new owner's child from
  its list, and that child later reaches the panic "has no parent".

The modules state more properties that one would expect and that the code does
not have. No run lists them; the named configuration with the property in place
of its own makes TLC print the behaviour:

| Property | Configuration | What happens |
|---|---|---|
| `HolderCanCollect` (Process) | `Process_orphan.cfg` | init is given an orphan's status and waitid answers -ECHILD, for orphans are not linked into init's children. |
| `KilledExits` (Process), without `SleepsOnKill` | `Process_live.cfg` | SIGCHLD wakes a waitid for one particular child, SIGKILL arrives before it runs, waitid finds no match and sleeps again on it. |
| `SuspendSeesPending`, `SigwaitSeesPending` (Signal) | `Signal.cfg` | sigsuspend, and the second turn of sigwait, sleep without looking at the pending set. |
| `SuspendEndsInHandler` (Signal, PROPERTY) | `Signal.cfg` | The one signal delivered may be an ignored one; sigsuspend returns with its temporary mask in force. |
| `StopNotBlocked` (Signal) | `Signal.cfg`, Signals = {2, 23, 27, 28} | `SIG_NOIGNORE` is built with `BIT(n)` where a mask has signal n at bit n - 1. |
| `NoRequeue` (Pipe) | `Pipe.cfg` | wake_all wakes a process that it has woken already and that has not run. |
| `AtomicWrites` (Pipe) | `Pipe.cfg` | A write of at most PIPE_BUF bytes that finds the pipe partly full sleeps in the middle, although `fs/pipe.c:62` says "atomically with respect to other writers". |
| `NoDeadTimer` (Time) | `Time.cfg` | An armed POSIX timer of a process that has been reaped reaches the panic "POSIX timer expired for dead process". |
| `NoRequeue` (Time) | `Time.cfg` | alarm and sleep expire in one tick; wake_action queues the process again. |
| `ArmedIsLinked` (Time) | `Time.cfg` | ktimer_remove keeps TF_ARMED; the next alarm unlinks an unlinked timer. |
| `NoRelink`, `DeletedNotLinked` (Time) | `Time.cfg` | timer_settime links an armed timer again, timer_delete frees it while it is linked. |
| `FiresOnTime` (Time) | `Time.cfg`, TickRange = 8, FirstTick = 6, MaxTime = 12 | A timer due after the wrap of tick_count fires at once. |
| `WriteReturnsWhatItWrote` (Pipe), without `undone` | `Pipe.cfg` | After a signal between two blocks of a long write pipe_write steps back EINTR bytes and writes them again. |
| `QueueSpec` (Flexbuf) | `Flexbuf.cfg`, FRAME_SIZE = 2, Limit = 6 | With three pages, dequeue moves too few slots down. A pipe never has three. |
| `WithinDescriptor` (Flexbuf) | `Flexbuf.cfg` | pages_in_range of length 0 wraps at a page's start. |
| `PagesCounted` (Flexbuf) | `Flexbuf.cfg` | Used-up pages are dropped, not freed. |
| `NoStrayEntry` (Memory) | `Memory.cfg` | A full list of husks evicts the directory of a process that exited last and is not yet reaped; the kernel's next page table is written into the freed frame. |
| `TmpReleased` (Memory) | `Memory.cfg` | Every fork leaves temporary mappings behind, until kmap_tmp_page panics. |
| `VerifyAccepts` (Memory) | `Memory.cfg` | vm_verify compares the length with the distance to the area's start, not to its end, and refuses a buffer at the start of its area. |
| `MountsLead` (Vfs) | `Vfs.cfg` | umount keeps `s_dev`; mounting the device again finds the old super block, which has no root, and covers a directory with it. |
| `NothingLost` (Vfs) | `Vfs.cfg` | Slab memory that is not zero leaves `i_mount` and ext2's buffer pointer unset in a new inode; and a process that changes the working directory it shares gives back the other's. |
| `CreatedIsFound` (Vfs) | `Vfs.cfg` | An entry that had a longer name keeps the end of it. |
| `TransfersWhole` (FileIO) | `FileIO.cfg` | A ramfs read across a frame's end returns another length than it moved. |
| `WithinDevice` (FileIO) | `FileIO.cfg` | A read or write behind the device's end reaches the driver, which copies a negative length. |
| `NoSleeperLeft` (Tty) | `Tty.cfg` | A reader takes part of a line; the next sleeps beside the rest. |
| `WokenOnce` (Tty, PROPERTY) | `Tty.cfg` | A second line comes before the reader that the first has woken runs, and makes it ready again. |
| `OwnScreen` (Tty, PROPERTY) | `Tty.cfg` | `tty.index` is always 0: the writes of the second console go to the first. |
| `FollowsC99` (Tty) | `Tty.cfg` | "follows C99 vsnprintf" (`lib/vsprintf.c:816`), but for the six departures listed below. |

More departures were met while translating. Where a module contains the code it
does what the code does, and the properties are stated around it.

- Files and names. `open_namei` keeps the directory's reference on success and on
  EACCES and EROFS, and mknod, mkdir and rename keep it on some errors; fork
  shares `pwd` and `root` without counting; `sys_truncate` keeps its reference
  and works on a read-only file system (`include/kernel/fs.h:68` says MS_RDONLY
  "is always applied to the entire file system"); rename leaves the ".." of a
  directory it moves; ENOTBLK keeps an inode, a failed mount an unnamed device.
- File contents. `ramfs_read` and `ramfs_do_write` lose the part behind a frame's
  end when at most a frame's length crosses it, and return only the last
  piece's length for longer calls; truncation to 0 frees no frame. A hit in
  `find_buffer` is not counted, so that `b_count` wraps and `set_blocksize` may
  answer EBUSY; what is written behind the end of a module is lost.
- Heap. hfree leaves MAGIC_OK, so a second free is not noticed; blocks are never
  joined and slabs never given back; `kalloc_pages` never fails (`kernel/paging.c:765`,
  "TODO: if (i == LIMIT) fail()"); in the model a call that needs a page behind
  `LastPage` is not made.
- Terminals. `ttys` keeps a tty that was freed, which another console may get;
  the two then share it, and its line buffers are dropped.
- Formatted output ("follows C99 vsnprintf", `lib/vsprintf.c:816`). `put_dec` does
  not end for numbers from 10^9 on; the 0 flag is not ignored beside a
  precision; %#x of 0 has a prefix, %.0d of 0 prints it, %#o adds a digit to a
  precision; a negative `*` precision counts as 0, and a dot without digits as no
  precision; %p skips letters and digits behind it; %n stores although line 838 says it is ignored.

## Proofs

`ProcessProofs` proves, for every number of slots above two, every bound on
generations, every set of signals and of waitid arguments:

| Theorem | Says |
|---|---|
| `TypeCorrect` | `TypeOK` is invariant |
| `QueueCorrect` | `ReadyQueueSound`: the ready queue is exactly the READY processes other than current, without duplicates, and is not empty when its head is taken |
| `StatusCorrect` | `StatusNamesZombie` |
| `WaitCorrect` | `NoMissedStatus` |
| `ReapCorrect` | `NoReapPanic` |
| `PidsNotRecycled` | `StalePidStaysStale` |

All rest on one inductive invariant, `IInv`. `ReadyQueueSound` is inductive only
together with the facts that idle never sleeps in waitid and that slots which
are not READY are in no queue. `StatusNamesZombie` needs more than itself: that
a status names a zombie *by generation*, that no two name the same, and that
init's own pid appears only with init, so that init is never reaped; from it
follows `NoReapPanic`. `NoMissedStatus` needs that SIGCHLD always wakes a
waiter, whichever way a status arrives.

The proof has one lemma per kernel primitive (`ScheduleSound`, `KillSound`,
`ReturnSound`, `ReadySound`), one per operation on the queues of statuses
(`StatsAppend`, `StatsMove`, `StatsRemove`, `StatsReset`), one per action
(`ForkStep`, `ExitStep`, `WaitLoopStep`, ...), and `StepIInv` puts them
together. The only assumptions are those on the constants, `NSlotsAssumption`
and `SignalsAssumption`.

`HeapProofs` proves, for every number of pages, every page size, every size of
object and bitmap and every set of request sizes:

| Theorem | Says |
|---|---|
| `FirstFreeIsLeast` | `FirstFreeLeast`: `first_free` is free and no page below it is |
| `OwnersStayApart` | `OwnersApart`: a page of kmalloc, of a slab or of a caller is never handed to another before it is freed |
| `HeapIsTiled` | `HeapTiled`: kmalloc's blocks, with their headers, divide its pages without overlap or gap |

The first two rest on `PageInv`. `OwnersApart` follows from `MappedIsOwned` (a page
is mapped exactly while it has an owner), which `kfree_pages` keeps only because
the runs callers hold are disjoint and theirs (`RunsOwned`), and that
`kalloc_pages` keeps only because of `MappedIsOwned`. `HeapInv` adds the types of
the headers and `HeapTiled`; `CarveTiles` (a block is taken whole or cut in two),
`GrowTiles` (new pages become one block) and `PagesSuffice` (they hold what was
asked for) are its core. Nothing is assumed of the free list: `FitIsBlock` shows
that a first fit found in any list is a block that is large enough. The
assumptions are those on the constants, in PageHeap, Kmalloc, Slab and Heap.

`SignalProofs` proves, for every set of signals with SIGKILL among them, every
set of masks and any number of signals sent:

| Theorem | Says |
|---|---|
| `WokenCorrect` | `WokenBySignal`: whoever was woken from sigwait or sigsuspend finds a signal pending, in sigsuspend an accepted one, and is queued once |
| `KillTaken` | `KillStartsExit`: a pending SIGKILL stays pending until sig_terminate starts |

`WokenBySignal` is about a process that was woken and has not run. It is
inductive with `Placed`: only a READY process runs, and a process that sleeps
does so in the call that put it to sleep, so that a wake-up finds it at the
right place. The queue is one of five sequences, so the proof handles it by cases
and needs no induction. `KillStartsExit` is an action property; it rests on
`KillInv`, that the action of SIGKILL stays the default and sigwait never waits
for it, and on `frames` being a sequence, however deep. That SIGKILL then ends
the process (`KillEnds`) is liveness and left to TLC.

`MemoryProofs` proves `AreasCorrect`: `AreasDisjoint` is invariant, for every page
size, every size of page tables and of user space, any number of processes and
whatever they pass to mmap, munmap, sbrk and exec, with two limits
(`ArgumentsAssumption`): addresses do not wrap at the word size, and no fixed
mapping ends at address 0; `sys_mmap` checks neither. The inductive invariant
`AreasInv` is that the areas of every slot are `Sound`, that is whole pages,
possibly none, and apart from each other, and that the break of a live process
is in user space, so that `get_heap` has a page to look for. Five lemmas carry it, one per operation:
`FixedSound` and `GrowSound`, where the code compares a length that is not yet
rounded up (enough, for the next area begins with a page), `HighSound`,
`PageSound` and `MunmapSound`. The half of `AreasDisjoint` about `pm_apply` is
`PmApply`, arithmetic about quotients alone: it needs no alignment, and
holds also for the empty piece that munmap cuts from an area that ends where
the range begins.

Only model-checked: `FrameCounts` and the other properties of Memory,
`ChildrenWalkable`, `ListsSound` and what rests on walks over lists (the walk is a
recursive function), `AllocationsDisjoint`, everything about liveness, the three
refinements, and the other modules. Tty, what it uses, and FileIO have
RECURSIVE operators, about which nothing can be proved with the prover's SMT
backend; the operators of Namei and Super are compositions too long for a proof
to be worth its length.

## Not modelled

- `kernel/rtc.c`: the clock is read once at boot from hardware registers; the
  rest is arithmetic on a date.
- Boot, descriptor tables, the interrupt controller (`kernel/kernel.c`, `gdt.c`,
  `pic.c`): run once, before there is a second actor.
- `lib/string.c`, `itoa.c`, `kstrtox.c`, the bit operations of `include/asm`: pure
  functions on bytes; the modules use what they mean. The bprintf half of
  `lib/vsprintf.c` has no caller.
- readdir of ramfs and ext2, and the layout of ext2's directory blocks: a lookup
  in a directory of the volume is a lookup in a function from names to inodes.
- Shared file mappings with write-back, and the references to files that
  mappings hold; they would join Memory with Vfs, beyond what TLC can explore.
- Reading ELF headers and arguments in exec, siginfo values, the layout of frames
  on the user stack, register contents: data of no property.
- Permissions (`permission()` grants everything), MS_NODEV, and device numbers
  beyond the tables.

## Plan

1. Proofs of `FrameCounts`, and of `AllocationsDisjoint` from `HeapIsTiled` and
   `OwnersStayApart`, with an invariant for the slab lists.
2. A proof of `SleepersCannotGoOn` of Pipe; a refinement of a bounded queue by
   Pipe without signals.
3. Shared file mappings.
