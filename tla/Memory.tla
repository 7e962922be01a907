------------------------------- MODULE Memory -------------------------------
(***************************************************************************)
(* Address spaces of several processes: page directories, page tables and  *)
(* frames (kernel/paging.c), areas (kernel/vma.c, module Vma), the page    *)
(* fault (kernel/interrupt.c), and the calls that change them: fork, exit, *)
(* execve, mmap, munmap, sbrk.                                             *)
(*                                                                         *)
(* Kernel code runs without interruption, so a call is one step; between   *)
(* two steps any live process may be the current one.  The page tables of  *)
(* an address space are one table, allocated when first needed, and the    *)
(* NR_HIGH_PAGES frames of a page directory (directory, temporary table,   *)
(* kernel stack), which are only ever allocated and freed together, are    *)
(* one frame.  Frames are alike, so which one the pool hands out is left   *)
(* to CHOOSE.  The list of husks keeps its order.                          *)
(***************************************************************************)
EXTENDS Vma, Sequences

CONSTANTS NProcs,       \* process slots
          NPages,       \* user space ends with page NPages
          NFrames, MAX_HUSKS,
          TmpSlots,     \* entries of the temporary page table
          Program,      \* slot -> the calls its program makes
          Data,         \* what programs store
          Touched,      \* the pages they touch
          Mmaps,        \* the <<addr, len, prot, op, fixed>> they pass to mmap
          Ranges,       \* the <<addr, len>> they pass to munmap
          Incs,         \* the increments they pass to sbrk
          ArgSizes,     \* the sizes of the arguments they pass to execve
          MaxCalls, MaxZombies, MaxKernelTables   \* bounds

Procs  == 1 .. NProcs
INIT   == 1
Pages  == 0 .. NPages
Frames == 1 .. NFrames
NONE   == 0             \* no frame

user_base   == FRAME_SIZE
kernel_base == (NPages + 1) * FRAME_SIZE
HEAP_START  == 2 * FRAME_SIZE

Zero == "zero"
Args == "args"
File == "file"
Stale == "stale"        \* whatever the last owner of a free frame left in it
Values == Data \cup {Zero, Args, File}

ASSUME MemoryAssumption ==
    /\ NProcs \in Nat \ {0} /\ NPages \in Nat /\ NPages > 2 /\ NFrames \in Nat
    /\ MAX_HUSKS \in Nat \ {0} /\ TmpSlots \in Nat
    /\ MaxCalls \in Nat /\ MaxZombies \in Nat /\ MaxKernelTables \in Nat
    /\ Incs \subseteq Int
    /\ \A size \in ArgSizes : size \in Nat \ {0} /\ (size <= FRAME_SIZE \/ size > kernel_base)
    /\ Touched \subseteq Pages

\* The arguments of mmap and munmap.  The code checks neither of two things that
\* are assumed of them: that address plus length is below 2^32 (addresses are
\* natural numbers here), and that no fixed mapping of length 0 is at address 0,
\* which pm_apply would take for all of memory.
ASSUME ArgumentsAssumption ==
    /\ \A m \in Mmaps : /\ m[1] \in Nat /\ m[2] \in Nat /\ (m[5] => m[1] + m[2] > 0)
                        /\ m[3] \subseteq FlagNames /\ m[4] \in {"anon", "file"} /\ m[5] \in BOOLEAN
    /\ \A r \in Ranges : r[1] \in Nat /\ r[2] \in Nat

VARIABLES
    state,        \* slot -> "live", "zombie" or "dead"
    pgdir,        \* slot -> the frame of its page directory
    map, brk,     \* slot -> its areas, the end of its heap
    tab, kern,    \* what a directory holds: its user table, its kernel tables
    pte,          \* what a table holds: page -> [frame, rw, user]
    mem,          \* what a frame holds as a page
    ref, pool,    \* pf_info.ref, frame_pool
    husks,        \* husk_list
    kernel_pgdir, \* the kernel's page tables
    tmp,          \* entries of a directory's temporary table that stay in use
    panic, calls

tables == <<tab, kern, pte, mem, ref, pool>>
vars == <<state, pgdir, map, brk, tables, husks, kernel_pgdir, tmp, panic, calls>>

Absent == [frame |-> NONE, rw |-> FALSE, user |-> FALSE]
Empty  == [pg \in Pages |-> Absent]

HEAP_FLAGS   == {"VM_READ", "VM_WRITE", "VM_ZERO"}
USTACK_FLAGS == HEAP_FLAGS \cup {"VM_KEEP", "VM_KEEPEXEC"}
RODATA_FLAGS == {"VM_READ", "VM_KEEP"}

-----------------------------------------------------------------------------
(* Frames and page table entries. *)

\* kalloc_frame takes a frame from the pool and panics when there is none.
Pop(free) == CHOOSE f \in free : TRUE

CanAlloc(free, n) == Cardinality(free) >= n

vma_to_page_flags(f, flags) ==
    [frame |-> f, rw |-> "VM_WRITE" \in flags, user |-> "VM_READ" \in flags]

\* the entry for a page in the address space of p
Entry(p, pg) == IF tab[pgdir[p]] = NONE THEN Absent ELSE pte[tab[pgdir[p]]][pg]

\* how many of the pages S of p are mapped to f
Named(p, S, f) == Cardinality({pg \in S : Entry(p, pg).frame = f})

\* the area of p that holds a page, as a set
AreaOf(p, pg) == vma_get(map[p], pg * FRAME_SIZE)

Live(p) == state[p] = "live" /\ panic = "" 

CanCall(p, name) == Live(p) /\ calls < MaxCalls /\ name \in Program[p]

Panic(why) ==
    /\ panic' = why
    /\ UNCHANGED <<state, pgdir, map, brk, tables, husks, kernel_pgdir, tmp, calls>>

\* pm_unmap of areas that cover the pages S: the entries are cleared and the
\* frames lose a reference each.
RefAfterUnmap(p, S) == [f \in Frames |-> ref[f] - Named(p, S, f)]

Freed(newref) == {f \in Frames : ref[f] > 0 /\ newref[f] = 0}

MemAfterFree(newref) == [f \in Frames |-> IF f \in Freed(newref) THEN Stale ELSE mem[f]]

PteAfterUnmap(p, S) ==
    IF tab[pgdir[p]] = NONE THEN pte
    ELSE [pte EXCEPT ![tab[pgdir[p]]] =
             [pg \in Pages |-> IF pg \in S THEN Absent ELSE @[pg]]]

-----------------------------------------------------------------------------
(* The page fault, exn_page_fault. *)

\* What a new page holds: mmap_map reads the file, kalloc_frame clears the frame
\* if the area asks for it.
FirstContents(a, f) ==
    IF a.op = "file" THEN File ELSE IF "VM_ZERO" \in a.flags THEN Zero ELSE mem[f]

\* umap_page_table: the page table of p, a new one from free if there is none
umap_page_table(p, free) == IF tab[pgdir[p]] = NONE THEN Pop(free) ELSE tab[pgdir[p]]

FramesForPage(p) == IF tab[pgdir[p]] = NONE THEN 2 ELSE 1

\* The page is not present: vm_map_page.  map_page or mmap_map take a frame
\* first, then umap_page_table one for the table if there is none.
DemandPage(p, pg) ==
    /\ Live(p) /\ Entry(p, pg).frame = NONE
    /\ \E a \in AreaOf(p, pg) :
        LET d == pgdir[p]
            f == Pop(pool)
            t == umap_page_table(p, pool \ {f})
        IN  IF CanAlloc(pool, FramesForPage(p))
            THEN /\ pool' = pool \ {f, t}
                 /\ ref'  = [ref EXCEPT ![f] = 1, ![t] = 1]
                 /\ mem'  = [mem EXCEPT ![f] = FirstContents(a, f)]
                 /\ tab'  = [tab EXCEPT ![d] = t]
                 /\ pte'  = [pte EXCEPT ![t][pg] = vma_to_page_flags(f, a.flags)]
                 /\ UNCHANGED <<state, pgdir, map, brk, kern, husks, kernel_pgdir,
                                tmp, panic, calls>>
            ELSE Panic("out of memory!")

\* Mutant: the shared frame keeps its count.
copy_page_Leaks(p, pg, flags) ==
    LET f == Pop(pool)
    IN  /\ pte' = [pte EXCEPT ![tab[pgdir[p]]][pg] = vma_to_page_flags(f, flags)]
        /\ mem' = [mem EXCEPT ![f] = mem[Entry(p, pg).frame]]
        /\ ref' = [ref EXCEPT ![f] = 1]
        /\ pool' = pool \ {f}

\* copy_page: the entries and counts after a write to a page that another
\* address space may share.
copy_page(p, pg, flags) ==
    LET t == tab[pgdir[p]]
        old == Entry(p, pg)
        f == Pop(pool)
    IN  IF ref[old.frame] = 1
        THEN /\ pte' = [pte EXCEPT ![t][pg] = [old EXCEPT !.rw = @ \/ "VM_WRITE" \in flags,
                                                          !.user = @ \/ "VM_READ" \in flags]]
             /\ UNCHANGED <<mem, ref, pool>>
        ELSE /\ pte' = [pte EXCEPT ![t][pg] = vma_to_page_flags(f, flags)]
             /\ mem' = [mem EXCEPT ![f] = mem[old.frame]]
             /\ ref' = [ref EXCEPT ![f] = 1, ![old.frame] = @ - 1]
             /\ pool' = pool \ {f}

\* A store to a page that is present and not writable: vm_write_perm.
WriteFault(p, pg) ==
    /\ Live(p) /\ Entry(p, pg).frame # NONE
    /\ ~(Entry(p, pg).rw /\ Entry(p, pg).user)
    /\ \E a \in AreaOf(p, pg) :
        /\ "VM_WRITE" \in a.flags
        /\ IF ref[Entry(p, pg).frame] = 1 \/ CanAlloc(pool, 1)
           THEN /\ copy_page(p, pg, a.flags)
                /\ UNCHANGED <<state, pgdir, map, brk, tab, kern, husks, kernel_pgdir,
                               tmp, panic, calls>>
           ELSE Panic("out of memory!")

\* A store that the page table allows.
Store(p, pg, v) ==
    /\ Live(p) /\ Entry(p, pg).rw /\ Entry(p, pg).user
    /\ mem' = [mem EXCEPT ![Entry(p, pg).frame] = v]
    /\ UNCHANGED <<state, pgdir, map, brk, tab, kern, pte, ref, pool, husks,
                   kernel_pgdir, tmp, panic, calls>>

-----------------------------------------------------------------------------
(* fork, exit and the end of a zombie. *)

\* vm_clone takes write permission from private writable areas, in the table
\* of the parent and in that of the child.
WriteProtected(p) ==
    UNION {pm_apply(a) : a \in {b \in map[p] : "VM_WRITE" \in b.flags /\ "VM_SHARE" \notin b.flags}}

ParentTable(p) ==
    [pg \in Pages |-> IF pg \in WriteProtected(p) THEN [Entry(p, pg) EXCEPT !.rw = FALSE]
                                                  ELSE Entry(p, pg)]

\* Mutant: the child may write at once.
ChildTable_Writable(p) == [pg \in Pages |-> Entry(p, pg)]

ChildTable(p) == ParentTable(p)

\* clone_pgtab counts the new references
RefAfterClone(p) == [f \in Frames |-> ref[f] + Named(p, Pages, f)]

\* clone_pgdir leaves the parent's and the child's page table, and the one with
\* the temporary mappings itself, in the temporary table.  Fork needs two more
\* entries for a while; the other calls, which need no more than three and give
\* them back, are not held against TmpSlots.
TmpLeft(t) == IF t = NONE THEN 1 ELSE 3

\* new_pgdir: the last directory that became a husk, or a new one
new_pgdir == IF husks # <<>> THEN Head(husks) ELSE Pop(pool)

Fork(p, q) ==
    /\ CanCall(p, "fork") /\ state[q] = "dead"
    /\ LET old   == tab[pgdir[p]]
           reuse == husks # <<>>
           d     == new_pgdir
           t     == IF old = NONE THEN NONE ELSE Pop(pool \ {d})
           need  == (IF reuse THEN 0 ELSE 1) + (IF old = NONE THEN 0 ELSE 1)
       IN  IF tmp[pgdir[p]] + TmpLeft(old) + 2 > TmpSlots
           THEN Panic("Ran out of temporary address space!")
           ELSE IF ~CanAlloc(pool, need)
           THEN Panic("out of memory!")
           ELSE /\ state' = [state EXCEPT ![q] = "live"]
                /\ pgdir' = [pgdir EXCEPT ![q] = d]
                /\ map'   = [map EXCEPT ![q] = map[p]]
                /\ brk'   = [brk EXCEPT ![q] = brk[p]]
                /\ husks' = IF reuse THEN Tail(husks) ELSE husks
                /\ pool'  = pool \ {d, t}
                /\ ref'   = [f \in Frames |-> IF f \in {d, t} THEN 1 ELSE RefAfterClone(p)[f]]
                /\ tab'   = [tab EXCEPT ![d] = t]
                /\ kern'  = [kern EXCEPT ![d] = IF reuse THEN @ ELSE kernel_pgdir]
                /\ pte'   = [f \in Frames |->
                                IF f = t THEN ChildTable(p)
                                ELSE IF f = old THEN ParentTable(p) ELSE pte[f]]
                /\ tmp'   = [tmp EXCEPT ![pgdir[p]] = @ + TmpLeft(old),
                                        ![d] = IF reuse THEN @ ELSE 0]
                /\ calls' = calls + 1
                /\ UNCHANGED <<mem, kernel_pgdir, panic>>

\* The husk that free_pgdir frees to make room for the next.
Evicted == IF Len(husks) >= MAX_HUSKS THEN {Head(husks)} ELSE {}

\* mm_fini and free_pgdir: a full list of husks loses its first, and the
\* directory joins the list once husk_pgdir has dropped its page table with all
\* that is left in it.
Exit(p) ==
    /\ CanCall(p, "exit") /\ p # INIT
    /\ Cardinality({q \in Procs : state[q] = "zombie"}) < MaxZombies
    /\ LET d      == pgdir[p]
           gone   == Evicted \cup ({tab[d]} \ {NONE})
           newref == [f \in Frames |-> RefAfterUnmap(p, Pages)[f] - (IF f \in gone THEN 1 ELSE 0)]
       IN  /\ ref'   = newref
           /\ pool'  = pool \cup Freed(newref)
           /\ mem'   = MemAfterFree(newref)
           /\ pte'   = [f \in Frames |-> IF f \in gone THEN Empty ELSE pte[f]]
           /\ tab'   = [tab EXCEPT ![d] = NONE]
           /\ kern'  = [f \in Frames |-> IF f \in gone THEN {} ELSE kern[f]]
           /\ husks' = <<d>> \o (IF Evicted = {} THEN husks ELSE Tail(husks))
    /\ map'   = [map EXCEPT ![p] = {a \in @ : "VM_KEEP" \in a.flags}]
    /\ state' = [state EXCEPT ![p] = "zombie"]
    /\ calls' = calls + 1
    /\ UNCHANGED <<pgdir, brk, kernel_pgdir, tmp, panic>>

Reap(p) ==
    /\ state[p] = "zombie" /\ panic = ""
    /\ state' = [state EXCEPT ![p] = "dead"]
    /\ UNCHANGED <<pgdir, map, brk, tables, husks, kernel_pgdir, tmp, panic, calls>>

-----------------------------------------------------------------------------
(* Calls that change the areas. *)

AreaCall(p, newmap, newbrk) ==
    /\ map'   = [map EXCEPT ![p] = newmap]
    /\ brk'   = [brk EXCEPT ![p] = newbrk]
    /\ calls' = calls + 1
    /\ UNCHANGED <<state, pgdir, tables, husks, kernel_pgdir, tmp, panic>>

\* mmap_create_vma, with the address or without
mmap_create_vma(p, addr, len, flags, op, fixed) ==
    IF fixed THEN vma_create_fixed(map[p], addr, len, flags, op)
    ELSE vma_create_high(map[p], user_base, kernel_base, len, flags, op)

sys_mmap(p, addr, len, prot, op, fixed) ==
    LET flags == IF op = "anon" THEN prot \cup {"VM_ZERO"} ELSE prot
        new   == mmap_create_vma(p, addr, len, flags, op, fixed)
    IN  /\ CanCall(p, "mmap")
        /\ fixed => addr % FRAME_SIZE = 0
        /\ new # {}
        /\ AreaCall(p, new, brk[p])

\* Mutant: the entries of an area that is cut are kept.
UnmappedPages_WholeAreas(p, start, end) ==
    UNION {pm_apply(a) : a \in {b \in InRange(map[p], start, end) : Rest(b, start, end) = {}}}

\* The pages of which munmap clears the entries.
UnmappedPages(p, start, end) ==
    UNION {pm_apply(Cut(a, start, end)) : a \in InRange(map[p], start, end)}

sys_munmap(p, start, len) ==
    LET end    == start + page_align(len)
        newref == RefAfterUnmap(p, UnmappedPages(p, start, end))
    IN  /\ CanCall(p, "munmap")
        /\ end <= kernel_base /\ len # 0 /\ start % FRAME_SIZE = 0
        /\ \A a \in InRange(map[p], start, end) : "VM_KEEP" \notin a.flags
        /\ map'   = [map EXCEPT ![p] = MapAfterMunmap(@, start, end)]
        /\ pte'   = PteAfterUnmap(p, UnmappedPages(p, start, end))
        /\ ref'   = newref
        /\ pool'  = pool \cup Freed(newref)
        /\ mem'   = MemAfterFree(newref)
        /\ calls' = calls + 1
        /\ UNCHANGED <<state, pgdir, brk, tab, kern, husks, kernel_pgdir, tmp, panic>>

\* get_heap: the areas, with one for the page of brk - 1 if it is in none
MapWithHeap(p) ==
    IF vma_get(map[p], brk[p] - 1) # {} THEN map[p]
    ELSE vma_map(map[p], brk[p] - 1, 1, HEAP_FLAGS)

\* sbrk fails with the new break below the heap's area, or with no room to
\* grow; the area that get_heap made stays in either case.  Programs leave the
\* break in user space.
sys_sbrk(p, inc) ==
    LET m    == MapWithHeap(p)
        heap == CHOOSE a \in vma_get(m, brk[p] - 1) : TRUE
        new  == brk[p] + inc
    IN  /\ CanCall(p, "sbrk") /\ new >= user_base
        /\ \/ new < heap.start /\ AreaCall(p, m, brk[p])
           \/ /\ new >= heap.start /\ (inc <= 0 \/ new < heap.end)
              /\ AreaCall(p, m, new)
           \/ /\ new >= heap.start /\ inc > 0 /\ new >= heap.end
              /\ IF CanGrow(m, heap, inc) THEN AreaCall(p, vma_grow_up(m, heap, inc), new)
                                          ELSE AreaCall(p, m, brk[p])

\* The steps of exec, each on the areas the last one leaves: mm_exec unmaps what
\* is not kept, the arguments go to a new area, the image is mapped.  The image
\* is one page of a file.
mm_exec(areas) == {a \in areas : a.flags \cap {"VM_KEEP", "VM_KEEPEXEC"} # {}}

execve_copy_to_user(areas, size) ==
    vma_create_high(areas, user_base, kernel_base, size, HEAP_FLAGS, "anon")

elf_map_segment(areas, image) ==
    vma_create_fixed(areas, image, FRAME_SIZE, {"VM_READ", "VM_WRITE"}, "file")

\* sys_execve: copying the arguments, a page if they fit at all, faults the page
\* in.  Neither failure on the way brings back what was unmapped.
sys_execve(p, image, size) ==
    LET kept  == mm_exec(map[p])
        gone  == UNION {pm_apply(a) : a \in map[p] \ kept}
        ref1  == RefAfterUnmap(p, gone)
        pool1 == pool \cup Freed(ref1)
        pte1  == PteAfterUnmap(p, gone)
        args  == execve_copy_to_user(kept, size)
        pg    == vma_find_space_high(kept, user_base, kernel_base, size) \div FRAME_SIZE
        elf   == elf_map_segment(args, image)
        d     == pgdir[p]
        f     == Pop(pool1)
        t     == umap_page_table(p, pool1 \ {f})
    IN  /\ CanCall(p, "execve")
        /\ IF args = {}
           THEN /\ map' = [map EXCEPT ![p] = kept]
                /\ pte' = pte1 /\ ref' = ref1 /\ pool' = pool1 /\ mem' = MemAfterFree(ref1)
                /\ UNCHANGED <<tab, panic>>
           ELSE IF ~CanAlloc(pool1, FramesForPage(p))
           THEN /\ panic' = "out of memory!"
                /\ UNCHANGED <<map, pte, ref, pool, tab, mem>>
           ELSE /\ map'  = [map EXCEPT ![p] = IF elf = {} THEN args ELSE elf]
                /\ pte'  = [pte1 EXCEPT ![t][pg] = vma_to_page_flags(f, HEAP_FLAGS)]
                /\ ref'  = [ref1 EXCEPT ![f] = 1, ![t] = 1]
                /\ pool' = pool1 \ {f, t}
                /\ tab'  = [tab EXCEPT ![d] = t]
                /\ mem'  = [MemAfterFree(ref1) EXCEPT ![f] = Args]
                /\ UNCHANGED panic
        /\ calls' = calls + 1
        /\ UNCHANGED <<state, pgdir, brk, kern, husks, kernel_pgdir, tmp>>

-----------------------------------------------------------------------------
(* The kernel's own page tables. *)

\* Mutant: directories that wait for a new process are forgotten.
Updated_NoHusks == {pgdir[p] : p \in {q \in Procs : state[q] # "dead"}}

\* The directories that kmap_page_table adds a new table to: those that the
\* process table names, zombies included, and the husks.
Updated == {pgdir[p] : p \in {q \in Procs : state[q] # "dead"}}
               \cup {husks[i] : i \in 1 .. Len(husks)}

\* The page directories in use: of live processes, and the husks.
Dirs == {pgdir[p] : p \in {q \in Procs : state[q] = "live"}}
            \cup {husks[i] : i \in 1 .. Len(husks)}

\* The kernel's heap grows past its last page table.  The directory that a
\* zombie's pcb still names may have been freed; what becomes of whoever owns
\* the frame now when the entry is written into it is not followed ("stray").
kmap_page_table ==
    /\ panic = "" /\ Cardinality(kernel_pgdir) < MaxKernelTables
    /\ IF CanAlloc(pool, 1)
       THEN LET t == Pop(pool)
            IN  /\ pool' = pool \ {t}
                /\ ref'  = [ref EXCEPT ![t] = 1]
                /\ kernel_pgdir' = kernel_pgdir \cup {t}
                /\ kern' = [f \in Frames |-> IF f \in Updated THEN kern[f] \cup {t} ELSE kern[f]]
                /\ panic' = IF Updated \subseteq Dirs THEN panic ELSE "stray"
                /\ UNCHANGED <<state, pgdir, map, brk, tab, pte, mem, husks, tmp, calls>>
       ELSE Panic("out of memory!")

\* A panic stops the machine; the programs stop after MaxCalls calls.
Halted == (panic # "" \/ calls = MaxCalls) /\ UNCHANGED vars

-----------------------------------------------------------------------------
\* create_init: address_space_init in the first directory
Init ==
    /\ state = [p \in Procs |-> IF p = INIT THEN "live" ELSE "dead"]
    /\ pgdir = [p \in Procs |-> IF p = INIT THEN 1 ELSE NONE]
    /\ map   = [p \in Procs |-> IF p # INIT THEN {} ELSE
                  {new_vma(HEAP_START, HEAP_START + FRAME_SIZE, HEAP_FLAGS, "anon"),
                   new_vma(kernel_base - FRAME_SIZE, kernel_base, USTACK_FLAGS, "anon"),
                   new_vma(kernel_base, kernel_base + FRAME_SIZE, RODATA_FLAGS, "anon")}]
    /\ brk   = [p \in Procs |-> IF p = INIT THEN HEAP_START + FRAME_SIZE ELSE 0]
    /\ tab   = [f \in Frames |-> NONE]
    /\ kern  = [f \in Frames |-> {}]
    /\ pte   = [f \in Frames |-> Empty]
    /\ mem   = [f \in Frames |-> Stale]
    /\ ref   = [f \in Frames |-> IF f = 1 THEN 1 ELSE 0]
    /\ pool  = Frames \ {1}
    /\ husks = <<>> /\ kernel_pgdir = {} /\ tmp = [f \in Frames |-> 0]
    /\ panic = "" /\ calls = 0

Calls(p) ==
    \/ \E q \in Procs : Fork(p, q)
    \/ Exit(p)
    \/ \E m \in Mmaps : sys_mmap(p, m[1], m[2], m[3], m[4], m[5])
    \/ \E r \in Ranges : sys_munmap(p, r[1], r[2])
    \/ \E inc \in Incs : sys_sbrk(p, inc)
    \/ \E size \in ArgSizes : sys_execve(p, FRAME_SIZE, size)

Next ==
    \/ \E p \in Procs, pg \in Touched :
           DemandPage(p, pg) \/ WriteFault(p, pg) \/ \E v \in Data : Store(p, pg, v)
    \/ \E p \in Procs : Calls(p) \/ Reap(p)
    \/ kmap_page_table
    \/ Halted

Spec == Init /\ [][Next]_vars

-----------------------------------------------------------------------------
(* Properties. *)

\* No address of a process is in two of its areas, whatever mmap (with requests
\* whose end does not wrap, and that are not empty at address 0), munmap, sbrk
\* and exec have done; and pm_apply, with its arithmetic on directory and table
\* indices, visits the pages of an area and no others, also in the pieces that
\* munmap cuts and in areas of length 0, which mmap makes when asked to.
AreasDisjoint ==
    \A p \in Procs : state[p] = "live" =>
        /\ Disjoint(map[p])
        /\ \A a \in map[p] :
              /\ pm_apply(a) = PagesOf(a)
              /\ \A r \in Ranges :
                     LET end == r[1] + page_align(r[2])
                     IN  a \in InRange(map[p], r[1], end) =>
                             pm_apply(Cut(a, r[1], end)) = PagesOf(Cut(a, r[1], end))

\* The count of a frame is the number of places that refer to it (entries of
\* page tables, directories, the lists of directories, the kernel), the frames
\* in the pool are those with none, and one that a process can write to has no
\* other.
FrameCounts ==
    /\ \A f \in Frames :
        ref[f] = Cardinality({x \in Dirs \X Pages : tab[x[1]] # NONE /\ pte[tab[x[1]]][x[2]].frame = f})
                 + Cardinality({d \in Dirs : tab[d] = f})
                 + (IF f \in Dirs THEN 1 ELSE 0) + (IF f \in kernel_pgdir THEN 1 ELSE 0)
    /\ pool = {f \in Frames : ref[f] = 0}
    /\ \A p \in Procs, pg \in Pages : state[p] = "live" /\ Entry(p, pg).rw =>
          ref[Entry(p, pg).frame] = 1

\* A page that is mapped lies in an area, which allows what the entry allows.
PagesInAreas ==
    \A p \in Procs, pg \in Pages : state[p] = "live" /\ Entry(p, pg).frame # NONE =>
        \E a \in AreaOf(p, pg) :
            /\ Entry(p, pg).rw => "VM_WRITE" \in a.flags
            /\ Entry(p, pg).user <=> "VM_READ" \in a.flags

\* Every directory that is or can come into use has all page tables of the
\* kernel, however they were made while processes forked, exited and waited to
\* be reaped and their directories became husks, were evicted and reused.
\* kmap_page_table has written to directories only, but for one case that the
\* code leaves: a full list of husks evicts the directory of the process that
\* exited last, and the pcb of that zombie still names it.
KernelShared ==
    /\ \A d \in Dirs : kern[d] = kernel_pgdir
    /\ \A f \in Frames \ Dirs : kern[f] # {} =>
           panic = "stray" /\ \E p \in Procs : state[p] = "zombie" /\ pgdir[p] = f

\* kmap_page_table writes to page directories only.
NoStrayEntry == panic # "stray"

\* What a process finds in its pages.
View ==
    [p \in Procs |-> [pg \in Pages |->
        IF state[p] # "live" THEN "unmapped"
        ELSE LET areas == AreaOf(p, pg)
                 f     == Entry(p, pg).frame
             IN  IF areas = {} THEN "unmapped"
                 ELSE IF f # NONE THEN mem[f]
                 ELSE IF \E a \in areas : a.op = "file" THEN File ELSE Zero]]

Promised == INSTANCE AddressSpaces WITH view <- View, Fresh <- {Zero, File}, Unmapped <- "unmapped"

\* Frames that are shared, copied, freed and used again are invisible: every
\* process has memory of its own, and fork a copy of all of it.
PrivateMemory == Promised!Spec

\* clone_pgdir gives back the temporary mappings it makes.
TmpReleased == \A d \in Dirs : tmp[d] = 0

\* vm_verify accepts what lies in one area of the right kind.
VerifyAccepts ==
    \A p \in Procs : state[p] = "live" =>
        \A a \in map[p] : \A start \in a.start .. a.end - 1 : \A len \in 1 .. a.end - start :
            vm_verify(map[p], start, len, a.flags)
=============================================================================
