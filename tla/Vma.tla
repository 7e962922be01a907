-------------------------------- MODULE Vma --------------------------------
(***************************************************************************)
(* The memory areas of one address space: kernel/vma.c and the part of     *)
(* kernel/mmap.c that works on the list of areas.                          *)
(*                                                                         *)
(* An area covers the addresses from start up to, not including, end.      *)
(* vma_insert and vma_bisect keep the list ordered by start, and mm_clone  *)
(* copies it in order, so a list is modelled by the set of its areas: the  *)
(* first area for which something holds is the one that starts lowest.     *)
(* Address 0 is never in an area and stands for the NULL that a failed     *)
(* search returns.                                                         *)
(***************************************************************************)
EXTENDS Integers, FiniteSets

CONSTANTS FRAME_SIZE,   \* addresses in a page
          PTRS          \* pages in a page table: 1024 in the code

ASSUME FrameAssumption == FRAME_SIZE \in Nat \ {0} /\ PTRS \in Nat \ {0}

FlagNames == {"VM_READ", "VM_WRITE", "VM_ZERO", "VM_KEEP", "VM_KEEPEXEC", "VM_SHARE"}

page_base(n)  == n - (n % FRAME_SIZE)
page_align(n) == IF n % FRAME_SIZE = 0 THEN n ELSE page_base(n + FRAME_SIZE)

new_vma(start, end, flags, op) ==
    [start |-> start, end |-> end, flags |-> flags, op |-> op]

vma_contains(a, addr) == a.start <= addr /\ addr < a.end

\* The areas whose end lies above addr; vma_find takes the lowest of them.
Above(map, addr) == {a \in map : a.end > addr}

Lowest(S) == CHOOSE a \in S : \A b \in S : a.start <= b.start

vma_get(map, addr) == {a \in map : vma_contains(a, addr)}

\* vma_map: one area over the pages that hold dst .. dst + len - 1, whatever
\* is mapped there.
vma_map(map, dst, len, flags) ==
    LET nr_pages == ((dst % FRAME_SIZE) + (len - 1)) \div FRAME_SIZE + 1
        base     == page_base(dst)
    IN  map \cup {new_vma(base, base + nr_pages * FRAME_SIZE, flags, "anon")}

-----------------------------------------------------------------------------
(* Looking for room. *)

\* vma_find_space_high walks the list from its end, with `end' where the free
\* space below the areas it has seen ends: at first the upper bound, then the
\* start of each area in turn.  It takes the first such place at which the area
\* below leaves room.
vma_find_space_high(map, start, end, len) ==
    LET l     == page_align(len)
        Below(e) == {a \in map : a.start < e}
        ends  == {end} \cup {a.start : a \in Below(end)}
        roomy == {e \in ends : /\ start < e /\ start + l <= e
                               /\ \A a \in Below(e) : a.end + l <= e}
    IN  IF roomy = {} THEN 0
        ELSE (CHOOSE e \in roomy : \A x \in roomy : x <= e) - l

\* vma_create_high and vma_create_fixed: the areas afterwards, {} if there is
\* no room.
vma_create_high(map, start, end, len, flags, op) ==
    LET addr == vma_find_space_high(map, start, end, len)
    IN  IF addr = 0 THEN {}
        ELSE map \cup {new_vma(addr, page_align(addr + len), flags, op)}

\* Mutant: only the first address has to be free.
FixedTaken_NoLength(map, start, len) ==
    Above(map, start) # {} /\ vma_contains(Lowest(Above(map, start)), start)

FixedTaken(map, start, len) ==
    /\ Above(map, start) # {}
    /\ LET a == Lowest(Above(map, start))
       IN  vma_contains(a, start) \/ a.start - start < len

vma_create_fixed(map, start, len, flags, op) ==
    IF FixedTaken(map, start, len) THEN {}
    ELSE map \cup {new_vma(start, page_align(start + len), flags, op)}

-----------------------------------------------------------------------------
(* Changing areas. *)

\* vma_grow_up with the flags the area has: refused when the next area of the
\* list starts inside the new part.
CanGrow(map, a, amount) ==
    LET after == {b \in map : b.start > a.start}
    IN  after = {} \/ ~(Lowest(after).start < a.end + amount)

vma_grow_up(map, a, amount) ==
    (map \ {a}) \cup {[a EXCEPT !.end = a.end + page_align(amount)]}

\* The areas that the loops of sys_munmap look at.
InRange(map, start, end) == {a \in map : ~(a.end < start) /\ ~(a.start >= end)}

\* What is unmapped of an area, and what vma_bisect leaves of it to the left
\* and to the right.
Cut(a, start, end) ==
    [a EXCEPT !.start = IF a.start < start THEN start ELSE a.start,
              !.end   = IF a.end > end THEN end ELSE a.end]

Rest(a, start, end) ==
    (IF a.start < start THEN {[a EXCEPT !.end = start]} ELSE {})
        \cup (IF a.end > end THEN {[a EXCEPT !.start = end]} ELSE {})

MapAfterMunmap(map, start, end) ==
    (map \ InRange(map, start, end))
        \cup UNION {Rest(a, start, end) : a \in InRange(map, start, end)}

-----------------------------------------------------------------------------
(* From areas to pages. *)

addr_to_pdi(addr) == addr \div (PTRS * FRAME_SIZE)
addr_to_pti(addr) == (addr \div FRAME_SIZE) % PTRS

\* The pages that pm_apply visits: table by table, from the first entry of the
\* area in the table to the last.
pm_apply(a) ==
    LET pdi_to_addr(pdi) == pdi * PTRS * FRAME_SIZE
        first(pdi) == IF a.start > pdi_to_addr(pdi) THEN addr_to_pti(a.start) ELSE 0
        last(pdi)  == IF a.end < pdi_to_addr(pdi + 1) THEN addr_to_pti(a.end - 1)
                                                     ELSE PTRS - 1
    IN  UNION {{pdi * PTRS + pti : pti \in first(pdi) .. last(pdi)} :
                   pdi \in addr_to_pdi(a.start) .. addr_to_pdi(a.end - 1)}

\* The pages an area covers.
PagesOf(a) == (a.start \div FRAME_SIZE) .. ((a.end - 1) \div FRAME_SIZE)

\* No address is in two areas, and every area begins and ends with a page.
Disjoint(map) ==
    /\ \A a \in map : a.start % FRAME_SIZE = 0 /\ a.end % FRAME_SIZE = 0 /\ a.start <= a.end
    /\ \A a, b \in map : a # b => a.end <= b.start \/ b.end <= a.start

-----------------------------------------------------------------------------
\* vm_verify: is a buffer of the user in one area, with these permissions?
vm_verify(map, start, len, flags) ==
    \E a \in vma_get(map, start) : flags \subseteq a.flags /\ ~(start - a.start < len)
=============================================================================
