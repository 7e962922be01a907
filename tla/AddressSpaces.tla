--------------------------- MODULE AddressSpaces ---------------------------
(***************************************************************************)
(* What the memory of Telos looks like from user mode: every process has   *)
(* pages of its own, which only its own stores and calls change, and fork  *)
(* gives the child a copy of all of them.                                  *)
(***************************************************************************)
EXTENDS Integers

CONSTANTS Procs, Pages, Values,
          Fresh,      \* what an untouched page can hold: zeros, or a file's bytes
          Args,       \* the arguments of a program
          Unmapped    \* stands for a page that is in no area

VARIABLE view         \* process -> page -> what the process finds there

None == [pg \in Pages |-> Unmapped]

Init == view \in [Procs -> {None} \cup [Pages -> Fresh \cup {Unmapped}]]

\* Pages come and go in runs.
Run(S) == \A x, y \in S : x .. y \subseteq S

\* The steps of a process that change its pages S from old to new.
Store(S, old, new) ==
    \E pg \in Pages : S = {pg} /\ old[pg] # Unmapped /\ new[pg] \in Values

\* A new page holds nothing that anybody stored.
Map(S, old, new) ==
    /\ Run(S) /\ \A pg \in S : old[pg] = Unmapped
    /\ \E v \in Fresh : \A pg \in S : new[pg] = v

Unmap(S, old, new) ==
    \E lo, hi \in S :
        /\ \A pg \in S : lo <= pg /\ pg <= hi
        /\ \A pg \in lo .. hi : new[pg] = Unmapped

\* A new program keeps some pages and finds its arguments and its image.
Exec(S, old, new) ==
    /\ \A pg \in S : new[pg] \in {Args, Unmapped} \cup Fresh
    /\ \E pg \in Pages : new[pg] = Args

Exit(S, old, new) == new = None

\* The child, which had no pages, is given those of its parent.
Fork(S, old, new, others) == old = None /\ \E q \in DOMAIN others : new = others[q]

\* One process changes; the others keep what they have.
Next ==
    \E before \in {view}, after \in {view'} : \E p \in Procs :
        LET S == {pg \in Pages : after[p][pg] # before[p][pg]}
        IN  /\ S # {}
            /\ \A q \in Procs \ {p} : after[q] = before[q]
            /\ \/ Store(S, before[p], after[p])
               \/ Map(S, before[p], after[p])
               \/ Unmap(S, before[p], after[p])
               \/ Exec(S, before[p], after[p])
               \/ Exit(S, before[p], after[p])
               \/ Fork(S, before[p], after[p], before)

Spec == Init /\ [][Next]_view
=============================================================================
