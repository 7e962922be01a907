-------------------------------- MODULE List --------------------------------
(***************************************************************************)
(* The intrusive doubly linked lists of include/kernel/list.h, pointer by  *)
(* pointer.  A heap of list nodes is a record of two functions, next and   *)
(* prev, from nodes to nodes.  The operators do exactly the pointer writes *)
(* of the C functions, in their order, and check nothing, as the C code    *)
(* does: linking a node that is already linked, or unlinking one whose     *)
(* neighbours were re-initialised, gives what the stores give.             *)
(***************************************************************************)
EXTENDS Naturals, FiniteSets

CONSTANT LIST_POISON     \* what list_del leaves in an unlinked node

INIT_LIST_HEAD(l, h) == [l EXCEPT !.next[h] = h, !.prev[h] = h]

\* Stores through a poisoned pointer reach no list node.
list_insert(l, new, p, n) ==
    [next |-> [l.next EXCEPT ![new] = n, ![p] = new],
     prev |-> [l.prev EXCEPT ![n] = new, ![new] = p]]

list_add(l, new, h) == list_insert(l, new, h, l.next[h])

list_add_tail(l, new, h) == list_insert(l, new, l.prev[h], h)

list_del(l, e) ==
    LET n == l.next[e]
        p == l.prev[e]
    IN  [next |-> [x \in DOMAIN l.next |->
                       IF x = e THEN LIST_POISON ELSE IF x = p THEN n ELSE l.next[x]],
         prev |-> [x \in DOMAIN l.prev |->
                       IF x = e THEN LIST_POISON ELSE IF x = n THEN p ELSE l.prev[x]]]

\* The successor's prev is written before old's is read: they are the same
\* pointer when old is alone.
list_replace(l, old, new) ==
    LET n == l.next[old]
        p == IF n = old THEN new ELSE l.prev[old]
    IN  [next |-> [l.next EXCEPT ![new] = n, ![p] = new],
         prev |-> [l.prev EXCEPT ![new] = p, ![n] = new]]

list_first_entry(l, h) == l.next[h]

list_empty(l, h) == l.next[h] = h

\* list_for_each: cursor(n) is where the loop stands after n steps from the
\* head h.  It stays where it is when it is back at h, or on a pointer that
\* is no node.  A walk that has not come back after visiting as many nodes
\* as there are never comes back.
list_walk(l, h) ==
    LET cursor[n \in 0..Cardinality(DOMAIN l.next)] ==
            IF n = 0 THEN l.next[h]
            ELSE LET c == cursor[n - 1]
                 IN  IF c = h \/ c \notin DOMAIN l.next THEN c ELSE l.next[c]
    IN  cursor

list_nodes(l, h) ==
    LET w == list_walk(l, h) IN {w[n] : n \in DOMAIN w} \ {h, LIST_POISON}

\* A loop over the list that breaks at the first entry with P: that entry,
\* or the head when there is none.
list_find(l, h, P(_)) ==
    LET w     == list_walk(l, h)
        hits  == {n \in DOMAIN w : w[n] \in DOMAIN l.next \ {h} /\ P(w[n])}
        first == {n \in hits : \A m \in hits : n <= m}
    IN  IF first = {} THEN h ELSE w[CHOOSE n \in first : TRUE]

list_walk_ends(l, h) == list_walk(l, h)[Cardinality(DOMAIN l.next)] = h
=============================================================================
