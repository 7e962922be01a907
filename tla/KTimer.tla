------------------------------- MODULE KTimer -------------------------------
(***************************************************************************)
(* The kernel's list of armed timers (kernel/timer.c), as operators on a   *)
(* record tl with the fields                                               *)
(*     queue    the timers in list order                                   *)
(*     expires  timer -> tick at which it is due, modulo the width of an   *)
(*              unsigned long                                              *)
(*     armed    timer -> the flag TF_ARMED                                 *)
(***************************************************************************)
EXTENDS Integers, SequencesExt

CONSTANT TickRange     \* 2^32 in the code

ASSUME TickRangeAssumption == TickRange \in Nat /\ TickRange > 1

linked(tl, t) == Contains(tl.queue, t)

\* The first timer that expires later; 0 when there is none.
PlaceForward(tl, e) == SelectInSeq(tl.queue, LAMBDA u : tl.expires[u] > e)

\* The overflow branch walks from the tail.  It stops behind a timer that is
\* due before the wrap ("too far"), or before one that is due later.
PlaceBackward(tl, tick, e) ==
    LET i == SelectLastInSeq(tl.queue, LAMBDA u : tl.expires[u] > tick \/ tl.expires[u] > e)
    IN  IF i > 0 /\ tl.expires[tl.queue[i]] > tick THEN i + 1 ELSE i

\* Walks that reach the head of the list add at the tail.
ktimer_start(tl, tick, t, ticks) ==
    LET e == (tick + ticks) % TickRange
        i == IF e < tick THEN PlaceBackward(tl, tick, e) ELSE PlaceForward(tl, e)
    IN  [queue   |-> InsertAt(tl.queue, IF i = 0 THEN Len(tl.queue) + 1 ELSE i, t),
         expires |-> [tl.expires EXCEPT ![t] = e],
         armed   |-> [tl.armed EXCEPT ![t] = TRUE]]

\* ktimer_remove, and the list_del of ktimer_destroy: TF_ARMED is kept.
ktimer_remove(tl, t) == [tl EXCEPT !.queue = Remove(@, t)]

\* What ktimer_remove returns.
remaining(tl, tick, t) == (tl.expires[t] - tick) % TickRange

\* Mutant: a timer fires one tick late.
Fired_Strict(tl, tick) ==
    LET i == SelectInSeq(tl.queue, LAMBDA u : tl.expires[u] >= tick)
    IN  IF i = 0 THEN tl.queue ELSE SubSeq(tl.queue, 1, i - 1)

\* The timers ktimers_tick fires: those before the first that is not due.
Fired(tl, tick) ==
    LET i == SelectInSeq(tl.queue, LAMBDA u : tl.expires[u] > tick)
    IN  IF i = 0 THEN tl.queue ELSE SubSeq(tl.queue, 1, i - 1)

\* The list and the flags after ktimers_tick: every fired timer is disarmed
\* and unlinked.
ktimers_tick(tl, tick) ==
    LET fired == Fired(tl, tick)
    IN  [tl EXCEPT !.queue = SubSeq(@, Len(fired) + 1, Len(@)),
                   !.armed = [t \in DOMAIN @ |-> @[t] /\ ~Contains(fired, t)]]
=============================================================================
