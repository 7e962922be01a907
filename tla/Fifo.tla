-------------------------------- MODULE Fifo --------------------------------
(***************************************************************************)
(* What a flexbuf promises to a pipe: a queue of bytes (kernel/flexbuf.c,  *)
(* "A flexbuf may also be used as a queue").                               *)
(***************************************************************************)
EXTENDS Integers, Sequences

CONSTANTS Bytes, Limit

VARIABLES q,      \* the bytes in the queue
          got     \* the bytes the last operation took out

Data == UNION {[1 .. n -> Bytes] : n \in 0 .. Limit}

Init == q = << >> /\ got = << >>

Enqueue(data) ==
    /\ Len(q) + Len(data) <= Limit
    /\ q' = q \o data
    /\ got' = << >>

Dequeue(n) ==
    LET k == IF n < Len(q) THEN n ELSE Len(q)
    IN  got' = SubSeq(q, 1, k) /\ q' = SubSeq(q, k + 1, Len(q))

Next == (\E data \in Data : Enqueue(data)) \/ (\E n \in 1 .. Limit : Dequeue(n))

Spec == Init /\ [][Next]_<<q, got>>
=============================================================================
