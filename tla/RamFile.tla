------------------------------ MODULE RamFile -------------------------------
(***************************************************************************)
(* The contents of a ramfs file (fs/ramfs/ramfs.c).  A file f is a size    *)
(* and the cells of its frames, one after the other: frame k of the list   *)
(* i_list is cells k * FRAME_SIZE + 1 and on.  A new frame holds whatever  *)
(* its last user left: Junk.                                               *)
(***************************************************************************)
EXTENDS Integers, Sequences, FiniteSetsExt, SequencesExt

CONSTANTS FRAME_SIZE, Junk
ASSUME FrameSize == FRAME_SIZE \in Nat \ {0}

Zero == 0
Lesser(x, y) == IF x < y THEN x ELSE y
Frames(f) == Len(f.cells) \div FRAME_SIZE

\* 2^20 pages for no bytes: len - 1 is unsigned.
pages_in_range(len) == IF len = 0 THEN 2 ^ 20 ELSE (len - 1) \div FRAME_SIZE + 1

\* Mutant: the page the file already has is counted in.
grow_file_Short(f, amount) ==
    [size  |-> f.size + amount,
     cells |-> f.cells \o [k \in 1 .. FRAME_SIZE * (amount \div FRAME_SIZE) |-> Junk]]

grow_file(f, amount) ==
    LET nr_pages == ((f.size % FRAME_SIZE) + amount) \div FRAME_SIZE + 1
    IN  [size |-> f.size + amount,
         cells |-> f.cells \o [k \in 1 .. nr_pages * FRAME_SIZE |-> Junk]]

(* The loop over the frames that ramfs_read, ramfs_do_write and zero_fill  *)
(* share: n is how many cells it moves, from pos on, and len what is left  *)
(* of its counter, which the callers return.  It ends with the first frame *)
(* for which at most FRAME_SIZE cells remain, whatever their offset.       *)
Walk(f, pos, len) ==
    LET frame(w, k) ==
            IF w.done \/ k <= pos \div FRAME_SIZE THEN w
            ELSE [n    |-> w.n + Lesser(FRAME_SIZE - w.off, w.len),
                  len  |-> IF w.len <= FRAME_SIZE THEN w.len ELSE w.len - (FRAME_SIZE - w.off),
                  off  |-> 0,
                  done |-> w.len <= FRAME_SIZE]
    IN  FoldLeft(frame, [n |-> 0, len |-> len, off |-> pos % FRAME_SIZE, done |-> FALSE],
                 [k \in 1 .. Frames(f) |-> k])

Filled(f, pos, n, value) ==
    [f EXCEPT !.cells = [k \in DOMAIN @ |-> IF k > pos /\ k <= pos + n THEN value ELSE @[k]]]

\* What is copied to the caller, and what is returned and added to *pos.
ramfs_read(f, pos, len) ==
    LET w == Walk(f, pos, Lesser(len, f.size - pos))
    IN  IF len = 0 \/ pos >= f.size THEN [data |-> << >>, ret |-> 0]
        ELSE [data |-> SubSeq(f.cells, pos + 1, pos + w.n), ret |-> w.len]

zero_fill(f, start, len) == Filled(f, start, Walk(f, start, len).n, Zero)

ramfs_do_write(f, value, len, pos) ==
    [f |-> Filled(f, pos, Walk(f, pos, len).n, value), ret |-> Walk(f, pos, len).len]

\* A call writes one value throughout.
ramfs_write(f, value, len, pos) ==
    LET g == IF pos + len > f.size THEN grow_file(f, pos + len - f.size) ELSE f
        h == IF pos > f.size THEN zero_fill(g, f.size, pos - f.size) ELSE g
    IN  ramfs_do_write(h, value, len, pos)

\* ramfs_truncate, and the i_size its callers store.
ramfs_truncate(f, len) ==
    LET drop == Lesser(pages_in_range(f.size) - pages_in_range(len), Frames(f))
        kept == IF drop <= 0 THEN f.cells
                ELSE SubSeq(f.cells, 1, Len(f.cells) - drop * FRAME_SIZE)
    IN  IF len > f.size THEN zero_fill(grow_file(f, len - f.size), f.size, len)
        ELSE [size |-> len, cells |-> kept]
=============================================================================
