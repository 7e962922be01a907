------------------------------ MODULE FileSpec ------------------------------
(***************************************************************************)
(* What reading and writing do, without frames and without a cache: a      *)
(* ramfs file is a sequence, a block device a sequence of cells, an ext2   *)
(* file a list of cells of the device; every open file has a position.     *)
(*                                                                         *)
(* Of frames one thing shows.  A transfer of at most a frame's length that *)
(* crosses a frame's end moves the part in front of that end only, and one *)
(* of more than a frame returns the part in its last frame only.           *)
(***************************************************************************)
EXTENDS Integers, Sequences

CONSTANTS FRAME_SIZE

\* last is the last call: the open file and its kind, whether the file's own
\* position is used (own), position, length, data and what it returned.
VARIABLES ram, disk,
          ext2,       \* the cells of the ext2 file, << >> before the mount
          f_pos, last

vars == <<ram, disk, ext2, f_pos, last>>

Cell(c) == IF c + 1 \in DOMAIN disk THEN disk[c + 1] ELSE 0

Contents(kind) ==
    CASE kind = "ram"  -> ram
      [] kind = "blk"  -> disk
      [] kind = "ext2" -> [k \in DOMAIN ext2 |-> Cell(ext2[k])]

Init == /\ ram = << >>
        /\ ext2 = << >>
        /\ last.op = "none"
        /\ disk \in Seq(Nat)
        /\ \A fd \in DOMAIN f_pos : f_pos[fd] = 0

\* How much of a transfer is moved, and what it returns.
Moved(kind, pos, len) ==
    IF kind = "ram" /\ len <= FRAME_SIZE /\ (pos % FRAME_SIZE) + len > FRAME_SIZE
    THEN FRAME_SIZE - (pos % FRAME_SIZE) ELSE len
Returned(kind, pos, len) ==
    IF kind = "ram" /\ len > FRAME_SIZE THEN ((pos + len - 1) % FRAME_SIZE) + 1 ELSE len

\* What of len cells from pos on lies within size.
Clip(size, pos, len) ==
    IF pos >= size THEN 0 ELSE IF pos + len > size THEN size - pos ELSE len

\* The call begins at the right position and leaves the right one.
Positioned ==
    /\ last'.own => last'.pos = f_pos[last'.fd]
    /\ f_pos' = IF last'.own THEN [f_pos EXCEPT ![last'.fd] = @ + last'.ret] ELSE f_pos

Read ==
    LET c == Contents(last'.kind)
        n == Clip(Len(c), last'.pos, last'.len)
    IN  /\ last'.op = "read"
        /\ last'.data = SubSeq(c, last'.pos + 1, last'.pos + Moved(last'.kind, last'.pos, n))
        /\ last'.ret = Returned(last'.kind, last'.pos, n)
        /\ Positioned
        /\ UNCHANGED <<ram, disk, ext2>>

\* A file grows to the end of what is written, with zeroes in between.  Cells
\* that a transfer leaves out keep what they hold, new ones hold anything.
WriteRam ==
    LET pos == last'.pos
        old == Len(ram)
        end == pos + last'.len
        n   == Moved("ram", pos, last'.len)
        gap == IF pos > old THEN Moved("ram", old, pos - old) ELSE 0
    IN  /\ last'.kind = "ram"
        /\ Len(ram') = IF end > old THEN end ELSE old
        /\ \A k \in DOMAIN ram' :
              IF k > pos /\ k <= pos + n THEN ram'[k] = last'.data[1]
              ELSE /\ k <= old => ram'[k] = ram[k]
                   /\ k > old /\ k <= old + gap => ram'[k] = 0
        /\ last'.ret = Returned("ram", pos, last'.len)
        /\ UNCHANGED <<disk, ext2>>

\* A device does not grow.
WriteBlk ==
    LET n == Clip(Len(disk), last'.pos, last'.len)
    IN  /\ last'.kind = "blk"
        /\ disk' = [k \in DOMAIN disk |->
                       IF k > last'.pos /\ k <= last'.pos + n THEN last'.data[1] ELSE disk[k]]
        /\ last'.ret = n
        /\ UNCHANGED <<ram, ext2>>

Write == /\ last'.op = "write"
         /\ WriteRam \/ WriteBlk
         /\ Positioned

\* Seeking: a negative position is refused.  A device's size counts as zero.
Seek ==
    LET size == IF last'.kind = "blk" THEN 0 ELSE Len(Contents(last'.kind))
        base == CASE last'.whence = "SET" -> 0 [] last'.whence = "END" -> size
                  [] last'.whence = "CUR" -> f_pos[last'.fd]
        to   == base + last'.len
    IN  /\ last'.op = "seek"
        /\ f_pos' = [f_pos EXCEPT ![last'.fd] = IF to < 0 THEN @ ELSE to]
        /\ UNCHANGED <<ram, disk, ext2>>

Truncate == /\ last'.op = "truncate"
            /\ ram' = [k \in 1 .. last'.len |-> IF k <= Len(ram) THEN ram[k] ELSE 0]
            /\ UNCHANGED <<disk, ext2, f_pos>>

\* The first look at the ext2 file finds its cells.
Mount == /\ last'.op = "mount"
         /\ ext2 = << >>
         /\ UNCHANGED <<ram, disk, f_pos>>

\* Calls that fail.
Other == last'.op = "none" /\ UNCHANGED <<ram, disk, ext2, f_pos>>

Next == Read \/ Write \/ Seek \/ Truncate \/ Mount \/ Other

Spec == Init /\ [][Next]_vars
=============================================================================
