------------------------------- MODULE Block --------------------------------
(***************************************************************************)
(* The buffer cache (fs/buffer.c), the block layer (drivers/block) and the *)
(* reading of ext2 files (fs/ext2), on one device: boot module memory of   *)
(* DevLen sectors.  A cell is a sector.  The operators work on a record s: *)
(*     mem      the device's memory, sector -> value                       *)
(*     blksize  the device's block size, in sectors                        *)
(*     buf      the buffers of the cache, in the order they were made      *)
(*     fault    the driver was asked for a block behind the device's end   *)
(* The one driver there is answers within handle_request, so a buffer is   *)
(* locked and unlocked within one step and buffer_wait never waits.        *)
(***************************************************************************)
EXTENDS Integers, Sequences, FiniteSetsExt, SequencesExt

CONSTANTS DevLen,
          Volume    \* the ext2 volume on the device, a record:
                    \* blksize, inode_table (the first block of each group's),
                    \* inodes_per_group, inodes_per_block, and the file's
                    \* inode: ino, block (its pointers), nr (its blocks),
                    \* size; image: what the cells hold at first.  Super
                    \* block and inode stay as they are there, whatever is
                    \* written to the device; the pointers are read.

USHRT   == 65536
Cells   == 0 .. DevLen - 1
Smaller(x, y) == IF x < y THEN x ELSE y

\* A boot module becomes a device with blocks of one sector.
register_moddev == [mem |-> Volume.image, blksize |-> 1, buf |-> << >>, fault |-> FALSE]

io_off_to_block(size, off) == off \div size
io_block_off(size, off) == off % size
io_block_count(size, off, len) == ((off % size) + len + size - 1) \div size

\* handle_request of the boot module driver, READ and WRITE.  The sectors
\* behind the end read as zero and are not written.  For a block that begins
\* behind the end the length to copy is negative, and memcpy takes that for a
\* large one (Behind).
Sector(block, size) == block * size
handle_read(s, block, size) ==
    [k \in 0 .. size - 1 |-> IF Sector(block, size) + k \in Cells
                             THEN s.mem[Sector(block, size) + k] ELSE 0]
Behind(block, size) == Sector(block, size) > DevLen
handle_write(s, b) ==
    [s EXCEPT !.mem = [c \in Cells |-> IF c \div b.size = b.block THEN b.data[c % b.size]
                                       ELSE @[c]]]

-----------------------------------------------------------------------------
\* find_buffer returns the index of a buffer of that size, or 0.
find_buffer(s, block, size) ==
    LET hits == {i \in DOMAIN s.buf : s.buf[i].block = block /\ s.buf[i].size = size}
    IN  IF hits = {} THEN 0 ELSE Min(hits)

(* submit_block, with make_request and block_request_completed.  The       *)
(* request counts the buffer, the driver answers at once, and completion   *)
(* counts the buffer down and finds no other request.                      *)
submit_block(s, rw, i) ==
    LET b == s.buf[i]
        req == [s EXCEPT !.buf[i].count = (@ + 1) % USHRT]
        done == IF rw = "READ" THEN [req EXCEPT !.buf[i].data = handle_read(s, b.block, b.size)]
                ELSE handle_write(req, b)
    IN  [done EXCEPT !.buf[i].count = (@ - 1) % USHRT,
                     !.fault = @ \/ Behind(b.block, b.size)]

make_buffer(s, block, size) ==
    [s EXCEPT !.buf = Append(@, [block |-> block, size |-> size, count |-> 1, dirty |-> FALSE,
                                 data |-> << >>])]

\* A buffer that is found is up to date, and is not counted once more.
read_block(s, block, size) ==
    IF find_buffer(s, block, size) # 0 THEN s
    ELSE submit_block(make_buffer(s, block, size), "READ", Len(s.buf) + 1)

release_buffer(s, i) == [s EXCEPT !.buf[i].count = (@ - 1) % USHRT]

\* Mutant: what was written only to the cache goes with the buffer.
flush_buffer_Lost(s, i) == s

flush_buffer(s, i) == IF s.buf[i].dirty THEN submit_block(s, "WRITE", i) ELSE s

\* Flushing and freeing a set of buffers.
FreeBuffers(s, set) ==
    LET t == FoldLeft(LAMBDA x, i : IF i \in set THEN flush_buffer(x, i) ELSE x, s,
                      [i \in DOMAIN s.buf |-> i])
    IN  [t EXCEPT !.buf = SelectSeq(@, LAMBDA b : \A i \in set : s.buf[i] # b)]

(* free_device_buffers: a buffer that is in use ends the loop.  The loop's *)
(* order is that of a hash table: any of the others may be freed by then.  *)
Busy(s) == {i \in DOMAIN s.buf : s.buf[i].count # 0}
MayFree(s) == IF Busy(s) = {} THEN {DOMAIN s.buf} ELSE SUBSET (DOMAIN s.buf \ Busy(s))

\* Mutant: the size changes although buffers of the old size remain.
set_blocksize_Busy(s, size, freed) ==
    IF s.blksize = size THEN [s |-> s, err |-> ""]
    ELSE [s |-> [FreeBuffers(s, freed) EXCEPT !.blksize = size], err |-> ""]

set_blocksize(s, size, freed) ==
    IF s.blksize = size THEN [s |-> s, err |-> ""]
    ELSE IF Busy(s) # {} THEN [s |-> FreeBuffers(s, freed), err |-> "EBUSY"]
    ELSE [s |-> [FreeBuffers(s, freed) EXCEPT !.blksize = size], err |-> ""]

-----------------------------------------------------------------------------
(* bio_do_io over the blocks vec.  value = -1 reads; otherwise value is    *)
(* written throughout.  The result holds the cells that were read.         *)
bio_do_io(s, vec, size, len, pos, value) ==
    LET first == io_off_to_block(size, pos)
        within(a, i, start, end) ==
            LET t == IF value < 0 THEN a
                     ELSE [a EXCEPT !.s.buf[i].dirty = TRUE,
                                    !.s.buf[i].data = [k \in DOMAIN @ |->
                                        IF k >= start /\ k < end THEN value ELSE @[k]]]
            IN  [s     |-> release_buffer(t.s, i),
                 data  |-> a.data \o [k \in 1 .. end - start |-> t.s.buf[i].data[start + k - 1]],
                 start |-> 0,
                 left  |-> a.left - (end - start)]
        turn(a, k) ==
            LET t == [a EXCEPT !.s = read_block(a.s, vec[first + k], size)]
            IN  within(t, find_buffer(t.s, vec[first + k], size), a.start,
                       Smaller(size, a.start + a.left))
    IN  FoldLeft(turn, [s |-> s, data |-> << >>, start |-> io_block_off(size, pos), left |-> len],
                 [k \in 1 .. io_block_count(size, pos, len) |-> k])

\* Behind the device's end the difference is unsigned and larger than len.
blkdev_generic_io(s, len, pos, value) ==
    LET n     == IF pos > DevLen THEN len ELSE Smaller(len, DevLen - pos)
        size  == s.blksize
        first == io_off_to_block(size, pos)
    IN  bio_do_io(s, [i \in 1 .. io_block_count(size, pos, n) |-> first + i - 1], size, n,
                  io_block_off(size, pos), value)

-----------------------------------------------------------------------------
(* ext2.  An inode has NDIR direct pointers (12 in the code) and three to  *)
(* blocks of pointers to blocks, to blocks of pointers, and so on; PPB     *)
(* pointers fit a block (blksize / 4).                                     *)
NDIR == Len(Volume.block) - 3
PPB  == Volume.ppb

\* read_block and release_buffer around the reading of a block's pointers.
Visited(s, block) ==
    LET t == read_block(s, block, s.blksize)
    IN  release_buffer(t, find_buffer(t, block, s.blksize))
Ptr(s, block, i) == s.buf[find_buffer(s, block, s.blksize)].data[i - 1]

buffers_from_indirect(a, block, len) ==
    LET t == Visited(a.s, block)
    IN  [s |-> t, bio |-> a.bio \o [i \in 1 .. Smaller(len, PPB) |-> Ptr(t, block, i)]]

\* The blocks of pointers that hold len of them, per pointers each.
Indirect(a, block, len, per, next(_, _, _)) ==
    LET n == Smaller(len, per * PPB)
        t == Visited(a.s, block)
        child(x, i) == next(x, Ptr(t, block, i), n - (i - 1) * per)
    IN  FoldLeft(child, [a EXCEPT !.s = t], [i \in 1 .. (n + per - 1) \div per |-> i])

buffers_from_indirect2(a, block, len) ==
    Indirect(a, block, len, PPB, buffers_from_indirect)

\* Mutant: doubly-indirect blocks are taken to hold a block's worth.
buffers_from_indirect3_Short(a, block, len) ==
    Indirect(a, block, len, PPB, buffers_from_indirect2)

buffers_from_indirect3(a, block, len) ==
    Indirect(a, block, len, PPB * PPB, buffers_from_indirect2)

ext2_inode_to_bio_vec(s) ==
    LET nr == Volume.nr
        a0 == [s |-> s, bio |-> SubSeq(Volume.block, 1, Smaller(nr, NDIR))]
        more(a, op(_, _, _), k) ==
            IF Len(a.bio) = nr THEN a ELSE op(a, Volume.block[NDIR + k], nr - Len(a.bio))
    IN  more(more(more(a0, buffers_from_indirect, 1), buffers_from_indirect2, 2),
             buffers_from_indirect3, 3)

\* ino_to_bg and inode_local_index: where in the inode table an inode lies.
ino_to_bg(ino) == Volume.inode_table[(ino - 1) \div Volume.inodes_per_group + 1]
inode_local_index(ino) == (ino - 1) % Volume.inodes_per_group

\* ext2_iget reads an inode and keeps the buffer it lies in.
ext2_iget(s, ino) ==
    read_block(s, ino_to_bg(ino) + inode_local_index(ino) \div Volume.inodes_per_block,
               Volume.blksize)

\* ext2_read_super: the super block is read as raw data (it lies 1024 bytes
\* into the device), then with its descriptors in blocks of the file system's
\* own size.  Both buffers are kept.
SUPER == 2
RawSuper(s) == blkdev_generic_io(s, SUPER, SUPER, -1).s

do_read_super(s) ==
    LET sb_block == IF s.blksize = SUPER THEN 1 ELSE 0
    IN  read_block(read_block(s, sb_block, s.blksize), sb_block + 1, s.blksize)

\* ext2_read_inode: the inode, then its list of blocks.
ext2_read_inode(s) == ext2_inode_to_bio_vec(ext2_iget(s, Volume.ino))

bio_file_read(s, bio, len, pos) ==
    bio_do_io(s, bio, s.blksize, IF pos > Volume.size THEN 0 ELSE Smaller(len, Volume.size - pos),
              pos, -1)
=============================================================================
