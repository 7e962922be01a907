------------------------------- MODULE FileIO -------------------------------
(***************************************************************************)
(* Reading, writing and seeking through open files (fs/read_write.c): of a *)
(* ramfs file, of a block device, and of a file on the ext2 volume the     *)
(* device holds, once that is mounted.  Each open file has a position.     *)
(***************************************************************************)
EXTENDS RamFile, Block

CONSTANTS FileKind,      \* open file -> "ram", "blk" or "ext2"
          Programs,      \* the sets of open files a program may work on
          FileMode,      \* open file -> subset of {"O_READ", "O_WRITE"}
          Lens, Values,
          At,            \* kind of file -> the positions pread and pwrite are given
          MaxPos,        \* bound on positions
          MaxCalls       \* bound on calls

VARIABLES ram,                   \* the ramfs file
          mem, blksize, buf, fault,     \* the device and its buffers
          bio,                   \* i_bio of the ext2 file, << >> before the mount
          open,                  \* the open files in use
          f_pos,
          last,                  \* the last call and what it returned
          calls

device == <<mem, blksize, buf, fault>>
vars == <<ram, device, bio, open, f_pos, last, calls>>

blk  == [mem |-> mem, blksize |-> blksize, buf |-> buf, fault |-> fault]
Nothing == [op |-> "none"]
Done(op, fd, own, pos, len, data, ret) ==
    [op |-> op, fd |-> fd, kind |-> FileKind[fd], own |-> own, pos |-> pos, len |-> len,
     data |-> data, ret |-> ret]

BlkBecomes(s) == /\ ~s.fault
                 /\ mem' = s.mem /\ blksize' = s.blksize /\ buf' = s.buf /\ fault' = FALSE
\* The call does not come back.
Faults(s) == /\ s.fault
             /\ fault' = TRUE
             /\ last' = Nothing
             /\ UNCHANGED <<mem, blksize, buf, f_pos>>
Call == ~fault /\ calls < MaxCalls /\ calls' = calls + 1 /\ UNCHANGED open

\* The files that are open: one of the ext2 volume only once that is mounted.
Usable == {fd \in open : FileKind[fd] = "ext2" => bio # << >>}

Init == /\ ram = [size |-> 0, cells |-> << >>]
        /\ mem = register_moddev.mem
        /\ blksize = register_moddev.blksize
        /\ buf = register_moddev.buf
        /\ fault = register_moddev.fault
        /\ bio = << >>
        /\ open \in Programs
        /\ f_pos = [fd \in open |-> 0]
        /\ last = Nothing
        /\ calls = 0

-----------------------------------------------------------------------------
(* do_read and do_write of len cells.  at is the position to use, or       *)
(* Current: then the open file's own is used and moved.                    *)
Current == -1
Advance(fd, at, n) == f_pos' = [f_pos EXCEPT ![fd] = IF at = Current THEN @ + n ELSE @]

Position(fd, at) == IF at = Current THEN f_pos[fd] ELSE at
Finished(op, fd, at, len, data, ret) ==
    /\ last' = Done(op, fd, at = Current, Position(fd, at), len, data, ret)
    /\ Advance(fd, at, ret)

\* The end of a transfer r of the device.
Transferred(op, fd, at, len, data, r) ==
    \/ BlkBecomes(r.s) /\ Finished(op, fd, at, len, data, Len(r.data))
    \/ Faults(r.s)

do_read(fd, len, at) ==
    /\ "O_READ" \in FileMode[fd]
    /\ \/ /\ FileKind[fd] = "ram"
          /\ \E r \in {ramfs_read(ram, Position(fd, at), len)} :
                Finished("read", fd, at, len, r.data, r.ret)
          /\ UNCHANGED device
       \/ /\ FileKind[fd] = "blk"
          /\ \E r \in {blkdev_generic_io(blk, len, Position(fd, at), -1)} :
                Transferred("read", fd, at, len, r.data, r)
       \/ /\ FileKind[fd] = "ext2"
          /\ \E r \in {bio_file_read(blk, bio, len, Position(fd, at))} :
                Transferred("read", fd, at, len, r.data, r)
    /\ UNCHANGED <<ram, bio>>

\* do_write; ext2 files have no write operation.
do_write(fd, len, value, at) ==
    /\ "O_WRITE" \in FileMode[fd]
    /\ \/ /\ FileKind[fd] = "ram"
          /\ \E r \in {ramfs_write(ram, value, len, Position(fd, at))} :
                ram' = r.f /\ Finished("write", fd, at, len, <<value>>, r.ret)
          /\ UNCHANGED device
       \/ /\ FileKind[fd] = "blk"
          /\ \E r \in {blkdev_generic_io(blk, len, Position(fd, at), value)} :
                Transferred("write", fd, at, len, <<value>>, r)
          /\ UNCHANGED ram
    /\ UNCHANGED bio

sys_read(fd, len)               == Call /\ do_read(fd, len, Current)
sys_write(fd, len, value)       == Call /\ do_write(fd, len, value, Current)
sys_pread(fd, len, pos)         == Call /\ do_read(fd, len, pos)
sys_pwrite(fd, len, value, pos) == Call /\ do_write(fd, len, value, pos)

\* An open file whose mode does not allow the call, or without the operation.
Refused(fd) ==
    /\ Call
    /\ FileMode[fd] # {"O_READ", "O_WRITE"} \/ FileKind[fd] = "ext2"
    /\ last' = Nothing
    /\ UNCHANGED <<ram, device, bio, f_pos>>

\* SEEK_SET, SEEK_CUR and SEEK_END; a negative result is refused.
sys_lseek(fd, offset, whence) ==
    LET size == IF FileKind[fd] = "ram" THEN ram.size
                ELSE IF FileKind[fd] = "ext2" THEN Volume.size ELSE 0
        tmp == offset + (CASE whence = "SET" -> 0 [] whence = "CUR" -> f_pos[fd]
                           [] whence = "END" -> size)
    IN  /\ Call
        /\ tmp <= MaxPos
        /\ f_pos' = [f_pos EXCEPT ![fd] = IF tmp < 0 THEN @ ELSE tmp]
        /\ last' = [op |-> "seek", fd |-> fd, kind |-> FileKind[fd], whence |-> whence,
                    len |-> offset]
        /\ UNCHANGED <<ram, device, bio>>

sys_truncate(len) ==
    /\ Call
    /\ ram' = ramfs_truncate(ram, len)
    /\ last' = [op |-> "truncate", len |-> len]
    /\ UNCHANGED <<device, bio, f_pos>>

\* sys_mount of the device, and the first look at the file.
ext2_read_super ==
    /\ Call
    /\ bio = << >>
    /\ \E raw \in {RawSuper(blk)} : \E freed \in MayFree(raw) :
       \E r \in {set_blocksize(raw, Volume.blksize, freed)} :
          \/ /\ r.err # ""
             /\ BlkBecomes(r.s)
             /\ last' = Nothing
             /\ UNCHANGED <<bio, f_pos>>
          \/ /\ r.err = ""
             /\ \E i \in {ext2_read_inode(do_read_super(r.s))} :
                   \/ /\ BlkBecomes(i.s)
                      /\ bio' = i.bio
                      /\ last' = [op |-> "mount"]
                      /\ UNCHANGED f_pos
                   \/ Faults(i.s) /\ UNCHANGED bio
    /\ UNCHANGED ram

\* A ramfs file does not grow past MaxPos.
Bounded(fd, pos, len) == FileKind[fd] = "ram" => pos + len <= MaxPos

Next ==
    \/ \E fd \in Usable, len \in Lens :
          \/ sys_read(fd, len)
          \/ \E pos \in At[FileKind[fd]] : sys_pread(fd, len, pos)
          \/ \E value \in Values :
                \/ Bounded(fd, f_pos[fd], len) /\ sys_write(fd, len, value)
                \/ \E pos \in At[FileKind[fd]] :
                       Bounded(fd, pos, len) /\ sys_pwrite(fd, len, value, pos)
    \/ \E fd \in Usable : Refused(fd)
    \/ \E fd \in Usable, offset \in {-1, 2}, whence \in {"SET", "CUR", "END"} :
          sys_lseek(fd, offset, whence)
    \/ \E fd \in open, len \in At["ram"] : FileKind[fd] = "ram" /\ sys_truncate(len)
    \/ \E fd \in open : FileKind[fd] = "blk" /\ ext2_read_super

Spec == Init /\ [][Next]_vars

-----------------------------------------------------------------------------
\* A file's frames hold all of its size, however it came to have it.
FramesCover == ram.size <= Len(ram.cells)

\* The buffers are of the device's block size and no two are of one block:
\* no cell has two cached values.
OneBuffer ==
    /\ \A i \in DOMAIN buf : buf[i].size = blksize
    /\ \A i, j \in DOMAIN buf : i # j => buf[i].block # buf[j].block

\* What the device holds: a buffer's cells, where there is one, or the memory.
Flat ==
    [k \in 1 .. DevLen |->
        LET hits == {i \in DOMAIN buf : buf[i].block = (k - 1) \div buf[i].size}
        IN  IF hits = {} THEN mem[k - 1]
            ELSE LET b == buf[Min(hits)] IN b.data[(k - 1) % b.size]]

(* The k-th block of a file, for a file that may need all three levels:    *)
(* the digits of k's distance from the first block of its level.           *)
RECURSIVE Leaf(_, _, _)
Leaf(block, k, depth) ==
    IF depth = 0 THEN block
    ELSE Leaf(Flat[block * Volume.blksize + k \div PPB ^ (depth - 1) + 1],
              k % PPB ^ (depth - 1), depth - 1)
RefBlock(k) ==
    LET base == <<NDIR, NDIR + PPB, NDIR + PPB + PPB ^ 2>>
    IN  IF k < base[1] THEN Volume.block[k + 1]
        ELSE LET d == Max({x \in 1 .. 3 : k >= base[x]})
             IN  Leaf(Volume.block[NDIR + d], k - base[d], d)

\* The list of blocks that ext2_inode_to_bio_vec flattens is, block for block,
\* what the inode's pointers lead to in what the device then holds, the blocks
\* that the cache has and the memory has not included.
BlocksInOrder == [][bio' # bio => bio' = [k \in 1 .. Volume.nr |-> RefBlock(k - 1)]']_vars

Abstract == INSTANCE FileSpec WITH
    ram <- SubSeq(ram.cells, 1, ram.size), disk <- Flat, last <- last,
    ext2 <- IF bio = << >> THEN << >>
            ELSE [k \in 1 .. Volume.size |-> bio[(k - 1) \div Volume.blksize + 1] * Volume.blksize
                                             + ((k - 1) % Volume.blksize)]

\* Every read returns what the last writes left, through frames, buffers and
\* lists of blocks; nothing but a write or a truncation changes a file; a call
\* moves the position by what it returns; and mounting the volume changes no
\* byte of the device.  FileSpec names what ramfs does otherwise than asked,
\* at the ends of frames.  A position behind a device's end, which rw_block.c
\* does not refuse, ends in a fault of the driver, and the behaviour with it.
ReadsWhatWasWritten == Abstract!Spec

\* A transfer moves all that it returns, and returns all that it moves.
TransfersWhole ==
    last.op = "read" => last.ret = Len(last.data)

\* The driver is asked for blocks of the device only.
WithinDevice == ~fault
=============================================================================
