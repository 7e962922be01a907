------------------------------- MODULE Inode --------------------------------
(***************************************************************************)
(* Inodes in memory and open files (fs/inode.c), as operators on a record  *)
(* s of the tables of the file system layer:                               *)
(*     inode  slot -> inode         file  slot -> open file                *)
(*     ent    slot -> ramfs entry   sb    slot -> super block              *)
(*     proc   process -> its root, pwd and descriptors                     *)
(*     unnamed  the minor numbers get_unnamed_dev has given away           *)
(*     zeroed   whether the slabs' memory held zeroes before its first use *)
(*     lost     why what the kernel does next cannot be told, or "no"      *)
(* Slots stand for addresses; a slab hands out its first free object.  A   *)
(* call runs without interruption, so a call is one operator on s.  Its    *)
(* result is a record [s, err, res]: the new tables, "" or the error, and  *)
(* the inode it found.                                                     *)
(***************************************************************************)
EXTENDS Integers, Sequences, FiniteSetsExt, SequencesExt

CONSTANTS NInodes, NEnts, NSupers, NFiles,   \* sizes of the tables
          NR_FILES,                          \* descriptors of a process
          Disk     \* the ext2 volume: inode number -> [kind, rdev, names]

NULL == 0
Inodes == 1 .. NInodes
Files  == 1 .. NFiles
Fds    == 0 .. NR_FILES - 1
USHRT  == 65536          \* i_count, i_nlink and f_count are unsigned shorts
GARBAGE == -1            \* a pointer nobody has set

FreeInode == [live |-> FALSE, sb |-> NULL, ino |-> 0, kind |-> "none", rdev |-> 0,
              count |-> 0, memfs |-> FALSE, mount |-> NULL, nlink |-> 0, size |-> 0,
              list |-> << >>]
\* astray: the references that dup2 stored outside the table of descriptors.
FreeFile == [count |-> 0, inode |-> NULL, mode |-> {}, astray |-> 0]

Ok(s, i)    == [s |-> s, err |-> "", res |-> i]
Fail(s, e)  == [s |-> s, err |-> e, res |-> NULL]
Then(r, step(_)) == IF r.err # "" THEN r ELSE step(r)

-----------------------------------------------------------------------------
get_empty_inode(s) == Min({i \in Inodes : ~s.inode[i].live})

\* i_count++
igrab(s, i) == [s EXCEPT !.inode[i].count = (@ + 1) % USHRT]

\* A slab object keeps what it held.  Whoever takes it sets every field but
\* these two before anybody reads it.
Freed(inode) == [FreeInode EXCEPT !.mount = inode.mount, !.size = inode.size]

\* ext2_put_inode releases private->buf, a buffer if any: ext2_iget, which was
\* to store it, does not, so it is what the memory held at first.
put_inode(s, i) ==
    IF s.sb[s.inode[i].sb].type = "ext2" /\ ~s.zeroed
    THEN [s EXCEPT !.lost = "private->buf"] ELSE s

iput(s, i) ==
    IF i = NULL THEN s
    ELSE LET c == (s.inode[i].count - 1) % USHRT
         IN  IF c = 0 /\ ~s.inode[i].memfs
             THEN [put_inode(s, i) EXCEPT !.inode[i] = Freed(@)]
             ELSE [s EXCEPT !.inode[i].count = c]

\* ext2_read_inode.  A ramfs has no read_inode: there the fields keep what
\* the memory held.
read_inode(inode, ext2, n) ==
    IF ext2 THEN [inode EXCEPT !.kind = Disk[n].kind, !.rdev = Disk[n].rdev,
                               !.nlink = Disk[n].nlink, !.size = Disk[n].size]
    ELSE inode

InCore(s, sb, n) ==
    {i \in Inodes : s.inode[i].live /\ s.inode[i].sb = sb /\ s.inode[i].ino = n}

\* An inode another file system is mounted on stands for that one's root.
CrossMount(s, i) ==
    IF s.inode[i].mount = NULL THEN Ok(igrab(s, i), i)
    ELSE IF s.inode[i].mount = GARBAGE THEN Ok([s EXCEPT !.lost = "i_mount"], i)
    ELSE Ok(iput(igrab(igrab(s, i), s.inode[i].mount), i), s.inode[i].mount)

\* A new inode's i_mount is not set.
iget(s, sb, n) ==
    IF InCore(s, sb, n) # {} THEN CrossMount(s, Min(InCore(s, sb, n)))
    ELSE LET i   == get_empty_inode(s)
             new == [s.inode[i] EXCEPT !.live = TRUE, !.sb = sb, !.ino = n, !.count = 1,
                                       !.memfs = s.sb[sb].memfs]
         IN  Ok([s EXCEPT !.inode[i] = read_inode(new, s.sb[sb].type = "ext2", n)], i)

-----------------------------------------------------------------------------
get_empty_file(s) == Min({f \in Files : s.file[f].count = 0})

free_file(s, f) == [s EXCEPT !.file[f] = FreeFile]

\* The release operations of devices and pipes are other modules' concern.
file_unref(s, f) ==
    IF s.file[f].count > 1 THEN [s EXCEPT !.file[f].count = @ - 1]
    ELSE free_file(iput(s, s.file[f].inode), f)

\* The open files that keep a file system from becoming read-only.
fs_may_remount_ro(s, dev) ==
    \A f \in Files :
        s.file[f].count > 0 /\ s.sb[s.inode[s.file[f].inode].sb].dev = dev =>
            ~(s.inode[s.file[f].inode].kind = "reg" /\ "O_WRITE" \in s.file[f].mode)
=============================================================================
