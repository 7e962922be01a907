-------------------------------- MODULE Vfs ---------------------------------
(***************************************************************************)
(* The file system calls of several processes on an ext2 root, ramfs and   *)
(* modfs mounts.  A call does not sleep (the only block driver answers at  *)
(* once), so it is one step: an operator of Namei or Super on the tables.  *)
(***************************************************************************)
EXTENDS Super

CONSTANTS NProcs,
          Paths,         \* what open, unlink, stat, truncate, ... are given
          DirPaths,      \* what mkdir, rmdir, chdir, mount, ... are given
          DevPaths,      \* block devices to mount, and what is taken for one
          NewPaths,      \* the second argument of link and rename
          OpenFlags,
          MountPoint,    \* where init mounts a ramfs, if it does
          MaxCalls       \* bound on the calls that change a table

VARIABLES inode, file, ent, sb, proc, unnamed, zeroed, lost,
          calls

vars == <<inode, file, ent, sb, proc, unnamed, zeroed, lost, calls>>

Procs == 1 .. NProcs
tab == [inode |-> inode, file |-> file, ent |-> ent, sb |-> sb, proc |-> proc,
        unnamed |-> unnamed, zeroed |-> zeroed, lost |-> lost]

Becomes(s) == /\ inode' = s.inode
              /\ file' = s.file
              /\ ent' = s.ent
              /\ sb' = s.sb
              /\ proc' = s.proc
              /\ unnamed' = s.unnamed
              /\ zeroed' = s.zeroed
              /\ lost' = s.lost

DeadProc == [live |-> FALSE, root |-> NULL, pwd |-> NULL, filp |-> [fd \in Fds |-> NULL]]

\* create_init: the first process starts in the root directory.
Boot(zero) ==
    LET init(s) == [s EXCEPT !.proc[1] = [DeadProc EXCEPT
                        !.live = TRUE, !.root = s.sb[1].mounted, !.pwd = s.sb[1].mounted]]
        memory == [FreeInode EXCEPT !.mount = IF zero THEN NULL ELSE GARBAGE]
    IN  init(mount_root([inode |-> [i \in Inodes |-> memory],
                         file |-> [f \in Files |-> FreeFile],
                         ent |-> [e \in Ents |-> FreeEnt],
                         sb |-> [x \in Supers |-> FreeSuper],
                         proc |-> [p \in Procs |-> DeadProc], unnamed |-> {},
                         zeroed |-> zero, lost |-> "no"]))

Init == /\ \E boot \in {Boot(zero) : zero \in BOOLEAN}, mounted \in BOOLEAN :
           \E s \in {IF mounted THEN sys_mount(boot, 1, MountPoint, MountPoint, "ramfs", FALSE).s
                     ELSE boot} :
              /\ inode = s.inode
              /\ file = s.file
              /\ ent = s.ent
              /\ sb = s.sb
              /\ proc = s.proc
              /\ unnamed = s.unnamed
              /\ zeroed = s.zeroed
              /\ lost = s.lost
        /\ calls = 0

-----------------------------------------------------------------------------
Call(p, result) == /\ lost = "no"
                   /\ proc[p].live
                   /\ calls < MaxCalls
                   /\ \E r \in {result} :
                          /\ Becomes(r.s)
                          /\ calls' = IF r.s = tab THEN calls ELSE calls + 1

Open(p, path, flags)   == Call(p, sys_open(tab, p, path, flags))
Close(p, fd)           == Call(p, sys_close(tab, p, fd))
Dup(p, fd)             == Call(p, do_dup(tab, p, fd, 0))
Dup2(p, fd, new)       == Call(p, do_dup2(tab, p, fd, new))
Chdir(p, path)         == Call(p, sys_chdir(tab, p, path))
Truncate(p, path)      == Call(p, sys_truncate(tab, p, path, 1))
Stat(p, path)          == Call(p, sys_stat(tab, p, path))
Mknod(p, path, k, dev) == Call(p, sys_mknod(tab, p, path, k, dev))
Mkdir(p, path)         == Call(p, sys_mkdir(tab, p, path))
Rmdir(p, path)         == Call(p, sys_rmdir(tab, p, path))
Unlink(p, path)        == Call(p, sys_unlink(tab, p, path))
Link(p, path, new)     == Call(p, sys_link(tab, p, path, new))
Rename(p, path, new)   == Call(p, sys_rename(tab, p, path, new))
Umount(p, path)        == Call(p, sys_umount(tab, p, path))
Mount(p, dev, path, type, ro) == Call(p, sys_mount(tab, p, dev, path, type, ro))
Remount(p, path, ro)   == Call(p, do_remount(tab, p, path, ro))

\* pcb_clone: descriptors are counted, root and working directory are not.
pcb_clone(s, p, c) ==
    [s EXCEPT !.proc[c] = s.proc[p],
              !.file = [f \in Files |-> [s.file[f] EXCEPT
                            !.count = @ + Cardinality({fd \in Fds : s.proc[p].filp[fd] = f})]]]

Fork(p, c) == /\ ~proc[c].live
              /\ Call(p, Ok(pcb_clone(tab, p, c), NULL))

\* do_exit: every descriptor is closed.
do_exit(s, p) ==
    LET t == FoldLeft(LAMBDA x, fd : sys_close(x, p, fd - 1).s, s, [k \in 1 .. NR_FILES |-> k])
    IN  [t EXCEPT !.proc[p] = DeadProc]

\* init does not exit.
Exit(p) == /\ p # 1
           /\ Call(p, Ok(do_exit(tab, p), NULL))

Next ==
    \/ \E p \in Procs, path \in Paths :
          \/ \E flags \in OpenFlags : Open(p, path, flags)
          \/ Truncate(p, path)
          \/ Stat(p, path)
          \/ Unlink(p, path)
          \/ \E dev \in ChrDevs : Mknod(p, path, "chr", dev)
          \/ \E new \in NewPaths : Link(p, path, new) \/ Rename(p, path, new)
    \/ \E p \in Procs, path \in DirPaths :
          \/ Chdir(p, path)
          \/ Mkdir(p, path)
          \/ Rmdir(p, path)
          \/ \E dev \in DevPaths : Mount(p, dev, path, "ext2", FALSE)
          \/ \E type \in {"ramfs", "modfs"} : Mount(p, path, path, type, FALSE)
          \/ \E ro \in BOOLEAN : Remount(p, path, ro)
    \/ \E p \in Procs, path \in DirPaths \union DevPaths : Umount(p, path)
    \/ \E p \in Procs, fd \in Fds :
          \/ Close(p, fd)
          \/ Dup(p, fd)
          \/ \E new \in -1 .. NR_FILES : Dup2(p, fd, new)
    \/ \E p, c \in Procs : Fork(p, c)
    \/ \E p \in Procs : Exit(p)

Spec == Init /\ [][Next]_vars

-----------------------------------------------------------------------------
\* The open files, and for each inode those who point to it; processes that
\* share a working directory count once.
OpenFiles == {f \in Files : file[f].count > 0}
Holders(i) ==
    Cardinality({f \in OpenFiles : file[f].inode = i})
    + (IF \E p \in Procs : proc[p].pwd = i THEN 1 ELSE 0)
    + (IF proc[1].root = i THEN 1 ELSE 0)
    + Cardinality({x \in Supers : sb[x].mounted = i})
    + Cardinality({x \in Supers : sb[x].covered = i})

\* Everything that points to an inode points to one in memory: open files,
\* roots and working directories, super blocks, covered directories.
PointersLive ==
    LET live(i) == i = NULL \/ inode[i].live
    IN  /\ \A f \in OpenFiles : inode[file[f].inode].live
        /\ \A p \in Procs : live(proc[p].root) /\ live(proc[p].pwd)
        /\ \A x \in Supers : live(sb[x].mounted) /\ live(sb[x].covered)
        /\ \A i \in Inodes : inode[i].mount # GARBAGE => live(inode[i].mount)

\* i_count covers the pointers to every inode iput may free (a ramfs keeps
\* the others whatever their count), and f_count is the number of descriptors
\* of a file, over all processes, after any order of open, dup, fork and close.
\* Descriptors that dup2 took for below zero are never closed and stay counted.
\* The property ends where a process leaves a working directory it shares, and
\* where iput or iget follow a pointer that was never set.
CountsCover ==
    lost = "no" =>
        /\ PointersLive
        /\ \A i \in Inodes : inode[i].live /\ ~inode[i].memfs => inode[i].count >= Holders(i)
        /\ \A f \in Files :
              file[f].count = file[f].astray +
                  Cardinality({<<p, fd>> \in Procs \X Fds : proc[p].filp[fd] = f})

\* Lookup crosses a mount both ways: down from the covered directory to the
\* root of the mounted file system, and with ".." back up, and no other inode
\* leads anywhere.  iget and ramfs never set i_mount, so this rests on memory
\* that is zero at first, and on every inode being freed with i_mount NULL.
\* umount leaves the super block its device, and the next mount on that device
\* takes it over without a root: then i_mount is NULL and lookup stays in the
\* covered directory.
MountsPaired ==
    zeroed /\ lost = "no" =>
        /\ \A x \in Supers \ {1} : sb[x].covered # NULL =>
              LET c == sb[x].covered
              IN  /\ iget(tab, inode[c].sb, inode[c].ino).res =
                          IF sb[x].mounted = NULL THEN c ELSE sb[x].mounted
                  /\ sb[x].mounted # NULL => Upward(tab, sb[x].mounted).res = c
        /\ \A i \in Inodes : inode[i].mount # NULL =>
              \E x \in Supers : sb[x].mounted = inode[i].mount /\ sb[x].covered = i

\* What is mounted has a root, as do_umount expects ("mounted inode has
\* i_mount=NULL").
MountsLead == \A x \in Supers : sb[x].covered # NULL => sb[x].mounted # NULL

\* No pointer that was never set is followed, and nobody loses its working
\* directory.
NothingLost == lost = "no"

\* The entries of a directory in memory.
EntsOf(i) == {ent[e] : e \in Range(inode[i].list)}
InCoreAt(x, n) == InCore(tab, x, n)

\* Every entry of a ramfs leads to an inode in memory (there is no disk to
\* load it from), and a file's i_nlink is the number of its names, whatever
\* mknod, link, unlink and rename have done, under whatever names: an entry
\* may be called otherwise than it was asked for, by what is left of a longer
\* name.
EntriesLead ==
    lost = "no" =>
        /\ \A i \in Inodes : inode[i].live =>
              \A e \in Range(inode[i].list) :
                  ent[e].used /\ InCoreAt(inode[i].sb, ent[e].ino) # {}
        /\ \A i \in Inodes : inode[i].live /\ sb[inode[i].sb].memfs /\ inode[i].kind # "dir" =>
              inode[i].nlink = Cardinality({e \in Ents : \E d \in Inodes :
                  /\ inode[d].sb = inode[i].sb
                  /\ e \in Range(inode[d].list)
                  /\ ent[e].ino = inode[i].ino})

\* What open creates can be found under its name.
CreatedIsFound ==
    zeroed /\ lost = "no" => \A p \in Procs, path \in Paths :
        LET r == sys_open(tab, p, path, {"O_READ", "O_CREAT"})
        IN  proc[p].live /\ r.err = "" => sys_stat(r.s, p, path).err = ""

\* The tables but for what free slab objects hold.
Held(s) == [s EXCEPT !.inode = [i \in Inodes |-> IF @[i].live THEN @[i] ELSE FreeInode]]

\* A lookup that succeeds and one that fails, anywhere along the path, both
\* return every reference they take, unless they follow an i_mount that was
\* never set or free an ext2 inode with a buffer that was never set.
LookupBalanced ==
    lost = "no" => \A p \in Procs, path \in Paths \union DirPaths :
        LET r == sys_stat(tab, p, path)
        IN  proc[p].live /\ r.s.lost = "no" => Held(r.s) = Held(tab)

\* No file open for writing lies on a read-only file system.
ReadOnlyNoWriters ==
    \A f \in OpenFiles :
        "O_WRITE" \in file[f].mode /\ inode[file[f].inode].kind = "reg" =>
            ~sb[inode[file[f].inode].sb].rdonly
=============================================================================
