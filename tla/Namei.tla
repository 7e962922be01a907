------------------------------- MODULE Namei --------------------------------
(***************************************************************************)
(* Path lookup and the calls on names (fs/namei.c, fs/open.c, fs/stat.c).  *)
(* A path is [abs, comps]: whether it begins with a slash, and what stands *)
(* between its slashes; the last of comps is the base name, empty after a  *)
(* trailing slash.  Permissions are always granted (permission() returns   *)
(* 1) and user memory is taken to be readable, so EACCES for want of       *)
(* permission and EFAULT do not occur.  No file system has follow_link.    *)
(***************************************************************************)
EXTENDS Ramfs

CONSTANTS ChrDevs, BlkDevs      \* the device numbers that drivers serve

ext2_lookup(s, dir, name) ==
    LET names == Disk[s.inode[dir].ino].names
        found(r) == Ok(iput(r.s, dir), r.res)
    IN  IF name \notin DOMAIN names THEN Fail(iput(s, dir), "ENOENT")
        ELSE found(iget(s, s.inode[dir].sb, names[name]))

fs_lookup(s, dir, name) ==
    IF s.sb[s.inode[dir].sb].type = "ext2" THEN ext2_lookup(s, dir, name)
    ELSE ramfs_lookup(s, dir, name)

\* Mutant: the reference is not moved from the mounted root to what it covers.
Upward_NoGrab(s, dir) ==
    LET sb == s.inode[dir].sb
    IN  IF dir # s.sb[sb].mounted THEN Ok(s, dir)
        ELSE IF s.sb[sb].covered = NULL THEN Fail(iput(s, dir), "ENOENT")
        ELSE Ok(iput(s, dir), s.sb[sb].covered)

\* ".." at the root of a mounted file system starts from what it covers.
Upward(s, dir) ==
    LET sb == s.inode[dir].sb
        c  == s.sb[sb].covered
    IN  IF dir # s.sb[sb].mounted THEN Ok(s, dir)
        ELSE IF c = NULL THEN Fail(iput(s, dir), "ENOENT")
        ELSE Ok(igrab(iput(s, dir), c), c)

\* lookup uses up a reference to dir.
lookup(s, p, dir, name) ==
    LET within(u) == IF "lookup" \notin i_op(u.s, u.res) THEN Fail(iput(u.s, u.res), "ENOTDIR")
                     ELSE IF name = << >> THEN u
                     ELSE fs_lookup(u.s, u.res, name)
    IN  IF name = DotDot /\ dir = s.proc[p].root THEN Ok(s, dir)
        ELSE Then(IF name = DotDot THEN Upward(s, dir) ELSE Ok(s, dir), within)

follow_link(s, dir, inode) == Ok(iput(s, dir), inode)

\* Mutant: a component that is not found keeps the directory it was sought in.
Descend_Leaks(p, r, name) ==
    LET found(l) == IF l.err # "" THEN l ELSE follow_link(l.s, r.res, l.res)
    IN  IF r.err # "" THEN r ELSE found(lookup(igrab(r.s, r.res), p, r.res, name))

\* One component: lookup, then follow_link.
Descend(p, r, name) ==
    LET found(l) == IF l.err # "" THEN Fail(iput(l.s, r.res), l.err)
                    ELSE follow_link(l.s, r.res, l.res)
    IN  IF r.err # "" THEN r ELSE found(lookup(igrab(r.s, r.res), p, r.res, name))

dir_namei(s, p, path) ==
    LET pwd  == s.proc[p].pwd
        root == s.proc[p].root
        base == IF path.abs THEN Ok(igrab(iput(igrab(s, pwd), pwd), root), root)
                ELSE Ok(igrab(s, pwd), pwd)
        directory(r) == IF "lookup" \notin i_op(r.s, r.res)
                        THEN Fail(iput(r.s, r.res), "ENOTDIR") ELSE r
    IN  Then(FoldLeft(LAMBDA r, name : Descend(p, r, name), base, Front(path.comps)),
             directory)

namei(s, p, path) == Descend(p, dir_namei(s, p, path), Last(path.comps))

IS_RDONLY(s, i) == s.sb[s.inode[i].sb].rdonly

\* ramfs_truncate's frames are module RamFile's.
Truncated(s, i, len) == [s EXCEPT !.inode[i].size = len]

\* open_namei, once the directory is found.  Its reference is returned on
\* failure, and by create; a name that is found keeps it.
open_absent(s, dir, name, flags, err) ==
    LET fail(e) == Fail(iput(s, dir), e)
        created(c) == [c EXCEPT !.s = iput(c.s, dir)]
    IN  IF "O_CREAT" \notin flags THEN fail(err)
        ELSE IF "create" \notin i_op(s, dir) THEN fail("EACCES")
        ELSE IF IS_RDONLY(s, dir) THEN fail("EROFS")
        ELSE created(ramfs_create(igrab(s, dir), dir, name))

\* Opening for writing truncates: O_TRUNC contains the bit O_WRITE.
O_TRUNC_bits == {"O_TRUNC", "O_WRITE"}

open_found(s, dir, i, flags) ==
    IF {"O_CREAT", "O_EXCL"} \subseteq flags THEN Fail(iput(iput(s, i), dir), "EEXIST")
    ELSE IF s.inode[i].kind = "dir" /\ "O_WRITE" \in flags THEN Fail(iput(s, i), "EACCES")
    ELSE IF IS_RDONLY(s, i) /\ "O_WRITE" \in flags THEN Fail(iput(s, i), "EROFS")
    ELSE Ok(IF flags \cap O_TRUNC_bits # {} THEN Truncated(s, i, 0) ELSE s, i)

open_namei(s, p, path, flags) ==
    LET name == Last(path.comps)
        opened(l, dir) == IF l.err # "" THEN open_absent(l.s, dir, name, flags, l.err)
                          ELSE open_found(l.s, dir, l.res, flags)
        within(d) ==
            IF name # << >> THEN opened(lookup(igrab(d.s, d.res), p, d.res, name), d.res)
            ELSE IF "O_WRITE" \in flags THEN Fail(iput(d.s, d.res), "EISDIR") ELSE d
    IN  Then(dir_namei(s, p, path), within)

-----------------------------------------------------------------------------
(* The calls that change a directory: what sys_mknod, sys_mkdir, sys_rmdir *)
(* and sys_unlink have in common.  op(s, dir, name) is the file system's.  *)

OnName(s, p, path, opname, emptyname, op(_, _, _)) ==
    LET name == Last(path.comps)
        within(d) == IF name = << >> THEN Fail(iput(d.s, d.res), emptyname)
                     ELSE IF IS_RDONLY(d.s, d.res) THEN Fail(iput(d.s, d.res), "EROFS")
                     ELSE IF opname \notin i_op(d.s, d.res) THEN Fail(iput(d.s, d.res), "EPERM")
                     ELSE op(d.s, d.res, name)
    IN  Then(dir_namei(s, p, path), within)

sys_mknod(s, p, path, kind, dev) ==
    IF kind = "dir" THEN Fail(s, "EPERM")
    ELSE OnName(s, p, path, "mknod", "ENOENT",
                LAMBDA t, dir, name : ramfs_mknod(t, dir, name, kind, dev))
sys_mkdir(s, p, path)  == OnName(s, p, path, "mkdir", "ENOENT", ramfs_mkdir)
sys_rmdir(s, p, path)  == OnName(s, p, path, "rmdir", "ENOENT", ramfs_rmdir)
sys_unlink(s, p, path) == OnName(s, p, path, "unlink", "EPERM", ramfs_unlink)

sys_link(s, p, path, newpath) ==
    LET name == Last(newpath.comps)
        named(d, old) ==
            LET fail(err) == Fail(iput(iput(d.s, old), d.res), err)
            IN  IF d.err # "" THEN Fail(iput(d.s, old), d.err)
                ELSE IF name = << >> THEN fail("EPERM")
                ELSE IF IS_RDONLY(d.s, d.res) THEN fail("EROFS")
                ELSE IF d.s.inode[d.res].sb # d.s.inode[old].sb THEN fail("EXDEV")
                ELSE IF "link" \notin i_op(d.s, d.res) THEN fail("EPERM")
                ELSE ramfs_link(d.s, old, d.res, name)
    IN  Then(namei(s, p, path), LAMBDA o : named(dir_namei(o.s, p, newpath), o.res))

is_dotlink(name) == name \in {Dot, DotDot}

sys_rename(s, p, path, newpath) ==
    LET oldname == Last(path.comps)
        newname == Last(newpath.comps)
        to(n, old) ==
            LET fail(err) == Fail(iput(iput(n.s, old), n.res), err)
            IN  IF n.err # "" THEN Fail(iput(n.s, old), n.err)
                ELSE IF newname = << >> \/ is_dotlink(newname) THEN fail("EPERM")
                ELSE IF n.s.inode[n.res].sb # n.s.inode[old].sb THEN fail("EXDEV")
                ELSE IF IS_RDONLY(n.s, n.res) \/ IS_RDONLY(n.s, old) THEN fail("EROFS")
                ELSE IF "rename" \notin i_op(n.s, old) THEN fail("EPERM")
                ELSE ramfs_rename(n.s, old, oldname, n.res, newname)
        from(o) == IF oldname = << >> \/ is_dotlink(oldname)
                   THEN Fail(iput(o.s, o.res), "EPERM")
                   ELSE to(dir_namei(o.s, p, newpath), o.res)
    IN  Then(dir_namei(s, p, path), from)

-----------------------------------------------------------------------------
(* fs/open.c, fs/fcntl.c, fs/stat.c *)

\* A call that succeeds keeps the reference it took.
sys_truncate(s, p, path, len) ==
    Then(namei(s, p, path),
         LAMBDA r : IF r.s.inode[r.res].kind = "dir" THEN Fail(iput(r.s, r.res), "EISDIR")
                    ELSE Ok(Truncated(r.s, r.res, len), NULL))

\* fork does not count the working directory again: who leaves one that others
\* are in as well takes it from them.
sys_chdir(s, p, path) ==
    LET shared == \E q \in DOMAIN s.proc \ {p} : s.proc[q].pwd = s.proc[p].pwd
        moved(t, i) == [iput(t, s.proc[p].pwd) EXCEPT
                           !.proc[p].pwd = i, !.lost = IF shared THEN "pwd" ELSE @]
    IN  Then(namei(s, p, path),
             LAMBDA r : IF r.s.inode[r.res].kind # "dir"
                        THEN Fail(iput(r.s, r.res), "ENOTDIR")
                        ELSE Ok(moved(r.s, r.res), NULL))

sys_stat(s, p, path) == Then(namei(s, p, path), LAMBDA r : Ok(iput(r.s, r.res), NULL))

get_fd(s, p, start) ==
    LET free == {fd \in Fds : fd >= start /\ s.proc[p].filp[fd] = NULL}
    IN  IF free = {} THEN -1 ELSE Min(free)

\* Opening a device node asks its driver: chrdev_open, blkdev_open.
f_op_open(inode) ==
    IF inode.kind = "chr" /\ inode.rdev \notin ChrDevs THEN "ENODEV"
    ELSE IF inode.kind = "blk" /\ inode.rdev \notin BlkDevs THEN "ENXIO" ELSE ""

file_open(s, i, mode) ==
    LET f   == get_empty_file(s)
        err == f_op_open(s.inode[i])
    IN  IF err # "" THEN Fail(s, err)
        ELSE Ok([s EXCEPT !.file[f] = [FreeFile EXCEPT
                             !.count = 1, !.inode = i, !.mode = mode]], f)

sys_open(s, p, path, flags) ==
    LET fd == get_fd(s, p, 0)
        installed(o, i) == IF o.err # "" THEN Fail(iput(o.s, i), o.err)
                           ELSE Ok([o.s EXCEPT !.proc[p].filp[fd] = o.res], NULL)
    IN  IF fd < 0 THEN Fail(s, "EMFILE")
        ELSE Then(open_namei(s, p, path, flags),
                  LAMBDA r : installed(file_open(r.s, r.res, flags \cap {"O_READ", "O_WRITE"}),
                                       r.res))

sys_close(s, p, fd) ==
    LET f == s.proc[p].filp[fd]
    IN  IF fd \notin Fds THEN Fail(s, "EBADF")
        ELSE IF f = NULL THEN Fail(s, "EBADF")
        ELSE Ok(file_unref([s EXCEPT !.proc[p].filp[fd] = NULL], f), NULL)

\* A negative descriptor lies in front of filp, in the pcb's signal data, which
\* is not part of s.
dupfd(s, p, old, new) ==
    LET f == s.proc[p].filp[old]
        t == IF new < 0 THEN [s EXCEPT !.file[f].astray = @ + 1]
             ELSE [s EXCEPT !.proc[p].filp[new] = f]
    IN  Ok([t EXCEPT !.file[f].count = (@ + 1) % USHRT], NULL)

do_dup(s, p, fd, start) ==
    IF s.proc[p].filp[fd] = NULL THEN Fail(s, "EBADF")
    ELSE IF get_fd(s, p, start) < 0 THEN Fail(s, "EMFILE")
    ELSE dupfd(s, p, fd, get_fd(s, p, start))

do_dup2(s, p, old, new) ==
    IF s.proc[p].filp[old] = NULL THEN Fail(s, "EBADF")
    ELSE IF old = new THEN Ok(s, NULL)
    ELSE IF new >= NR_FILES THEN Fail(s, "EBADF")
    ELSE dupfd(sys_close(s, p, new).s, p, old, new)
=============================================================================
