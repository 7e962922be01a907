------------------------------- MODULE Super --------------------------------
(***************************************************************************)
(* Super blocks and mounts (fs/super.c, fs/filesystems.c).  Device numbers *)
(* are small: ROOT_DEV, the first boot module, holds the ext2 volume Disk, *)
(* no other device holds one, and the file systems without a device get    *)
(* numbers from 1 to NUnnamed.  Of the mount flags MS_RDONLY is kept; the  *)
(* others are stored and, but for MS_NODEV in sys_umount, never looked at. *)
(***************************************************************************)
EXTENDS Namei

CONSTANTS NUnnamed           \* 255 in the code

Supers   == 1 .. NSupers
ROOT_DEV == NUnnamed + 1
EXT2_ROOT_INO == 2
FreeSuper == [dev |-> 0, type |-> "none", memfs |-> FALSE, mounted |-> NULL,
              covered |-> NULL, rdonly |-> FALSE, next_ino |-> 0]

get_super(s, dev) ==
    LET hits == {x \in Supers : s.sb[x].dev = dev}
    IN  IF hits = {} THEN NULL ELSE Min(hits)

\* put_super calls nothing: no file system has the operation.

\* file_systems: what the kernel registers, and whether it needs a device.
requires_dev == [ext2 |-> TRUE, ramfs |-> FALSE, modfs |-> FALSE]

\* The read_super of a type, on a fresh super block; NULL when it fails.
fs_read_super(s, x) ==
    CASE s.sb[x].type = "ramfs" -> Ok(ramfs_read_super(s, x), x)
      [] s.sb[x].type = "modfs" -> Ok(modfs_read_super(s, x), x)
      [] s.sb[x].type = "ext2"  ->
           LET mounted(r) == Ok([r.s EXCEPT !.sb[x].mounted = r.res], x)
           IN  IF s.sb[x].dev = ROOT_DEV THEN mounted(iget(s, x, EXT2_ROOT_INO))
               ELSE Ok([s EXCEPT !.sb[x].dev = 0], NULL)

\* A device that has a super block keeps it, whatever type is asked for.
read_super(s, dev, type, rdonly) ==
    LET free == {x \in Supers : s.sb[x].dev = 0}
        x    == Min(free)
    IN  IF get_super(s, dev) # NULL THEN Ok(s, get_super(s, dev))
        ELSE IF free = {} THEN Ok(s, NULL)
        ELSE fs_read_super([s EXCEPT !.sb[x] = [@ EXCEPT !.dev = dev, !.type = type,
                                !.rdonly = rdonly, !.covered = NULL]], x)

get_unnamed_dev(s) ==
    LET free == (1 .. NUnnamed) \ s.unnamed
    IN  IF free = {} THEN Ok(s, 0)
        ELSE Ok([s EXCEPT !.unnamed = @ \union {Min(free)}], Min(free))

-----------------------------------------------------------------------------
\* Mutant: the covered directory keeps its i_mount.
do_umount_Stays(s, dev) ==
    LET x == get_super(s, dev)
        c == s.sb[x].covered
        t == iput(iput(s, c), s.sb[x].mounted)
    IN  IF dev = ROOT_DEV THEN Fail(s, "ENOTSUP")
        ELSE IF x = NULL THEN Fail(s, "ENOENT")
        ELSE IF c = NULL THEN Fail(s, "ENOENT")
        ELSE Ok([t EXCEPT !.sb[x].covered = NULL, !.sb[x].mounted = NULL], NULL)

\* The super block keeps its device.
do_umount(s, dev) ==
    LET x == get_super(s, dev)
        c == s.sb[x].covered
        t == iput(iput([s EXCEPT !.inode[c].mount = NULL], c), s.sb[x].mounted)
    IN  IF dev = ROOT_DEV THEN Fail(s, "ENOTSUP")
        ELSE IF x = NULL THEN Fail(s, "ENOENT")
        ELSE IF c = NULL THEN Fail(s, "ENOENT")
        ELSE Ok([t EXCEPT !.sb[x].covered = NULL, !.sb[x].mounted = NULL], NULL)

Put(r, i) == [r EXCEPT !.s = iput(r.s, i)]

\* umount of a block device, or of the root of a mounted file system.
sys_umount(s, p, path) ==
    LET freed(u, dev) == IF u.err = "" THEN [u EXCEPT !.s.unnamed = @ \ {dev}] ELSE u
        unmounted(r) ==
            LET i  == r.res
                sb == r.s.inode[i].sb
            IN  IF r.s.inode[i].kind = "blk"
                THEN Put(freed(do_umount(r.s, r.s.inode[i].rdev), r.s.inode[i].rdev), i)
                ELSE IF i # r.s.sb[sb].mounted THEN Fail(iput(r.s, i), "EINVAL")
                ELSE freed(do_umount(iput(r.s, i), r.s.sb[sb].dev), r.s.sb[sb].dev)
    IN  Then(namei(s, p, path), unmounted)

do_mount(s, p, dev, path, type, rdonly) ==
    LET cover(x, i) ==
            IF x.res = NULL THEN Fail(iput(x.s, i), "EBUSY")
            ELSE IF x.s.sb[x.res].covered # NULL THEN Fail(iput(x.s, i), "EBUSY")
            ELSE Ok([x.s EXCEPT !.sb[x.res].covered = i,
                                !.inode[i].mount = x.s.sb[x.res].mounted], NULL)
        mount(r) == IF r.s.inode[r.res].count # 1 \/ r.s.inode[r.res].mount # NULL
                    THEN Fail(iput(r.s, r.res), "EBUSY")
                    ELSE IF r.s.inode[r.res].kind # "dir" THEN Fail(iput(r.s, r.res), "EPERM")
                    ELSE cover(read_super(r.s, dev, type, rdonly), r.res)
    IN  Then(namei(s, p, path), mount)

\* Mutant: files open for writing are not looked for.
do_remount_sb_Blind(s, x, rdonly) == Ok([s EXCEPT !.sb[x].rdonly = rdonly], NULL)

do_remount_sb(s, x, rdonly) ==
    IF rdonly /\ ~s.sb[x].rdonly /\ ~fs_may_remount_ro(s, s.sb[x].dev) THEN Fail(s, "EBUSY")
    ELSE Ok([s EXCEPT !.sb[x].rdonly = rdonly], NULL)

do_remount(s, p, path, rdonly) ==
    LET remount(r) ==
            LET sb == r.s.inode[r.res].sb
            IN  IF r.res # r.s.sb[sb].mounted THEN Fail(iput(r.s, r.res), "EINVAL")
                ELSE Put(do_remount_sb(r.s, sb, rdonly), r.res)
    IN  Then(namei(s, p, path), remount)

\* unpacked_mount, without MS_REMOUNT.  A node that is not a block device
\* keeps its reference, a mount that fails its unnamed device.
sys_mount(s, p, devpath, path, type, rdonly) ==
    LET mount(n) ==
            IF n.s.inode[n.res].kind # "blk" THEN Fail(n.s, "ENOTBLK")
            ELSE Put(do_mount(n.s, p, n.s.inode[n.res].rdev, path, type, rdonly), n.res)
        unnamed(u) == IF u.res = 0 THEN Fail(s, "EMFILE")
                      ELSE do_mount(u.s, p, u.res, path, type, rdonly)
    IN  IF requires_dev[type] THEN Then(namei(s, p, devpath), mount)
        ELSE unnamed(get_unnamed_dev(s))

\* The root's inode is held by read_super and three times more: as what the
\* file system covers, and as init's root and working directory.
mount_root(s) ==
    LET held(x) == LET i == x.s.sb[x.res].mounted
                   IN  [x.s EXCEPT !.sb[x.res].covered = i, !.inode[i].count = @ + 3]
    IN  held(read_super(s, ROOT_DEV, "ext2", FALSE))
=============================================================================
