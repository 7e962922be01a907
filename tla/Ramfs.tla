------------------------------- MODULE Ramfs --------------------------------
(***************************************************************************)
(* The directories of fs/ramfs/ramfs.c, and fs/modfs/modfs.c, which builds *)
(* on them.  A name is a sequence of characters (numbers; 0 is NUL), since *)
(* ramfs_new_dirent and ramfs_rename copy the characters of a name without *)
(* a terminating NUL into an entry whose old contents stay: what an entry  *)
(* is called depends on what it was called before.                         *)
(*                                                                         *)
(* The operators take a reference to a directory and give it back or not   *)
(* exactly where the code calls iput.                                      *)
(***************************************************************************)
EXTENDS Inode

CONSTANTS NAME_MAX,      \* the longest name (256 in the code)
          NMods          \* boot modules, the files of a modfs

Ents == 1 .. NEnts
Dot     == <<1>>
DotDot  == <<1, 1>>
ULONG   == 2 ^ 30        \* for 2^32: how far below zero i_size wraps
FreeEnt == [used |-> FALSE, ino |-> 0, name |-> [k \in 1 .. NAME_MAX + 1 |-> 0]]

\* The i-node operations of the file systems' directories and files.
i_op(s, i) ==
    LET type == s.sb[s.inode[i].sb].type
        kind == s.inode[i].kind
    IN  IF kind = "dir" /\ type = "ramfs"
        THEN {"create", "lookup", "link", "unlink", "mkdir", "rmdir", "mknod", "rename"}
        ELSE IF kind = "dir" THEN {"lookup"}
        ELSE IF kind = "reg" /\ type = "ramfs" THEN {"truncate"} ELSE {}

-----------------------------------------------------------------------------
Named(ent, name) ==
    /\ ent.name[Len(name) + 1] = 0
    /\ \A k \in 1 .. Len(name) : ent.name[k] = name[k]

\* __lookup: the first entry of that name, or NULL.
lookup_ent(s, dir, name) ==
    LET hits == {k \in DOMAIN s.inode[dir].list : Named(s.ent[s.inode[dir].list[k]], name)}
    IN  IF hits = {} THEN NULL ELSE s.inode[dir].list[Min(hits)]

ramfs_lookup(s, dir, name) ==
    LET e == lookup_ent(s, dir, name)
        found(r) == Ok(iput(r.s, dir), r.res)
    IN  IF s.inode[dir].kind # "dir" THEN Fail(iput(s, dir), "ENOTDIR")
        ELSE IF e = NULL THEN Fail(iput(s, dir), "ENOENT")
        ELSE found(iget(s, s.inode[dir].sb, s.ent[e].ino))

\* A new entry for inode number n, and list_add_tail.
ramfs_new_dirent(s, dir, name, n) ==
    LET e    == Min({x \in Ents : ~s.ent[x].used})
        text == [k \in 1 .. NAME_MAX + 1 |->
                     IF k <= Len(name) THEN name[k] ELSE s.ent[e].name[k]]
    IN  [s EXCEPT !.ent[e] = [used |-> TRUE, ino |-> n, name |-> text],
                  !.inode[dir].list = Append(@, e), !.inode[dir].size = @ + 1]

del_dirent(s, dir, e) ==
    [s EXCEPT !.ent[e].used = FALSE, !.ent[e].ino = 0,
              !.inode[dir].list = Remove(@, e), !.inode[dir].size = (@ - 1) % ULONG]

\* i_mount is not set.
ramfs_new_inode(s, sb) ==
    LET i == get_empty_inode(s)
    IN  Ok([s EXCEPT !.inode[i] = [@ EXCEPT
                         !.live = TRUE, !.sb = sb, !.ino = s.sb[sb].next_ino, !.count = 1,
                         !.memfs = s.sb[sb].memfs],
                     !.sb[sb].next_ino = @ + 1], i)

\* ramfs_do_mknod and what its callers then store into the inode.
ramfs_do_mknod(s, dir, name, kind, rdev) ==
    LET node(r) ==
            Ok([ramfs_new_dirent(r.s, dir, name, r.s.inode[r.res].ino) EXCEPT
                   !.inode[r.res].kind = kind, !.inode[r.res].rdev = rdev,
                   !.inode[r.res].nlink = 1, !.inode[r.res].size = 0], r.res)
    IN  IF lookup_ent(s, dir, name) # NULL THEN Fail(s, "EEXIST")
        ELSE node(ramfs_new_inode(s, s.inode[dir].sb))

ramfs_create(s, dir, name) ==
    Then(ramfs_do_mknod(s, dir, name, "reg", 0), LAMBDA r : Ok(iput(r.s, dir), r.res))

ramfs_mknod(s, dir, name, kind, rdev) ==
    Then(ramfs_do_mknod(s, dir, name, kind, rdev),
         LAMBDA r : Ok(iput(iput(r.s, dir), r.res), NULL))

\* The list of dir is empty here; these two names are copied with their NUL.
mkdir_links(s, parent, dir) ==
    ramfs_new_dirent(ramfs_new_dirent(s, dir, Dot \o <<0>>, s.inode[dir].ino),
                     dir, DotDot \o <<0>>, s.inode[parent].ino)

ramfs_mkdir(s, dir, name) ==
    LET linked(r) == [mkdir_links(r.s, dir, r.res) EXCEPT
                          !.inode[r.res].nlink = 2, !.inode[dir].nlink = @ + 1]
    IN  Then(ramfs_do_mknod(s, dir, name, "dir", 0),
             LAMBDA r : Ok(iput(iput(linked(r), dir), r.res), NULL))

\* The removed directory loses two references, one more than iget gave.
ramfs_rmdir(s, dir, name) ==
    LET e == lookup_ent(s, dir, name)
        dropped(r) == [del_dirent(r.s, dir, e) EXCEPT !.inode[r.res].count = (@ - 1) % USHRT]
        removed(r) ==
            LET i == r.res
                fail(err) == Fail(iput(iput(r.s, dir), i), err)
            IN  IF r.s.inode[i].sb # r.s.inode[dir].sb \/ i = dir THEN fail("EPERM")
                ELSE IF r.s.inode[i].kind # "dir" THEN fail("ENOTDIR")
                ELSE IF r.s.inode[i].size > 2 THEN fail("ENOTEMPTY")
                ELSE IF r.s.inode[i].count > 2 THEN fail("EBUSY")
                ELSE Ok(iput(iput(dropped(r), dir), i), NULL)
    IN  IF e = NULL THEN Fail(iput(s, dir), "ENOENT")
        ELSE removed(iget(s, s.inode[dir].sb, s.ent[e].ino))

\* Mutant: the inode may go while other names lead to it.
Unlinked_Always(inode) == [inode EXCEPT !.nlink = (@ - 1) % USHRT, !.memfs = FALSE]

\* The last name's removal lets iput free the inode.
Unlinked(inode) ==
    LET n == (inode.nlink - 1) % USHRT
    IN  [inode EXCEPT !.nlink = n, !.memfs = @ /\ n # 0]

ramfs_unlink(s, dir, name) ==
    LET e == lookup_ent(s, dir, name)
        removed(r) ==
            IF r.s.inode[r.res].kind = "dir" THEN Fail(iput(iput(r.s, r.res), dir), "EPERM")
            ELSE Ok(iput(iput(del_dirent([r.s EXCEPT !.inode[r.res] = Unlinked(@)], dir, e),
                              r.res), dir), NULL)
    IN  IF e = NULL THEN Fail(iput(s, dir), "ENOENT")
        ELSE removed(iget(s, s.inode[dir].sb, s.ent[e].ino))

ramfs_link(s, old, dir, name) ==
    IF lookup_ent(s, dir, name) # NULL THEN Fail(iput(iput(s, dir), old), "EEXIST")
    ELSE LET t == ramfs_new_dirent(s, dir, name, s.inode[old].ino)
         IN  Ok(iput(iput([t EXCEPT !.inode[old].nlink = (@ + 1) % USHRT], dir), old), NULL)

\* A rename that fails keeps its references to both directories.
ramfs_rename(s, old_dir, old_name, new_dir, new_name) ==
    LET e == lookup_ent(s, old_dir, old_name)
        t == [s EXCEPT !.inode[old_dir].list = Remove(@, e), !.inode[old_dir].size = (@ - 1) % ULONG]
        u == [t EXCEPT !.inode[new_dir].list = Append(@, e), !.inode[new_dir].size = @ + 1,
                       !.ent[e].name = [k \in DOMAIN @ |->
                            IF k <= Len(new_name) THEN new_name[k] ELSE @[k]]]
    IN  IF e = NULL THEN Fail(s, "ENOENT")
        ELSE IF lookup_ent(s, new_dir, new_name) # NULL THEN Fail(s, "EEXIST")
        ELSE Ok(iput(iput(u, old_dir), new_dir), NULL)

-----------------------------------------------------------------------------
\* ramfs_read_super; the entry fsroot is allocated and linked nowhere, the
\* root's i_mount and i_size are not set.
ramfs_read_super(s, sb) ==
    LET i == get_empty_inode(s)
        e == Min({x \in Ents : ~s.ent[x].used})
        t == [s EXCEPT !.sb[sb].next_ino = 1, !.sb[sb].memfs = TRUE, !.sb[sb].mounted = i,
                       !.ent[e].used = TRUE,
                       !.inode[i] = [@ EXCEPT !.live = TRUE, !.sb = sb, !.kind = "dir",
                                         !.count = 1, !.memfs = TRUE, !.nlink = 2]]
    IN  mkdir_links(t, i, i)

ModName(n) == <<20 + n>>

mkmod(s, dir, n) == ramfs_do_mknod(s, dir, ModName(n), "reg", 0).s

modfs_read_super(s, sb) ==
    FoldLeft(LAMBDA x, n : mkmod(x, x.sb[sb].mounted, n), ramfs_read_super(s, sb),
             [n \in 1 .. NMods |-> n])
=============================================================================
