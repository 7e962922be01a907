------------------------------ MODULE MCFileIO ------------------------------
(* Instances of FileIO for TLC. *)
EXTENDS FileIO

(* One direct pointer, two pointers to a block: the file's blocks are 4;   *)
(* 6 and 7; 10, 11, 13 and 14; and 18, the first of the third level.  Its  *)
(* count of blocks has the seven blocks of pointers in it, as on a disk.   *)
(* Its inode is the fourth of the second group: block 3.                   *)
MCVolume ==
    [blksize |-> 2, inode_table |-> <<20, 2>>, inodes_per_group |-> 8, inodes_per_block |-> 2,
     ino |-> 12, ppb |-> 2, block |-> <<4, 5, 8, 15>>, nr |-> 15, size |-> 15,
     image |-> 10 :> 6 @@ 11 :> 7 @@ 16 :> 9 @@ 17 :> 12 @@ 18 :> 10 @@ 19 :> 11
               @@ 24 :> 13 @@ 25 :> 14 @@ 30 :> 16 @@ 31 :> 0 @@ 32 :> 17 @@ 33 :> 0
               @@ 34 :> 18 @@ 35 :> 0 @@ [c \in Cells |-> c % 3]]

MCKind == <<"ram", "ram", "blk", "ext2">>
MCPrograms == {{1, 2}, {3, 4}}
MCMode == <<{"O_READ", "O_WRITE"}, {"O_READ"}, {"O_READ", "O_WRITE"}, {"O_READ"}>>
MCAt   == [ram |-> {0, 2, 4}, blk |-> {17, 35, 38}, ext2 |-> {1, 13}]
=============================================================================
