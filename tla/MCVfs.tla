------------------------------- MODULE MCVfs --------------------------------
(* Instances of Vfs for TLC. *)
EXTENDS Vfs

a == <<2>>
b == <<3>>
d == <<4>>
c == <<5>>
k == <<6>>
ab == a \o b

MCChrDevs == {1}
MCBlkDevs == {3}

\* /d is a directory, /c a served and /b an unserved character device, /k the
\* block device of the volume itself.
MCDisk ==
    2 :> [kind |-> "dir", rdev |-> 0, nlink |-> 3, size |-> 6,
          names |-> Dot :> 2 @@ DotDot :> 2 @@ d :> 3 @@ c :> 4 @@ b :> 5 @@ k :> 6]
    @@ 3 :> [kind |-> "dir", rdev |-> 0, nlink |-> 2, size |-> 2,
             names |-> Dot :> 3 @@ DotDot :> 2]
    @@ 4 :> [kind |-> "chr", rdev |-> 1, nlink |-> 1, size |-> 0, names |-> << >>]
    @@ 5 :> [kind |-> "chr", rdev |-> 2, nlink |-> 1, size |-> 0, names |-> << >>]
    @@ 6 :> [kind |-> "blk", rdev |-> 3, nlink |-> 1, size |-> 0, names |-> << >>]

Abs(comps) == [abs |-> TRUE, comps |-> comps]
Rel(comps) == [abs |-> FALSE, comps |-> comps]

MCPaths    == {Abs(<<d, a>>), Abs(<<d, ab>>), Abs(<<d, a, b>>), Rel(<<b>>), Abs(<<c>>)}
MCDirPaths == {Abs(<<d>>), Abs(<<d, a>>), Abs(<<d, a, DotDot>>), Rel(<<DotDot>>)}
MCDevPaths == {Abs(<<c>>), Abs(<<k>>)}
MCNewPaths == {Abs(<<d, ab>>), Abs(<<d, a, b>>)}
MCFlags    == {{"O_READ"}, {"O_WRITE", "O_CREAT"}, {"O_WRITE", "O_CREAT", "O_EXCL"},
               {"O_WRITE", "O_TRUNC"}}
MCMountPoint == Abs(<<d>>)
=============================================================================
