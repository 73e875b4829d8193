------------------------------ MODULE MCFinuxFs ------------------------------
\* Instances of FinuxFs for TLC: names of three characters, and file lengths on
\* both sides of the map's bytes and of the end of the map.
EXTENDS FinuxFs

Kernel == <<"v", "m", "F">>
Other == <<"a", "b", "c">>
OneName == {Kernel}
TwoNames == {Kernel, Other}
Lengths == {0, 1, 8, 9, 16, 17, 55, 56, 65}
ShortLengths == {0, 1, 9}

\* An empty partition, one that was used for something else, and the second
\* with the inodes, the maps and the directory of an older file system.
Full(byte) == [s \in Sectors |-> [b \in Byte |-> byte]]
Older ==
    LET inodes == [i \in 0 .. 1 |-> IF i = 0 THEN RootInode ELSE [start |-> superblock.first_data_sector, cnt |-> 1]]
        root == [i \in 0 .. 1 |-> IF i = 0 THEN [num |-> 1, name |-> KernelName] ELSE NoEntry]
        maps == [n \in 0 .. 2 * SectorBytes - 1 |-> One]
    IN  Poke(Poke(Poke(Full(Junk), 2, maps), superblock.inode_array_start, Bytes(inodes, NoInode)),
             superblock.root_start, Bytes(root, NoEntry))
Partitions == {Full(Zero), Full(Junk), Older}
=============================================================================
