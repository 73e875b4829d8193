---------------------------- MODULE FinuxFsProofs ----------------------------
(***************************************************************************)
(* Proofs about FinuxFs for partitions, inode tables and files of any size. *)
(***************************************************************************)
EXTENDS FinuxFs, SequenceTheorems, NaturalsInduction, WellFoundedInduction, TLAPS

\* The byte map of the sectors fills whole sectors.  Otherwise the tool's map
\* reaches into the inode array.
WholeMap == SectorCnt % (8 * SectorBytes) = 0

-----------------------------------------------------------------------------
(* The invariant.                                                           *)

IsDisk(d) == DOMAIN d = Sectors /\ \A s \in Sectors : DOMAIN d[s] = Byte
SuperSector == [b \in Byte |-> <<superblock, b>>]
Uniform(f) == [b \in Byte |-> f]
MapArea == superblock.sector_map_start
InodeArea == superblock.inode_array_start
RootArea == superblock.root_start
DataArea == superblock.first_data_sector
RootLen == AreaSectors * (SectorBytes \div InodeBytes)

\* The bytes from sector s on are w.
Holds(d, s, w) == \A n \in DOMAIN w : Peek(d, s, n) = w[n]

\* What no run of the tool destroys.
FirstInode == [i \in 0 .. 0 |-> RootInode]
Layout(d) ==
    d[1] = SuperSector /\ Peek(d, 2, 0) = One /\ Holds(d, InodeArea, Bytes(FirstInode, NoInode))

\* make_fs has got as far as step: every sector has what was last written to it.
Written(n) ==
    \A k \in 1 .. n :
        \/ \E j \in k + 1 .. n : make_fs_writes[j][1] = make_fs_writes[k][1]
        \/ disk[make_fs_writes[k][1]] = make_fs_writes[k][2]

LayoutInv ==
    /\ master # NULL => IsDisk(master) /\ Layout(master) /\ Layout(disk) /\ pc # "format"
    /\ pc = "format" => Written(step)
    /\ tool # NULL =>
        /\ master # NULL /\ pc = "off"
        /\ DOMAIN tool.inodes = 0 .. MaxInodes - 1 /\ tool.inodes[0] = RootInode
        /\ DOMAIN tool.inode_map = 0 .. MaxInodes - 1 /\ tool.inode_map[0] = One
        /\ DOMAIN tool.sector_map = 0 .. MapLen - 1

\* A file system without files.
Zeros(len) == [n \in 0 .. len - 1 |-> Zero]
FreshInodes == [i \in 0 .. MaxInodes - 1 |-> IF i = 0 THEN RootInode ELSE NoInode]
FreshInodeMap == [i \in 0 .. MaxInodes - 1 |-> IF i = 0 THEN One ELSE Zero]
Fresh(d) ==
    /\ d[1] = SuperSector /\ Holds(d, 2, FreshInodeMap)
    /\ Holds(d, MapArea, Zeros(superblock.sector_map_sectors * SectorBytes))
    /\ Holds(d, InodeArea, Bytes(FreshInodes, NoInode))
    /\ Holds(d, RootArea, Zeros(RootLen * InodeBytes))
    /\ \A i \in 1 .. AreaSectors : d[RootArea + i - 1] = Blank

\* What the tool writes into one.
KernelInode == [start |-> DataArea, cnt |-> size[KernelName]]
KernelInodes == [FreshInodes EXCEPT ![1] = KernelInode]
KernelInodeMap == [FreshInodeMap EXCEPT ![1] = One]
KernelMap ==
    [n \in 0 .. MapLen - 1 |-> IF n \in Marked(0, size[KernelName]) THEN Mark(size[KernelName]) ELSE Zero]
KernelRoot ==
    [i \in 0 .. RootLen - 1 |-> IF i = 0 THEN [num |-> 1, name |-> KernelName] ELSE NoEntry]
DataWritten(d, n) == \A i \in 1 .. n : d[DataArea + i - 1] = Uniform(<<KernelName, i>>)

\* The lists of a run t that copies the kernel, and what it has written to d.
Copy(t, d) ==
    /\ t.file = KernelName /\ t.num = 1 /\ t.at = 0 /\ t.inodes = KernelInodes
    /\ t.inode_map = KernelInodeMap /\ t.sector_map = KernelMap
    /\ Octets(size[KernelName]) <= MapLen
    /\ t.done \in 0 .. size[KernelName] /\ DataWritten(d, t.done)
    /\ t.todo > 1 => t.done = size[KernelName]
    /\ t.todo > 2 => Holds(d, InodeArea, Bytes(KernelInodes, NoInode))
    /\ t.todo > 4 => Holds(d, MapArea, KernelMap)
    /\ Holds(d, RootArea, Zeros(RootLen * InodeBytes))

\* The kernel is on d.
HasKernel(d) ==
    /\ Octets(size[KernelName]) <= MapLen /\ DataWritten(d, size[KernelName])
    /\ Holds(d, InodeArea, Bytes(KernelInodes, NoInode)) /\ Holds(d, MapArea, KernelMap)
    /\ Holds(d, RootArea, Bytes(KernelRoot, NoEntry))

\* No byte of a sector belongs to a structure.
Empty(v) == \A b \in Byte : v[b] \in {Zero, One, Junk}

\* What make_fs does, whatever the tool does before and afterwards.
FormatInv ==
    /\ pc = "format" => Written(step)
    /\ tool # NULL => pc = "off"
    /\ pc = "complete" => Fresh(disk)

FreshInv == master # NULL => Fresh(master)

\* The machine loads only from a partition that make_fs has begun to format.
Booting ==
    /\ disk[1] = SuperSector \/ ~has_magic(disk)
    /\ pc = "load" => disk[1] = SuperSector
    /\ WholeKernel
    /\ pc = "panic" => ~installed

ImageInv ==
    /\ tool # NULL => ~installed /\ Copy(tool, disk)
    /\ installed => master # NULL /\ tool = NULL /\ HasKernel(disk)
    /\ ~installed => NoFiles(disk) \/ master = NULL
    /\ Booting

-----------------------------------------------------------------------------
(* Arithmetic.                                                              *)

LEMMA DivMod ==
    \A n \in Nat, m \in Nat \ {0} :
        n \div m \in Nat /\ n % m \in 0 .. m - 1 /\ n = (n \div m) * m + (n % m)
OBVIOUS

LEMMA LessTimes == \A p, q \in Nat, m \in Nat \ {0} : p < q => (p + 1) * m <= q * m /\ p * m + m <= q * m
OBVIOUS

LEMMA DivUnique ==
    \A q \in Nat, m \in Nat \ {0} : \A r \in 0 .. m - 1 : (q * m + r) \div m = q /\ (q * m + r) % m = r
<1> SUFFICES ASSUME NEW q \in Nat, NEW m \in Nat \ {0}, NEW r \in 0 .. m - 1
             PROVE  (q * m + r) \div m = q /\ (q * m + r) % m = r
  OBVIOUS
<1>0. q * m \in Nat /\ q * m + r \in Nat
  OBVIOUS
<1>1. PICK n \in Nat : n = q * m + r
  BY <1>0
<1>2. n \div m \in Nat /\ n % m \in 0 .. m - 1 /\ n = (n \div m) * m + (n % m)
  BY DivMod
<1>3. PICK p \in Nat, t \in 0 .. m - 1 : p = n \div m /\ t = n % m
  BY <1>2
<1>4. p * m \in Nat /\ p * m + t = q * m + r
  BY <1>1, <1>2, <1>3
<1>5. p = q
  <2>1. ~ (p < q)
    <3>1. p < q => p * m + m <= q * m
      BY LessTimes
    <3> QED BY <3>1, <1>0, <1>4
  <2>2. ~ (q < p)
    <3>1. q < p => q * m + m <= p * m
      BY LessTimes
    <3> QED BY <3>1, <1>0, <1>4
  <2> QED BY <2>1, <2>2
<1> QED BY <1>0, <1>1, <1>3, <1>4, <1>5

LEMMA DivLess ==
    \A n, q \in Nat, m \in Nat \ {0} : n < q * m => n \div m < q
<1> SUFFICES ASSUME NEW n \in Nat, NEW q \in Nat, NEW m \in Nat \ {0}, n < q * m, ~ (n \div m < q)
             PROVE  FALSE
  OBVIOUS
<1>1. PICK p \in Nat, r \in 0 .. m - 1 : p = n \div m /\ n = p * m + r
  BY DivMod
<1>2. q * m \in Nat /\ p * m \in Nat
  OBVIOUS
<1>3. q < p => q * m + m <= p * m
  BY LessTimes
<1>4. q = p \/ q < p
  BY <1>1
<1> QED BY <1>1, <1>2, <1>3, <1>4

LEMMA UpCovers ==
    \A n \in Nat, m \in Nat \ {0} : Up(n, m) \in Nat /\ n <= Up(n, m) * m /\ Up(n, m) * m < n + m
<1> SUFFICES ASSUME NEW n \in Nat, NEW m \in Nat \ {0}
             PROVE  Up(n, m) \in Nat /\ n <= Up(n, m) * m /\ Up(n, m) * m < n + m
  OBVIOUS
<1>1. PICK k \in Nat : k = n + m - 1
  OBVIOUS
<1>2. k \div m \in Nat /\ k % m \in 0 .. m - 1 /\ k = (k \div m) * m + (k % m)
  BY DivMod
<1>3. Up(n, m) = k \div m
  BY <1>1 DEF Up
<1>4. (k \div m) * m \in Nat
  BY <1>2
<1> QED BY <1>1, <1>2, <1>3, <1>4

-----------------------------------------------------------------------------
(* The layout.                                                              *)

MapSectors == (SectorCnt \div SectorBytes) \div 8
PerSector == SectorBytes \div InodeBytes

LEMMA Sizes1 ==
    /\ SectorBytes \in Nat \ {0} /\ InodeBytes \in Nat \ {0} /\ MaxInodes \in Nat \ {0}
    /\ SectorCnt \in Nat \ {0} /\ MaxInodes <= SectorBytes /\ Sizes \subseteq Nat
BY SizeAssumption

LEMMA AreaSize ==
    /\ AreaSectors \in Nat /\ AreaSectors > 3 /\ MaxInodes * InodeBytes <= AreaSectors * SectorBytes
<1>1. PICK n \in Nat : n = MaxInodes * InodeBytes
  BY Sizes1
<1>2. Up(n, SectorBytes) \in Nat /\ n <= Up(n, SectorBytes) * SectorBytes
  BY Sizes1, UpCovers
<1> QED BY <1>1, <1>2, RootAssumption DEF AreaSectors

LEMMA PerSectorSize ==
    /\ PerSector \in Nat \ {0} /\ PerSector * InodeBytes = SectorBytes
    /\ RootLen \in Nat /\ RootLen >= PerSector /\ RootLen * InodeBytes = AreaSectors * SectorBytes
<1>1. PICK p \in Nat : p = PerSector /\ SectorBytes = p * InodeBytes
  <2>1. PICK s \in Nat \ {0}, i \in Nat \ {0} : s = SectorBytes /\ i = InodeBytes
    BY Sizes1
  <2>2. s \div i \in Nat /\ s = (s \div i) * i + (s % i)
    BY DivMod
  <2>3. s % i = 0
    BY <2>1, SizeAssumption
  <2>4. PICK p \in Nat : p = s \div i
    BY <2>2
  <2>5. p * i \in Nat
    OBVIOUS
  <2>6. s = p * i
    BY <2>2, <2>3, <2>4, <2>5
  <2> QED BY <2>1, <2>4, <2>6 DEF PerSector
<1>2. p # 0
  BY <1>1, Sizes1
<1>3. RootLen = AreaSectors * p
  BY <1>1 DEF RootLen, PerSector
<1>4. PICK a \in Nat : a = AreaSectors /\ a > 3
  BY AreaSize
<1>5. PICK i \in Nat : i = InodeBytes
  BY Sizes1
<1>6. (a * p) * i = a * (p * i) /\ a * p \in Nat
  OBVIOUS
<1>7. a * p >= p
  BY <1>2, <1>4
<1> QED BY <1>1, <1>2, <1>3, <1>4, <1>5, <1>6, <1>7

LEMMA Areas ==
    /\ MapSectors \in Nat /\ superblock.inode_map_start = 2 /\ MapArea = 3
    /\ superblock.sector_map_sectors = MapSectors
    /\ InodeArea = 3 + MapSectors /\ superblock.inode_sectors = AreaSectors
    /\ RootArea = InodeArea + AreaSectors /\ superblock.root_sectors = AreaSectors
    /\ DataArea = RootArea + AreaSectors
    /\ InodeArea \in Nat /\ RootArea \in Nat /\ DataArea \in Nat
<1>1. SectorCnt \div SectorBytes \in Nat
  BY Sizes1, DivMod
<1>2. MapSectors \in Nat
  <2>1. PICK n \in Nat : n = SectorCnt \div SectorBytes
    BY <1>1
  <2> QED BY <2>1, DivMod DEF MapSectors
<1> QED BY <1>2, AreaSize DEF superblock, MapArea, InodeArea, RootArea, DataArea, MapSectors

LEMMA SectorRange ==
    /\ Sectors = 0 .. DataArea + SectorCnt + 7 /\ DataArea + SectorCnt + 7 \in Nat
    /\ Byte = 0 .. SectorBytes - 1 /\ 0 \in Byte /\ MaxInodes > 3
<1>1. MaxInodes > 3
  <2>1. PICK k \in Nat, i \in Nat \ {0}, s \in Nat \ {0} : k = MaxInodes /\ i = InodeBytes /\ s = SectorBytes
    BY Sizes1
  <2>2. Up(k * i, s) \in Nat /\ Up(k * i, s) * s < k * i + s /\ Up(k * i, s) > 3
    <3>1. PICK n \in Nat : n = k * i
      OBVIOUS
    <3>2. Up(n, s) \in Nat /\ Up(n, s) * s < n + s
      BY UpCovers
    <3> QED BY <3>1, <3>2, <2>1, AreaSize DEF AreaSectors
  <2>3. PICK u \in Nat : u = Up(k * i, s) /\ u > 3 /\ u * s < k * i + s
    BY <2>2
  <2>4. 4 * s <= u * s
    BY <2>3
  <2>5. PICK p \in Nat \ {0} : p * i = s
    BY <2>1, PerSectorSize
  <2>6. i <= s
    BY <2>5
  <2>7. k <= 3 => k * i <= 3 * i
    OBVIOUS
  <2>8. k * i \in Nat /\ u * s \in Nat
    OBVIOUS
  <2> QED BY <2>1, <2>3, <2>4, <2>6, <2>7, <2>8
<1> QED BY <1>1, Sizes1, Areas DEF Sectors, DataArea, Byte

LEMMA MapSize ==
    /\ MapLen \in Nat \ {0} /\ SectorCnt <= MapLen * 8 /\ MapLen * 8 < SectorCnt + 8
    /\ WholeMap => MapLen = MapSectors * SectorBytes
<1>1. MapLen \in Nat /\ SectorCnt <= MapLen * 8 /\ MapLen * 8 < SectorCnt + 8
  BY Sizes1, UpCovers DEF MapLen
<1>2. ASSUME WholeMap PROVE MapLen = MapSectors * SectorBytes
  <2>1. PICK s \in Nat \ {0}, c \in Nat : s = SectorBytes /\ c = SectorCnt
    BY Sizes1
  <2>2. PICK e \in Nat \ {0} : e = 8 * s
    OBVIOUS
  <2>3. PICK q \in Nat : c = q * e
    <3>1. c \div e \in Nat /\ c = (c \div e) * e + (c % e)
      BY DivMod
    <3>2. c % e = 0
      BY <1>2, <2>1, <2>2 DEF WholeMap
    <3>3. PICK q \in Nat : q = c \div e
      BY <3>1
    <3>4. q * e \in Nat
      OBVIOUS
    <3> QED BY <3>1, <3>2, <3>3, <3>4
  <2>4. c = (q * 8) * s + 0 /\ q * 8 \in Nat
    <3>1. q * (8 * s) = (q * 8) * s /\ (q * 8) * s \in Nat
      OBVIOUS
    <3> QED BY <3>1, <2>2, <2>3
  <2>5. c \div s = q * 8
    <3>1. PICK t \in Nat : t = q * 8
      OBVIOUS
    <3>2. 0 \in 0 .. s - 1
      OBVIOUS
    <3>3. (t * s + 0) \div s = t
      BY <3>2, DivUnique
    <3> QED BY <3>1, <3>3, <2>4
  <2>6. (q * 8 + 0) \div 8 = q
    BY DivUnique
  <2>7. MapSectors = q
    BY <2>1, <2>5, <2>6 DEF MapSectors
  <2>8. PICK k \in Nat : k = q * s
    OBVIOUS
  <2>9. c = k * 8
    <3>1. q * (8 * s) = (q * s) * 8
      OBVIOUS
    <3> QED BY <3>1, <2>2, <2>3, <2>8
  <2>10. MapLen = k
    BY <1>1, <2>1, <2>9
  <2> QED BY <2>1, <2>7, <2>8, <2>10
<1> QED BY <1>1, <1>2, Sizes1

-----------------------------------------------------------------------------
(* Reading and writing bytes.                                               *)

\* Disks d and e have the same bytes in cnt sectors from s on.
Agree(d, e, s, cnt) == \A x \in s .. s + cnt - 1, b \in Byte : d[x][b] = e[x][b]

\* w is a block of bytes, at most cnt sectors long.
Block(w, cnt) == \E len \in Nat : DOMAIN w = 0 .. len - 1 /\ len <= cnt * SectorBytes

LEMMA PokeAt ==
    ASSUME NEW d, NEW s \in Nat, NEW w, NEW x \in Sectors, NEW b \in Byte
    PROVE  Poke(d, s, w)[x][b] =
               IF (x - s) * SectorBytes + b \in DOMAIN w THEN w[(x - s) * SectorBytes + b] ELSE d[x][b]
BY DEF Poke

LEMMA PokeDisk == ASSUME NEW d, NEW s, NEW w PROVE IsDisk(Poke(d, s, w))
BY DEF IsDisk, Poke

LEMMA ByteAt ==
    ASSUME NEW cnt \in Nat, NEW w, Block(w, cnt), NEW n \in DOMAIN w
    PROVE  /\ n \in Nat /\ n \div SectorBytes \in 0 .. cnt - 1 /\ n % SectorBytes \in Byte
           /\ n = (n \div SectorBytes) * SectorBytes + (n % SectorBytes)
<1>1. PICK len \in Nat : DOMAIN w = 0 .. len - 1 /\ len <= cnt * SectorBytes
  BY DEF Block
<1>2. PICK s \in Nat \ {0} : s = SectorBytes
  BY Sizes1
<1>3. n \in Nat /\ cnt * s \in Nat /\ n < cnt * s
  BY <1>1, <1>2
<1>4. n \div s \in Nat /\ n % s \in 0 .. s - 1 /\ n = (n \div s) * s + (n % s)
  BY <1>3, DivMod
<1>5. n \div s < cnt
  BY <1>3, DivLess
<1>6. Byte = 0 .. s - 1
  BY <1>2 DEF Byte
<1> QED BY <1>2, <1>3, <1>4, <1>5, <1>6

LEMMA PokeHolds ==
    ASSUME NEW d, NEW s \in Nat, NEW w, NEW cnt \in Nat, Block(w, cnt), s .. s + cnt - 1 \subseteq Sectors
    PROVE  Holds(Poke(d, s, w), s, w)
<1> SUFFICES ASSUME NEW n \in DOMAIN w PROVE Peek(Poke(d, s, w), s, n) = w[n]
  BY DEF Holds
<1>1. PICK m \in Nat \ {0} : m = SectorBytes
  BY Sizes1
<1>2. PICK q \in 0 .. cnt - 1, r \in Byte : q = n \div m /\ r = n % m /\ n = q * m + r
  BY <1>1, ByteAt
<1>3. s + q \in s .. s + cnt - 1
  OBVIOUS
<1>4. PICK x \in Sectors : x = s + q /\ x - s = q
  BY <1>3
<1>5. Poke(d, s, w)[x][r] =
          IF (x - s) * SectorBytes + r \in DOMAIN w THEN w[(x - s) * SectorBytes + r] ELSE d[x][r]
  BY <1>2, <1>4 DEF Poke
<1>6. (x - s) * SectorBytes + r = n
  BY <1>1, <1>2, <1>4
<1> QED BY <1>1, <1>2, <1>4, <1>5, <1>6 DEF Peek

LEMMA PokeOther ==
    ASSUME NEW d, NEW s \in Nat, NEW w, NEW cnt \in Nat, Block(w, cnt),
           NEW x \in Sectors, x \notin s .. s + cnt - 1, NEW b \in Byte
    PROVE  Poke(d, s, w)[x][b] = d[x][b]
<1>1. PICK len \in Nat : DOMAIN w = 0 .. len - 1 /\ len <= cnt * SectorBytes
  BY DEF Block
<1>2. PICK m \in Nat \ {0} : m = SectorBytes /\ b \in 0 .. m - 1
  BY Sizes1 DEF Byte
<1>3. x \in Nat
  BY SectorRange
<1>4. (x - s) * m + b \notin 0 .. len - 1
  <2>1. CASE x < s
    <3>1. PICK k \in Nat : k = s - x /\ k >= 1
      BY <2>1, <1>3
    <3>2. k * m >= m /\ (x - s) * m = 0 - k * m
      BY <3>1, <1>3
    <3> QED BY <3>2, <1>2
  <2>2. CASE x >= s
    <3>1. PICK k \in Nat : k = x - s /\ k >= cnt
      BY <2>2, <1>3
    <3>2. k * m >= cnt * m /\ k * m \in Nat /\ cnt * m \in Nat
      BY <3>1
    <3> QED BY <3>1, <3>2, <1>1, <1>2
  <2> QED BY <2>1, <2>2, <1>3
<1> QED BY <1>1, <1>2, <1>4, PokeAt

LEMMA AgreeHolds ==
    ASSUME NEW d, NEW e, NEW s \in Nat, NEW w, NEW cnt \in Nat, Block(w, cnt),
           Agree(d, e, s, cnt), Holds(d, s, w)
    PROVE  Holds(e, s, w)
<1> SUFFICES ASSUME NEW n \in DOMAIN w PROVE Peek(e, s, n) = w[n]
  BY DEF Holds
<1>1. PICK q \in 0 .. cnt - 1, r \in Byte : q = n \div SectorBytes /\ r = n % SectorBytes
  BY ByteAt
<1>2. s + q \in s .. s + cnt - 1
  OBVIOUS
<1>3. d[s + q][r] = e[s + q][r]
  BY <1>2 DEF Agree
<1>4. Peek(d, s, n) = w[n]
  BY DEF Holds
<1> QED BY <1>1, <1>3, <1>4 DEF Peek

\* A write of bytes into other sectors leaves a block alone.
LEMMA PokeAgree ==
    ASSUME NEW d, NEW s \in Nat, NEW w, NEW cnt \in Nat, Block(w, cnt),
           NEW t \in Nat, NEW len \in Nat, t .. t + len - 1 \subseteq Sectors,
           t + len <= s \/ s + cnt <= t
    PROVE  Agree(d, Poke(d, s, w), t, len)
<1> SUFFICES ASSUME NEW x \in t .. t + len - 1, NEW b \in Byte
             PROVE  d[x][b] = Poke(d, s, w)[x][b]
  BY DEF Agree
<1>1. x \in Sectors /\ x \notin s .. s + cnt - 1
  OBVIOUS
<1> QED BY <1>1, PokeOther

\* So does a write of one sector.
LEMMA SectorAgree ==
    ASSUME NEW d, NEW y, NEW v, NEW t \in Nat, NEW len \in Nat, DOMAIN d = Sectors,
           t .. t + len - 1 \subseteq Sectors, y \notin t .. t + len - 1
    PROVE  Agree(d, [d EXCEPT ![y] = v], t, len)
BY DEF Agree

-----------------------------------------------------------------------------
(* Structures.                                                              *)

LEMMA BytesOf ==
    ASSUME NEW r, NEW N \in Nat \ {0}, DOMAIN r = 0 .. N - 1, NEW unused
    PROVE  /\ DOMAIN Bytes(r, unused) = 0 .. N * InodeBytes - 1
           /\ \A n \in 0 .. N * InodeBytes - 1 :
                Bytes(r, unused)[n] =
                    IF r[n \div InodeBytes] = unused THEN Zero ELSE <<r[n \div InodeBytes], n % InodeBytes>>
<1>1. PICK last : last = (CHOOSE i \in DOMAIN r : i + 1 \notin DOMAIN r)
  OBVIOUS
<1>2. last = N - 1
  <2>1. \E i \in DOMAIN r : i + 1 \notin DOMAIN r
    <3>1. N - 1 \in DOMAIN r /\ (N - 1) + 1 \notin DOMAIN r
      OBVIOUS
    <3> QED BY <3>1
  <2>2. last \in DOMAIN r /\ last + 1 \notin DOMAIN r
    BY <1>1, <2>1
  <2> QED BY <2>2
<1>3. last + 1 = N
  BY <1>2
<1> QED BY <1>1, <1>3 DEF Bytes

LEMMA BytesBlock ==
    ASSUME NEW r, NEW N \in Nat \ {0}, DOMAIN r = 0 .. N - 1, NEW unused,
           NEW cnt \in Nat, N * InodeBytes <= cnt * SectorBytes
    PROVE  Block(Bytes(r, unused), cnt)
<1>1. N * InodeBytes \in Nat
  BY Sizes1
<1> QED BY <1>1, BytesOf DEF Block

\* Where byte j of structure i is.
LEMMA StructIndex ==
    ASSUME NEW N \in Nat, NEW i \in 0 .. N - 1, NEW j \in 0 .. InodeBytes - 1
    PROVE  /\ i * InodeBytes + j \in 0 .. N * InodeBytes - 1
           /\ (i * InodeBytes + j) \div InodeBytes = i /\ (i * InodeBytes + j) % InodeBytes = j
<1>1. PICK m \in Nat \ {0} : m = InodeBytes
  BY Sizes1
<1>2. (i * m + j) \div m = i /\ (i * m + j) % m = j
  BY <1>1, DivUnique
<1>3. i * m + m <= N * m /\ i * m \in Nat /\ N * m \in Nat
  BY LessTimes
<1> QED BY <1>1, <1>2, <1>3

\* What is stored as a structure is read as that structure.
LEMMA StructHeld ==
    ASSUME NEW d, NEW s \in Nat, NEW r, NEW N \in Nat \ {0}, DOMAIN r = 0 .. N - 1, NEW unused,
           Holds(d, s, Bytes(r, unused)), NEW i \in 0 .. N - 1,
           NEW R, Stored(R), r[i] \in R
    PROVE  Struct(d, s, i, unused) = r[i]
<1> DEFINE at(j) == Peek(d, s, i * InodeBytes + j)
<1>1. ASSUME NEW j \in 0 .. InodeBytes - 1
      PROVE  at(j) = IF r[i] = unused THEN Zero ELSE <<r[i], j>>
  <2>1. PICK n \in 0 .. N * InodeBytes - 1 :
            n = i * InodeBytes + j /\ n \div InodeBytes = i /\ n % InodeBytes = j
    BY StructIndex
  <2>2. n \in DOMAIN Bytes(r, unused)
    BY <2>1, BytesOf
  <2>3. Peek(d, s, n) = Bytes(r, unused)[n]
    BY <2>2 DEF Holds
  <2>4. Bytes(r, unused)[n] =
            IF r[n \div InodeBytes] = unused THEN Zero ELSE <<r[n \div InodeBytes], n % InodeBytes>>
    BY <2>1, BytesOf
  <2> QED BY <2>1, <2>3, <2>4
<1>2. Struct(d, s, i, unused) =
        CASE \A j \in 0 .. InodeBytes - 1 : at(j) = Zero -> unused
          [] at(0) \notin {Zero, One, Junk} /\
                \A j \in 0 .. InodeBytes - 1 : at(j) = <<at(0)[1], j>> -> at(0)[1]
          [] OTHER -> NULL
  BY DEF Struct
<1>3. 0 \in 0 .. InodeBytes - 1 /\ 0 \in Byte
  BY Sizes1 DEF Byte
<1> HIDE DEF at
<1>4. CASE r[i] = unused
  <2>1. (\A j \in 0 .. InodeBytes - 1 : at(j) = Zero) /\ at(0) \in {Zero, One, Junk}
    BY <1>1, <1>3, <1>4
  <2> QED BY <1>2, <1>4, <2>1
<1>5. CASE r[i] # unused
  <2>1. \A j \in 0 .. InodeBytes - 1 : at(j) = <<r[i], j>>
    BY <1>1, <1>5
  <2>2. at(0) = <<r[i], 0>> /\ at(0)[1] = r[i]
    BY <2>1, <1>3
  <2>3. at(0) \notin {Zero, One, Junk}
    BY <2>2, <1>3 DEF Stored
  <2>4. ~ \A j \in 0 .. InodeBytes - 1 : at(j) = Zero
    BY <2>3, <1>3
  <2>5. \A j \in 0 .. InodeBytes - 1 : at(j) = <<at(0)[1], j>>
    BY <2>1, <2>2
  <2> QED BY <1>2, <2>2, <2>3, <2>4, <2>5
<1> QED BY <1>4, <1>5

\* r is a list of N structures of R.
ListOf(r, N, R) ==
    N \in Nat \ {0} /\ DOMAIN r = 0 .. N - 1 /\ (\A i \in 0 .. N - 1 : r[i] \in R) /\ Stored(R)

LEMMA StructsHeld ==
    ASSUME NEW d, NEW s, NEW N, NEW r, NEW R, NEW unused,
           s \in Nat, ListOf(r, N, R), Holds(d, s, Bytes(r, unused))
    PROVE  \A i \in 0 .. N - 1 : Struct(d, s, i, unused) = r[i]
<1>1. N \in Nat \ {0} /\ DOMAIN r = 0 .. N - 1 /\ (\A i \in 0 .. N - 1 : r[i] \in R) /\ Stored(R)
  BY DEF ListOf
<1>2. ASSUME NEW i \in 0 .. N - 1 PROVE Struct(d, s, i, unused) = r[i]
  <2>1. r[i] \in R
    BY <1>1
  <2> QED BY <1>1, <2>1, StructHeld
<1> QED BY <1>2

\* Zeros are read as unused structures.
LEMMA StructZero ==
    ASSUME NEW d, NEW s \in Nat, NEW N \in Nat, Holds(d, s, Zeros(N * InodeBytes)),
           NEW i \in 0 .. N - 1, NEW unused
    PROVE  Struct(d, s, i, unused) = unused
<1>1. ASSUME NEW j \in 0 .. InodeBytes - 1 PROVE Peek(d, s, i * InodeBytes + j) = Zero
  <2>1. PICK n \in 0 .. N * InodeBytes - 1 : n = i * InodeBytes + j
    BY StructIndex
  <2> QED BY <2>1 DEF Holds, Zeros
<1>2. Peek(d, s, i * InodeBytes + 0) \in {Zero, One, Junk}
  BY <1>1, Sizes1
<1> QED BY <1>1, <1>2 DEF Struct

\* A structure in an empty sector is unused or none.
LEMMA StructEmpty ==
    ASSUME NEW d, NEW s \in Nat, NEW cnt \in Nat, NEW i \in 0 .. cnt * PerSector - 1, NEW unused,
           \A x \in s .. s + cnt - 1 : Empty(d[x])
    PROVE  Struct(d, s, i, unused) \in {unused, NULL}
<1>1. 0 \in 0 .. InodeBytes - 1
  BY Sizes1
<1>2. PICK n \in 0 .. (cnt * PerSector) * InodeBytes - 1 : n = i * InodeBytes + 0
  <2>1. cnt * PerSector \in Nat
    BY PerSectorSize
  <2> QED BY <1>1, <2>1, StructIndex
<1>3. n \in 0 .. cnt * SectorBytes - 1 /\ cnt * SectorBytes \in Nat
  <2>1. PICK p \in Nat, m \in Nat : p = PerSector /\ m = InodeBytes /\ p * m = SectorBytes
    BY PerSectorSize, Sizes1
  <2>2. (cnt * p) * m = cnt * (p * m) /\ cnt * (p * m) \in Nat
    OBVIOUS
  <2> QED BY <1>2, <2>1, <2>2
<1>4. n \div SectorBytes \in 0 .. cnt - 1 /\ n % SectorBytes \in Byte
  <2>1. Block(Zeros(cnt * SectorBytes), cnt)
    BY <1>3 DEF Block, Zeros
  <2>2. n \in DOMAIN Zeros(cnt * SectorBytes)
    BY <1>3 DEF Zeros
  <2> QED BY <2>1, <2>2, ByteAt
<1>5. s + (n \div SectorBytes) \in s .. s + cnt - 1
  BY <1>4
<1>6. Peek(d, s, n) \in {Zero, One, Junk}
  BY <1>4, <1>5 DEF Peek, Empty
<1>7. Peek(d, s, i * InodeBytes + 0) \in {Zero, One, Junk}
  BY <1>2, <1>6
<1> QED BY <1>7 DEF Struct

-----------------------------------------------------------------------------
(* The writes of make_fs.                                                   *)

RootSector == Poke([x \in Sectors |-> Blank], 0, Bytes([i \in {0} |-> RootInode], NoInode))[0]
InodeMapSector == [Blank EXCEPT ![0] = One]
Writes == Nat \X {SuperSector, Blank, RootSector, InodeMapSector}

\* A list of n writes, and one that consists of two others.
IsList(p, n) == p \in Seq(Writes) /\ Len(p) = n
IsJoin(r, p, q, m, n) ==
    /\ IsList(r, m + n)
    /\ \A i \in 1 .. m : r[i] = p[i]
    /\ \A i \in 1 .. n : r[m + i] = q[i]

LEMMA ClearSeq ==
    ASSUME NEW s \in Nat, NEW cnt \in Nat
    PROVE  /\ IsList(Clear(s, cnt), cnt)
           /\ \A i \in 1 .. cnt : Clear(s, cnt)[i] = <<s + i - 1, Blank>>
<1>1. \A i \in 1 .. cnt : <<s + i - 1, Blank>> \in Writes
  BY DEF Writes
<1>2. Clear(s, cnt) \in [1 .. cnt -> Writes]
  BY <1>1 DEF Clear
<1> QED BY <1>2 DEF Clear, IsList

LEMMA SingleSeq ==
    ASSUME NEW w \in Writes PROVE IsList(<<w>>, 1) /\ <<w>>[1] = w
BY DEF IsList

LEMMA Join ==
    ASSUME NEW m \in Nat, NEW n \in Nat, NEW p, NEW q, IsList(p, m), IsList(q, n)
    PROVE  IsJoin(p \o q, p, q, m, n) /\ IsList(p \o q, m + n)
<1>0. p \in Seq(Writes) /\ Len(p) = m /\ q \in Seq(Writes) /\ Len(q) = n
  BY DEF IsList
<1>1. p \o q \in Seq(Writes) /\ Len(p \o q) = m + n
  BY <1>0, ConcatProperties, Zenon
<1>2. \A i \in 1 .. m + n : (p \o q)[i] = IF i <= m THEN p[i] ELSE q[i - m]
  BY <1>0, ConcatProperties, Zenon
<1>3. PICK r : r = p \o q
  OBVIOUS
<1>4. \A i \in 1 .. m + n : r[i] = IF i <= m THEN p[i] ELSE q[i - m]
  BY <1>2, <1>3, Zenon
<1>5. ASSUME NEW i \in 1 .. n PROVE r[m + i] = q[i]
  <2>1. PICK k \in 1 .. m + n : k = m + i /\ ~ (k <= m) /\ k - m = i
    OBVIOUS
  <2> QED BY <2>1, <1>4
<1>6. \A i \in 1 .. m : r[i] = p[i]
  BY <1>4
<1>7. IsList(r, m + n)
  BY <1>1, <1>3, Zenon DEF IsList
<1>8. IsJoin(r, p, q, m, n)
  BY <1>5, <1>6, <1>7 DEF IsJoin
<1> QED BY <1>3, <1>7, <1>8, Zenon

\* The writes one by one.
LEMMA WriteList ==
    /\ make_fs_writes \in Seq(Writes) /\ Len(make_fs_writes) = 3 + 2 * AreaSectors + MapSectors
    /\ make_fs_writes[1] = <<1, SuperSector>>
    /\ \A i \in 1 .. AreaSectors : make_fs_writes[1 + i] = <<InodeArea + i - 1, Blank>>
    /\ make_fs_writes[2 + AreaSectors] = <<InodeArea, RootSector>>
    /\ make_fs_writes[3 + AreaSectors] = <<2, InodeMapSector>>
    /\ \A i \in 1 .. MapSectors : make_fs_writes[3 + AreaSectors + i] = <<MapArea + i - 1, Blank>>
    /\ \A i \in 1 .. AreaSectors :
         make_fs_writes[3 + AreaSectors + MapSectors + i] = <<RootArea + i - 1, Blank>>
<1>0. PICK A \in Nat, M \in Nat : A = AreaSectors /\ M = MapSectors /\ A > 3
  BY AreaSize, Areas
<1>1. PICK p1, p2, p3, p4, p5, p6 :
        /\ p1 = << <<1, SuperSector>> >> /\ p2 = Clear(InodeArea, A)
        /\ p3 = << <<InodeArea, RootSector>> >> /\ p4 = << <<2, InodeMapSector>> >>
        /\ p5 = Clear(MapArea, M) /\ p6 = Clear(RootArea, A)
  OBVIOUS
<1>2. make_fs_writes = p1 \o p2 \o p3 \o p4 \o p5 \o p6
  <2>1. /\ superblock.inode_map_start = 2 /\ superblock.sector_map_sectors = M
        /\ superblock.root_sectors = A
    BY <1>0, Areas
  <2> QED BY <1>0, <1>1, <2>1, Zenon
          DEF make_fs_writes, SuperSector, RootSector, InodeMapSector, InodeArea, MapArea, RootArea
<1>3. /\ <<1, SuperSector>> \in Writes /\ <<InodeArea, RootSector>> \in Writes
      /\ <<2, InodeMapSector>> \in Writes
  BY Areas DEF Writes
<1>4. /\ IsList(p1, 1) /\ p1[1] = <<1, SuperSector>>
      /\ IsList(p3, 1) /\ p3[1] = <<InodeArea, RootSector>>
      /\ IsList(p4, 1) /\ p4[1] = <<2, InodeMapSector>>
  BY <1>1, <1>3, SingleSeq, Zenon
<1>5. /\ IsList(p2, A) /\ \A i \in 1 .. A : p2[i] = <<InodeArea + i - 1, Blank>>
      /\ IsList(p5, M) /\ \A i \in 1 .. M : p5[i] = <<MapArea + i - 1, Blank>>
      /\ IsList(p6, A) /\ \A i \in 1 .. A : p6[i] = <<RootArea + i - 1, Blank>>
  <2>1. InodeArea \in Nat /\ MapArea \in Nat /\ RootArea \in Nat
    BY Areas
  <2> QED BY <1>1, <2>1, ClearSeq, Zenon
<1>6. PICK m2 \in Nat, m3 \in Nat, m4 \in Nat, m5 \in Nat, m6 \in Nat :
        m2 = 1 + A /\ m3 = m2 + 1 /\ m4 = m3 + 1 /\ m5 = m4 + M /\ m6 = m5 + A
  OBVIOUS
<1>7. PICK q2, q3, q4, q5, q6 :
        q2 = p1 \o p2 /\ q3 = q2 \o p3 /\ q4 = q3 \o p4 /\ q5 = q4 \o p5 /\ q6 = q5 \o p6
  OBVIOUS
<1>8. IsJoin(q2, p1, p2, 1, A) /\ IsList(q2, m2)
  BY <1>4, <1>5, <1>6, <1>7, Join, 1 \in Nat, Zenon
<1>9. IsJoin(q3, q2, p3, m2, 1) /\ IsList(q3, m3)
  BY <1>4, <1>8, <1>6, <1>7, Join, 1 \in Nat, Zenon
<1>10. IsJoin(q4, q3, p4, m3, 1) /\ IsList(q4, m4)
  BY <1>4, <1>9, <1>6, <1>7, Join, 1 \in Nat, Zenon
<1>11. IsJoin(q5, q4, p5, m4, M) /\ IsList(q5, m5)
  BY <1>5, <1>10, <1>6, <1>7, Join, Zenon
<1>12. IsJoin(q6, q5, p6, m5, A) /\ IsList(q6, m6)
  BY <1>5, <1>11, <1>6, <1>7, Join, Zenon
<1>13. make_fs_writes = q6
  BY <1>2, <1>7, Zenon
<1>14. /\ \A i \in 1 .. 1 : q2[i] = p1[i]
       /\ \A i \in 1 .. A : q2[1 + i] = p2[i]
       /\ \A i \in 1 .. m2 : q3[i] = q2[i]
       /\ \A i \in 1 .. 1 : q3[m2 + i] = p3[i]
       /\ \A i \in 1 .. m3 : q4[i] = q3[i]
       /\ \A i \in 1 .. 1 : q4[m3 + i] = p4[i]
       /\ \A i \in 1 .. m4 : q5[i] = q4[i]
       /\ \A i \in 1 .. M : q5[m4 + i] = p5[i]
       /\ \A i \in 1 .. m5 : q6[i] = q5[i]
       /\ \A i \in 1 .. A : q6[m5 + i] = p6[i]
  BY <1>8, <1>9, <1>10, <1>11, <1>12, Zenon DEF IsJoin
<1>15. m4 = 3 + A /\ m5 = 3 + A + M /\ m6 = 3 + 2 * A + M
  BY <1>6
<1>16. q6[1] = <<1, SuperSector>>
  <2>1. 1 \in 1 .. 1 /\ 1 \in 1 .. m2 /\ 1 \in 1 .. m3 /\ 1 \in 1 .. m4 /\ 1 \in 1 .. m5
    BY <1>6
  <2>2. q6[1] = q5[1] /\ q5[1] = q4[1] /\ q4[1] = q3[1] /\ q3[1] = q2[1] /\ q2[1] = p1[1]
    BY <2>1, <1>14, Zenon
  <2> QED BY <2>2, <1>4, Zenon
<1>17. \A i \in 1 .. A : q6[1 + i] = <<InodeArea + i - 1, Blank>>
  <2> SUFFICES ASSUME NEW i \in 1 .. A PROVE q6[1 + i] = <<InodeArea + i - 1, Blank>>
    OBVIOUS
  <2>1. 1 + i \in 1 .. m2 /\ 1 + i \in 1 .. m3 /\ 1 + i \in 1 .. m4 /\ 1 + i \in 1 .. m5
    BY <1>6
  <2>2. /\ q6[1 + i] = q5[1 + i] /\ q5[1 + i] = q4[1 + i] /\ q4[1 + i] = q3[1 + i]
        /\ q3[1 + i] = q2[1 + i] /\ q2[1 + i] = p2[i]
    BY <2>1, <1>14, Zenon
  <2>3. p2[i] = <<InodeArea + i - 1, Blank>>
    BY <1>5, Zenon
  <2> QED BY <2>2, <2>3, Zenon
<1>18. q6[2 + A] = <<InodeArea, RootSector>>
  <2>1. /\ m3 \in 1 .. m3 /\ m3 \in 1 .. m4 /\ m3 \in 1 .. m5 /\ 1 \in 1 .. 1
        /\ m3 = m2 + 1 /\ m3 = 2 + A
    BY <1>6
  <2>2. q6[m3] = q5[m3] /\ q5[m3] = q4[m3] /\ q4[m3] = q3[m3]
    BY <2>1, <1>14, Zenon
  <2>3. q3[m2 + 1] = p3[1]
    BY <2>1, <1>14, Zenon
  <2> QED BY <2>1, <2>2, <2>3, <1>4, Zenon
<1>19. q6[3 + A] = <<2, InodeMapSector>>
  <2>1. m4 \in 1 .. m4 /\ m4 \in 1 .. m5 /\ 1 \in 1 .. 1 /\ m4 = m3 + 1 /\ m4 = 3 + A
    BY <1>6
  <2>2. q6[m4] = q5[m4] /\ q5[m4] = q4[m4]
    BY <2>1, <1>14, Zenon
  <2>3. q4[m3 + 1] = p4[1]
    BY <2>1, <1>14, Zenon
  <2> QED BY <2>1, <2>2, <2>3, <1>4, Zenon
<1>20. \A i \in 1 .. M : q6[m4 + i] = <<MapArea + i - 1, Blank>>
  <2> SUFFICES ASSUME NEW i \in 1 .. M PROVE q6[m4 + i] = <<MapArea + i - 1, Blank>>
    OBVIOUS
  <2>1. m4 + i \in 1 .. m5
    BY <1>6
  <2> QED BY <2>1, <1>5, <1>14, Zenon
<1>21. \A i \in 1 .. A : q6[m5 + i] = <<RootArea + i - 1, Blank>>
  BY <1>5, <1>14, Zenon
<1>22. make_fs_writes \in Seq(Writes) /\ Len(make_fs_writes) = m6
  BY <1>12, <1>13, Zenon DEF IsList
<1> QED BY <1>0, <1>13, <1>15, <1>16, <1>17, <1>18, <1>19, <1>20, <1>21, <1>22, Zenon

-----------------------------------------------------------------------------
(* Types.                                                                   *)

ToolOf(todo, file, num, at, done, inodes, inode_map, sector_map) ==
    [todo |-> todo, file |-> file, num |-> num, at |-> at, done |-> done,
     inodes |-> inodes, inode_map |-> inode_map, sector_map |-> sector_map]

IsTool(t) ==
    /\ t = ToolOf(t.todo, t.file, t.num, t.at, t.done, t.inodes, t.inode_map, t.sector_map)
    /\ t.todo \in 1 .. Len(Order) /\ t.file \in Names /\ t.num \in 0 .. MaxInodes - 1
    /\ t.at \in 0 .. MapLen - 1 /\ t.done \in Nat

TypeInv ==
    /\ TypeOK
    /\ master # NULL => IsDisk(master)
    /\ tool # NULL => IsTool(tool)

LEMMA OrderFacts ==
    /\ Len(Order) = 5 /\ Order[1] = "data" /\ Order[2] = "inodes" /\ Order[3] = "inode_map"
    /\ Order[4] = "sector_map" /\ Order[5] = "root"
    /\ \A n \in 1 .. 5 : /\ Order[n] = "data" => n = 1 
                         /\ Order[n] = "inodes" => n = 2
                         /\ Order[n] = "inode_map" => n = 3
                         /\ Order[n] = "sector_map" => n = 4
                         /\ Order[n] = "root" => n = 5
BY DEF Order

\* The next kind of write, and one sector more.
LEMMA ToolNext ==
    ASSUME NEW t, IsTool(t)
    PROVE  /\ [t EXCEPT !.todo = @ + 1] =
                 ToolOf(t.todo + 1, t.file, t.num, t.at, t.done, t.inodes, t.inode_map, t.sector_map)
           /\ [t EXCEPT !.done = @ + 1] =
                 ToolOf(t.todo, t.file, t.num, t.at, t.done + 1, t.inodes, t.inode_map, t.sector_map)
<1>1. PICK a, b, c, e, g, h, k, l : t = ToolOf(a, b, c, e, g, h, k, l)
  BY Zenon DEF IsTool
<1> QED BY <1>1 DEF ToolOf

LEMMA WrittenSectors == \A v \in {SuperSector, Blank, RootSector, InodeMapSector} : DOMAIN v = Byte
<1>1. DOMAIN RootSector = Byte
  BY SectorRange DEF RootSector, Poke
<1> QED BY <1>1 DEF SuperSector, Blank, InodeMapSector

LEMMA LeastIn ==
    ASSUME NEW S, S \subseteq Nat, S # {} PROVE Least(S) \in S /\ \A y \in S : Least(S) <= y
<1>1. \E x \in S : \A y \in S : x <= y
  <2>1. IsWellFoundedOn(OpToRel(<, Nat), Nat)
    BY NatLessThanWellFounded
  <2>2. PICK x \in S : \A y \in S : ~ (<<y, x>> \in OpToRel(<, Nat))
    BY <2>1, WFMin
  <2>3. ASSUME NEW y \in S PROVE x <= y
    <3>1. x \in Nat /\ y \in Nat
      OBVIOUS
    <3>2. ~ (y < x)
      BY <2>2, <3>1, Zenon DEF OpToRel
    <3> QED BY <3>1, <3>2
  <2> QED BY <2>3
<1> QED BY <1>1 DEF Least

\* A run of the tool that does not abort begins with numbers that are in range.
LEMMA StartType ==
    ASSUME NEW d, NEW f \in Names, size \in [Names -> Sizes], ~ Aborts(d, f)
    PROVE  /\ IsTool(cp_file(d, f))
           /\ cp_file(d, f).todo = 1 /\ cp_file(d, f).done = 0 /\ cp_file(d, f).file = f
<1>1. PICK map : map = get_sector_map(d)
  OBVIOUS
<1>2. PICK at : at = find_sectors_in_map(map, size[f])
  OBVIOUS
<1>3. PICK num : num = Least(FreeInodes(get_inode_map(d)))
  OBVIOUS
<1>4. DOMAIN map = 0 .. MapLen - 1
  BY <1>1 DEF get_sector_map
<1>5. at \in 0 .. MapLen - 1
  <2>1. Fits(map, at, size[f])
    BY <1>1, <1>2 DEF Aborts
  <2>2. PICK S : S = {s \in DOMAIN map : \A n \in s .. s + Octets(size[f]) - 1 : n \in DOMAIN map => map[n] = Zero}
    OBVIOUS
  <2>3. at = IF S = {} THEN -1 ELSE Least(S)
    BY <1>2, <2>2, Zenon DEF find_sectors_in_map
  <2>4. S # {}
    BY <2>1, <2>3 DEF Fits
  <2>5. S \subseteq Nat /\ S \subseteq 0 .. MapLen - 1
    BY <1>4, <2>2, MapSize
  <2> QED BY <2>3, <2>4, <2>5, LeastIn
<1>6. num \in 0 .. MaxInodes - 1
  <2>1. PICK S : S = FreeInodes(get_inode_map(d))
    OBVIOUS
  <2>2. S # {} /\ S \subseteq 0 .. MaxInodes - 1 /\ S \subseteq Nat
    BY <2>1, Sizes1 DEF Aborts, FreeInodes, get_inode_map
  <2> QED BY <1>3, <2>1, <2>2, LeastIn
<1>7. \E i, m, s : cp_file(d, f) = ToolOf(1, f, num, at, 0, i, m, s)
  BY <1>1, <1>2, <1>3, Zenon DEF cp_file, ToolOf
<1>8. PICK i, m, s : cp_file(d, f) = ToolOf(1, f, num, at, 0, i, m, s)
  BY <1>7
<1>9. PICK t : t = ToolOf(1, f, num, at, 0, i, m, s)
  OBVIOUS
<1>10. /\ t.todo = 1 /\ t.file = f /\ t.num = num /\ t.at = at /\ t.done = 0
       /\ t.inodes = i /\ t.inode_map = m /\ t.sector_map = s
  BY <1>9 DEF ToolOf
<1>11. IsTool(t)
  BY <1>5, <1>6, <1>9, <1>10, OrderFacts DEF IsTool
<1> QED BY <1>8, <1>9, <1>10, <1>11, Zenon

\* The steps of a run of the tool, by its state.
LEMMA ToolStep ==
    ASSUME tool # NULL, IsTool(tool)
    PROVE  /\ \A area : write(area) =>
                /\ Order[tool.todo] = area
                /\ \/ tool.todo = 5 /\ tool' = NULL
                   \/ /\ tool.todo \in 1 .. 4 /\ IsTool(tool') /\ tool'.todo = tool.todo + 1
                      /\ tool'.file = tool.file /\ tool'.num = tool.num /\ tool'.at = tool.at
                      /\ tool'.done = tool.done /\ tool'.inodes = tool.inodes
                      /\ tool'.inode_map = tool.inode_map /\ tool'.sector_map = tool.sector_map
           /\ write_data =>
                /\ tool.todo = 1 /\ tool.done < size[tool.file] /\ IsTool(tool')
                /\ tool'.todo = 1 /\ tool'.file = tool.file /\ tool'.num = tool.num /\ tool'.at = tool.at
                /\ tool'.done = tool.done + 1 /\ tool'.inodes = tool.inodes
                /\ tool'.inode_map = tool.inode_map /\ tool'.sector_map = tool.sector_map
<1>0. tool.todo \in 1 .. 5 /\ tool.done \in Nat /\ tool.done + 1 \in Nat
  BY OrderFacts DEF IsTool
<1>1. ASSUME NEW area, write(area)
      PROVE  /\ Order[tool.todo] = area
             /\ \/ tool.todo = 5 /\ tool' = NULL
                \/ /\ tool.todo \in 1 .. 4 /\ IsTool(tool') /\ tool'.todo = tool.todo + 1
                   /\ tool'.file = tool.file /\ tool'.num = tool.num /\ tool'.at = tool.at
                   /\ tool'.done = tool.done /\ tool'.inodes = tool.inodes
                   /\ tool'.inode_map = tool.inode_map /\ tool'.sector_map = tool.sector_map
  <2>1. Order[tool.todo] = area
    BY <1>1 DEF write
  <2>2. CASE tool.todo = 5
    BY <1>1, <2>1, <2>2, OrderFacts DEF write
  <2>3. CASE tool.todo # 5
    <3>1. tool' = ToolOf(tool.todo + 1, tool.file, tool.num, tool.at, tool.done,
                         tool.inodes, tool.inode_map, tool.sector_map)
      BY <1>1, <2>3, ToolNext, OrderFacts, Zenon DEF write
    <3>2. /\ tool'.todo = tool.todo + 1
          /\ tool'.file = tool.file /\ tool'.num = tool.num /\ tool'.at = tool.at
          /\ tool'.done = tool.done /\ tool'.inodes = tool.inodes
          /\ tool'.inode_map = tool.inode_map /\ tool'.sector_map = tool.sector_map
      BY <3>1 DEF ToolOf
    <3>3. tool.todo \in 1 .. 4 /\ tool.todo + 1 \in 1 .. Len(Order)
      BY <1>0, <2>3, OrderFacts
    <3>4. IsTool(tool')
      BY <3>1, <3>2, <3>3, Zenon DEF IsTool
    <3> QED BY <2>1, <3>2, <3>3, <3>4
  <2> QED BY <2>2, <2>3
<1>2. ASSUME write_data
      PROVE  /\ tool.todo = 1 /\ tool.done < size[tool.file] /\ IsTool(tool')
             /\ tool'.todo = 1 /\ tool'.file = tool.file /\ tool'.num = tool.num /\ tool'.at = tool.at
             /\ tool'.done = tool.done + 1 /\ tool'.inodes = tool.inodes
             /\ tool'.inode_map = tool.inode_map /\ tool'.sector_map = tool.sector_map
  <2>1. tool.todo = 1 /\ tool.done < size[tool.file]
    BY <1>0, <1>2, OrderFacts DEF write_data
  <2>2. tool' = ToolOf(tool.todo, tool.file, tool.num, tool.at, tool.done + 1,
                       tool.inodes, tool.inode_map, tool.sector_map)
    BY <1>2, ToolNext, Zenon DEF write_data
  <2>3. /\ tool'.todo = tool.todo
        /\ tool'.file = tool.file /\ tool'.num = tool.num /\ tool'.at = tool.at
        /\ tool'.done = tool.done + 1 /\ tool'.inodes = tool.inodes
        /\ tool'.inode_map = tool.inode_map /\ tool'.sector_map = tool.sector_map
    BY <2>2 DEF ToolOf
  <2>4. IsTool(tool')
    BY <1>0, <2>2, <2>3, Zenon DEF IsTool
  <2> QED BY <2>1, <2>3, <2>4
<1> QED BY <1>1, <1>2, Zenon

LEMMA TypeParts ==
    TypeInv <=>
        /\ IsDisk(disk) /\ size \in [Names -> Sizes] /\ installed \in BOOLEAN
        /\ pc \in {"off", "format", "complete", "load", "kernel", "panic"}
        /\ step \in 0 .. Len(make_fs_writes)
        /\ exit \in {"none", "running", "ok", "abort", "killed"}
        /\ master # NULL => IsDisk(master)
        /\ tool # NULL => IsTool(tool)
<1>1. IsTool(tool) => /\ tool.todo \in 1 .. Len(Order) /\ tool.done \in Nat
                      /\ tool.num \in 0 .. MaxInodes - 1 /\ tool.at \in 0 .. MapLen - 1
  BY Zenon DEF IsTool
<1>2. IsDisk(disk) <=> (DOMAIN disk = Sectors /\ \A s \in Sectors : DOMAIN disk[s] = Byte)
  BY Zenon DEF IsDisk
<1> QED BY <1>1, <1>2, Zenon DEF TypeInv, TypeOK

\* The same, one step later.
LEMMA TypePartsNext ==
    ASSUME IsDisk(disk'), size' \in [Names -> Sizes], installed' \in BOOLEAN,
           pc' \in {"off", "format", "complete", "load", "kernel", "panic"},
           step' \in 0 .. Len(make_fs_writes),
           exit' \in {"none", "running", "ok", "abort", "killed"},
           master' # NULL => IsDisk(master'), tool' # NULL => IsTool(tool')
    PROVE  TypeInv'
<1>1. IsTool(tool') => /\ tool'.todo \in 1 .. Len(Order) /\ tool'.done \in Nat
                       /\ tool'.num \in 0 .. MaxInodes - 1 /\ tool'.at \in 0 .. MapLen - 1
  BY Zenon DEF IsTool
<1>2. DOMAIN disk' = Sectors /\ \A s \in Sectors : DOMAIN disk'[s] = Byte
  BY DEF IsDisk
<1>3. TypeOK'
  BY <1>1, <1>2, Zenon DEF TypeOK
<1> QED BY <1>3, Zenon DEF TypeInv

LEMMA WritesLen == Len(make_fs_writes) \in Nat /\ Len(make_fs_writes) > 3
BY WriteList, AreaSize, Areas

LEMMA TypeInit == Init => TypeInv
<1> SUFFICES ASSUME Init PROVE TypeInv
  OBVIOUS
<1>1. IsDisk(disk)
  BY BeforeAssumption DEF Init, IsDisk
<1>2. step \in 0 .. Len(make_fs_writes)
  BY WritesLen DEF Init
<1> QED BY <1>1, <1>2, TypeParts, Zenon DEF Init

\* One sector is written.
LEMMA ExceptDisk ==
    ASSUME NEW d, IsDisk(d), NEW x, NEW v, DOMAIN v = Byte
    PROVE  IsDisk([d EXCEPT ![x] = v])
BY DEF IsDisk

LEMMA TypeStart ==
    ASSUME TypeInv, NEW d, IsDisk(d), NEW f \in Names, start(d, f), installed' \in BOOLEAN
    PROVE  TypeInv'
<1>1. /\ disk' = d /\ size' = size /\ pc' = pc /\ step' = step /\ master' = master
      /\ exit' \in {"abort", "running"} /\ (tool' = NULL \/ (~ Aborts(d, f) /\ tool' = cp_file(d, f)))
  BY DEF start
<1>2. tool' # NULL => IsTool(tool')
  BY <1>1, StartType, TypeParts, Zenon
<1>3. /\ step' \in 0 .. Len(make_fs_writes) /\ pc' \in {"off", "format", "complete", "load", "kernel", "panic"}
      /\ size' \in [Names -> Sizes] /\ exit' \in {"none", "running", "ok", "abort", "killed"}
      /\ IsDisk(disk') /\ (master' # NULL => IsDisk(master'))
  BY <1>1, TypeParts, Zenon
<1> QED BY <1>2, <1>3, TypePartsNext, Zenon

\* The end of one kind of write leaves types alone.
LEMMA TypeWrite ==
    ASSUME TypeInv, NEW area, write(area), IsDisk(disk'), installed' \in BOOLEAN
    PROVE  TypeInv'
<1>1. /\ size' = size /\ pc' = pc /\ step' = step /\ master' = master /\ tool # NULL
      /\ exit' \in {exit, "ok"}
  BY DEF write
<1>2. tool' # NULL => IsTool(tool')
  BY <1>1, ToolStep, TypeParts, Zenon
<1>3. exit' \in {"none", "running", "ok", "abort", "killed"}
  BY <1>1, TypeParts
<1>4. /\ step' \in 0 .. Len(make_fs_writes) /\ pc' \in {"off", "format", "complete", "load", "kernel", "panic"}
      /\ size' \in [Names -> Sizes] /\ (master' # NULL => IsDisk(master'))
  BY <1>1, TypeParts, Zenon
<1> QED BY <1>2, <1>3, <1>4, TypePartsNext, Zenon

LEMMA TypeNext == TypeInv /\ [Next]_vars => TypeInv'
<1> SUFFICES ASSUME TypeInv, [Next]_vars PROVE TypeInv'
  OBVIOUS
<1>0. /\ IsDisk(disk) /\ size \in [Names -> Sizes] /\ installed \in BOOLEAN
      /\ pc \in {"off", "format", "complete", "load", "kernel", "panic"}
      /\ step \in 0 .. Len(make_fs_writes)
      /\ exit \in {"none", "running", "ok", "abort", "killed"}
      /\ master # NULL => IsDisk(master)
      /\ tool # NULL => IsTool(tool)
  BY TypeParts, Zenon
<1>1. 0 \in 0 .. Len(make_fs_writes)
  BY WritesLen
<1>2. CASE boot
  <2>1. pc' \in {"load", "format"} /\ step' = 0 /\ UNCHANGED <<disk, master, size, mem, tool, exit, installed>>
    BY <1>2 DEF boot
  <2> QED BY <1>0, <1>1, <2>1, TypePartsNext
<1>3. CASE make_fs
  <2>1. PICK k \in 1 .. Len(make_fs_writes) : k = step + 1
    BY <1>0, <1>3, WritesLen DEF make_fs
  <2>2. make_fs_writes[k] \in Writes
    BY <2>1, WriteList
  <2>3. /\ disk' = [disk EXCEPT ![make_fs_writes[k][1]] = make_fs_writes[k][2]]
        /\ step' = k /\ UNCHANGED <<master, size, pc, mem, tool, exit, installed>>
    BY <1>3, <2>1 DEF make_fs
  <2>4. make_fs_writes[k][2] \in {SuperSector, Blank, RootSector, InodeMapSector}
    BY <2>2 DEF Writes
  <2>5. DOMAIN make_fs_writes[k][2] = Byte
    BY <2>4, WrittenSectors, Zenon
  <2>6. IsDisk(disk')
    BY <1>0, <2>3, <2>5, ExceptDisk, Zenon
  <2>7. step' \in 0 .. Len(make_fs_writes)
    BY <2>1, <2>3, WritesLen
  <2> QED BY <1>0, <2>3, <2>6, <2>7, TypePartsNext
<1>4. CASE make_fs_done
  <2>1. /\ pc' = "complete" /\ step' = 0 /\ master' = disk /\ installed' = FALSE
        /\ UNCHANGED <<disk, size, mem, tool, exit>>
    BY <1>4 DEF make_fs_done
  <2> QED BY <1>0, <1>1, <2>1, TypePartsNext
<1>5. CASE loader_kernel
  <2>1. pc' = "kernel" /\ UNCHANGED <<disk, master, size, step, tool, exit, installed>>
    BY <1>5 DEF loader_kernel
  <2> QED BY <1>0, <2>1, TypePartsNext
<1>6. CASE loader_panic
  <2>1. pc' = "panic" /\ UNCHANGED <<disk, master, size, step, mem, tool, exit, installed>>
    BY <1>6 DEF loader_panic
  <2> QED BY <1>0, <2>1, TypePartsNext
<1>7. CASE reset
  <2>1. pc' = "off" /\ step' = 0 /\ UNCHANGED <<disk, master, size, tool, exit, installed>>
    BY <1>7 DEF reset
  <2> QED BY <1>0, <1>1, <2>1, TypePartsNext
<1>8. CASE install
  <2>1. master # NULL /\ start(master, KernelName) /\ installed' \in BOOLEAN
    BY <1>8 DEF install
  <2> QED BY <1>0, <2>1, TypeStart, NameAssumption
<1>9. ASSUME NEW f \in Names, run(f) PROVE TypeInv'
  <2>1. start(disk, f) /\ installed' = installed
    BY <1>9 DEF run
  <2> QED BY <1>0, <2>1, TypeStart
<1>10. CASE write_data
  <2>1. /\ tool # NULL /\ UNCHANGED <<master, size, pc, step, mem, exit, installed>>
        /\ disk' = [disk EXCEPT ![sb.first_data_sector + tool.at + tool.done] = Content(tool.file)[tool.done + 1]]
    BY <1>10 DEF write_data
  <2>2. tool.done \in Nat /\ tool.file \in Names /\ tool.done < size[tool.file] /\ IsTool(tool')
    <3>1. IsTool(tool)
      BY <1>0, <2>1
    <3> QED BY <3>1, <1>10, <2>1, ToolStep, Zenon DEF IsTool
  <2>3. size[tool.file] \in Nat
    BY <1>0, <2>2, Sizes1
  <2>4. tool.done + 1 \in 1 .. size[tool.file]
    BY <2>2, <2>3
  <2>5. DOMAIN Content(tool.file)[tool.done + 1] = Byte
    BY <2>4 DEF Content
  <2>6. IsDisk(disk')
    BY <1>0, <2>1, <2>5, ExceptDisk, Zenon
  <2> QED BY <1>0, <2>1, <2>2, <2>6, TypePartsNext
<1>11. CASE write_data_done
  <2>1. write("data") /\ disk' = disk /\ installed' = installed
    BY <1>11 DEF write_data_done
  <2> QED BY <1>0, <2>1, TypeWrite, Zenon
<1>12. CASE write_inode_array
  <2>1. write("inodes") /\ IsDisk(disk') /\ installed' = installed
    BY <1>12, PokeDisk, Zenon DEF write_inode_array
  <2> QED BY <1>0, <2>1, TypeWrite, Zenon
<1>13. CASE write_inode_map
  <2>1. write("inode_map") /\ IsDisk(disk') /\ installed' = installed
    BY <1>13, PokeDisk, Zenon DEF write_inode_map
  <2> QED BY <1>0, <2>1, TypeWrite, Zenon
<1>14. CASE write_sector_map
  <2>1. write("sector_map") /\ IsDisk(disk') /\ installed' = installed
    BY <1>14, PokeDisk, Zenon DEF write_sector_map
  <2> QED BY <1>0, <2>1, TypeWrite, Zenon
<1>15. CASE write_entry_in_root
  <2>1. write("root") /\ installed' \in BOOLEAN
    BY <1>15, Zenon DEF write_entry_in_root
  <2>2. disk' = disk \/ \E s, w : disk' = Poke(disk, s, w)
    BY <1>15, Zenon DEF write_entry_in_root
  <2>3. IsDisk(disk')
    BY <1>0, <2>2, PokeDisk, Zenon
  <2> QED BY <2>1, <2>3, TypeWrite, Zenon
<1>16. CASE kill
  <2>1. tool' = NULL /\ exit' = "killed" /\ UNCHANGED <<disk, master, size, pc, step, mem, installed>>
    BY <1>16 DEF kill
  <2> QED BY <1>0, <2>1, TypePartsNext
<1>17. CASE UNCHANGED vars
  BY <1>0, <1>17, TypePartsNext DEF vars
<1> QED BY <1>2, <1>3, <1>4, <1>5, <1>6, <1>7, <1>8, <1>9, <1>10, <1>11, <1>12, <1>13, <1>14,
           <1>15, <1>16, <1>17, Zenon DEF Next

\* Whatever is copied, and whatever was on the disk before: make_fs writes no
\* more sectors than it has to, and cp_file chooses an inode and a place that
\* the maps have.
THEOREM ImageTypes == Spec => []TypeOK
<1>1. TypeInv => TypeOK
  BY DEF TypeInv
<1> QED BY <1>1, TypeInit, TypeNext, PTL DEF Spec

-----------------------------------------------------------------------------
(* What make_fs leaves behind.                                              *)

LEMMA AreasInSectors ==
    /\ 0 \in Sectors /\ 1 \in Sectors /\ 2 \in Sectors
    /\ \A x : x \in InodeArea .. InodeArea + AreaSectors - 1 => x \in Sectors
    /\ \A x : x \in MapArea .. MapArea + MapSectors - 1 => x \in Sectors
    /\ \A x : x \in RootArea .. RootArea + AreaSectors - 1 => x \in Sectors
    /\ \A x : x \in DataArea .. DataArea + SectorCnt + 7 => x \in Sectors
BY SectorRange, Areas, AreaSize, Sizes1

LEMMA InodeSize == InodeBytes <= SectorBytes
<1>1. PICK p \in Nat \ {0}, m \in Nat : p = PerSector /\ m = InodeBytes /\ p * m = SectorBytes
  BY PerSectorSize, Sizes1
<1>2. m <= p * m
  OBVIOUS
<1> QED BY <1>1, <1>2

LEMMA RootUsed ==
    /\ RootInode # NoInode /\ RootInode \in Inodes /\ NoInode \in Inodes /\ Stored(Inodes)
    /\ RootInode.start = RootArea /\ RootInode.cnt = AreaSectors
    /\ superblock # NULL /\ \A j \in Byte : <<superblock, j>> \notin {Zero, One, Junk}
<1>1. RootArea \in Sectors /\ RootArea # 0 /\ 0 \in Sectors
  BY SectorRange, Areas, AreaSize, Sizes1
<1>2. RootInode = [start |-> RootArea, cnt |-> AreaSectors]
  BY Areas DEF RootInode, RootArea
<1>3. Stored(Inodes) /\ Stored({superblock})
  BY ByteAssumption, Zenon
<1> QED BY <1>1, <1>2, <1>3 DEF NoInode, Inodes, Stored

\* Every write of make_fs is one of these.
LEMMA WriteCases ==
    ASSUME NEW k \in 1 .. Len(make_fs_writes)
    PROVE  \/ k = 1 /\ make_fs_writes[k] = <<1, SuperSector>>
           \/ \E i \in 1 .. AreaSectors : k = 1 + i /\ make_fs_writes[k] = <<InodeArea + i - 1, Blank>>
           \/ k = 2 + AreaSectors /\ make_fs_writes[k] = <<InodeArea, RootSector>>
           \/ k = 3 + AreaSectors /\ make_fs_writes[k] = <<2, InodeMapSector>>
           \/ \E i \in 1 .. MapSectors :
                k = 3 + AreaSectors + i /\ make_fs_writes[k] = <<MapArea + i - 1, Blank>>
           \/ \E i \in 1 .. AreaSectors :
                k = 3 + AreaSectors + MapSectors + i /\ make_fs_writes[k] = <<RootArea + i - 1, Blank>>
<1>1. PICK A \in Nat, M \in Nat : A = AreaSectors /\ M = MapSectors
  BY AreaSize, Areas
<1>2. k \in 1 .. 3 + 2 * A + M
  BY <1>1, WriteList
<1>3. \/ k = 1 \/ k = 2 + A \/ k = 3 + A
      \/ \E i \in 1 .. A : k = 1 + i
      \/ \E i \in 1 .. M : k = 3 + A + i
      \/ \E i \in 1 .. A : k = 3 + A + M + i
  <2>1. k \in 2 .. 1 + A => k - 1 \in 1 .. A /\ k = 1 + (k - 1)
    BY <1>2
  <2>2. k \in 4 + A .. 3 + A + M => k - (3 + A) \in 1 .. M /\ k = 3 + A + (k - (3 + A))
    BY <1>2
  <2>3. k \in 4 + A + M .. 3 + A + M + A =>
            k - (3 + A + M) \in 1 .. A /\ k = 3 + A + M + (k - (3 + A + M))
    BY <1>2
  <2>4. \/ k = 1 \/ k = 2 + A \/ k = 3 + A \/ k \in 2 .. 1 + A \/ k \in 4 + A .. 3 + A + M
        \/ k \in 4 + A + M .. 3 + A + M + A
    BY <1>2
  <2> QED BY <2>1, <2>2, <2>3, <2>4
<1> QED BY <1>1, <1>3, WriteList, Zenon

\* The sectors that the writes go to.
LEMMA Target ==
    ASSUME NEW k \in 1 .. Len(make_fs_writes)
    PROVE  /\ make_fs_writes[k][1] \in Nat
           /\ k = 1 => make_fs_writes[k][1] = 1
           /\ k \in 2 .. 1 + AreaSectors => make_fs_writes[k][1] = InodeArea + k - 2
           /\ k = 2 + AreaSectors => make_fs_writes[k][1] = InodeArea
           /\ k = 3 + AreaSectors => make_fs_writes[k][1] = 2
           /\ k \in 4 + AreaSectors .. 3 + AreaSectors + MapSectors =>
                make_fs_writes[k][1] = MapArea + k - (4 + AreaSectors)
           /\ k > 3 + AreaSectors + MapSectors =>
                make_fs_writes[k][1] = RootArea + k - (4 + AreaSectors + MapSectors)
<1>0. PICK t : t = make_fs_writes[k][1]
  OBVIOUS
<1>1. PICK A \in Nat, M \in Nat : A = AreaSectors /\ M = MapSectors
  BY AreaSize, Areas
<1>2. \/ k = 1 /\ t = 1
      \/ \E i \in 1 .. A : k = 1 + i /\ t = InodeArea + i - 1
      \/ k = 2 + A /\ t = InodeArea
      \/ k = 3 + A /\ t = 2
      \/ \E i \in 1 .. M : k = 3 + A + i /\ t = MapArea + i - 1
      \/ \E i \in 1 .. A : k = 3 + A + M + i /\ t = RootArea + i - 1
  BY <1>0, <1>1, WriteCases
<1>3. InodeArea \in Nat /\ RootArea \in Nat /\ MapArea \in Nat
  BY Areas
<1> QED BY <1>0, <1>1, <1>2, <1>3

\* A sector that is not written again.
LEMMA LastWrite ==
    ASSUME NEW k \in 1 .. Len(make_fs_writes), Written(Len(make_fs_writes)),
           \A j \in k + 1 .. Len(make_fs_writes) : make_fs_writes[j][1] # make_fs_writes[k][1]
    PROVE  disk[make_fs_writes[k][1]] = make_fs_writes[k][2]
BY DEF Written

LEMMA DoneSectors ==
    ASSUME Written(Len(make_fs_writes))
    PROVE  /\ disk[1] = SuperSector /\ disk[2] = InodeMapSector /\ disk[InodeArea] = RootSector
           /\ \A i \in 2 .. AreaSectors : disk[InodeArea + i - 1] = Blank
           /\ \A i \in 1 .. MapSectors : disk[MapArea + i - 1] = Blank
           /\ \A i \in 1 .. AreaSectors : disk[RootArea + i - 1] = Blank
<1>0. PICK A \in Nat, M \in Nat, L \in Nat :
        A = AreaSectors /\ M = MapSectors /\ A > 3 /\ L = Len(make_fs_writes) /\ L = 3 + 2 * A + M
  BY AreaSize, Areas, WriteList
<1> DEFINE to(j) == make_fs_writes[j][1]
<1>1. ASSUME NEW j \in 1 .. L
      PROVE  /\ to(j) \in Nat
             /\ j = 1 => to(j) = 1
             /\ j \in 2 .. 1 + A => to(j) = 3 + M + j - 2
             /\ j = 2 + A => to(j) = 3 + M
             /\ j = 3 + A => to(j) = 2
             /\ j \in 4 + A .. 3 + A + M => to(j) = j - (1 + A)
             /\ j > 3 + A + M => to(j) = j - 1
  <2>1. MapArea = 3 /\ InodeArea = 3 + M /\ RootArea = 3 + M + A
    BY <1>0, Areas
  <2> QED BY <1>0, <2>1, Target
<1> HIDE DEF to
<1>2. ASSUME NEW k \in 1 .. L, k > 1 + A \/ k = 1 \/ k \in 3 .. 1 + A PROVE \A j \in k + 1 .. L : to(j) # to(k)
  <2> SUFFICES ASSUME NEW j \in k + 1 .. L PROVE to(j) # to(k)
    OBVIOUS
  <2>1. j \in 1 .. L
    OBVIOUS
  <2> QED BY <2>1, <1>0, <1>1, <1>2
<1>3. ASSUME NEW k \in 1 .. L, k > 1 + A \/ k = 1 \/ k \in 3 .. 1 + A
      PROVE  disk[make_fs_writes[k][1]] = make_fs_writes[k][2]
  BY <1>0, <1>2, <1>3, LastWrite DEF to
<1>4. disk[1] = SuperSector
  <2>1. 1 \in 1 .. L /\ make_fs_writes[1] = <<1, SuperSector>>
    BY <1>0, WriteList
  <2> QED BY <1>3, <2>1
<1>5. disk[2] = InodeMapSector
  <2>1. 3 + A \in 1 .. L /\ 3 + A > 1 + A /\ make_fs_writes[3 + A] = <<2, InodeMapSector>>
    BY <1>0, WriteList
  <2> QED BY <1>3, <2>1
<1>6. disk[InodeArea] = RootSector
  <2>1. 2 + A \in 1 .. L /\ 2 + A > 1 + A /\ make_fs_writes[2 + A] = <<InodeArea, RootSector>>
    BY <1>0, WriteList
  <2> QED BY <1>3, <2>1
<1>7. ASSUME NEW i \in 2 .. A PROVE disk[InodeArea + i - 1] = Blank
  <2>1. i \in 1 .. AreaSectors
    BY <1>0
  <2>2. PICK k \in 1 .. L : k = 1 + i /\ k \in 3 .. 1 + A
    BY <1>0
  <2>3. make_fs_writes[k] = <<InodeArea + i - 1, Blank>>
    BY <2>1, <2>2, WriteList
  <2> QED BY <1>3, <2>2, <2>3
<1>8. ASSUME NEW i \in 1 .. M PROVE disk[MapArea + i - 1] = Blank
  <2>1. i \in 1 .. MapSectors
    BY <1>0
  <2>2. PICK k \in 1 .. L : k = 3 + AreaSectors + i /\ k > 1 + A
    BY <1>0
  <2>3. make_fs_writes[k] = <<MapArea + i - 1, Blank>>
    BY <2>1, <2>2, WriteList
  <2> QED BY <1>3, <2>2, <2>3
<1>9. ASSUME NEW i \in 1 .. A PROVE disk[RootArea + i - 1] = Blank
  <2>1. i \in 1 .. AreaSectors
    BY <1>0
  <2>2. PICK k \in 1 .. L : k = 3 + AreaSectors + MapSectors + i /\ k > 1 + A
    BY <1>0
  <2>3. make_fs_writes[k] = <<RootArea + i - 1, Blank>>
    BY <2>1, <2>2, WriteList
  <2> QED BY <1>3, <2>2, <2>3
<1> QED BY <1>0, <1>4, <1>5, <1>6, <1>7, <1>8, <1>9

\* Blank sectors hold zeros.
LEMMA BlankHolds ==
    ASSUME NEW d, NEW s \in Nat, NEW cnt \in Nat, NEW len \in Nat, len <= cnt * SectorBytes,
           \A i \in 1 .. cnt : d[s + i - 1] = Blank
    PROVE  Holds(d, s, Zeros(len))
<1>1. Block(Zeros(len), cnt) /\ DOMAIN Zeros(len) = 0 .. len - 1
  BY DEF Block, Zeros
<1> SUFFICES ASSUME NEW n \in DOMAIN Zeros(len) PROVE Peek(d, s, n) = Zeros(len)[n]
  BY DEF Holds
<1>2. PICK q \in 0 .. cnt - 1, r \in Byte : q = n \div SectorBytes /\ r = n % SectorBytes
  BY <1>1, ByteAt
<1>3. PICK i \in 1 .. cnt : i = q + 1 /\ s + i - 1 = s + q
  OBVIOUS
<1>4. d[s + q] = Blank
  BY <1>3
<1> QED BY <1>1, <1>2, <1>4 DEF Peek, Blank, Zeros

LEMMA FirstInodeBytes ==
    /\ DOMAIN Bytes(FirstInode, NoInode) = 0 .. InodeBytes - 1
    /\ \A n \in 0 .. InodeBytes - 1 : Bytes(FirstInode, NoInode)[n] = <<RootInode, n>>
<1>1. PICK m \in Nat \ {0} : m = InodeBytes
  BY Sizes1
<1>2. 1 \in Nat \ {0} /\ DOMAIN FirstInode = 0 .. 1 - 1 /\ 1 * m = m
  BY DEF FirstInode
<1>3. /\ DOMAIN Bytes(FirstInode, NoInode) = 0 .. 1 * InodeBytes - 1
      /\ \A n \in 0 .. 1 * InodeBytes - 1 :
           Bytes(FirstInode, NoInode)[n] =
             IF FirstInode[n \div InodeBytes] = NoInode THEN Zero
             ELSE <<FirstInode[n \div InodeBytes], n % InodeBytes>>
  BY <1>2, BytesOf, ZenonT(40)
<1>4. ASSUME NEW n \in 0 .. m - 1 PROVE n \div m = 0 /\ n % m = n
  <2>1. (0 * m + n) \div m = 0 /\ (0 * m + n) % m = n
    BY DivUnique
  <2>2. 0 * m + n = n
    OBVIOUS
  <2> QED BY <2>1, <2>2
<1>5. FirstInode[0] = RootInode
  BY DEF FirstInode
<1> QED BY <1>1, <1>2, <1>3, <1>4, <1>5, RootUsed

LEMMA RootSectorBytes ==
    \A b \in Byte : RootSector[b] = IF b < InodeBytes THEN <<RootInode, b>> ELSE Zero
<1> SUFFICES ASSUME NEW b \in Byte PROVE RootSector[b] = IF b < InodeBytes THEN <<RootInode, b>> ELSE Zero
  OBVIOUS
<1>1. FirstInode = [i \in {0} |-> RootInode]
  <2>1. 0 .. 0 = {0}
    OBVIOUS
  <2> QED BY <2>1 DEF FirstInode
<1>2. PICK w : w = Bytes(FirstInode, NoInode)
  OBVIOUS
<1>3. 0 \in Sectors /\ 0 \in Nat /\ (0 - 0) * SectorBytes + b = b
  BY SectorRange, Sizes1
<1>4. RootSector[b] = IF b \in DOMAIN w THEN w[b] ELSE Zero
  BY <1>1, <1>2, <1>3 DEF RootSector, Poke, Blank
<1>5. b \in 0 .. SectorBytes - 1
  BY DEF Byte
<1> QED BY <1>2, <1>4, <1>5, FirstInodeBytes, Sizes1

LEMMA FreshInodeBytes ==
    /\ DOMAIN Bytes(FreshInodes, NoInode) = 0 .. MaxInodes * InodeBytes - 1
    /\ \A n \in 0 .. MaxInodes * InodeBytes - 1 :
         Bytes(FreshInodes, NoInode)[n] = IF n < InodeBytes THEN <<RootInode, n>> ELSE Zero
<1>0. PICK m \in Nat \ {0}, k \in Nat \ {0} : m = InodeBytes /\ k = MaxInodes /\ k * m \in Nat
  BY Sizes1
<1>1. DOMAIN FreshInodes = 0 .. MaxInodes - 1 /\ MaxInodes \in Nat \ {0}
  BY Sizes1 DEF FreshInodes
<1>2. /\ DOMAIN Bytes(FreshInodes, NoInode) = 0 .. MaxInodes * InodeBytes - 1
      /\ \A n \in 0 .. MaxInodes * InodeBytes - 1 :
           Bytes(FreshInodes, NoInode)[n] =
             IF FreshInodes[n \div InodeBytes] = NoInode THEN Zero
             ELSE <<FreshInodes[n \div InodeBytes], n % InodeBytes>>
  BY <1>1, BytesOf, ZenonT(40)
<1>3. ASSUME NEW n \in 0 .. k * m - 1
      PROVE  Bytes(FreshInodes, NoInode)[n] = IF n < InodeBytes THEN <<RootInode, n>> ELSE Zero
  <2>1. PICK q \in 0 .. k - 1, r \in 0 .. m - 1 : q = n \div m /\ r = n % m /\ n = q * m + r
    <3>1. n \in Nat /\ n < k * m
      BY <1>0
    <3>2. n \div m < k
      BY <3>1, <1>0, DivLess
    <3> QED BY <3>1, <3>2, DivMod
  <2>2. q = 0 => n = r /\ n < m
    BY <2>1
  <2>3. q # 0 => n >= m
    <3>1. q # 0 => q * m >= m
      OBVIOUS
    <3> QED BY <3>1, <2>1
  <2>4. FreshInodes[q] = IF q = 0 THEN RootInode ELSE NoInode
    BY <1>0, <2>1 DEF FreshInodes
  <2>5. Bytes(FreshInodes, NoInode)[n] =
            IF FreshInodes[q] = NoInode THEN Zero ELSE <<FreshInodes[q], r>>
    BY <1>0, <1>2, <2>1
  <2>6. CASE q = 0
    BY <1>0, <2>1, <2>2, <2>4, <2>5, <2>6, RootUsed
  <2>7. CASE q # 0
    BY <1>0, <2>1, <2>3, <2>4, <2>5, <2>7
  <2> QED BY <2>6, <2>7
<1> QED BY <1>0, <1>2, <1>3

\* When make_fs is done the partition is a file system without files.
LEMMA FreshDone == ASSUME Written(Len(make_fs_writes)) PROVE Fresh(disk)
<1>1. /\ disk[1] = SuperSector /\ disk[2] = InodeMapSector /\ disk[InodeArea] = RootSector
      /\ \A i \in 2 .. AreaSectors : disk[InodeArea + i - 1] = Blank
      /\ \A i \in 1 .. MapSectors : disk[MapArea + i - 1] = Blank
      /\ \A i \in 1 .. AreaSectors : disk[RootArea + i - 1] = Blank
  BY DoneSectors
<1>2. Holds(disk, MapArea, Zeros(superblock.sector_map_sectors * SectorBytes))
  <2>1. PICK len \in Nat : len = MapSectors * SectorBytes /\ len <= MapSectors * SectorBytes
    BY Areas, Sizes1
  <2>2. Holds(disk, MapArea, Zeros(len))
    BY <1>1, <2>1, Areas, BlankHolds
  <2> QED BY <2>1, <2>2, Areas
<1>3. Holds(disk, RootArea, Zeros(RootLen * InodeBytes))
  <2>1. PICK len \in Nat : len = RootLen * InodeBytes /\ len <= AreaSectors * SectorBytes
    BY PerSectorSize, AreaSize, Sizes1
  <2>2. Holds(disk, RootArea, Zeros(len))
    BY <1>1, <2>1, AreaSize, Areas, BlankHolds
  <2> QED BY <2>1, <2>2
<1>4. Holds(disk, 2, FreshInodeMap)
  <2> SUFFICES ASSUME NEW n \in 0 .. MaxInodes - 1 PROVE Peek(disk, 2, n) = FreshInodeMap[n]
    BY DEF Holds, FreshInodeMap
  <2>1. PICK m \in Nat \ {0} : m = SectorBytes /\ n \in 0 .. m - 1
    BY Sizes1
  <2>2. (0 * m + n) \div m = 0 /\ (0 * m + n) % m = n /\ 0 * m + n = n
    BY <2>1, DivUnique
  <2>3. Peek(disk, 2, n) = disk[2][n]
    BY <2>1, <2>2 DEF Peek
  <2> QED BY <1>1, <2>1, <2>3 DEF InodeMapSector, Blank, Byte, FreshInodeMap
<1>5. Holds(disk, InodeArea, Bytes(FreshInodes, NoInode))
  <2>0. DOMAIN FreshInodes = 0 .. MaxInodes - 1
    BY DEF FreshInodes
  <2>1. Block(Bytes(FreshInodes, NoInode), AreaSectors)
    BY <2>0, BytesBlock, Sizes1, AreaSize
  <2> SUFFICES ASSUME NEW n \in DOMAIN Bytes(FreshInodes, NoInode)
               PROVE  Peek(disk, InodeArea, n) = Bytes(FreshInodes, NoInode)[n]
    BY DEF Holds
  <2>2. PICK m \in Nat \ {0}, a \in Nat : m = SectorBytes /\ a = AreaSectors /\ Byte = 0 .. m - 1
    BY Sizes1, AreaSize DEF Byte
  <2>3. PICK q \in 0 .. a - 1, r \in 0 .. m - 1 : q = n \div m /\ r = n % m /\ n = q * m + r
    BY <2>1, <2>2, AreaSize, ByteAt
  <2>4. Bytes(FreshInodes, NoInode)[n] = IF n < InodeBytes THEN <<RootInode, n>> ELSE Zero
    BY FreshInodeBytes
  <2>5. Peek(disk, InodeArea, n) = disk[InodeArea + q][r]
    BY <2>2, <2>3 DEF Peek
  <2>6. CASE q = 0
    <3>1. n = r /\ disk[InodeArea + q] = RootSector
      BY <1>1, <2>3, <2>6, Areas
    <3> QED BY <2>2, <2>4, <2>5, <3>1, RootSectorBytes
  <2>7. CASE q # 0
    <3>1. n >= m
      <4>1. q * m >= m
        BY <2>7
      <4> QED BY <4>1, <2>3
    <3>2. ~ (n < InodeBytes)
      BY <3>1, <2>2, <2>3, InodeSize, Sizes1
    <3>3. PICK i \in 2 .. AreaSectors : i = q + 1 /\ InodeArea + i - 1 = InodeArea + q
      BY <2>2, <2>7, Areas
    <3>4. disk[InodeArea + q] = Blank
      BY <1>1, <3>3
    <3> QED BY <2>2, <2>4, <2>5, <3>2, <3>4 DEF Blank
  <2> QED BY <2>6, <2>7
<1> QED BY <1>1, <1>2, <1>3, <1>4, <1>5 DEF Fresh

LEMMA FreshLayout == ASSUME NEW d, Fresh(d) PROVE Layout(d)
<1>1. Peek(d, 2, 0) = One
  BY Sizes1 DEF Fresh, Holds, FreshInodeMap
<1>2. Holds(d, InodeArea, Bytes(FirstInode, NoInode))
  <2>1. ASSUME NEW n \in 0 .. InodeBytes - 1 PROVE Peek(d, InodeArea, n) = <<RootInode, n>>
    <3>1. n \in 0 .. MaxInodes * InodeBytes - 1 /\ n < InodeBytes
      <4>1. PICK k \in Nat \ {0}, m \in Nat : k = MaxInodes /\ m = InodeBytes
        BY Sizes1
      <4>2. m <= k * m
        OBVIOUS
      <4> QED BY <4>1, <4>2
    <3> QED BY <3>1, FreshInodeBytes DEF Fresh, Holds
  <2> QED BY <2>1, FirstInodeBytes DEF Holds
<1> QED BY <1>1, <1>2 DEF Fresh, Layout

-----------------------------------------------------------------------------
(* No run of the tool writes over the superblock, the first inode or its    *)
(* byte of the inode map.                                                   *)

\* What LayoutInv says of a running tool.
ToolLists(t) ==
    /\ DOMAIN t.inodes = 0 .. MaxInodes - 1 /\ t.inodes[0] = RootInode
    /\ DOMAIN t.inode_map = 0 .. MaxInodes - 1 /\ t.inode_map[0] = One
    /\ DOMAIN t.sector_map = 0 .. MapLen - 1

LEMMA LayoutRead ==
    ASSUME NEW d, Layout(d)
    PROVE  /\ has_magic(d) /\ Sb(d) = superblock /\ get_inode_array(d)[0] = RootInode
           /\ get_inode_map(d)[0] = One
<1>1. d[1][0] = <<superblock, 0>>
  BY SectorRange DEF Layout, SuperSector
<1>2. has_magic(d) /\ Sb(d) = superblock
  BY <1>1, RootUsed, SectorRange DEF has_magic, Sb
<1>3. Struct(d, InodeArea, 0, NoInode) = RootInode
  <2>1. PICK N \in Nat \ {0} : N = 1
    OBVIOUS
  <2>2. ListOf(FirstInode, N, Inodes)
    BY <2>1, RootUsed DEF ListOf, FirstInode
  <2>3. InodeArea \in Nat /\ Holds(d, InodeArea, Bytes(FirstInode, NoInode))
    BY Areas DEF Layout
  <2>4. \A i \in 0 .. N - 1 : Struct(d, InodeArea, i, NoInode) = FirstInode[i]
    BY <2>2, <2>3, StructsHeld, SMT
  <2> QED BY <2>1, <2>4 DEF FirstInode
<1> QED BY <1>2, <1>3, Sizes1, Areas DEF get_inode_array, get_inode_map, InodeArea, Layout

LEMMA StartLists ==
    ASSUME NEW d, NEW f \in Names, Layout(d), ~ Aborts(d, f)
    PROVE  ToolLists(cp_file(d, f))
<1>1. PICK num, inodes, imap : /\ num = Least(FreeInodes(get_inode_map(d)))
                               /\ inodes = get_inode_array(d) /\ imap = get_inode_map(d)
  OBVIOUS
<1>2. num # 0
  <2>1. FreeInodes(imap) # {} /\ FreeInodes(imap) \subseteq Nat
    BY <1>1, Sizes1 DEF Aborts, FreeInodes, get_inode_map
  <2>2. num \in FreeInodes(imap)
    BY <1>1, <2>1, LeastIn
  <2>3. 0 \notin FreeInodes(imap)
    BY <1>1, LayoutRead, ByteAssumption DEF FreeInodes
  <2> QED BY <2>2, <2>3
<1>3. PICK at, i, s :
        /\ cp_file(d, f) = ToolOf(1, f, num, at, 0, [inodes EXCEPT ![num] = i], [imap EXCEPT ![num] = One], s)
        /\ DOMAIN s = DOMAIN get_sector_map(d)
  <2>1. PICK map, at, i, s :
          /\ map = get_sector_map(d) /\ at = find_sectors_in_map(map, size[f])
          /\ i = [start |-> Sb(d).first_data_sector + at * 8, cnt |-> size[f]]
          /\ s = [n \in DOMAIN map |-> IF n \in Marked(at, size[f]) THEN Mark(size[f]) ELSE map[n]]
    OBVIOUS
  <2>2. cp_file(d, f) = ToolOf(1, f, num, at, 0, [inodes EXCEPT ![num] = i], [imap EXCEPT ![num] = One], s)
    BY <1>1, <2>1, Zenon DEF cp_file, ToolOf
  <2>3. DOMAIN s = DOMAIN get_sector_map(d)
    BY <2>1
  <2> QED BY <2>2, <2>3
<1>4. /\ DOMAIN inodes = 0 .. MaxInodes - 1 /\ DOMAIN imap = 0 .. MaxInodes - 1
      /\ DOMAIN s = 0 .. MapLen - 1 /\ 0 \in 0 .. MaxInodes - 1
      /\ inodes[0] = RootInode /\ imap[0] = One
  BY <1>1, <1>3, LayoutRead, Sizes1 DEF get_inode_array, get_inode_map, get_sector_map
<1>5. /\ cp_file(d, f).inodes = [inodes EXCEPT ![num] = i]
      /\ cp_file(d, f).inode_map = [imap EXCEPT ![num] = One] /\ cp_file(d, f).sector_map = s
  BY <1>3 DEF ToolOf
<1> QED BY <1>2, <1>4, <1>5 DEF ToolLists

LEMMA PokeSuper ==
    ASSUME NEW d, NEW s \in Nat, NEW w, NEW cnt \in Nat, Block(w, cnt), s > 1, d[1] = SuperSector
    PROVE  Poke(d, s, w)[1] = SuperSector
<1>0. 1 \in Sectors /\ 1 \notin s .. s + cnt - 1
  BY AreasInSectors
<1>1. \A b \in Byte : Poke(d, s, w)[1][b] = d[1][b]
  BY <1>0, PokeOther
<1>2. Poke(d, s, w)[1] = [b \in Byte |-> Poke(d, s, w)[1][b]]
  BY <1>0 DEF Poke
<1> QED BY <1>1, <1>2 DEF SuperSector

LEMMA FirstInodeBlock == Block(Bytes(FirstInode, NoInode), 1)
<1>1. 1 * SectorBytes = SectorBytes
  BY Sizes1
<1> QED BY <1>1, FirstInodeBytes, InodeSize, Sizes1 DEF Block

\* A disk that agrees with d there has the same layout.
LEMMA LayoutKept ==
    ASSUME NEW d, NEW e, Layout(d), e[1] = SuperSector, Agree(d, e, 2, 1), Agree(d, e, InodeArea, 1)
    PROVE  Layout(e)
<1>1. Holds(e, InodeArea, Bytes(FirstInode, NoInode))
  <2>1. InodeArea \in Nat /\ 1 \in Nat
    BY Areas
  <2> QED BY <2>1, FirstInodeBlock, AgreeHolds, Zenon DEF Layout
<1>2. Peek(e, 2, 0) = Peek(d, 2, 0)
  <2>1. PICK m \in Nat \ {0} : m = SectorBytes
    BY Sizes1
  <2>2. 0 \div m = 0 /\ 0 % m = 0
    <3>1. (0 * m + 0) \div m = 0 /\ (0 * m + 0) % m = 0 /\ 0 * m + 0 = 0 /\ 0 \in 0 .. m - 1
      BY DivUnique
    <3> QED BY <3>1
  <2> QED BY <2>1, <2>2, SectorRange DEF Agree, Peek
<1> QED BY <1>1, <1>2 DEF Layout

LEMMA LayoutPoke ==
    ASSUME NEW d, Layout(d), NEW s \in Nat, NEW w, NEW cnt \in Nat, Block(w, cnt),
           s > InodeArea \/ (s > 2 /\ s + cnt <= InodeArea)
    PROVE  Layout(Poke(d, s, w))
<1>1. /\ InodeArea \in Nat /\ 1 \in Nat /\ 2 \in Nat /\ InodeArea > 2
      /\ s > 1 /\ s > 2
      /\ InodeArea + 1 <= s \/ s + cnt <= InodeArea
      /\ InodeArea .. InodeArea + 1 - 1 \subseteq Sectors /\ 2 .. 2 + 1 - 1 \subseteq Sectors
      /\ 2 + 1 <= s \/ s + cnt <= 2
  BY Areas, AreaSize, AreasInSectors
<1>2. Agree(d, Poke(d, s, w), 2, 1)
  BY <1>1, PokeAgree, Zenon
<1>3. Agree(d, Poke(d, s, w), InodeArea, 1)
  BY <1>1, PokeAgree, Zenon
<1>4. Poke(d, s, w)[1] = SuperSector
  <2>1. d[1] = SuperSector /\ s > 1
    BY <1>1 DEF Layout
  <2> QED BY <2>1, PokeSuper
<1> QED BY <1>2, <1>3, <1>4, LayoutKept, Zenon

LEMMA InodesPoke ==
    ASSUME NEW d, Layout(d), NEW r, DOMAIN r = 0 .. MaxInodes - 1, r[0] = RootInode
    PROVE  /\ Block(Bytes(r, NoInode), AreaSectors)
           /\ Holds(Poke(d, InodeArea, Bytes(r, NoInode)), InodeArea, Bytes(r, NoInode))
           /\ Layout(Poke(d, InodeArea, Bytes(r, NoInode)))
<1>0. PICK w, e : w = Bytes(r, NoInode) /\ e = Poke(d, InodeArea, w)
  OBVIOUS
<1>1. Block(w, AreaSectors)
  BY <1>0, BytesBlock, AreaSize, Sizes1
<1>2. /\ InodeArea \in Nat /\ AreaSectors \in Nat /\ InodeArea > 1
      /\ InodeArea .. InodeArea + AreaSectors - 1 \subseteq Sectors /\ 2 \in Nat /\ 1 \in Nat
      /\ 2 .. 2 + 1 - 1 \subseteq Sectors
      /\ 2 + 1 <= InodeArea \/ InodeArea + AreaSectors <= 2
  BY Areas, AreaSize, AreasInSectors
<1>3. Holds(e, InodeArea, w)
  BY <1>0, <1>1, <1>2, PokeHolds, Zenon
<1>4. Agree(d, e, 2, 1)
  BY <1>0, <1>1, <1>2, PokeAgree, Zenon
<1>5. e[1] = SuperSector
  BY <1>0, <1>1, <1>2, PokeSuper, Zenon DEF Layout
<1>6. Holds(e, InodeArea, Bytes(FirstInode, NoInode))
  <2>0. /\ DOMAIN Bytes(r, NoInode) = 0 .. MaxInodes * InodeBytes - 1
        /\ \A n \in 0 .. MaxInodes * InodeBytes - 1 :
             Bytes(r, NoInode)[n] = IF r[n \div InodeBytes] = NoInode THEN Zero ELSE <<r[n \div InodeBytes], n % InodeBytes>>
    <3>1. MaxInodes \in Nat \ {0}
      BY Sizes1
    <3> QED BY <3>1, BytesOf, ZenonT(40)
  <2>1. ASSUME NEW n \in 0 .. InodeBytes - 1 PROVE Peek(e, InodeArea, n) = <<RootInode, n>>
    <3>1. 0 \in 0 .. MaxInodes - 1 /\ MaxInodes \in Nat \ {0}
      BY Sizes1
    <3>2. /\ 0 * InodeBytes + n \in 0 .. MaxInodes * InodeBytes - 1 /\ 0 * InodeBytes + n = n
          /\ (0 * InodeBytes + n) \div InodeBytes = 0 /\ (0 * InodeBytes + n) % InodeBytes = n
      BY <3>1, StructIndex, Sizes1
    <3>4. n \in DOMAIN w /\ w[n] = IF r[0] = NoInode THEN Zero ELSE <<r[0], n>>
      BY <1>0, <3>2, <2>0
    <3> QED BY <1>3, <3>4, RootUsed DEF Holds
  <2> QED BY <2>1, FirstInodeBytes DEF Holds
<1>7. Peek(e, 2, 0) = Peek(d, 2, 0)
  <2>1. PICK m \in Nat \ {0} : m = SectorBytes
    BY Sizes1
  <2>2. 0 \div m = 0 /\ 0 % m = 0
    <3>1. (0 * m + 0) \div m = 0 /\ (0 * m + 0) % m = 0 /\ 0 * m + 0 = 0 /\ 0 \in 0 .. m - 1
      BY DivUnique
    <3> QED BY <3>1
  <2> QED BY <1>4, <2>1, <2>2, SectorRange DEF Agree, Peek
<1> QED BY <1>0, <1>1, <1>3, <1>5, <1>6, <1>7 DEF Layout

LEMMA InodeMapPoke ==
    ASSUME NEW d, Layout(d), NEW w, DOMAIN w = 0 .. MaxInodes - 1, w[0] = One
    PROVE  Block(w, 1) /\ Holds(Poke(d, 2, w), 2, w) /\ Layout(Poke(d, 2, w))
<1>0. PICK e : e = Poke(d, 2, w)
  OBVIOUS
<1>1. Block(w, 1)
  <2>1. 1 * SectorBytes = SectorBytes
    BY Sizes1
  <2> QED BY <2>1, Sizes1 DEF Block
<1>2. /\ InodeArea \in Nat /\ 1 \in Nat /\ 2 \in Nat /\ 2 > 1
      /\ InodeArea .. InodeArea + 1 - 1 \subseteq Sectors /\ 2 .. 2 + 1 - 1 \subseteq Sectors
      /\ InodeArea + 1 <= 2 \/ 2 + 1 <= InodeArea
  BY Areas, AreaSize, AreasInSectors
<1>3. Holds(e, 2, w)
  BY <1>0, <1>1, <1>2, PokeHolds, Zenon
<1>4. Agree(d, e, InodeArea, 1)
  BY <1>0, <1>1, <1>2, PokeAgree, Zenon
<1>5. e[1] = SuperSector
  BY <1>0, <1>1, <1>2, PokeSuper, Zenon DEF Layout
<1>6. Holds(e, InodeArea, Bytes(FirstInode, NoInode))
  BY <1>2, <1>4, FirstInodeBlock, AgreeHolds, Zenon DEF Layout
<1>7. Peek(e, 2, 0) = One
  BY <1>3, Sizes1 DEF Holds
<1> QED BY <1>0, <1>1, <1>3, <1>5, <1>6, <1>7 DEF Layout

\* The directory has room for RootLen entries.
LEMMA RootDomain ==
    ASSUME NEW d
    PROVE  DOMAIN Root(d, RootInode) = 0 .. RootLen - 1 /\ RootLen \in Nat \ {0}
<1>1. DOMAIN Root(d, RootInode) = 0 .. RootLen - 1
  BY RootUsed DEF Root, RootLen
<1> QED BY <1>1, PerSectorSize

LEMMA EntriesBlock ==
    ASSUME NEW r, DOMAIN r = 0 .. RootLen - 1
    PROVE  Block(Bytes(r, NoEntry), AreaSectors)
<1>1. RootLen \in Nat \ {0} /\ AreaSectors \in Nat /\ RootLen * InodeBytes <= AreaSectors * SectorBytes
  BY PerSectorSize, AreaSize, Sizes1
<1> QED BY <1>1, BytesBlock

LEMMA LayoutParts ==
    ASSUME master' # NULL => IsDisk(master') /\ Layout(master') /\ Layout(disk') /\ pc' # "format",
           pc' = "format" => Written(step)',
           tool' # NULL => master' # NULL /\ pc' = "off" /\ ToolLists(tool')
    PROVE  LayoutInv'
BY Zenon DEF LayoutInv, ToolLists

LEMMA LayoutStart ==
    ASSUME TypeInv, LayoutInv, NEW d, NEW f \in Names, Layout(d), IsDisk(d), master # NULL, start(d, f)
    PROVE  LayoutInv'
<1>1. /\ disk' = d /\ master' = master /\ pc' = pc /\ pc = "off"
      /\ tool' = NULL \/ (~ Aborts(d, f) /\ tool' = cp_file(d, f))
  BY DEF start
<1>2. tool' # NULL => ToolLists(tool')
  BY <1>1, StartLists, Zenon
<1>3. IsDisk(master) /\ Layout(master)
  BY DEF LayoutInv
<1>4. Layout(disk') /\ Layout(master') /\ IsDisk(master') /\ pc' = "off" /\ master' # NULL
  BY <1>1, <1>3
<1> QED BY <1>2, <1>4, LayoutParts

\* The end of one kind of write.
LEMMA LayoutWrite ==
    ASSUME TypeInv, LayoutInv, NEW area, write(area), Layout(disk')
    PROVE  LayoutInv'
<1>1. tool # NULL /\ IsTool(tool) /\ master' = master /\ pc' = pc
  BY TypeParts, Zenon DEF write
<1>2. master # NULL /\ pc = "off" /\ ToolLists(tool) /\ IsDisk(master) /\ Layout(master)
  BY <1>1, Zenon DEF LayoutInv, ToolLists
<1>3. tool' # NULL => ToolLists(tool')
  <2>1. \/ tool' = NULL
        \/ /\ tool'.inodes = tool.inodes /\ tool'.inode_map = tool.inode_map
           /\ tool'.sector_map = tool.sector_map
    BY <1>1, ToolStep, Zenon
  <2> QED BY <1>2, <2>1, Zenon DEF ToolLists
<1>4. Layout(master') /\ IsDisk(master') /\ pc' = "off" /\ master' # NULL
  BY <1>1, <1>2
<1> QED BY <1>3, <1>4, LayoutParts

LEMMA TargetRange ==
    ASSUME NEW k \in 1 .. Len(make_fs_writes) PROVE make_fs_writes[k][1] \in Sectors
<1>1. PICK t : t = make_fs_writes[k][1]
  OBVIOUS
<1>2. \/ t = 1
      \/ \E i \in 1 .. AreaSectors : t = InodeArea + i - 1
      \/ t = InodeArea
      \/ t = 2
      \/ \E i \in 1 .. MapSectors : t = MapArea + i - 1
      \/ \E i \in 1 .. AreaSectors : t = RootArea + i - 1
  BY <1>1, WriteCases
<1>3. t \in 0 .. DataArea - 1
  BY <1>2, Areas, AreaSize
<1>4. Sectors = 0 .. DataArea + SectorCnt + 7 /\ DataArea \in Nat /\ SectorCnt \in Nat
  BY SectorRange, Areas, Sizes1
<1>5. t \in 0 .. DataArea + SectorCnt + 7
  BY <1>3, <1>4
<1> QED BY <1>1, <1>4, <1>5

LEMMA WrittenNext ==
    ASSUME TypeInv, make_fs, Written(step) PROVE Written(step)'
<1>1. PICK n \in Nat : n = step /\ n + 1 <= Len(make_fs_writes) /\ step' = n + 1
  BY WritesLen, TypeParts DEF make_fs
<1>2. disk' = [disk EXCEPT ![make_fs_writes[n + 1][1]] = make_fs_writes[n + 1][2]]
  BY <1>1 DEF make_fs
<1>3. IsDisk(disk) /\ make_fs_writes[n + 1][1] \in Sectors
  <2>1. n + 1 \in 1 .. Len(make_fs_writes)
    BY <1>1, WritesLen
  <2> QED BY <2>1, TargetRange, TypeParts
<1>4. ASSUME NEW k \in 1 .. n + 1
      PROVE  \/ \E j \in k + 1 .. n + 1 : make_fs_writes[j][1] = make_fs_writes[k][1]
             \/ disk'[make_fs_writes[k][1]] = make_fs_writes[k][2]
  <2>1. CASE k = n + 1
    BY <1>2, <1>3, <2>1 DEF IsDisk
  <2>2. CASE k # n + 1 /\ make_fs_writes[n + 1][1] = make_fs_writes[k][1]
    <3>1. n + 1 \in k + 1 .. n + 1
      BY <2>2
    <3> QED BY <2>2, <3>1
  <2>3. CASE k # n + 1 /\ make_fs_writes[n + 1][1] # make_fs_writes[k][1]
    <3>1. k \in 1 .. n
      BY <2>3
    <3>2. \/ \E j \in k + 1 .. n : make_fs_writes[j][1] = make_fs_writes[k][1]
          \/ disk[make_fs_writes[k][1]] = make_fs_writes[k][2]
      BY <1>1, <3>1 DEF Written
    <3>3. CASE \E j \in k + 1 .. n : make_fs_writes[j][1] = make_fs_writes[k][1]
      BY <3>3
    <3>4. CASE disk[make_fs_writes[k][1]] = make_fs_writes[k][2]
      <4>1. PICK x, y, v : /\ x = make_fs_writes[k][1] /\ y = make_fs_writes[n + 1][1]
                           /\ v = make_fs_writes[n + 1][2]
        OBVIOUS
      <4>2. x \in Sectors
        <5>1. k \in 1 .. Len(make_fs_writes)
          BY <1>1, <3>1, WritesLen
        <5> QED BY <4>1, <5>1, TargetRange
      <4>3. disk'[x] = disk[x]
        BY <1>2, <1>3, <2>3, <4>1, <4>2 DEF IsDisk
      <4> QED BY <3>4, <4>1, <4>3
    <3> QED BY <3>2, <3>3, <3>4
  <2> QED BY <2>1, <2>2, <2>3
<1> QED BY <1>1, <1>4 DEF Written

LEMMA LayoutNext == ASSUME WholeMap, TypeInv, LayoutInv, [Next]_vars PROVE LayoutInv'
<1>0. /\ IsDisk(disk) /\ size \in [Names -> Sizes] /\ (tool # NULL => IsTool(tool))
      /\ master # NULL => IsDisk(master) /\ Layout(master) /\ Layout(disk) /\ pc # "format"
      /\ pc = "format" => Written(step)
      /\ tool # NULL => master # NULL /\ pc = "off" /\ ToolLists(tool)
  BY TypeParts, Zenon DEF LayoutInv, ToolLists
<1>1. CASE boot
  <2>1. /\ tool' = NULL /\ disk' = disk /\ master' = master /\ step' = 0
        /\ pc' = IF has_magic(disk) THEN "load" ELSE "format"
    BY <1>1 DEF boot
  <2>2. master # NULL => pc' = "load"
    BY <1>0, <2>1, LayoutRead
  <2>3. Written(step)'
    BY <2>1 DEF Written
  <2> QED BY <1>0, <2>1, <2>2, <2>3, LayoutParts
<1>2. CASE make_fs
  <2>1. pc = "format" /\ pc' = pc /\ master' = master /\ tool' = tool
    BY <1>2 DEF make_fs
  <2>2. Written(step)'
    BY <1>0, <1>2, <2>1, WrittenNext
  <2>3. master' = NULL /\ tool' = NULL
    BY <1>0, <2>1
  <2> QED BY <2>2, <2>3, LayoutParts
<1>3. CASE make_fs_done
  <2>1. /\ pc = "format" /\ pc' = "complete" /\ master' = disk /\ disk' = disk /\ tool' = tool
        /\ Written(Len(make_fs_writes))
    BY <1>0, <1>3 DEF make_fs_done
  <2>2. Layout(disk)
    BY <2>1, FreshDone, FreshLayout
  <2> QED BY <1>0, <2>1, <2>2, LayoutParts
<1>4. CASE loader_kernel
  <2>1. pc = "load" /\ pc' = "kernel" /\ UNCHANGED <<disk, master, tool>>
    BY <1>4 DEF loader_kernel
  <2> QED BY <1>0, <2>1, LayoutParts
<1>5. CASE loader_panic
  <2>1. pc = "load" /\ pc' = "panic" /\ UNCHANGED <<disk, master, tool>>
    BY <1>5 DEF loader_panic
  <2> QED BY <1>0, <2>1, LayoutParts
<1>6. CASE reset
  <2>1. pc' = "off" /\ UNCHANGED <<disk, master, tool>>
    BY <1>6 DEF reset
  <2> QED BY <1>0, <2>1, LayoutParts
<1>7. CASE install
  <2>1. master # NULL /\ start(master, KernelName)
    BY <1>7 DEF install
  <2> QED BY <1>0, <2>1, NameAssumption, LayoutStart
<1>8. ASSUME NEW f \in Names, run(f) PROVE LayoutInv'
  <2>1. master # NULL /\ start(disk, f)
    BY <1>8 DEF run
  <2> QED BY <1>0, <2>1, LayoutStart
<1>9. tool # NULL => sb = superblock /\ InodeArea > 2 /\ DataArea > InodeArea /\ InodeArea \in Nat /\ DataArea \in Nat
  <2>1. InodeArea > 2 /\ DataArea > InodeArea /\ InodeArea \in Nat /\ DataArea \in Nat
    BY Areas, AreaSize
  <2> QED BY <1>0, <2>1, LayoutRead DEF sb, Sb
<1>10. CASE write_data
  <2>1. /\ tool # NULL /\ UNCHANGED <<master, pc>>
        /\ disk' = [disk EXCEPT ![sb.first_data_sector + tool.at + tool.done] = Content(tool.file)[tool.done + 1]]
    BY <1>10 DEF write_data
  <2>2. IsTool(tool) /\ tool.at \in Nat /\ tool.done \in Nat
    BY <1>0, <2>1 DEF IsTool
  <2>3. PICK y \in Nat : y = DataArea + tool.at + tool.done /\ y > InodeArea
    BY <1>9, <2>1, <2>2
  <2>4. PICK v : disk' = [disk EXCEPT ![y] = v]
    BY <1>9, <2>1, <2>3 DEF DataArea
  <2>5. Layout(disk')
    <3>1. DOMAIN disk = Sectors /\ 1 \in Nat /\ 2 \in Nat /\ InodeArea \in Nat
      BY <1>0, <1>9, <2>1 DEF IsDisk
    <3>2. /\ 2 .. 2 + 1 - 1 \subseteq Sectors /\ InodeArea .. InodeArea + 1 - 1 \subseteq Sectors
          /\ y \notin 2 .. 2 + 1 - 1 /\ y \notin InodeArea .. InodeArea + 1 - 1 /\ y # 1 /\ 1 \in Sectors
      BY <1>9, <2>1, <2>3, AreasInSectors, AreaSize, Areas
    <3>3. Agree(disk, disk', 2, 1) /\ Agree(disk, disk', InodeArea, 1)
      BY <2>4, <3>1, <3>2, SectorAgree
    <3>4. disk'[1] = SuperSector
      BY <1>0, <2>1, <2>4, <3>1, <3>2 DEF Layout
    <3> QED BY <1>0, <2>1, <3>3, <3>4, LayoutKept
  <2>6. ToolLists(tool')
    <3>1. /\ tool'.inodes = tool.inodes /\ tool'.inode_map = tool.inode_map
          /\ tool'.sector_map = tool.sector_map
      BY <1>10, <2>1, <2>2, ToolStep, Zenon
    <3> QED BY <1>0, <2>1, <3>1, Zenon DEF ToolLists
  <2> QED BY <1>0, <2>1, <2>5, <2>6, LayoutParts
<1>11. CASE write_data_done
  <2>1. write("data") /\ tool # NULL /\ disk' = disk
    BY <1>11 DEF write_data_done, write
  <2> QED BY <1>0, <2>1, LayoutWrite
<1>12. CASE write_inode_array
  <2>1. /\ write("inodes") /\ tool # NULL
        /\ disk' = Poke(disk, sb.inode_array_start, Bytes(tool.inodes, NoInode))
    BY <1>12 DEF write_inode_array, write
  <2>2. disk' = Poke(disk, InodeArea, Bytes(tool.inodes, NoInode))
    BY <1>9, <2>1 DEF InodeArea
  <2>3. Layout(disk')
    BY <1>0, <2>1, <2>2, InodesPoke DEF ToolLists
  <2> QED BY <2>1, <2>3, LayoutWrite
<1>13. CASE write_inode_map
  <2>1. /\ write("inode_map") /\ tool # NULL /\ disk' = Poke(disk, sb.inode_map_start, tool.inode_map)
    BY <1>13 DEF write_inode_map, write
  <2>2. disk' = Poke(disk, 2, tool.inode_map)
    BY <1>9, <2>1, Areas
  <2>3. Layout(disk')
    BY <1>0, <2>1, <2>2, InodeMapPoke DEF ToolLists
  <2> QED BY <2>1, <2>3, LayoutWrite
<1>14. CASE write_sector_map
  <2>1. /\ write("sector_map") /\ tool # NULL /\ disk' = Poke(disk, sb.sector_map_start, tool.sector_map)
    BY <1>14 DEF write_sector_map, write
  <2>2. disk' = Poke(disk, 3, tool.sector_map)
    BY <1>9, <2>1, Areas DEF MapArea
  <2>3. Block(tool.sector_map, MapSectors)
    BY <1>0, <2>1, MapSize DEF ToolLists, Block
  <2>4. MapSectors \in Nat /\ 3 + MapSectors <= InodeArea
    BY Areas
  <2>5. Layout(disk')
    BY <1>0, <2>1, <2>2, <2>3, <2>4, LayoutPoke
  <2> QED BY <2>1, <2>5, LayoutWrite
<1>15. CASE write_entry_in_root
  <2>1. write("root") /\ tool # NULL /\ tool.inodes[0] = RootInode /\ Layout(disk)
    BY <1>0, <1>15 DEF write_entry_in_root, write, ToolLists
  <2>2. PICK new : /\ DOMAIN new = 0 .. RootLen - 1
                   /\ disk' = disk \/ disk' = Poke(disk, RootArea, Bytes(new, NoEntry))
    <3>1. PICK slots : disk' = IF slots = {} THEN disk
                               ELSE Poke(disk, RootInode.start,
                                         Bytes([Root(disk, RootInode) EXCEPT ![Least(slots)] =
                                                  [num |-> tool.num, name |-> tool.file]], NoEntry))
      BY <1>15, <2>1, Zenon DEF write_entry_in_root
    <3>2. DOMAIN [Root(disk, RootInode) EXCEPT ![Least(slots)] = [num |-> tool.num, name |-> tool.file]]
            = 0 .. RootLen - 1
      BY RootDomain
    <3> QED BY <3>1, <3>2, RootUsed
  <2>3. RootArea \in Nat /\ RootArea > InodeArea /\ AreaSectors \in Nat
    BY Areas, AreaSize
  <2>4. Layout(disk')
    BY <2>1, <2>2, <2>3, EntriesBlock, LayoutPoke
  <2> QED BY <2>1, <2>4, LayoutWrite
<1>16. CASE kill
  <2>1. tool' = NULL /\ UNCHANGED <<disk, master, pc, step>>
    BY <1>16 DEF kill
  <2>2. Written(step) => Written(step)'
    BY <2>1 DEF Written
  <2> QED BY <1>0, <2>1, <2>2, LayoutParts
<1>17. CASE UNCHANGED vars
  <2>1. UNCHANGED <<disk, master, pc, step, tool>>
    BY <1>17 DEF vars
  <2>2. Written(step) => Written(step)'
    BY <2>1 DEF Written
  <2> QED BY <1>0, <2>1, <2>2, LayoutParts
<1> QED BY <1>1, <1>2, <1>3, <1>4, <1>5, <1>6, <1>7, <1>8, <1>10, <1>11, <1>12, <1>13, <1>14,
           <1>15, <1>16, <1>17, Zenon DEF Next

LEMMA LayoutInit == Init => LayoutInv
BY DEF Init, LayoutInv

\* Whatever files are copied into the image, and wherever a run of the tool is
\* interrupted: the magic number that make_fs wrote stays, and Cstart never
\* formats the partition again.
THEOREM PartitionFormattedOnce == WholeMap => (Spec => []FormatsOnce)
<1> SUFFICES ASSUME WholeMap PROVE Spec => []FormatsOnce
  OBVIOUS
<1>1. LayoutInv => FormatsOnce
  BY DEF LayoutInv, FormatsOnce
<1>2. LayoutInv /\ TypeInv /\ [Next]_vars => (LayoutInv /\ TypeInv)'
  BY LayoutNext, TypeNext
<1> QED BY <1>1, <1>2, LayoutInit, TypeInit, PTL DEF Spec

-----------------------------------------------------------------------------
(* A fresh partition.                                                       *)

LEMMA LeastIs ==
    ASSUME NEW S, S \subseteq Nat, NEW x \in S, \A y \in S : x <= y PROVE Least(S) = x
<1>1. Least(S) \in S /\ \A y \in S : Least(S) <= y
  BY LeastIn
<1>2. Least(S) \in Nat /\ x \in Nat /\ Least(S) <= x /\ x <= Least(S)
  BY <1>1
<1> QED BY <1>2

LEMMA FreshLists ==
    ASSUME NEW d, Fresh(d)
    PROVE  /\ Sb(d) = superblock /\ get_inode_array(d) = FreshInodes
           /\ get_inode_map(d) = FreshInodeMap
           /\ \A n \in 0 .. MapLen - 1 :
                n < superblock.sector_map_sectors * SectorBytes => get_sector_map(d)[n] = Zero
           /\ WholeMap => get_sector_map(d) = Zeros(MapLen)
           /\ FreeInodes(FreshInodeMap) = 1 .. MaxInodes - 1
           /\ \A i \in 0 .. RootLen - 1 : Root(d, RootInode)[i] = NoEntry
<1>1. Sb(d) = superblock
  BY FreshLayout, LayoutRead
<1>2. get_inode_array(d) = FreshInodes
  <2>1. ListOf(FreshInodes, MaxInodes, Inodes)
    BY Sizes1, RootUsed DEF ListOf, FreshInodes
  <2>2. InodeArea \in Nat /\ Holds(d, InodeArea, Bytes(FreshInodes, NoInode))
    BY Areas DEF Fresh
  <2>3. \A i \in 0 .. MaxInodes - 1 : Struct(d, InodeArea, i, NoInode) = FreshInodes[i]
    BY <2>1, <2>2, StructsHeld
  <2> QED BY <1>1, <2>3 DEF get_inode_array, FreshInodes, InodeArea
<1>3. get_inode_map(d) = FreshInodeMap
  <2>1. \A i \in 0 .. MaxInodes - 1 : Peek(d, 2, i) = FreshInodeMap[i]
    BY DEF Fresh, Holds, FreshInodeMap
  <2> QED BY <1>1, <2>1, Areas DEF get_inode_map, FreshInodeMap
<1>4. PICK len \in Nat : /\ len = superblock.sector_map_sectors * SectorBytes /\ len = MapSectors * SectorBytes
                        /\ \A n \in 0 .. len - 1 : Peek(d, MapArea, n) = Zero
  <2>1. PICK len \in Nat : len = MapSectors * SectorBytes /\ len = superblock.sector_map_sectors * SectorBytes
    BY Areas, Sizes1
  <2>2. Holds(d, MapArea, Zeros(len))
    BY <2>1 DEF Fresh
  <2> QED BY <2>1, <2>2 DEF Holds, Zeros
<1>4a. ASSUME NEW n \in 0 .. MapLen - 1, n < len PROVE get_sector_map(d)[n] = Zero
  <2>1. n \in 0 .. len - 1
    BY <1>4a, MapSize
  <2>2. get_sector_map(d)[n] = Peek(d, MapArea, n)
    BY <1>1 DEF get_sector_map, MapArea
  <2> QED BY <1>4, <2>1, <2>2
<1>4b. ASSUME WholeMap PROVE get_sector_map(d) = Zeros(MapLen)
  <2>1. \A n \in 0 .. MapLen - 1 : get_sector_map(d)[n] = Zero
    BY <1>4, <1>4a, <1>4b, MapSize
  <2> QED BY <2>1 DEF get_sector_map, Zeros
<1>5. FreeInodes(FreshInodeMap) = 1 .. MaxInodes - 1
  BY Sizes1, ByteAssumption DEF FreeInodes, FreshInodeMap
<1>6. ASSUME NEW i \in 0 .. RootLen - 1 PROVE Root(d, RootInode)[i] = NoEntry
  <2>1. Struct(d, RootArea, i, NoEntry) = NoEntry
    <3>1. RootLen \in Nat /\ RootArea \in Nat /\ Holds(d, RootArea, Zeros(RootLen * InodeBytes))
      BY PerSectorSize, Areas DEF Fresh
    <3> QED BY <3>1, StructZero
  <2> QED BY <2>1, RootUsed DEF Root, RootLen
<1> QED BY <1>1, <1>2, <1>3, <1>4, <1>4a, <1>4b, <1>5, <1>6

\* What cp_file makes of the kernel's length on a fresh partition.
LEMMA FreshStart ==
    ASSUME WholeMap, NEW d, Fresh(d), size \in [Names -> Sizes], ~ Aborts(d, KernelName)
    PROVE  /\ cp_file(d, KernelName) =
                ToolOf(1, KernelName, 1, 0, 0, KernelInodes, KernelInodeMap, KernelMap)
           /\ Octets(size[KernelName]) <= MapLen
<1>1. PICK map : map = get_sector_map(d) /\ map = Zeros(MapLen)
  BY FreshLists
<1>2. find_sectors_in_map(map, size[KernelName]) = 0
  <2>1. PICK S : S = {s \in DOMAIN map :
                        \A n \in s .. s + Octets(size[KernelName]) - 1 : n \in DOMAIN map => map[n] = Zero}
    OBVIOUS
  <2>2. S = 0 .. MapLen - 1
    BY <1>1, <2>1 DEF Zeros
  <2>3. 0 \in S /\ S \subseteq Nat /\ \A y \in S : 0 <= y
    BY <2>2, MapSize
  <2>4. Least(S) = 0 /\ S # {}
    BY <2>3, LeastIs
  <2> QED BY <2>1, <2>4, Zenon DEF find_sectors_in_map
<1>3. Least(FreeInodes(get_inode_map(d))) = 1
  <2>1. PICK S : S = 1 .. MaxInodes - 1 /\ S = FreeInodes(get_inode_map(d))
    BY FreshLists
  <2>2. S \subseteq Nat /\ 1 \in S /\ \A y \in S : 1 <= y
    BY <2>1, SectorRange, Sizes1
  <2>3. Least(S) = 1
    BY <2>2, LeastIs
  <2> QED BY <2>1, <2>3
<1>4. PICK inode : inode = [start |-> Sb(d).first_data_sector + 0 * 8, cnt |-> size[KernelName]]
  OBVIOUS
<1>5. inode = KernelInode
  <2>1. Sb(d).first_data_sector + 0 * 8 = DataArea
    BY FreshLists, Areas DEF DataArea
  <2> QED BY <1>4, <2>1 DEF KernelInode
<1>6. cp_file(d, KernelName) =
        ToolOf(1, KernelName, 1, 0, 0, [get_inode_array(d) EXCEPT ![1] = inode],
               [get_inode_map(d) EXCEPT ![1] = One],
               [n \in DOMAIN map |-> IF n \in Marked(0, size[KernelName]) THEN Mark(size[KernelName]) ELSE map[n]])
  BY <1>1, <1>2, <1>3, <1>4, Zenon DEF cp_file, ToolOf
<1>7. [n \in DOMAIN map |-> IF n \in Marked(0, size[KernelName]) THEN Mark(size[KernelName]) ELSE map[n]] = KernelMap
  BY <1>1 DEF Zeros, KernelMap
<1>8. Octets(size[KernelName]) <= MapLen
  <2>1. Fits(map, 0, size[KernelName])
    BY <1>1, <1>2, Zenon DEF Aborts
  <2>2. size[KernelName] \in Nat
    BY Sizes1, NameAssumption
  <2>3. Octets(size[KernelName]) \in Nat
    <3>1. 8 \in Nat \ {0}
      OBVIOUS
    <3> QED BY <2>2, <3>1, UpCovers DEF Octets
  <2>4. 0 .. 0 + Octets(size[KernelName]) - 1 \subseteq 0 .. MapLen - 1
    BY <1>1, <2>1 DEF Fits, Zeros
  <2>5. PICK o \in Nat : o = Octets(size[KernelName]) /\ (o > 0 => o - 1 \in 0 .. MapLen - 1)
    BY <2>3, <2>4
  <2> QED BY <2>5, MapSize
<1> QED BY <1>5, <1>6, <1>7, <1>8, FreshLists DEF KernelInodes, KernelInodeMap

\* What a run of the tool leaves alone while the machine is off.
ToolLeaves == pc = "off" /\ pc' = "off"

LEMMA ToolSteps ==
    ASSUME tool # NULL => pc = "off", [Next]_vars
    PROVE  \/ boot \/ make_fs \/ make_fs_done \/ loader_kernel \/ loader_panic \/ reset
           \/ ToolLeaves /\ master' = master
           \/ UNCHANGED vars
<1>1. install \/ (\E f \in Names : run(f)) => ToolLeaves /\ master' = master
  BY DEF install, run, start, ToolLeaves
<1>2. \A area : write(area) => ToolLeaves /\ master' = master
  BY DEF write, ToolLeaves
<1>3. (write_data_done \/ write_inode_array \/ write_inode_map \/ write_sector_map \/ write_entry_in_root)
      => ToolLeaves /\ master' = master
  BY <1>2, Zenon DEF write_data_done, write_inode_array, write_inode_map, write_sector_map, write_entry_in_root
<1>4. write_data \/ kill => ToolLeaves /\ master' = master
  BY DEF write_data, kill, ToolLeaves
<1> QED BY <1>1, <1>3, <1>4, Zenon DEF Next

\* While make_fs writes, and when it is done.
LEMMA FormatNext ==
    ASSUME TypeInv, FormatInv, [Next]_vars PROVE FormatInv'
<1>0. tool # NULL => pc = "off"
  BY DEF FormatInv
<1>1. CASE boot
  <2>1. step' = 0 /\ tool' = NULL /\ pc' # "complete"
    BY <1>1 DEF boot
  <2>2. Written(step)'
    BY <2>1 DEF Written
  <2> QED BY <2>1, <2>2 DEF FormatInv
<1>2. CASE make_fs
  <2>1. Written(step)'
    BY <1>2, WrittenNext DEF make_fs, FormatInv
  <2> QED BY <1>0, <1>2, <2>1 DEF make_fs, FormatInv
<1>3. CASE make_fs_done
  <2>1. Written(Len(make_fs_writes)) /\ disk' = disk /\ tool' = tool /\ pc' = "complete" /\ tool = NULL
    BY <1>0, <1>3 DEF make_fs_done, FormatInv
  <2>2. Fresh(disk)
    BY <2>1, FreshDone
  <2>3. Fresh(disk)'
    BY <2>1, <2>2 DEF Fresh
  <2> QED BY <2>1, <2>3 DEF FormatInv
<1>4. CASE loader_kernel \/ loader_panic \/ reset
  <2>1. tool' = tool /\ pc # "off" /\ pc' \notin {"format", "complete"}
    BY <1>4 DEF loader_kernel, loader_panic, reset
  <2> QED BY <1>0, <2>1 DEF FormatInv
<1>5. CASE ToolLeaves
  BY <1>5 DEF ToolLeaves, FormatInv
<1>6. CASE UNCHANGED vars
  <2>1. UNCHANGED <<disk, pc, step, tool>>
    BY <1>6 DEF vars
  <2> QED BY <2>1 DEF FormatInv, Written, Fresh
<1> QED BY <1>0, <1>1, <1>2, <1>3, <1>4, <1>5, <1>6, ToolSteps

LEMMA FormatInit == Init => FormatInv
BY DEF Init, FormatInv

\* The image that is kept of a completed partition.
LEMMA FreshNext ==
    ASSUME FormatInv, FreshInv, [Next]_vars PROVE FreshInv'
<1>0. tool # NULL => pc = "off"
  BY DEF FormatInv
<1>1. CASE make_fs_done
  <2>1. Written(Len(make_fs_writes)) /\ master' = disk
    BY <1>1 DEF make_fs_done, FormatInv
  <2> QED BY <2>1, FreshDone DEF FreshInv
<1>2. CASE master' = master
  BY <1>2 DEF FreshInv
<1>3. boot \/ make_fs \/ loader_kernel \/ loader_panic \/ reset \/ UNCHANGED vars => master' = master
  BY DEF boot, make_fs, loader_kernel, loader_panic, reset, vars
<1> QED BY <1>0, <1>1, <1>2, <1>3, ToolSteps

\* When make_fs says that it is done, the areas of a partition of any size are
\* initialised, whatever it held before, and no write for one area falls on
\* another.
THEOREM FreshPartitionIsEmpty == Spec => []FreshIsEmpty
<1>1. FormatInv => FreshIsEmpty
  <2> SUFFICES ASSUME Fresh(disk)
               PROVE  /\ get_inode_array(disk) = [[i \in 0 .. MaxInodes - 1 |-> NoInode] EXCEPT ![0] = RootInode]
                      /\ FreeInodes(get_inode_map(disk)) = 1 .. MaxInodes - 1
                      /\ \A n \in 0 .. MapLen - 1 :
                           n < superblock.sector_map_sectors * SectorBytes => get_sector_map(disk)[n] = Zero
                      /\ \A i \in DOMAIN Root(disk, RootInode) : Root(disk, RootInode)[i] = NoEntry
    BY DEF FormatInv, FreshIsEmpty
  <2>1. [[i \in 0 .. MaxInodes - 1 |-> NoInode] EXCEPT ![0] = RootInode] = FreshInodes
    BY DEF FreshInodes
  <2> QED BY <2>1, FreshLists, RootDomain
<1>2. TypeInv /\ FormatInv /\ [Next]_vars => (TypeInv /\ FormatInv)'
  BY TypeNext, FormatNext
<1> QED BY <1>1, <1>2, FormatInit, TypeInit, PTL DEF Spec

-----------------------------------------------------------------------------
(* The kernel is copied into the image and loaded from it.                  *)

LEMMA KernelSize ==
    ASSUME size \in [Names -> Sizes]
    PROVE  size[KernelName] \in Sizes /\ size[KernelName] \in Nat /\ Octets(size[KernelName]) \in Nat
<1>1. size[KernelName] \in Sizes /\ size[KernelName] \in Nat
  BY Sizes1, NameAssumption
<1> QED BY <1>1, UpCovers DEF Octets

LEMMA KernelFits ==
    ASSUME size \in [Names -> Sizes], Octets(size[KernelName]) <= MapLen
    PROVE  size[KernelName] <= SectorCnt + 8
<1>1. PICK k \in Nat, o \in Nat : k = size[KernelName] /\ o = Octets(k) /\ o <= MapLen
  BY KernelSize
<1>2. k <= o * 8
  <2>1. 8 \in Nat \ {0} /\ o = Up(k, 8)
    BY <1>1 DEF Octets
  <2> QED BY <2>1, UpCovers
<1> QED BY <1>1, <1>2, MapSize, Sizes1

\* A sector that is not written keeps what fills it.
\* Writing cnt sectors from s on leaves a sector outside them as it is.
Outside(x, s, cnt) == x \in Sectors /\ x \notin s .. s + cnt - 1
Kept(d, e, x) == \A f : d[x] = Uniform(f) => e[x] = Uniform(f)

LEMMA PokeSector ==
    ASSUME NEW d, NEW s \in Nat, NEW w, NEW cnt \in Nat, Block(w, cnt), NEW x, Outside(x, s, cnt)
    PROVE  Kept(d, Poke(d, s, w), x)
<1>0. x \in Sectors /\ x \notin s .. s + cnt - 1
  BY DEF Outside
<1>1. \A b \in Byte : Poke(d, s, w)[x][b] = d[x][b]
  BY <1>0, PokeOther
<1>2. Poke(d, s, w)[x] = [b \in Byte |-> Poke(d, s, w)[x][b]]
  BY <1>0 DEF Poke
<1> QED BY <1>1, <1>2 DEF Uniform, Kept

LEMMA ZerosBlock == Block(Zeros(RootLen * InodeBytes), AreaSectors)
<1>1. PICK len \in Nat : len = RootLen * InodeBytes /\ len <= AreaSectors * SectorBytes
  BY PerSectorSize, AreaSize, Sizes1
<1> QED BY <1>1 DEF Block, Zeros

\* A write below the data area, or below the directory.
LEMMA PokeData ==
    ASSUME NEW d, NEW s \in Nat, NEW w, NEW cnt \in Nat, Block(w, cnt), s + cnt <= DataArea,
           NEW n \in Nat, n <= SectorCnt + 8, DataWritten(d, n)
    PROVE  DataWritten(Poke(d, s, w), n)
<1> SUFFICES ASSUME NEW i \in 1 .. n PROVE Poke(d, s, w)[DataArea + i - 1] = Uniform(<<KernelName, i>>)
  BY DEF DataWritten
<1>1. d[DataArea + i - 1] = Uniform(<<KernelName, i>>)
  BY DEF DataWritten
<1>2. PICK x : x = DataArea + i - 1
  OBVIOUS
<1>3. x \in Sectors
  <2>1. Sectors = 0 .. DataArea + SectorCnt + 7 /\ DataArea \in Nat /\ SectorCnt \in Nat
    BY SectorRange, Areas, Sizes1
  <2>2. x \in 0 .. DataArea + SectorCnt + 7
    BY <1>2, <2>1
  <2> QED BY <2>1, <2>2
<1>4. x \notin s .. s + cnt - 1
  <2>1. DataArea \in Nat
    BY Areas
  <2> QED BY <1>2, <2>1
<1>5. PICK f : f = <<KernelName, i>>
  OBVIOUS
<1>6. d[x] = Uniform(f)
  BY <1>1, <1>2, <1>5
<1>7. Poke(d, s, w)[x] = Uniform(f)
  <2>1. Outside(x, s, cnt)
    BY <1>3, <1>4 DEF Outside
  <2>2. Kept(d, Poke(d, s, w), x)
    BY <2>1, PokeSector, Zenon
  <2> QED BY <1>6, <2>2, Zenon DEF Kept
<1> QED BY <1>2, <1>5, <1>7

LEMMA NoFilesIs ==
    ASSUME NEW d PROVE NoFiles(d) <=> \A x \in RootArea .. RootArea + AreaSectors - 1 : Empty(d[x])
<1>1. superblock.root_start = RootArea /\ superblock.root_sectors = AreaSectors
  BY Areas DEF RootArea
<1> QED BY <1>1 DEF NoFiles, Empty

LEMMA PokeRoot ==
    ASSUME NEW d, NEW s \in Nat, NEW w, NEW cnt \in Nat, Block(w, cnt), s + cnt <= RootArea
    PROVE  /\ NoFiles(d) => NoFiles(Poke(d, s, w))
           /\ Holds(d, RootArea, Zeros(RootLen * InodeBytes)) =>
                Holds(Poke(d, s, w), RootArea, Zeros(RootLen * InodeBytes))
<1>0. RootArea \in Nat /\ AreaSectors \in Nat /\ RootArea .. RootArea + AreaSectors - 1 \subseteq Sectors
  BY Areas, AreaSize, AreasInSectors
<1>1. ASSUME NoFiles(d) PROVE NoFiles(Poke(d, s, w))
  <2> SUFFICES ASSUME NEW x \in RootArea .. RootArea + AreaSectors - 1 PROVE Empty(Poke(d, s, w)[x])
    BY NoFilesIs
  <2>1. Empty(d[x])
    BY <1>1, NoFilesIs
  <2>2. \A b \in Byte : Poke(d, s, w)[x][b] = d[x][b]
    BY <1>0, PokeOther
  <2> QED BY <2>1, <2>2 DEF Empty
<1>2. Agree(d, Poke(d, s, w), RootArea, AreaSectors)
  BY <1>0, PokeAgree
<1>3. ASSUME Holds(d, RootArea, Zeros(RootLen * InodeBytes))
      PROVE  Holds(Poke(d, s, w), RootArea, Zeros(RootLen * InodeBytes))
  BY <1>0, <1>2, <1>3, ZerosBlock, AgreeHolds
<1> QED BY <1>1, <1>3

-----------------------------------------------------------------------------
(* What find_file_in_root finds.                                            *)

LEMMA EntryFacts ==
    /\ NoEntry \in Entries /\ [num |-> 1, name |-> KernelName] \in Entries /\ Stored(Entries)
    /\ NoEntry # NULL /\ [num |-> 1, name |-> KernelName] # NULL
<1>1. 0 \in 0 .. MaxInodes - 1 /\ 1 \in 0 .. MaxInodes - 1
  BY SectorRange, Sizes1
<1>2. NoEntry \in Entries /\ [num |-> 1, name |-> KernelName] \in Entries
  BY <1>1, NameAssumption DEF Entries, NoEntry
<1>3. Stored(Entries)
  BY ByteAssumption, Zenon
<1> QED BY <1>2, <1>3 DEF Stored

\* The kernel's name ends differently from an unused entry and from junk.
LEMMA StrcmpNo ==
    ASSUME NEW e, e \in {NoEntry, NULL}, NEW next PROVE ~ strcmp_equal(KernelName, e, next)
<1> DEFINE n == Len(KernelName)
           s == Append(KernelName, NUL)
           c == IF next # NULL /\ next.num = 0 THEN NUL ELSE One
           t == IF e = NULL THEN [i \in 1 .. n + 1 |-> Junk] ELSE Append(e.name, c)
           P(i) == (\A j \in 1 .. i - 1 : s[j] = t[j]) /\ (s[i] # t[i] \/ i = n)
           p == CHOOSE i \in 1 .. n : P(i)
<1>1. strcmp_equal(KernelName, e, next) <=> s[p + 1] = t[p + 1]
  BY Zenon DEF strcmp_equal
<1>2. n \in Nat /\ n > 1 /\ KernelName \in Seq(STRING)
  BY NameAssumption
<1>3. s[1] = KernelName[1] /\ s[2] = KernelName[2]
  BY <1>2
<1>4. s[1] \notin {NUL, Junk} /\ s[2] \notin {NUL, Junk}
  BY <1>2, <1>3, NameAssumption
<1>5. t[1] \in {NUL, Junk} /\ t[2] \in {NUL, Junk}
  <2> HIDE DEF c
  <2>1. CASE e = NULL
    BY <1>2, <2>1
  <2>2. CASE e # NULL
    <3>1. t = Append([i \in 1 .. n |-> NUL], c)
      BY <1>2, <2>2 DEF NoEntry
    <3>2. [i \in 1 .. n |-> NUL] \in Seq({NUL})
      BY <1>2
    <3> HIDE DEF t
    <3>3. t[1] = NUL /\ t[2] = NUL
      BY <1>2, <3>1, <3>2
    <3> QED BY <3>3
  <2> QED BY <2>1, <2>2
<1> HIDE DEF s, t
<1>6. p = 1
  <2>1. s[1] # t[1]
    BY <1>4, <1>5
  <2>2. \E i \in 1 .. n : P(i)
    BY <1>2, <2>1
  <2>3. p \in 1 .. n /\ P(p)
    <3> HIDE DEF P
    <3> QED BY <2>2, Zenon
  <2> HIDE DEF p
  <2> QED BY <2>1, <2>3
<1> HIDE DEF p
<1> QED BY <1>1, <1>4, <1>5, <1>6

\* The kernel's entry is equal if the next one is not in use.
LEMMA StrcmpYes == strcmp_equal(KernelName, [num |-> 1, name |-> KernelName], NoEntry)
<1>1. NoEntry # NULL /\ NoEntry.num = 0 /\ [num |-> 1, name |-> KernelName] # NULL
  BY EntryFacts DEF NoEntry
<1>2. [num |-> 1, name |-> KernelName].name = KernelName
  OBVIOUS
<1> QED BY <1>1, <1>2, Zenon DEF strcmp_equal

LEMMA RootRead ==
    ASSUME disk[1] = SuperSector
    PROVE  /\ sb = superblock
           /\ \A i \in 0 .. MaxInodes :
                root_area[i] = IF i < (AreaSectors - 3) * PerSector THEN Struct(disk, RootArea, i, NoEntry)
                               ELSE NoEntry
<1>1. sb = superblock
  BY SectorRange DEF sb, SuperSector
<1> QED BY <1>1, Areas DEF root_area, RootArea, PerSector

\* The part of the directory that is read is not longer than the directory.
LEMMA ReadLess ==
    /\ (AreaSectors - 3) * PerSector \in Nat \ {0}
    /\ (AreaSectors - 3) * PerSector <= RootLen /\ RootLen = AreaSectors * PerSector
<1>1. PICK a \in Nat, p \in Nat \ {0} : a = AreaSectors /\ p = PerSector /\ a > 3
  BY AreaSize, PerSectorSize
<1>2. (a - 3) * p >= 1 /\ (a - 3) * p \in Nat /\ (a - 3) * p <= a * p
  BY <1>1
<1> QED BY <1>1, <1>2 DEF RootLen, PerSector

LEMMA LoadNone == ASSUME disk[1] = SuperSector, NoFiles(disk) PROVE Matches = {}
<1>1. ASSUME NEW i \in 0 .. MaxInodes PROVE root_area[i] \in {NoEntry, NULL}
  <2>1. CASE i < (AreaSectors - 3) * PerSector
    <3>1. i \in 0 .. AreaSectors * PerSector - 1
      BY <2>1, ReadLess, Sizes1
    <3>2. \A x \in RootArea .. RootArea + AreaSectors - 1 : Empty(disk[x])
      BY NoFilesIs
    <3>3. Struct(disk, RootArea, i, NoEntry) \in {NoEntry, NULL}
      BY <3>1, <3>2, StructEmpty, Areas, AreaSize
    <3> QED BY <2>1, <3>3, RootRead
  <2>2. CASE ~ (i < (AreaSectors - 3) * PerSector)
    BY <2>2, RootRead
  <2> QED BY <2>1, <2>2
<1>2. ASSUME NEW i \in 0 .. MaxInodes - 1 PROVE ~ strcmp_equal(KernelName, root_area[i], root_area[i + 1])
  <2>1. i \in 0 .. MaxInodes
    BY Sizes1
  <2>2. root_area[i] \in {NoEntry, NULL}
    BY <1>1, <2>1
  <2> QED BY <2>2, StrcmpNo
<1> QED BY <1>2, Zenon DEF Matches

LEMMA KernelLists ==
    ASSUME size \in [Names -> Sizes]
    PROVE  /\ ListOf(KernelInodes, MaxInodes, Inodes) /\ ListOf(KernelRoot, RootLen, Entries)
           /\ KernelInodes[0] = RootInode /\ KernelInodes[1] = KernelInode /\ KernelInode # NULL
           /\ KernelRoot[0] = [num |-> 1, name |-> KernelName]
           /\ \A i \in 1 .. RootLen - 1 : KernelRoot[i] = NoEntry
           /\ DOMAIN KernelMap = 0 .. MapLen - 1
           /\ DOMAIN KernelInodeMap = 0 .. MaxInodes - 1 /\ KernelInodeMap[0] = One
<1>1. MaxInodes \in Nat \ {0} /\ MaxInodes > 3 /\ RootLen \in Nat \ {0}
  BY Sizes1, SectorRange, RootDomain
<1>2. KernelInode \in Inodes
  <2>1. DataArea \in Sectors
    BY SectorRange, Areas, Sizes1
  <2> QED BY <2>1, KernelSize DEF KernelInode, Inodes
<1>3. DOMAIN KernelInodes = 0 .. MaxInodes - 1 /\ KernelInodes[0] = RootInode /\ KernelInodes[1] = KernelInode
  BY <1>1 DEF KernelInodes, FreshInodes
<1>4. \A i \in 0 .. MaxInodes - 1 : KernelInodes[i] \in Inodes
  BY <1>1, <1>2, RootUsed DEF KernelInodes, FreshInodes
<1>5. KernelInode # NULL
  BY <1>2, RootUsed DEF Stored
<1>6. DOMAIN KernelRoot = 0 .. RootLen - 1 /\ (\A i \in 0 .. RootLen - 1 : KernelRoot[i] \in Entries)
      /\ KernelRoot[0] = [num |-> 1, name |-> KernelName]
      /\ \A i \in 1 .. RootLen - 1 : KernelRoot[i] = NoEntry
  BY <1>1, EntryFacts DEF KernelRoot
<1>7. DOMAIN KernelMap = 0 .. MapLen - 1 /\ DOMAIN KernelInodeMap = 0 .. MaxInodes - 1 /\ KernelInodeMap[0] = One
  BY <1>1 DEF KernelMap, KernelInodeMap, FreshInodeMap
<1> QED BY <1>1, <1>3, <1>4, <1>5, <1>6, <1>7, RootUsed, EntryFacts DEF ListOf

LEMMA KernelRead ==
    ASSUME size \in [Names -> Sizes], NEW d, HasKernel(d)
    PROVE  /\ Struct(d, InodeArea, 1, NoInode) = KernelInode
           /\ Struct(d, RootArea, 0, NoEntry) = [num |-> 1, name |-> KernelName]
           /\ \A i \in 1 .. RootLen - 1 : Struct(d, RootArea, i, NoEntry) = NoEntry
<1>1. InodeArea \in Nat /\ RootArea \in Nat /\ 1 \in 0 .. MaxInodes - 1 /\ RootLen \in Nat \ {0}
  BY Areas, Sizes1, SectorRange, RootDomain
<1>2. Holds(d, InodeArea, Bytes(KernelInodes, NoInode)) /\ Holds(d, RootArea, Bytes(KernelRoot, NoEntry))
  BY DEF HasKernel
<1>3. \A i \in 0 .. MaxInodes - 1 : Struct(d, InodeArea, i, NoInode) = KernelInodes[i]
  BY <1>1, <1>2, KernelLists, StructsHeld
<1>4. \A i \in 0 .. RootLen - 1 : Struct(d, RootArea, i, NoEntry) = KernelRoot[i]
  BY <1>1, <1>2, KernelLists, StructsHeld
<1> QED BY <1>1, <1>3, <1>4, KernelLists

\* The kernel that is on the disk is found, and its sectors are loaded.
LEMMA LoadFound ==
    ASSUME size \in [Names -> Sizes], disk[1] = SuperSector, HasKernel(disk)
    PROVE  /\ Matches # {}
           /\ loader_kernel => mem' = Content(KernelName)
<1>1. MaxInodes \in Nat /\ MaxInodes > 3 /\ RootLen \in Nat
  BY Sizes1, SectorRange, RootDomain
<1>2. root_area[0] = [num |-> 1, name |-> KernelName]
  <2>1. 0 \in 0 .. MaxInodes /\ 0 < (AreaSectors - 3) * PerSector
    BY <1>1, ReadLess
  <2> QED BY <2>1, RootRead, KernelRead
<1>3. root_area[1] = NoEntry
  <2>1. 1 \in 0 .. MaxInodes
    BY <1>1
  <2>2. 1 < (AreaSectors - 3) * PerSector => 1 \in 1 .. RootLen - 1
    BY <1>1, ReadLess
  <2> QED BY <2>1, <2>2, RootRead, KernelRead
<1>4. 0 \in Matches
  <2>1. strcmp_equal(KernelName, root_area[0], root_area[0 + 1])
    BY <1>2, <1>3, StrcmpYes
  <2> QED BY <1>1, <2>1 DEF Matches
<1>5. Least(Matches) = 0
  <2>1. Matches \subseteq Nat /\ \A y \in Matches : 0 <= y
    BY <1>1 DEF Matches
  <2> QED BY <1>4, <2>1, LeastIs
<1>6. ASSUME loader_kernel PROVE mem' = Content(KernelName)
  <2>1. PICK inode, file :
          /\ inode = Struct(disk, sb.inode_array_start, root_area[0].num, NoInode)
          /\ file = IF inode = NULL THEN NoInode ELSE inode
          /\ mem' = [i \in 1 .. file.cnt |-> disk[file.start + i - 1]]
    BY <1>5, <1>6, Zenon DEF loader_kernel
  <2>2. root_area[0].num = 1 /\ sb.inode_array_start = InodeArea
    BY <1>2, RootRead DEF InodeArea
  <2>3. inode = KernelInode /\ file = KernelInode
    BY <2>1, <2>2, KernelRead, KernelLists
  <2>4. mem' = [i \in 1 .. size[KernelName] |-> disk[DataArea + i - 1]]
    BY <2>1, <2>3 DEF KernelInode
  <2>5. \A i \in 1 .. size[KernelName] : disk[DataArea + i - 1] = Uniform(<<KernelName, i>>)
    BY DEF HasKernel, DataWritten
  <2> QED BY <2>4, <2>5 DEF Content, Uniform
<1> QED BY <1>4, <1>6

LEMMA ImageParts ==
    ASSUME size' = size,
           tool' # NULL => ~ installed' /\ Copy(tool', disk'),
           installed' => master' # NULL /\ tool' = NULL /\ HasKernel(disk'),
           ~ installed' => NoFiles(disk') \/ master' = NULL,
           disk'[1] = SuperSector \/ ~has_magic(disk'),
           pc' = "load" => disk'[1] = SuperSector,
           pc' = "kernel" => mem' = Content(KernelName) \/ (master' = NULL /\ ~NoFiles(disk')),
           pc' = "panic" => ~ installed'
    PROVE  ImageInv'
<1>1. /\ KernelInodes' = KernelInodes /\ KernelMap' = KernelMap /\ Content(KernelName)' = Content(KernelName)
  BY DEF KernelInodes, KernelMap, KernelInode, Content
<1>2. Copy(tool', disk') => Copy(tool, disk)'
  BY <1>1, Zenon DEF Copy
<1>3. HasKernel(disk') => HasKernel(disk)'
  BY <1>1, Zenon DEF HasKernel
<1>4. Booting'
  BY <1>1, Zenon DEF Booting, WholeKernel
<1> QED BY <1>2, <1>3, <1>4, Zenon DEF ImageInv

LEMMA FreshNoFiles == ASSUME NEW d, Fresh(d) PROVE NoFiles(d)
<1> SUFFICES ASSUME NEW x \in RootArea .. RootArea + AreaSectors - 1 PROVE Empty(d[x])
  BY NoFilesIs
<1>1. PICK i \in 1 .. AreaSectors : x = RootArea + i - 1
  <2>1. x - RootArea + 1 \in 1 .. AreaSectors /\ x = RootArea + (x - RootArea + 1) - 1
    BY Areas, AreaSize
  <2> QED BY <2>1
<1>2. d[x] = Blank
  BY <1>1 DEF Fresh
<1> QED BY <1>2 DEF Empty, Blank

\* make install begins with the image as make_fs left it.
LEMMA ImageInstall ==
    ASSUME WholeMap, TypeInv, FreshInv, ImageInv, install PROVE ImageInv'
<1>1. /\ master # NULL /\ pc = "off" /\ pc' = "off" /\ disk' = master /\ size' = size /\ installed' = FALSE
      /\ tool' = NULL \/ (~ Aborts(master, KernelName) /\ tool' = cp_file(master, KernelName))
  BY DEF install, start
<1>2. Fresh(master) /\ size \in [Names -> Sizes]
  BY <1>1, TypeParts DEF FreshInv
<1>3. NoFiles(master)
  BY <1>2, FreshNoFiles
<1>4. ASSUME tool' # NULL PROVE Copy(tool', master)
  <2>1. /\ tool' = ToolOf(1, KernelName, 1, 0, 0, KernelInodes, KernelInodeMap, KernelMap)
        /\ Octets(size[KernelName]) <= MapLen
    BY <1>1, <1>2, <1>4, FreshStart
  <2>2. /\ tool'.todo = 1 /\ tool'.file = KernelName /\ tool'.num = 1 /\ tool'.at = 0 /\ tool'.done = 0
        /\ tool'.inodes = KernelInodes /\ tool'.inode_map = KernelInodeMap /\ tool'.sector_map = KernelMap
    BY <2>1 DEF ToolOf
  <2>3. 0 \in 0 .. size[KernelName] /\ DataWritten(master, 0)
    BY <1>2, KernelSize DEF DataWritten
  <2>4. Holds(master, RootArea, Zeros(RootLen * InodeBytes))
    BY <1>2 DEF Fresh
  <2> QED BY <2>1, <2>2, <2>3, <2>4 DEF Copy
<1>5. master[1] = SuperSector
  BY <1>2 DEF Fresh
<1> QED BY <1>1, <1>3, <1>4, <1>5, ImageParts

\* A second run does not copy the kernel again.
LEMMA KernelThere ==
    ASSUME size \in [Names -> Sizes], NEW d, Layout(d), HasKernel(d) PROVE Aborts(d, KernelName)
<1>1. 0 \in DOMAIN Root(d, RootInode)
  BY RootDomain
<1>2. Root(d, RootInode)[0] = Struct(d, RootArea, 0, NoEntry)
  BY <1>1, RootUsed DEF Root
<1>3. Root(d, RootInode)[0] # NULL /\ Root(d, RootInode)[0].name = KernelName
  BY <1>2, KernelRead, EntryFacts
<1>4. get_inode_array(d)[0] = RootInode
  BY LayoutRead
<1> QED BY <1>1, <1>3, <1>4, Zenon DEF Aborts

LEMMA ImageRun ==
    ASSUME ~ Reuse, TypeInv, LayoutInv, ImageInv, NEW f \in Names, run(f) PROVE ImageInv'
<1>1. /\ master # NULL /\ installed /\ f = KernelName /\ pc = "off" /\ disk' = disk
      /\ UNCHANGED <<master, size, pc, mem, installed>>
      /\ tool' = IF Aborts(disk, KernelName) THEN NULL ELSE cp_file(disk, KernelName)
  BY DEF run, start
<1>2. HasKernel(disk) /\ Layout(disk) /\ size \in [Names -> Sizes]
  BY <1>1, TypeParts DEF ImageInv, LayoutInv
<1>3. tool' = NULL
  BY <1>1, <1>2, KernelThere
<1>4. disk[1] = SuperSector
  BY <1>2 DEF Layout
<1> QED BY <1>1, <1>2, <1>3, <1>4, ImageParts

\* The sectors of the file lie in the data area.
LEMMA ImageData ==
    ASSUME TypeInv, LayoutInv, ImageInv, write_data PROVE ImageInv'
<1>1. /\ tool # NULL /\ IsTool(tool) /\ UNCHANGED <<master, size, pc, mem, installed>> /\ IsDisk(disk)
      /\ disk' = [disk EXCEPT ![sb.first_data_sector + tool.at + tool.done] = Content(tool.file)[tool.done + 1]]
      /\ size \in [Names -> Sizes]
  BY TypeParts, Zenon DEF write_data
<1>2. Copy(tool, disk) /\ ~ installed /\ NoFiles(disk) /\ Layout(disk) /\ pc = "off" /\ master # NULL
  BY <1>1 DEF ImageInv, LayoutInv
<1>3. /\ tool.todo = 1 /\ tool.done < size[tool.file] /\ tool'.todo = 1 /\ tool'.file = tool.file
      /\ tool'.num = tool.num /\ tool'.at = tool.at /\ tool'.done = tool.done + 1
      /\ tool'.inodes = tool.inodes /\ tool'.inode_map = tool.inode_map
      /\ tool'.sector_map = tool.sector_map
  BY <1>1, ToolStep, Zenon
<1>4. PICK k \in Nat : k = tool.done /\ k < size[KernelName] /\ k + 1 \in 1 .. size[KernelName]
  BY <1>1, <1>2, <1>3, KernelSize DEF Copy, IsTool
<1>5. size[KernelName] <= SectorCnt + 8 /\ size[KernelName] \in Nat
  BY <1>1, <1>2, KernelFits, KernelSize DEF Copy
<1>6. PICK y \in Sectors : y = DataArea + k /\ y \notin RootArea .. RootArea + AreaSectors - 1 /\ y # 1
  BY <1>4, <1>5, SectorRange, Areas, AreaSize, Sizes1
<1>7. disk' = [disk EXCEPT ![y] = Uniform(<<KernelName, k + 1>>)]
  <2>1. sb = superblock
    BY <1>2, LayoutRead DEF sb, Sb
  <2>2. sb.first_data_sector + tool.at + tool.done = y
    BY <1>2, <1>4, <1>6, <2>1, Areas DEF Copy, DataArea
  <2>3. Content(tool.file)[tool.done + 1] = Uniform(<<KernelName, k + 1>>)
    BY <1>2, <1>4 DEF Copy, Content, Uniform
  <2> QED BY <1>1, <2>2, <2>3
<1>8. DOMAIN disk = Sectors
  BY <1>1 DEF IsDisk
<1>9. DataWritten(disk', k + 1)
  <2> SUFFICES ASSUME NEW i \in 1 .. k + 1 PROVE disk'[DataArea + i - 1] = Uniform(<<KernelName, i>>)
    BY DEF DataWritten
  <2>1. CASE i = k + 1
    BY <1>6, <1>7, <1>8, <2>1, Areas
  <2>2. CASE i # k + 1
    <3>0. PICK a \in Nat, c \in Nat, z \in Nat :
            /\ a = DataArea /\ c = SectorCnt /\ z = size[KernelName] /\ z <= c + 8
            /\ Sectors = 0 .. a + c + 7 /\ y = a + k /\ k < z
      BY <1>4, <1>5, <1>6, SectorRange, Areas, Sizes1
    <3>1. i \in 1 .. k /\ DataArea + i - 1 # y /\ DataArea + i - 1 \in Sectors
      BY <2>2, <3>0
    <3>2. disk[DataArea + i - 1] = Uniform(<<KernelName, i>>)
      BY <1>2, <1>4, <3>1 DEF Copy, DataWritten
    <3> QED BY <1>7, <1>8, <3>1, <3>2
  <2> QED BY <2>1, <2>2
<1>10. NoFiles(disk') /\ disk'[1] = SuperSector
  <2>1. \A x \in Sectors : x # y => disk'[x] = disk[x]
    BY <1>7, <1>8
  <2>2. disk[1] = SuperSector
    BY <1>2 DEF Layout
  <2>3. \A x \in RootArea .. RootArea + AreaSectors - 1 : disk'[x] = disk[x]
    BY <1>6, <2>1, AreasInSectors
  <2> QED BY <1>2, <1>6, <2>1, <2>2, <2>3, AreasInSectors, NoFilesIs
<1>11. Holds(disk', RootArea, Zeros(RootLen * InodeBytes))
  <2>1. RootArea \in Nat /\ AreaSectors \in Nat /\ RootArea .. RootArea + AreaSectors - 1 \subseteq Sectors
    BY Areas, AreaSize, AreasInSectors
  <2>2. Agree(disk, disk', RootArea, AreaSectors)
    BY <1>6, <1>7, <1>8, <2>1, SectorAgree
  <2>3. Holds(disk, RootArea, Zeros(RootLen * InodeBytes))
    BY <1>2 DEF Copy
  <2> QED BY <2>1, <2>2, <2>3, ZerosBlock, AgreeHolds
<1>12. Copy(tool', disk')
  BY <1>2, <1>3, <1>4, <1>9, <1>11 DEF Copy
<1> QED BY <1>1, <1>2, <1>10, <1>12, ImageParts

\* The end of one kind of write that is not the last.
LEMMA ImageWrite ==
    ASSUME TypeInv, LayoutInv, ImageInv, NEW area, write(area), area # "root", installed' = installed,
           NoFiles(disk'), disk'[1] = SuperSector, DataWritten(disk', tool.done),
           Holds(disk', RootArea, Zeros(RootLen * InodeBytes)),
           tool.todo = 1 => tool.done = size[KernelName],
           tool.todo > 1 => Holds(disk', InodeArea, Bytes(KernelInodes, NoInode)),
           tool.todo > 3 => Holds(disk', MapArea, KernelMap)
    PROVE  ImageInv'
<1>1. tool # NULL /\ IsTool(tool) /\ UNCHANGED <<master, size, pc, mem>> /\ Order[tool.todo] = area
  BY TypeParts, Zenon DEF write
<1>2. Copy(tool, disk) /\ ~ installed /\ pc = "off"
  BY <1>1 DEF ImageInv, LayoutInv
<1>3. /\ tool.todo \in 1 .. 4 /\ tool'.todo = tool.todo + 1 /\ tool'.file = tool.file
      /\ tool'.num = tool.num /\ tool'.at = tool.at /\ tool'.done = tool.done
      /\ tool'.inodes = tool.inodes /\ tool'.inode_map = tool.inode_map
      /\ tool'.sector_map = tool.sector_map
  <2>1. tool.todo # 5
    BY <1>1, OrderFacts
  <2> QED BY <1>1, <2>1, ToolStep, Zenon
<1>4. Copy(tool', disk')
  BY <1>2, <1>3 DEF Copy
<1> QED BY <1>1, <1>2, <1>4, ImageParts

\* What a write below the directory does not touch.
LEMMA ImagePoke ==
    ASSUME TypeInv, LayoutInv, ImageInv, tool # NULL,
           NEW s \in Nat, NEW w, NEW cnt \in Nat, Block(w, cnt), s > 1, s + cnt <= RootArea,
           disk' = Poke(disk, s, w)
    PROVE  /\ NoFiles(disk') /\ disk'[1] = SuperSector /\ DataWritten(disk', tool.done)
           /\ Holds(disk', RootArea, Zeros(RootLen * InodeBytes))
<1>1. Copy(tool, disk) /\ NoFiles(disk) /\ Layout(disk) /\ size \in [Names -> Sizes]
  BY TypeParts DEF ImageInv, LayoutInv
<1>2. PICK n \in Nat : n = tool.done /\ n <= SectorCnt + 8 /\ DataWritten(disk, n)
  <2>1. tool.done \in 0 .. size[KernelName] /\ size[KernelName] \in Nat /\ size[KernelName] <= SectorCnt + 8
    BY <1>1, KernelFits, KernelSize DEF Copy
  <2> QED BY <1>1, <2>1, Sizes1 DEF Copy
<1>3. s + cnt <= DataArea
  BY Areas, AreaSize
<1>4. DataWritten(disk', n)
  BY <1>2, <1>3, PokeData
<1>5. disk[1] = SuperSector /\ Holds(disk, RootArea, Zeros(RootLen * InodeBytes))
  BY <1>1 DEF Layout, Copy
<1>6. disk'[1] = SuperSector
  BY <1>5, PokeSuper
<1>7. NoFiles(disk') /\ Holds(disk', RootArea, Zeros(RootLen * InodeBytes))
  BY <1>1, <1>5, PokeRoot
<1> QED BY <1>2, <1>4, <1>6, <1>7

\* The three lists.
LEMMA ImageLists ==
    ASSUME WholeMap, TypeInv, LayoutInv, ImageInv,
           write_inode_array \/ write_inode_map \/ write_sector_map
    PROVE  ImageInv'
<1>0. /\ tool # NULL /\ IsTool(tool) /\ installed' = installed /\ size \in [Names -> Sizes]
      /\ InodeArea \in Nat /\ MapArea \in Nat /\ AreaSectors \in Nat /\ MapSectors \in Nat
      /\ InodeArea > 2 /\ InodeArea + AreaSectors <= RootArea /\ MapArea = 3 /\ InodeArea = MapArea + MapSectors
  <2>1. /\ InodeArea \in Nat /\ MapArea \in Nat /\ AreaSectors \in Nat /\ MapSectors \in Nat
        /\ InodeArea > 2 /\ InodeArea + AreaSectors <= RootArea /\ MapArea = 3 /\ InodeArea = MapArea + MapSectors
    BY Areas, AreaSize
  <2>2. tool # NULL /\ IsTool(tool) /\ installed' = installed /\ size \in [Names -> Sizes]
    BY TypeParts DEF write_inode_array, write_inode_map, write_sector_map, write
  <2> QED BY <2>1, <2>2
<1>1. Copy(tool, disk) /\ Layout(disk) /\ tool.todo \in 1 .. 5
  BY <1>0, OrderFacts DEF ImageInv, LayoutInv, IsTool
<1>2. sb = superblock
  BY <1>1, LayoutRead DEF sb, Sb
<1>3. DOMAIN KernelInodes = 0 .. MaxInodes - 1 /\ KernelInodes[0] = RootInode
  BY <1>0, KernelLists DEF ListOf
<1>4. /\ InodeArea .. InodeArea + AreaSectors - 1 \subseteq Sectors
      /\ MapArea .. MapArea + MapSectors - 1 \subseteq Sectors
  BY AreasInSectors
<1>5. Block(Bytes(KernelInodes, NoInode), AreaSectors)
  BY <1>1, <1>3, InodesPoke
<1>6. CASE write_inode_array
  <2>1. write("inodes") /\ disk' = Poke(disk, InodeArea, Bytes(KernelInodes, NoInode))
    BY <1>1, <1>2, <1>6 DEF write_inode_array, Copy, InodeArea
  <2>2. tool.todo = 2
    BY <1>1, <2>1, OrderFacts DEF write
  <2>3. Holds(disk', InodeArea, Bytes(KernelInodes, NoInode))
    BY <1>1, <1>3, <2>1, InodesPoke
  <2>4. /\ NoFiles(disk') /\ disk'[1] = SuperSector /\ DataWritten(disk', tool.done)
        /\ Holds(disk', RootArea, Zeros(RootLen * InodeBytes))
    BY <1>0, <1>5, <2>1, ImagePoke
  <2> QED BY <1>0, <2>1, <2>2, <2>3, <2>4, ImageWrite
<1>7. CASE write_inode_map
  <2>1. write("inode_map") /\ disk' = Poke(disk, 2, KernelInodeMap)
    BY <1>1, <1>2, <1>7, Areas DEF write_inode_map, Copy
  <2>2. tool.todo = 3
    BY <1>1, <2>1, OrderFacts DEF write
  <2>3. Block(KernelInodeMap, 1)
    BY <1>0, <1>1, KernelLists, InodeMapPoke
  <2>4. 2 \in Nat /\ 1 \in Nat /\ 2 > 1 /\ 2 + 1 <= RootArea /\ (InodeArea + AreaSectors <= 2 \/ 2 + 1 <= InodeArea)
    BY <1>0, Areas
  <2>5. /\ NoFiles(disk') /\ disk'[1] = SuperSector /\ DataWritten(disk', tool.done)
        /\ Holds(disk', RootArea, Zeros(RootLen * InodeBytes))
    BY <1>0, <2>1, <2>3, <2>4, ImagePoke
  <2>6. Agree(disk, disk', InodeArea, AreaSectors)
    BY <1>0, <1>4, <2>1, <2>3, <2>4, PokeAgree
  <2>7. Holds(disk, InodeArea, Bytes(KernelInodes, NoInode))
    BY <1>1, <2>2 DEF Copy
  <2>8. Holds(disk', InodeArea, Bytes(KernelInodes, NoInode))
    BY <1>0, <1>5, <2>6, <2>7, AgreeHolds
  <2> QED BY <1>0, <2>1, <2>2, <2>5, <2>8, ImageWrite
<1>8. CASE write_sector_map
  <2>1. write("sector_map") /\ disk' = Poke(disk, MapArea, KernelMap)
    BY <1>1, <1>2, <1>8 DEF write_sector_map, Copy, MapArea
  <2>2. tool.todo = 4
    BY <1>1, <2>1, OrderFacts DEF write
  <2>3. Block(KernelMap, MapSectors)
    BY <1>0, KernelLists, MapSize DEF Block
  <2>4. /\ MapArea > 1 /\ MapArea + MapSectors <= RootArea
        /\ InodeArea + AreaSectors <= MapArea \/ MapArea + MapSectors <= InodeArea
    BY <1>0, Areas
  <2>5. /\ NoFiles(disk') /\ disk'[1] = SuperSector /\ DataWritten(disk', tool.done)
        /\ Holds(disk', RootArea, Zeros(RootLen * InodeBytes))
    BY <1>0, <2>1, <2>3, <2>4, ImagePoke
  <2>6. Agree(disk, disk', InodeArea, AreaSectors)
    BY <1>0, <1>4, <2>1, <2>3, <2>4, PokeAgree
  <2>7. Holds(disk, InodeArea, Bytes(KernelInodes, NoInode))
    BY <1>1, <2>2 DEF Copy
  <2>8. Holds(disk', InodeArea, Bytes(KernelInodes, NoInode))
    BY <1>0, <1>5, <2>6, <2>7, AgreeHolds
  <2>9. Holds(disk', MapArea, KernelMap)
    BY <1>0, <1>4, <2>1, <2>3, PokeHolds
  <2> QED BY <1>0, <2>1, <2>2, <2>5, <2>8, <2>9, ImageWrite
<1> QED BY <1>6, <1>7, <1>8

\* The directory entry is the last thing that is written.
LEMMA ImageEntry ==
    ASSUME WholeMap, TypeInv, LayoutInv, ImageInv, write_entry_in_root PROVE ImageInv'
<1>0. /\ tool # NULL /\ IsTool(tool) /\ write("root") /\ size \in [Names -> Sizes]
      /\ UNCHANGED <<master, size, pc, mem>>
  BY TypeParts, Zenon DEF write_entry_in_root, write
<1>1. Copy(tool, disk) /\ Layout(disk) /\ master # NULL /\ pc = "off" /\ tool.todo \in 1 .. 5
  BY <1>0, OrderFacts DEF ImageInv, LayoutInv, IsTool
<1>2. tool.todo = 5 /\ tool' = NULL
  BY <1>0, <1>1, OrderFacts DEF write
<1>3. /\ tool.file = KernelName /\ tool.num = 1 /\ tool.inodes = KernelInodes /\ tool.done = size[KernelName]
      /\ Octets(size[KernelName]) <= MapLen /\ DataWritten(disk, size[KernelName])
      /\ Holds(disk, InodeArea, Bytes(KernelInodes, NoInode)) /\ Holds(disk, MapArea, KernelMap)
      /\ Holds(disk, RootArea, Zeros(RootLen * InodeBytes))
  BY <1>1, <1>2 DEF Copy
<1>4. installed' = TRUE
  BY <1>3 DEF write_entry_in_root
<1>5. PICK root : root = Root(disk, RootInode) /\ DOMAIN root = 0 .. RootLen - 1 /\ RootLen \in Nat \ {0}
  BY RootDomain
<1>6. ASSUME NEW i \in 0 .. RootLen - 1 PROVE root[i] = NoEntry
  <2>1. Struct(disk, RootArea, i, NoEntry) = NoEntry
    BY <1>3, <1>5, Areas, StructZero
  <2> QED BY <1>5, <2>1, RootUsed DEF Root, RootLen
<1>7. PICK slots : /\ slots = {i \in DOMAIN root : root[i] # NULL /\ (root[i].num = 0 \/ root[i].name = tool.file)}
                   /\ disk' = IF slots = {} THEN disk
                              ELSE Poke(disk, RootInode.start,
                                        Bytes([root EXCEPT ![Least(slots)] =
                                                 [num |-> tool.num, name |-> tool.file]], NoEntry))
  <2>1. tool.inodes[0] = RootInode
    BY <1>0, <1>3, KernelLists
  <2> QED BY <1>5, <2>1, Zenon DEF write_entry_in_root
<1>8. Least(slots) = 0 /\ slots # {}
  <2>1. slots = 0 .. RootLen - 1
    BY <1>5, <1>6, <1>7, EntryFacts DEF NoEntry
  <2>2. slots \subseteq Nat /\ 0 \in slots /\ \A y \in slots : 0 <= y
    BY <1>5, <2>1
  <2> QED BY <2>2, LeastIs
<1>9. [root EXCEPT ![0] = [num |-> 1, name |-> KernelName]] = KernelRoot
  <2>1. root = [i \in 0 .. RootLen - 1 |-> root[i]]
    BY <1>5 DEF Root, RootLen, RootInode
  <2> QED BY <1>5, <1>6, <2>1 DEF KernelRoot
<1>10. disk' = Poke(disk, RootArea, Bytes(KernelRoot, NoEntry))
  BY <1>3, <1>7, <1>8, <1>9, RootUsed
<1>11. Block(Bytes(KernelRoot, NoEntry), AreaSectors)
  BY EntriesBlock DEF KernelRoot
<1>12. /\ RootArea \in Nat /\ AreaSectors \in Nat /\ InodeArea \in Nat /\ MapArea \in Nat /\ MapSectors \in Nat
       /\ RootArea .. RootArea + AreaSectors - 1 \subseteq Sectors
       /\ InodeArea .. InodeArea + AreaSectors - 1 \subseteq Sectors
       /\ MapArea .. MapArea + MapSectors - 1 \subseteq Sectors
       /\ RootArea + AreaSectors <= DataArea /\ RootArea > 1
       /\ InodeArea + AreaSectors <= RootArea \/ RootArea + AreaSectors <= InodeArea
       /\ MapArea + MapSectors <= RootArea \/ RootArea + AreaSectors <= MapArea
  BY Areas, AreaSize, AreasInSectors
<1>13. Holds(disk', RootArea, Bytes(KernelRoot, NoEntry))
  BY <1>10, <1>11, <1>12, PokeHolds
<1>14. Holds(disk', InodeArea, Bytes(KernelInodes, NoInode))
  <2>1. Agree(disk, disk', InodeArea, AreaSectors)
    BY <1>10, <1>11, <1>12, PokeAgree
  <2>2. DOMAIN KernelInodes = 0 .. MaxInodes - 1 /\ KernelInodes[0] = RootInode
    BY <1>0, KernelLists DEF ListOf
  <2>3. Block(Bytes(KernelInodes, NoInode), AreaSectors)
    BY <1>1, <2>2, InodesPoke
  <2> QED BY <1>3, <1>12, <2>1, <2>3, AgreeHolds
<1>15. Holds(disk', MapArea, KernelMap)
  <2>1. Agree(disk, disk', MapArea, MapSectors)
    BY <1>10, <1>11, <1>12, PokeAgree
  <2>2. Block(KernelMap, MapSectors)
    BY <1>0, KernelLists, MapSize DEF Block
  <2> QED BY <1>3, <1>12, <2>1, <2>2, AgreeHolds
<1>16. DataWritten(disk', size[KernelName])
  <2>1. size[KernelName] \in Nat /\ size[KernelName] <= SectorCnt + 8
    BY <1>0, <1>3, KernelFits, KernelSize
  <2> QED BY <1>3, <1>10, <1>11, <1>12, <2>1, PokeData
<1>17. disk'[1] = SuperSector
  <2>1. disk[1] = SuperSector
    BY <1>1 DEF Layout
  <2> QED BY <1>10, <1>11, <1>12, <2>1, PokeSuper
<1>18. HasKernel(disk')
  BY <1>3, <1>13, <1>14, <1>15, <1>16 DEF HasKernel
<1> QED BY <1>0, <1>1, <1>2, <1>4, <1>17, <1>18, ImageParts

LEMMA WriteKinds ==
    ASSUME NEW k \in 1 .. Len(make_fs_writes)
    PROVE  make_fs_writes[k][1] = 1 => make_fs_writes[k][2] = SuperSector
<1>1. PICK t, v : t = make_fs_writes[k][1] /\ v = make_fs_writes[k][2]
  OBVIOUS
<1>2. \/ t = 1 /\ v = SuperSector
      \/ t \in InodeArea .. InodeArea + AreaSectors - 1
      \/ t = 2
      \/ t \in MapArea .. MapArea + MapSectors - 1
      \/ t \in RootArea .. RootArea + AreaSectors - 1 /\ v = Blank
  <2>1. CASE make_fs_writes[k] = <<1, SuperSector>>
    BY <1>1, <2>1
  <2>2. CASE \E i \in 1 .. AreaSectors : make_fs_writes[k] = <<InodeArea + i - 1, Blank>>
    BY <1>1, <2>2, Areas, AreaSize
  <2>3. CASE make_fs_writes[k] = <<InodeArea, RootSector>>
    BY <1>1, <2>3, Areas, AreaSize
  <2>4. CASE make_fs_writes[k] = <<2, InodeMapSector>>
    BY <1>1, <2>4
  <2>5. CASE \E i \in 1 .. MapSectors : make_fs_writes[k] = <<MapArea + i - 1, Blank>>
    BY <1>1, <2>5, Areas
  <2>6. CASE \E i \in 1 .. AreaSectors : make_fs_writes[k] = <<RootArea + i - 1, Blank>>
    BY <1>1, <2>6, Areas, AreaSize
  <2> QED BY <2>1, <2>2, <2>3, <2>4, <2>5, <2>6, WriteCases
<1> QED BY <1>1, <1>2, Areas, AreaSize

LEMMA ImageFormat ==
    ASSUME TypeInv, LayoutInv, ImageInv, make_fs PROVE ImageInv'
<1>1. /\ pc = "format" /\ UNCHANGED <<master, size, pc, mem, tool, installed>> /\ step < Len(make_fs_writes)
      /\ IsDisk(disk) /\ step \in 0 .. Len(make_fs_writes)
      /\ disk' = [disk EXCEPT ![make_fs_writes[step + 1][1]] = make_fs_writes[step + 1][2]]
  BY TypeParts DEF make_fs
<1>2. master = NULL /\ tool = NULL /\ ~ installed
  BY <1>1 DEF LayoutInv, ImageInv
<1>3. PICK k \in 1 .. Len(make_fs_writes) : k = step + 1
  BY <1>1, WritesLen
<1>4. PICK t, v : disk' = [disk EXCEPT ![t] = v] /\ DOMAIN disk = Sectors /\ (t = 1 => v = SuperSector)
  BY <1>1, <1>3, WriteKinds DEF IsDisk
<1>5. disk'[1] = SuperSector \/ ~has_magic(disk')
  <2>1. disk[1] = SuperSector \/ ~has_magic(disk)
    BY DEF ImageInv, Booting
  <2> QED BY <1>4, <2>1, AreasInSectors DEF has_magic
<1> QED BY <1>1, <1>2, <1>5, ImageParts

LEMMA ImageNext ==
    ASSUME WholeMap, ~ Reuse, TypeInv, LayoutInv, FreshInv, ImageInv, [Next]_vars PROVE ImageInv'
<1>0. /\ tool # NULL => ~ installed /\ Copy(tool, disk) /\ pc = "off"
      /\ installed => master # NULL /\ tool = NULL /\ HasKernel(disk)
      /\ ~ installed => NoFiles(disk) \/ master = NULL
      /\ disk[1] = SuperSector \/ ~has_magic(disk)
      /\ pc = "load" => disk[1] = SuperSector
      /\ pc = "kernel" => mem = Content(KernelName) \/ (master = NULL /\ ~NoFiles(disk))
      /\ pc = "panic" => ~ installed
      /\ master # NULL => pc # "format"
      /\ size \in [Names -> Sizes]
  BY TypeParts DEF ImageInv, Booting, WholeKernel, LayoutInv
<1>1. CASE boot
  <2>1. /\ UNCHANGED <<disk, master, size, mem, tool, installed>>
        /\ pc' = IF has_magic(disk) THEN "load" ELSE "format"
    BY <1>1 DEF boot
  <2>2. tool = NULL
    BY <1>1 DEF boot
  <2> QED BY <1>0, <2>1, <2>2, ImageParts
<1>2. CASE make_fs
  BY <1>2, ImageFormat
<1>3. CASE make_fs_done
  <2>1. /\ pc = "format" /\ pc' = "complete" /\ installed' = FALSE
        /\ UNCHANGED <<disk, size, mem, tool>>
    BY <1>3 DEF make_fs_done
  <2>2. Written(Len(make_fs_writes))
    BY <1>3 DEF make_fs_done, LayoutInv
  <2>3. NoFiles(disk)
    BY <2>2, FreshDone, FreshNoFiles
  <2> QED BY <1>0, <2>1, <2>3, ImageParts
<1>4. CASE loader_kernel
  <2>1. /\ pc = "load" /\ pc' = "kernel" /\ Matches # {} /\ UNCHANGED <<disk, master, size, tool, installed>>
    BY <1>4 DEF loader_kernel
  <2>2. mem' = Content(KernelName) \/ (master = NULL /\ ~NoFiles(disk))
    BY <1>0, <1>4, <2>1, LoadNone, LoadFound
  <2> QED BY <1>0, <2>1, <2>2, ImageParts
<1>5. CASE loader_panic
  <2>1. /\ pc = "load" /\ pc' = "panic" /\ Matches = {} /\ UNCHANGED <<disk, master, size, mem, tool, installed>>
    BY <1>5 DEF loader_panic
  <2>2. ~ installed
    BY <1>0, <2>1, LoadFound
  <2> QED BY <1>0, <2>1, <2>2, ImageParts
<1>6. CASE reset
  <2>1. pc' = "off" /\ UNCHANGED <<disk, master, size, tool, installed>>
    BY <1>6 DEF reset
  <2> QED BY <1>0, <2>1, ImageParts
<1>7. CASE install
  BY <1>7, ImageInstall
<1>8. ASSUME NEW f \in Names, run(f) PROVE ImageInv'
  BY <1>8, ImageRun
<1>9. CASE write_data
  BY <1>9, ImageData
<1>10. CASE write_data_done
  <2>1. /\ write("data") /\ tool # NULL /\ tool.done = size[tool.file] /\ disk' = disk /\ installed' = installed
    BY <1>10 DEF write_data_done, write
  <2>2. /\ tool.file = KernelName /\ DataWritten(disk', tool.done)
        /\ Holds(disk', RootArea, Zeros(RootLen * InodeBytes)) /\ NoFiles(disk')
    BY <1>0, <2>1 DEF Copy, LayoutInv
  <2>3. tool.todo = 1
    BY <2>1, OrderFacts, TypeParts DEF write, IsTool
  <2>4. disk'[1] = SuperSector
    BY <2>1 DEF LayoutInv, Layout
  <2> QED BY <2>1, <2>2, <2>3, <2>4, ImageWrite
<1>11. CASE write_inode_array \/ write_inode_map \/ write_sector_map
  BY <1>11, ImageLists
<1>12. CASE write_entry_in_root
  BY <1>12, ImageEntry
<1>13. CASE kill
  <2>1. tool' = NULL /\ UNCHANGED <<disk, master, size, pc, mem, installed>>
    BY <1>13 DEF kill
  <2> QED BY <1>0, <2>1, ImageParts
<1>14. CASE UNCHANGED vars
  <2>1. UNCHANGED <<disk, master, size, pc, mem, tool, installed>>
    BY <1>14 DEF vars
  <2> QED BY <1>0, <2>1, ImageParts
<1> QED BY <1>1, <1>2, <1>3, <1>4, <1>5, <1>6, <1>7, <1>8, <1>9, <1>10, <1>11, <1>12, <1>13, <1>14,
           Zenon DEF Next

LEMMA ImageInit == Init => ImageInv
<1> SUFFICES ASSUME Init PROVE ImageInv
  OBVIOUS
<1>1. disk[1][0] \in {Zero, One, Junk}
  BY BeforeAssumption DEF Init
<1>2. tool = NULL /\ master = NULL /\ ~ installed /\ pc = "off"
  BY DEF Init
<1> QED BY <1>1, <1>2 DEF ImageInv, Booting, WholeKernel, has_magic

\* What is true of an image into which only the kernel is copied.
THEOREM ImageInvariant == WholeMap /\ ~ Reuse => (Spec => [](TypeInv /\ LayoutInv /\ FormatInv /\ FreshInv /\ ImageInv))
<1> SUFFICES ASSUME WholeMap, ~ Reuse PROVE Spec => [](TypeInv /\ LayoutInv /\ FormatInv /\ FreshInv /\ ImageInv)
  OBVIOUS
<1>1. Init => TypeInv /\ LayoutInv /\ FormatInv /\ FreshInv /\ ImageInv
  <2>1. Init => FreshInv
    BY DEF Init, FreshInv
  <2> QED BY <2>1, TypeInit, LayoutInit, FormatInit, ImageInit
<1>2. TypeInv /\ LayoutInv /\ FormatInv /\ FreshInv /\ ImageInv /\ [Next]_vars =>
        (TypeInv /\ LayoutInv /\ FormatInv /\ FreshInv /\ ImageInv)'
  BY TypeNext, LayoutNext, FormatNext, FreshNext, ImageNext
<1> QED BY <1>1, <1>2, PTL DEF Spec

\* Whatever power failure stops make_fs and wherever the tool is interrupted,
\* loader_kernel jumps only into a kernel that is complete, of any length, unless
\* make_fs was never completed and left a directory that was there before it.
THEOREM LoadedKernelIsWhole == WholeMap /\ ~ Reuse => (Spec => []WholeKernel)
<1>1. ImageInv => WholeKernel
  BY DEF ImageInv, Booting, WholeKernel
<1> QED BY <1>1, ImageInvariant, PTL

\* Once write_entry_in_root has written the kernel's entry, find_file_in_root
\* finds it at every boot: the comparison that looks behind the difference does
\* not miss it.
THEOREM InstalledKernelBoots == WholeMap /\ ~ Reuse => (Spec => []InstalledBoots)
<1>1. ImageInv => InstalledBoots
  BY DEF ImageInv, Booting, InstalledBoots
<1> QED BY <1>1, ImageInvariant, PTL

\* One byte of the tool's map stands for eight sectors; set_sector_map rounds
\* the length of the kernel to bytes and sets enough of them, and the write of
\* the directory does not take them back.
THEOREM MapCoversKernel == WholeMap /\ ~ Reuse => (Spec => []MapCovers)
<1>1. TypeInv /\ LayoutInv /\ ImageInv => MapCovers
  <2> SUFFICES ASSUME TypeInv, LayoutInv, ImageInv, installed, tool = NULL
               PROVE  \E i \in 0 .. MaxInodes - 1 :
                        LET inode == get_inode_array(disk)[i] IN
                        /\ inode # NULL /\ inode.cnt = size[KernelName] /\ inode.start >= sb.first_data_sector
                        /\ \A n \in 0 .. inode.cnt - 1 :
                             get_sector_map(disk)[(inode.start - sb.first_data_sector + n) \div 8] # Zero
    BY DEF MapCovers
  <2>1. HasKernel(disk) /\ Layout(disk) /\ size \in [Names -> Sizes]
    BY TypeParts DEF ImageInv, LayoutInv
  <2>2. Sb(disk) = superblock /\ sb = superblock /\ sb.first_data_sector = DataArea /\ DataArea \in Nat
    BY <2>1, LayoutRead, Areas DEF sb, Sb, DataArea
  <2>3. 1 \in 0 .. MaxInodes - 1
    BY SectorRange, Sizes1
  <2>4. get_inode_array(disk)[1] = KernelInode
    BY <2>1, <2>2, <2>3, KernelRead DEF get_inode_array, InodeArea
  <2>5. KernelInode # NULL /\ KernelInode.cnt = size[KernelName] /\ KernelInode.start = DataArea
    BY <2>1, KernelLists DEF KernelInode
  <2>6. ASSUME NEW n \in 0 .. size[KernelName] - 1
        PROVE  get_sector_map(disk)[(DataArea - DataArea + n) \div 8] # Zero
    <3>1. PICK k \in Nat, o \in Nat : /\ k = size[KernelName] /\ o = Octets(k) /\ o = Up(k, 8) /\ o <= MapLen
                                      /\ n \in 0 .. k - 1
      BY <2>1, KernelSize DEF HasKernel, Octets
    <3>2. k <= o * 8
      <4>1. 8 \in Nat \ {0}
        OBVIOUS
      <4> QED BY <3>1, <4>1, UpCovers
    <3>3. PICK q \in Nat : q = n \div 8 /\ q * 8 <= n /\ n < q * 8 + 8
      <4>1. n \in Nat /\ 8 \in Nat \ {0}
        BY <3>1
      <4>2. n \div 8 \in Nat /\ n % 8 \in 0 .. 7 /\ n = (n \div 8) * 8 + (n % 8)
        BY <4>1
      <4> QED BY <4>1, <4>2
    <3>4. q \in 0 .. o - 1 /\ q \in 0 .. MapLen - 1
      BY <3>1, <3>2, <3>3, MapSize
    <3>5. q \in Marked(0, k)
      <4>1. CASE k > 8
        BY <3>1, <3>4, <4>1 DEF Marked
      <4>2. CASE k \in 1 .. 8
        <5>1. q = 0
          BY <3>1, <3>3, <4>2
        <5> QED BY <4>2, <5>1 DEF Marked
      <4> QED BY <3>1, <4>1, <4>2
    <3>6. KernelMap[q] = One
      BY <3>1, <3>4, <3>5 DEF KernelMap, Mark
    <3>7. Peek(disk, MapArea, q) = One
      <4>1. q \in DOMAIN KernelMap /\ Holds(disk, MapArea, KernelMap)
        BY <2>1, <3>4, KernelLists DEF HasKernel
      <4> QED BY <3>6, <4>1 DEF Holds
    <3>8. get_sector_map(disk)[q] = One
      BY <2>2, <3>4, <3>7 DEF get_sector_map, MapArea
    <3>9. (DataArea - DataArea + n) \div 8 = q
      BY <2>2, <3>1, <3>3
    <3> QED BY <3>8, <3>9, ByteAssumption
  <2>7. WITNESS 1 \in 0 .. MaxInodes - 1
  <2> QED BY <2>2, <2>4, <2>5, <2>6
<1> QED BY <1>1, ImageInvariant, PTL
====
