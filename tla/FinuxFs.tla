------------------------------- MODULE FinuxFs -------------------------------
(***************************************************************************)
(* The Finux file system on a partition: the loader that formats it or     *)
(* loads the kernel from it (boot/fs.c, boot/loader.c), and the tool that  *)
(* copies files into the disk image (finux_tool/finux.py).  They share the *)
(* layout and nothing else.                                                *)
(*                                                                         *)
(* Sectors are numbered from base_sector.  A sector is a function of its   *)
(* bytes.  Only what a byte belongs to is kept: byte j of a stored         *)
(* structure r is <<r, j>>; the bytes of the two maps are Zero or One.     *)
(* The tool's byte map of the sectors has one byte for every 8 of them.    *)
(***************************************************************************)
EXTENDS Integers, Sequences

CONSTANTS
    SectorBytes,   \* SECTOR_SIZE
    InodeBytes,    \* sizeof(struct inode) and sizeof(struct dir_entry)
    MaxInodes,     \* MAX_INODE_CNT
    SectorCnt,     \* Finux_part->sector_cnt
    KernelName,    \* "vmFinux.core", a name without padding
    Names,         \* the names of the files that are copied
    Sizes,         \* their possible lengths in sectors
    Before,        \* what an unformatted partition may hold
    Reuse,         \* TRUE: files are also copied into images already in use
    Zero, One, Junk, NUL, NULL

Up(n, m) == (n + m - 1) \div m

ASSUME SizeAssumption ==
    /\ {SectorBytes, InodeBytes, MaxInodes, SectorCnt} \subseteq Nat \ {0}
    /\ SectorBytes % InodeBytes = 0 /\ MaxInodes <= SectorBytes
    /\ Sizes \subseteq Nat /\ Reuse \in BOOLEAN
\* Shorter names are padded with spaces on disk, and the tool does not find
\* them again; the kernel's has full length.
ASSUME NameAssumption ==
    /\ Names \subseteq Seq(STRING) /\ KernelName \in Names /\ Len(KernelName) > 1
    /\ \A f \in Names : Len(f) = Len(KernelName)
    /\ \A i \in 1 .. Len(KernelName) : KernelName[i] \notin {NUL, Junk}
\* get_root_area subtracts 3 from an unsigned number.
ASSUME RootAssumption == Up(MaxInodes * InodeBytes, SectorBytes) > 3

VARIABLES
    disk,        \* the partition, sector by sector
    master,      \* test/hd.hdimg: the disk as make_fs completed it, or NULL
    size,        \* the length in sectors of each file to be copied
    pc,          \* what the machine does: "off", "format", "complete", ...
    step,        \* how many writes make_fs has made
    mem,         \* the sectors loaded to KERNEL_LOAD_ADDRESS
    tool,        \* the state of a running finux.py, or NULL
    exit,        \* how its last run ended
    installed    \* the kernel has been copied since the image was renewed

vars == <<disk, master, size, pc, step, mem, tool, exit, installed>>

-----------------------------------------------------------------------------
(* The layout.                                                              *)

Byte == 0 .. SectorBytes - 1
AreaSectors == Up(MaxInodes * InodeBytes, SectorBytes)
Blank == [b \in Byte |-> Zero]

\* Mutant: the sector map starts where the inode map does.
superblock_overlap ==
    LET maps == 2
        inodes == maps + (SectorCnt \div SectorBytes) \div 8
        root == inodes + AreaSectors
    IN  [inode_map_start |-> 2, sector_map_start |-> maps,
         sector_map_sectors |-> (SectorCnt \div SectorBytes) \div 8,
         inode_array_start |-> inodes, inode_sectors |-> AreaSectors,
         root_start |-> root, root_sectors |-> AreaSectors,
         first_data_sector |-> root + AreaSectors]

\* The fields make_fs computes.  The sector map's length is rounded down.
superblock ==
    LET maps == 2 + 1
        inodes == maps + (SectorCnt \div SectorBytes) \div 8
        root == inodes + AreaSectors
    IN  [inode_map_start |-> 2, sector_map_start |-> maps,
         sector_map_sectors |-> (SectorCnt \div SectorBytes) \div 8,
         inode_array_start |-> inodes, inode_sectors |-> AreaSectors,
         root_start |-> root, root_sectors |-> AreaSectors,
         first_data_sector |-> root + AreaSectors]

Sectors == 0 .. superblock.first_data_sector + SectorCnt + 7

\* Byte n counted from the beginning of sector s, and the disk with the bytes
\* w[0], w[1], ... written from there on.
Peek(d, s, n) == d[s + n \div SectorBytes][n % SectorBytes]
Poke(d, s, w) ==
    [x \in Sectors |-> [b \in Byte |->
        LET n == (x - s) * SectorBytes + b IN IF n \in DOMAIN w THEN w[n] ELSE d[x][b]]]

\* The bytes of a sequence of structures r[0], r[1], ...; unused is what zeros
\* stand for.
Bytes(r, unused) ==
    LET last == CHOOSE i \in DOMAIN r : i + 1 \notin DOMAIN r
    IN  [n \in 0 .. (last + 1) * InodeBytes - 1 |->
            LET e == r[n \div InodeBytes]
            IN  IF e = unused THEN Zero ELSE <<e, n % InodeBytes>>]

\* Structure i of the area at sector s.  Bytes of different structures, or
\* junk, are no structure: NULL.
Struct(d, s, i, unused) ==
    LET at(j) == Peek(d, s, i * InodeBytes + j)
    IN  CASE \A j \in 0 .. InodeBytes - 1 : at(j) = Zero -> unused
          [] at(0) \notin {Zero, One, Junk} /\
                \A j \in 0 .. InodeBytes - 1 : at(j) = <<at(0)[1], j>> -> at(0)[1]
          [] OTHER -> NULL

NoInode == [start |-> 0, cnt |-> 0]
NoEntry == [num |-> 0, name |-> [i \in 1 .. Len(KernelName) |-> NUL]]
RootInode == [start |-> superblock.root_start, cnt |-> superblock.root_sectors]

\* The structures that are stored.  Their bytes are none of the other bytes,
\* and the three bytes that stand for themselves differ.
Inodes == [start : Sectors, cnt : Sizes \cup {0, AreaSectors}]
Entries == [num : 0 .. MaxInodes - 1, name : Names \cup {NoEntry.name}]
Stored(R) == NULL \notin R /\ \A r \in R, j \in Byte : <<r, j>> \notin {Zero, One, Junk}

ASSUME ByteAssumption ==
    /\ Zero # One /\ Zero # Junk /\ One # Junk
    /\ Stored({superblock}) /\ Stored(Inodes) /\ Stored(Entries)

\* Sector i of file f.
Content(f) == [i \in 1 .. size[f] |-> [b \in Byte |-> <<f, i>>]]

-----------------------------------------------------------------------------
(* The loader.                                                              *)

\* Mutant: the comparison never succeeds.
has_magic_no(d) == FALSE

\* tmp->magic == FINUX_MAGIC
has_magic(d) == d[1][0] \notin {Zero, One, Junk}
sb == disk[1][0][1]

\* The partition may hold anything before, but no superblock.
ASSUME BeforeAssumption ==
    \A d \in Before :
        DOMAIN d = Sectors /\ (\A s \in Sectors : DOMAIN d[s] = Byte) /\ d[1][0] \in {Zero, One, Junk}

\* The writes of make_fs, one sector each, in order.
Clear(s, cnt) == [i \in 1 .. cnt |-> <<s + i - 1, Blank>>]
make_fs_writes ==
    LET new == superblock
        root == Poke([x \in Sectors |-> Blank], 0, Bytes([i \in {0} |-> RootInode], NoInode))
    IN  << <<1, [b \in Byte |-> <<new, b>>]>> >>
        \o Clear(new.inode_array_start, AreaSectors)
        \o << <<new.inode_array_start, root[0]>> >>
        \o << <<new.inode_map_start, [Blank EXCEPT ![0] = One]>> >>
        \o Clear(new.sector_map_start, new.sector_map_sectors)
        \o Clear(new.root_start, new.root_sectors)

\* Cstart up to the test of the magic number.  The image is in one place only:
\* the machine is off while the tool runs.
boot ==
    /\ pc = "off" /\ tool = NULL
    /\ pc' = IF has_magic(disk) THEN "load" ELSE "format"
    /\ step' = 0
    /\ UNCHANGED <<disk, master, size, mem, tool, exit, installed>>

\* One hd_write of make_fs.
make_fs ==
    /\ pc = "format" /\ step < Len(make_fs_writes)
    /\ LET w == make_fs_writes[step + 1] IN disk' = [disk EXCEPT ![w[1]] = w[2]]
    /\ step' = step + 1
    /\ UNCHANGED <<master, size, pc, mem, tool, exit, installed>>

\* PANIC("make Finuxfs compelet, please loader the kernel in the root dir.")
make_fs_done ==
    /\ pc = "format" /\ step = Len(make_fs_writes)
    /\ pc' = "complete" /\ step' = 0 /\ master' = disk /\ installed' = FALSE
    /\ UNCHANGED <<disk, size, mem, tool, exit>>

\* strcmp(name, e.name) == 0.  The pointers have moved on when it compares
\* for the last time: it looks at the characters behind the first difference,
\* or behind the end of the name, where the next entry's inode_num begins.
strcmp_equal(name, e, next) ==
    LET n == Len(name)
        s == Append(name, NUL)
        t == IF e = NULL THEN [i \in 1 .. n + 1 |-> Junk]
             ELSE Append(e.name, IF next # NULL /\ next.num = 0 THEN NUL ELSE One)
        p == CHOOSE i \in 1 .. n : /\ \A j \in 1 .. i - 1 : s[j] = t[j]
                                   /\ s[i] # t[i] \/ i = n
    IN  s[p + 1] = t[p + 1]

\* Mutant: the last three sectors instead of the first.
root_area_last ==
    LET read == (sb.root_sectors - 3) * (SectorBytes \div InodeBytes)
    IN  [i \in 0 .. MaxInodes |->
            IF i < read THEN Struct(disk, sb.root_start + 3, i, NoEntry) ELSE NoEntry]

\* get_root_area reads root_sectors - 3 sectors; the rest stays zero.
root_area ==
    LET read == (sb.root_sectors - 3) * (SectorBytes \div InodeBytes)
    IN  [i \in 0 .. MaxInodes |->
            IF i < read THEN Struct(disk, sb.root_start, i, NoEntry) ELSE NoEntry]

\* find_file_in_root: the entries that pass, of which it returns the first.
Matches == {i \in 0 .. MaxInodes - 1 : strcmp_equal(KernelName, root_area[i], root_area[i + 1])}
Least(S) == CHOOSE x \in S : \A y \in S : x <= y

\* get_super_block, get_inode_array, get_root_area and loader_kernel, then the
\* jump.  An inode that is none loads nothing.
loader_kernel ==
    /\ pc = "load" /\ Matches # {}
    /\ LET e == root_area[Least(Matches)]
           inode == Struct(disk, sb.inode_array_start, e.num, NoInode)
           file == IF inode = NULL THEN NoInode ELSE inode
       IN  mem' = [i \in 1 .. file.cnt |-> disk[file.start + i - 1]]
    /\ pc' = "kernel"
    /\ UNCHANGED <<disk, master, size, step, tool, exit, installed>>

\* PANIC("Can not find kernel file !")
loader_panic ==
    /\ pc = "load" /\ Matches = {}
    /\ pc' = "panic"
    /\ UNCHANGED <<disk, master, size, step, mem, tool, exit, installed>>

\* Power off, or a power failure.
reset ==
    /\ pc # "off"
    /\ pc' = "off" /\ step' = 0 /\ mem' = << >>
    /\ UNCHANGED <<disk, master, size, tool, exit, installed>>

-----------------------------------------------------------------------------
(* The tool.  It reads inodes and maps into lists, changes the lists and    *)
(* writes them back.                                                        *)

MapLen == Up(SectorCnt, 8)
Octets(cnt) == Up(cnt, 8)

\* The tool's view of the superblock and of the lists on disk d.
Sb(d) == d[1][0][1]
get_inode_array(d) == [i \in 0 .. MaxInodes - 1 |-> Struct(d, Sb(d).inode_array_start, i, NoInode)]
get_inode_map(d) == [i \in 0 .. MaxInodes - 1 |-> Peek(d, Sb(d).inode_map_start, i)]
get_sector_map(d) == [n \in 0 .. MapLen - 1 |-> Peek(d, Sb(d).sector_map_start, n)]
Root(d, inode) ==
    [i \in 0 .. inode.cnt * (SectorBytes \div InodeBytes) - 1 |-> Struct(d, inode.start, i, NoEntry)]

\* can_use and find_sectors_in_map: the first byte from which on no byte is set
\* as far as the map goes.
find_sectors_in_map(map, cnt) ==
    LET can_use == {s \in DOMAIN map :
                        \A n \in s .. s + Octets(cnt) - 1 : n \in DOMAIN map => map[n] = Zero}
    IN  IF can_use = {} THEN -1 ELSE Least(can_use)

\* Mutant: one byte too few.
Marked_short(s, cnt) == IF cnt > 8 THEN s .. s + Octets(cnt) - 2 ELSE {s}

\* set_sector_map: the bytes it assigns, one more than it needs when there are
\* several, and whether the value is 0: it is for an empty file.
Marked(s, cnt) == IF cnt > 8 THEN s .. s + Octets(cnt) ELSE {s}
Mark(cnt) == IF cnt = 0 THEN Zero ELSE One

\* No index error in can_use or set_sector_map, and not -1.
Fits(map, s, cnt) ==
    /\ s # -1 /\ s .. s + Octets(cnt) - 1 \subseteq DOMAIN map
    /\ Marked(s, cnt) \subseteq DOMAIN map

\* Whether the run ends with an exception and the disk as it was: the file is
\* there already (and tmp_entry is not defined), or there is no inode or no
\* room for it.  A file that does not exist outside ends the same way.
FreeInodes(map) == {i \in DOMAIN map : map[i] = Zero}
Aborts(d, f) ==
    LET map == get_sector_map(d)
        root == Root(d, get_inode_array(d)[0])
    IN  \/ \E i \in DOMAIN root : root[i] # NULL /\ root[i].name = f
        \/ FreeInodes(get_inode_map(d)) = {}
        \/ ~Fits(map, find_sectors_in_map(map, size[f]), size[f])

\* The lists as cp_file leaves them, before anything is written.
cp_file(d, f) ==
    LET map == get_sector_map(d)
        at == find_sectors_in_map(map, size[f])
        num == Least(FreeInodes(get_inode_map(d)))
        inode == [start |-> Sb(d).first_data_sector + at * 8, cnt |-> size[f]]
    IN  [todo |-> 1, file |-> f, num |-> num, at |-> at, done |-> 0,
         inodes |-> [get_inode_array(d) EXCEPT ![num] = inode],
         inode_map |-> [get_inode_map(d) EXCEPT ![num] = One],
         sector_map |-> [n \in DOMAIN map |-> IF n \in Marked(at, size[f]) THEN Mark(size[f]) ELSE map[n]]]

start(d, f) ==
    /\ pc = "off" /\ tool = NULL
    /\ disk' = d
    /\ tool' = IF Aborts(d, f) THEN NULL ELSE cp_file(d, f)
    /\ exit' = IF Aborts(d, f) THEN "abort" ELSE "running"
    /\ UNCHANGED <<master, size, pc, step, mem>>

\* make install: cp -f test/hd.hdimg ./hd.hdimg and a run of the tool.
install ==
    /\ master # NULL
    /\ start(master, KernelName)
    /\ installed' = FALSE

\* A run of the tool on the image as it is.
run(f) ==
    /\ master # NULL /\ (Reuse \/ (installed /\ f = KernelName))
    /\ start(disk, f)
    /\ UNCHANGED installed

\* Mutant: the directory entry is written before the lists.
Order_early == <<"data", "root", "inodes", "inode_map", "sector_map">>

\* The order of the writes.
Order == <<"data", "inodes", "inode_map", "sector_map", "root">>

\* Mutant: one write too many.
write_late(area) ==
    /\ tool # NULL /\ Order[tool.todo] = area
    /\ tool' = IF tool.todo > Len(Order) THEN NULL ELSE [tool EXCEPT !.todo = @ + 1]
    /\ exit' = IF tool.todo > Len(Order) THEN "ok" ELSE exit
    /\ UNCHANGED <<master, size, pc, step, mem>>

\* The end of one kind of write.
write(area) ==
    /\ tool # NULL /\ Order[tool.todo] = area
    /\ tool' = IF tool.todo = Len(Order) THEN NULL ELSE [tool EXCEPT !.todo = @ + 1]
    /\ exit' = IF tool.todo = Len(Order) THEN "ok" ELSE exit
    /\ UNCHANGED <<master, size, pc, step, mem>>

\* The loop of cp_file: one sector, at first_data_sector + sector_num.
write_data ==
    /\ tool # NULL /\ Order[tool.todo] = "data" /\ tool.done < size[tool.file]
    /\ disk' = [disk EXCEPT ![sb.first_data_sector + tool.at + tool.done] =
                    Content(tool.file)[tool.done + 1]]
    /\ tool' = [tool EXCEPT !.done = @ + 1]
    /\ UNCHANGED <<master, size, pc, step, mem, exit, installed>>

write_data_done ==
    /\ write("data") /\ tool.done = size[tool.file]
    /\ UNCHANGED <<disk, installed>>

write_inode_array ==
    /\ write("inodes")
    /\ disk' = Poke(disk, sb.inode_array_start, Bytes(tool.inodes, NoInode))
    /\ UNCHANGED installed

write_inode_map ==
    /\ write("inode_map")
    /\ disk' = Poke(disk, sb.inode_map_start, tool.inode_map)
    /\ UNCHANGED installed

write_sector_map ==
    /\ write("sector_map")
    /\ disk' = Poke(disk, sb.sector_map_start, tool.sector_map)
    /\ UNCHANGED installed

\* The first entry that has the name or no inode; if there is none, nothing
\* is written.
write_entry_in_root ==
    /\ write("root")
    /\ LET inode == tool.inodes[0]
           root == Root(disk, inode)
           slots == {i \in DOMAIN root : root[i] # NULL /\ (root[i].num = 0 \/ root[i].name = tool.file)}
           new == [root EXCEPT ![Least(slots)] = [num |-> tool.num, name |-> tool.file]]
       IN  disk' = IF slots = {} THEN disk ELSE Poke(disk, inode.start, Bytes(new, NoEntry))
    /\ installed' = (installed \/ tool.file = KernelName)

\* The tool is interrupted.
kill ==
    /\ tool # NULL
    /\ tool' = NULL /\ exit' = "killed"
    /\ UNCHANGED <<disk, master, size, pc, step, mem, installed>>

-----------------------------------------------------------------------------
Init ==
    /\ disk \in Before
    /\ master = NULL /\ tool = NULL
    /\ size \in [Names -> Sizes]
    /\ pc = "off" /\ step = 0 /\ mem = << >>
    /\ exit = "none" /\ installed = FALSE

Next ==
    \/ boot \/ make_fs \/ make_fs_done \/ loader_kernel \/ loader_panic \/ reset
    \/ install \/ \E f \in Names : run(f)
    \/ write_data \/ write_data_done
    \/ write_inode_array \/ write_inode_map \/ write_sector_map \/ write_entry_in_root
    \/ kill

Spec == Init /\ [][Next]_vars

-----------------------------------------------------------------------------
TypeOK ==
    /\ DOMAIN disk = Sectors /\ \A s \in Sectors : DOMAIN disk[s] = Byte
    /\ size \in [Names -> Sizes] /\ installed \in BOOLEAN
    /\ pc \in {"off", "format", "complete", "load", "kernel", "panic"}
    /\ step \in 0 .. Len(make_fs_writes)
    /\ exit \in {"none", "running", "ok", "abort", "killed"}
    /\ tool # NULL =>
        /\ tool.todo \in 1 .. Len(Order) /\ tool.done \in Nat
        /\ tool.num \in 0 .. MaxInodes - 1 /\ tool.at \in 0 .. MapLen - 1

\* No byte in the sectors of the root directory belongs to an entry.
NoFiles(d) ==
    \A x \in superblock.root_start .. superblock.root_start + superblock.root_sectors - 1, b \in Byte :
        d[x][b] \in {Zero, One, Junk}

\* loader_kernel jumps only into a kernel that is complete: the sectors in
\* memory are those of the file the tool was given, whatever power failure
\* stopped make_fs and wherever the tool was interrupted.  There is one
\* exception: make_fs writes the magic number first and clears the directory
\* last, so if it is cut off and never completed, entries the partition held
\* before are taken for files.
WholeKernel ==
    pc = "kernel" => mem = Content(KernelName) \/ (master = NULL /\ ~NoFiles(disk))

\* Once the tool has copied the kernel into a fresh image, loader_kernel finds
\* it at every boot.
InstalledBoots == installed => pc # "panic"

\* When make_fs says it is done, the tool finds a file system without files,
\* whatever the partition held before: the areas, as long as make_fs makes
\* them, are initialised, and no write for one of them falls on another.  The
\* map the tool reads is longer than its area where sector_cnt is no multiple
\* of 8 * 512; the bytes behind the area are those of the first inodes.
FreshIsEmpty ==
    pc = "complete" =>
        /\ get_inode_array(disk) = [[i \in 0 .. MaxInodes - 1 |-> NoInode] EXCEPT ![0] = RootInode]
        /\ FreeInodes(get_inode_map(disk)) = 1 .. MaxInodes - 1
        /\ \A n \in 0 .. MapLen - 1 :
             n < superblock.sector_map_sectors * SectorBytes => get_sector_map(disk)[n] = Zero
        /\ \A i \in DOMAIN Root(disk, RootInode) : Root(disk, RootInode)[i] = NoEntry

\* make_fs never formats a partition again that it has completed, whatever the
\* tool has written since.
FormatsOnce == master # NULL => pc # "format"

\* The sector map that the tool writes covers every sector of the kernel.
MapCovers ==
    installed /\ tool = NULL =>
        \E i \in 0 .. MaxInodes - 1 :
            LET inode == get_inode_array(disk)[i] IN
            /\ inode # NULL /\ inode.cnt = size[KernelName] /\ inode.start >= sb.first_data_sector
            /\ \A n \in 0 .. inode.cnt - 1 :
                 get_sector_map(disk)[(inode.start - sb.first_data_sector + n) \div 8] # Zero
=============================================================================
