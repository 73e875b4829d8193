----------------------------- MODULE Partitions -----------------------------
(***************************************************************************)
(* How the loader finds the Finux partition: get_part_information, which   *)
(* reads the partition tables, and the first half of make_fs, which looks  *)
(* for the Finux entry and computes base_sector (boot/fs.c).  Beside them  *)
(* find_part_table, the image tool's own search of the same disk           *)
(* (finux_tool/finux.py): both must mean the same sector.                  *)
(*                                                                         *)
(* The disk is given by its layout: four slots of the master boot record   *)
(* and the logical partitions of the extended one, as partitioning tools   *)
(* write them.  An extended boot record (EBR) has an entry for its logical *)
(* partition, relative to the EBR, and a link to the next EBR, relative to *)
(* the extended partition.                                                 *)
(***************************************************************************)
EXTENDS Integers, Sequences, FiniteSets, FiniteSetsExt

CONSTANTS
    MaxLogical,     \* most logical partitions of a layout
    Size,           \* sectors of a partition, the same for all of them
    Gap,            \* sectors between an EBR and its logical partition
    Others          \* what sectors that are no partition tables may hold

ASSUME LayoutAssumption ==
    /\ MaxLogical \in Nat /\ Gap \in Nat \ {0} /\ Size \in Nat /\ Size > Gap

PART_EMPTY == 0
PART_EXTENDED == 5
OTHER_SYSID == 7
FINUX_SYSID == 13
PRIMARY_MAX_CNT == 4
LOGIC_MAX_CNT == 10

Ids == {PART_EMPTY, PART_EXTENDED, OTHER_SYSID, FINUX_SYSID}
Entry == [id : Ids, lba : Nat]
EmptyEntry == [id |-> PART_EMPTY, lba |-> 0]
Table == [1 .. 4 -> Entry]
EmptyTable == [i \in 1 .. 4 |-> EmptyEntry]

\* Any data: some sectors read as any table at all, the others as zeros.
ASSUME OthersAssumption ==
    \A data \in Others : \A lba \in DOMAIN data : data[lba] \in Table

-----------------------------------------------------------------------------
(* The disk.                                                                *)

\* data: what the sectors hold that are no partition tables.
Layouts ==
    {l \in [slots : [1 .. 4 -> Ids],
            logical : UNION {[1 .. n -> {OTHER_SYSID, FINUX_SYSID}] : n \in 0 .. MaxLogical},
            data : Others] :
        /\ Cardinality({i \in 1 .. 4 : l.slots[i] = PART_EXTENDED}) <= 1
        /\ (\A i \in 1 .. 4 : l.slots[i] # PART_EXTENDED) => l.logical = << >>}

SlotLBA(i) == i * Size
Mbr(l) == [i \in 1 .. 4 |->
            IF l.slots[i] = PART_EMPTY THEN EmptyEntry
            ELSE [id |-> l.slots[i], lba |-> SlotLBA(i)]]

HasExtended(l) == \E i \in 1 .. 4 : l.slots[i] = PART_EXTENDED
ExtendedLBA(l) == SlotLBA(CHOOSE i \in 1 .. 4 : l.slots[i] = PART_EXTENDED)

\* The k-th EBR, relative to the extended partition.
EbrOffset(k) == (k - 1) * Size

\* An extended partition without logical ones has one, empty, EBR.
Ebr(l, k) ==
    << IF k <= Len(l.logical) THEN [id |-> l.logical[k], lba |-> Gap]
       ELSE EmptyEntry,
       IF k < Len(l.logical) THEN [id |-> PART_EXTENDED, lba |-> EbrOffset(k + 1)]
       ELSE EmptyEntry,
       EmptyEntry, EmptyEntry >>

EbrsAt(l, lba) ==
    {k \in 1 .. Max({1, Len(l.logical)}) :
        HasExtended(l) /\ lba = ExtendedLBA(l) + EbrOffset(k)}

\* The table a read of one sector gives.
Sector(l, lba) ==
    IF lba = 0 THEN Mbr(l)
    ELSE IF EbrsAt(l, lba) # {} THEN Ebr(l, CHOOSE k \in EbrsAt(l, lba) : TRUE)
    ELSE IF lba \in DOMAIN l.data THEN l.data[lba] ELSE EmptyTable

-----------------------------------------------------------------------------
VARIABLES
    layout,         \* the disk
    pc,             \* "mbr", "primary", "ebr", "find", then how it ended
    buf,            \* the sector read last
    tab,            \* the slot of the MBR being looked at, 1 for 0x1be
    primary,        \* the entries copied to primary[] ...
    logical,        \* ... and to logical[]; entries not copied are zero
    base_sector

vars == <<layout, pc, buf, tab, primary, logical, base_sector>>

\* How it ends: the superblock is looked for at base_sector; PANIC; an entry
\* was copied past the end of an array; Finux_part was never assigned.
Ends == {"found", "panic", "overrun", "unassigned"}

TypeOK ==
    /\ layout \in Layouts
    /\ pc \in {"mbr", "primary", "ebr", "find"} \cup Ends
    /\ buf \in Table /\ tab \in 1 .. 5
    /\ primary \in Seq(Entry) /\ logical \in Seq(Entry)
    /\ base_sector \in Nat

Init ==
    /\ layout \in Layouts
    /\ pc = "mbr" /\ buf = [i \in 1 .. 4 |-> EmptyEntry] /\ tab = 1
    /\ primary = << >> /\ logical = << >>
    /\ base_sector = 45056      \* 0xb000

\* The i-th element, from 0, of a zeroed array.
At(array, i) == IF i < Len(array) THEN array[i + 1] ELSE EmptyEntry

-----------------------------------------------------------------------------
(* get_part_information                                                     *)

\* hd_read(0x0, 1, buf)
read_mbr ==
    /\ pc = "mbr"
    /\ buf' = Sector(layout, 0)
    /\ pc' = "primary"
    /\ UNCHANGED <<layout, tab, primary, logical, base_sector>>

\* One round of the loop over the MBR: an entry is copied to primary[], an
\* extended one to logical[] too.
copy_primary ==
    /\ pc = "primary" /\ tab <= 4
    /\ buf[tab].id # PART_EMPTY
    /\ primary' = Append(primary, buf[tab])
    /\ logical' = IF buf[tab].id = PART_EXTENDED THEN Append(logical, buf[tab])
                  ELSE logical
    /\ tab' = tab + 1
    /\ UNCHANGED <<layout, pc, buf, base_sector>>

\* Mutant: the fifth round goes on like the others.
copy_fifth_on ==
    /\ pc = "primary" /\ tab = 5
    /\ tab' = tab + 1
    /\ UNCHANGED <<layout, pc, buf, primary, logical, base_sector>>

\* PART_TABLE_END lets a fifth round look behind the sector, at stack contents:
\* any byte but 0 there and a fifth entry is copied to primary[4].
copy_fifth ==
    /\ pc = "primary" /\ tab = 5
    /\ pc' = "overrun"
    /\ UNCHANGED <<layout, buf, tab, primary, logical, base_sector>>

\* The loop is over: hd_read(logical[0].first_LBA, 1, buf).  Without an
\* extended partition this is the MBR again.
read_extended ==
    /\ pc = "primary"
    /\ tab <= 4 => buf[tab].id = PART_EMPTY
    /\ buf' = Sector(layout, At(logical, 0).lba)
    /\ pc' = "ebr"
    /\ UNCHANGED <<layout, tab, primary, logical, base_sector>>

\* logical[] with further entries copied behind it, if they fit.
copy_logical(entries, next) ==
    /\ logical' = logical \o entries
    /\ pc' = IF Len(logical) + Len(entries) > LOGIC_MAX_CNT THEN "overrun" ELSE next

\* Mutant: the next EBR is looked for relative to this one's link alone.
walk_next_absolute ==
    /\ pc = "ebr"
    /\ buf[1].id # PART_EMPTY /\ buf[2].id # PART_EMPTY
    /\ copy_logical(<<buf[1], buf[2]>>, "ebr")
    /\ buf' = Sector(layout, buf[2].lba)
    /\ UNCHANGED <<layout, tab, primary, base_sector>>

\* One round of the walk: the partition and the link are copied, and the next
\* EBR is read.
walk_next ==
    /\ pc = "ebr"
    /\ buf[1].id # PART_EMPTY /\ buf[2].id # PART_EMPTY
    /\ copy_logical(<<buf[1], buf[2]>>, "ebr")
    /\ buf' = Sector(layout, buf[2].lba + At(logical', 0).lba)
    /\ UNCHANGED <<layout, tab, primary, base_sector>>

\* Mutant: the empty link is copied as well.
walk_last_link ==
    /\ pc = "ebr"
    /\ buf[1].id # PART_EMPTY /\ buf[2].id = PART_EMPTY
    /\ copy_logical(<<buf[1], buf[2]>>, "find")
    /\ UNCHANGED <<layout, buf, tab, primary, base_sector>>

\* The last round: no link.
walk_last ==
    /\ pc = "ebr"
    /\ buf[1].id # PART_EMPTY /\ buf[2].id = PART_EMPTY
    /\ copy_logical(<<buf[1]>>, "find")
    /\ UNCHANGED <<layout, buf, tab, primary, base_sector>>

\* An EBR without a partition ends the walk.
walk_end ==
    /\ pc = "ebr"
    /\ buf[1].id = PART_EMPTY
    /\ pc' = "find"
    /\ UNCHANGED <<layout, buf, tab, primary, logical, base_sector>>

-----------------------------------------------------------------------------
(* make_fs, up to the read of the superblock                                *)

FinuxParts(array, cnt) == {i \in 0 .. cnt - 1 : At(array, i).id = FINUX_SYSID}

\* A Finux entry among the primary partitions.
find_primary ==
    /\ pc = "find"
    /\ LET found == FinuxParts(primary, PRIMARY_MAX_CNT)
       IN  /\ found # {}
           /\ base_sector' = At(primary, Min(found)).lba + At(logical, 0).lba
    /\ pc' = "found"
    /\ UNCHANGED <<layout, buf, tab, primary, logical>>

\* Mutant: the extended partition itself counts as a link.
LinkLBA_first(part) ==
    IF At(logical, part - 1).id = At(logical, 0).id
    THEN At(logical, part - 1).lba ELSE 0

\* The link that led to the EBR of logical[part], if it is not in the first.
LinkLBA(part) ==
    IF part - 1 # 0 /\ At(logical, part - 1).id = At(logical, 0).id
    THEN At(logical, part - 1).lba ELSE 0

\* Otherwise one among the logical partitions.
find_logical ==
    /\ pc = "find"
    /\ FinuxParts(primary, PRIMARY_MAX_CNT) = {}
    /\ At(logical, 0).id # PART_EMPTY
    /\ LET found == FinuxParts(logical, LOGIC_MAX_CNT)
           part == Min(found)
       IN  /\ found # {}
           /\ base_sector' = At(logical, 0).lba + LinkLBA(part) + At(logical, part).lba
    /\ pc' = "found"
    /\ UNCHANGED <<layout, buf, tab, primary, logical>>

\* part has run to LOGIC_MAX_CNT: PANIC.
find_none ==
    /\ pc = "find"
    /\ FinuxParts(primary, PRIMARY_MAX_CNT) = {}
    /\ At(logical, 0).id # PART_EMPTY
    /\ FinuxParts(logical, LOGIC_MAX_CNT) = {}
    /\ base_sector' = At(logical, 0).lba
    /\ pc' = "panic"
    /\ UNCHANGED <<layout, buf, tab, primary, logical>>

\* logical[] is not searched and part is left at PRIMARY_MAX_CNT, below
\* LOGIC_MAX_CNT: no PANIC, and what Finux_part, never set, happens to point at
\* is about to be added to base_sector.
find_unassigned ==
    /\ pc = "find"
    /\ FinuxParts(primary, PRIMARY_MAX_CNT) = {}
    /\ At(logical, 0).id = PART_EMPTY
    /\ base_sector' = At(logical, 0).lba
    /\ pc' = "unassigned"
    /\ UNCHANGED <<layout, buf, tab, primary, logical>>

get_part_information ==
    \/ read_mbr \/ copy_primary \/ copy_fifth \/ read_extended
    \/ walk_next \/ walk_last \/ walk_end
make_fs == find_primary \/ find_logical \/ find_none \/ find_unassigned

Next == get_part_information \/ make_fs
Spec == Init /\ [][Next]_vars

-----------------------------------------------------------------------------
(* find_part_table of the image tool                                        *)

\* One entry, in state t of the walk: an empty one ends the round, a Finux one
\* the search.  Its base is relative to the extended partition, and to the last
\* entry kept if that is another one.
tool_entry(t, e) ==
    LET last == t.logical[Len(t.logical)].lba
    IN  CASE t.stop \/ e.id = PART_EMPTY -> [t EXCEPT !.stop = TRUE]
          [] ~t.stop /\ e.id = FINUX_SYSID ->
                [t EXCEPT !.stop = TRUE,
                          !.base = t.logical[1].lba + e.lba
                                   + IF Len(t.logical) = 1 THEN 0 ELSE last]
          [] OTHER -> [t EXCEPT !.logical = Append(@, e)]

\* One round: seeks to the last entry kept if that is an extended one (to its
\* first_LBA as it stands), otherwise reads on.
tool_round(l, t) ==
    LET last == t.logical[Len(t.logical)]
        at == IF last.id = PART_EXTENDED THEN last.lba ELSE t.pos
        table == Sector(l, at)
        read == [t EXCEPT !.pos = at + 1, !.stop = FALSE]
    IN  IF t.base # 0 THEN t ELSE tool_entry(tool_entry(read, table[1]), table[2])

\* The sector the tool takes for the partition's first; 0: it finds none, or
\* a primary one, for which it stops with an error.
tool_base(l) ==
    LET kept(i) == IF Mbr(l)[i].id = PART_EXTENDED THEN <<Mbr(l)[i]>> ELSE << >>
        extended == kept(1) \o kept(2) \o kept(3) \o kept(4)
        start == [logical |-> extended, pos |-> 1, stop |-> FALSE, base |-> 0]
        rounds[i \in 0 .. 10] == IF i = 0 THEN start ELSE tool_round(l, rounds[i - 1])
    IN  IF extended = << >> \/ \E i \in 1 .. 4 : l.slots[i] = FINUX_SYSID THEN 0
        ELSE rounds[10].base

-----------------------------------------------------------------------------
\* Where the Finux partitions really begin, in the order of the disk's tables.
LogicalLBA(l, k) == ExtendedLBA(l) + EbrOffset(k) + Gap
FinuxLogical(l) == {k \in 1 .. Len(l.logical) : l.logical[k] = FINUX_SYSID}

\* The extended partition stands before the first empty slot of the MBR.
Reached(l) == \E i \in 1 .. 4 : /\ l.slots[i] = PART_EXTENDED
                                /\ \A j \in 1 .. i : l.slots[j] # PART_EMPTY
NoPrimaryFinux(l) == \A i \in 1 .. 4 : l.slots[i] # FINUX_SYSID

\* Whatever the number of EBRs between, the loader takes the first Finux
\* logical partition's first sector for the base of the file system, and
\* PANICs when there is none (get_part_information, make_fs).
BaseRight ==
    Reached(layout) /\ NoPrimaryFinux(layout) =>
        /\ pc = "found" => /\ FinuxLogical(layout) # {}
                           /\ base_sector = LogicalLBA(layout, Min(FinuxLogical(layout)))
        /\ pc = "panic" => FinuxLogical(layout) = {}
        /\ pc # "unassigned"

\* On a disk whose extended partition is reached, and whose MBR has an empty slot
\* to end the loop, primary[] and logical[] are never overrun up to half of
\* LOGIC_MAX_CNT logical partitions, as every EBR takes two entries, and beyond
\* that the loader never gets as far as make_fs's search.
InBounds ==
    /\ Reached(layout) /\ \E i \in 1 .. 4 : layout.slots[i] = PART_EMPTY
    /\ pc \in Ends
    => (pc = "overrun" <=> Len(layout.logical) > LOGIC_MAX_CNT \div 2)

\* What fs.c and fs.h say: up to 4 primary and 10 logical partitions are
\* supported.
DocumentedLimits ==
    Reached(layout) /\ Len(layout.logical) <= LOGIC_MAX_CNT => pc # "overrun"

\* A sector that neither begins like a Finux partition's table nor links to one.
Plain(table) == \A i \in 1 .. 2 : table[i].id \notin {FINUX_SYSID, PART_EXTENDED}

\* The tool writes the kernel to the partition the loader reads it from, if that
\* is the first logical one, whatever is on the disk; if it is a later one, the
\* tool, which takes the relative links for absolute (find_part_table against
\* make_fs), gives up, unless a sector it takes for a table looks like one with a
\* Finux entry or a link.
ToolAgrees ==
    pc = "found" /\ Reached(layout) /\ NoPrimaryFinux(layout) =>
        /\ 1 \in FinuxLogical(layout) => tool_base(layout) = base_sector
        /\ /\ 1 \notin FinuxLogical(layout)
           /\ \A lba \in DOMAIN layout.data : Plain(layout.data[lba])
           => tool_base(layout) = 0
=============================================================================
