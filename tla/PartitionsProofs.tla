-------------------------- MODULE PartitionsProofs --------------------------
(***************************************************************************)
(* The loader's search for the Finux partition, on any disk: types, the    *)
(* bounds of primary[] and logical[], and the base sector it finds.        *)
(***************************************************************************)
EXTENDS Partitions, FiniteSetTheorems, SequenceTheorems, WellFoundedInduction,
        TLAPS

\* primary[] holds the entries of the MBR before tab, none of them empty; once
\* the loop is over, tab stands at the first empty one.
Copied ==
    /\ Len(primary) = tab - 1
    /\ \A j \in 1 .. tab - 1 : /\ layout.slots[j] # PART_EMPTY
                               /\ primary[j] = Mbr(layout)[j]
    /\ pc \notin {"mbr", "primary"} /\ tab <= 4 => layout.slots[tab] = PART_EMPTY

\* During the loop logical[] holds at most the extended partition's entry.
FirstLink ==
    /\ pc = "mbr" => tab = 1
    /\ pc = "primary" => buf = Mbr(layout)
    /\ pc \in {"mbr", "primary"} =>
        /\ (\A j \in 1 .. tab - 1 : layout.slots[j] # PART_EXTENDED) => logical = << >>
        /\ \A j \in 1 .. tab - 1 : layout.slots[j] = PART_EXTENDED =>
                Len(logical) = 1 /\ logical[1] = Mbr(layout)[j]

\* logical[0] is the extended partition or, when the walk began with the MBR
\* again, what primary[0] is.
Head0 ==
    /\ pc = "ebr" /\ logical = << >> => buf = Mbr(layout)
    /\ logical # << >> => \/ logical[1].id = PART_EXTENDED
                          \/ primary # << >> /\ logical[1] = primary[1]

\* The inductive invariant behind the types.
TInv == TypeOK /\ Copied /\ FirstLink /\ Head0

\* logical[] after k - 1 rounds of the walk: the extended partition, then the
\* partition and the link of each EBR.
Walked(k) ==
    /\ logical[1] = [id |-> PART_EXTENDED, lba |-> ExtendedLBA(layout)]
    /\ \A j \in 1 .. k - 1 :
        /\ logical[2 * j] = [id |-> layout.logical[j], lba |-> Gap]
        /\ logical[2 * j + 1] = [id |-> PART_EXTENDED, lba |-> EbrOffset(j + 1)]

\* On the way along the EBRs ...
OnChain ==
    \E k \in 1 .. Max({1, Len(layout.logical)}) :
        Len(logical) = 2 * k - 1 /\ Walked(k) /\ buf = Ebr(layout, k)

\* ... and at their end.
ChainRead ==
    LET n == Len(layout.logical)
    IN  IF n = 0 THEN Len(logical) = 1 /\ Walked(1)
        ELSE /\ Len(logical) = 2 * n /\ Walked(n)
             /\ logical[2 * n] = [id |-> layout.logical[n], lba |-> Gap]

\* The inductive invariant behind the base sector and the bounds.
CInv ==
    /\ TInv /\ BaseRight /\ InBounds
    /\ Reached(layout) =>
        /\ pc = "ebr" => OnChain
        /\ pc = "find" => ChainRead /\ Len(logical) <= LOGIC_MAX_CNT

-----------------------------------------------------------------------------
(* Numbers and sets.                                                        *)

\* Every nonempty set of natural numbers has a least element, its Min.
LEMMA Least ==
    ASSUME NEW T, T \subseteq Nat, T # {}
    PROVE  Min(T) \in T /\ \A y \in T : Min(T) <= y
  <1>1. PICK x \in T : \A y \in T : ~(<<y, x>> \in OpToRel(<, Nat))
    BY NatLessThanWellFounded, WFMin
  <1>2. \A y \in T : ~(y < x)
    BY <1>1, Zenon DEF OpToRel
  <1>3. \E z \in T : \A y \in T : z =< y
    BY <1>2
  <1> QED BY <1>3 DEF Min

LEMMA MinIs ==
    ASSUME NEW T, T \subseteq Nat, NEW x \in T, \A y \in T : x <= y
    PROVE  Min(T) = x
  <1>1. Min(T) \in T /\ \A y \in T : Min(T) <= y
    BY Least
  <1>2. Min(T) \in Nat /\ x \in Nat /\ Min(T) <= x /\ x <= Min(T)
    BY <1>1
  <1> QED BY <1>2

\* The number of EBRs of a disk with n logical partitions.
LEMMA Ebrs ==
    ASSUME NEW n \in Nat
    PROVE  Max({1, n}) = IF n = 0 THEN 1 ELSE n
  <1> DEFINE m == IF n = 0 THEN 1 ELSE n
  <1>1. m \in {1, n} /\ \A y \in {1, n} : m >= y
    OBVIOUS
  <1>2. \A x \in {1, n} : (\A y \in {1, n} : x >= y) => x = m
    OBVIOUS
  <1> QED BY <1>1, <1>2 DEF Max

LEMMA HalfOf ==
    ASSUME NEW i \in Nat
    PROVE  \E j \in Nat : i = 2 * j \/ i = 2 * j + 1
  <1>1. i \div 2 \in Nat /\ (i = 2 * (i \div 2) \/ i = 2 * (i \div 2) + 1)
    OBVIOUS
  <1> QED BY <1>1

\* Distances that are multiples of Size.
LEMMA Multiples ==
    ASSUME NEW a \in Nat, NEW b \in Nat
    PROVE  /\ a * Size \in Nat
           /\ a > 0 => a * Size > 0
           /\ a * Size = b * Size => a = b
  <1>1. Size \in Nat /\ Size > 0
    BY LayoutAssumption
  <1>2. a * Size \in Nat /\ (a > 0 => a * Size > 0)
    BY <1>1
  <1>3. a < b => a * Size < b * Size
    BY <1>1
  <1>4. b < a => b * Size < a * Size
    BY <1>1
  <1>5. b * Size \in Nat
    BY <1>1
  <1> QED BY <1>2, <1>3, <1>4, <1>5

-----------------------------------------------------------------------------
(* The disk.                                                                *)

LEMMA LayoutTypes ==
    ASSUME NEW l \in Layouts
    PROVE  /\ l.slots \in [1 .. 4 -> Ids] /\ l.data \in Others
           /\ Len(l.logical) \in Nat
           /\ \A k \in 1 .. Len(l.logical) : l.logical[k] \in {OTHER_SYSID, FINUX_SYSID}
  <1>1. PICK n \in 0 .. MaxLogical : l.logical \in [1 .. n -> {OTHER_SYSID, FINUX_SYSID}]
    BY DEF Layouts
  <1>2. n \in Nat
    BY <1>1, LayoutAssumption
  <1>3. l.logical \in Seq({OTHER_SYSID, FINUX_SYSID}) /\ Len(l.logical) = n
    BY <1>1, <1>2
  <1>4. l.slots \in [1 .. 4 -> Ids] /\ l.data \in Others
    BY DEF Layouts
  <1> QED BY <1>1, <1>2, <1>3, <1>4

\* A disk has one extended partition at most.
LEMMA OneExtended ==
    ASSUME NEW l \in Layouts, NEW i \in 1 .. 4, NEW j \in 1 .. 4,
           l.slots[i] = PART_EXTENDED, l.slots[j] = PART_EXTENDED
    PROVE  i = j
  <1> DEFINE S == {x \in 1 .. 4 : l.slots[x] = PART_EXTENDED}
  <1>1. IsFiniteSet(S)
    <2>1. IsFiniteSet(1 .. 4)
      BY FS_Interval, 1 \in Int, 4 \in Int
    <2> QED BY <2>1, FS_Subset
  <1>2. Cardinality(S) <= 1
    BY DEF Layouts
  <1>3. SUFFICES ASSUME i # j
                 PROVE  FALSE
    OBVIOUS
  <1>4. IsFiniteSet({i}) /\ Cardinality({i}) = 1
    BY FS_Singleton
  <1>5. IsFiniteSet({i} \cup {j}) /\ Cardinality({i} \cup {j}) = 2
    BY <1>3, <1>4, FS_AddElement
  <1>6. Cardinality({i} \cup {j}) <= Cardinality(S)
    BY <1>1, FS_Subset
  <1>7. Cardinality(S) \in Nat
    BY <1>1, FS_CardinalityType
  <1> QED BY <1>2, <1>5, <1>6, <1>7

LEMMA ExtendedAt ==
    ASSUME NEW l \in Layouts, NEW i \in 1 .. 4, l.slots[i] = PART_EXTENDED
    PROVE  /\ HasExtended(l) /\ ExtendedLBA(l) = i * Size
           /\ Mbr(l)[i] = [id |-> PART_EXTENDED, lba |-> ExtendedLBA(l)]
           /\ ExtendedLBA(l) \in Nat \ {0}
  <1>1. \A j \in 1 .. 4 : l.slots[j] = PART_EXTENDED => j = i
    BY OneExtended
  <1>2. (CHOOSE j \in 1 .. 4 : l.slots[j] = PART_EXTENDED) = i
    BY <1>1
  <1>3. HasExtended(l) /\ ExtendedLBA(l) = i * Size
    BY <1>2 DEF HasExtended, ExtendedLBA, SlotLBA
  <1>4. i * Size \in Nat \ {0}
    BY Multiples
  <1>5. l.slots[i] # PART_EMPTY
    BY DEF PART_EXTENDED, PART_EMPTY
  <1>6. Mbr(l)[i] = [id |-> PART_EXTENDED, lba |-> ExtendedLBA(l)]
    BY <1>3, <1>5 DEF Mbr, SlotLBA
  <1> QED BY <1>3, <1>4, <1>6

LEMMA MbrType ==
    ASSUME NEW l \in Layouts
    PROVE  /\ Mbr(l) \in Table
           /\ \A i \in 1 .. 4 : Mbr(l)[i].id = l.slots[i]
  <1>1. \A i \in 1 .. 4 : l.slots[i] \in Ids /\ i * Size \in Nat
    BY LayoutTypes, Multiples
  <1> QED BY <1>1 DEF Mbr, Table, Entry, Ids, EmptyEntry, SlotLBA

\* The fields of an EBR.
LEMMA EbrFields ==
    ASSUME NEW l \in Layouts, NEW k \in Nat \ {0}
    PROVE  /\ Ebr(l, k) \in Table
           /\ Ebr(l, k)[1] = IF k <= Len(l.logical) THEN [id |-> l.logical[k], lba |-> Gap]
                             ELSE EmptyEntry
           /\ Ebr(l, k)[2] = IF k < Len(l.logical)
                             THEN [id |-> PART_EXTENDED, lba |-> EbrOffset(k + 1)]
                             ELSE EmptyEntry
  <1> DEFINE e1 == IF k <= Len(l.logical) THEN [id |-> l.logical[k], lba |-> Gap]
                   ELSE EmptyEntry
             e2 == IF k < Len(l.logical)
                   THEN [id |-> PART_EXTENDED, lba |-> EbrOffset(k + 1)]
                   ELSE EmptyEntry
  <1>1. e1 \in Entry
    BY LayoutTypes, LayoutAssumption DEF Entry, EmptyEntry, Ids
  <1>2. e2 \in Entry
    <2>1. EbrOffset(k + 1) \in Nat
      BY Multiples DEF EbrOffset
    <2> QED BY <2>1 DEF Entry, EmptyEntry, Ids
  <1>3. EmptyEntry \in Entry
    BY DEF Entry, EmptyEntry, Ids
  <1>4. Ebr(l, k) = <<e1, e2, EmptyEntry, EmptyEntry>>
    BY DEF Ebr
  <1> HIDE DEF e1, e2
  <1>5. <<e1, e2, EmptyEntry, EmptyEntry>> \in [1 .. 4 -> Entry]
    BY <1>1, <1>2, <1>3
  <1>6. Ebr(l, k) \in Table /\ Ebr(l, k)[1] = e1 /\ Ebr(l, k)[2] = e2
    BY <1>4, <1>5 DEF Table
  <1> QED BY <1>6 DEF e1, e2

LEMMA SectorType ==
    ASSUME NEW l \in Layouts, NEW lba \in Nat
    PROVE  Sector(l, lba) \in Table
  <1>1. CASE lba = 0
    BY <1>1, MbrType DEF Sector
  <1>2. CASE lba # 0 /\ EbrsAt(l, lba) # {}
    <2> DEFINE k == CHOOSE x \in EbrsAt(l, lba) : TRUE
    <2>1. k \in EbrsAt(l, lba)
      BY <1>2
    <2>2. k \in Nat \ {0}
      <3>1. Len(l.logical) \in Nat
        BY LayoutTypes
      <3>2. Max({1, Len(l.logical)}) \in Nat
        BY <3>1, Ebrs
      <3>3. \A x \in EbrsAt(l, lba) : x \in Nat \ {0}
        BY <3>2 DEF EbrsAt
      <3> HIDE DEF k
      <3> QED BY <2>1, <3>3
    <2>3. Sector(l, lba) = Ebr(l, k)
      BY <1>2 DEF Sector
    <2> QED BY <2>2, <2>3, EbrFields
  <1>3. CASE lba # 0 /\ EbrsAt(l, lba) = {}
    <2>1. l.data \in Others
      BY LayoutTypes
    <2>2. EmptyTable \in Table
      BY DEF EmptyTable, EmptyEntry, Table, Entry, Ids
    <2> QED BY <1>3, <2>1, <2>2, OthersAssumption DEF Sector
  <1> QED BY <1>1, <1>2, <1>3

\* The k-th EBR is found where its link says.
LEMMA SectorOfEbr ==
    ASSUME NEW l \in Layouts, HasExtended(l), NEW k \in 1 .. Max({1, Len(l.logical)})
    PROVE  Sector(l, ExtendedLBA(l) + EbrOffset(k)) = Ebr(l, k)
  <1> DEFINE lba == ExtendedLBA(l) + EbrOffset(k)
  <1>1. Max({1, Len(l.logical)}) \in Nat
    BY LayoutTypes, Ebrs
  <1>2. k - 1 \in Nat /\ EbrOffset(k) \in Nat
    BY <1>1, Multiples DEF EbrOffset
  <1>3. ExtendedLBA(l) \in Nat \ {0}
    BY ExtendedAt DEF HasExtended
  <1>4. lba # 0
    BY <1>2, <1>3
  <1>5. k \in EbrsAt(l, lba)
    BY DEF EbrsAt
  <1>6. \A j \in EbrsAt(l, lba) : j = k
    <2>1. SUFFICES ASSUME NEW j \in EbrsAt(l, lba)
                   PROVE  j = k
      OBVIOUS
    <2>2. j \in 1 .. Max({1, Len(l.logical)}) /\ lba = ExtendedLBA(l) + EbrOffset(j)
      BY <2>1 DEF EbrsAt
    <2>3. j - 1 \in Nat /\ EbrOffset(j) \in Nat
      BY <1>1, <2>2, Multiples DEF EbrOffset
    <2>4. EbrOffset(j) = EbrOffset(k)
      BY <1>2, <1>3, <2>2, <2>3
    <2>5. j - 1 = k - 1
      BY <1>2, <2>3, <2>4, Multiples DEF EbrOffset
    <2> QED BY <1>1, <2>2, <2>5
  <1>7. (CHOOSE x \in EbrsAt(l, lba) : TRUE) = k
    BY <1>5, <1>6
  <1> QED BY <1>4, <1>5, <1>7 DEF Sector

-----------------------------------------------------------------------------
(* Types.                                                                   *)

USE DEF PART_EMPTY, PART_EXTENDED, OTHER_SYSID, FINUX_SYSID

LEMMA AtType ==
    ASSUME NEW array \in Seq(Entry), NEW i \in Nat
    PROVE  At(array, i) \in Entry /\ At(array, i).lba \in Nat
  <1>1. EmptyEntry \in Entry
    BY DEF EmptyEntry, Entry, Ids
  <1>2. At(array, i) \in Entry
    BY <1>1 DEF At
  <1> QED BY <1>2 DEF Entry

\* The Finux partition found in logical[] is never logical[0], so that make_fs
\* looks at no entry before the array's first.
LEMMA NotTheFirst ==
    ASSUME TInv, pc = "find", FinuxParts(primary, PRIMARY_MAX_CNT) = {},
           NEW part \in FinuxParts(logical, LOGIC_MAX_CNT)
    PROVE  part \in 1 .. LOGIC_MAX_CNT - 1
  <1>1. part \in 0 .. LOGIC_MAX_CNT - 1 /\ At(logical, part).id = FINUX_SYSID
    BY DEF FinuxParts
  <1>2. SUFFICES ASSUME part = 0
                 PROVE  FALSE
    BY <1>1 DEF LOGIC_MAX_CNT
  <1>3. logical \in Seq(Entry) /\ primary \in Seq(Entry)
    BY DEF TInv, TypeOK
  <1>4. logical # << >> /\ logical[1].id = FINUX_SYSID
    BY <1>1, <1>2, <1>3 DEF At, EmptyEntry
  <1>5. primary # << >> /\ primary[1].id = FINUX_SYSID
    BY <1>4 DEF TInv, Head0
  <1>6. 0 \in FinuxParts(primary, PRIMARY_MAX_CNT)
    BY <1>3, <1>5 DEF FinuxParts, At, PRIMARY_MAX_CNT
  <1> QED BY <1>6

LEMMA FoundPart ==
    ASSUME NEW array, NEW cnt \in Nat, FinuxParts(array, cnt) # {}
    PROVE  /\ Min(FinuxParts(array, cnt)) \in FinuxParts(array, cnt)
           /\ Min(FinuxParts(array, cnt)) \in Nat
           /\ \A y \in FinuxParts(array, cnt) : Min(FinuxParts(array, cnt)) <= y
  <1>1. FinuxParts(array, cnt) \subseteq Nat
    BY DEF FinuxParts
  <1> QED BY <1>1, Least

LEMMA InitTInv == Init => TInv
  <1>1. SUFFICES ASSUME Init
                 PROVE  TInv
    OBVIOUS
  <1>2. EmptyEntry \in Entry
    BY DEF EmptyEntry, Entry, Ids
  <1>3. TypeOK
    BY <1>1, <1>2 DEF Init, TypeOK, Table
  <1>4. Copied /\ FirstLink /\ Head0
    BY <1>1 DEF Init, Copied, FirstLink, Head0
  <1> QED BY <1>3, <1>4 DEF TInv

LEMMA StepTInv == TInv /\ [Next]_vars => TInv'
  <1> SUFFICES ASSUME TInv, [Next]_vars
               PROVE  TInv'
    OBVIOUS
  <1> USE DEF TInv
  <1>t. /\ layout \in Layouts /\ buf \in Table /\ tab \in 1 .. 5
        /\ primary \in Seq(Entry) /\ logical \in Seq(Entry) /\ base_sector \in Nat
    BY DEF TypeOK
  <1>m. /\ Mbr(layout) \in Table
        /\ \A i \in 1 .. 4 : Mbr(layout)[i].id = layout.slots[i]
    BY <1>t, MbrType
  <1>1. CASE read_mbr
    <2>1. buf' = Mbr(layout)
      BY <1>1 DEF read_mbr, Sector
    <2>2. TypeOK'
      BY <1>1, <1>t, <1>m, <2>1 DEF read_mbr, TypeOK
    <2>3. Copied'
      BY <1>1, <1>t DEF read_mbr, Copied
    <2>4. FirstLink' /\ Head0'
      BY <1>1, <1>t, <2>1 DEF read_mbr, FirstLink, Head0
    <2> QED BY <2>2, <2>3, <2>4
  <1>2. CASE copy_primary
    <2>1. buf = Mbr(layout) /\ tab \in 1 .. 4 /\ layout.slots[tab] # PART_EMPTY
      BY <1>2, <1>t, <1>m DEF copy_primary, FirstLink
    <2>2. buf[tab] \in Entry
      BY <1>t, <2>1 DEF Table
    <2>3. TypeOK'
      BY <1>2, <1>t, <2>1, <2>2 DEF copy_primary, TypeOK
    <2>4. /\ Len(primary') = tab /\ primary'[tab] = Mbr(layout)[tab]
          /\ \A j \in 1 .. tab - 1 : primary'[j] = primary[j]
      BY <1>2, <1>t, <2>1, <2>2 DEF copy_primary, Copied
    <2>5. Copied'
      BY <1>2, <1>t, <2>1, <2>4 DEF copy_primary, Copied
    <2>6. CASE layout.slots[tab] = PART_EXTENDED
      <3>1. \A j \in 1 .. tab - 1 : layout.slots[j] # PART_EXTENDED
        BY <1>t, <2>1, <2>6, OneExtended
      <3>2. logical = << >>
        BY <1>2, <3>1 DEF copy_primary, FirstLink
      <3>3. logical' = <<Mbr(layout)[tab]>>
        BY <1>2, <1>m, <2>1, <2>6, <3>2 DEF copy_primary
      <3>4. FirstLink'
        BY <1>2, <1>t, <2>1, <2>6, <3>1, <3>3 DEF copy_primary, FirstLink
      <3>5. Head0'
        BY <1>2, <1>m, <2>1, <2>6, <3>3 DEF copy_primary, Head0
      <3> QED BY <2>3, <2>5, <3>4, <3>5
    <2>7. CASE layout.slots[tab] # PART_EXTENDED
      <3>1. logical' = logical
        BY <1>2, <1>m, <2>1, <2>7 DEF copy_primary
      <3>2. FirstLink'
        BY <1>2, <1>t, <2>1, <2>7, <3>1 DEF copy_primary, FirstLink
      <3>3. logical # << >> => logical[1].id = PART_EXTENDED
        <4>1. \A j \in 1 .. tab - 1 : Mbr(layout)[j].id = layout.slots[j]
          BY <1>m, <2>1
        <4> QED BY <1>2, <4>1 DEF copy_primary, FirstLink
      <3>4. Head0'
        BY <1>2, <3>1, <3>3 DEF copy_primary, Head0
      <3> QED BY <2>3, <2>5, <3>2, <3>4
    <2> QED BY <2>6, <2>7
  <1>3. CASE copy_fifth
    <2>1. TypeOK'
      BY <1>3, <1>t DEF copy_fifth, TypeOK, Ends
    <2>2. Copied' /\ FirstLink' /\ Head0'
      BY <1>3, <1>t DEF copy_fifth, Copied, FirstLink, Head0
    <2> QED BY <2>1, <2>2
  <1>4. CASE read_extended
    <2>1. At(logical, 0).lba \in Nat
      BY <1>t, AtType
    <2>2. buf' \in Table
      BY <1>4, <1>t, <2>1, SectorType DEF read_extended
    <2>3. TypeOK'
      BY <1>4, <1>t, <2>2 DEF read_extended, TypeOK
    <2>4. tab <= 4 => layout.slots[tab] = PART_EMPTY
      BY <1>4, <1>t, <1>m DEF read_extended, FirstLink
    <2>5. Copied'
      BY <1>4, <2>4 DEF read_extended, Copied
    <2>6. logical = << >> => buf' = Mbr(layout)
      BY <1>4 DEF read_extended, At, EmptyEntry, Sector
    <2>7. FirstLink' /\ Head0'
      BY <1>4, <2>6 DEF read_extended, FirstLink, Head0
    <2> QED BY <2>3, <2>5, <2>7
  <1>w. ASSUME pc = "ebr", buf[1].id # PART_EMPTY, NEW entries \in Seq(Entry),
               Len(entries) > 0, entries[1] = buf[1],
               logical' = logical \o entries, pc' \in {"ebr", "find", "overrun"},
               UNCHANGED <<layout, tab, primary, base_sector>>, buf' \in Table
        PROVE  TInv'
    <2>2. /\ logical' \in Seq(Entry) /\ logical' # << >>
          /\ logical = << >> => logical'[1] = buf[1]
          /\ logical # << >> => logical'[1] = logical[1]
      BY <1>t, <1>w
    <2>3. TypeOK'
      BY <1>t, <1>w, <2>2 DEF TypeOK, Ends
    <2>4. Copied'
      BY <1>w DEF Copied
    <2>5. FirstLink'
      BY <1>w DEF FirstLink
    <2>6. CASE logical = << >>
      <3>1. buf = Mbr(layout)
        BY <1>w, <2>6 DEF Head0
      <3>2. layout.slots[1] # PART_EMPTY
        BY <1>m, <1>w, <3>1
      <3>3. tab > 1
        BY <1>t, <1>w, <3>2 DEF Copied
      <3>4. primary # << >> /\ primary[1] = Mbr(layout)[1]
        BY <1>t, <3>3 DEF Copied
      <3>5. Head0'
        BY <1>w, <2>2, <2>6, <3>1, <3>4 DEF Head0
      <3> QED BY <2>3, <2>4, <2>5, <3>5
    <2>7. CASE logical # << >>
      <3>1. Head0'
        BY <1>w, <2>2, <2>7 DEF Head0
      <3> QED BY <2>3, <2>4, <2>5, <3>1
    <2> QED BY <2>6, <2>7
  <1>e. buf[1] \in Entry /\ buf[2] \in Entry
    BY <1>t DEF Table
  <1>5. CASE walk_next
    <2>1. <<buf[1], buf[2]>> \in Seq(Entry) /\ Len(<<buf[1], buf[2]>>) = 2
      BY <1>e
    <2>2. logical' \in Seq(Entry)
      BY <1>5, <1>t, <2>1 DEF walk_next, copy_logical
    <2>3. buf[2].lba + At(logical', 0).lba \in Nat
      <3>1. At(logical', 0).lba \in Nat
        BY <2>2, AtType
      <3>2. buf[2].lba \in Nat
        BY <1>e DEF Entry
      <3> QED BY <3>1, <3>2
    <2>4. buf' \in Table
      BY <1>5, <1>t, <2>3, SectorType DEF walk_next
    <2> DEFINE entries == <<buf[1], buf[2]>>
    <2>5. /\ entries \in Seq(Entry) /\ Len(entries) > 0 /\ entries[1] = buf[1]
          /\ logical' = logical \o entries
      BY <1>5, <2>1 DEF walk_next, copy_logical
    <2>6. /\ pc = "ebr" /\ buf[1].id # PART_EMPTY
          /\ pc' \in {"ebr", "find", "overrun"}
          /\ UNCHANGED <<layout, tab, primary, base_sector>>
      BY <1>5 DEF walk_next, copy_logical
    <2> HIDE DEF entries
    <2> QED BY <1>w, <2>4, <2>5, <2>6
  <1>6. CASE walk_last
    <2>1. <<buf[1]>> \in Seq(Entry) /\ Len(<<buf[1]>>) = 1
      BY <1>e
    <2> DEFINE entries == <<buf[1]>>
    <2>2. /\ entries \in Seq(Entry) /\ Len(entries) > 0 /\ entries[1] = buf[1]
          /\ logical' = logical \o entries
      BY <1>6, <2>1 DEF walk_last, copy_logical
    <2>3. /\ pc = "ebr" /\ buf[1].id # PART_EMPTY
          /\ pc' \in {"ebr", "find", "overrun"}
          /\ UNCHANGED <<layout, tab, primary, base_sector>> /\ buf' \in Table
      BY <1>6, <1>t DEF walk_last, copy_logical
    <2> HIDE DEF entries
    <2> QED BY <1>w, <2>2, <2>3
  <1>7. CASE walk_end
    <2>1. TypeOK'
      BY <1>7, <1>t DEF walk_end, TypeOK
    <2>2. Copied' /\ FirstLink' /\ Head0'
      BY <1>7, <1>t DEF walk_end, Copied, FirstLink, Head0
    <2> QED BY <2>1, <2>2
  <1>f. ASSUME pc = "find", UNCHANGED <<layout, buf, tab, primary, logical>>,
               pc' \in Ends, base_sector' \in Nat
        PROVE  TInv'
    <2>1. TypeOK'
      BY <1>f, <1>t DEF TypeOK, Ends
    <2>2. Copied' /\ FirstLink' /\ Head0'
      BY <1>f, <1>t DEF Ends, Copied, FirstLink, Head0
    <2> QED BY <2>1, <2>2
  <1>8. CASE find_primary
    <2> DEFINE found == FinuxParts(primary, PRIMARY_MAX_CNT)
    <2>1. Min(found) \in Nat
      BY <1>8, FoundPart DEF find_primary, PRIMARY_MAX_CNT
    <2>2. At(primary, Min(found)).lba \in Nat /\ At(logical, 0).lba \in Nat
      BY <1>t, <2>1, AtType
    <2>3. base_sector' = At(primary, Min(found)).lba + At(logical, 0).lba
      BY <1>8 DEF find_primary
    <2> HIDE DEF found
    <2> QED BY <1>8, <1>f, <2>2, <2>3 DEF find_primary, Ends
  <1>9. CASE find_logical
    <2> DEFINE part == Min(FinuxParts(logical, LOGIC_MAX_CNT))
    <2>1. part \in FinuxParts(logical, LOGIC_MAX_CNT)
      BY <1>9, FoundPart DEF find_logical, LOGIC_MAX_CNT
    <2>2. base_sector' = At(logical, 0).lba + LinkLBA(part) + At(logical, part).lba
      BY <1>9 DEF find_logical
    <2>3. part \in 1 .. LOGIC_MAX_CNT - 1
      <3> HIDE DEF part
      <3> QED BY <1>9, <2>1, NotTheFirst DEF find_logical
    <2> HIDE DEF part
    <2>4. part \in Nat /\ part - 1 \in Nat
      BY <2>3 DEF LOGIC_MAX_CNT
    <2>5. /\ At(logical, 0).lba \in Nat /\ At(logical, part).lba \in Nat
          /\ At(logical, part - 1).lba \in Nat
      BY <1>t, <2>4, AtType
    <2>6. LinkLBA(part) \in Nat
      BY <2>5 DEF LinkLBA
    <2>7. base_sector' \in Nat
      BY <2>2, <2>5, <2>6
    <2> QED BY <1>9, <1>f, <2>7 DEF find_logical, Ends
  <1>10. CASE find_none
    <2>1. At(logical, 0).lba \in Nat
      BY <1>t, AtType
    <2> QED BY <1>10, <1>f, <2>1 DEF find_none, Ends
  <1>11. CASE find_unassigned
    <2>1. At(logical, 0).lba \in Nat
      BY <1>t, AtType
    <2> QED BY <1>11, <1>f, <2>1 DEF find_unassigned, Ends
  <1>12. CASE UNCHANGED vars
    BY <1>12 DEF vars, TypeOK, Copied, FirstLink, Head0
  <1> QED BY <1>1, <1>2, <1>3, <1>4, <1>5, <1>6, <1>7, <1>8, <1>9, <1>10, <1>11,
            <1>12 DEF Next, get_part_information, make_fs

\* The search is well typed on every disk; make_fs, above all, never looks at
\* the entry before logical[0] (get_part_information, make_fs).
THEOREM SearchTypes == Spec => []TypeOK
  <1>1. TInv => TypeOK
    BY DEF TInv
  <1> QED BY InitTInv, StepTInv, <1>1, PTL DEF Spec

-----------------------------------------------------------------------------
(* The walk along the extended boot records.                                *)

\* Which of the n logical partitions the i-th entry of logical[] belongs to.
LEMMA PlaceOf ==
    ASSUME NEW n \in Nat, NEW len \in Nat, NEW i \in Nat, NEW k \in Nat, i < len,
           (n = 0 /\ len = 1) \/ (n > 0 /\ len = 2 * n)
    PROVE  /\ k > 1 /\ i = 2 * k - 2 => k \in 1 .. n
           /\ k > 0 /\ i = 2 * k - 1 => k \in 1 .. n
  OBVIOUS

\* What logical[] holds when the walk is over.
LEMMA EntriesRead ==
    ASSUME TypeOK, ChainRead, Len(logical) <= LOGIC_MAX_CNT
    PROVE  /\ At(logical, 0) = [id |-> PART_EXTENDED, lba |-> ExtendedLBA(layout)]
           /\ \A k \in 1 .. Len(layout.logical) :
                /\ 2 * k - 1 \in 0 .. LOGIC_MAX_CNT - 1
                /\ At(logical, 2 * k - 1) = [id |-> layout.logical[k], lba |-> Gap]
                /\ k > 1 => At(logical, 2 * k - 2)
                                = [id |-> PART_EXTENDED, lba |-> EbrOffset(k)]
           /\ \A i \in FinuxParts(logical, LOGIC_MAX_CNT) :
                \E k \in FinuxLogical(layout) : i = 2 * k - 1
  <1>0. PICK n \in Nat : n = Len(layout.logical)
    BY LayoutTypes DEF TypeOK
  <1>1. n \in Nat /\ Len(logical) \in Nat
    BY DEF TypeOK
  <1>2. /\ n = 0 => Len(logical) = 1 /\ Walked(1)
        /\ n # 0 => /\ Len(logical) = 2 * n /\ Walked(n)
                    /\ logical[2 * n] = [id |-> layout.logical[n], lba |-> Gap]
    BY <1>0 DEF ChainRead
  <1>a. (n = 0 => Len(logical) = 1) /\ (n # 0 => Len(logical) = 2 * n)
    BY <1>2, Zenon
  <1>l. (n = 0 /\ Len(logical) = 1) \/ (n > 0 /\ Len(logical) = 2 * n)
    BY <1>1, <1>a
  <1>3. At(logical, 0) = [id |-> PART_EXTENDED, lba |-> ExtendedLBA(layout)]
    BY <1>1, <1>2 DEF At, Walked
  <1>4. ASSUME NEW k \in 1 .. n
        PROVE  /\ 2 * k - 1 \in 0 .. LOGIC_MAX_CNT - 1
               /\ At(logical, 2 * k - 1) = [id |-> layout.logical[k], lba |-> Gap]
               /\ k > 1 => At(logical, 2 * k - 2)
                               = [id |-> PART_EXTENDED, lba |-> EbrOffset(k)]
    <2>1. n # 0 /\ k \in Nat /\ k >= 1 /\ k <= n
      BY <1>1, <1>4
    <2>2. 2 * k - 1 \in 0 .. LOGIC_MAX_CNT - 1
      BY <1>1, <1>2, <2>1 DEF LOGIC_MAX_CNT
    <2>3. 2 * k - 1 < Len(logical) /\ 2 * k - 2 < Len(logical)
      BY <1>1, <1>2, <2>1
    <2>4. logical[2 * k] = [id |-> layout.logical[k], lba |-> Gap]
      <3>1. CASE k = n
        BY <1>2, <2>1, <3>1
      <3>2. CASE k < n
        <4>1. k \in 1 .. n - 1
          BY <1>1, <2>1, <3>2
        <4> QED BY <1>2, <2>1, <4>1 DEF Walked
      <3> QED BY <1>1, <2>1, <3>1, <3>2
    <2>5. (2 * k - 1) + 1 = 2 * k /\ (2 * k - 2) + 1 = 2 * (k - 1) + 1
          /\ (k - 1) + 1 = k
      BY <2>1
    <2>6. At(logical, 2 * k - 1) = [id |-> layout.logical[k], lba |-> Gap]
      BY <2>3, <2>4, <2>5 DEF At
    <2>7. ASSUME k > 1
          PROVE  At(logical, 2 * k - 2) = [id |-> PART_EXTENDED, lba |-> EbrOffset(k)]
      <3>1. k - 1 \in 1 .. n - 1
        BY <1>1, <2>1, <2>7
      <3>2. logical[2 * (k - 1) + 1] = [id |-> PART_EXTENDED, lba |-> EbrOffset(k)]
        BY <1>2, <2>1, <2>5, <3>1 DEF Walked
      <3> QED BY <2>3, <2>5, <3>2 DEF At
    <2> QED BY <2>2, <2>6, <2>7
  <1>5. ASSUME NEW i \in FinuxParts(logical, LOGIC_MAX_CNT)
        PROVE  \E k \in FinuxLogical(layout) : i = 2 * k - 1
    <2>1. i \in Nat /\ At(logical, i).id = FINUX_SYSID
      BY <1>5 DEF FinuxParts, LOGIC_MAX_CNT
    <2>2. i < Len(logical)
      BY <2>1 DEF At, EmptyEntry
    <2>3. PICK j \in Nat : i = 2 * j \/ i = 2 * j + 1
      BY <2>1, HalfOf
    <2>4. CASE i = 2 * j
      <3>1. CASE j = 0
        BY <1>3, <2>1, <2>4, <3>1
      <3>2. CASE j > 0
        <4>1. PICK k \in Nat : k = j + 1
          BY <2>3
        <4>a. k > 1 /\ i = 2 * k - 2
          BY <2>4, <3>2, <4>1
        <4>2. k \in 1 .. n /\ k > 1 /\ 2 * k - 2 = i
          BY <1>1, <1>l, <2>1, <2>2, <4>a, PlaceOf
        <4>3. At(logical, 2 * k - 2) = [id |-> PART_EXTENDED, lba |-> EbrOffset(k)]
          BY <1>4, <4>2, Zenon
        <4> QED BY <2>1, <4>2, <4>3
      <3> QED BY <2>3, <3>1, <3>2
    <2>5. CASE i = 2 * j + 1
      <3>1. PICK k \in Nat : k = j + 1
        BY <2>3
      <3>a. k > 0 /\ i = 2 * k - 1
        BY <2>5, <3>1
      <3>2. k \in 1 .. n /\ 2 * k - 1 = i
        BY <1>1, <1>l, <2>1, <2>2, <3>a, PlaceOf
      <3>3. At(logical, 2 * k - 1) = [id |-> layout.logical[k], lba |-> Gap]
        BY <1>4, <3>2, Zenon
      <3>4. k \in FinuxLogical(layout)
        BY <1>0, <2>1, <3>2, <3>3 DEF FinuxLogical
      <3> QED BY <3>2, <3>4
    <2> QED BY <2>3, <2>4, <2>5
  <1> QED BY <1>0, <1>3, <1>4, <1>5

\* A round of the walk leaves the entries before as they were.
LEMMA WalkedOn ==
    ASSUME logical \in Seq(Entry), NEW k \in Nat \ {0}, Len(logical) = 2 * k - 1,
           Walked(k), NEW more \in Seq(Entry), logical' = logical \o more,
           layout' = layout
    PROVE  /\ Len(logical') = 2 * k - 1 + Len(more)
           /\ \A j \in 1 .. Len(more) : logical'[2 * k - 1 + j] = more[j]
           /\ Walked(k)'
  <1>1. \A i \in 1 .. 2 * k - 1 : logical'[i] = logical[i]
    OBVIOUS
  <1>2. logical'[1] = logical[1]
    BY <1>1
  <1>3. \A j \in 1 .. k - 1 : /\ logical'[2 * j] = logical[2 * j]
                              /\ logical'[2 * j + 1] = logical[2 * j + 1]
    BY <1>1
  <1>4. Walked(k)'
    BY <1>2, <1>3 DEF Walked, ExtendedLBA, SlotLBA, EbrOffset
  <1>5. Len(logical') = 2 * k - 1 + Len(more)
    <2>1. Len(logical') = Len(logical) + Len(more)
      BY ConcatProperties, Zenon
    <2> QED BY <2>1
  <1>6. ASSUME NEW j \in 1 .. Len(more)
        PROVE  logical'[2 * k - 1 + j] = more[j]
    <2>1. PICK i \in Nat : i = 2 * k - 1 + j
      BY <1>6
    <2>2. i > Len(logical) /\ i - Len(logical) = j /\ i <= Len(logical) + Len(more)
      BY <1>6, <2>1
    <2>3. logical'[i] = more[i - Len(logical)]
      BY <2>1, <2>2
    <2> QED BY <2>1, <2>2, <2>3
  <1> QED BY <1>4, <1>5, <1>6

LEMMA InitCInv == Init => CInv
  BY InitTInv DEF CInv, Init, BaseRight, InBounds, Ends

\* The link of the extended partition is in logical[0] when the walk begins.
LEMMA BeginChain ==
    ASSUME CInv, read_extended, Reached(layout)
    PROVE  OnChain'
  <1>t. layout \in Layouts /\ tab \in 1 .. 5 /\ logical \in Seq(Entry)
    BY DEF CInv, TInv, TypeOK
  <1>1. PICK i \in 1 .. 4 : /\ layout.slots[i] = PART_EXTENDED
                            /\ \A j \in 1 .. i : layout.slots[j] # PART_EMPTY
    BY DEF Reached
  <1>2. tab <= 4 => layout.slots[tab] = PART_EMPTY
    BY <1>t, MbrType DEF CInv, TInv, FirstLink, read_extended
  <1>3. i \in 1 .. tab - 1
    BY <1>t, <1>1, <1>2
  <1>4. /\ HasExtended(layout) /\ ExtendedLBA(layout) \in Nat
        /\ Mbr(layout)[i] = [id |-> PART_EXTENDED, lba |-> ExtendedLBA(layout)]
    BY <1>t, <1>1, ExtendedAt
  <1>5. Len(logical) = 1 /\ logical[1] = [id |-> PART_EXTENDED, lba |-> ExtendedLBA(layout)]
    BY <1>1, <1>3, <1>4 DEF CInv, TInv, FirstLink, read_extended
  <1>6. At(logical, 0).lba = ExtendedLBA(layout)
    BY <1>5 DEF At
  <1>7. 1 \in 1 .. Max({1, Len(layout.logical)})
    <2>1. PICK n \in Nat : n = Len(layout.logical)
      BY <1>t, LayoutTypes
    <2>2. Max({1, n}) \in Nat \ {0}
      BY Ebrs
    <2> QED BY <2>1, <2>2
  <1>8. ExtendedLBA(layout) = ExtendedLBA(layout) + EbrOffset(1)
    BY <1>4, LayoutAssumption DEF EbrOffset
  <1>9. buf' = Ebr(layout, 1)
    BY <1>t, <1>4, <1>6, <1>7, <1>8, SectorOfEbr DEF read_extended
  <1>10. Len(logical') = 2 * 1 - 1 /\ Walked(1)' /\ buf' = Ebr(layout, 1)'
    BY <1>5, <1>9 DEF read_extended, Walked, ExtendedLBA, SlotLBA, Ebr, EbrOffset
  <1>11. 1 \in (1 .. Max({1, Len(layout.logical)}))'
    BY <1>7 DEF read_extended
  <1> QED BY <1>10, <1>11 DEF OnChain

\* A round that copies a link goes on to the EBR it names, ...
LEMMA FollowChain ==
    ASSUME CInv, walk_next, Reached(layout)
    PROVE  /\ OnChain'
           /\ pc' = "overrun" => Len(layout.logical) > LOGIC_MAX_CNT \div 2
  <1>t. /\ layout \in Layouts /\ logical \in Seq(Entry)
        /\ buf[1] \in Entry /\ buf[2] \in Entry
    BY DEF CInv, TInv, TypeOK, Table
  <1>n. PICK n \in Nat : n = Len(layout.logical)
    BY <1>t, LayoutTypes
  <1>1. PICK k \in 1 .. Max({1, n}) :
            Len(logical) = 2 * k - 1 /\ Walked(k) /\ buf = Ebr(layout, k)
    BY <1>n DEF CInv, OnChain, walk_next
  <1>2. Max({1, n}) \in Nat /\ (n > 0 => Max({1, n}) = n)
    BY Ebrs
  <1>3. k \in Nat \ {0}
    BY <1>1, <1>2
  <1>4. buf[1].id # PART_EMPTY /\ buf[2].id # PART_EMPTY
    BY DEF walk_next
  <1>5. k < n
    <2>1. buf[2] = IF k < n THEN [id |-> PART_EXTENDED, lba |-> EbrOffset(k + 1)]
                   ELSE EmptyEntry
      BY <1>n, <1>t, <1>1, <1>3, EbrFields
    <2> QED BY <1>4, <2>1 DEF EmptyEntry
  <1>6. /\ buf[1] = [id |-> layout.logical[k], lba |-> Gap]
        /\ buf[2] = [id |-> PART_EXTENDED, lba |-> EbrOffset(k + 1)]
    <2>1. k <= Len(layout.logical) /\ k < Len(layout.logical)
      BY <1>n, <1>3, <1>5
    <2> QED BY <1>t, <1>1, <1>3, <2>1, EbrFields
  <1>7. PICK more \in Seq(Entry) : /\ logical' = logical \o more /\ Len(more) = 2
                                   /\ more[1] = buf[1] /\ more[2] = buf[2]
    <2>1. <<buf[1], buf[2]>> \in Seq(Entry)
      BY <1>t
    <2>2. logical' = logical \o <<buf[1], buf[2]>>
      BY DEF walk_next, copy_logical
    <2> QED BY <2>1, <2>2
  <1>8. layout' = layout
    BY DEF walk_next
  <1>9. /\ Len(logical') = 2 * k - 1 + 2 /\ Walked(k)'
        /\ logical'[2 * k - 1 + 1] = buf[1] /\ logical'[2 * k - 1 + 2] = buf[2]
    <2>1. /\ Len(logical') = 2 * k - 1 + Len(more) /\ Walked(k)'
          /\ \A j \in 1 .. Len(more) : logical'[2 * k - 1 + j] = more[j]
      BY <1>t, <1>1, <1>3, <1>7, <1>8, WalkedOn, Zenon
    <2>2. 1 \in 1 .. Len(more) /\ 2 \in 1 .. Len(more)
      BY <1>7
    <2>3. logical'[2 * k - 1 + 1] = more[1] /\ logical'[2 * k - 1 + 2] = more[2]
      BY <2>1, <2>2, Zenon
    <2>4. Len(logical') = 2 * k - 1 + 2
      BY <1>7, <2>1
    <2> QED BY <1>7, <2>1, <2>3, <2>4, Zenon
  <1>10. PICK m \in Nat \ {0} : m = k + 1
    BY <1>3
  <1>11. /\ Len(logical') = 2 * m - 1 /\ 2 * k - 1 + 1 = 2 * k /\ 2 * k - 1 + 2 = 2 * k + 1
         /\ m - 1 = k
    BY <1>3, <1>9, <1>10
  <1>12. /\ logical'[2 * k] = [id |-> layout.logical[k], lba |-> Gap]
         /\ logical'[2 * k + 1] = [id |-> PART_EXTENDED, lba |-> EbrOffset(k + 1)]
    BY <1>6, <1>9, <1>11
  <1>13. Walked(m)'
    <2>1. logical'[1] = [id |-> PART_EXTENDED, lba |-> ExtendedLBA(layout)']
      BY <1>9 DEF Walked
    <2>2. ASSUME NEW j \in 1 .. m - 1
          PROVE  /\ logical'[2 * j] = [id |-> (layout.logical[j])', lba |-> Gap]
                 /\ logical'[2 * j + 1] = [id |-> PART_EXTENDED, lba |-> EbrOffset(j + 1)]
      <3>1. CASE j = k
        BY <1>8, <1>12, <3>1
      <3>2. CASE j \in 1 .. k - 1
        BY <1>9, <3>2 DEF Walked
      <3> QED BY <1>3, <1>11, <2>2, <3>1, <3>2
    <2> QED BY <2>1, <2>2 DEF Walked
  <1>14. m \in 1 .. Max({1, n})
    BY <1>2, <1>3, <1>5, <1>10
  <1>15. HasExtended(layout) /\ ExtendedLBA(layout) \in Nat
    BY <1>t, ExtendedAt DEF Reached
  <1>16. EbrOffset(m) \in Nat
    BY <1>3, <1>10, Multiples DEF EbrOffset
  <1>17. buf' = Ebr(layout, m)
    <2>1. At(logical', 0).lba = ExtendedLBA(layout)
      <3>1. logical'[1] = [id |-> PART_EXTENDED, lba |-> ExtendedLBA(layout)]
        BY <1>8, <1>13 DEF Walked, ExtendedLBA
      <3>2. 0 < Len(logical')
        BY <1>3, <1>9
      <3> QED BY <3>1, <3>2 DEF At
    <2>2. buf' = Sector(layout, EbrOffset(m) + ExtendedLBA(layout))
      BY <1>6, <1>10, <2>1 DEF walk_next
    <2>3. EbrOffset(m) + ExtendedLBA(layout) = ExtendedLBA(layout) + EbrOffset(m)
      BY <1>15, <1>16
    <2> QED BY <1>n, <1>t, <1>14, <1>15, <2>2, <2>3, SectorOfEbr
  <1>18. OnChain'
    <2>1. buf' = Ebr(layout, m)'
      BY <1>8, <1>17 DEF Ebr
    <2>2. m \in 1 .. Max({1, Len(layout'.logical)})
      BY <1>n, <1>8, <1>14
    <2> QED BY <1>11, <1>13, <2>1, <2>2 DEF OnChain
  <1>19. ASSUME pc' = "overrun"
         PROVE  n > LOGIC_MAX_CNT \div 2
    <2>1. Len(logical) + 2 > LOGIC_MAX_CNT
      BY <1>19 DEF walk_next, copy_logical
    <2>2. 2 * k - 1 + 2 > 10
      BY <1>1, <2>1 DEF LOGIC_MAX_CNT
    <2>3. n > 5
      BY <1>3, <1>5, <2>2
    <2> QED BY <2>3 DEF LOGIC_MAX_CNT
  <1> QED BY <1>n, <1>18, <1>19

\* ... one that copies a partition without a link is the last, ...
LEMMA EndChain ==
    ASSUME CInv, walk_last, Reached(layout)
    PROVE  /\ pc' # "overrun" => ChainRead' /\ Len(logical') <= LOGIC_MAX_CNT
           /\ pc' = "overrun" => Len(layout.logical) > LOGIC_MAX_CNT \div 2
  <1>t. layout \in Layouts /\ logical \in Seq(Entry) /\ buf[1] \in Entry
    BY DEF CInv, TInv, TypeOK, Table
  <1>n. PICK n \in Nat : n = Len(layout.logical)
    BY <1>t, LayoutTypes
  <1>1. PICK k \in 1 .. Max({1, n}) :
            Len(logical) = 2 * k - 1 /\ Walked(k) /\ buf = Ebr(layout, k)
    BY <1>n DEF CInv, OnChain, walk_last
  <1>2. Max({1, n}) \in Nat /\ (n > 0 => Max({1, n}) = n)
    BY Ebrs
  <1>3. k \in Nat \ {0}
    BY <1>1, <1>2
  <1>4. buf[1].id # PART_EMPTY /\ buf[2].id = PART_EMPTY
    BY DEF walk_last
  <1>5. k <= n /\ ~(k < n)
    <2>1. buf[1] = IF k <= n THEN [id |-> layout.logical[k], lba |-> Gap]
                   ELSE EmptyEntry
      BY <1>n, <1>t, <1>1, <1>3, EbrFields
    <2>2. buf[2] = IF k < n THEN [id |-> PART_EXTENDED, lba |-> EbrOffset(k + 1)]
                   ELSE EmptyEntry
      BY <1>n, <1>t, <1>1, <1>3, EbrFields
    <2>3. k <= n
      BY <1>4, <2>1 DEF EmptyEntry
    <2>4. ~(k < n)
      BY <1>4, <2>2
    <2> QED BY <2>3, <2>4
  <1>6. k = n /\ n > 0
    BY <1>3, <1>5
  <1>7. buf[1] = [id |-> layout.logical[k], lba |-> Gap]
    <2>1. k <= Len(layout.logical)
      BY <1>n, <1>5
    <2> QED BY <1>t, <1>1, <1>3, <2>1, EbrFields
  <1>8. PICK more \in Seq(Entry) : /\ logical' = logical \o more /\ Len(more) = 1
                                   /\ more[1] = buf[1]
    <2>1. <<buf[1]>> \in Seq(Entry)
      BY <1>t
    <2>2. logical' = logical \o <<buf[1]>>
      BY DEF walk_last, copy_logical
    <2> QED BY <2>1, <2>2
  <1>9. layout' = layout
    BY DEF walk_last
  <1>10. /\ Len(logical') = 2 * k - 1 + 1 /\ Walked(k)'
         /\ logical'[2 * k - 1 + 1] = buf[1]
    <2>1. /\ Len(logical') = 2 * k - 1 + Len(more) /\ Walked(k)'
          /\ \A j \in 1 .. Len(more) : logical'[2 * k - 1 + j] = more[j]
      BY <1>t, <1>1, <1>3, <1>8, <1>9, WalkedOn, Zenon
    <2> QED BY <1>8, <2>1
  <1>11. 2 * k - 1 + 1 = 2 * k /\ 2 * k \in Nat
    BY <1>3
  <1>12. /\ Len(logical') = 2 * n /\ Walked(n)'
         /\ logical'[2 * n] = [id |-> layout.logical[n], lba |-> Gap]
    BY <1>6, <1>7, <1>10, <1>11
  <1>13. n = Len(layout'.logical) /\ n # 0
    BY <1>n, <1>6, <1>9
  <1>14. ChainRead'
    BY <1>9, <1>12, <1>13 DEF ChainRead
  <1>15. /\ pc' = "overrun" <=> Len(logical) + 1 > LOGIC_MAX_CNT
    BY DEF walk_last, copy_logical
  <1>16. /\ pc' # "overrun" => Len(logical') <= LOGIC_MAX_CNT
         /\ pc' = "overrun" => n > LOGIC_MAX_CNT \div 2
    <2>1. Len(logical) + 1 = 2 * n /\ Len(logical') = 2 * n
      BY <1>1, <1>3, <1>6, <1>12
    <2> QED BY <1>15, <2>1 DEF LOGIC_MAX_CNT
  <1> QED BY <1>n, <1>14, <1>16

\* ... and an EBR without a partition is that of an empty extended partition.
LEMMA NoChain ==
    ASSUME CInv, walk_end, Reached(layout)
    PROVE  ChainRead' /\ Len(logical') <= LOGIC_MAX_CNT
  <1>t. layout \in Layouts
    BY DEF CInv, TInv, TypeOK
  <1>n. PICK n \in Nat : n = Len(layout.logical)
    BY <1>t, LayoutTypes
  <1>1. PICK k \in 1 .. Max({1, n}) :
            Len(logical) = 2 * k - 1 /\ Walked(k) /\ buf = Ebr(layout, k)
    BY <1>n DEF CInv, OnChain, walk_end
  <1>2. Max({1, n}) \in Nat /\ Max({1, n}) = IF n = 0 THEN 1 ELSE n
    BY Ebrs
  <1>3. k \in Nat \ {0}
    BY <1>1, <1>2
  <1>4. ~(k <= n)
    <2>1. SUFFICES ASSUME k <= n
                   PROVE  FALSE
      OBVIOUS
    <2>2. buf[1] = [id |-> layout.logical[k], lba |-> Gap]
      BY <1>n, <1>t, <1>1, <1>3, <2>1, EbrFields
    <2>3. layout.logical[k] \in {OTHER_SYSID, FINUX_SYSID}
      BY <1>n, <1>t, <1>3, <2>1, LayoutTypes
    <2> QED BY <2>2, <2>3 DEF walk_end
  <1>5. n = 0 /\ k = 1
    BY <1>1, <1>2, <1>3, <1>4
  <1>6. Len(logical) = 1 /\ Walked(1)
    BY <1>1, <1>5
  <1>7. UNCHANGED <<layout, logical>>
    BY DEF walk_end
  <1>8. Walked(1)'
    BY <1>6, <1>7 DEF Walked, ExtendedLBA
  <1>9. ChainRead'
    BY <1>n, <1>5, <1>6, <1>7, <1>8 DEF ChainRead
  <1>10. Len(logical') = 1
    BY <1>6, <1>7
  <1> QED BY <1>9, <1>10 DEF LOGIC_MAX_CNT

-----------------------------------------------------------------------------
(* The search for the Finux entry.                                          *)

\* Without a Finux entry in the MBR there is none in primary[].
LEMMA NoneCopied ==
    ASSUME TInv, NoPrimaryFinux(layout)
    PROVE  FinuxParts(primary, PRIMARY_MAX_CNT) = {}
  <1>1. SUFFICES ASSUME NEW i \in FinuxParts(primary, PRIMARY_MAX_CNT)
                 PROVE  FALSE
    OBVIOUS
  <1>2. i \in 0 .. 3 /\ At(primary, i).id = FINUX_SYSID
    BY <1>1 DEF FinuxParts, PRIMARY_MAX_CNT
  <1>3. layout \in Layouts /\ tab \in 1 .. 5 /\ Len(primary) = tab - 1
    BY DEF TInv, TypeOK, Copied
  <1>4. i < Len(primary) /\ primary[i + 1].id = FINUX_SYSID
    BY <1>2 DEF At, EmptyEntry
  <1>5. i + 1 \in 1 .. tab - 1 /\ i + 1 \in 1 .. 4
    BY <1>2, <1>3, <1>4
  <1>6. primary[i + 1] = Mbr(layout)[i + 1]
    BY <1>5 DEF TInv, Copied
  <1>7. Mbr(layout)[i + 1].id = layout.slots[i + 1]
    BY <1>3, <1>5, MbrType
  <1> QED BY <1>4, <1>5, <1>6, <1>7 DEF NoPrimaryFinux

\* The first Finux entry of logical[] is that of the first Finux partition, and
\* base_sector becomes its first sector.
LEMMA BaseFound ==
    ASSUME CInv, find_logical, Reached(layout)
    PROVE  /\ FinuxLogical(layout) # {}
           /\ base_sector' = LogicalLBA(layout, Min(FinuxLogical(layout)))
  <1> DEFINE found == FinuxParts(logical, LOGIC_MAX_CNT)
             part == Min(found)
             first == Min(FinuxLogical(layout))
  <1>t. TypeOK /\ layout \in Layouts
    BY DEF CInv, TInv, TypeOK
  <1>1. ChainRead /\ Len(logical) <= LOGIC_MAX_CNT
    BY DEF CInv, find_logical
  <1>2. found # {}
    BY DEF find_logical
  <1>3. part \in found /\ part \in Nat /\ \A y \in found : part <= y
    BY <1>2, FoundPart DEF LOGIC_MAX_CNT
  <1>4. \A i \in found : \E k \in FinuxLogical(layout) : i = 2 * k - 1
    BY <1>t, <1>1, EntriesRead
  <1>5. PICK k \in FinuxLogical(layout) : part = 2 * k - 1
    BY <1>3, <1>4
  <1>6. FinuxLogical(layout) \subseteq Nat \ {0}
    BY <1>t, LayoutTypes DEF FinuxLogical
  <1>7. first \in FinuxLogical(layout) /\ \A y \in FinuxLogical(layout) : first <= y
    BY <1>5, <1>6, Least
  <1> HIDE DEF first, found, part
  <1>8. first \in 1 .. Len(layout.logical) /\ layout.logical[first] = FINUX_SYSID
    BY <1>7 DEF FinuxLogical
  <1>9. /\ 2 * first - 1 \in 0 .. LOGIC_MAX_CNT - 1
        /\ At(logical, 2 * first - 1) = [id |-> layout.logical[first], lba |-> Gap]
        /\ first > 1 => At(logical, 2 * first - 2)
                            = [id |-> PART_EXTENDED, lba |-> EbrOffset(first)]
        /\ At(logical, 0) = [id |-> PART_EXTENDED, lba |-> ExtendedLBA(layout)]
    BY <1>t, <1>1, <1>8, EntriesRead, Zenon
  <1>10. 2 * first - 1 \in found
    BY <1>8, <1>9 DEF found, FinuxParts
  <1>11. first = k
    <2>1. first \in Nat /\ k \in Nat /\ first <= k
      BY <1>5, <1>6, <1>7
    <2>2. part <= 2 * first - 1
      BY <1>3, <1>10
    <2> QED BY <1>3, <1>5, <2>1, <2>2
  <1>12. first \in Nat \ {0} /\ part = 2 * first - 1 /\ part - 1 = 2 * first - 2
    BY <1>5, <1>6, <1>7, <1>11
  <1>13. base_sector' = At(logical, 0).lba + LinkLBA(part) + At(logical, part).lba
    BY DEF find_logical, part, found
  <1>14. At(logical, 0).lba = ExtendedLBA(layout) /\ At(logical, part).lba = Gap
    BY <1>9, <1>12
  <1>15. LinkLBA(part) = EbrOffset(first)
    <2>1. CASE first = 1
      <3>1. part - 1 = 0
        BY <1>12, <2>1
      <3>2. LinkLBA(part) = 0
        BY <3>1 DEF LinkLBA
      <3>3. EbrOffset(first) = 0
        BY <2>1, LayoutAssumption DEF EbrOffset
      <3> QED BY <3>2, <3>3
    <2>2. CASE first > 1
      <3>1. part - 1 # 0
        BY <1>12, <2>2
      <3>2. At(logical, part - 1) = [id |-> PART_EXTENDED, lba |-> EbrOffset(first)]
        BY <1>9, <1>12, <2>2
      <3> QED BY <1>9, <3>1, <3>2 DEF LinkLBA
    <2> QED BY <1>12, <2>1, <2>2
  <1>16. base_sector' = ExtendedLBA(layout) + EbrOffset(first) + Gap
    BY <1>13, <1>14, <1>15
  <1> QED BY <1>5, <1>16 DEF LogicalLBA, first

\* A PANIC means that the disk has no Finux partition among the logical ones.
LEMMA NoneFound ==
    ASSUME CInv, find_none, Reached(layout)
    PROVE  FinuxLogical(layout) = {}
  <1>t. TypeOK
    BY DEF CInv, TInv
  <1>1. ChainRead /\ Len(logical) <= LOGIC_MAX_CNT
    BY DEF CInv, find_none
  <1>2. SUFFICES ASSUME NEW k \in FinuxLogical(layout)
                 PROVE  FALSE
    OBVIOUS
  <1>3. k \in 1 .. Len(layout.logical) /\ layout.logical[k] = FINUX_SYSID
    BY <1>2 DEF FinuxLogical
  <1>4. /\ 2 * k - 1 \in 0 .. LOGIC_MAX_CNT - 1
        /\ At(logical, 2 * k - 1) = [id |-> layout.logical[k], lba |-> Gap]
    BY <1>t, <1>1, <1>3, EntriesRead, Zenon
  <1>5. 2 * k - 1 \in FinuxParts(logical, LOGIC_MAX_CNT)
    BY <1>3, <1>4 DEF FinuxParts
  <1> QED BY <1>5 DEF find_none

\* When the chain has been read into logical[], it was short enough.
LEMMA ShortChain ==
    ASSUME TypeOK, ChainRead, Len(logical) <= LOGIC_MAX_CNT
    PROVE  ~ (Len(layout.logical) > LOGIC_MAX_CNT \div 2)
  <1>1. PICK n \in Nat : n = Len(layout.logical)
    BY LayoutTypes DEF TypeOK
  <1>2. n # 0 => 2 * n <= 10
    BY <1>1 DEF ChainRead, LOGIC_MAX_CNT
  <1> QED BY <1>1, <1>2 DEF LOGIC_MAX_CNT

LEMMA StepCInv == CInv /\ [Next]_vars => CInv'
  <1> SUFFICES ASSUME CInv, [Next]_vars
               PROVE  CInv'
    OBVIOUS
  <1>t. TInv /\ TInv'
    BY StepTInv DEF CInv
  <1>l. layout' = layout
    BY DEF Next, get_part_information, make_fs, read_mbr, copy_primary, copy_fifth,
           read_extended, walk_next, walk_last, walk_end, find_primary, find_logical,
           find_none, find_unassigned, vars
  <1>r. /\ Reached(layout)' <=> Reached(layout)
        /\ NoPrimaryFinux(layout)' <=> NoPrimaryFinux(layout)
        /\ FinuxLogical(layout)' = FinuxLogical(layout)
        /\ LogicalLBA(layout, Min(FinuxLogical(layout)))'
                = LogicalLBA(layout, Min(FinuxLogical(layout)))
    BY <1>l
  <1>s. pc = "find" /\ Reached(layout) => ~ (Len(layout.logical) > LOGIC_MAX_CNT \div 2)
    BY <1>t, ShortChain DEF CInv, TInv
  <1>1. CASE read_mbr \/ copy_primary
    <2>1. pc' = "primary"
      BY <1>1 DEF read_mbr, copy_primary
    <2> QED BY <1>t, <2>1 DEF CInv, BaseRight, InBounds, Ends
  <1>3. CASE copy_fifth
    <2>1. \A i \in 1 .. 4 : layout.slots[i] # PART_EMPTY
      BY <1>3, <1>t DEF copy_fifth, TInv, Copied
    <2>2. pc' = "overrun"
      BY <1>3 DEF copy_fifth
    <2> QED BY <1>t, <1>l, <2>1, <2>2 DEF CInv, BaseRight, InBounds, Ends
  <1>4. CASE read_extended
    <2>1. pc' = "ebr"
      BY <1>4 DEF read_extended
    <2>2. Reached(layout) => OnChain'
      BY <1>4, BeginChain
    <2> QED BY <1>t, <1>r, <2>1, <2>2 DEF CInv, BaseRight, InBounds, Ends
  <1>5. CASE walk_next
    <2>1. pc' \in {"ebr", "overrun"}
      BY <1>5 DEF walk_next, copy_logical
    <2>2. Reached(layout) =>
            OnChain' /\ (pc' = "overrun" => Len(layout.logical) > LOGIC_MAX_CNT \div 2)
      BY <1>5, FollowChain
    <2> QED BY <1>t, <1>l, <1>r, <2>1, <2>2 DEF CInv, BaseRight, InBounds, Ends
  <1>6. CASE walk_last
    <2>1. pc' \in {"find", "overrun"}
      BY <1>6 DEF walk_last, copy_logical
    <2>2. Reached(layout) =>
            /\ pc' # "overrun" => ChainRead' /\ Len(logical') <= LOGIC_MAX_CNT
            /\ pc' = "overrun" => Len(layout.logical) > LOGIC_MAX_CNT \div 2
      BY <1>6, EndChain
    <2> QED BY <1>t, <1>l, <1>r, <2>1, <2>2 DEF CInv, BaseRight, InBounds, Ends
  <1>7. CASE walk_end
    <2>1. pc' = "find"
      BY <1>7 DEF walk_end
    <2>2. Reached(layout) => ChainRead' /\ Len(logical') <= LOGIC_MAX_CNT
      BY <1>7, NoChain
    <2> QED BY <1>t, <1>r, <2>1, <2>2 DEF CInv, BaseRight, InBounds, Ends
  <1>8. CASE find_primary
    <2>1. pc' = "found" /\ ~NoPrimaryFinux(layout)
      BY <1>8, <1>t, NoneCopied DEF find_primary
    <2>s. pc = "find"
      BY <1>8 DEF find_primary
    <2> QED BY <1>t, <1>l, <1>r, <1>s, <2>s, <2>1 DEF CInv, BaseRight, InBounds, Ends
  <1>9. CASE find_logical
    <2>1. pc' = "found"
      BY <1>9 DEF find_logical
    <2>2. Reached(layout) =>
            /\ FinuxLogical(layout) # {}
            /\ base_sector' = LogicalLBA(layout, Min(FinuxLogical(layout)))
      BY <1>9, BaseFound
    <2>s. pc = "find"
      BY <1>9 DEF find_logical
    <2> QED BY <1>t, <1>l, <1>r, <1>s, <2>s, <2>1, <2>2 DEF CInv, BaseRight, InBounds, Ends
  <1>10. CASE find_none
    <2>1. pc' = "panic"
      BY <1>10 DEF find_none
    <2>2. Reached(layout) => FinuxLogical(layout) = {}
      BY <1>10, NoneFound
    <2>s. pc = "find"
      BY <1>10 DEF find_none
    <2> QED BY <1>t, <1>l, <1>r, <1>s, <2>s, <2>1, <2>2 DEF CInv, BaseRight, InBounds, Ends
  <1>11. CASE find_unassigned
    <2>1. pc' = "unassigned"
      BY <1>11 DEF find_unassigned
    <2>2. ~Reached(layout)
      <3>1. SUFFICES ASSUME Reached(layout)
                     PROVE  FALSE
        OBVIOUS
      <3>2. TypeOK /\ ChainRead /\ Len(logical) <= LOGIC_MAX_CNT
        BY <1>11, <1>t, <3>1 DEF CInv, TInv, find_unassigned
      <3>3. At(logical, 0).id = PART_EXTENDED
        BY <3>2, EntriesRead
      <3> QED BY <1>11, <3>3 DEF find_unassigned
    <2>s. pc = "find"
      BY <1>11 DEF find_unassigned
    <2> QED BY <1>t, <1>l, <1>r, <1>s, <2>s, <2>1, <2>2 DEF CInv, BaseRight, InBounds, Ends
  <1>12. CASE UNCHANGED vars
    <2>1. (OnChain => OnChain') /\ (ChainRead => ChainRead')
      BY <1>12 DEF vars, OnChain, ChainRead, Walked, Ebr
    <2> QED BY <1>12, <1>t, <2>1 DEF vars, CInv, BaseRight, InBounds, Reached,
               NoPrimaryFinux, FinuxLogical, LogicalLBA
  <1> QED BY <1>1, <1>3, <1>4, <1>5, <1>6, <1>7, <1>8, <1>9, <1>10, <1>11,
            <1>12 DEF Next, get_part_information, make_fs

\* For any number of logical partitions and any size: the base of the file
\* system is the first sector of the first Finux logical partition
\* (get_part_information, make_fs).
THEOREM BaseIsRight == Spec => []BaseRight
  <1>1. CInv => BaseRight
    BY DEF CInv
  <1> QED BY InitCInv, StepCInv, <1>1, PTL DEF Spec

\* For any number of logical partitions: on a disk whose extended partition is
\* reached before an empty slot, the arrays are overrun exactly if there are more
\* than half of LOGIC_MAX_CNT logical partitions (get_part_information).
THEOREM CopiesInBounds == Spec => []InBounds
  <1>1. CInv => InBounds
    BY DEF CInv
  <1> QED BY InitCInv, StepCInv, <1>1, PTL DEF Spec

-----------------------------------------------------------------------------
(* The tool's search.                                                       *)

State(list, pos, stop, base) == [logical |-> list, pos |-> pos, stop |-> stop, base |-> base]
IsState(t) ==
    /\ t = State(t.logical, t.pos, t.stop, t.base)
    /\ t.logical \in Seq(Entry) /\ Len(t.logical) \in Nat \ {0} /\ t.stop \in BOOLEAN
ToolStart(l) == State(<<[id |-> PART_EXTENDED, lba |-> ExtendedLBA(l)]>>, 1, FALSE, 0)
Rounds(g, l, first) == g = [i \in 0 .. 10 |-> IF i = 0 THEN first ELSE tool_round(l, g[i - 1])]

\* The search has found nothing, and will only read the first EBR and sectors
\* that are no tables: a link of an EBR leads to the extended partition or to a
\* sector before it, and reading on ends at the first EBR unless that is the
\* only one.
Quiet(l, t) ==
    /\ IsState(t) /\ t.base = 0
    /\ t.logical[Len(t.logical)].id = PART_EXTENDED =>
            t.logical[Len(t.logical)].lba \in 1 .. ExtendedLBA(l)
    /\ t.logical[Len(t.logical)].id # PART_EXTENDED =>
            t.pos \in Nat \ {0} /\ (t.pos <= ExtendedLBA(l) \/ Len(l.logical) <= 1)

LEMMA IdsDiffer ==
    /\ PART_EMPTY # PART_EXTENDED /\ PART_EMPTY # OTHER_SYSID /\ PART_EMPTY # FINUX_SYSID
    /\ PART_EXTENDED # OTHER_SYSID /\ PART_EXTENDED # FINUX_SYSID /\ OTHER_SYSID # FINUX_SYSID
  BY DEF PART_EMPTY, PART_EXTENDED, OTHER_SYSID, FINUX_SYSID

\* What one entry does to the search.
LEMMA EntryStops ==
    ASSUME NEW t, IsState(t), NEW e, t.stop \/ e.id = PART_EMPTY
    PROVE  tool_entry(t, e) = State(t.logical, t.pos, TRUE, t.base)
  <1>1. tool_entry(t, e) = [t EXCEPT !.stop = TRUE]
    BY DEF tool_entry
  <1>2. PICK list, pos, stop, base :
            /\ t = [logical |-> list, pos |-> pos, stop |-> stop, base |-> base]
            /\ list = t.logical /\ pos = t.pos /\ base = t.base
    BY Zenon DEF IsState, State
  <1> QED BY <1>1, <1>2 DEF State

LEMMA EntryKept ==
    ASSUME NEW t, IsState(t), NEW e, t.stop = FALSE, e.id \in {PART_EXTENDED, OTHER_SYSID}
    PROVE  tool_entry(t, e) = State(Append(t.logical, e), t.pos, FALSE, t.base)
  <1>1. tool_entry(t, e) = [t EXCEPT !.logical = Append(@, e)]
    BY IdsDiffer DEF tool_entry
  <1>2. PICK list, pos, base :
            /\ t = [logical |-> list, pos |-> pos, stop |-> FALSE, base |-> base]
            /\ list = t.logical /\ pos = t.pos /\ base = t.base
    BY Zenon DEF IsState, State
  <1> QED BY <1>1, <1>2 DEF State

LEMMA EntryFinux ==
    ASSUME NEW t, IsState(t), NEW e, t.stop = FALSE, e.id = FINUX_SYSID, Len(t.logical) = 1
    PROVE  tool_entry(t, e) = State(t.logical, t.pos, TRUE, t.logical[1].lba + e.lba + 0)
  <1>1. tool_entry(t, e) = [t EXCEPT !.stop = TRUE, !.base = t.logical[1].lba + e.lba + 0]
    BY IdsDiffer DEF tool_entry
  <1>2. PICK list, pos, base :
            /\ t = [logical |-> list, pos |-> pos, stop |-> FALSE, base |-> base]
            /\ list = t.logical /\ pos = t.pos /\ base = t.base
    BY Zenon DEF IsState, State
  <1> QED BY <1>1, <1>2 DEF State

LEMMA StateFields ==
    ASSUME NEW list \in Seq(Entry), Len(list) \in Nat \ {0}, NEW pos, NEW stop \in BOOLEAN, NEW base
    PROVE  /\ IsState(State(list, pos, stop, base))
           /\ State(list, pos, stop, base).logical = list /\ State(list, pos, stop, base).pos = pos
           /\ State(list, pos, stop, base).stop = stop /\ State(list, pos, stop, base).base = base
  BY DEF IsState, State

LEMMA NextRead ==
    ASSUME NEW t, IsState(t), t.base = 0, NEW pos
    PROVE  [t EXCEPT !.pos = pos, !.stop = FALSE] = State(t.logical, pos, FALSE, 0)
  <1>1. PICK list, old, stop, base :
            /\ t = [logical |-> list, pos |-> old, stop |-> stop, base |-> base]
            /\ list = t.logical /\ base = t.base /\ stop \in BOOLEAN
    BY Zenon DEF IsState, State
  <1>2. PICK u : u = [t EXCEPT !.pos = pos]
    OBVIOUS
  <1>3. u = [logical |-> list, pos |-> pos, stop |-> stop, base |-> base]
    BY <1>1, <1>2
  <1>4. [u EXCEPT !.stop = FALSE] = [logical |-> list, pos |-> pos, stop |-> FALSE, base |-> base]
    <2>1. PICK b : b = FALSE
      OBVIOUS
    <2>2. [u EXCEPT !.stop = b] = [logical |-> list, pos |-> pos, stop |-> b, base |-> base]
      BY <1>3
    <2> QED BY <2>1, <2>2, Zenon
  <1>5. [t EXCEPT !.pos = pos, !.stop = FALSE] = [u EXCEPT !.stop = FALSE]
    BY <1>2, Zenon
  <1> QED BY <1>1, <1>4, <1>5, Zenon DEF State

LEMMA FirstEbr == ASSUME NEW n \in Nat PROVE 1 \in 1 .. Max({1, n})
  <1>1. Max({1, n}) = IF n = 0 THEN 1 ELSE n
    BY Ebrs
  <1> QED BY <1>1

LEMMA RoundIs ==
    ASSUME NEW l, NEW t, IsState(t), t.base = 0,
           NEW at, at = IF t.logical[Len(t.logical)].id = PART_EXTENDED
                        THEN t.logical[Len(t.logical)].lba ELSE t.pos
    PROVE  tool_round(l, t) =
               tool_entry(tool_entry(State(t.logical, at + 1, FALSE, 0), Sector(l, at)[1]), Sector(l, at)[2])
  <1>1. [t EXCEPT !.pos = at + 1, !.stop = FALSE] = State(t.logical, at + 1, FALSE, 0)
    BY NextRead, Zenon
  <1>2. tool_round(l, t) =
          tool_entry(tool_entry([t EXCEPT !.pos = at + 1, !.stop = FALSE], Sector(l, at)[1]), Sector(l, at)[2])
    BY Zenon DEF tool_round
  <1> QED BY <1>1, <1>2

\* The table at the first EBR, and at sectors that are no EBRs.
LEMMA TableRead ==
    ASSUME NEW l \in Layouts, HasExtended(l), NEW at \in Nat \ {0},
           at <= ExtendedLBA(l) \/ Len(l.logical) <= 1
    PROVE  /\ at = ExtendedLBA(l) => Sector(l, at) = Ebr(l, 1)
           /\ at # ExtendedLBA(l) =>
                Sector(l, at) = IF at \in DOMAIN l.data THEN l.data[at] ELSE EmptyTable
  <1>0. /\ ExtendedLBA(l) \in Nat \ {0} /\ Len(l.logical) \in Nat
        /\ Max({1, Len(l.logical)}) = IF Len(l.logical) = 0 THEN 1 ELSE Len(l.logical)
        /\ 1 \in 1 .. Max({1, Len(l.logical)})
    <2>1. Len(l.logical) \in Nat
      BY LayoutTypes
    <2>2. Max({1, Len(l.logical)}) = IF Len(l.logical) = 0 THEN 1 ELSE Len(l.logical)
      BY <2>1, Ebrs
    <2>3. ExtendedLBA(l) \in Nat \ {0}
      BY ExtendedAt DEF HasExtended
    <2>4. 1 \in 1 .. Max({1, Len(l.logical)})
      BY <2>1, FirstEbr
    <2> QED BY <2>1, <2>2, <2>3, <2>4
  <1>1. EbrOffset(1) = 0
    BY LayoutAssumption DEF EbrOffset
  <1>2. at = ExtendedLBA(l) => Sector(l, at) = Ebr(l, 1)
    <2>1. ExtendedLBA(l) + EbrOffset(1) = ExtendedLBA(l)
      BY <1>0, <1>1
    <2> QED BY <1>0, <2>1, SectorOfEbr
  <1>3. ASSUME at # ExtendedLBA(l) PROVE EbrsAt(l, at) = {}
    <2> SUFFICES ASSUME NEW k \in EbrsAt(l, at) PROVE FALSE
      OBVIOUS
    <2>1. k \in 1 .. Max({1, Len(l.logical)}) /\ at = ExtendedLBA(l) + EbrOffset(k)
      BY DEF EbrsAt
    <2>2. PICK j \in Nat : j = k - 1 /\ EbrOffset(k) = j * Size
      BY <1>0, <2>1 DEF EbrOffset
    <2>3. j * Size \in Nat /\ (j > 0 => j * Size > 0)
      BY Multiples
    <2>4. CASE j = 0
      BY <1>0, <1>1, <1>3, <2>1, <2>2, <2>4
    <2>5. CASE j > 0
      <3>1. ~ (Len(l.logical) <= 1)
        BY <1>0, <2>1, <2>2, <2>5
      <3>2. ~ (at <= ExtendedLBA(l))
        BY <1>0, <2>1, <2>2, <2>3, <2>5
      <3> QED BY <3>1, <3>2
    <2> QED BY <2>4, <2>5
  <1> QED BY <1>2, <1>3 DEF Sector

LEMMA Appended ==
    ASSUME NEW list \in Seq(Entry), NEW e \in Entry
    PROVE  /\ Append(list, e) \in Seq(Entry) /\ Len(Append(list, e)) \in Nat \ {0}
           /\ Append(list, e)[Len(Append(list, e))] = e
  OBVIOUS

\* u is the state within a round that reads the sector before pos.
Within(u, list, pos, stop) ==
    /\ u = State(list, pos, stop, 0) /\ IsState(u)
    /\ u.logical = list /\ u.pos = pos /\ u.stop = stop /\ u.base = 0

LEMMA IsWithin ==
    ASSUME NEW list, NEW pos, list \in Seq(Entry), Len(list) \in Nat \ {0}
    PROVE  \A stop \in BOOLEAN : Within(State(list, pos, stop, 0), list, pos, stop)
  BY StateFields DEF Within

LEMMA QuietState ==
    ASSUME NEW l, NEW list \in Seq(Entry), Len(list) \in Nat \ {0}, NEW pos \in Nat \ {0}, NEW stop \in BOOLEAN,
           list[Len(list)].id = PART_EXTENDED => list[Len(list)].lba \in 1 .. ExtendedLBA(l),
           list[Len(list)].id # PART_EXTENDED => pos <= ExtendedLBA(l) \/ Len(l.logical) <= 1
    PROVE  Quiet(l, State(list, pos, stop, 0))
  <1>1. PICK t : /\ t = State(list, pos, stop, 0) /\ IsState(t) /\ t.logical = list /\ t.pos = pos /\ t.base = 0
    BY StateFields
  <1>2. Quiet(l, t)
    BY <1>1, Zenon DEF Quiet
  <1> QED BY <1>1, <1>2

LEMMA FirstTable ==
    ASSUME NEW l \in Layouts
    PROVE  /\ Ebr(l, 1)[1] = IF 1 <= Len(l.logical) THEN [id |-> l.logical[1], lba |-> Gap] ELSE EmptyEntry
           /\ Ebr(l, 1)[2] = IF 1 < Len(l.logical) THEN [id |-> PART_EXTENDED, lba |-> EbrOffset(1 + 1)]
                             ELSE EmptyEntry
           /\ Ebr(l, 1)[1] \in Entry /\ Ebr(l, 1)[2] \in Entry
  <1>1. 1 \in Nat \ {0} /\ 1 \in 1 .. 4 /\ 2 \in 1 .. 4
    OBVIOUS
  <1>2. Ebr(l, 1) \in Table
    BY <1>1, EbrFields
  <1>3. Ebr(l, 1)[1] \in Entry /\ Ebr(l, 1)[2] \in Entry
    BY <1>1, <1>2 DEF Table
  <1> QED BY <1>1, <1>3, EbrFields, Zenon

\* What a sector that is no table may read as if none looks like one.
LEMMA PlainRead ==
    ASSUME NEW l \in Layouts, \A lba \in DOMAIN l.data : Plain(l.data[lba]), NEW at,
           NEW table, table = IF at \in DOMAIN l.data THEN l.data[at] ELSE EmptyTable
    PROVE  /\ table[1] \in Entry /\ table[1].id \in {PART_EMPTY, OTHER_SYSID}
           /\ table[2] \in Entry /\ table[2].id \in {PART_EMPTY, OTHER_SYSID}
  <1>1. l.data \in Others
    BY LayoutTypes
  <1>2. table \in Table /\ Plain(table)
    <2>1. EmptyTable \in Table /\ Plain(EmptyTable)
      BY DEF EmptyTable, EmptyEntry, Table, Entry, Ids, Plain
    <2> QED BY <1>1, <2>1, OthersAssumption
  <1>3. table[1] \in Entry /\ table[2] \in Entry
    BY <1>2 DEF Table
  <1>4. table[1].id \in Ids /\ table[2].id \in Ids
    BY <1>3 DEF Entry
  <1> QED BY <1>2, <1>3, <1>4 DEF Plain, Ids

\* Unless the first logical partition is a Finux one, or another sector looks
\* like a table, a round finds nothing.
LEMMA QuietRound ==
    ASSUME NEW l \in Layouts, HasExtended(l), ~ (Len(l.logical) > 0 /\ l.logical[1] = FINUX_SYSID),
           \A lba \in DOMAIN l.data : Plain(l.data[lba]), NEW t, Quiet(l, t)
    PROVE  Quiet(l, tool_round(l, t))
  <1>0. PICK n \in Nat : n = Len(l.logical) /\ (n > 0 => l.logical[1] = OTHER_SYSID)
    BY LayoutTypes
  <1>1. ExtendedLBA(l) \in Nat \ {0} /\ Size \in 1 .. ExtendedLBA(l)
    <2>1. PICK i \in 1 .. 4 : ExtendedLBA(l) = i * Size
      BY ExtendedAt DEF HasExtended
    <2>2. Size \in Nat \ {0}
      BY LayoutAssumption
    <2>3. PICK m \in Nat \ {0} : m = Size
      BY <2>2
    <2>4. i * m >= m /\ i * m \in Nat \ {0}
      <3>1. i = 1 \/ i = 2 \/ i = 3 \/ i = 4
        OBVIOUS
      <3> QED BY <3>1
    <2> QED BY <2>1, <2>3, <2>4
  <1>2. PICK list, last :
          /\ list = t.logical /\ last = list[Len(list)] /\ list \in Seq(Entry) /\ Len(list) \in Nat \ {0}
          /\ IsState(t) /\ t.base = 0
          /\ last.id = PART_EXTENDED => last.lba \in 1 .. ExtendedLBA(l)
          /\ last.id # PART_EXTENDED => t.pos \in Nat \ {0} /\ (t.pos <= ExtendedLBA(l) \/ n <= 1)
    BY <1>0, Zenon DEF Quiet, IsState
  <1>3. PICK at : at = IF last.id = PART_EXTENDED THEN last.lba ELSE t.pos
    OBVIOUS
  <1>4. at \in Nat \ {0} /\ (at <= ExtendedLBA(l) \/ n <= 1)
    BY <1>1, <1>2, <1>3
  <1>5. PICK s, table : /\ s = State(list, at + 1, FALSE, 0) /\ table = Sector(l, at)
                        /\ tool_round(l, t) = tool_entry(tool_entry(s, table[1]), table[2])
    <2>1. at = IF t.logical[Len(t.logical)].id = PART_EXTENDED THEN t.logical[Len(t.logical)].lba ELSE t.pos
      BY <1>2, <1>3, Zenon
    <2>2. tool_round(l, t) =
            tool_entry(tool_entry(State(t.logical, at + 1, FALSE, 0), Sector(l, at)[1]), Sector(l, at)[2])
      BY <1>2, <2>1, RoundIs, Zenon
    <2> QED BY <1>2, <2>2, Zenon
  <1>6. PICK pos \in Nat \ {0} : pos = at + 1
    BY <1>4
  <1>7. IsState(s) /\ s.logical = list /\ s.pos = pos /\ s.stop = FALSE /\ s.base = 0
    <2>1. Within(s, list, at + 1, FALSE)
      BY <1>2, <1>5, IsWithin
    <2> QED BY <1>6, <2>1, Zenon DEF Within
  <1>8. /\ at = ExtendedLBA(l) => table = Ebr(l, 1)
        /\ at # ExtendedLBA(l) =>
                table = IF at \in DOMAIN l.data THEN l.data[at] ELSE EmptyTable
    BY <1>0, <1>4, <1>5, TableRead
  \* One more entry.
  <1> DEFINE other == Append(list, table[1])
  <1>9. ASSUME table[1] \in Entry, table[1].id = OTHER_SYSID
        PROVE  /\ tool_entry(s, table[1]) = State(other, pos, FALSE, 0) /\ IsState(State(other, pos, FALSE, 0))
               /\ other \in Seq(Entry) /\ Len(other) \in Nat \ {0} /\ other[Len(other)] = table[1]
    <2>1. other \in Seq(Entry) /\ Len(other) \in Nat \ {0} /\ other[Len(other)] = table[1]
      BY <1>2, <1>9, Appended
    <2>2. tool_entry(s, table[1]) = State(other, pos, FALSE, 0)
      BY <1>7, <1>9, EntryKept
    <2> QED BY <2>1, <2>2, StateFields
  <1>10. ASSUME table[1].id = PART_EMPTY
         PROVE  tool_round(l, t) = State(list, pos, TRUE, 0)
    <2>1. tool_entry(s, table[1]) = State(list, pos, TRUE, 0)
      BY <1>7, <1>10, EntryStops
    <2>2. PICK u : u = State(list, pos, TRUE, 0) /\ Within(u, list, pos, TRUE)
      BY <1>2, IsWithin
    <2>3. IsState(u) /\ u.logical = list /\ u.pos = pos /\ u.stop /\ u.base = 0
      BY <2>2, Zenon DEF Within
    <2>4. tool_entry(u, table[2]) = State(list, pos, TRUE, 0)
      BY <2>3, EntryStops
    <2> QED BY <1>5, <2>1, <2>2, <2>4
  <1>11. ASSUME table[1] \in Entry, table[1].id = OTHER_SYSID
         PROVE  /\ table[2].id = PART_EMPTY => tool_round(l, t) = State(other, pos, TRUE, 0)
                /\ table[2].id \in {PART_EXTENDED, OTHER_SYSID} =>
                        tool_round(l, t) = State(Append(other, table[2]), pos, FALSE, 0)
    <2>0. PICK u : u = State(other, pos, FALSE, 0) /\ Within(u, other, pos, FALSE)
      BY <1>9, <1>11, IsWithin
    <2>1. /\ IsState(u) /\ u.logical = other /\ u.pos = pos /\ u.stop = FALSE /\ u.base = 0
          /\ tool_entry(s, table[1]) = u
      BY <1>9, <1>11, <2>0, Zenon DEF Within
    <2>2. table[2].id = PART_EMPTY => tool_entry(u, table[2]) = State(other, pos, TRUE, 0)
      BY <2>1, EntryStops
    <2>3. table[2].id \in {PART_EXTENDED, OTHER_SYSID} =>
            tool_entry(u, table[2]) = State(Append(other, table[2]), pos, FALSE, 0)
      BY <2>1, EntryKept
    <2> QED BY <1>5, <2>1, <2>2, <2>3
  <1> HIDE DEF other
  <1>12. CASE table[1].id = PART_EMPTY
    <2>1. last.id # PART_EXTENDED => pos <= ExtendedLBA(l) \/ n <= 1
      <3>1. CASE at = ExtendedLBA(l)
        <4>1. table[1] = IF 1 <= n THEN [id |-> l.logical[1], lba |-> Gap] ELSE EmptyEntry
          BY <1>0, <1>8, <3>1, FirstTable
        <4>2. ~ (1 <= n)
          BY <1>0, <1>12, <4>1, IdsDiffer
        <4> QED BY <4>2
      <3>2. CASE at # ExtendedLBA(l)
        BY <1>1, <1>4, <1>6, <3>2
      <3> QED BY <3>1, <3>2
    <2>2. Quiet(l, State(list, pos, TRUE, 0))
      BY <1>0, <1>2, <1>6, <2>1, QuietState
    <2> QED BY <1>10, <1>12, <2>2
  <1>13. CASE table[1].id # PART_EMPTY /\ at = ExtendedLBA(l)
    <2>1. /\ table[1] = IF 1 <= n THEN [id |-> l.logical[1], lba |-> Gap] ELSE EmptyEntry
          /\ table[2] = IF 1 < n THEN [id |-> PART_EXTENDED, lba |-> EbrOffset(1 + 1)] ELSE EmptyEntry
          /\ table[1] \in Entry /\ table[2] \in Entry
      BY <1>0, <1>8, <1>13, FirstTable
    <2>2. 1 <= n /\ table[1].id = OTHER_SYSID
      BY <1>0, <1>13, <2>1 DEF EmptyEntry
    <2>3. EbrOffset(1 + 1) = Size
      BY LayoutAssumption DEF EbrOffset
    <2>4. CASE n = 1
      <3>1. table[2].id = PART_EMPTY
        BY <2>1, <2>4 DEF EmptyEntry
      <3>2. tool_round(l, t) = State(other, pos, TRUE, 0)
        BY <1>11, <2>1, <2>2, <3>1
      <3>3. Quiet(l, State(other, pos, TRUE, 0))
        <4>1. other[Len(other)].id # PART_EXTENDED /\ Len(l.logical) <= 1
          BY <1>0, <1>9, <2>1, <2>2, <2>4, IdsDiffer
        <4> QED BY <1>9, <2>1, <2>2, <4>1, QuietState
      <3> QED BY <3>2, <3>3
    <2>5. CASE n > 1
      <3>1. table[2].id = PART_EXTENDED /\ table[2].lba = Size
        BY <2>1, <2>3, <2>5
      <3>2. tool_round(l, t) = State(Append(other, table[2]), pos, FALSE, 0)
        BY <1>11, <2>1, <2>2, <3>1
      <3>3. PICK long : /\ long = Append(other, table[2]) /\ long \in Seq(Entry) /\ Len(long) \in Nat \ {0}
                        /\ long[Len(long)] = table[2]
        <4>1. other \in Seq(Entry)
          BY <1>9, <2>1, <2>2
        <4> QED BY <2>1, <4>1, Appended, Zenon
      <3>4. Quiet(l, State(long, pos, FALSE, 0))
        BY <1>1, <3>1, <3>3, QuietState
      <3> QED BY <3>2, <3>3, <3>4
    <2> QED BY <2>2, <2>4, <2>5
  <1>14. CASE table[1].id # PART_EMPTY /\ at # ExtendedLBA(l)
    <2>1. /\ table[1] \in Entry /\ table[1].id = OTHER_SYSID
          /\ table[2] \in Entry /\ table[2].id \in {PART_EMPTY, OTHER_SYSID}
      BY <1>8, <1>14, PlainRead
    <2>2. other \in Seq(Entry) /\ Len(other) \in Nat \ {0} /\ other[Len(other)] = table[1]
      BY <1>9, <2>1
    <2>3. pos <= ExtendedLBA(l) \/ Len(l.logical) <= 1
      BY <1>0, <1>1, <1>4, <1>6, <1>14
    <2>4. CASE table[2].id = PART_EMPTY
      <3>1. tool_round(l, t) = State(other, pos, TRUE, 0)
        BY <1>11, <2>1, <2>4
      <3>2. other[Len(other)].id # PART_EXTENDED
        BY <2>1, <2>2, IdsDiffer
      <3>3. Quiet(l, State(other, pos, TRUE, 0))
        BY <2>2, <2>3, <3>2, QuietState
      <3> QED BY <3>1, <3>3
    <2>5. CASE table[2].id = OTHER_SYSID
      <3>1. tool_round(l, t) = State(Append(other, table[2]), pos, FALSE, 0)
        BY <1>11, <2>1, <2>5
      <3>2. PICK long : /\ long = Append(other, table[2]) /\ long \in Seq(Entry)
                        /\ Len(long) \in Nat \ {0} /\ long[Len(long)] = table[2]
        BY <2>1, <2>2, Appended, ZenonT(40)
      <3>3. long[Len(long)].id # PART_EXTENDED
        BY <2>5, <3>2, IdsDiffer
      <3>4. Quiet(l, State(long, pos, FALSE, 0))
        BY <2>3, <3>2, <3>3, QuietState
      <3> QED BY <3>1, <3>2, <3>4
    <2> QED BY <2>1, <2>4, <2>5
  <1> QED BY <1>12, <1>13, <1>14

LEMMA ExtendedBase == ASSUME NEW l \in Layouts, HasExtended(l) PROVE ExtendedLBA(l) \in Nat \ {0}
  BY ExtendedAt DEF HasExtended

LEMMA FirstGap == Gap \in Nat /\ EbrOffset(1) = 0
  BY LayoutAssumption DEF EbrOffset

LEMMA OneElement == ASSUME NEW x PROVE <<x>> # << >>
  <1>1. Len(<<x>>) = 1 /\ Len(<< >>) = 0
    OBVIOUS
  <1> QED BY <1>1

Ended(u, list, pos, base) ==
    IsState(u) /\ u.logical = list /\ u.pos = pos /\ u.stop = TRUE /\ u.base = base

LEMMA IsEnded ==
    ASSUME NEW list, NEW pos, NEW base, list \in Seq(Entry), Len(list) \in Nat \ {0}
    PROVE  Ended(State(list, pos, TRUE, base), list, pos, base)
  <1>1. \A stop \in BOOLEAN : /\ IsState(State(list, pos, stop, base))
                              /\ State(list, pos, stop, base).logical = list
                              /\ State(list, pos, stop, base).pos = pos
                              /\ State(list, pos, stop, base).stop = stop
                              /\ State(list, pos, stop, base).base = base
    BY StateFields
  <1>2. TRUE \in BOOLEAN
    OBVIOUS
  <1> QED BY <1>1, <1>2, Zenon DEF Ended

LEMMA RoundsExist == ASSUME NEW l, NEW first PROVE \E g : Rounds(g, l, first)
  <1>1. PICK a, b, c, d, e :
          /\ a = tool_round(l, first) /\ b = tool_round(l, a) /\ c = tool_round(l, b)
          /\ d = tool_round(l, c) /\ e = tool_round(l, d)
    OBVIOUS
  <1>2. PICK p, q, r, s, t :
          /\ p = tool_round(l, e) /\ q = tool_round(l, p) /\ r = tool_round(l, q)
          /\ s = tool_round(l, r) /\ t = tool_round(l, s)
    OBVIOUS
  <1>3. PICK g : g = [i \in 0 .. 10 |->
          IF i = 0 THEN first ELSE IF i = 1 THEN a ELSE IF i = 2 THEN b ELSE IF i = 3 THEN c
          ELSE IF i = 4 THEN d ELSE IF i = 5 THEN e ELSE IF i = 6 THEN p ELSE IF i = 7 THEN q
          ELSE IF i = 8 THEN r ELSE IF i = 9 THEN s ELSE t]
    OBVIOUS
  <1>4. /\ g[0] = first /\ g[1] = tool_round(l, g[0]) /\ g[2] = tool_round(l, g[1])
        /\ g[3] = tool_round(l, g[2]) /\ g[4] = tool_round(l, g[3]) /\ g[5] = tool_round(l, g[4])
        /\ g[6] = tool_round(l, g[5]) /\ g[7] = tool_round(l, g[6]) /\ g[8] = tool_round(l, g[7])
        /\ g[9] = tool_round(l, g[8]) /\ g[10] = tool_round(l, g[9])
    BY <1>1, <1>2, <1>3
  <1>5. ASSUME NEW i \in 0 .. 10 PROVE g[i] = IF i = 0 THEN first ELSE tool_round(l, g[i - 1])
    <2>1. i = 0 \/ i = 1 \/ i = 2 \/ i = 3 \/ i = 4 \/ i = 5 \/ i = 6 \/ i = 7 \/ i = 8 \/ i = 9 \/ i = 10
      OBVIOUS
    <2> QED BY <1>4, <2>1
  <1>6. g = [i \in 0 .. 10 |-> g[i]]
    BY <1>3
  <1>7. Rounds(g, l, first)
    BY <1>5, <1>6 DEF Rounds
  <1> QED BY <1>7

LEMMA RoundsStep ==
    ASSUME NEW l, NEW first, NEW g, Rounds(g, l, first)
    PROVE  g[0] = first /\ \A i \in 0 .. 9 : g[i + 1] = tool_round(l, g[i])
  <1>1. \A i \in 0 .. 10 : g[i] = IF i = 0 THEN first ELSE tool_round(l, g[i - 1])
    BY Zenon DEF Rounds
  <1>2. g[0] = first
    BY <1>1
  <1>3. ASSUME NEW i \in 0 .. 9 PROVE g[i + 1] = tool_round(l, g[i])
    <2>1. PICK j \in 0 .. 10 : j = i + 1 /\ j # 0 /\ j - 1 = i
      OBVIOUS
    <2> QED BY <1>1, <2>1
  <1> QED BY <1>2, <1>3

\* The tool begins with the extended partition, wherever in the MBR it is.
LEMMA ToolBegins ==
    ASSUME NEW l \in Layouts, HasExtended(l), NoPrimaryFinux(l)
    PROVE  \E g : Rounds(g, l, ToolStart(l)) /\ tool_base(l) = g[10].base
  <1> DEFINE kept(i) == IF Mbr(l)[i].id = PART_EXTENDED THEN <<Mbr(l)[i]>> ELSE << >>
             extended == kept(1) \o kept(2) \o kept(3) \o kept(4)
             first == [logical |-> extended, pos |-> 1, stop |-> FALSE, base |-> 0]
  <1>1. extended = <<[id |-> PART_EXTENDED, lba |-> ExtendedLBA(l)]>>
    <2>1. PICK i \in 1 .. 4 : l.slots[i] = PART_EXTENDED
      BY DEF HasExtended
    <2>2. PICK x : x = [id |-> PART_EXTENDED, lba |-> ExtendedLBA(l)] /\ Mbr(l)[i] = x
      BY <2>1, ExtendedAt
    <2>3. \A j \in 1 .. 4 : Mbr(l)[j].id = l.slots[j]
      BY MbrType
    <2>4. \A j \in 1 .. 4 : j # i => l.slots[j] # PART_EXTENDED
      BY <2>1, OneExtended
    <2>5. kept(i) = <<x>>
      BY <2>1, <2>2, <2>3
    <2>6. \A j \in 1 .. 4 : j # i => kept(j) = << >>
      BY <2>3, <2>4
    <2> HIDE DEF kept
    <2>7. <<x>> \in Seq({x}) /\ << >> \in Seq({x})
      OBVIOUS
    <2>8. << >> \o << >> = << >> /\ << >> \o <<x>> = <<x>> /\ <<x>> \o << >> = <<x>>
      BY <2>7
    <2>9. i = 1 \/ i = 2 \/ i = 3 \/ i = 4
      OBVIOUS
    <2>10. CASE i = 1
      <3>1. kept(1) = <<x>> /\ kept(2) = << >> /\ kept(3) = << >> /\ kept(4) = << >>
        BY <2>5, <2>6, <2>10
      <3> QED BY <2>2, <2>8, <3>1, Zenon
    <2>11. CASE i = 2
      <3>1. kept(1) = << >> /\ kept(2) = <<x>> /\ kept(3) = << >> /\ kept(4) = << >>
        BY <2>5, <2>6, <2>11
      <3> QED BY <2>2, <2>8, <3>1, Zenon
    <2>12. CASE i = 3
      <3>1. kept(1) = << >> /\ kept(2) = << >> /\ kept(3) = <<x>> /\ kept(4) = << >>
        BY <2>5, <2>6, <2>12
      <3> QED BY <2>2, <2>8, <3>1, Zenon
    <2>13. CASE i = 4
      <3>1. kept(1) = << >> /\ kept(2) = << >> /\ kept(3) = << >> /\ kept(4) = <<x>>
        BY <2>5, <2>6, <2>13
      <3> QED BY <2>2, <2>8, <3>1, Zenon
    <2> QED BY <2>9, <2>10, <2>11, <2>12, <2>13
  <1>2. tool_base(l) = IF extended = << >> \/ \E i \in 1 .. 4 : l.slots[i] = FINUX_SYSID THEN 0
                       ELSE (CHOOSE g : Rounds(g, l, first))[10].base
    BY Zenon DEF tool_base, Rounds
  <1>3. PICK f : f = first
    OBVIOUS
  <1>4. f = ToolStart(l)
    BY <1>1, <1>3, Zenon DEF ToolStart, State
  <1> HIDE DEF extended
  <1>5. extended # << >>
    <2>1. <<[id |-> PART_EXTENDED, lba |-> ExtendedLBA(l)]>> # << >>
      BY OneElement, Zenon
    <2> QED BY <1>1, <2>1, Zenon
  <1> HIDE DEF first
  <1>6. PICK g : g = CHOOSE h : Rounds(h, l, first)
    OBVIOUS
  <1>7. Rounds(g, l, first)
    BY <1>6, RoundsExist, Zenon
  <1>8. tool_base(l) = g[10].base
    BY <1>2, <1>5, <1>6, Zenon DEF NoPrimaryFinux
  <1> QED BY <1>3, <1>4, <1>7, <1>8, Zenon

\* A Finux partition that is the first logical one is found in the first round.
LEMMA FirstFound ==
    ASSUME NEW l \in Layouts, HasExtended(l), Len(l.logical) > 0, l.logical[1] = FINUX_SYSID
    PROVE  LET t == tool_round(l, ToolStart(l))
           IN  t.base = ExtendedLBA(l) + Gap /\ t.base # 0
  <1>1. PICK x : x = [id |-> PART_EXTENDED, lba |-> ExtendedLBA(l)]
    OBVIOUS
  <1>2. ExtendedLBA(l) \in Nat \ {0} /\ Gap \in Nat /\ ExtendedLBA(l) + 1 \in Nat
    BY ExtendedBase, FirstGap
  <1>3. x \in Entry
    BY <1>1, <1>2 DEF Entry, Ids
  <1>4. <<x>> \in Seq(Entry) /\ Len(<<x>>) = 1 /\ Len(<<x>>) \in Nat \ {0} /\ <<x>>[1] = x
    BY <1>3
  <1>5. ToolStart(l) = State(<<x>>, 1, FALSE, 0)
    BY <1>1 DEF ToolStart
  <1>6. Within(ToolStart(l), <<x>>, 1, FALSE)
    BY <1>4, <1>5, IsWithin
  <1>7. PICK t : /\ t = ToolStart(l) /\ IsState(t) /\ t.logical = <<x>> /\ t.base = 0
    BY <1>6, Zenon DEF Within
  <1>8. t.logical[Len(t.logical)].id = PART_EXTENDED /\ t.logical[Len(t.logical)].lba = ExtendedLBA(l)
    BY <1>1, <1>4, <1>7
  <1>9. PICK at : /\ at = ExtendedLBA(l)
                  /\ at = IF t.logical[Len(t.logical)].id = PART_EXTENDED
                          THEN t.logical[Len(t.logical)].lba ELSE t.pos
    BY <1>8
  <1>10. tool_round(l, t) =
           tool_entry(tool_entry(State(t.logical, at + 1, FALSE, 0), Sector(l, at)[1]), Sector(l, at)[2])
    <2>1. IsState(t) /\ t.base = 0
      BY <1>7
    <2>2. at = IF t.logical[Len(t.logical)].id = PART_EXTENDED
               THEN t.logical[Len(t.logical)].lba ELSE t.pos
      BY <1>9
    <2> QED BY <2>1, <2>2, RoundIs, ZenonT(40)
  <1>11. Sector(l, at) = Ebr(l, 1)
    <2>1. at \in Nat \ {0} /\ at = ExtendedLBA(l) /\ at <= ExtendedLBA(l)
      BY <1>2, <1>9
    <2> QED BY <2>1, TableRead, Zenon
  <1>12. PICK e, next : /\ e = Sector(l, at)[1] /\ next = Sector(l, at)[2]
                        /\ e = [id |-> FINUX_SYSID, lba |-> Gap]
    <2>1. 1 <= Len(l.logical)
      BY LayoutTypes
    <2> QED BY <1>11, <2>1, FirstTable
  <1>13. PICK s : s = State(<<x>>, at + 1, FALSE, 0) /\ Within(s, <<x>>, at + 1, FALSE)
    BY <1>4, IsWithin
  <1>14. IsState(s) /\ s.logical = <<x>> /\ s.pos = at + 1 /\ s.stop = FALSE /\ s.base = 0
    BY <1>13, Zenon DEF Within
  <1>15. tool_entry(s, e) = State(<<x>>, at + 1, TRUE, ExtendedLBA(l) + Gap + 0)
    <2>1. e.id = FINUX_SYSID /\ e.lba = Gap /\ Len(s.logical) = 1 /\ s.logical[1].lba = ExtendedLBA(l)
      BY <1>1, <1>4, <1>12, <1>14
    <2>2. tool_entry(s, e) = State(s.logical, s.pos, TRUE, s.logical[1].lba + e.lba + 0)
      BY <1>14, <2>1, EntryFinux
    <2> QED BY <1>14, <2>1, <2>2, Zenon
  <1>16. PICK base \in Nat \ {0} : base = ExtendedLBA(l) + Gap + 0 /\ base = ExtendedLBA(l) + Gap
    BY <1>2
  <1>17. PICK u : /\ u = State(<<x>>, at + 1, TRUE, base) /\ IsState(u) /\ u.logical = <<x>> /\ u.pos = at + 1
                  /\ u.stop /\ u.base = base
    <2>1. Ended(State(<<x>>, at + 1, TRUE, base), <<x>>, at + 1, base)
      BY <1>4, IsEnded
    <2> QED BY <2>1, Zenon DEF Ended
  <1>18. tool_entry(u, next) = State(<<x>>, at + 1, TRUE, base)
    <2>1. tool_entry(u, next) = State(u.logical, u.pos, TRUE, u.base)
      BY <1>17, EntryStops, ZenonT(40)
    <2> QED BY <1>17, <2>1, Zenon
  <1>19. tool_round(l, t) = u
    <2>1. tool_round(l, t) = tool_entry(tool_entry(s, e), next)
      BY <1>7, <1>10, <1>12, <1>13, Zenon
    <2>2. tool_entry(s, e) = u
      BY <1>15, <1>16, <1>17, Zenon
    <2> QED BY <1>17, <1>18, <2>1, <2>2, Zenon
  <1> QED BY <1>7, <1>16, <1>17, <1>19

\* The tool finds the first logical partition, and on a plain disk no other.
LEMMA ToolFinds ==
    ASSUME NEW l \in Layouts, HasExtended(l), NoPrimaryFinux(l)
    PROVE  /\ 1 \in FinuxLogical(l) => tool_base(l) = ExtendedLBA(l) + Gap
           /\ 1 \notin FinuxLogical(l) /\ (\A lba \in DOMAIN l.data : Plain(l.data[lba]))
                => tool_base(l) = 0
  <1>1. PICK g : Rounds(g, l, ToolStart(l)) /\ tool_base(l) = g[10].base
    BY ToolBegins
  <1>2. /\ g[0] = ToolStart(l)
        /\ \A i \in 0 .. 9 : g[i + 1] = tool_round(l, g[i])
    BY <1>1, RoundsStep
  <1>3. /\ g[1] = tool_round(l, g[0]) /\ g[2] = tool_round(l, g[1])
        /\ g[3] = tool_round(l, g[2]) /\ g[4] = tool_round(l, g[3]) /\ g[5] = tool_round(l, g[4])
        /\ g[6] = tool_round(l, g[5]) /\ g[7] = tool_round(l, g[6]) /\ g[8] = tool_round(l, g[7])
        /\ g[9] = tool_round(l, g[8]) /\ g[10] = tool_round(l, g[9])
    BY <1>2
  <1>f. 1 \in FinuxLogical(l) <=> Len(l.logical) > 0 /\ l.logical[1] = FINUX_SYSID
    BY LayoutTypes DEF FinuxLogical
  <1>4. ASSUME 1 \notin FinuxLogical(l), \A lba \in DOMAIN l.data : Plain(l.data[lba])
        PROVE  tool_base(l) = 0
    <2>1. Quiet(l, ToolStart(l))
      <3>1. PICK x : x = [id |-> PART_EXTENDED, lba |-> ExtendedLBA(l)]
        OBVIOUS
      <3>2. ExtendedLBA(l) \in Nat \ {0}
        BY ExtendedAt DEF HasExtended
      <3>3. x \in Entry
        BY <3>1, <3>2 DEF Entry, Ids
      <3>4. <<x>> \in Seq(Entry) /\ Len(<<x>>) \in Nat \ {0} /\ <<x>>[Len(<<x>>)] = x
        BY <3>3
      <3>5. /\ <<x>>[Len(<<x>>)].id = PART_EXTENDED => <<x>>[Len(<<x>>)].lba \in 1 .. ExtendedLBA(l)
            /\ <<x>>[Len(<<x>>)].id # PART_EXTENDED => 1 <= ExtendedLBA(l) \/ Len(l.logical) <= 1
            /\ 1 \in Nat \ {0} /\ FALSE \in BOOLEAN
        BY <3>1, <3>2, <3>4
      <3>6. Quiet(l, State(<<x>>, 1, FALSE, 0))
        BY <3>4, <3>5, QuietState
      <3> QED BY <3>1, <3>6 DEF ToolStart
    <2>2. \A t : Quiet(l, t) => Quiet(l, tool_round(l, t))
      BY <1>f, <1>4, QuietRound
    <2>3. Quiet(l, g[10])
      BY <1>2, <1>3, <2>1, <2>2, Zenon
    <2> QED BY <1>1, <2>3 DEF Quiet
  <1>5. ASSUME 1 \in FinuxLogical(l)
        PROVE  tool_base(l) = ExtendedLBA(l) + Gap
    <2>1. g[1].base = ExtendedLBA(l) + Gap /\ g[1].base # 0
      BY <1>2, <1>3, <1>f, <1>5, FirstFound
    <2>2. \A t : t.base # 0 => tool_round(l, t) = t
      BY Zenon DEF tool_round
    <2>3. g[10] = g[1]
      BY <1>3, <2>1, <2>2, Zenon
    <2> QED BY <1>1, <2>1, <2>3
  <1> QED BY <1>4, <1>5

\* On any disk whose extended partition the loader reaches and that has no
\* primary Finux partition: find_part_table returns the partition from which
\* make_fs reads if that is the first logical one, and otherwise none, unless a
\* sector that is no table looks like one with a Finux entry or a link.
THEOREM ToolMeansTheSame == Spec => []ToolAgrees
  <1>1. CInv => ToolAgrees
    <2> SUFFICES ASSUME CInv, pc = "found", Reached(layout), NoPrimaryFinux(layout)
                 PROVE  /\ 1 \in FinuxLogical(layout) => tool_base(layout) = base_sector
                        /\ /\ 1 \notin FinuxLogical(layout)
                           /\ \A lba \in DOMAIN layout.data : Plain(layout.data[lba])
                           => tool_base(layout) = 0
      BY DEF ToolAgrees
    <2>1. layout \in Layouts /\ HasExtended(layout)
      BY DEF CInv, TInv, TypeOK, Reached, HasExtended
    <2>2. ASSUME 1 \in FinuxLogical(layout)
          PROVE  tool_base(layout) = base_sector
      <3>1. tool_base(layout) = ExtendedLBA(layout) + Gap
        BY <2>1, <2>2, ToolFinds
      <3>2. Min(FinuxLogical(layout)) = 1
        <4>1. FinuxLogical(layout) \subseteq Nat /\ \A y \in FinuxLogical(layout) : 1 <= y
          BY <2>1, LayoutTypes DEF FinuxLogical
        <4> QED BY <2>2, <4>1, MinIs
      <3>3. base_sector = LogicalLBA(layout, 1)
        BY <3>2 DEF CInv, BaseRight
      <3>4. LogicalLBA(layout, 1) = ExtendedLBA(layout) + Gap
        <4>1. EbrOffset(1) = 0 /\ ExtendedLBA(layout) \in Nat /\ Gap \in Nat
          BY <2>1, ExtendedBase, FirstGap
        <4> QED BY <4>1 DEF LogicalLBA
      <3> QED BY <3>1, <3>3, <3>4
    <2> QED BY <2>1, <2>2, ToolFinds
  <1> QED BY InitCInv, StepCInv, <1>1, PTL DEF Spec
=============================================================================
