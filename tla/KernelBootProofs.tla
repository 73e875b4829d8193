-------------------------- MODULE KernelBootProofs --------------------------
(***************************************************************************)
(* The start of the kernel on any machine: types, the gates that           *)
(* interrupts and exceptions find, and where page tables, page bitmap and  *)
(* the pages it describes lie.                                             *)
(***************************************************************************)
EXTENDS KernelBoot, SequenceTheorems, WellFoundedInduction, TLAPS

\* What the controllers mask after each call, ...
Masks ==
    /\ pc \in 3 .. 6 \cup 19 .. 23 => imr = Irqs
    /\ pc \in 7 .. 11 \cup 24 .. 26 => imr = {2, 14}
    /\ pc \in 12 .. 18 => imr = {}
    /\ pc \in {6, 8, 11, 13, 23, 25} => seen = imr

\* ... and the gates there are then.
Gates ==
    /\ pc \in 0 .. 1 \cup 5 .. 19 \cup 22 .. 26 => gates[IRQ_VECTOR] # 0
    /\ pc \in 0 .. 1 \cup 10 .. 19 => gates[IRQ_VECTOR + 14] # 0
    /\ pc \in 21 .. 26 => \A v \in Exceptions : gates[v] # 0

\* Only set_page resets the machine, on tables that do not do.
OnlyPaging == reset => Paging /\ (Unmapped \/ Overrun)

\* The inductive invariant behind GatesReady.
GInv == TypeOK /\ Masks /\ Gates /\ OnlyPaging

\* What init_page_bit_map takes for the size of memory.
LongestLen == Max({Map(i).len : i \in Ram} \cup {0})

\* The map on its way from the BIOS to the kernel ...
Handed ==
    /\ pc >= 1 => DetectCount = Len(bios) - 1
    /\ pc \in 15 .. 16 => info = DetectCount
    /\ pc >= 17 => /\ memory_map_cnt = Len(bios) - 1
                   /\ memory_map = SubSeq(bios, 1, Min({Len(bios), MAP_MAX}))

\* ... and what set_page makes of it.
PagingSet ==
    /\ tables = get_ptet_cnt(get_ptet_cnt(get_page_cnt)) * get_ptet_cnt(get_page_cnt)
    /\ page_cnt = pages(LongestLen - BIT_MAP)
    /\ page_bit_map_cnt = (page_cnt + 8 - 1) \div 8

\* The inductive invariant behind the memory areas.
MInv ==
    /\ TypeOK /\ Handed
    /\ pc < 18 => ~Paging
    /\ pc >= 18 => PagingSet

-----------------------------------------------------------------------------
(* The order of the calls.                                                  *)

\* Where loader_start, Cstart and start_kernel make which call.
LEMMA Positions ==
    ASSUME pc \in 0 .. Len(Boot)
    PROVE  /\ Len(Boot) = 26
           /\ Call("Init_e820") => pc = 0
           /\ Call("protected_mode") => pc = 1
           /\ Call("Init_8259A") => pc = 2
           /\ Call("init_idt") => pc = 3
           /\ Call("set_intr_gate") =>
                pc \in {4, 9, 21} /\ Now.irq = IF pc = 9 THEN 14 ELSE 0
           /\ Call("enable_read") => pc \in {5, 7, 10, 12, 22, 24}
           /\ Call("enable_write") =>
                /\ pc \in {6, 8, 11, 13, 23, 25}
                /\ Now.irq = IF pc \in {11, 13} THEN 14 ELSE 0
           /\ Call("loader_kernel") => pc = 14
           /\ Call("cli") => pc = 15
           /\ Call("get_memory_info") => pc = 16
           /\ Call("set_page") => pc = 17
           /\ Call("disable_irqs") => pc = 18
           /\ Call("lidt") => pc = 19
           /\ Call("set_exception_gate") => pc = 20
           /\ pc = 2 => Early
  BY DEF Call, Booted, Now, Early, Boot, loader_start, Cstart, start_kernel,
         init_intr, enable_irq, call

-----------------------------------------------------------------------------
(* Sizes.                                                                   *)

LEMMA Division ==
    ASSUME NEW a \in Nat, NEW b \in Nat \ {0}
    PROVE  /\ a \div b \in Nat
           /\ b * (a \div b) <= a /\ a < b * (a \div b) + b
  OBVIOUS

LEMMA Remainder ==
    ASSUME NEW a \in Int, NEW b \in Nat \ {0}
    PROVE  /\ a % b \in 0 .. b - 1
           /\ a >= 0 => a % b <= a
           /\ a \in 0 .. b - 1 => a % b = a
  OBVIOUS

LEMMA TimesMonotone ==
    ASSUME NEW a \in Nat, NEW b \in Nat, NEW k \in Nat, a <= b
    PROVE  k * a <= k * b
  OBVIOUS

\* Every nonempty set of natural numbers has a least element, ...
LEMMA Least ==
    ASSUME NEW T, T \subseteq Nat, T # {}
    PROVE  \E x \in T : \A y \in T : x <= y
  <1>1. PICK x \in T : \A y \in T : ~(<<y, x>> \in OpToRel(<, Nat))
    BY NatLessThanWellFounded, WFMin
  <1>2. \A y \in T : ~(y < x)
    BY <1>1, Zenon DEF OpToRel
  <1> QED BY <1>2

\* ... and every bounded one has a greatest, which is its Max.
LEMMA Greatest ==
    ASSUME NEW T, T \subseteq Nat, T # {}, NEW b \in Nat, \A x \in T : x <= b
    PROVE  Max(T) \in T /\ \A y \in T : y <= Max(T)
  <1> DEFINE D == {b - x : x \in T}
  <1>1. D \subseteq Nat /\ D # {}
    <2>1. \A x \in T : b - x \in Nat
      OBVIOUS
    <2>2. PICK x \in T : TRUE
      OBVIOUS
    <2>3. b - x \in D
      OBVIOUS
    <2> QED BY <2>1, <2>3
  <1>2. PICK d \in D : \A e \in D : d <= e
    BY <1>1, Least
  <1>3. PICK x \in T : d = b - x
    OBVIOUS
  <1>4. \A y \in T : x >= y
    BY <1>2, <1>3
  <1>5. \E z \in T : \A y \in T : z >= y
    BY <1>4
  <1>6. Max(T) \in T /\ \A y \in T : Max(T) >= y
    BY <1>5 DEF Max
  <1> QED BY <1>6

\* The Max of a set whose greatest element is known.
LEMMA MaxIs ==
    ASSUME NEW T, T \subseteq Nat, NEW x \in T, \A y \in T : y <= x
    PROVE  Max(T) = x
  <1>1. \E z \in T : \A y \in T : z >= y
    OBVIOUS
  <1>2. Max(T) \in T /\ \A y \in T : Max(T) >= y
    BY <1>1 DEF Max
  <1>3. Max(T) \in Nat /\ Max(T) >= x /\ Max(T) <= x /\ x \in Nat
    BY <1>2
  <1> QED BY <1>3

\* A size in pages.
LEMMA PagesType == ASSUME NEW s \in Int PROVE pages(s) \in Nat
  <1>1. /\ PAGE_SIZE \in Nat \ {0} /\ Word \in Nat \ {0}
        /\ s + PAGE_SIZE - 1 \in Int
    BY SizesAssumption
  <1>2. (s + PAGE_SIZE - 1) % Word \in Nat
    BY <1>1, Remainder
  <1> QED BY <1>1, <1>2, Division DEF pages

\* A number of tables.
LEMMA TablesType == ASSUME NEW c \in Nat PROVE get_ptet_cnt(c) \in Nat
  <1>1. PAGE_ENTRYS \in Nat \ {0} /\ c + PAGE_ENTRYS - 1 \in Nat
    BY SizesAssumption
  <1> QED BY <1>1, Division DEF get_ptet_cnt

\* What the entries of the map are.
LEMMA MapType ==
    ASSUME TypeOK, NEW i \in Nat
    PROVE  /\ Map(i) \in Region
           /\ Map(i).base \in Nat /\ Map(i).len \in 0 .. Word - 1
  <1>1. Map(i) \in Region
    BY DEF TypeOK, Map
  <1> QED BY <1>1, SizesAssumption DEF Region

\* The sizes that get_page_cnt and init_page_bit_map compute.
LEMMA CountTypes ==
    ASSUME TypeOK
    PROVE  get_page_cnt \in Nat /\ LongestLen \in Nat
  <1>1. Ram \subseteq Nat /\ memory_map_cnt \in Nat
    BY DEF Ram, TypeOK
  <1>2. LongestLen \in Nat
    <2> DEFINE T == {Map(i).len : i \in Ram} \cup {0}
    <2>1. T \subseteq Nat /\ T # {} /\ Word \in Nat
      BY <1>1, MapType, SizesAssumption
    <2>2. \A x \in T : x <= Word
      BY <1>1, MapType, SizesAssumption
    <2>3. Max(T) \in T
      BY <2>1, <2>2, Greatest
    <2> QED BY <2>1, <2>3 DEF LongestLen
  <1>3. (IF Ram = {} THEN 1 ELSE Max(Ram)) \in Nat
    <2>1. \A x \in Ram : x <= memory_map_cnt
      BY DEF Ram, TypeOK
    <2> QED BY <1>1, <2>1, Greatest
  <1> DEFINE e == Map(IF Ram = {} THEN 1 ELSE Max(Ram))
  <1>4. e.base + e.len \in Int
    <2>1. e.base \in Nat /\ e.len \in Nat
      BY <1>3, MapType
    <2> QED BY <2>1
  <1> QED BY <1>2, <1>4, PagesType DEF get_page_cnt

-----------------------------------------------------------------------------
(* Types.                                                                   *)

\* The gates written by set_gate are gates.
LEMMA SetGateType ==
    ASSUME TypeOK, NEW vectors, NEW type \in {GATE_INTERRUPT, GATE_EXCEPTION}
    PROVE  set_gate(vectors, type) \in [Vectors -> {0, GATE_INTERRUPT, GATE_EXCEPTION}]
  BY DEF set_gate, TypeOK

\* set_page leaves sizes and a number of tables.
LEMMA SetPageTypes ==
    ASSUME TypeOK, set_page
    PROVE  /\ tables' \in Nat /\ page_cnt' \in Nat /\ page_bit_map_cnt' \in Nat
           /\ PagingSet'
  <1>1. /\ tables' = get_ptet_cnt(get_ptet_cnt(get_page_cnt)) * get_ptet_cnt(get_page_cnt)
        /\ page_cnt' = pages(LongestLen - BIT_MAP)
        /\ page_bit_map_cnt' = (page_cnt' + 8 - 1) \div 8
    BY DEF set_page, init_page_bit_map, LongestLen
  <1>2. /\ get_page_cnt \in Nat /\ get_ptet_cnt(get_page_cnt) \in Nat
        /\ get_ptet_cnt(get_ptet_cnt(get_page_cnt)) \in Nat
    BY CountTypes, TablesType
  <1>3. tables' \in Nat
    BY <1>1, <1>2
  <1>4. page_cnt' \in Nat
    <2>1. LongestLen - BIT_MAP \in Int
      BY CountTypes, SizesAssumption
    <2> QED BY <1>1, <2>1, PagesType
  <1>5. page_bit_map_cnt' \in Nat
    BY <1>1, <1>4
  <1>6. get_page_cnt' = get_page_cnt /\ LongestLen' = LongestLen
    BY DEF set_page, copied, machine, get_page_cnt, LongestLen, Ram, Map
  <1> QED BY <1>1, <1>3, <1>4, <1>5, <1>6 DEF PagingSet

\* A step to the next call.
LEMMA CallType ==
    ASSUME TypeOK, NEW f, Call(f)
    PROVE  pc' \in 0 .. Len(Boot)
  <1>1. Len(Boot) = 26
    BY Positions DEF TypeOK
  <1> QED BY <1>1 DEF TypeOK, Call, Booted

\* The part of the map that memory_map[] has room for.
LEMMA ShortMap ==
    ASSUME NEW m \in Seq(Region)
    PROVE  /\ SubSeq(m, 1, Min({Len(m), MAP_MAX})) \in Seq(Region)
           /\ \A i \in 1 .. Len(m) : i <= MAP_MAX =>
                /\ i \in DOMAIN SubSeq(m, 1, Min({Len(m), MAP_MAX}))
                /\ SubSeq(m, 1, Min({Len(m), MAP_MAX}))[i] = m[i]
  <1> DEFINE n == Min({Len(m), MAP_MAX})
  <1>1. Len(m) \in Nat /\ MAP_MAX \in Nat
    BY SizesAssumption
  <1>2. \E x \in {Len(m), MAP_MAX} : \A y \in {Len(m), MAP_MAX} : x <= y
    BY <1>1
  <1>3. n \in {Len(m), MAP_MAX} /\ n <= Len(m) /\ n <= MAP_MAX
    BY <1>2 DEF Min
  <1> HIDE DEF n
  <1>4. n \in Nat /\ \A i \in 1 .. n : m[i] \in Region
    BY <1>1, <1>3
  <1>5. \A i \in 1 .. Len(m) : i <= MAP_MAX => i \in 1 .. n
    BY <1>1, <1>3
  <1>6. /\ SubSeq(m, 1, n) \in Seq(Region)
        /\ Len(SubSeq(m, 1, n)) = n
        /\ \A i \in 1 .. n : SubSeq(m, 1, n)[i] = m[i]
    <2>1. /\ SubSeq(m, 1, n) \in Seq(Region)
          /\ Len(SubSeq(m, 1, n)) = IF 1 <= n THEN n - 1 + 1 ELSE 0
          /\ \A i \in 1 .. n - 1 + 1 : SubSeq(m, 1, n)[i] = m[1 + i - 1]
      BY <1>4, SubSeqProperties
    <2> QED BY <1>4, <2>1
  <1>7. DOMAIN SubSeq(m, 1, n) = 1 .. n
    BY <1>6
  <1> QED BY <1>5, <1>6, <1>7 DEF n

\* Every step of loader, kernel and machine keeps the types.
LEMMA NextTypes == TypeOK /\ [Next]_vars => TypeOK'
  <1> SUFFICES ASSUME TypeOK, [Next]_vars PROVE TypeOK'
    OBVIOUS
  <1> USE DEF machine, copied, paging, memory, faults, interrupts
  <1>1. CASE Init_e820
    <2>1. bios \in Seq(Region) /\ bios # << >>
      BY MachinesAssumption DEF TypeOK
    <2>2. Len(bios) - 1 \in Nat
      BY <2>1
    <2> QED BY <1>1, <2>2, CallType DEF TypeOK, Init_e820
  <1>2. CASE Fail_e820
    BY <1>2 DEF TypeOK, Fail_e820
  <1>3. CASE protected_mode
    BY <1>3, CallType DEF TypeOK, protected_mode, no_gates
  <1>4. CASE Init_8259A
    BY <1>4, CallType DEF TypeOK, Init_8259A, Irqs
  <1>5. CASE init_idt
    BY <1>5, CallType DEF TypeOK, init_idt, no_gates
  <1>6. CASE loader_kernel
    BY <1>6, CallType DEF TypeOK, loader_kernel
  <1>7. CASE cli
    BY <1>7, CallType DEF TypeOK, cli
  <1>8. CASE get_memory_info
    <2>1. bios \in Seq(Region)
      BY MachinesAssumption DEF TypeOK
    <2>2. memory_map' \in Seq(Region)
      BY <1>8, <2>1, ShortMap DEF get_memory_info
    <2> QED BY <1>8, <2>2, CallType DEF TypeOK, get_memory_info
  <1>9. CASE set_page
    <2>1. info' \in Nat
      BY <1>9, SizesAssumption DEF set_page, DirWord, TypeOK
    <2> QED BY <1>9, <2>1, SetPageTypes, CallType DEF TypeOK, set_page, paging_on
  <1>10. CASE disable_irqs
    BY <1>10, CallType DEF TypeOK, disable_irqs, Irqs
  <1>11. CASE lidt
    BY <1>11, CallType DEF TypeOK, lidt, no_gates
  <1>12. CASE set_exception_gate
    <2>1. gates' \in [Vectors -> {0, GATE_INTERRUPT, GATE_EXCEPTION}]
      BY <1>12, SetGateType DEF set_exception_gate
    <2> QED BY <1>12, <2>1, CallType DEF TypeOK, set_exception_gate
  <1>13. CASE set_intr_gate
    BY <1>13, CallType, SetGateType DEF TypeOK, set_intr_gate
  <1>14. CASE enable_read
    BY <1>14, CallType DEF TypeOK, enable_read
  <1>15. CASE enable_write
    BY <1>15, CallType DEF TypeOK, enable_write, Irqs
  <1>16. ASSUME NEW i \in {0, 14}, request(i) \/ deliver(i) PROVE TypeOK'
    BY <1>16 DEF TypeOK, request, deliver
  <1>17. ASSUME NEW v \in Exceptions, exception(v) PROVE TypeOK'
    BY <1>17 DEF TypeOK, exception
  <1>18. CASE UNCHANGED vars
    BY <1>18 DEF TypeOK, vars
  <1> QED
    BY <1>1, <1>2, <1>3, <1>4, <1>5, <1>6, <1>7, <1>8, <1>9, <1>10, <1>11, <1>12, <1>13, <1>14, <1>15, <1>16, <1>17, <1>18 DEF Next, Code

-----------------------------------------------------------------------------
(* Gates.                                                                   *)

\* The gates that Gates speaks of are gates of the IDT.
LEMMA GateVectors ==
    /\ IRQ_VECTOR \in Vectors /\ IRQ_VECTOR + 14 \in Vectors
    /\ Exceptions \subseteq Vectors /\ SYS_CALL_NUM \in Vectors
    /\ IRQ_VECTOR \notin Exceptions /\ IRQ_VECTOR + 14 \notin Exceptions
    /\ IRQ_VECTOR # IRQ_VECTOR + 14 /\ SYS_CALL_NUM \notin Exceptions
    /\ SYS_CALL_NUM # IRQ_VECTOR /\ SYS_CALL_NUM # IRQ_VECTOR + 14
    /\ GATE_INTERRUPT # 0 /\ GATE_EXCEPTION # 0
  BY DEF Vectors, IRQ_VECTOR, Irqs, Exceptions, SYS_CALL_NUM, GATE_INTERRUPT,
         GATE_EXCEPTION

\* A step that leaves memory alone leaves the tables as they are.
LEMMA SameTables ==
    ASSUME UNCHANGED memory
    PROVE  (Paging' <=> Paging) /\ (Unmapped' <=> Unmapped) /\ (Overrun' <=> Overrun)
  BY DEF memory, paging, Paging, Unmapped, Overrun, Tables, Mapped

\* A call leaves the masks and gates that the next one finds.
LEMMA CodeGates ==
    ASSUME GInv, Code
    PROVE  Masks' /\ Gates' /\ OnlyPaging'
  <1> USE DEF machine, copied, paging, memory, faults, interrupts
  <1>0. pc \in 0 .. Len(Boot)
    BY DEF GInv, TypeOK
  <1>1. CASE Init_e820
    BY <1>0, <1>1, Positions DEF GInv, Masks, Gates, OnlyPaging, Init_e820, Call
  <1>2. CASE Fail_e820
    BY <1>2, SameTables DEF GInv, Masks, Gates, OnlyPaging, Fail_e820
  <1>3. CASE protected_mode
    BY <1>0, <1>3, Positions DEF GInv, Masks, Gates, OnlyPaging, protected_mode, Call, no_gates
  <1>4. CASE Init_8259A
    BY <1>0, <1>4, Positions DEF GInv, Masks, Gates, OnlyPaging, Init_8259A, Call, Irqs
  <1>5. CASE init_idt
    BY <1>0, <1>5, Positions DEF GInv, Masks, Gates, OnlyPaging, init_idt, Call, no_gates
  <1>6. CASE loader_kernel
    BY <1>0, <1>6, Positions DEF GInv, Masks, Gates, OnlyPaging, loader_kernel, Call
  <1>7. CASE cli
    BY <1>0, <1>7, Positions DEF GInv, Masks, Gates, OnlyPaging, cli, Call
  <1>8. CASE get_memory_info
    BY <1>0, <1>8, Positions DEF GInv, Masks, Gates, OnlyPaging, get_memory_info, Call
  <1>9. CASE set_page
    <2>1. Masks' /\ Gates'
      BY <1>0, <1>9, Positions DEF GInv, Masks, Gates, set_page, Call
    <2>2. Paging'
      BY <1>9, SetPageTypes DEF GInv, Paging
    <2>3. ~reset
      BY <1>9 DEF set_page, Call
    <2>4. reset' => Unmapped' \/ Overrun'
      BY <1>9, <2>3 DEF set_page, paging_on
    <2> QED BY <2>1, <2>2, <2>4 DEF OnlyPaging
  <1>10. CASE disable_irqs
    BY <1>0, <1>10, Positions DEF GInv, Masks, Gates, OnlyPaging, disable_irqs, Call, Irqs
  <1>11. CASE lidt
    BY <1>0, <1>11, Positions DEF GInv, Masks, Gates, OnlyPaging, lidt, Call, no_gates
  <1>12. CASE set_exception_gate
    BY <1>0, <1>12, Positions, GateVectors DEF GInv, Masks, Gates, OnlyPaging, set_exception_gate, Call, set_gate, TypeOK
  <1>13. CASE set_intr_gate
    <2>1. /\ pc \in {4, 9, 21} /\ pc' = pc + 1
          /\ gates' = set_gate({IRQ_VECTOR + (IF pc = 9 THEN 14 ELSE 0)}, GATE_INTERRUPT)
      BY <1>0, <1>13, Positions DEF set_intr_gate, Call
    <2>2. Masks' /\ OnlyPaging'
      BY <1>13, <2>1 DEF GInv, Masks, OnlyPaging, set_intr_gate, Call
    <2>3. \A v \in Vectors : gates[v] # 0 => gates'[v] # 0
      BY <2>1, GateVectors DEF set_gate
    <2>4. /\ pc # 9 => gates'[IRQ_VECTOR] # 0
          /\ pc = 9 => gates'[IRQ_VECTOR + 14] # 0
      BY <2>1, GateVectors DEF set_gate, IRQ_VECTOR
    <2> QED BY <2>1, <2>2, <2>3, <2>4, GateVectors DEF GInv, Gates
  <1>14. CASE enable_read
    BY <1>0, <1>14, Positions DEF GInv, Masks, Gates, OnlyPaging, enable_read, Call
  <1>15. CASE enable_write
    BY <1>0, <1>15, Positions DEF GInv, Masks, Gates, OnlyPaging, enable_write, Call, Irqs
  <1> QED
    BY <1>1, <1>2, <1>3, <1>4, <1>5, <1>6, <1>7, <1>8, <1>9, <1>10, <1>11, <1>12, <1>13, <1>14, <1>15 DEF Code

\* What the machine does in between finds a gate, as long as no interrupt comes
\* before the loader has masked them all.
LEMMA MachineGates ==
    ASSUME GInv, ~EarlyTicks,
           \/ \E i \in {0, 14} : request(i) \/ deliver(i)
           \/ \E v \in Exceptions : exception(v)
    PROVE  Masks' /\ Gates' /\ OnlyPaging'
  <1>0. pc \in 0 .. 26 /\ (pc = 2 => Early) /\ Len(Boot) = 26
    BY Positions DEF GInv, TypeOK
  <1>1. Masks' /\ Gates'
    BY DEF GInv, Masks, Gates, request, deliver, exception
  <1>2. ASSUME NEW i \in {0, 14}, request(i) PROVE OnlyPaging'
    BY <1>2, SameTables DEF GInv, OnlyPaging, request, faults
  <1>3. ASSUME deliver(0) PROVE OnlyPaging'
    <2>1. 0 \notin imr /\ ~Early
      BY <1>3 DEF deliver
    <2>2. pc \in 0 .. 1 \cup 7 .. 18 \cup 24 .. 26
      BY <1>0, <2>1 DEF GInv, Masks, Irqs
    <2>3. gates[IRQ_VECTOR + 0] # 0
      BY <2>2 DEF GInv, Gates, IRQ_VECTOR
    <2> QED BY <1>3, <2>3 DEF deliver, OnlyPaging
  <1>4. ASSUME deliver(14) PROVE OnlyPaging'
    <2>1. 14 \notin imr /\ ~Early
      BY <1>4 DEF deliver
    <2>2. pc \in 0 .. 1 \cup 12 .. 18
      BY <1>0, <2>1 DEF GInv, Masks, Irqs
    <2>3. gates[IRQ_VECTOR + 14] # 0
      BY <2>2 DEF GInv, Gates
    <2> QED BY <1>4, <2>3 DEF deliver, OnlyPaging
  <1>5. ASSUME NEW v \in Exceptions, exception(v) PROVE OnlyPaging'
    <2>1. pc = 26
      BY <1>0, <1>5 DEF exception, Booted
    <2>2. gates[v] # 0
      BY <2>1 DEF GInv, Gates
    <2> QED BY <1>5, <2>2 DEF exception, OnlyPaging
  <1> QED BY <1>1, <1>2, <1>3, <1>4, <1>5

\* Loader and kernel start with the masks and gates of the BIOS.
LEMMA InitTypes == Init => TypeOK
  <1> SUFFICES ASSUME Init PROVE TypeOK
    OBVIOUS
  <1>1. Word \in Nat /\ Word > 0
    BY SizesAssumption
  <1>2. beyond \in Region
    <2>1. NoRegion \in Region
      BY <1>1 DEF Region, NoRegion
    <2>2. Wide \in Region
      BY <1>1 DEF Region, Wide
    <2> QED BY <2>1, <2>2 DEF Init
  <1>3. Len(Boot) = 26
    BY DEF Boot, loader_start, Cstart, start_kernel, init_intr, enable_irq, call
  <1>4. gates \in [Vectors -> {0, GATE_INTERRUPT, GATE_EXCEPTION}]
    BY DEF Init
  <1>5. memory_map \in Seq(Region)
    BY DEF Init
  <1>6. /\ pc \in 0 .. Len(Boot) /\ tables \in Nat \cup {-1}
        /\ imr \subseteq Irqs /\ irr \subseteq {0, 14} /\ seen \subseteq Irqs
    BY <1>3 DEF Init
  <1> QED BY <1>2, <1>4, <1>5, <1>6 DEF Init, TypeOK

LEMMA InitGates == Init => GInv
  BY InitTypes, GateVectors DEF Init, GInv, Masks, Gates, OnlyPaging

-----------------------------------------------------------------------------
(* Memory.                                                                  *)

\* A step that leaves memory alone, and is not one of the four calls that do
\* not, keeps what is known of it.
LEMMA MemoryKept ==
    ASSUME MInv, TypeOK', UNCHANGED memory,
           pc' = pc \/ (pc' = pc + 1 /\ pc \notin {0, 14, 16, 17})
    PROVE  MInv'
  <1>1. UNCHANGED <<bios, beyond, DetectCount, info, memory_map, memory_map_cnt,
                    tables, page_cnt, page_bit_map_cnt>>
    BY DEF memory, machine, copied, paging
  <1>2. get_page_cnt' = get_page_cnt /\ LongestLen' = LongestLen
    BY <1>1 DEF get_page_cnt, LongestLen, Ram, Map
  <1>3. PagingSet' <=> PagingSet
    BY <1>1, <1>2 DEF PagingSet
  <1>4. pc \in Nat
    BY DEF MInv, TypeOK
  <1>5. Handed'
    <2>1. pc' >= 1 => DetectCount' = Len(bios') - 1
      BY <1>1, <1>4 DEF MInv, Handed
    <2>2. pc' \in 15 .. 16 => info' = DetectCount'
      BY <1>1, <1>4 DEF MInv, Handed
    <2>3. pc' >= 17 => pc >= 17
      BY <1>4
    <2> QED BY <1>1, <2>1, <2>2, <2>3 DEF MInv, Handed
  <1>6. Paging' <=> Paging
    BY <1>1 DEF Paging
  <1> QED BY <1>3, <1>4, <1>5, <1>6 DEF MInv

\* Every step keeps what is known of the map and of what set_page made of it.
LEMMA NextMemory == MInv /\ [Next]_vars => MInv'
  <1> SUFFICES ASSUME MInv, [Next]_vars PROVE MInv'
    OBVIOUS
  <1>1. TypeOK /\ TypeOK' /\ pc \in 0 .. Len(Boot) /\ Len(Boot) = 26
    BY NextTypes, Positions DEF MInv, TypeOK
  <1>2. CASE Init_e820
    <2>1. pc = 0 /\ pc' = 1
      BY <1>1, <1>2, Positions DEF Init_e820, Call
    <2> QED BY <1>1, <1>2, <2>1
            DEF MInv, Handed, Paging, Init_e820, machine, paging
  <1>3. CASE loader_kernel
    <2>1. pc = 14 /\ pc' = 15
      BY <1>1, <1>3, Positions DEF loader_kernel, Call
    <2> QED BY <1>1, <1>3, <2>1
            DEF MInv, Handed, Paging, loader_kernel, machine, paging
  <1>4. CASE get_memory_info
    <2>1. pc = 16 /\ pc' = 17
      BY <1>1, <1>4, Positions DEF get_memory_info, Call
    <2> QED BY <1>1, <1>4, <2>1
            DEF MInv, Handed, Paging, get_memory_info, machine, paging
  <1>5. CASE set_page
    <2>1. pc = 17 /\ pc' = 18
      BY <1>1, <1>5, Positions DEF set_page, Call
    <2>2. PagingSet'
      BY <1>1, <1>5, SetPageTypes
    <2>3. Handed'
      <3>1. UNCHANGED <<bios, DetectCount, memory_map, memory_map_cnt>>
        BY <1>5 DEF set_page, machine, copied
      <3>2. pc >= 1 /\ pc >= 17 /\ pc' \notin 15 .. 16
        BY <2>1
      <3> QED BY <3>1, <3>2 DEF MInv, Handed
    <2> QED BY <1>1, <2>1, <2>2, <2>3 DEF MInv
  <1>6. CASE protected_mode \/ Init_8259A \/ init_idt \/ cli \/ disable_irqs
             \/ lidt \/ set_exception_gate \/ set_intr_gate
             \/ enable_read \/ enable_write
    <2>1. UNCHANGED memory
      BY <1>6 DEF protected_mode, Init_8259A, init_idt, cli, disable_irqs, lidt,
                  set_exception_gate, set_intr_gate, enable_read, enable_write
    <2>2. pc' = pc + 1 /\ pc \notin {0, 14, 16, 17}
      BY <1>1, <1>6, Positions
         DEF Call, protected_mode, Init_8259A, init_idt, cli, disable_irqs, lidt,
             set_exception_gate, set_intr_gate, enable_read, enable_write
    <2> QED BY <1>1, <2>1, <2>2, MemoryKept
  <1>7. CASE \/ Fail_e820 \/ UNCHANGED vars
             \/ \E i \in {0, 14} : request(i) \/ deliver(i)
             \/ \E v \in Exceptions : exception(v)
    <2>1. UNCHANGED memory /\ pc' = pc
      BY <1>7 DEF Fail_e820, vars, request, deliver, exception
    <2> QED BY <1>1, <2>1, MemoryKept
  <1> QED BY <1>2, <1>3, <1>4, <1>5, <1>6, <1>7 DEF Next, Code

LEMMA InitMemory == Init => MInv
  BY InitTypes DEF Init, MInv, Handed, Paging

\* A size in pages, when the u32 sum of get_page_cnt does not wrap, and what is
\* left of it when it does.
LEMMA PagesBounds ==
    ASSUME NEW s \in Nat
    PROVE  /\ PAGE_SIZE * pages(s) <= s + PAGE_SIZE - 1
           /\ s + PAGE_SIZE <= Word => PAGE_SIZE * pages(s) >= s
           /\ \A k \in Nat : s <= PAGE_SIZE * k => pages(s) <= k
  <1> DEFINE a == s + PAGE_SIZE - 1
             r == a % Word
  <1>1. /\ PAGE_SIZE \in Nat \ {0} /\ Word \in Nat \ {0}
        /\ a \in Nat /\ a = s + PAGE_SIZE - 1
    BY SizesAssumption
  <1>2. /\ r \in Nat /\ r <= s + PAGE_SIZE - 1
        /\ s + PAGE_SIZE <= Word => r = s + PAGE_SIZE - 1
    <2> HIDE DEF a
    <2>1. r \in 0 .. Word - 1 /\ r <= a /\ (a \in 0 .. Word - 1 => r = a)
      BY <1>1
    <2> HIDE DEF r
    <2> QED BY <1>1, <2>1
  <1> HIDE DEF r
  <1>3. /\ r \div PAGE_SIZE \in Nat /\ PAGE_SIZE * (r \div PAGE_SIZE) <= r
        /\ r < PAGE_SIZE * (r \div PAGE_SIZE) + PAGE_SIZE
    BY <1>1, <1>2, Division
  <1>4. pages(s) = r \div PAGE_SIZE
    BY DEF pages, r, a
  <1>5. ASSUME NEW k \in Nat, s <= PAGE_SIZE * k
        PROVE  pages(s) <= k
    <2> SUFFICES ASSUME pages(s) >= k + 1 PROVE FALSE
      BY <1>3, <1>4
    <2>1. PAGE_SIZE * (k + 1) <= PAGE_SIZE * pages(s)
      BY <1>1, <1>3, <1>4, TimesMonotone
    <2>2. PAGE_SIZE * (k + 1) = PAGE_SIZE * k + PAGE_SIZE
      BY <1>1
    <2> QED BY <1>1, <1>2, <1>3, <1>4, <1>5, <2>1, <2>2
  <1> QED BY <1>1, <1>2, <1>3, <1>4, <1>5

\* The tables for a number of pages, or the directories for a number of tables.
LEMMA TablesBounds ==
    ASSUME NEW c \in Nat
    PROVE  /\ PAGE_ENTRYS * get_ptet_cnt(c) >= c
           /\ \A k \in Nat : c <= PAGE_ENTRYS * k => get_ptet_cnt(c) <= k
  <1> DEFINE q == (c + PAGE_ENTRYS - 1) \div PAGE_ENTRYS
  <1>1. PAGE_ENTRYS \in Nat \ {0} /\ c + PAGE_ENTRYS - 1 \in Nat
    BY SizesAssumption
  <1>2. /\ q \in Nat /\ PAGE_ENTRYS * q <= c + PAGE_ENTRYS - 1
        /\ c + PAGE_ENTRYS - 1 < PAGE_ENTRYS * q + PAGE_ENTRYS
    BY <1>1, Division
  <1>3. get_ptet_cnt(c) = q
    BY DEF get_ptet_cnt
  <1> HIDE DEF q
  <1>4. ASSUME NEW k \in Nat, c <= PAGE_ENTRYS * k
        PROVE  q <= k
    <2> SUFFICES ASSUME q >= k + 1 PROVE FALSE
      BY <1>2
    <2>1. PAGE_ENTRYS * (k + 1) <= PAGE_ENTRYS * q
      BY <1>1, <1>2, TimesMonotone
    <2>2. PAGE_ENTRYS * (k + 1) = PAGE_ENTRYS * k + PAGE_ENTRYS
      BY <1>1
    <2> QED BY <1>1, <1>2, <1>4, <2>1, <2>2
  <1> QED BY <1>1, <1>2, <1>3, <1>4

\* Once paging is on and the map has fitted, the kernel knows the machine: its
\* copy of the map is the BIOS's, without the entry that was not counted.
LEMMA KernelKnows ==
    ASSUME MInv, Paging, Fits
    PROVE  /\ PagingSet
           /\ \A i \in RamAt : /\ bios[i].base \in Nat /\ bios[i].len \in Nat
                               /\ Ends(i) \in Nat /\ i \in 1 .. Len(bios)
           /\ \A i \in RamAt : Last(i) => get_page_cnt = pages(Ends(i))
           /\ \A i \in RamAt : Longest(i) => LongestLen = bios[i].len
  <1>1. /\ pc >= 18 /\ PagingSet /\ bios \in Seq(Region) /\ Len(bios) \in Nat
        /\ memory_map_cnt = Len(bios) - 1
        /\ memory_map = SubSeq(bios, 1, Min({Len(bios), MAP_MAX}))
    <2>1. pc \in Nat /\ bios \in Machines
      BY DEF MInv, TypeOK
    <2>2. bios \in Seq(Region) /\ Len(bios) \in Nat
      BY <2>1, MachinesAssumption
    <2>3. pc >= 18 /\ PagingSet
      BY <2>1 DEF MInv
    <2>4. Handed
      BY DEF MInv
    <2>5. pc >= 17
      BY <2>1, <2>3
    <2> QED BY <2>2, <2>3, <2>4, <2>5 DEF Handed
  <1>2. \A i \in 1 .. Len(bios) - 1 : Map(i) = bios[i]
    BY <1>1, ShortMap DEF Map, Fits
  <1>3. Ram = RamAt
    BY <1>1, <1>2 DEF Ram, RamAt, Counted
  <1>4. ASSUME NEW i \in RamAt
        PROVE  /\ bios[i].base \in Nat /\ bios[i].len \in Nat /\ Ends(i) \in Nat
               /\ i \in 1 .. Len(bios) /\ i \in Nat /\ Map(i) = bios[i]
    <2>1. i \in 1 .. Len(bios) /\ i \in 1 .. Len(bios) - 1
      BY <1>1 DEF RamAt, Counted
    <2>2. bios[i] \in Region
      BY <1>1, <2>1
    <2> QED BY <1>2, <2>1, <2>2 DEF Region, Ends
  <1>5. ASSUME NEW i \in RamAt, Last(i)
        PROVE  get_page_cnt = pages(Ends(i))
    <2>1. Max(RamAt) = i
      BY <1>4, <1>5, MaxIs DEF Last
    <2> QED BY <1>3, <1>4, <1>5, <2>1 DEF get_page_cnt, Ends
  <1>6. ASSUME NEW i \in RamAt, Longest(i)
        PROVE  LongestLen = bios[i].len
    <2> DEFINE T == {Map(j).len : j \in Ram} \cup {0}
    <2>1. T \subseteq Nat /\ bios[i].len \in T
      BY <1>3, <1>4
    <2>2. \A x \in T : x <= bios[i].len
      BY <1>3, <1>4, <1>6 DEF Longest
    <2>3. Max(T) = bios[i].len
      BY <2>1, <2>2, MaxIs
    <2> QED BY <2>3 DEF LongestLen
  <1> QED BY <1>1, <1>4, <1>5, <1>6

\* The areas, from what set_page has computed.
LEMMA ApartFromMap == MInv => AreasApart
  <1> SUFFICES ASSUME MInv, Paging, Fits, NEW i \in RamAt
               PROVE  /\ Last(i) /\ pages(Ends(i)) <= PAGE_ENTRYS * TableRoom
                          => Tables <= STACK_TOP - STACK_ROOM
                      /\ /\ Longest(i) /\ bios[i].len >= BIT_MAP
                         /\ bios[i].len <= BIT_MAP + PageBytes * 8 * PAGE_SIZE
                         => page_bit_map_cnt <= PageBytes
    BY DEF AreasApart
  <1>1. /\ PAGE_SIZE \in Nat \ {0} /\ PAGE_ENTRYS \in Nat \ {0} /\ BIT_MAP \in Nat
        /\ STACK_TOP \in Nat /\ STACK_ROOM \in Nat /\ PAGE_TABLE_LOCAL \in Nat
        /\ PAGE_TABLE_LOCAL < STACK_TOP - STACK_ROOM
    BY SizesAssumption
  <1>2. /\ PagingSet /\ bios[i].len \in Nat /\ Ends(i) \in Nat
        /\ Last(i) => get_page_cnt = pages(Ends(i))
        /\ Longest(i) => LongestLen = bios[i].len
    BY KernelKnows
  <1>3. ASSUME Last(i), pages(Ends(i)) <= PAGE_ENTRYS * TableRoom
        PROVE  Tables <= STACK_TOP - STACK_ROOM
    <2> DEFINE n == get_ptet_cnt(pages(Ends(i)))
               room == STACK_TOP - STACK_ROOM - PAGE_TABLE_LOCAL
    <2>1. room \in Nat /\ room <= PAGE_SIZE * PAGE_ENTRYS
      BY <1>1, LayoutAssumption
    <2>2. TableRoom \in Nat /\ PAGE_SIZE * TableRoom <= room
      BY <1>1, <2>1, Division DEF TableRoom
    <2>3. pages(Ends(i)) \in Nat /\ n \in Nat
      BY <1>2, PagesType, TablesType
    <2>4. n <= TableRoom
      BY <1>3, <2>2, <2>3, TablesBounds
    <2>5. TableRoom <= PAGE_ENTRYS
      <3> SUFFICES ASSUME TableRoom >= PAGE_ENTRYS + 1 PROVE FALSE
        BY <1>1, <2>2
      <3>1. PAGE_SIZE * (PAGE_ENTRYS + 1) <= PAGE_SIZE * TableRoom
        BY <1>1, <2>2, TimesMonotone
      <3> QED BY <1>1, <2>1, <2>2, <3>1
    <2>6. get_ptet_cnt(n) \in Nat /\ get_ptet_cnt(n) <= 1
      <3>1. n <= PAGE_ENTRYS * 1
        BY <1>1, <2>2, <2>3, <2>4, <2>5
      <3> QED BY <2>3, <3>1, TablesType, TablesBounds
    <2>7. tables = get_ptet_cnt(n) * n
      BY <1>2, <1>3 DEF PagingSet
    <2> HIDE DEF n
    <2>8. tables \in Nat /\ tables <= TableRoom
      BY <2>2, <2>3, <2>4, <2>6, <2>7
    <2>9. PAGE_SIZE * tables <= PAGE_SIZE * TableRoom
      BY <1>1, <2>2, <2>8, TimesMonotone
    <2> QED BY <1>1, <2>1, <2>2, <2>8, <2>9 DEF Tables
  <1>4. ASSUME Longest(i), bios[i].len >= BIT_MAP,
               bios[i].len <= BIT_MAP + PageBytes * 8 * PAGE_SIZE
        PROVE  page_bit_map_cnt <= PageBytes
    <2> DEFINE s == bios[i].len - BIT_MAP
    <2>1. PageBytes \in Nat /\ PageBytes * 8 \in Nat
      BY <1>1 DEF PageBytes
    <2>2. s \in Nat /\ s <= PAGE_SIZE * (PageBytes * 8)
      BY <1>1, <1>2, <1>4, <2>1
    <2>3. page_cnt = pages(s) /\ page_bit_map_cnt = (page_cnt + 8 - 1) \div 8
      BY <1>2, <1>4 DEF PagingSet
    <2>4. pages(s) \in Nat /\ pages(s) <= PageBytes * 8
      BY <2>1, <2>2, PagesType, PagesBounds
    <2> QED BY <2>1, <2>3, <2>4
  <1> QED BY <1>3, <1>4

\* The tables and the pages of the bitmap, from what set_page has computed.
LEMMA MappedFromMap == MInv => PagesAreMapped
  <1> SUFFICES ASSUME MInv, Paging, Fits, NEW i \in RamAt, NEW j \in RamAt,
                      Longest(i), Last(j), bios[i].len >= BIT_MAP,
                      Ends(i) <= Ends(j), Ends(j) + PAGE_SIZE <= Word
               PROVE  MapEnd <= Mapped
    BY DEF PagesAreMapped
  <1> DEFINE s == bios[i].len - BIT_MAP
             P == pages(Ends(j))
             n == get_ptet_cnt(P)
             b == BIT_MAP \div PAGE_SIZE
  <1>1. /\ PAGE_SIZE \in Nat \ {0} /\ PAGE_ENTRYS \in Nat \ {0}
        /\ BIT_MAP \in Nat \ {0}
    BY SizesAssumption
  <1>2. /\ PagingSet /\ bios[i].base \in Nat /\ bios[i].len \in Nat
        /\ LongestLen = bios[i].len
        /\ Ends(j) \in Nat /\ get_page_cnt = pages(Ends(j))
    BY KernelKnows
  <1>3. s \in Nat /\ page_cnt = pages(s) /\ bios[i].len <= Ends(j)
    BY <1>1, <1>2 DEF PagingSet, Ends
  <1>4. PAGE_SIZE * P >= Ends(j) /\ P \in Nat
    BY <1>2, PagesBounds, PagesType
  <1>5. b \in Nat /\ BIT_MAP = PAGE_SIZE * b
    BY <1>1, Division, LayoutAssumption
  <1> HIDE DEF b, P
  <1>6. b <= P
    <2> SUFFICES ASSUME b >= P + 1 PROVE FALSE
      BY <1>4, <1>5
    <2>1. PAGE_SIZE * (P + 1) <= PAGE_SIZE * b
      BY <1>1, <1>4, <1>5, TimesMonotone
    <2>2. PAGE_SIZE * (P + 1) = PAGE_SIZE * P + PAGE_SIZE
      BY <1>1, <1>4
    <2> QED BY <1>1, <1>2, <1>3, <1>4, <1>5, <2>1, <2>2
  \* The bitmap has no more pages than are between 5 MB and the end.
  <1>7. page_cnt \in Nat /\ page_cnt <= P - b
    <2>1. P - b \in Nat /\ PAGE_SIZE * (P - b) = PAGE_SIZE * P - PAGE_SIZE * b
      BY <1>1, <1>4, <1>5, <1>6
    <2>2. PAGE_SIZE * P \in Nat /\ PAGE_SIZE * b \in Nat
      BY <1>1, <1>4, <1>5
    <2>3. s <= PAGE_SIZE * P - PAGE_SIZE * b
      BY <1>2, <1>3, <1>4, <1>5, <2>2
    <2> QED BY <1>3, <2>1, <2>3, PagesBounds, PagesType
  <1>8. n \in Nat /\ PAGE_ENTRYS * n >= P
    BY <1>4, TablesType, TablesBounds
  <1>9. get_ptet_cnt(n) \in Nat /\ get_ptet_cnt(n) >= 1
    <2>1. n >= 1
      <3>1. P >= 1
        BY <1>1, <1>2, <1>3, <1>4
      <3> QED BY <1>1, <1>4, <1>8, <3>1
    <2>2. get_ptet_cnt(n) \in Nat /\ PAGE_ENTRYS * get_ptet_cnt(n) >= n
      BY <1>8, TablesType, TablesBounds
    <2> QED BY <1>1, <1>8, <2>1, <2>2
  <1>10. tables = get_ptet_cnt(n) * n
    BY <1>2 DEF PagingSet, P
  <1> HIDE DEF n
  <1>11. tables \in Nat /\ tables >= n
    BY <1>8, <1>9, <1>10
  <1>12. tables * PAGE_ENTRYS \in Nat /\ tables * PAGE_ENTRYS >= P
    <2>1. PAGE_ENTRYS * n <= PAGE_ENTRYS * tables
      BY <1>1, <1>8, <1>11, TimesMonotone
    <2> QED BY <1>1, <1>4, <1>8, <1>11, <2>1
  <1>13. PAGE_SIZE * P <= PAGE_SIZE * (tables * PAGE_ENTRYS)
    BY <1>1, <1>4, <1>12, TimesMonotone
  <1>14. PAGE_SIZE * page_cnt <= PAGE_SIZE * (P - b)
    BY <1>1, <1>4, <1>5, <1>6, <1>7, TimesMonotone
  <1>15. PAGE_SIZE * (P - b) = PAGE_SIZE * P - BIT_MAP
    BY <1>1, <1>4, <1>5
  <1>16. MapEnd = BIT_MAP + PAGE_SIZE * page_cnt
    BY <1>1, <1>7 DEF MapEnd
  <1>17. Mapped = PAGE_SIZE * (tables * PAGE_ENTRYS)
    BY <1>1, <1>11, <1>12 DEF Mapped
  <1> QED BY <1>1, <1>4, <1>7, <1>12, <1>13, <1>14, <1>15, <1>16, <1>17

\* On a machine it can manage set_page does not fault.
LEMMA ManageableSetUp ==
    ASSUME MInv, Paging, Manageable
    PROVE  ~Unmapped /\ ~Overrun
  <1>1. PICK i \in RamAt, j \in RamAt :
            /\ Longest(i) /\ bios[i].len > BIT_MAP
            /\ Last(j) /\ Ends(i) <= Ends(j) /\ Ends(j) + PAGE_SIZE <= Word
            /\ pages(Ends(j)) <= PAGE_ENTRYS * TableRoom
    BY DEF Manageable
  <1>2. /\ PAGE_SIZE \in Nat \ {0} /\ BIT_MAP \in Nat \ {0} /\ PAGE_ENTRYS \in Nat
        /\ Word \in Nat /\ STACK_TOP \in Nat /\ STACK_ROOM \in Nat
        /\ PAGE_TABLE_LOCAL \in Nat
    BY SizesAssumption
  <1>3. /\ Fits /\ PagingSet /\ bios[i].len \in Nat /\ LongestLen = bios[i].len
        /\ bios[i].base \in Nat /\ Ends(i) = bios[i].base + bios[i].len
        /\ tables \in Nat /\ page_cnt \in Nat /\ Ends(j) \in Nat
    BY <1>1, KernelKnows DEF Manageable, Ends, MInv, TypeOK, Paging
  <1>4. Tables <= STACK_TOP - STACK_ROOM
    BY <1>1, <1>3, ApartFromMap DEF AreasApart
  <1>5. MapEnd <= Mapped
    BY <1>1, <1>2, <1>3, MappedFromMap DEF PagesAreMapped
  <1> DEFINE s == bios[i].len - BIT_MAP
             P == PAGE_SIZE * page_cnt
  <1>6. PAGE_SIZE <= BIT_MAP
    <2>1. /\ BIT_MAP \div PAGE_SIZE \in Nat
          /\ BIT_MAP = PAGE_SIZE * (BIT_MAP \div PAGE_SIZE)
      BY <1>2, Division, LayoutAssumption
    <2> DEFINE b == BIT_MAP \div PAGE_SIZE
    <2> HIDE DEF b
    <2>2. b \in Nat /\ BIT_MAP = PAGE_SIZE * b
      BY <2>1 DEF b
    <2>3. b >= 1
      BY <1>2, <2>2
    <2>4. PAGE_SIZE * 1 <= PAGE_SIZE * b
      BY <1>2, <2>2, <2>3, TimesMonotone
    <2> QED BY <1>2, <2>2, <2>4
  <1>7. s \in Nat /\ s >= 1 /\ page_cnt = pages(s) /\ s + PAGE_SIZE <= Word
    <2>1. bios[i].len <= Word
      BY <1>1, <1>2, <1>3
    <2> QED BY <1>1, <1>2, <1>3, <1>6, <2>1 DEF PagingSet
  <1>8. P >= s
    BY <1>7, PagesBounds
  <1>9. page_cnt <= P
    <2>1. page_cnt * 1 <= page_cnt * PAGE_SIZE
      BY <1>2, <1>3, TimesMonotone
    <2> QED BY <1>2, <1>3, <2>1
  <1>10. /\ page_bit_map_cnt = (page_cnt + 8 - 1) \div 8
         /\ MapEnd = BIT_MAP + P
    BY <1>2, <1>3 DEF PagingSet, MapEnd
  <1>11. P \in Nat /\ Mapped \in Nat
    BY <1>2, <1>3 DEF Mapped
  <1> HIDE DEF P
  <1>12. (page_bit_map_cnt + 1023) \div 1024 <= P
    BY <1>3, <1>7, <1>8, <1>9, <1>10, <1>11
  <1>13. ~Unmapped
    <2>1. (page_bit_map_cnt + 1023) \div 1024 \in Nat
      BY <1>3, <1>10
    <2> QED BY <1>2, <1>5, <1>7, <1>8, <1>10, <1>11, <1>12, <2>1 DEF Unmapped
  <1>14. ~Overrun
    BY <1>2, <1>3, <1>4 DEF Overrun, Tables
  <1> QED BY <1>13, <1>14

-----------------------------------------------------------------------------
(* The theorems.                                                            *)

\* Every variable of loader and kernel keeps its type.
THEOREM BootTypes == Spec => []TypeOK
  BY InitTypes, NextTypes, PTL DEF Spec

\* If no interrupt comes before Init_8259A has masked them, none ever finds its
\* gate missing, neither while init_idt and load_idt replace the table with
\* interrupts on nor between the enable_irq calls, and no exception of a thread
\* does; and set_page, which runs when no exception has a gate, does not fault on
\* any machine whose map fits and whose RAM ends where its tables can map it.
THEOREM GatesAreReady == ~EarlyTicks => (Spec => []GatesReady)
  <1> SUFFICES ASSUME ~EarlyTicks PROVE Spec => []GatesReady
    OBVIOUS
  <1>1. GInv /\ [Next]_vars => GInv'
    <2> SUFFICES ASSUME GInv, [Next]_vars PROVE GInv'
      OBVIOUS
    <2>1. TypeOK'
      BY NextTypes DEF GInv
    <2>2. CASE Code
      BY <2>1, <2>2, CodeGates DEF GInv
    <2>3. CASE \/ \E i \in {0, 14} : request(i) \/ deliver(i)
               \/ \E v \in Exceptions : exception(v)
      BY <2>1, <2>3, MachineGates DEF GInv
    <2>4. CASE UNCHANGED vars
      BY <2>1, <2>4, SameTables DEF vars, interrupts, faults, GInv, Masks, Gates, OnlyPaging
    <2> QED BY <2>2, <2>3, <2>4 DEF Next
  <1>2. GInv /\ MInv => GatesReady
    BY ManageableSetUp DEF GInv, OnlyPaging, GatesReady
  <1> QED BY <1>1, <1>2, InitGates, InitMemory, NextMemory, PTL DEF Spec

\* On any machine whose last RAM ends below what the tables between 1 MB and the
\* stack can map, set_page writes no table into the stack or the kernel; and on
\* any whose longest region the page of bits can describe, the bitmap stays in
\* its page.
THEOREM AreasKeepApart == Spec => []AreasApart
  BY ApartFromMap, InitMemory, NextMemory, PTL DEF Spec

\* On any machine whose longest region begins between one page and 5 MB and
\* ends behind 5 MB, every page of the bitmap is RAM, although
\* init_page_bit_map takes the region's length for its end.
THEOREM PagesAreInRam == Spec => []PagesAreRam
  <1>1. MInv => PagesAreRam
    <2> SUFFICES ASSUME MInv, Paging, Fits, NEW i \in RamAt,
                        Longest(i), bios[i].len >= BIT_MAP,
                        bios[i].base >= PAGE_SIZE, bios[i].base <= BIT_MAP
                 PROVE  IsRam(BIT_MAP, MapEnd)
      BY DEF PagesAreRam
    <2> DEFINE s == bios[i].len - BIT_MAP
    <2>1. PAGE_SIZE \in Nat \ {0} /\ BIT_MAP \in Nat
      BY SizesAssumption
    <2>2. /\ PagingSet /\ bios[i].base \in Nat /\ bios[i].len \in Nat
          /\ LongestLen = bios[i].len /\ i \in 1 .. Len(bios)
      BY KernelKnows
    <2>3. s \in Nat /\ page_cnt = pages(s)
      BY <2>1, <2>2 DEF PagingSet
    <2>4. PAGE_SIZE * page_cnt <= s + PAGE_SIZE - 1 /\ page_cnt \in Nat
      BY <2>3, PagesBounds, PagesType
    <2>5. MapEnd <= bios[i].base + bios[i].len
      BY <2>1, <2>2, <2>4 DEF MapEnd
    <2>6. bios[i].ram
      BY DEF RamAt
    <2> QED BY <2>2, <2>5, <2>6 DEF IsRam, Ends
  <1> QED BY <1>1, InitMemory, NextMemory, PTL DEF Spec

\* On any machine whose last RAM region ends no earlier than the longest and
\* below 4 GB, the page tables map every page of the bitmap, although set_page
\* and init_page_bit_map look at different regions.
THEOREM PagesHaveTables == Spec => []PagesAreMapped
  BY MappedFromMap, InitMemory, NextMemory, PTL DEF Spec
=============================================================================
