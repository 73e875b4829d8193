----------------------------- MODULE KernelBoot -----------------------------
(***************************************************************************)
(* From the loader's first instruction to the first thread, as far as      *)
(* memory and interrupts are concerned: the BIOS map that Init_e820        *)
(* collects (boot/loader.s), the interrupts Cstart lets in (boot/loader.c),*)
(* and start_kernel (kernel/kernel.c), which copies the map                *)
(* (kernel/mm/mm.c), builds page tables and page bitmap (kernel/mm/page.c),*)
(* replaces the IDT (kernel/desc/idt.c) and lets the timer in again        *)
(* (kernel/8259a/8259a.c, kernel/interrupt/timer.c).                       *)
(*                                                                         *)
(* Two things can go wrong: the areas of memory meant to be disjoint,      *)
(* present and mapped follow from the BIOS map by arithmetic on u32s; and  *)
(* timer and disk may interrupt whenever the flag and the masks allow it,  *)
(* through whatever gates there are by then.                               *)
(*                                                                         *)
(* Addresses and sizes are in KB; memory regions begin and end at whole KB.*)
(***************************************************************************)
EXTENDS Integers, Sequences, FiniteSets, FiniteSetsExt

CONSTANTS
    Machines,       \* BIOS maps: sequences of regions
    PAGE_SIZE,      \* 4 KB
    PAGE_ENTRYS,    \* entries of a page table
    PAGE_DIR_LOCAL, \* 1 MB, where the loader puts kernel_info as well
    PAGE_TABLE_LOCAL,
    STACK_TOP,      \* start_kernel's stack grows down from here ...
    STACK_ROOM,     \* ... by at most this much; the kernel is above it
    BIT_MAP,        \* page_bit_map
    MAP_MAX,        \* entries of memory_map[]
    EarlyTicks,     \* whether interrupts may come before the loader masks them
    Word            \* 2^32 bytes

Region == [base : 0 .. Word - 1, len : 0 .. Word - 1, ram : BOOLEAN]

ASSUME MachinesAssumption == \A m \in Machines : m \in Seq(Region) /\ m # << >>
ASSUME EarlyAssumption == EarlyTicks \in BOOLEAN
ASSUME SizesAssumption ==
    /\ {PAGE_SIZE, PAGE_ENTRYS, PAGE_DIR_LOCAL, STACK_ROOM, BIT_MAP, MAP_MAX}
           \subseteq Nat \ {0}
    /\ PAGE_TABLE_LOCAL = PAGE_DIR_LOCAL + PAGE_SIZE
    /\ STACK_TOP \in Nat /\ Word \in Nat
    /\ PAGE_TABLE_LOCAL < STACK_TOP - STACK_ROOM
    /\ STACK_TOP < BIT_MAP /\ BIT_MAP < Word

ASSUME LayoutAssumption ==
    /\ BIT_MAP = PAGE_SIZE * (BIT_MAP \div PAGE_SIZE)     \* at a page
    \* Below the stack there is no room for more tables than a directory lists.
    /\ STACK_TOP - STACK_ROOM - PAGE_TABLE_LOCAL <= PAGE_SIZE * PAGE_ENTRYS

Irqs == {0, 2, 14}              \* timer, the line of the slave, disk
IRQ_VECTOR == 48                \* both controllers: irq i has vector 48 + i
Exceptions == 0 .. 17
SYS_CALL_NUM == 128
Vectors == Exceptions \cup {IRQ_VECTOR + i : i \in Irqs} \cup {SYS_CALL_NUM}
GATE_INTERRUPT == 14            \* turns interrupts off
GATE_EXCEPTION == 15            \* leaves them as they are

VARIABLES
    bios,           \* the machine's memory map
    beyond,         \* what the memory behind memory_map[] reads as
    pc,             \* how many calls of Boot have been made
    DetectCount,    \* entries counted by Init_e820
    info,           \* the memory at 1 MB: what kernel_info reads as
    memory_map,     \* the kernel's copy of the map ...
    memory_map_cnt, \* ... and of its length
    tables,         \* page tables written; -1: paging is off
    page_cnt,       \* pages of the bitmap
    page_bit_map_cnt,  \* bytes of the bitmap
    gates,          \* the type of every gate of the current IDT, 0: not set
    IF_,            \* the interrupt flag
    imr,            \* interrupts masked
    irr,            \* interrupts requested
    seen,           \* the masks enable_irq has read
    stuck,          \* a message has been printed and jmp . or for (;;) runs
    reset           \* an interrupt, exception or fault came and had no gate

machine == <<bios, beyond>>
copied == <<memory_map, memory_map_cnt>>
paging == <<tables, page_cnt, page_bit_map_cnt>>
memory == <<machine, DetectCount, info, copied, paging>>
faults == <<stuck, reset>>
interrupts == <<gates, IF_, imr, irr, seen, faults>>
vars == <<pc, memory, interrupts>>

\* A word of the page directory, taken for a count: more than any map has.
DirWord == 2 * MAP_MAX

NoRegion == [base |-> 0, len |-> 0, ram |-> FALSE]
Wide == [base |-> 0, len |-> Word - 1, ram |-> TRUE]

-----------------------------------------------------------------------------
(* The calls that matter here, unfolded at the points where interrupts may  *)
(* come.                                                                    *)

call(f, i) == <<[f |-> f, irq |-> i]>>
enable_irq(i) == call("enable_read", i) \o call("enable_write", i)

\* init_timer and init_hd: set_intr_gate with its enable_irq, and another one.
init_intr(i) == call("set_intr_gate", i) \o enable_irq(i) \o enable_irq(i)

loader_start == call("Init_e820", 0) \o call("protected_mode", 0)
Cstart ==
    call("Init_8259A", 0) \o call("init_idt", 0) \o init_intr(0) \o init_intr(14)
    \o call("loader_kernel", 0) \o call("cli", 0)

\* Mutant: the map is copied after the page tables have been built.
start_kernel_late ==
    call("set_page", 0) \o call("get_memory_info", 0) \o call("disable_irqs", 0)
    \o call("lidt", 0) \o call("set_exception_gate", 0) \o init_intr(0)

\* Mutant: the loader's masks are left as they are.
start_kernel_open ==
    call("get_memory_info", 0) \o call("set_page", 0)
    \o call("lidt", 0) \o call("set_exception_gate", 0) \o init_intr(0)

\* Up to creat_init, where Preemption begins.
start_kernel ==
    call("get_memory_info", 0) \o call("set_page", 0) \o call("disable_irqs", 0)
    \o call("lidt", 0) \o call("set_exception_gate", 0) \o init_intr(0)

Boot == loader_start \o Cstart \o start_kernel
Booted == pc = Len(Boot)
Now == Boot[pc + 1]

Call(f) ==
    /\ ~Booted /\ Now.f = f /\ ~stuck /\ ~reset
    /\ pc' = pc + 1

\* In protected mode, with the vectors and handlers of real mode.
Early == ~Booted /\ Now.f = "Init_8259A"

TypeOK ==
    /\ bios \in Machines /\ beyond \in Region /\ pc \in 0 .. Len(Boot)
    /\ DetectCount \in Nat /\ info \in Nat
    /\ memory_map \in Seq(Region) /\ memory_map_cnt \in Nat
    /\ tables \in Nat \cup {-1} /\ page_cnt \in Nat /\ page_bit_map_cnt \in Nat
    /\ gates \in [Vectors -> {0, GATE_INTERRUPT, GATE_EXCEPTION}]
    /\ IF_ \in BOOLEAN /\ stuck \in BOOLEAN /\ reset \in BOOLEAN
    /\ imr \subseteq Irqs /\ irr \subseteq {0, 14} /\ seen \subseteq Irqs

\* The BIOS has interrupts on, and handlers for all of them.
Init ==
    /\ bios \in Machines /\ beyond \in {NoRegion, Wide}
    /\ pc = 0 /\ DetectCount = 0 /\ info = 0
    /\ memory_map = << >> /\ memory_map_cnt = 0
    /\ tables = -1 /\ page_cnt = 0 /\ page_bit_map_cnt = 0
    /\ gates = [v \in Vectors |-> GATE_INTERRUPT]
    /\ IF_ = TRUE /\ imr = {} /\ irr = {} /\ seen = {}
    /\ stuck = FALSE /\ reset = FALSE

-----------------------------------------------------------------------------
(* Memory.                                                                  *)

\* Mutant: the first entry is not counted either.
Init_e820_short ==
    /\ Call("Init_e820")
    /\ DetectCount' = Len(bios) - 2
    /\ UNCHANGED <<machine, info, copied, paging, interrupts>>

\* One int 0x15 per entry; DetectCount is incremented unless ebx says that
\* this was the last one.
Init_e820 ==
    /\ Call("Init_e820")
    /\ DetectCount' = Len(bios) - 1
    /\ UNCHANGED <<machine, info, copied, paging, interrupts>>

\* The BIOS reports an error: "Get memory map failed."
Fail_e820 ==
    /\ pc = 0 /\ ~stuck
    /\ stuck' = TRUE
    /\ UNCHANGED <<memory, pc, gates, IF_, imr, irr, seen, reset>>

\* The end of loader_kernel: kernel_info is put at 1 MB.
loader_kernel ==
    /\ Call("loader_kernel")
    /\ info' = DetectCount
    /\ UNCHANGED <<machine, DetectCount, copied, paging, interrupts>>

\* kernel_info and memory_map[] are copied; a shorter map leaves the rest of
\* the five entries to what the buffer held before.
get_memory_info ==
    /\ Call("get_memory_info")
    /\ memory_map_cnt' = info
    /\ memory_map' = SubSeq(bios, 1, Min({Len(bios), MAP_MAX}))
    /\ UNCHANGED <<machine, DetectCount, info, paging, interrupts>>

\* memory_map[i - 1]
Map(i) == IF i \in DOMAIN memory_map THEN memory_map[i] ELSE beyond
Ram == {i \in 1 .. memory_map_cnt : Map(i).ram}

\* The pages of a u32 size, a page begun counting as one.
pages(size) == ((size + PAGE_SIZE - 1) % Word) \div PAGE_SIZE

\* Mutant: the first region of RAM.
get_page_cnt_first ==
    LET tmp_map == Map(IF Ram = {} THEN 1 ELSE Min(Ram))
    IN  pages(tmp_map.base + tmp_map.len)

\* The end of the last region of RAM, in pages.
get_page_cnt ==
    LET tmp_map == Map(IF Ram = {} THEN 1 ELSE Max(Ram))
    IN  pages(tmp_map.base + tmp_map.len)

\* Mutant: one table more than the pages need.
get_ptet_cnt_more(cnt) == cnt \div PAGE_ENTRYS + 1

\* The tables that many entries take.
get_ptet_cnt(cnt) == (cnt + PAGE_ENTRYS - 1) \div PAGE_ENTRYS

\* The length of the longest region, from 5 MB on.
init_page_bit_map ==
    LET lenth == Max({Map(i).len : i \in Ram} \cup {0})
    IN  /\ page_cnt' = pages(lenth - BIT_MAP)
        /\ page_bit_map_cnt' = (page_cnt' + 8 - 1) \div 8

Tables == PAGE_TABLE_LOCAL + tables * PAGE_SIZE     \* the end of the tables
Mapped == tables * PAGE_ENTRYS * PAGE_SIZE          \* the end of what is mapped

\* The tables reach the stack set_page runs on.
Overrun == Tables > STACK_TOP - STACK_ROOM

\* The bitmap, of one byte at least, is not all mapped: what kernel_info leaves
\* in the directory behind the entries written is no entry for 5 MB.
Unmapped == Mapped <= BIT_MAP \/ Mapped < BIT_MAP + (page_bit_map_cnt + 1023) \div 1024

\* With paging on: writing the bitmap faults if it is not mapped, when no
\* exception has a gate yet; and anything may come of a stack written over.
paging_on ==
    \/ ~Unmapped' /\ UNCHANGED faults
    \/ ~Unmapped' /\ Overrun' /\ stuck' = TRUE /\ UNCHANGED reset
    \/ (Unmapped' \/ Overrun') /\ reset' = TRUE /\ UNCHANGED stuck

\* The page directory is written over kernel_info, the tables behind it; every
\* entry of a table is used.
set_page ==
    /\ Call("set_page")
    /\ LET PTET_cnt == get_ptet_cnt(get_page_cnt)
       IN  tables' = get_ptet_cnt(PTET_cnt) * PTET_cnt
    /\ info' = IF tables' = 0 THEN info ELSE DirWord
    /\ init_page_bit_map
    /\ paging_on
    /\ UNCHANGED <<machine, DetectCount, copied, gates, IF_, imr, irr, seen>>

-----------------------------------------------------------------------------
(* Interrupts.                                                              *)

\* No gate is set in a new table, and none is usable in that of real mode.
no_gates == [v \in Vectors |-> 0]

\* loader_start: lgdt, cr0, ljmp.  No cli.
protected_mode ==
    /\ Call("protected_mode")
    /\ gates' = no_gates
    /\ UNCHANGED <<memory, IF_, imr, irr, seen, faults>>

\* Initialising the controllers drops what was requested; then all is masked.
Init_8259A ==
    /\ Call("Init_8259A")
    /\ imr' = Irqs /\ irr' = {}
    /\ UNCHANGED <<memory, gates, IF_, seen, faults>>

\* init_idt of the loader: cli, lidt, sti.
init_idt ==
    /\ Call("init_idt")
    /\ gates' = no_gates /\ IF_' = TRUE
    /\ UNCHANGED <<memory, imr, irr, seen, faults>>

\* The end of Cstart: cli, jmp to the kernel.
cli ==
    /\ Call("cli")
    /\ IF_' = FALSE
    /\ UNCHANGED <<memory, gates, imr, irr, seen, faults>>

\* movb $0xff, outb to both controllers
disable_irqs ==
    /\ Call("disable_irqs")
    /\ imr' = Irqs
    /\ UNCHANGED <<memory, gates, IF_, irr, seen, faults>>

\* load_idt of the kernel: cli, lidt, sti ...
lidt ==
    /\ Call("lidt")
    /\ gates' = no_gates /\ IF_' = TRUE
    /\ UNCHANGED <<memory, imr, irr, seen, faults>>

\* Writes one type into the gates of a set of vectors.
set_gate(vectors, type) ==
    [v \in Vectors |-> IF v \in vectors THEN type ELSE gates[v]]

\* Mutant: exceptions get the gates of interrupts.
set_exception_gate_off ==
    /\ Call("set_exception_gate")
    /\ gates' = set_gate(Exceptions \cup {SYS_CALL_NUM}, GATE_INTERRUPT)
    /\ UNCHANGED <<memory, IF_, imr, irr, seen, faults>>

\* ... and the gates of exceptions and of the system call.
set_exception_gate ==
    /\ Call("set_exception_gate")
    /\ gates' = [set_gate(Exceptions, GATE_EXCEPTION) EXCEPT
                    ![SYS_CALL_NUM] = GATE_INTERRUPT]
    /\ UNCHANGED <<memory, IF_, imr, irr, seen, faults>>

\* The gate of an interrupt.
set_intr_gate ==
    /\ Call("set_intr_gate")
    /\ gates' = set_gate({IRQ_VECTOR + Now.irq}, GATE_INTERRUPT)
    /\ UNCHANGED <<memory, IF_, imr, irr, seen, faults>>

\* enable_irq: the masks are read, with interrupts on, ...
enable_read ==
    /\ Call("enable_read")
    /\ seen' = imr
    /\ UNCHANGED <<memory, gates, IF_, imr, irr, faults>>

\* ... and written between cli and sti.
enable_write ==
    /\ Call("enable_write")
    /\ imr' = seen \ (IF Now.irq < 8 THEN {Now.irq} ELSE {2, Now.irq})
    /\ IF_' = TRUE
    /\ UNCHANGED <<memory, gates, irr, seen, faults>>

\* The timer chip and the drive.
request(i) ==
    /\ i \notin irr
    /\ irr' = irr \cup {i}
    /\ UNCHANGED <<memory, pc, gates, IF_, imr, seen, faults>>

\* An interrupt is taken.  The handlers leave all of this as it is: they send
\* their EOIs and turn interrupts on again (HdDriver and Preemption have them
\* step by step).  Without a gate the processor resets.
deliver(i) ==
    /\ IF_ /\ ~reset /\ i \in irr \ imr /\ (i = 14 => 2 \notin imr)
    /\ Early => EarlyTicks
    /\ irr' = irr \ {i}
    /\ reset' = (gates[IRQ_VECTOR + i] = 0)
    /\ UNCHANGED <<memory, pc, gates, IF_, imr, seen, stuck>>

\* A thread's own fault: exception_handler prints the name and loops.
exception(v) ==
    /\ Booted /\ ~stuck /\ ~reset
    /\ stuck' = TRUE
    /\ reset' = (gates[v] = 0)
    /\ IF_' = (IF_ /\ gates[v] # GATE_INTERRUPT)
    /\ UNCHANGED <<memory, pc, gates, imr, irr, seen>>

-----------------------------------------------------------------------------
Code ==
    \/ Init_e820 \/ Fail_e820 \/ protected_mode \/ Init_8259A \/ init_idt
    \/ loader_kernel \/ cli
    \/ get_memory_info \/ set_page \/ disable_irqs
    \/ lidt \/ set_exception_gate \/ set_intr_gate \/ enable_read \/ enable_write

Next ==
    \/ Code
    \/ \E i \in {0, 14} : request(i)
    \/ \E i \in {0, 14} : deliver(i)
    \/ \E v \in Exceptions : exception(v)

\* The processor runs on, and takes an interrupt that it may take.
Spec == Init /\ [][Next]_vars /\ WF_vars(Code) /\ WF_vars(deliver(0))

-----------------------------------------------------------------------------
(* What the machine is like, in terms of the BIOS map alone: the entries    *)
(* counted, whether they fit, and the RAM among them.                       *)
Counted == 1 .. Len(bios) - 1
RamAt == {i \in Counted : bios[i].ram}
Fits == Len(bios) - 1 <= MAP_MAX /\ RamAt # {}
Ends(i) == bios[i].base + bios[i].len
IsRam(lo, hi) == \E i \in 1 .. Len(bios) :
                    bios[i].ram /\ bios[i].base <= lo /\ hi <= Ends(i)
Longest(i) == i \in RamAt /\ \A j \in RamAt : bios[j].len <= bios[i].len
Last(i) == i \in RamAt /\ \A j \in RamAt : j <= i

PageBytes == PAGE_SIZE * 1024
TableRoom == (STACK_TOP - STACK_ROOM - PAGE_TABLE_LOCAL) \div PAGE_SIZE
Paging == tables # -1
MapEnd == BIT_MAP + page_cnt * PAGE_SIZE            \* the end of the pages

\* What set_page and init_page_bit_map write stays in the place meant for it.
\* The page tables end below the stack set_page runs on, and so below the
\* kernel, as long as the last region of RAM ends below what the tables between
\* 1 MB and the stack can map.  The bitmap lies in the one page reserved for it
\* as long as no region is longer than 5 MB and what a page of bits describes.
AreasApart ==
    Paging /\ Fits =>
        \A i \in RamAt :
            /\ Last(i) /\ pages(Ends(i)) <= PAGE_ENTRYS * TableRoom
                => Tables <= STACK_TOP - STACK_ROOM
            /\ /\ Longest(i) /\ bios[i].len >= BIT_MAP
               /\ bios[i].len <= BIT_MAP + PageBytes * 8 * PAGE_SIZE
               => page_bit_map_cnt <= PageBytes

\* The pages of the bitmap are RAM if the longest region begins between one
\* page and 5 MB, and ends behind 5 MB: although its length is taken for its
\* end, and rounded up (init_page_bit_map).
PagesAreRam ==
    Paging /\ Fits =>
        \A i \in RamAt :
            /\ Longest(i) /\ bios[i].len >= BIT_MAP
            /\ bios[i].base >= PAGE_SIZE /\ bios[i].base <= BIT_MAP
            => IsRam(BIT_MAP, MapEnd)

\* ... and they are mapped if no longer region follows the last one, and that
\* one ends below 4 GB: set_page and init_page_bit_map look at different
\* regions, one at an end and the other at a length.
PagesAreMapped ==
    Paging /\ Fits =>
        \A i, j \in RamAt :
            /\ Longest(i) /\ Last(j) /\ bios[i].len >= BIT_MAP
            /\ Ends(i) <= Ends(j) /\ Ends(j) + PAGE_SIZE <= Word
            => MapEnd <= Mapped

\* A machine that set_page can manage: its map fits, and the last region of RAM
\* ends below 4 GB and what the tables below the stack can map, and no earlier
\* than the longest, which is longer than 5 MB.
Manageable ==
    /\ Fits
    /\ \E i, j \in RamAt :
        /\ Longest(i) /\ bios[i].len > BIT_MAP
        /\ Last(j) /\ Ends(i) <= Ends(j) /\ Ends(j) + PAGE_SIZE <= Word
        /\ pages(Ends(j)) <= PAGE_ENTRYS * TableRoom

\* No interrupt finds its gate missing, although init_idt and load_idt turn
\* interrupts on before any gate is set: what the BIOS, and later the loader,
\* have left unmasked or requested stays out until there is a new gate for it.
\* Nor does a thread's exception once the kernel has started; nor, on a machine
\* it can manage, does set_page fault, when there is no gate for it yet.
GatesReady == ~Paging \/ Manageable => ~reset

\* A tick requested at any time, the loader's included, is served in the end:
\* the two enable_irq calls leave the timer on, and an exception stops the
\* thread it occurs in, not the scheduler's clock.  (On a machine that set_page
\* cannot manage the kernel may be gone before it turns interrupts on again.)
TickServed == (Manageable /\ 0 \in irr) ~> (0 \notin irr)
=============================================================================
