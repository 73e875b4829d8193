# Finux in TLA+

Finux is a small 32-bit x86 kernel with its own two-stage loader.  This
directory models the parts of it that have behaviour worth arguing about: the
scheduler and its locks, context switching under a timer interrupt, the page
allocator, the way from the loader's first instruction to the first thread (memory
map, page tables, interrupts), the loader's disk driver, its search for the Finux
partition, and the file system shared by the loader and the image tool.  TLC checks
the models on small instances; TLAPS proves the central results for instances of every size.

## The system

| part | source | state | operations | meets |
|---|---|---|---|---|
| linked list | `lib/list.c` | `next`, `prev` of every node | `INIT_LIST_HEAD`, `list_add`, `list_add_tail`, `list_del`, `list_replace` | used by scheduler and locks |
| threads, scheduler | `kernel/thread/init.c`, `kernel/interrupt/timer.c`, `kernel/interrupt/interrupt.S`, `kernel/switch.S`, `kernel/schedule.c` | `READY_LIST`, `READY_THREAD`, `current_thread`, `ticks`, each thread's `esp` and stack | `creat_init`, `init_thread`, `thread_creat`, `timer_handler`, `yield`, `schedule` | timer interrupt, system call, locks, page allocator |
| system call | `kernel/syscall` | none of its own | `sys_entry`, `syscall_handler`, `yield_thread` | called by locks through `int 0x80` |
| locks, semaphores | `kernel/sync/sync.c` | `value`, wait list | `get_`, `_acquire`, `_realse` | change the ready list directly |
| page allocator | `kernel/mm/page.c` | `page_bit_map` | `get_pages`, `free_pages`, `init_page_bit_map` | called by `thread_creat` |
| paging, memory map | `kernel/mm/page.c`, `kernel/mm/mm.c`, `boot/loader.s` | page tables, e820 entries, `kernel_info` | `Init_e820`, `get_memory_info`, `set_page`, `init_page_bit_map` | once at boot; sizes the page allocator |
| interrupt set-up | `kernel/kernel.c`, `kernel/desc/idt.c`, `kernel/8259a/8259a.c`, `boot/init_idt.c`, `boot/8259a.c` | IDT, masks, interrupt flag | `load_idt`, `set_intr_gate`, `disable_irqs`, `enable_irq` | races with timer and disk at every step |
| descriptors, exceptions, display | `kernel/desc`, `kernel/interrupt/exception.c`, `kernel/echo` | tables, screen | set once; print and stop | |
| loader: disk driver | `boot/hd.c`, `boot/interrupt.c`, `boot/8259a.c`, `boot/timer.c` | `HD`, controller masks | `hd_identify`, `hd_read`, `hd_write`, `hd_handler`, `enable_irq`, EOIs | drive, timer |
| loader: partitions, file system | `boot/fs.c`, `boot/loader.c` | `primary`, `logical`, superblock, inodes, root | `get_part_information`, `make_fs`, `loader_kernel` | disk driver |
| boot sector | `boot/boot.s` | FAT12 buffers | find and load the loader | BIOS |
| image tool | `finux_tool` | disk image | copy a file into a Finuxfs partition | shares the layout with `boot/fs.c` |

What is hard about it:

* *Concurrency.*  A timer interrupt may arrive between any two instructions
  that run with interrupts on.  That includes most of `sync.c`, the system call
  path after the `sti` of `sys_entry`, and `timer_handler` itself, because
  `EOI_master` executes `sti` before the handler is called.  Contexts are saved
  through `current_thread`, a variable the same code changes.
* *Pointer aliasing.*  The ready list has no head: `READY_LIST` points to one of
  its members.  Lock lists do have a head, and the two kinds are mixed in
  `lock_realse`.
* *Limits.*  The page bitmap is scanned in its first byte only; thread stacks
  are larger than the pages asked for; page tables, bitmap and partition arrays
  have fixed places, sizes that depend on the machine, and no tests.
* *Ordering and failure.*  The disk driver is ended by an interrupt it must not
  miss or mistake; formatting a disk is a sequence of writes that can be cut.

What makes each part correct: lists keep the order and membership of the queues
they stand for; every thread is in exactly one place; every ready thread runs;
a lock has one holder and forgets no waiter; a thread resumes where it was
stopped; no page has two owners, and every page is RAM and mapped; no interrupt
finds its gate missing; a disk call returns, with the right sector; loader and tool
mean the same partition.

## Modules

| module | models | lines up with |
|---|---|---|
| `ListHead` | `lib/list.c` as operators on a memory `[next, prev]`, assignments in the code's order; `Ring(L, q)` says that `L` links the nodes of `q` in order | every function of the file |
| `ThreadSync` | scheduler, system call and `sync.c`, one action per handler or call | `init_thread`, `timer_handler`, `yield_thread`, `lock_acquire`, `lock_realse` and the semaphore versions |
| `RoundRobin` | the abstract scheduler: sequences instead of links | what `ThreadSync` promises |
| `ThreadSyncHist` | `ThreadSync` with history variables (the queues, each thread's place), the properties, and the refinement mapping | |
| `Preemption` | the same code one statement at a time, with saved contexts and stacks, and a timer that may tick in chosen windows | `creat_init`, `schedule`, `irq00_handler`, `timer_handler`, `yield`, `lock_acquire`, `lock_realse` |
| `PageAlloc` | bitmap, `get_pages`, `free_pages`, and `thread_creat`'s two requests | `kernel/mm/page.c:9-95` |
| `HdDriver` | the driver, the interrupt stubs, the two controllers, the timer and the drive | `boot/hd.c`, `boot/interrupt.c`, `boot/8259a.c`, `boot/timer.c` |
| `KernelBoot` | the boot as a sequence of calls: the BIOS memory map and what is computed from it, IDT, masks and interrupt flag, with interrupts at any point, the faults of `set_page`, and the threads' exceptions after the boot | `boot/loader.s`, `Cstart`, `start_kernel`, `kernel/mm`, `kernel/desc/idt.c`, `kernel/8259a/8259a.c`, `kernel/interrupt/exception.c` |
| `Partitions` | the walk over the partition tables and the search for the Finux entry, in the loader and in the tool | `get_part_information`, the first half of `make_fs`, `find_part_table` |
| `FinuxFs` | formatting a partition, loading the kernel from it, and the image tool that copies files into it | `make_fs` and the rest of `boot/fs.c`, `boot/loader.c`, `finux_tool/finux.py`, `strcmp` |
| `ListHeadProofs` | what the list functions do to rings of any length: as sequences, and as sets of nodes (`Circle`) | |
| `ThreadSyncProofs`, `PreemptionProofs`, `PageAllocProofs`, `HdDriverProofs`, `KernelBootProofs`, `PartitionsProofs`, `FinuxFsProofs` | the theorems of one module each and their proofs | |
| `MC*` | instances for TLC | |

Operators whose comment starts with "Mutant" are faulty variants of the
definition that follows them.  No specification uses them; they document which
mistake each property would catch, and are put in place of the definition to
see TLC report it.

### ThreadSync

A thread and its `elem` are one node; a lock is named by its list head.  So
`list_entry` is the identity on nodes, and a list head that reaches the ready
list is visible as a node that is no thread.  The model begins at the `cli` of
`init_thread` (`init.c:85`); `ticks` is kept modulo the slice, the only way it
is used; `intr` is the interrupt flag, because `sema_acquire` leaves it off.
`want[t]` says in which acquire `t` is blocked: the program counter of the loop.
`init` takes no lock, as in the code (its body is an endless loop).

Two assumptions about clients are explicit.  *Atomic handlers*: ticks arrive in
a thread's own code only (`Preemption` is about the rest).  *`HandOff`*: a
client releases only when a thread waits.  The code needs it, as the run
`threads_release` shows, and the kernel's test threads do not ensure it.

### Preemption

A stack is the sequence of contexts pushed on it, `thread->esp` a stack and a
depth, and loading pops the context.  Loading one that is gone sets `wild`.
`Window` divides the statements into windows, and the constants `CountIn` and
`SwitchIn` say in which windows ticks may fall that only count, or that end a
slice.  With `SwitchIn = {"own"}` and every window of `sync.c` in `CountIn`
everything holds: that is what the atomicity of `ThreadSync` rests on.  Each of
the other windows is a finding, or a hazard that `preempt_own` keeps out and
"Further facts" reports.  Statements between `cli` and `sti`
are one step.  The word of eflags that `irq00_handler` leaves on the interrupted
stack is not modelled.

### PageAlloc

Only the first byte of the bitmap is ever used; it is a set of bit numbers.  The
two loops of `get_pages` are one numbered sequence of attempts, and the result
is the first attempt whose mask meets no set bit.  `InMap = TRUE` restricts
clients to requests the byte can serve; `FALSE` is the code as it is.
`MapBytes` (`page_bit_map_cnt`) is at least 2: smaller machines make
`get_pages` return 0, which `thread_creat` does not check.

### HdDriver

One sector per call, as all the loader's calls are.  Handlers are steps on a
stack of their own, interrupts nest, and the loader runs when the stack is
empty.  The hardware is external: fixed priorities, edge-latched requests,
non-specific EOI, the drive's line lowered by a status read.  The drive may give up
any command while it is busy (`drive_error`): it interrupts without offering data, and
since `hd_handler` never looks at the error bit the call returns with whatever the port
gives; `CallDone` claims a result only of calls that did not fail.  If it gives up a
*write* before it has asked for the data, `hd_write` polls for DRQ for ever
(`hd_write_poll`; a round of the loop may also take the interrupt back).  That state is
`Refused`, the one exception of `CallsReturn`.

### KernelBoot

`Boot` lists the calls from `loader_start` to `creat_init` in the code's order, cut
where an interrupt may come in between: `enable_irq` reads the masks before its `cli`
and is two steps; a function that runs under `cli`, or does nothing an interrupt could
notice, is one.  Addresses are in KB with the code's own constants.  The machine is
its BIOS map; `beyond` is what the memory behind `memory_map[]` is taken for when the
map has more entries (nothing, or RAM everywhere).  `info` is the count at 1 MB, which
`set_page` overwrites with the page directory.  A page table is only counted:
`set_page` fills them in order from address 0.  The gates are those of the IDT in use;
an interrupt or exception through an empty one resets the machine.  `set_page` turns
paging on whatever its tables map (`paging_on`): if the bitmap is not mapped, writing it
faults and, no exception having a gate yet, resets the machine; if the tables have reached
the stack (`Overrun`), anything may come of it.  `Manageable` says, in terms of the BIOS
map, on which machines neither happens.  Other exceptions are those of threads, after the
boot (`exception`); faults of the boot code elsewhere are not modelled.  The disk calls
between `init_hd` and `loader_kernel` change nothing here.  Interrupt handlers are
one step: they end with masks and flag as they were (`HdDriver`, `Preemption`).
The memory properties carry their conditions, found with TLC and as weak as it
allows; what happens outside them is under "Further facts".

### Partitions

A disk is a layout (the kinds of the four slots of the MBR, the kinds of the logical
partitions, and the contents of all other sectors, `data`), from which the MBR and the
extended boot records follow as partitioning tools write them.  `Others` is the set of
such contents: a sector that is no table may read as any table at all, one with a Finux
entry or a link included.  One action is one round of a
loop of `get_part_information`; `make_fs` is one action per way its search can end.
`pc` names how the walk ended, an overrun of `primary[]` or `logical[]` included.
The tool's search is a function of the layout, since it changes nothing.

### FinuxFs

The disk is kept byte by byte, because the tool writes maps and arrays by bytes
while the loader reads sectors, and because the areas may run into each other.
A byte only knows which structure it belongs to, or is one of `Zero`, `One` and `Junk`
(`ByteAssumption` says that these are different things).  A partition begins as one of
`Before`: any bytes without the magic number, those of an older file system included.  One action is one write:
of `make_fs` (a power failure may follow any of them), or of the tool (it may be
interrupted after any of them).  `install` is the Makefile's: a fresh copy of the
formatted image, then a run of the tool.  The machine is off while the tool runs.
With `Reuse = FALSE` the tool is otherwise only run on an image that has the
kernel, which it refuses; with `TRUE` files are added to images in use.  `Mark` is
what `set_sector_map` writes: for an empty file 0, which takes back the mark of another
file that begins there (with `Reuse` only).  Names have full length.  The bytes beyond the inode array that `get_inode_array` overwrites,
and `file_size` are left out; the search for the partition is in `Partitions`.

## Runs

| run | expects | shows |
|---|---|---|
| `threads_sync` | pass | `Coupled`, `Admission` (which includes that a lock has one holder), `NoLostWakeup`, types, and refinement of `RoundRobin`, for init and three threads, two locks, a semaphore of value 1, slices of 2 ticks |
| `threads_release` | violation | without `HandOff` a lock's list head is scheduled |
| `preempt_own` | pass | contexts, lists, exclusion and wakeups with ticks counting in all of `sync.c` and slices ending in threads' own code; every ready thread runs, every thread on the lock's list is woken |
| `preempt_acquire` | violation | a slice ending between test and decrement: two holders |
| `pages_map` | pass | exact bitmap, no shared page, every fitting request served, for four owners and all counts |
| `pages_share` | violation | the third thread gets the second one's stack pages |
| `hd_calls` | pass | every disk call returns, correctly, whatever the ticks do, but for commands the drive gives up; of these only a write refused before its data is asked for never returns; EOIs and masks are never misdirected |
| `kernel_boot` | pass | page tables, bitmap and pages do not overlap, and are RAM and mapped, on the machines the properties name; no interrupt and no exception of a thread meets an empty gate, and `set_page` faults on no machine it can manage; every tick is served, after an exception too |
| `partitions` | pass | the loader's base sector is that of the first logical Finux partition; with a free slot in the MBR the arrays are overrun exactly from six logical partitions on; the tool means the same sector if the partition is the first logical one, and none if it is a later one (look-alikes of tables aside) |
| `partitions_ten` | violation | a disk within the documented limits (4 primary, 10 logical partitions) overruns the arrays: with four entries in the MBR a fifth is looked for |
| `fs_image` | pass | only complete kernels are run (unless a `make_fs` that was cut off has left an older directory), installed ones are found, formatting initialises everything and happens once, the sector map covers the file; with power failures and interruptions at every write |
| `fs_files` | violation | a file that is not the first of its image is loaded from the wrong sectors |

Further facts seen with other settings of the same models.

*Preemption.*  With `"enqueued"` in `SwitchIn` `OneList` fails: a slice that ends after
the `sti` of `lock_acquire` and before it yields links the thread into the ready list
as well.  With `"release"` in `SwitchIn` `OneList` fails (a second release takes the
waiter in between).  With `"yield"` in `CountIn` `CurrentRuns` and `Resumable` fail: a
tick after `yield` has saved `esp` overwrites it (the comment at `sys_entry.S:13` grants
that the `sti` there may have unforeseeable effects).  With `"handler"` or `"boot"` in
`CountIn` `CurrentRuns` fails (a tick in `timer_handler`; one between
`current_thread = &init_struct` and `schedule`).  With `"acquire"` in `SwitchIn`
`MutualExclusion` fails, which is the run `preempt_acquire`, but `NoLostWakeup` holds: the
stale test of `lock_acquire` does harm only if the lock is released with nobody on its
list, and `HandOff` excludes that.

*KernelBoot.*  With `EarlyTicks` `GatesReady` fails: nobody executes `cli` before
protected mode, and a tick before `Init_8259A` masks it resets the machine.  Without
their conditions the memory properties fail: tables meet the stack when RAM ends above
1016 MB; with a hole at 15 MB the pages are counted from 5 MB by the length of a region
that begins at 16 MB; with less than 5 MB the count wraps; RAM that ends at 4 GB maps
nothing, since the end address wraps to 0, and the kernel resets when it turns paging on; a region above 133 MB has a bitmap longer than the
page reserved for it; and with more than six entries the map is read past its end.

*Partitions.*  A primary Finux partition gets its own sector plus that of the extended
partition, if there is one.  Six logical partitions overrun `logical[]`, which has two
entries per EBR (`InBounds`), while `fs.h:17` calls 10 the largest number of logical partitions.
An empty slot in the MBR hides the slots behind it; without an extended partition before
it the MBR is walked as an EBR, or, if it is empty, `make_fs` goes on without PANIC
and with `Finux_part` unset.  The tool finds a Finux partition only as the first
logical one (it takes the next link for an absolute address) and fails on a primary one.
Without `Plain` the second half of `ToolAgrees` fails: the tool follows a relative link to a
sector inside a partition and believes what it finds there.

*FinuxFs and pages.*  With a `SectorCnt` that is no multiple of `8 * SectorBytes` the
tool's sector map ends inside the inode array.  While it reaches the root's inode only,
as in `fs_image`, nothing comes of it; where it reaches the next one (`SectorCnt = 100`)
`MapCovers` fails, because the map is written back over the new inode.  With
`Reuse` and a second file `InstalledBoots` fails too: `strcmp` reads on into the
next entry's inode number.  A power failure during `make_fs` leaves a partition
that is never formatted again: the loader stops with "Can not find kernel file", or, if
the partition held a directory before that names a kernel, loads what its inode says.
A `thread_union` has a stack of `KERNEL_STACK_SIZE` (8 pages) and gets 3 pages.

Bounds.  Three threads beside init are the fewest with which two can wait while
a third holds, so that the order of a wait list and overtaking matter; a slice
of 2 has both kinds of tick; two locks let one thread hold one and wait for the
other.  `MaxDepth = 3` contexts on a stack is one more than any passing run
needs.  Four owners can split the seven free pages of the byte in every way
that matters (a hole between two blocks included).  Two sectors and two values
tell a wrong sector and stale data from the right answer.  Sectors of 8 bytes,
structures of 4 and 7 inodes keep the proportions that matter (4 sectors of
inodes and of root, of which the loader reads one; the inode map in one sector);
90 sectors (`fs_image`) give a sector map of one sector where the tool counts one and a
half, and the file lengths lie on both sides of a byte of it, of several bytes, and of the
end of the area; 57 to 64 sectors are left out there, since the byte too many that
`set_sector_map` assigns would fall on the mode of the root's inode, a field nobody reads and
the model does not have (with whole maps, of 64 and of 128 sectors, these lengths pass).
`fs_files` needs no more than 64 sectors.  Partitions full of zeros, of junk, and
with the maps, inodes and directory of an older file system show what formatting initialises.  `kernel_boot` uses the real constants, and
memory maps whose RAM ends just below, at and above every threshold of the code (3, 5
and 6 MB, a page boundary, 133 MB, 1016 MB, 4 GB), in seven shapes: with ACPI tables and
flash memory, RAM beyond 4 GB, a hole at 15 MB, and few entries.  `partitions` takes
every combination of four slots and up to six logical partitions, one more than
`logical[]` holds.  All partitions have one size, so that links taken for absolute
addresses may well meet other tables; the sectors where they can arrive read as zeros, or as
a table whose first two entries are foreign, Finux or extended in every combination.
`threads_sync`, `pages_map`, `kernel_boot` and `partitions` do not check deadlock: a
semaphore holder with interrupts off that waits to hand over spins for ever, `PANIC`
stops the machine, a boot ends, and so does a search.

Fairness.  `preempt_own`: the timer keeps interrupting and the handlers run on (weak
fairness of `irq00` and of `System`), a thread goes on with a call it has begun, and a holder
some time releases (strong fairness for each thread, since the timer takes the processor
away again and again).  No thread has to ask for the lock.  `hd_calls`: the drive answers, the controllers deliver, and
ticks leave time for a step of the code they interrupt (strong fairness of the
loader and of the disk handler; ticks come 18 times a second).  `kernel_boot`: the
processor runs on, and takes a tick that it may take (weak fairness of the code and of
`deliver(0)`); nothing is assumed of the drive.  `TickServed` is claimed of the machines
`set_page` can manage.

## Proofs

`ListHeadProofs`: for rings of any length, `list_add_tail(new, first->prev)`
appends, `list_del` removes and leaves the node alone, `list_replace` puts one
node in the place of another, and links outside the ring do not change.
`Circle(L, S, h)` forgets the order: the nodes of the set `S` form one ring and `h`
is one of them.  `CircleAdd`, `CircleDelHead` and `CircleDelNext` are the list
functions on that level, `CircleFrame` says that writes elsewhere do not matter.

`ThreadSyncProofs`: for any finite set of threads, any
locks and semaphores, any slice, under `HandOff`:

* `ListsAreQueues` (`[]Coupled`) and `TypesHold`.  The inductive invariant is
  `IInv`: types, `Coupled`, and `value >= -1`.  `Coupled` alone is not inductive:
  `lock_realse` wakes somebody only if `value` becomes non-negative, which
  needs the floor; and the lists stay apart only because the running thread is
  on none of them.  Its part `InitReady` is the reason `READY_LIST` never
  dangles: init never blocks, so whenever another thread yields the ready list
  has a member.
* `ValueCountsHolders` and `WakeupsNotLost` from the same invariant with `Admission` and
  `NoLostWakeup` added (counting with finite sets).  That no two threads hold one lock
  is a corollary of the first (`LocksExclude`).
* `ImplementsRoundRobin`: every step is a step of `RoundRobin` or a stutter.

`PreemptionProofs`: for any finite set of threads (`init_struct` and at least one more,
as `init_thread` creates), any slice and stack bound, under `Confined`: slices end only in
threads' own code, other ticks fall there or in the windows of `lock_acquire`,
`thread_yield` and `lock_realse`, and `HandOff`.  This is what `preempt_own` runs with.
`ThreadTypes`, `CurrentThreadRuns`, `ThreadsAreResumable`, `ThreadsAreOnOneList`,
`LockExcludes` and `NoWakeupIsLost` all come from `PInv`, which TLC has checked on that
run's states.  None of the properties is inductive: they speak of states where a
thread's code runs, and the handlers pass through states where what they say is
not true.  `PInv` is `Booting` before the ready list exists and `Running` afterwards:

* `Point[t]` is the statement `t` continues with, wherever it is kept (the processor or
  the stack), so that saving and loading a context do not change it.  `Stacked`: one
  context per thread, none for the one that runs.  `Left`: a thread is left only in its
  own code, before the test of `value` or before `value++`; hence what `lock_acquire`
  and `lock_realse` have just tested or read is still true at the next statement
  (`Locked`, `Locals`).
* `Listed(W)`, for some set `W` of waiting threads: the lock's list is a ring of `W` and
  its head, and the ready list a ring of all threads but `W` and those that the
  current statement has in hand (`Off`).  `W` only changes in two statements.
* `list_del(READY_THREAD)` needs a second member, or `READY_LIST` would be left pointing
  to the thread that runs.  In `timer_handler` that is the interrupted thread, added just
  before; in `yield_thread` it is `init_struct` or the holder of the lock, two threads that
  never wait (`TwoAreReady`).

`Follow`, with which `OneList` looks at the lists, and `init_thread`'s loop are recursive
functions; what they compute is shown with the least counterexample of a set of
numbers (`Least`).

`PageAllocProofs`: for any set of owners and any counts, `AllocatorTypes`; under `InMap`,
`BitmapIsExact` (`[]MapExact`), `PagesNotShared` (`[]NoSharing`) and `HighestRunServed`
(`[]HighestFit`: the attempts come in descending order of pages, and the first whose
mask meets no set bit is the highest free run because the bitmap is exact).

`HdDriverProofs`: for any sectors and data and any number of ticks, `DriverTypes`,
`CallsAreDone`, `EveryInterruptAnswers` and `HandlersKeepApart`.  The inductive
invariant `IInv` lists the shapes the stack of handlers can have (`Shape`: never more than
the timer's and the disk's, in either order), says which interrupts are in service
and masked with them (`Controllers`), and ties the loader's statement to the
drive, the request line and `HD.cmdnow` (`Outside`, `Sending`, `Waiting`): a disk
interrupt is requested or handled only while the loader waits for it, or polls a drive that
has refused its write (`Hanging`).

`KernelBootProofs`: for any BIOS memory map, `BootTypes`, `AreasKeepApart`, `PagesAreInRam`,
`PagesHaveTables`; and `GatesAreReady` if no tick comes before `Init_8259A`
(`~EarlyTicks`): interrupts at any point, threads' exceptions, and the faults of `set_page`.  Two invariants: `GInv` says at every call of `Boot` which lines are masked
and which gates are set; `MInv` says that what was computed from the map is what
the operators give for the copies made before `set_page` overwrote `kernel_info`, and the
memory theorems are arithmetic from there.  `GInv` also says that nothing but `set_page` can
have reset the machine (`OnlyPaging`); on a `Manageable` one its tables end below the stack
and map the bitmap (`ManageableSetUp`), so it has not.  The assumption `LayoutAssumption` gives the
two facts about the code's constants that are used (the bitmap begins at a page, and below
the stack there is no room for more tables than a directory lists); TLC evaluates it for
the real values.

`PartitionsProofs`: for any number of logical partitions, any sizes of partitions and
gaps, and any contents of the other sectors, `SearchTypes`, `BaseIsRight`,
`CopiesInBounds` and `ToolMeansTheSame`.  `TInv` adds to the types what has been copied
so far (`Copied`, `FirstLink`) and that `logical[0]` is the extended partition or what `primary[0]` is
(`Head0`); so `make_fs`, which searches `primary[]` first, never looks at the entry before
`logical[0]` (`NotTheFirst`).  `CInv` adds, for disks whose extended partition is reached,
that the entries in `logical[]` are those of the chain of EBRs in order (`Walked`,
`OnChain`, `ChainRead`).

For `CopiesInBounds` it also says how long `logical[]` is at every EBR: an overrun needs more
than five logical partitions, and a walk that ends without one has read five at most
(`ShortChain`).

`ToolMeansTheSame` (`[]ToolAgrees`).  If the first logical partition is the Finux one the
tool's first round finds it (`FirstFound`), and no other sector matters.  Otherwise one needs
to know where the tool goes after it has taken a relative link for an absolute one.  `Quiet`
is what its rounds preserve while they find nothing: the next sector it reads is the extended
partition's, or one before it, or the disk has one logical partition at most.  Such a sector
is the first EBR or no table at all (`TableRead`), and then neither has a Finux entry nor a
link on a disk where those sectors are `Plain` (`PlainRead`); so after any number of rounds
the tool has found nothing.

`FinuxFsProofs`: for any sizes of sectors, structures, inode arrays and partitions, any
names and file lengths, and a machine or tool that may be stopped after any write.
`ImageTypes` and `FreshPartitionIsEmpty` hold as they stand, for every size of the partition
and everything it held before (`BeforeAssumption` only excludes a superblock).
`PartitionFormattedOnce` assumes `WholeMap`, that the sector map fills whole sectors;
`LoadedKernelIsWhole`, `InstalledKernelBoots` and `MapCoversKernel` also assume `~Reuse`,
images made as the Makefile makes them.  TLC refutes the last three without `~Reuse` (run
`fs_files`, and "Further facts"), and `MapCovers` for some sizes without `WholeMap`; that
they hold for others, as in `fs_image`, is model-checked only.  None of the properties is
inductive, since they speak of the end of a boot or of a run of the tool.  The invariants:

* `TypeInv`: types, also of the image and of the lists of a running tool.
* `FormatInv`: while `make_fs` runs, every sector has what the last of its first `step`
  writes to it put there (`Written`), and after the last write all areas are as `make_fs`
  means them (`Fresh`).  The areas do not overlap because `make_fs_writes` computes each
  start from the end of the one before, whatever the rounding of the map's length.
* `LayoutInv`: superblock, the root's bit and the root's inode are what no run of the tool
  destroys, in the image and on the disk (`Layout`).
* `FreshInv`: the image kept from a completed `make_fs` is `Fresh`.
* `ImageInv`: a running tool has the lists it computed from a fresh image and has written
  them as far as `todo` and `done` say (`Copy`), the directory last; an installed
  kernel's data, inode, map and entry are on the disk together (`HasKernel`); until then the
  directory has no entry (`NoFiles`), unless `make_fs` was never completed.  So an interrupted run is not seen by the loader,
  and a finished one is seen whole: `Booting` carries that to `loader_kernel`.

What connects them are lemmas about the operators: what `Poke` writes `Peek` reads, and
nothing else (`Holds`); structures read back as they were written (`Struct`); the lowest free
inode and run of sectors are found (`LeastIs`); `strcmp`, which reads on into the next
entry, finds the kernel's name in the first entry and nowhere in an empty directory
(`StrcmpYes`, `StrcmpNo`).  The assumptions are those of the module: whole structures in a
sector and an inode map that fits into one (`SizeAssumption`), names of full length
(`NameAssumption`), a directory of more than 3 sectors (`RootAssumption`) and
`ByteAssumption` and `BeforeAssumption`; TLC evaluates them in `fs_image` and `fs_files`.

Every inductive invariant was checked by TLC on the instances of the runs before it was
proved.

Model-checked only.  Liveness (`ReadyRuns`, `WaitersWoken`, `CallsReturn`, `TimerServed`,
`TickServed`): fairness is outside the prover.  Every invariant of a passing run, and the
refinement, is a theorem, under the conditions named above.  What the runs that expect a violation show is about
single instances, and stays with TLC.

## Not modelled, and the plan

Left out for good: GDT and TSS (loaded once, with constant contents), display, the
commented-out timer chip setup and interrupt stubs, the superseded loader in `boot/bak`,
tests and listings.  The boot sector (`boot/boot.s`) is one sequential pass of 16-bit
assembly over a FAT12 floppy through the BIOS.  The word of eflags that `irq00_handler`
leaves on the stack, and the six pages a thread's stack has more than `thread_creat`
asks for, are about the layout of stacks word by word, which no model here has.

Next: `TrapFrame`, interrupt and system call frames word by word.  It would cover the two
hazards about stacks that have no property yet, and the flag that `sema_acquire` leaves off.
