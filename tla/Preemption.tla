----------------------------- MODULE Preemption -----------------------------
(***************************************************************************)
(* The thread system one statement at a time, with a timer interrupt that  *)
(* may arrive between any two of them.  ThreadSync assumes that a handler  *)
(* runs undisturbed; this module asks where that assumption is needed.     *)
(*                                                                         *)
(* Each thread has a stack, and so has the boot code.  A stack is the      *)
(* sequence of the contexts pushed on it: by irq00_handler (the point it   *)
(* interrupted), by yield, or by creat_init and thread_creat (the entry of *)
(* the thread).  thread->esp is a stack and a depth.  Loading a context    *)
(* that is not there any more is undefined: the machine is then wild and   *)
(* takes no further step.                                                  *)
(*                                                                         *)
(* A statement is one step, a list function is one step, and what runs     *)
(* between cli and sti (or before the sti of an interrupt gate) is part of *)
(* one step.                                                               *)
(***************************************************************************)
EXTENDS ListHead, Integers, FiniteSets

CONSTANTS
    Threads, init_struct,
    LOCK,          \* the one lock, named by its list head
    BOOT,          \* the stack start_kernel runs on
    SLICE,         \* the 20 of "ticks % 20"
    HandOff,       \* TRUE: a client releases only what a thread waits for
    CountIn,       \* windows where a tick that does not end a slice may fall
    SwitchIn,      \* windows where a tick that ends a slice may fall
    MaxDepth,      \* bound on the contexts on one stack
    NULL

Node == Threads \cup {LOCK}
Stacks == Threads \cup {BOOT}

ASSUME PreemptionAssumption ==
    /\ init_struct \in Threads /\ LOCK \notin Threads /\ BOOT \notin Threads
    /\ NULL \notin Node \cup Stacks
    /\ IsFiniteSet(Threads) /\ Threads # {init_struct}
    /\ SLICE \in Nat \ {0} /\ MaxDepth \in Nat \ {0} /\ HandOff \in BOOLEAN

VARIABLES
    links, READY_LIST, READY_THREAD, current_thread, value,
    ticks,   \* ticks % 20
    esp,     \* thread->esp; esp[NULL] is the word at address 0
    stk,     \* the contexts on each stack
    cpu,     \* the stack the processor runs on
    pc,      \* the statement it is about to execute
    holds,   \* the threads between lock_acquire and lock_realse
    loc,     \* lock_realse's tmp and the tail it passes, of each thread
    wild     \* a context was loaded that does not exist

lists == <<links, READY_LIST, READY_THREAD>>
machine == <<esp, stk, cpu>>
client == <<value, holds, loc>>
vars == <<links, READY_LIST, READY_THREAD, current_thread, value, ticks, esp,
          stk, cpu, pc, holds, loc, wild>>

\* The window a statement belongs to: what a tick just before it interrupts.
Window(p) ==
    CASE p \in {"boot_current", "boot_schedule"}            -> "boot"
      [] p \in {"boot_frame", "create", "own", "acq_test", "rel_inc"} -> "own"
      [] p \in {"acq_take", "acq_enqueue"}                  -> "acquire"
      [] p \in {"acq_yield", "sys_yield"}                   -> "enqueued"
      [] p \in {"y_pick", "y_next", "y_del", "y_current", "y_load"} -> "yield"
      [] p \in {"rel_del", "rel_tail", "rel_add"}           -> "release"
      [] p \in {"t_count", "t_add", "t_pick", "t_next", "t_del", "t_current",
                "t_load"}                                   -> "handler"

ThreadCode == {"own", "acq_test", "acq_take", "acq_enqueue", "acq_yield",
               "sys_yield", "rel_inc", "rel_del", "rel_tail", "rel_add"}

Statements == ThreadCode \cup
    {"boot_frame", "boot_current", "boot_schedule", "create", "y_pick",
     "y_next", "y_del", "y_current", "y_load", "t_count", "t_add", "t_pick",
     "t_next", "t_del", "t_current", "t_load"}

TypeOK ==
    /\ links \in Links(Node)
    /\ READY_LIST \in Node \cup {NULL} /\ READY_THREAD \in Node \cup {NULL}
    /\ current_thread \in Node \cup {NULL}
    /\ value \in Int /\ ticks \in 0 .. SLICE - 1
    /\ esp \in [Threads \cup {NULL} -> [stack : Stacks, depth : 0 .. MaxDepth]]
    /\ stk \in [Stacks -> Seq(Statements)]
    /\ cpu \in Stacks /\ pc \in Statements
    /\ holds \in SUBSET Threads
    /\ loc \in [Threads -> [tmp : Node \cup {NULL}, tail : Node \cup {NULL}]]
    /\ wild \in BOOLEAN

\* start_kernel calls creat_init: the timer is enabled, no thread exists.
Init ==
    /\ links = [next |-> [n \in Node |-> n], prev |-> [n \in Node |-> n]]
    /\ READY_LIST = NULL /\ READY_THREAD = NULL /\ current_thread = NULL
    /\ value = 0
    /\ ticks \in 0 .. SLICE - 1
    /\ esp = [t \in Threads \cup {NULL} |-> [stack |-> BOOT, depth |-> 0]]
    /\ stk = [s \in Stacks |-> << >>]
    /\ cpu = BOOT /\ pc = "boot_frame"
    /\ holds = {}
    /\ loc = [t \in Threads |-> [tmp |-> NULL, tail |-> NULL]]
    /\ wild = FALSE

At(p) == pc = p /\ ~wild
Goto(p) == pc' = p

\* Mutant: the stack pointer goes to READY_THREAD.
save_ready(p) ==
    /\ stk' = [stk EXCEPT ![cpu] = Append(@, p)]
    /\ esp' = [esp EXCEPT ![READY_THREAD] =
                   [stack |-> cpu, depth |-> Len(stk[cpu]) + 1]]

\* movl (current_thread), %eax; movl %esp, (%eax)
save(p) ==
    /\ stk' = [stk EXCEPT ![cpu] = Append(@, p)]
    /\ esp' = [esp EXCEPT ![current_thread] =
                   [stack |-> cpu, depth |-> Len(stk[cpu]) + 1]]

\* Mutant: the stack pointer stays below the frame.
load_nopop(t) ==
    LET e == esp[t] IN
    IF t \in DOMAIN esp /\ e.depth \in 1 .. Len(stk[e.stack])
    THEN /\ cpu' = e.stack
         /\ pc' = stk[e.stack][e.depth]
         /\ UNCHANGED <<stk, esp, wild>>
    ELSE wild' = TRUE /\ UNCHANGED <<machine, pc>>

\* movl (%eax), %esp; the pops; lret: the processor continues in the context
\* that thread t's esp points to.
load(t) ==
    LET e == esp[t] IN
    IF t \in DOMAIN esp /\ e.depth \in 1 .. Len(stk[e.stack])
    THEN /\ cpu' = e.stack
         /\ pc' = stk[e.stack][e.depth]
         /\ stk' = [stk EXCEPT ![e.stack] = SubSeq(@, 1, e.depth - 1)]
         /\ UNCHANGED <<esp, wild>>
    ELSE wild' = TRUE /\ UNCHANGED <<machine, pc>>

-----------------------------------------------------------------------------
(* creat_init and schedule, on the boot stack; then init_thread.            *)

\* init_struct.esp = &init_stack.regs, with eip = init_thread
creat_init_frame ==
    /\ At("boot_frame")
    /\ stk' = [stk EXCEPT ![init_struct] = <<"create">>]
    /\ esp' = [esp EXCEPT ![init_struct] = [stack |-> init_struct, depth |-> 1]]
    /\ links' = INIT_LIST_HEAD(links, init_struct)
    /\ Goto("boot_current")
    /\ UNCHANGED <<READY_LIST, READY_THREAD, current_thread, ticks, cpu, client, wild>>

creat_init_current ==
    /\ At("boot_current")
    /\ current_thread' = init_struct
    /\ Goto("boot_schedule")
    /\ UNCHANGED <<lists, ticks, machine, client, wild>>

\* schedule(&init_struct) and switch_to
schedule ==
    /\ At("boot_schedule")
    /\ load(init_struct)
    /\ UNCHANGED <<lists, current_thread, ticks, client>>

\* init_thread: thread_creat for every thread, get_lock, and between cli and
\* sti the ready list, in any order of the threads.
init_thread ==
    /\ At("create")
    /\ \E order \in [1 .. Cardinality(Threads) - 1 -> Threads \ {init_struct}] :
        LET n == Cardinality(Threads) - 1
            ring[i \in 1 .. n] ==
                IF i = 1 THEN links
                ELSE list_add_tail(ring[i - 1], order[i], ring[i - 1].prev[order[1]])
        IN  /\ NoRepeat(order)
            /\ links' = ring[n]
            /\ READY_LIST' = order[1]
            /\ READY_THREAD' = order[1]
    /\ current_thread' = init_struct
    /\ stk' = [s \in Stacks |-> IF s \in Threads \ {init_struct} THEN <<"own">> ELSE stk[s]]
    /\ esp' = [t \in DOMAIN esp |-> IF t \in Threads \ {init_struct}
                                    THEN [stack |-> t, depth |-> 1] ELSE esp[t]]
    /\ value' = 0
    /\ Goto("own")
    /\ UNCHANGED <<ticks, cpu, holds, loc, wild>>

-----------------------------------------------------------------------------
(* irq00_handler and timer_handler.                                         *)

\* The interrupt: the interrupted context is saved in current_thread->esp;
\* EOI_master turns interrupts on again before timer_handler is called.
irq00 ==
    /\ ~wild
    /\ Len(stk[cpu]) < MaxDepth
    /\ current_thread \in DOMAIN esp
    /\ Window(pc) \in IF (ticks + 1) % SLICE = 0 /\ READY_LIST # NULL
                      THEN SwitchIn ELSE CountIn
    /\ save(pc)
    /\ Goto("t_count")
    /\ UNCHANGED <<lists, current_thread, ticks, cpu, client, wild>>

\* Mutant: the counter wraps one tick late.
timer_count_late ==
    /\ At("t_count")
    /\ ticks' = (ticks + 1) % (SLICE + 1)
    /\ Goto(IF ticks' = 0 /\ READY_LIST # NULL THEN "t_add" ELSE "t_load")
    /\ UNCHANGED <<lists, current_thread, machine, client, wild>>

\* ticks++; if (ticks % 20 == 0 && READY_LIST != 0x0)
timer_count ==
    /\ At("t_count")
    /\ ticks' = (ticks + 1) % SLICE
    /\ Goto(IF ticks' = 0 /\ READY_LIST # NULL THEN "t_add" ELSE "t_load")
    /\ UNCHANGED <<lists, current_thread, machine, client, wild>>

\* Mutant: current goes behind the head instead of to the tail.
timer_add_front ==
    /\ At("t_add")
    /\ links' = list_add_tail(links, current_thread, READY_LIST)
    /\ Goto("t_pick")
    /\ UNCHANGED <<READY_LIST, READY_THREAD, current_thread, ticks, machine, client, wild>>

timer_add ==
    /\ At("t_add")
    /\ links' = list_add_tail(links, current_thread, links.prev[READY_LIST])
    /\ Goto("t_pick")
    /\ UNCHANGED <<READY_LIST, READY_THREAD, current_thread, ticks, machine, client, wild>>

\* READY_THREAD = list_entry(READY_LIST, ...), in timer_handler and yield_thread
pick(p, q) ==
    /\ At(p)
    /\ READY_THREAD' = READY_LIST
    /\ Goto(q)
    /\ UNCHANGED <<links, READY_LIST, current_thread, ticks, machine, client, wild>>

\* READY_LIST = READY_LIST->next
advance(p, q) ==
    /\ At(p)
    /\ READY_LIST' = links.next[READY_LIST]
    /\ Goto(q)
    /\ UNCHANGED <<links, READY_THREAD, current_thread, ticks, machine, client, wild>>

\* list_del(&READY_THREAD->elem)
unlink(p, q) ==
    /\ At(p)
    /\ links' = list_del(links, READY_THREAD)
    /\ Goto(q)
    /\ UNCHANGED <<READY_LIST, READY_THREAD, current_thread, ticks, machine, client, wild>>

\* current_thread = READY_THREAD
make_current(p, q) ==
    /\ At(p)
    /\ current_thread' = READY_THREAD
    /\ Goto(q)
    /\ UNCHANGED <<lists, ticks, machine, client, wild>>

\* The end of irq00_handler and of yield.
resume(p) ==
    /\ At(p)
    /\ load(current_thread)
    /\ UNCHANGED <<lists, current_thread, ticks, client>>

-----------------------------------------------------------------------------
(* lock_acquire and thread_yield.                                           *)

Self == current_thread \in Threads

call_acquire ==
    /\ At("own") /\ Self /\ current_thread \notin holds \cup {init_struct}
    /\ Goto("acq_test")
    /\ UNCHANGED <<lists, current_thread, ticks, machine, client, wild>>

\* Mutant: the loop tests value < -1.
acquire_test_late ==
    /\ At("acq_test")
    /\ Goto(IF value < -1 THEN "acq_enqueue" ELSE "acq_take")
    /\ UNCHANGED <<lists, current_thread, ticks, machine, client, wild>>

\* Mutant: the loop tests value <= 0.
acquire_test_free ==
    /\ At("acq_test")
    /\ Goto(IF value <= 0 THEN "acq_enqueue" ELSE "acq_take")
    /\ UNCHANGED <<lists, current_thread, ticks, machine, client, wild>>

\* while (lock->value < 0)
acquire_test ==
    /\ At("acq_test")
    /\ Goto(IF value < 0 THEN "acq_enqueue" ELSE "acq_take")
    /\ UNCHANGED <<lists, current_thread, ticks, machine, client, wild>>

\* lock->value--
acquire_take ==
    /\ At("acq_take") /\ Self
    /\ value' = value - 1
    /\ holds' = holds \cup {current_thread}
    /\ Goto("own")
    /\ UNCHANGED <<lists, current_thread, ticks, machine, loc, wild>>

\* cli; list_add_tail(&current_thread->elem, lock->list.prev); sti
acquire_enqueue ==
    /\ At("acq_enqueue") /\ Self
    /\ links' = list_add_tail(links, current_thread, links.prev[LOCK])
    /\ Goto("acq_yield")
    /\ UNCHANGED <<READY_LIST, READY_THREAD, current_thread, ticks, machine, client, wild>>

\* thread_yield: int 0x80 and the pushes and the sti of sys_entry
thread_yield ==
    /\ At("acq_yield")
    /\ Goto("sys_yield")
    /\ UNCHANGED <<lists, current_thread, ticks, machine, client, wild>>

\* syscall_handler calls yield, which saves the context that will return
\* through sys_entry into the loop of lock_acquire.
yield_save ==
    /\ At("sys_yield") /\ Self /\ Len(stk[cpu]) < MaxDepth
    /\ save("acq_test")
    /\ Goto("y_pick")
    /\ UNCHANGED <<lists, current_thread, ticks, cpu, client, wild>>

-----------------------------------------------------------------------------
(* lock_realse.                                                             *)

call_realse ==
    /\ At("own") /\ Self /\ current_thread \in holds
    /\ Goto("rel_inc")
    /\ UNCHANGED <<lists, current_thread, ticks, machine, client, wild>>

\* Mutant: the waiter is woken only when value > 0.
realse_inc_strict ==
    /\ At("rel_inc") /\ Self
    /\ HandOff => links.next[LOCK] # LOCK
    /\ value' = value + 1
    /\ holds' = holds \ {current_thread}
    /\ Goto(IF value + 1 > 0 THEN "rel_del" ELSE "own")
    /\ UNCHANGED <<lists, current_thread, ticks, machine, loc, wild>>

\* lock->value++; if (lock->value >= 0)
realse_inc ==
    /\ At("rel_inc") /\ Self
    /\ HandOff => links.next[LOCK] # LOCK
    /\ value' = value + 1
    /\ holds' = holds \ {current_thread}
    /\ Goto(IF value + 1 >= 0 THEN "rel_del" ELSE "own")
    /\ UNCHANGED <<lists, current_thread, ticks, machine, loc, wild>>

\* Mutant: list_del(tmp) is forgotten.
realse_del_keep ==
    /\ At("rel_del") /\ Self
    /\ loc' = [loc EXCEPT ![current_thread].tmp = links.next[LOCK]]
    /\ Goto("rel_tail")
    /\ UNCHANGED <<lists, current_thread, ticks, machine, value, holds, wild>>

\* tmp = lock->list.next; list_del(tmp)
realse_del ==
    /\ At("rel_del") /\ Self
    /\ loc' = [loc EXCEPT ![current_thread].tmp = links.next[LOCK]]
    /\ links' = list_del(links, links.next[LOCK])
    /\ Goto("rel_tail")
    /\ UNCHANGED <<READY_LIST, READY_THREAD, current_thread, ticks, machine,
                   value, holds, wild>>

\* the argument READY_LIST->prev
realse_tail ==
    /\ At("rel_tail") /\ Self
    /\ loc' = [loc EXCEPT ![current_thread].tail = links.prev[READY_LIST]]
    /\ Goto("rel_add")
    /\ UNCHANGED <<lists, current_thread, ticks, machine, value, holds, wild>>

\* list_add_tail(tmp, tail)
realse_add ==
    /\ At("rel_add") /\ Self
    /\ links' = list_add_tail(links, loc[current_thread].tmp, loc[current_thread].tail)
    /\ loc' = [loc EXCEPT ![current_thread] = [tmp |-> NULL, tail |-> NULL]]
    /\ Goto("own")
    /\ UNCHANGED <<READY_LIST, READY_THREAD, current_thread, ticks, machine,
                   value, holds, wild>>

\* The statements of handlers, of yield_thread and of the boot code.
System ==
    \/ creat_init_frame \/ creat_init_current \/ schedule \/ init_thread
    \/ timer_count \/ timer_add
    \/ pick("t_pick", "t_next") \/ pick("y_pick", "y_next")
    \/ advance("t_next", "t_del") \/ advance("y_next", "y_del")
    \/ unlink("t_del", "t_current") \/ unlink("y_del", "y_current")
    \/ make_current("t_current", "t_load") \/ make_current("y_current", "y_load")
    \/ resume("t_load") \/ resume("y_load")

\* The statements of a call of lock_acquire or lock_realse.
Call ==
    \/ acquire_test \/ acquire_take \/ acquire_enqueue \/ thread_yield
    \/ yield_save \/ realse_inc \/ realse_del \/ realse_tail \/ realse_add

\* A thread waiting in "rel_inc" for a waiter to arrive is in its own code.
Next == System \/ irq00 \/ call_acquire \/ call_realse \/ Call

Spec == Init /\ [][Next]_vars

\* The timer keeps interrupting and the processor runs on.  A thread goes on
\* with a call that it has begun, and a holder some time releases the lock, as
\* test_lock1 does: strong fairness, because the timer takes the processor away
\* again and again.  No thread has to call lock_acquire.
FairSpec ==
    /\ Spec
    /\ WF_vars(irq00) /\ WF_vars(System)
    /\ \A t \in Threads \ {init_struct} :
          SF_vars(cpu = t /\ Call) /\ SF_vars(cpu = t /\ call_realse)

-----------------------------------------------------------------------------
(* What must hold whenever a thread executes its own code or sync.c.        *)

InThread == pc \in ThreadCode

\* The nodes met by following next from n.
Follow(n) ==
    LET walk[k \in 0 .. Cardinality(Node)] ==
            IF k = 0 THEN n ELSE links.next[walk[k - 1]]
    IN  {walk[k] : k \in DOMAIN walk}

Ready == IF READY_LIST = NULL THEN {} ELSE Follow(READY_LIST) \ {current_thread}
Waiting == Follow(LOCK) \ {LOCK}
\* Unlinked by lock_realse and not yet linked again.
Passing == {loc[t].tmp : t \in Threads} \ {NULL}

\* The comment on current_thread, "current running thread": the processor runs
\* on the stack of the thread that current_thread names, and irq00_handler,
\* yield and schedule never load a context that is gone.
CurrentRuns == ~wild /\ (InThread => cpu = current_thread)

\* irq00_handler and yield leave every other thread with one saved context,
\* the one its esp points to, and the running thread with none.
Resumable ==
    InThread =>
        /\ stk[cpu] = << >>
        /\ \A t \in Threads \ {cpu} :
              Len(stk[t]) = 1 /\ esp[t] = [stack |-> t, depth |-> 1]

\* timer_handler, yield_thread, lock_acquire and lock_realse keep every thread
\* that does not run on exactly one list: the ready list or the lock's (or
\* between them, in the hands of lock_realse); the lock's head is on no list
\* but its own.
OneList ==
    InThread =>
        /\ Ready \cap Waiting = {} /\ Passing \cap (Ready \cup Waiting) = {}
        /\ LOCK \notin Ready
        /\ Threads \ {current_thread} \subseteq Ready \cup Waiting \cup Passing

\* lock_acquire's test and its decrement are two statements with no cli
\* between them; a thread is alone between lock_acquire and lock_realse.
MutualExclusion == Cardinality(holds) <= 1

\* A thread that is back from thread_yield in lock_acquire, or was woken and
\* will be, and tests value again.
Retesting ==
    {t \in Threads \ Waiting :
        (IF t = cpu THEN pc ELSE stk[t][1]) \in {"acq_test", "acq_take"}}

\* lock_acquire enqueues after a test that may be stale.  When threads wait on
\* the lock's list, it is held, or its release is in progress, or a thread is
\* about to take it.
NoLostWakeup ==
    InThread /\ Waiting # {} =>
        \/ value < 0
        \/ pc \in {"rel_del", "rel_tail", "rel_add"}
        \/ Retesting # {}

\* Under the timer every thread on the ready list runs in the end: READY_LIST,
\* as timer_handler, yield_thread and lock_realse leave it, starves nobody.
ReadyRuns ==
    \A t \in Threads : (InThread /\ t \in Ready) ~> (InThread /\ cpu = t)

\* When holders release, every thread blocked in lock_acquire leaves the lock's
\* list again: its place there is not lost, and threads that come later do not
\* overtake it.
WaitersWoken ==
    \A t \in Threads : (InThread /\ t \in Waiting) ~> (InThread /\ t \notin Waiting)
=============================================================================
