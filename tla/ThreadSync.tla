----------------------------- MODULE ThreadSync -----------------------------
(***************************************************************************)
(* Threads, the round-robin timer, locks and semaphores of the kernel      *)
(* (kernel/thread/init.c, kernel/interrupt/timer.c, kernel/syscall and     *)
(* kernel/sync/sync.c), at the level of whole handlers: the timer          *)
(* interrupt arrives only where a thread is in its own code, outside       *)
(* lock_acquire's test, lock_realse, the system call path and the handler  *)
(* itself.  Module Preemption opens those windows one by one.              *)
(*                                                                         *)
(* The model starts where init_thread executes cli (init.c:85): the        *)
(* threads have been created, READY_LIST is still 0 and init is current.   *)
(***************************************************************************)
EXTENDS ListHead, Integers, FiniteSets

CONSTANTS
    Threads,       \* the thread structures; a thread and its elem are one node
    init_struct,   \* init's thread structure; init_thread takes no lock
    Locks,         \* struct lock variables, named by their list heads
    Semas,         \* struct sema variables, named by their list heads
    SemaInit,      \* the value get_sema gives each of them
    SLICE,         \* the 20 of "ticks % 20"
    HandOff,       \* TRUE: a client releases only what a thread waits for
    NULL

Sync == Locks \cup Semas
Node == Threads \cup Sync

ASSUME ThreadsAssumption == IsFiniteSet(Threads) /\ init_struct \in Threads
ASSUME SyncAssumption ==
    /\ Locks \cap Semas = {} /\ Threads \cap (Locks \cup Semas) = {}
    /\ SemaInit \in [Semas -> Nat]
ASSUME SliceAssumption == SLICE \in Nat \ {0}
ASSUME HandOffAssumption == HandOff \in BOOLEAN
ASSUME NullAssumption == NULL \notin Threads \cup Locks \cup Semas

\* get_lock and get_sema: the value the structure starts with.
InitialValue(s) == IF s \in Locks THEN 0 ELSE SemaInit[s]

VARIABLES
    links,          \* next and prev of every elem and every lock's list head
    READY_LIST,     \* the node the scheduler takes next, or 0
    READY_THREAD,
    current_thread,
    ticks,          \* only "ticks % 20" is ever used
    value,          \* lock->value
    intr,           \* the processor's interrupt flag
    booted,         \* init_thread has executed sti (init.c:95)
    fresh,          \* threads created and not yet linked by init_thread
    want,           \* the structure whose acquire the thread is blocked in
    held            \* what the thread has acquired and not released

sched == <<links, READY_LIST, READY_THREAD, current_thread, intr>>
vars == <<links, READY_LIST, READY_THREAD, current_thread, ticks, value,
          intr, booted, fresh, want, held>>

TypeOK ==
    /\ links \in Links(Node)
    /\ READY_LIST \in Node \cup {NULL}
    /\ READY_THREAD \in Node \cup {NULL}
    /\ current_thread \in Node
    /\ ticks \in 0 .. SLICE - 1
    /\ value \in [Sync -> Int]
    /\ intr \in BOOLEAN
    /\ booted \in BOOLEAN
    /\ fresh \in SUBSET Threads
    /\ want \in [Threads -> Sync \cup {NULL}]
    /\ held \in [Threads -> SUBSET Sync]

Init ==
    /\ links = [next |-> [n \in Node |-> n], prev |-> [n \in Node |-> n]]
    /\ READY_LIST = NULL
    /\ READY_THREAD = NULL
    /\ current_thread = init_struct
    /\ ticks \in 0 .. SLICE - 1
    /\ value = [s \in Sync |-> InitialValue(s)]
    /\ intr = FALSE
    /\ booted = FALSE
    /\ fresh = Threads \ {init_struct}
    /\ want = [t \in Threads |-> NULL]
    /\ held = [t \in Threads |-> {}]

-----------------------------------------------------------------------------
(* init_thread, between cli and sti.                                        *)

\* READY_LIST = &test_LOCK1->elem
init_ready_list(t) ==
    /\ ~booted
    /\ t \in fresh
    /\ READY_LIST = NULL
    /\ READY_LIST' = t
    /\ fresh' = fresh \ {t}
    /\ UNCHANGED <<links, READY_THREAD, current_thread, ticks, value, intr,
                   booted, want, held>>

\* list_add_tail(&test_LOCK2->elem, READY_LIST->prev)
init_add_ready(t) ==
    /\ ~booted
    /\ t \in fresh
    /\ READY_LIST # NULL
    /\ links' = list_add_tail(links, t, links.prev[READY_LIST])
    /\ fresh' = fresh \ {t}
    /\ UNCHANGED <<READY_LIST, READY_THREAD, current_thread, ticks, value,
                   intr, booted, want, held>>

\* current_thread = &init_struct; READY_THREAD = list_entry(READY_LIST); sti
init_sti ==
    /\ ~booted
    /\ fresh = {}
    /\ current_thread' = init_struct
    /\ READY_THREAD' = READY_LIST
    /\ intr' = TRUE
    /\ booted' = TRUE
    /\ UNCHANGED <<links, READY_LIST, ticks, value, fresh, want, held>>

-----------------------------------------------------------------------------
(* Switching threads.                                                       *)

\* The interrupt flag with which node n resumes.  A frame the timer pushed,
\* a new thread's frame and lock_acquire's yield are left with interrupts on
\* (the sti of EOI_master, or of yield); sema_acquire yields under cli, and
\* the popf of sys_entry restores that.
ResumeFlag(n) == n \in Threads => want[n] \notin Semas

\* yield_thread, and the same four statements of timer_handler: the head of
\* the ready list leaves it and becomes current.
yield_thread(L) ==
    /\ READY_THREAD' = READY_LIST
    /\ READY_LIST' = L.next[READY_LIST]
    /\ links' = list_del(L, READY_LIST)
    /\ current_thread' = READY_LIST
    /\ intr' = ResumeFlag(READY_LIST)

\* A timer interrupt reaches thread code.
irq00 == booted /\ intr /\ current_thread \in Threads

\* Mutant: the counter wraps one tick late.
timer_count_late ==
    /\ irq00
    /\ ticks' = (ticks + 1) % (SLICE + 1)
    /\ ticks' # 0 \/ READY_LIST = NULL
    /\ UNCHANGED <<sched, value, booted, fresh, want, held>>

\* timer_handler, when it only counts.
timer_count ==
    /\ irq00
    /\ ticks' = (ticks + 1) % SLICE
    /\ ticks' # 0 \/ READY_LIST = NULL
    /\ UNCHANGED <<sched, value, booted, fresh, want, held>>

\* Mutant: current goes behind the head instead of to the tail.
timer_switch_front ==
    /\ irq00
    /\ ticks' = (ticks + 1) % SLICE
    /\ ticks' = 0
    /\ READY_LIST # NULL
    /\ yield_thread(list_add_tail(links, current_thread, READY_LIST))
    /\ UNCHANGED <<value, booted, fresh, want, held>>

\* timer_handler, when the slice is over: current goes to the tail of the
\* ready list, the head of the list becomes current.
timer_switch ==
    /\ irq00
    /\ ticks' = (ticks + 1) % SLICE
    /\ ticks' = 0
    /\ READY_LIST # NULL
    /\ yield_thread(list_add_tail(links, current_thread,
                                  links.prev[READY_LIST]))
    /\ UNCHANGED <<value, booted, fresh, want, held>>

-----------------------------------------------------------------------------
(* kernel/sync/sync.c, called by the current thread.  A thread that came    *)
(* back from a blocked acquire goes on with the same call.                  *)

Calls(t, s) ==
    /\ booted
    /\ t = current_thread /\ t \in Threads /\ t # init_struct
    /\ s \in Sync \ held[t]
    /\ want[t] \in {NULL, s}

\* Mutant: the loop tests value < -1.
acquire_take_late(t, s) ==
    /\ Calls(t, s)
    /\ ~(value[s] < -1)
    /\ value' = [value EXCEPT ![s] = @ - 1]
    /\ held' = [held EXCEPT ![t] = @ \cup {s}]
    /\ want' = [want EXCEPT ![t] = NULL]
    /\ UNCHANGED <<sched, ticks, booted, fresh>>

\* lock_acquire and sema_acquire: the loop test fails, value--.
acquire_take(t, s) ==
    /\ Calls(t, s)
    /\ ~(value[s] < 0)
    /\ value' = [value EXCEPT ![s] = @ - 1]
    /\ held' = [held EXCEPT ![t] = @ \cup {s}]
    /\ want' = [want EXCEPT ![t] = NULL]
    /\ UNCHANGED <<sched, ticks, booted, fresh>>

\* Mutant: the loop tests value <= 0.
acquire_block_free(t, s) ==
    /\ Calls(t, s)
    /\ value[s] <= 0
    /\ READY_LIST # NULL
    /\ want' = [want EXCEPT ![t] = s]
    /\ yield_thread(list_add_tail(links, t, links.prev[s]))
    /\ UNCHANGED <<ticks, value, booted, fresh, held>>

\* One pass of the loop body: current goes to the tail of the structure's
\* list and thread_yield gives the processor to the head of the ready list.
acquire_block(t, s) ==
    /\ Calls(t, s)
    /\ value[s] < 0
    /\ READY_LIST # NULL
    /\ want' = [want EXCEPT ![t] = s]
    /\ yield_thread(list_add_tail(links, t, links.prev[s]))
    /\ UNCHANGED <<ticks, value, booted, fresh, held>>

\* lock_realse and sema_realse: value++; if it is not negative, the first
\* node of the structure's list goes to the tail of the ready list.
realse(t, s) ==
    LET tmp == links.next[s] IN
    /\ booted
    /\ t = current_thread /\ t \in Threads /\ want[t] = NULL
    /\ s \in held[t]
    /\ HandOff => tmp # s
    /\ value' = [value EXCEPT ![s] = @ + 1]
    /\ IF value[s] + 1 >= 0
       THEN LET L == list_del(links, tmp)
            IN  links' = list_add_tail(L, tmp, L.prev[READY_LIST])
       ELSE links' = links
    /\ held' = [held EXCEPT ![t] = @ \ {s}]
    /\ UNCHANGED <<READY_LIST, READY_THREAD, current_thread, intr, ticks,
                   booted, fresh, want>>

Next ==
    \/ \E t \in Threads : init_ready_list(t) \/ init_add_ready(t)
    \/ init_sti
    \/ timer_count
    \/ timer_switch
    \/ \E t \in Threads, s \in Sync : \/ acquire_take(t, s)
                                      \/ acquire_block(t, s)
                                      \/ realse(t, s)

Spec == Init /\ [][Next]_vars

-----------------------------------------------------------------------------
\* kernel/thread/init.c names READY_THREAD the "ready thread" and
\* current_thread the "current running thread": what the scheduler picks, and
\* what it will pick next, are threads.
PicksThreads ==
    /\ READY_LIST \in Threads \cup {NULL}
    /\ READY_THREAD \in Threads \cup {NULL}
    /\ current_thread \in Threads
=============================================================================
