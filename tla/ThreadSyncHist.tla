--------------------------- MODULE ThreadSyncHist ---------------------------
(***************************************************************************)
(* ThreadSync with history variables: the queues that the links are meant  *)
(* to represent, and where every thread is.  They record what the actions  *)
(* do and constrain none of them.  With them the correctness of the        *)
(* pointer code is one statement, Coupled: the links spell out exactly the *)
(* queues.  The refinement of RoundRobin rests on it.                      *)
(***************************************************************************)
EXTENDS ThreadSync

VARIABLES
    readyQ,   \* the ready threads, the next one to run first
    waitQ,    \* for every structure the threads blocked in it, oldest first
    place     \* where a thread is: "fresh", "running", "ready", or the
              \* structure it is blocked in

ASSUME PlaceAssumption == Sync \cap {"fresh", "running", "ready"} = {}

hist == <<readyQ, waitQ, place>>
hvars == <<vars, hist>>

HInit ==
    /\ Init
    /\ readyQ = << >>
    /\ waitQ = [s \in Sync |-> << >>]
    /\ place = [t \in Threads |-> IF t = init_struct THEN "running" ELSE "fresh"]

-----------------------------------------------------------------------------
HAdmit(t) ==
    /\ init_ready_list(t) \/ init_add_ready(t)
    /\ readyQ' = Append(readyQ, t)
    /\ place' = [place EXCEPT ![t] = "ready"]
    /\ UNCHANGED waitQ

\* init_sti, timer_count and acquire_take move no thread.
HSti == init_sti /\ UNCHANGED hist
HCount == timer_count /\ UNCHANGED hist
HTake(t, s) == acquire_take(t, s) /\ UNCHANGED hist

HRotate ==
    LET q == Append(readyQ, current_thread) IN
    /\ timer_switch
    /\ readyQ' = Tail(q)
    /\ place' = [[place EXCEPT ![current_thread] = "ready"]
                        EXCEPT ![q[1]] = "running"]
    /\ UNCHANGED waitQ

HBlock(t, s) ==
    /\ acquire_block(t, s)
    /\ waitQ' = [waitQ EXCEPT ![s] = Append(@, t)]
    /\ readyQ' = Tail(readyQ)
    /\ place' = [[place EXCEPT ![t] = s] EXCEPT ![readyQ[1]] = "running"]

HWake(t, s) ==
    /\ realse(t, s)
    /\ waitQ' = [waitQ EXCEPT ![s] = Tail(@)]
    /\ readyQ' = Append(readyQ, waitQ[s][1])
    /\ place' = [place EXCEPT ![waitQ[s][1]] = "ready"]

HNext ==
    \/ \E t \in Threads : HAdmit(t)
    \/ HSti
    \/ HCount
    \/ HRotate
    \/ \E t \in Threads, s \in Sync : \/ HTake(t, s)
                                      \/ HBlock(t, s)
                                      \/ HWake(t, s)

HSpec == HInit /\ [][HNext]_hvars

-----------------------------------------------------------------------------
(* Safety.                                                                  *)

\* The ring a list head s forms with the threads w linked behind it.
WaitRing(s, w) == [i \in 1 .. Len(w) + 1 |-> IF i = 1 THEN s ELSE w[i - 1]]

HTypeOK ==
    /\ TypeOK
    /\ readyQ \in Seq(Threads)
    /\ waitQ \in [Sync -> Seq(Threads)]
    /\ place \in [Threads -> {"fresh", "running", "ready"} \cup Sync]
    /\ current_thread \in Threads

\* The ready list is one ring that starts at READY_LIST and holds exactly the
\* ready threads in the order in which they will run; when no thread is ready
\* READY_LIST is 0 or points to the running init thread itself.
ReadyRing ==
    /\ Ring(links, readyQ)
    /\ readyQ # << >> => READY_LIST = readyQ[1]
    /\ readyQ = << >> => \/ READY_LIST = NULL
                         \/ READY_LIST = current_thread
    /\ \A i \in 1 .. Len(readyQ) : place[readyQ[i]] = "ready"
    /\ \A t \in Threads : place[t] = "ready" =>
          \E i \in 1 .. Len(readyQ) : readyQ[i] = t

\* Every lock's list is one ring of its head and the threads blocked in it.
WaitRings ==
    \A s \in Sync :
        /\ Ring(links, WaitRing(s, waitQ[s]))
        /\ \A i \in 1 .. Len(waitQ[s]) : place[waitQ[s][i]] = s
        /\ \A t \in Threads : place[t] = s =>
              want[t] = s /\ \E i \in 1 .. Len(waitQ[s]) : waitQ[s][i] = t

\* The running thread and the threads not yet started are on no list.
OffLists ==
    /\ \A t \in Threads : place[t] \in {"fresh", "running"} => Alone(links, t)
    /\ \A t \in Threads : place[t] = "running" <=> t = current_thread
    /\ \A t \in Threads : place[t] = "fresh" <=> t \in fresh

\* What keeps READY_LIST from dangling when a thread yields: init never
\* blocks, so while another thread runs init itself is on the ready list.
InitReady ==
    /\ place[init_struct] \in {"running", "ready"}
    /\ held[init_struct] = {}
    /\ ~booted => /\ current_thread = init_struct
                  /\ readyQ = << >> => READY_LIST = NULL
    /\ booted => fresh = {}

\* timer_handler, yield_thread, lock_acquire and lock_realse keep the links of
\* READY_LIST and of every lock equal to first-in first-out queues, with every
\* thread in exactly one place: no thread is lost, on two lists at once, or
\* picked while it is blocked.
Coupled == ReadyRing /\ WaitRings /\ OffLists /\ InitReady

Holders(s) == {t \in Threads : s \in held[t]}

\* lock_acquire decrements value only after it has seen it at 0 or above.
ValueFloor == \A s \in Sync : value[s] >= -1

\* lock->value and the number of threads inside add up to what get_lock or
\* get_sema set, and value never falls below -1: lock_acquire lets one thread
\* in at a time, sema_acquire one more than the value get_sema was given.
Admission ==
    /\ ValueFloor
    /\ \A s \in Sync : value[s] + Cardinality(Holders(s)) = InitialValue(s)

\* Threads that lock_realse has made ready and that have yet to test value.
Retesters(s) == {t \in Threads : want[t] = s /\ place[t] # s}

\* No lost wakeup: when threads are blocked in a structure and it is free
\* (value >= 0), at least value + 1 threads that it woke are on their way to
\* test it again, so the blocked ones are not forgotten.
NoLostWakeup ==
    \A s \in Sync : waitQ[s] # << >> =>
        value[s] < Cardinality(Retesters(s))

-----------------------------------------------------------------------------
(* The abstract specification, with the queues for its queues.              *)

Slots(s) == InitialValue(s) + 1

Abs == INSTANCE RoundRobin WITH
    Tasks <- Threads, Idle <- init_struct, Resources <- Sync,
    Slots <- Slots,
    running <- current_thread, queue <- readyQ, blocked <- waitQ,
    owners <- [s \in Sync |-> Holders(s)], pending <- fresh

\* The pointer code implements first-in first-out round-robin scheduling and
\* first-in first-out blocking.
Refinement == Abs!AbsSpec
=============================================================================
