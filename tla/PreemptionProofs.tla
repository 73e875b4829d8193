-------------------------- MODULE PreemptionProofs --------------------------
(***************************************************************************)
(* The thread system with ticks between its statements, for any number of  *)
(* threads: what holds as long as no slice ends within sync.c, the         *)
(* handlers or the boot code.                                              *)
(***************************************************************************)
EXTENDS Preemption, ListHeadProofs, FiniteSetTheorems, WellFoundedInduction

\* A slice ends only in a thread's own code; other ticks fall there or in
\* lock_acquire, thread_yield and lock_realse; and a lock is released only
\* when a thread waits for it.
Confined ==
    /\ HandOff /\ SwitchIn \subseteq {"own"}
    /\ CountIn \subseteq {"own", "acquire", "enqueued", "release"}

\* Where a thread can be when another one runs.
Parked == {"own", "acq_test", "rel_inc"}
Releasing == {"rel_del", "rel_tail", "rel_add"}
Yielding == {"acq_yield", "sys_yield"}

TimerCode == {"t_count", "t_add", "t_pick", "t_next", "t_del", "t_current", "t_load"}
YieldCode == {"y_pick", "y_next", "y_del", "y_current", "y_load"}
Loads == {"t_load", "y_load"}

\* A context saved on stack s, and the esp that points to it.
Saved(t, s) == Len(stk[s]) = 1 /\ esp[t] = [stack |-> s, depth |-> 1]

\* The statement each thread is about to execute when it runs (again).
Point == [t \in Threads |-> IF t = cpu /\ pc \in ThreadCode THEN pc ELSE stk[t][1]]

-----------------------------------------------------------------------------
\* From creat_init to the ready list of init_thread: no tick ends a slice.
Booting ==
    /\ links = [next |-> [n \in Node |-> n], prev |-> [n \in Node |-> n]]
    /\ holds = {} /\ loc = [t \in Threads |-> [tmp |-> NULL, tail |-> NULL]]
    /\ \/ /\ cpu = BOOT /\ current_thread = NULL
          /\ pc = "boot_frame" /\ stk[BOOT] = << >>
       \/ /\ cpu = BOOT /\ current_thread = NULL
          /\ pc \in {"t_count", "t_load"} /\ Saved(NULL, BOOT)
          /\ stk[BOOT][1] = "boot_frame"
       \/ /\ cpu = BOOT /\ pc \in {"boot_current", "boot_schedule"}
          /\ pc = "boot_schedule" => current_thread = init_struct
          /\ Saved(init_struct, init_struct) /\ stk[init_struct][1] = "create"
       \/ /\ cpu = init_struct /\ current_thread = init_struct
          /\ pc = "create" /\ stk[init_struct] = << >>
       \/ /\ cpu = init_struct /\ current_thread = init_struct
          /\ pc \in {"t_count", "t_load"} /\ Saved(init_struct, init_struct)
          /\ stk[init_struct][1] = "create"

\* The stacks: every thread has one context, except one that executes its own
\* code or sync.c and has none.
Stacked ==
    /\ cpu \in Threads /\ current_thread \in Threads
    /\ pc \in ThreadCode \cup TimerCode \cup YieldCode
    /\ pc \in ThreadCode => stk[cpu] = << >>
    /\ \A t \in Threads : t # cpu \/ pc \notin ThreadCode => Saved(t, t)
    /\ pc \notin Loads => current_thread = cpu

\* The timer interrupt is going to change, or has changed, the thread.
Switching ==
    \/ pc \in {"t_add", "t_pick", "t_next", "t_del", "t_current"}
    \/ pc = "t_count" /\ (ticks + 1) % SLICE = 0
    \/ pc = "t_load" /\ current_thread # cpu

\* A thread is left only in its own code, or in lock_acquire after yield.
Left ==
    /\ Point \in [Threads -> ThreadCode]
    /\ \A t \in Threads \ {cpu} : Point[t] \in Parked
    /\ Switching => Point[cpu] \in Parked
    /\ pc \in YieldCode => Point[cpu] = "acq_test"
    /\ Point[init_struct] = "own"

\* The lock: value against the threads that hold it, and what lock_acquire and
\* lock_realse have tested is still true.
Locked ==
    /\ (value = 0 /\ holds = {}) \/ (value = -1 /\ \E h \in Threads : holds = {h})
    /\ init_struct \notin holds
    /\ \A t \in Threads :
        /\ Point[t] \in {"acq_test", "acq_take", "acq_enqueue"} \cup Yielding => t \notin holds
        /\ Point[t] = "rel_inc" => t \in holds
    /\ Point[cpu] \in {"acq_take"} \cup Releasing => value = 0
    /\ Point[cpu] \in {"acq_enqueue"} \cup Yielding => value = -1
    /\ pc \in {"y_pick", "y_next", "y_del"} => value = -1

\* lock_realse's locals.
Locals ==
    \A t \in Threads :
        IF t = cpu /\ Point[t] \in {"rel_tail", "rel_add"}
        THEN /\ loc[t].tmp \in Threads \ {cpu}
             /\ Point[loc[t].tmp] = "acq_test"
             /\ Point[t] = "rel_add" => loc[t].tail = links.prev[READY_LIST]
        ELSE loc[t].tmp = NULL

\* With W the threads on the lock's list: those on no list ...
Off(W) ==
    IF pc \in {"t_pick", "t_next", "t_del", "y_pick", "y_next", "y_del"} THEN {}
    ELSE IF pc \in {"t_current", "y_current"} THEN {READY_THREAD}
    ELSE ({current_thread} \ W) \cup Passing

\* ... and those on the ready list.
Rest(W) == Threads \ (W \cup Off(W))

\* The two lists.
Rings(W) ==
    /\ Circle(links, W \cup {LOCK}, LOCK)
    /\ Circle(links, Rest(W), IF pc \in {"t_del", "y_del"} THEN READY_THREAD ELSE READY_LIST)
    /\ Off(W) \subseteq Threads \ W

\* A thread is on the lock's list from its list_add_tail in lock_acquire until
\* lock_realse takes it off; meanwhile it is about to yield or has yielded.
Members(W) ==
    /\ \A t \in W : Point[t] \in {"acq_test"} \cup Yielding
    /\ cpu \in W <=> Point[cpu] \in Yielding \/ pc \in YieldCode
    /\ pc \in Loads => current_thread \notin W \/ (pc = "t_load" /\ current_thread = cpu)
    /\ Point[cpu] = "rel_del" => W # {}

\* The variables with which timer_handler and yield_thread choose a thread.
Chosen ==
    /\ pc \in {"t_pick", "y_pick"} => READY_LIST # cpu
    /\ pc \in {"t_next", "y_next"} => READY_THREAD = READY_LIST
    /\ pc \in {"t_next", "t_del", "t_current", "y_next", "y_del", "y_current"} =>
            READY_THREAD # cpu
    /\ pc \in {"t_del", "y_del"} => READY_LIST = links.next[READY_THREAD]

\* A thread waits: the lock is held or being released, or a thread that is not
\* on the lock's list is about to take it.
Heard(W) ==
    W # {} /\ value = 0 =>
        \/ Point[cpu] \in Releasing
        \/ \E t \in Threads \ W : Point[t] \in {"acq_test", "acq_take"}

Listed(W) == Rings(W) /\ Members(W) /\ Heard(W)

\* After init_thread.
Running ==
    /\ READY_LIST \in Threads /\ Stacked /\ Left /\ Locked /\ Locals /\ Chosen
    /\ \E W \in SUBSET Threads : Listed(W)

\* The inductive invariant.
PInv == TypeOK /\ ~wild /\ IF READY_LIST = NULL THEN Booting ELSE Running

-----------------------------------------------------------------------------
(* The ready list init_thread builds.                                       *)

\* Every nonempty set of natural numbers has a least element.
LEMMA Least ==
    ASSUME NEW T, T \subseteq Nat, T # {}
    PROVE  \E x \in T : \A y \in T : x <= y
<1>1. PICK x \in T : \A y \in T : ~(<<y, x>> \in OpToRel(<, Nat))
  BY NatLessThanWellFounded, WFMin
<1>2. \A y \in T : ~(y < x)
  BY <1>1, Zenon DEF OpToRel
<1> QED BY <1>2

\* The i-th round of the loop.
Grow(L, order, i) == list_add_tail(L, order[i], L.prev[order[1]])

\* f holds the memory after each of n rounds.
Rounds(f, n, order, L) ==
    f = [i \in 1 .. n |-> IF i = 1 THEN L ELSE Grow(f[i - 1], order, i)]

LEMMA RoundsExist ==
    ASSUME NEW n \in Nat, NEW order, NEW L
    PROVE  \E f : Rounds(f, n, order, L)
<1> DEFINE T == {m \in Nat : ~ \E f : Rounds(f, m, order, L)}
<1>1. SUFFICES ASSUME T # {}
               PROVE  FALSE
  OBVIOUS
<1>2. PICK m \in T : \A k \in T : m <= k
  BY <1>1, Least
<1>3. CASE m = 0
  <2>1. Rounds([i \in 1 .. 0 |-> L], 0, order, L)
    BY DEF Rounds
  <2> QED BY <1>3, <2>1
<1>4. CASE m # 0
  <2>1. PICK k \in Nat : k + 1 = m
    BY <1>4
  <2>2. k \notin T
    BY <1>2, <2>1
  <2>3. PICK f : Rounds(f, k, order, L)
    BY <2>2
  <2> DEFINE last == IF m = 1 THEN L ELSE Grow(f[k], order, m)
             g == [i \in 1 .. m |-> IF i = m THEN last ELSE f[i]]
  <2>4. \A i \in 1 .. k : f[i] = IF i = 1 THEN L ELSE Grow(f[i - 1], order, i)
    BY <2>3 DEF Rounds
  <2>5. \A i \in 1 .. m : g[i] = IF i = 1 THEN L ELSE Grow(g[i - 1], order, i)
    <3>1. SUFFICES ASSUME NEW i \in 1 .. m
                   PROVE  g[i] = IF i = 1 THEN L ELSE Grow(g[i - 1], order, i)
      OBVIOUS
    <3>2. i # 1 => i - 1 \in 1 .. m /\ i - 1 # m
      BY <1>2
    <3>3. i # 1 => g[i - 1] = f[i - 1]
      BY <3>2
    <3>4. CASE i = m
      <4>1. g[i] = last /\ i - 1 = k
        BY <2>1, <3>4
      <4> QED BY <3>3, <3>4, <4>1
    <3>5. CASE i # m
      <4>1. i \in 1 .. k /\ g[i] = f[i]
        BY <1>2, <2>1, <3>5
      <4> QED BY <2>4, <3>3, <4>1
    <3> QED BY <3>4, <3>5
  <2>6. Rounds(g, m, order, L)
    <3>1. g = [i \in 1 .. m |-> g[i]]
      OBVIOUS
    <3> HIDE DEF g
    <3> QED BY <2>5, <3>1 DEF Rounds
  <2> QED BY <1>2, <2>6
<1> QED BY <1>3, <1>4

\* init_thread, with the memory of each round.
LEMMA InitThreadRounds ==
    ASSUME init_thread
    PROVE  \E order \in [1 .. Cardinality(Threads) - 1 -> Threads \ {init_struct}] :
            /\ NoRepeat(order) /\ READY_LIST' = order[1] /\ READY_THREAD' = order[1]
            /\ \E f : /\ Rounds(f, Cardinality(Threads) - 1, order, links)
                      /\ links' = f[Cardinality(Threads) - 1]
<1> DEFINE n == Cardinality(Threads) - 1
<1>1. n \in Nat
  <2>1. Cardinality(Threads) \in Nat /\ Cardinality(Threads) # 0
    BY PreemptionAssumption, FS_CardinalityType, FS_EmptySet
  <2> QED BY <2>1
<1>2. PICK order \in [1 .. n -> Threads \ {init_struct}] :
        /\ NoRepeat(order) /\ READY_LIST' = order[1] /\ READY_THREAD' = order[1]
        /\ links' = (CHOOSE f : Rounds(f, n, order, links))[n]
  BY DEF init_thread, Rounds, Grow
<1>3. PICK f : f = CHOOSE g : Rounds(g, n, order, links)
  OBVIOUS
<1>4. Rounds(f, n, order, links)
  BY <1>1, <1>3, RoundsExist
<1> QED BY <1>2, <1>3, <1>4

\* After the last round the threads of the order form one ring.
LEMMA RoundsBuild ==
    ASSUME links \in Links(Node), \A x \in Node : Alone(links, x),
           NEW n \in Nat \ {0}, NEW order \in [1 .. n -> Threads], NoRepeat(order),
           NEW f, Rounds(f, n, order, links)
    PROVE  /\ f[n] \in Links(Node)
           /\ Circle(f[n], {order[i] : i \in 1 .. n}, order[1])
           /\ \A x \in Node : (\A i \in 1 .. n : x # order[i]) => SameLinks(links, f[n], x)
<1> DEFINE S(m) == {order[i] : i \in 1 .. m}
           P(m) == /\ f[m] \in Links(Node) /\ Circle(f[m], S(m), order[1])
                   /\ \A x \in Node : x \notin S(m) => SameLinks(links, f[m], x)
           T == {m \in Nat : m \in 1 .. n /\ ~P(m)}
<1>1. \A i \in 1 .. n : order[i] \in Threads /\ order[i] \in Node
  BY DEF Node
<1>2. \A i \in 1 .. n : f[i] = IF i = 1 THEN links ELSE Grow(f[i - 1], order, i)
  BY DEF Rounds
<1>3. \A i, j \in 1 .. n : order[i] = order[j] => i = j
  <2>1. Len(order) = n
    OBVIOUS
  <2> QED BY <2>1 DEF NoRepeat
<1>4. SUFFICES P(n)
  BY <1>1
<1> HIDE DEF P
<1>5. SUFFICES ASSUME T # {}
               PROVE  FALSE
  <2>1. n \in Nat /\ n \in 1 .. n
    OBVIOUS
  <2> QED BY <2>1
<1>6. PICK m \in T : \A k \in T : m <= k
  BY <1>5, Least
<1>7. m \in Nat /\ m \in 1 .. n /\ ~P(m)
  BY <1>6
<1>8. CASE m = 1
  <2>1. f[1] = links /\ order[1] \in Node
    BY <1>1, <1>2
  <2>2. S(1) = {order[1]}
    OBVIOUS
  <2>3. Circle(links, {order[1]}, order[1])
    BY <2>1, CircleOne
  <2>4. P(1)
    BY <2>1, <2>2, <2>3 DEF P, SameLinks
  <2> QED BY <1>7, <1>8, <2>4
<1>9. CASE m # 1
  <2>1. PICK k \in Nat : k + 1 = m
    BY <1>7
  <2>2. k \in 1 .. n /\ k < m /\ k = m - 1
    BY <1>7, <1>9, <2>1
  <2>3. P(k)
    <3>1. k \notin T
      BY <1>6, <1>7, <2>1
    <3> QED BY <2>2, <3>1
  <2>10. /\ f[k] \in Links(Node) /\ Circle(f[k], S(k), order[1])
         /\ \A x \in Node : x \notin S(k) => SameLinks(links, f[k], x)
    BY <2>3 DEF P
  <2>4. f[m] = list_add_tail(f[k], order[m], f[k].prev[order[1]])
    BY <1>2, <1>7, <1>9, <2>2 DEF Grow
  <2>5. S(k) \in SUBSET Node /\ order[m] \in Node
    BY <1>1, <1>7, <2>2
  <2>6. order[m] \notin S(k)
    <3>1. \A i \in 1 .. k : i \in 1 .. n /\ i # m
      BY <1>7, <2>2
    <3> QED BY <1>3, <1>7, <3>1
  <2>7. S(m) = S(k) \cup {order[m]}
    <3>1. \A i : i \in 1 .. m <=> i \in 1 .. k \/ i = m
      BY <1>7, <2>1
    <3> QED BY <3>1
  <2> HIDE DEF S
  <2>8. /\ f[m] \in Links(Node) /\ Circle(f[m], S(k) \cup {order[m]}, order[1])
        /\ \A x \in Node : x # order[m] /\ x \notin S(k) => SameLinks(f[k], f[m], x)
    <3>1. PICK L \in Links(Node), A \in SUBSET Node, e \in Node, h \in Node :
            L = f[k] /\ A = S(k) /\ e = order[m] /\ h = order[1]
      <4>1. order[1] \in Node
        BY <1>1
      <4> QED BY <2>5, <2>10, <4>1
    <3>2. Circle(L, A, h) /\ e \notin A /\ f[m] = list_add_tail(L, e, L.prev[h])
      BY <2>4, <2>6, <2>10, <3>1
    <3>3. /\ f[m] \in Links(Node) /\ Circle(f[m], A \cup {e}, h)
          /\ \A x \in Node : x # e /\ x \notin A => SameLinks(L, f[m], x)
      <4>1. Circle(L, A, h) /\ e \notin A
        BY <3>2
      <4>2. /\ list_add_tail(L, e, L.prev[h]) \in Links(Node)
            /\ Circle(list_add_tail(L, e, L.prev[h]), A \cup {e}, h)
            /\ \A x \in Node : x # e /\ x \notin A =>
                  SameLinks(L, list_add_tail(L, e, L.prev[h]), x)
        BY <4>1, CircleAdd, Zenon
      <4> QED BY <3>2, <4>2
    <3> QED BY <3>1, <3>3
  <2>9. \A x \in Node : x \notin S(m) => SameLinks(links, f[m], x)
    BY <2>7, <2>8, <2>10 DEF SameLinks
  <2> QED BY <1>7, <2>7, <2>8, <2>9 DEF P
<1> QED BY <1>8, <1>9

\* ... all of them but init_struct.
LEMMA InitThreadRing ==
    ASSUME init_thread, links \in Links(Node), \A x \in Node : Alone(links, x)
    PROVE  /\ links' \in Links(Node) /\ READY_LIST' \in Threads \ {init_struct}
           /\ READY_THREAD' = READY_LIST'
           /\ Circle(links', Threads \ {init_struct}, READY_LIST')
           /\ Alone(links', LOCK)
<1> DEFINE Others == Threads \ {init_struct}
<1>1. PICK n \in Nat : n = Cardinality(Threads) - 1
  <2>1. Cardinality(Threads) \in Nat /\ Cardinality(Threads) # 0
    BY PreemptionAssumption, FS_CardinalityType, FS_EmptySet
  <2> QED BY <2>1
<1>2. PICK order \in [1 .. n -> Others] :
        /\ NoRepeat(order) /\ READY_LIST' = order[1] /\ READY_THREAD' = order[1]
        /\ \E f : Rounds(f, n, order, links) /\ links' = f[n]
  BY <1>1, InitThreadRounds
<1>3. PICK f : Rounds(f, n, order, links) /\ links' = f[n]
  BY <1>2
<1>4. IsFiniteSet(Others) /\ Cardinality(Others) = n
  BY <1>1, PreemptionAssumption, FS_RemoveElement
<1>5. n # 0
  BY <1>4, PreemptionAssumption, FS_EmptySet
<1>6. \A i, j \in 1 .. n : order[i] = order[j] => i = j
  <2>1. Len(order) = n
    BY <1>2, <1>3
  <2> QED BY <1>2, <1>3, <2>1 DEF NoRepeat
<1>7. {order[i] : i \in 1 .. n} = Others
  <2>1. order \in Injection(1 .. n, Others)
    BY <1>2, <1>3, <1>6 DEF Injection, IsInjective
  <2>2. IsFiniteSet(1 .. n) /\ Cardinality(1 .. n) = n
    <3>1. 1 \in Int /\ n \in Int
      OBVIOUS
    <3>2. IsFiniteSet(1 .. n) /\ Cardinality(1 .. n) = IF 1 > n THEN 0 ELSE n - 1 + 1
      BY <3>1, FS_Interval
    <3> QED BY <3>2
  <2>3. order \in Surjection(1 .. n, Others)
    BY <1>4, <2>1, <2>2, FS_Injection
  <2> QED BY <1>2, <1>3, <2>3 DEF Surjection
<1>8. order \in [1 .. n -> Threads]
  BY <1>2, <1>3
<1>9. /\ links' \in Links(Node) /\ Circle(links', Others, order[1])
      /\ \A x \in Node : (\A i \in 1 .. n : x # order[i]) => SameLinks(links, links', x)
  <2>1. n \in Nat \ {0} /\ NoRepeat(order) /\ Rounds(f, n, order, links)
    BY <1>2, <1>3, <1>5
  <2>2. /\ f[n] \in Links(Node)
        /\ Circle(f[n], {order[i] : i \in 1 .. n}, order[1])
        /\ \A x \in Node : (\A i \in 1 .. n : x # order[i]) => SameLinks(links, f[n], x)
    BY <1>8, <2>1, RoundsBuild, Zenon
  <2> QED BY <1>2, <1>3, <1>7, <2>2
<1>10. order[1] \in Others
  BY <1>2, <1>3, <1>5
<1>11. LOCK \in Node /\ \A i \in 1 .. n : LOCK # order[i]
  BY <1>2, <1>3, PreemptionAssumption DEF Node
<1>12. Alone(links', LOCK)
  BY <1>9, <1>11 DEF SameLinks, Alone
<1> QED BY <1>2, <1>3, <1>9, <1>10, <1>12

-----------------------------------------------------------------------------
(* What Follow finds on a ring.                                             *)

\* f holds the nodes met by following next n times from h.
Walk(f, n, L, h) ==
    f = [k \in 0 .. n |-> IF k = 0 THEN h ELSE L.next[f[k - 1]]]

LEMMA WalkExists ==
    ASSUME NEW n \in Nat, NEW L, NEW h
    PROVE  \E f : Walk(f, n, L, h)
<1> DEFINE T == {m \in Nat : ~ \E f : Walk(f, m, L, h)}
<1>1. SUFFICES ASSUME T # {}
               PROVE  FALSE
  OBVIOUS
<1>2. PICK m \in T : \A k \in T : m <= k
  BY <1>1, Least
<1>3. CASE m = 0
  <2>1. Walk([k \in 0 .. 0 |-> h], 0, L, h)
    BY DEF Walk
  <2> QED BY <1>3, <2>1
<1>4. CASE m # 0
  <2>1. PICK k \in Nat : k + 1 = m
    BY <1>4
  <2>2. k \notin T
    BY <1>2, <2>1
  <2>3. PICK f : Walk(f, k, L, h)
    BY <2>2
  <2> DEFINE g == [i \in 0 .. m |-> IF i = m THEN L.next[f[k]] ELSE f[i]]
  <2>4. \A i \in 0 .. k : f[i] = IF i = 0 THEN h ELSE L.next[f[i - 1]]
    BY <2>3 DEF Walk
  <2>5. \A i \in 0 .. m : g[i] = IF i = 0 THEN h ELSE L.next[g[i - 1]]
    <3>1. SUFFICES ASSUME NEW i \in 0 .. m
                   PROVE  g[i] = IF i = 0 THEN h ELSE L.next[g[i - 1]]
      OBVIOUS
    <3>2. i # 0 => i - 1 \in 0 .. m /\ i - 1 # m
      BY <1>2
    <3>3. i # 0 => g[i - 1] = f[i - 1]
      BY <3>2
    <3>4. CASE i = m
      <4>1. g[i] = L.next[f[k]] /\ i - 1 = k
        BY <2>1, <3>4
      <4> QED BY <1>4, <3>3, <3>4, <4>1
    <3>5. CASE i # m
      <4>1. i \in 0 .. k /\ g[i] = f[i]
        BY <1>2, <2>1, <3>5
      <4> QED BY <2>4, <3>3, <4>1
    <3> QED BY <3>4, <3>5
  <2>6. Walk(g, m, L, h)
    <3>1. g = [i \in 0 .. m |-> g[i]]
      OBVIOUS
    <3> HIDE DEF g
    <3> QED BY <2>5, <3>1 DEF Walk
  <2> QED BY <1>2, <2>6
<1> QED BY <1>3, <1>4

\* On a ring the walk goes round in the order of the ring ...
LEMMA WalkRing ==
    ASSUME NEW n \in Nat, NEW L, NEW h, NEW f, Walk(f, n, L, h),
           NEW S, NEW q \in Seq(S), q # << >>, q[1] = h, Ring(L, q)
    PROVE  \A k \in 0 .. n : /\ \E i \in 1 .. Len(q) : f[k] = q[i]
                             /\ k < Len(q) => f[k] = q[k + 1]
<1> DEFINE P(k) == /\ \E i \in 1 .. Len(q) : f[k] = q[i]
                   /\ k < Len(q) => f[k] = q[k + 1]
           T == {k \in Nat : k <= n /\ ~P(k)}
<1>1. Len(q) \in Nat /\ Len(q) >= 1
  OBVIOUS
<1>2. \A k \in 0 .. n : f[k] = IF k = 0 THEN h ELSE L.next[f[k - 1]]
  BY DEF Walk
<1>3. \A i \in 1 .. Len(q) : L.next[q[i]] = IF i = Len(q) THEN q[1] ELSE q[i + 1]
  BY DEF Ring, CycSucc
<1>4. SUFFICES ASSUME T # {}
               PROVE  FALSE
  OBVIOUS
<1>5. PICK m \in T : \A k \in T : m <= k
  <2> HIDE DEF P
  <2> QED BY <1>4, Least
<1>6. m \in Nat /\ m <= n /\ ~P(m)
  BY <1>5
<1>7. m # 0
  <2>1. f[0] = q[1]
    BY <1>2
  <2> QED BY <1>1, <1>6, <2>1
<1>8. PICK k \in Nat : k + 1 = m
  BY <1>6, <1>7
<1>9. P(k)
  <2> HIDE DEF P
  <2> QED BY <1>5, <1>6, <1>8
<1>10. f[m] = L.next[f[k]]
  <2>1. m \in 0 .. n /\ m - 1 = k
    BY <1>6, <1>8
  <2> QED BY <1>2, <1>7, <2>1
<1>11. \E i \in 1 .. Len(q) : f[m] = q[i]
  <2>1. PICK i \in 1 .. Len(q) : f[k] = q[i]
    BY <1>9
  <2>2. f[m] = IF i = Len(q) THEN q[1] ELSE q[i + 1]
    BY <1>3, <1>10, <2>1
  <2> QED BY <1>1, <2>2
<1>12. ASSUME m < Len(q) PROVE f[m] = q[m + 1]
  <2>1. k < Len(q) /\ m \in 1 .. Len(q) /\ m # Len(q)
    BY <1>1, <1>8, <1>12
  <2>2. f[k] = q[m]
    BY <1>8, <1>9, <2>1
  <2> QED BY <1>3, <1>10, <2>1, <2>2
<1> QED BY <1>6, <1>11, <1>12

\* ... and meets all of it.
LEMMA FollowCircle ==
    ASSUME NEW S \in SUBSET Node, NEW h, Circle(links, S, h)
    PROVE  Follow(h) = S
<1>1. PICK q \in Seq(S) : Ring(links, q) /\ q # << >> /\ q[1] = h /\ Covers(q, S)
  BY DEF Circle
<1>2. IsFiniteSet(Node)
  BY PreemptionAssumption, FS_AddElement DEF Node
<1>3. PICK n \in Nat : n = Cardinality(Node)
  BY <1>2, FS_CardinalityType
<1>4. PICK f : f = CHOOSE g : Walk(g, n, links, h)
  OBVIOUS
<1>5. Walk(f, n, links, h)
  BY <1>4, WalkExists
<1>6. Follow(h) = {f[k] : k \in 0 .. n}
  <2>1. Follow(h) = {f[k] : k \in DOMAIN f}
    BY <1>3, <1>4 DEF Follow, Walk
  <2>2. DOMAIN f = 0 .. n
    BY <1>5 DEF Walk
  <2> QED BY <2>1, <2>2
<1>7. Len(q) \in Nat /\ Len(q) >= 1 /\ \A i \in 1 .. Len(q) : q[i] \in S
  BY <1>1
<1>8. Len(q) <= n
  <2>1. PICK c \in Nat : c = Len(q)
    BY <1>7
  <2>2. q \in [1 .. c -> Node]
    BY <1>7, <2>1
  <2>3. q \in Injection(1 .. c, Node)
    BY <1>1, <2>1, <2>2 DEF Injection, IsInjective, Ring, NoRepeat
  <2>4. Cardinality(1 .. c) <= Cardinality(Node)
    BY <1>2, <2>3, FS_Injection
  <2>5. 1 \in Int /\ c \in Int
    OBVIOUS
  <2>6. Cardinality(1 .. c) = IF 1 > c THEN 0 ELSE c - 1 + 1
    BY <2>5, FS_Interval
  <2> QED BY <1>3, <1>7, <2>1, <2>4, <2>6
<1>9. \A k \in 0 .. n : /\ \E i \in 1 .. Len(q) : f[k] = q[i]
                        /\ k < Len(q) => f[k] = q[k + 1]
  BY <1>1, <1>5, WalkRing
<1>10. ASSUME NEW x \in S PROVE x \in Follow(h)
  <2>1. PICK i \in 1 .. Len(q) : q[i] = x
    BY <1>1 DEF Covers
  <2>2. PICK k \in Nat : k + 1 = i
    BY <1>7, <2>1
  <2>3. k \in 0 .. n /\ k < Len(q)
    BY <1>7, <1>8, <2>1, <2>2
  <2>4. f[k] = x
    BY <1>9, <2>1, <2>2, <2>3
  <2> QED BY <1>6, <2>3, <2>4
<1>11. ASSUME NEW x \in Follow(h) PROVE x \in S
  BY <1>6, <1>7, <1>9, <1>11
<1> QED BY <1>10, <1>11

-----------------------------------------------------------------------------
(* Facts of a state of Running.                                             *)

LEMMA PointType ==
    ASSUME Left
    PROVE  \A t \in Threads : Point[t] \in ThreadCode
BY DEF Left

\* What lock_realse has in hand.
LEMMA PassingIs ==
    ASSUME Locals, Stacked
    PROVE  Passing = IF Point[cpu] \in {"rel_tail", "rel_add"} THEN {loc[cpu].tmp} ELSE {}
<1>1. cpu \in Threads
  BY DEF Stacked
<1>2. CASE Point[cpu] \in {"rel_tail", "rel_add"}
  <2>1. loc[cpu].tmp \in Threads
    BY <1>1, <1>2 DEF Locals
  <2>2. \A t \in Threads \ {cpu} : loc[t].tmp = NULL
    BY DEF Locals
  <2>3. loc[cpu].tmp # NULL
    BY <2>1, PreemptionAssumption DEF Node
  <2> QED BY <1>1, <1>2, <2>2, <2>3 DEF Passing
<1>3. CASE Point[cpu] \notin {"rel_tail", "rel_add"}
  <2>1. \A t \in Threads : loc[t].tmp = NULL
    BY <1>3 DEF Locals
  <2> QED BY <1>3, <2>1 DEF Passing
<1> QED BY <1>2, <1>3

\* While timer_handler or yield_thread looks at the ready list there are two
\* threads on it: the interrupted one and another, or init_struct and the one
\* that holds the lock.
LEMMA TwoAreReady ==
    ASSUME Stacked, Left, Locked, Chosen, NEW W \in SUBSET Threads, Listed(W),
           pc \in {"t_next", "t_del", "y_next", "y_del"}
    PROVE  Rest(W) # {READY_THREAD}
<1>1. Rest(W) = Threads \ W
  BY DEF Rest, Off
<1>2. CASE pc \in {"t_next", "t_del"}
  <2>1. Point[cpu] \in Parked
    BY <1>2 DEF Left, Switching
  <2>2. cpu \notin W
    BY <1>2, <2>1 DEF Listed, Members, Parked, Yielding, YieldCode
  <2>3. cpu \in Threads /\ READY_THREAD # cpu
    BY <1>2 DEF Stacked, Chosen
  <2> QED BY <1>1, <2>2, <2>3
<1>3. CASE pc \in {"y_next", "y_del"}
  <2>1. value = -1
    BY <1>3 DEF Locked
  <2>2. PICK h \in Threads : holds = {h}
    BY <2>1 DEF Locked
  <2>3. h # init_struct
    BY <2>2 DEF Locked
  <2>4. init_struct \notin W
    BY DEF Left, Listed, Members, Yielding
  <2>5. h \notin W
    BY <2>2 DEF Locked, Listed, Members
  <2> QED BY <1>1, <2>3, <2>4, <2>5, PreemptionAssumption
<1> QED BY <1>2, <1>3

-----------------------------------------------------------------------------
(* A step of timer_handler or of yield_thread.                              *)

LEMMA HandlerStep ==
    ASSUME TypeOK, Stacked, Left, Locked, Locals,
           pc \in TimerCode \cup YieldCode, pc' \in TimerCode \cup YieldCode,
           UNCHANGED <<machine, client>>, current_thread' \in Threads,
           pc' \notin Loads => current_thread' = cpu,
           Switching' => Switching, pc' \in YieldCode <=> pc \in YieldCode,
           pc' \in {"y_pick", "y_next", "y_del"} => pc \in {"y_pick", "y_next", "y_del"},
           Point[cpu] \in Releasing => UNCHANGED <<links, READY_LIST>>
    PROVE  Point' = Point /\ Passing' = Passing /\ Stacked' /\ Left' /\ Locked' /\ Locals'
<1>1. pc \notin ThreadCode /\ pc' \notin ThreadCode
  BY DEF TimerCode, YieldCode, ThreadCode
<1>2. UNCHANGED <<esp, stk, cpu, value, holds, loc>>
  BY DEF machine, client
<1>3. Point' = Point
  BY <1>1, <1>2 DEF Point
<1>4. Passing' = Passing
  BY <1>2 DEF Passing
<1>5. Stacked'
  BY <1>1, <1>2 DEF Stacked, Saved
<1>6. Left'
  BY <1>2, <1>3 DEF Left
<1>7. Locked'
  BY <1>2, <1>3 DEF Locked
<1>8. Locals'
  <2>1. SUFFICES ASSUME NEW t \in Threads
                 PROVE  IF t = cpu /\ Point[t] \in {"rel_tail", "rel_add"}
                        THEN /\ loc[t].tmp \in Threads \ {cpu}
                             /\ Point[loc[t].tmp] = "acq_test"
                             /\ Point[t] = "rel_add" => loc[t].tail = links'.prev[READY_LIST']
                        ELSE loc[t].tmp = NULL
    BY <1>2, <1>3 DEF Locals
  <2>2. CASE t = cpu /\ Point[t] \in {"rel_tail", "rel_add"}
    BY <2>2 DEF Locals, Releasing
  <2>3. CASE ~(t = cpu /\ Point[t] \in {"rel_tail", "rel_add"})
    BY <2>3 DEF Locals
  <2> QED BY <2>2, <2>3
<1> QED BY <1>3, <1>4, <1>5, <1>6, <1>7, <1>8

\* ticks++; the slice ends only where irq00 has let it.
LEMMA TimerCount ==
    ASSUME TypeOK, ~wild, Running, timer_count
    PROVE  TypeOK' /\ ~wild' /\ Running'
<1>1. PICK W \in SUBSET Threads : Listed(W)
  BY DEF Running
<1>2. /\ pc = "t_count" /\ ticks' = (ticks + 1) % SLICE
      /\ pc' = IF ticks' = 0 /\ READY_LIST # NULL THEN "t_add" ELSE "t_load"
      /\ UNCHANGED <<links, READY_LIST, READY_THREAD, current_thread, machine, client, wild>>
      /\ UNCHANGED <<esp, stk, cpu, value, holds, loc>>
  BY DEF timer_count, At, Goto, lists, machine, client
<1>3. TypeOK'
  <2>1. ticks' \in 0 .. SLICE - 1
    BY <1>2, PreemptionAssumption DEF TypeOK
  <2> QED BY <1>2, <2>1 DEF TypeOK, Statements
<1>4. current_thread = cpu /\ cpu \in Threads
  BY <1>2 DEF Running, Stacked, Loads
<1>5. Switching' => Switching
  BY <1>2, <1>4 DEF Switching
<1>6. Point' = Point /\ Passing' = Passing /\ Stacked' /\ Left' /\ Locked' /\ Locals'
  BY <1>2, <1>4, <1>5, HandlerStep DEF Running, TimerCode, YieldCode, Loads
<1>7. Off(W)' = Off(W) /\ Rest(W)' = Rest(W)
  BY <1>2, <1>6 DEF Off, Rest
<1>8. Rings(W)'
  BY <1>1, <1>2, <1>7 DEF Listed, Rings
<1>9. Members(W)'
  BY <1>1, <1>2, <1>4, <1>6 DEF Listed, Members, YieldCode, Loads
<1>10. Heard(W)'
  BY <1>1, <1>2, <1>6 DEF Listed, Heard
<1>11. Chosen' /\ READY_LIST' \in Threads
  BY <1>2 DEF Running, Chosen
<1> QED BY <1>2, <1>3, <1>6, <1>8, <1>9, <1>10, <1>11 DEF Running, Listed

\* The interrupted thread goes from no list to the end of the ready list.
LEMMA TimerAdd ==
    ASSUME TypeOK, ~wild, Running, timer_add
    PROVE  TypeOK' /\ ~wild' /\ Running'
<1>1. PICK W \in SUBSET Threads : Listed(W)
  BY DEF Running
<1>2. /\ pc = "t_add" /\ pc' = "t_pick"
      /\ links' = list_add_tail(links, current_thread, links.prev[READY_LIST])
      /\ UNCHANGED <<READY_LIST, READY_THREAD, current_thread, ticks, machine, client, wild>>
      /\ UNCHANGED <<esp, stk, cpu, value, holds, loc>>
  BY DEF timer_add, At, Goto, machine, client
<1>3. current_thread = cpu /\ cpu \in Threads
  BY <1>2 DEF Running, Stacked, Loads
<1>4. Point[cpu] \in Parked
  BY <1>2 DEF Running, Left, Switching
<1>5. cpu \notin W
  BY <1>1, <1>2, <1>4 DEF Listed, Members, Parked, Yielding, YieldCode
<1>6. Point' = Point /\ Passing' = Passing /\ Stacked' /\ Left' /\ Locked' /\ Locals'
  BY <1>2, <1>3, <1>4, HandlerStep
     DEF Running, TimerCode, YieldCode, Loads, Switching, Parked, Releasing
<1>7. Passing = {}
  BY <1>4, PassingIs DEF Running, Parked
<1>8. /\ Off(W) = {cpu} /\ Rest(W) = Threads \ (W \cup {cpu})
      /\ Off(W)' = {} /\ Rest(W)' = Threads \ W
  BY <1>2, <1>3, <1>5, <1>7 DEF Off, Rest
<1>9. /\ links' \in Links(Node) /\ Circle(links', Rest(W) \cup {cpu}, READY_LIST)
      /\ \A x \in Node : x # cpu /\ x \notin Rest(W) => SameLinks(links, links', x)
  <2>1. /\ links \in Links(Node) /\ Rest(W) \in SUBSET Node /\ cpu \in Node
        /\ cpu \notin Rest(W) /\ Circle(links, Rest(W), READY_LIST)
    BY <1>1, <1>2, <1>3, <1>8 DEF TypeOK, Node, Listed, Rings
  <2>2. /\ list_add_tail(links, cpu, links.prev[READY_LIST]) \in Links(Node)
        /\ Circle(list_add_tail(links, cpu, links.prev[READY_LIST]),
                  Rest(W) \cup {cpu}, READY_LIST)
        /\ \A x \in Node : x # cpu /\ x \notin Rest(W) =>
              SameLinks(links, list_add_tail(links, cpu, links.prev[READY_LIST]), x)
    BY <2>1, CircleAdd, Zenon
  <2> QED BY <1>2, <1>3, <2>2
<1>10. TypeOK'
  BY <1>2, <1>9 DEF TypeOK, Statements
<1>11. Rings(W)'
  <2>1. \A x \in W \cup {LOCK} : SameLinks(links, links', x)
    BY <1>3, <1>5, <1>8, <1>9, PreemptionAssumption DEF Node
  <2>2. Circle(links', W \cup {LOCK}, LOCK)
    BY <1>1, <2>1, CircleFrame DEF Listed, Rings
  <2>3. Rest(W) \cup {cpu} = Threads \ W
    BY <1>3, <1>5, <1>8
  <2> QED BY <1>2, <1>8, <1>9, <2>2, <2>3 DEF Rings
<1>12. Members(W)' /\ Heard(W)'
  BY <1>1, <1>2, <1>6 DEF Listed, Members, Heard, YieldCode, Loads
<1>13. Chosen' /\ READY_LIST' \in Threads
  <2>1. READY_LIST \in Rest(W)
    BY <1>1, <1>2, CircleHead DEF Listed, Rings
  <2> QED BY <1>2, <1>8, <2>1 DEF Running, Chosen
<1> QED BY <1>2, <1>6, <1>10, <1>11, <1>12, <1>13 DEF Running, Listed

\* READY_THREAD is the first thread of the ready list, not the one that runs.
LEMMA Pick ==
    ASSUME TypeOK, ~wild, Running,
           pick("t_pick", "t_next") \/ pick("y_pick", "y_next")
    PROVE  TypeOK' /\ ~wild' /\ Running'
<1>1. PICK W \in SUBSET Threads : Listed(W)
  BY DEF Running
<1>2. /\ (pc = "t_pick" /\ pc' = "t_next") \/ (pc = "y_pick" /\ pc' = "y_next")
      /\ READY_THREAD' = READY_LIST
      /\ UNCHANGED <<links, READY_LIST, current_thread, ticks, machine, client, wild>>
      /\ UNCHANGED <<esp, stk, cpu, value, holds, loc>>
  BY DEF pick, At, Goto, machine, client
<1>3. TypeOK'
  BY <1>2 DEF TypeOK, Statements
<1>4. current_thread = cpu /\ cpu \in Threads
  BY <1>2 DEF Running, Stacked, Loads
<1>5. Switching' => Switching
  BY <1>2 DEF Switching
<1>6. Point' = Point /\ Passing' = Passing /\ Stacked' /\ Left' /\ Locked' /\ Locals'
  BY <1>2, <1>4, <1>5, HandlerStep DEF Running, TimerCode, YieldCode, Loads
<1>7. Off(W)' = Off(W) /\ Rest(W)' = Rest(W)
  BY <1>2 DEF Off, Rest
<1>8. Rings(W)'
  BY <1>1, <1>2, <1>7 DEF Listed, Rings
<1>9. Members(W)' /\ Heard(W)'
  BY <1>1, <1>2, <1>6 DEF Listed, Members, Heard, YieldCode, Loads
<1>10. Chosen' /\ READY_LIST' \in Threads
  BY <1>2 DEF Running, Chosen
<1> QED BY <1>2, <1>3, <1>6, <1>8, <1>9, <1>10 DEF Running, Listed

\* READY_LIST moves on to another thread of the ring.
LEMMA Advance ==
    ASSUME TypeOK, ~wild, Running,
           advance("t_next", "t_del") \/ advance("y_next", "y_del")
    PROVE  TypeOK' /\ ~wild' /\ Running'
<1>1. PICK W \in SUBSET Threads : Listed(W)
  BY DEF Running
<1>2. /\ (pc = "t_next" /\ pc' = "t_del") \/ (pc = "y_next" /\ pc' = "y_del")
      /\ READY_LIST' = links.next[READY_LIST]
      /\ UNCHANGED <<links, READY_THREAD, current_thread, ticks, machine, client, wild>>
      /\ UNCHANGED <<esp, stk, cpu, value, holds, loc>>
  BY DEF advance, At, Goto, machine, client
<1>3. current_thread = cpu /\ cpu \in Threads /\ READY_THREAD = READY_LIST
  BY <1>2 DEF Running, Stacked, Loads, Chosen
<1>4. links.next[READY_LIST] \in Rest(W)
  <2>1. Rest(W) # {READY_LIST}
    BY <1>1, <1>2, <1>3, TwoAreReady DEF Running
  <2>2. /\ links \in Links(Node) /\ Rest(W) \in SUBSET Node
        /\ Circle(links, Rest(W), READY_LIST)
    BY <1>1, <1>2 DEF TypeOK, Node, Listed, Rings, Rest
  <2> QED BY <2>1, <2>2, CircleDelHead
<1>5. READY_LIST' \in Threads
  BY <1>2, <1>4 DEF Rest
<1>6. TypeOK'
  BY <1>2, <1>5 DEF TypeOK, Statements, Node
<1>7. Switching' => Switching
  BY <1>2 DEF Switching
<1>8. Point[cpu] \notin Releasing
  BY <1>2 DEF Running, Left, Switching, YieldCode, Parked, Releasing
<1>9. Point' = Point /\ Passing' = Passing /\ Stacked' /\ Left' /\ Locked' /\ Locals'
  BY <1>2, <1>3, <1>7, <1>8, HandlerStep DEF Running, TimerCode, YieldCode, Loads
<1>10. Off(W)' = Off(W) /\ Rest(W)' = Rest(W)
  BY <1>2 DEF Off, Rest
<1>11. Rings(W)'
  BY <1>1, <1>2, <1>3, <1>10 DEF Listed, Rings
<1>12. Members(W)' /\ Heard(W)'
  BY <1>1, <1>2, <1>9 DEF Listed, Members, Heard, YieldCode, Loads
<1>13. Chosen'
  BY <1>2, <1>3 DEF Running, Chosen
<1> QED BY <1>2, <1>5, <1>6, <1>9, <1>11, <1>12, <1>13 DEF Running, Listed

\* READY_THREAD leaves the ring, READY_LIST stays in it.
LEMMA Unlink ==
    ASSUME TypeOK, ~wild, Running,
           unlink("t_del", "t_current") \/ unlink("y_del", "y_current")
    PROVE  TypeOK' /\ ~wild' /\ Running'
<1>1. PICK W \in SUBSET Threads : Listed(W)
  BY DEF Running
<1>2. /\ (pc = "t_del" /\ pc' = "t_current") \/ (pc = "y_del" /\ pc' = "y_current")
      /\ links' = list_del(links, READY_THREAD)
      /\ UNCHANGED <<READY_LIST, READY_THREAD, current_thread, ticks, machine, client, wild>>
      /\ UNCHANGED <<esp, stk, cpu, value, holds, loc>>
  BY DEF unlink, At, Goto, machine, client
<1>3. /\ current_thread = cpu /\ cpu \in Threads /\ READY_THREAD # cpu
      /\ READY_LIST = links.next[READY_THREAD]
  BY <1>2 DEF Running, Stacked, Loads, Chosen
<1>4. Off(W) = {} /\ Rest(W) = Threads \ W
  BY <1>2 DEF Off, Rest
<1>5. /\ links \in Links(Node) /\ Rest(W) \in SUBSET Node
      /\ Circle(links, Rest(W), READY_THREAD)
  BY <1>1, <1>2, <1>4 DEF TypeOK, Node, Listed, Rings
<1>6. READY_THREAD \in Rest(W)
  BY <1>5, CircleHead
<1>7. /\ links' \in Links(Node) /\ Circle(links', Rest(W) \ {READY_THREAD}, READY_LIST)
      /\ \A x \in Node \ Rest(W) : SameLinks(links, links', x)
  <2>1. Rest(W) # {READY_THREAD}
    BY <1>1, <1>2, TwoAreReady DEF Running
  <2>2. /\ list_del(links, READY_THREAD) \in Links(Node)
        /\ Circle(list_del(links, READY_THREAD), Rest(W) \ {READY_THREAD},
                  links.next[READY_THREAD])
        /\ \A x \in Node \ Rest(W) : SameLinks(links, list_del(links, READY_THREAD), x)
    BY <1>5, <2>1, CircleDelHead, Zenon
  <2> QED BY <1>2, <1>3, <2>2
<1>8. TypeOK'
  BY <1>2, <1>7 DEF TypeOK, Statements
<1>9. Switching' => Switching
  BY <1>2 DEF Switching
<1>10. Point[cpu] \notin Releasing
  BY <1>2 DEF Running, Left, Switching, YieldCode, Parked, Releasing
<1>11. Point' = Point /\ Passing' = Passing /\ Stacked' /\ Left' /\ Locked' /\ Locals'
  BY <1>2, <1>3, <1>9, <1>10, HandlerStep DEF Running, TimerCode, YieldCode, Loads
<1>12. Off(W)' = {READY_THREAD} /\ Rest(W)' = Rest(W) \ {READY_THREAD}
  BY <1>2, <1>4 DEF Off, Rest
<1>13. Rings(W)'
  <2>1. \A x \in W \cup {LOCK} : SameLinks(links, links', x)
    BY <1>4, <1>7, PreemptionAssumption DEF Node
  <2>2. Circle(links', W \cup {LOCK}, LOCK)
    BY <1>1, <2>1, CircleFrame DEF Listed, Rings
  <2>3. {READY_THREAD} \subseteq Threads \ W
    BY <1>4, <1>6
  <2> QED BY <1>2, <1>7, <1>12, <2>2, <2>3 DEF Rings
<1>14. Members(W)' /\ Heard(W)'
  BY <1>1, <1>2, <1>11 DEF Listed, Members, Heard, YieldCode, Loads
<1>15. Chosen' /\ READY_LIST' \in Threads
  BY <1>2, <1>3 DEF Running, Chosen
<1> QED BY <1>2, <1>8, <1>11, <1>13, <1>14, <1>15 DEF Running, Listed

\* From here to the load current_thread is not the thread whose stack is in use.
LEMMA MakeCurrent ==
    ASSUME TypeOK, ~wild, Running,
           make_current("t_current", "t_load") \/ make_current("y_current", "y_load")
    PROVE  TypeOK' /\ ~wild' /\ Running'
<1>1. PICK W \in SUBSET Threads : Listed(W)
  BY DEF Running
<1>2. /\ (pc = "t_current" /\ pc' = "t_load") \/ (pc = "y_current" /\ pc' = "y_load")
      /\ current_thread' = READY_THREAD
      /\ UNCHANGED <<links, READY_LIST, READY_THREAD, ticks, machine, client, wild>>
      /\ UNCHANGED <<esp, stk, cpu, value, holds, loc>>
  BY DEF make_current, At, Goto, machine, client, lists
<1>3. Off(W) = {READY_THREAD} /\ READY_THREAD \in Threads \ W
  BY <1>1, <1>2 DEF Off, Listed, Rings
<1>4. TypeOK'
  BY <1>2, <1>3 DEF TypeOK, Statements, Node
<1>5. Switching' => Switching
  BY <1>2 DEF Switching
<1>6. Point' = Point /\ Passing' = Passing /\ Stacked' /\ Left' /\ Locked' /\ Locals'
  BY <1>2, <1>3, <1>5, HandlerStep DEF Running, TimerCode, YieldCode, Loads
<1>7. Passing = {}
  <2>1. Point[cpu] \notin {"rel_tail", "rel_add"}
    BY <1>2 DEF Running, Left, Switching, YieldCode, Parked
  <2> QED BY <2>1, PassingIs DEF Running
<1>8. Off(W)' = Off(W) /\ Rest(W)' = Rest(W)
  BY <1>2, <1>3, <1>6, <1>7 DEF Off, Rest
<1>9. Rings(W)'
  BY <1>1, <1>2, <1>8 DEF Listed, Rings
<1>10. Members(W)' /\ Heard(W)'
  BY <1>1, <1>2, <1>3, <1>6 DEF Listed, Members, Heard, YieldCode, Loads
<1>11. Chosen' /\ READY_LIST' \in Threads
  BY <1>2 DEF Running, Chosen
<1> QED BY <1>2, <1>4, <1>6, <1>9, <1>10, <1>11 DEF Running, Listed

-----------------------------------------------------------------------------
(* Contexts saved and loaded.                                               *)

\* The end of irq00_handler and of yield.
LEMMA Resume ==
    ASSUME TypeOK, ~wild, Running, resume("t_load") \/ resume("y_load")
    PROVE  TypeOK' /\ ~wild' /\ Running'
<1>1. PICK W \in SUBSET Threads : Listed(W)
  BY DEF Running
<1>2. /\ pc \in Loads /\ load(current_thread)
      /\ UNCHANGED <<links, READY_LIST, READY_THREAD, current_thread, ticks>>
      /\ UNCHANGED <<value, holds, loc>>
  BY DEF resume, At, Loads, lists, client
<1>3. /\ cpu \in Threads /\ current_thread \in Threads
      /\ \A t \in Threads : Saved(t, t)
  BY <1>2 DEF Running, Stacked, Loads, ThreadCode
<1>4. /\ esp[current_thread] = [stack |-> current_thread, depth |-> 1]
      /\ Len(stk[current_thread]) = 1 /\ current_thread \in DOMAIN esp
      /\ current_thread \in Stacks /\ stk[current_thread] \in Seq(Statements)
  BY <1>3 DEF Saved, TypeOK, Stacks
<1>5. /\ cpu' = current_thread /\ pc' = stk[current_thread][1]
      /\ stk' = [stk EXCEPT ![current_thread] = << >>] /\ UNCHANGED <<esp, wild>>
  <2>1. /\ cpu' = current_thread /\ pc' = stk[current_thread][1]
        /\ stk' = [stk EXCEPT ![current_thread] = SubSeq(@, 1, 1 - 1)]
        /\ UNCHANGED <<esp, wild>>
    BY <1>2, <1>4 DEF load
  <2>2. SubSeq(stk[current_thread], 1, 1 - 1) = << >>
    BY <1>4
  <2> QED BY <2>1, <2>2
<1>6. Point = [t \in Threads |-> stk[t][1]]
  BY <1>2 DEF Point, Loads, ThreadCode
<1>7. pc' \in ThreadCode /\ pc' = Point[current_thread]
  BY <1>3, <1>5, <1>6, PointType DEF Running
<1>8. Point' = Point
  <2>1. \A t \in Threads : Point'[t] = Point[t]
    BY <1>3, <1>5, <1>6, <1>7 DEF Point, TypeOK, Stacks
  <2> QED BY <1>6, <2>1 DEF Point
<1>9. Passing' = Passing
  BY <1>2 DEF Passing
<1>10. TypeOK'
  BY <1>2, <1>3, <1>4, <1>5, <1>7 DEF TypeOK, Statements, Stacks
<1>11. Stacked'
  <2>1. \A t \in Threads \ {cpu'} : Saved(t, t)'
    BY <1>3, <1>5 DEF Saved, TypeOK, Stacks
  <2>2. stk'[cpu'] = << >>
    BY <1>4, <1>5 DEF TypeOK
  <2> QED BY <1>2, <1>3, <1>5, <1>7, <2>1, <2>2 DEF Stacked, Loads, ThreadCode
<1>12. current_thread = cpu \/ Point[cpu] \in Parked
  BY <1>2 DEF Running, Left, Switching, Loads, YieldCode, Parked
<1>13. \A t \in Threads \ {current_thread} : Point[t] \in Parked
  BY <1>12 DEF Running, Left
<1>14. Left'
  <2>1. ~Switching' /\ pc' \notin YieldCode
    BY <1>7 DEF Switching, ThreadCode, YieldCode
  <2> QED BY <1>5, <1>8, <1>13, <2>1 DEF Running, Left
<1>15. Point[current_thread] = Point[cpu]
        \/ (Point[cpu] \in Parked /\ Point[current_thread] \in Parked)
  BY <1>3, <1>12 DEF Running, Left
<1>16. Locked'
  <2>1. pc' \notin {"y_pick", "y_next", "y_del"}
    BY <1>7 DEF ThreadCode
  <2> QED BY <1>2, <1>5, <1>8, <1>15, <2>1 DEF Running, Locked, Parked, Yielding, Releasing
<1>17. Locals'
  <2>1. SUFFICES ASSUME NEW t \in Threads
                 PROVE  IF t = current_thread /\ Point[t] \in {"rel_tail", "rel_add"}
                        THEN /\ loc[t].tmp \in Threads \ {current_thread}
                             /\ Point[loc[t].tmp] = "acq_test"
                             /\ Point[t] = "rel_add" => loc[t].tail = links.prev[READY_LIST]
                        ELSE loc[t].tmp = NULL
    BY <1>2, <1>5, <1>8 DEF Locals
  <2>2. CASE current_thread = cpu
    BY <2>2 DEF Running, Locals
  <2>3. CASE current_thread # cpu
    <3>1. Point[cpu] \in Parked /\ Point[current_thread] \in Parked
      BY <1>3, <1>12, <2>3 DEF Running, Left
    <3>2. loc[t].tmp = NULL
      BY <3>1 DEF Running, Locals, Parked
    <3> QED BY <3>1, <3>2 DEF Parked
  <2> QED BY <2>2, <2>3
<1>18. Off(W)' = Off(W) /\ Rest(W)' = Rest(W)
  BY <1>2, <1>7, <1>9 DEF Off, Rest, Loads, ThreadCode
<1>19. Rings(W)'
  BY <1>1, <1>2, <1>7, <1>18 DEF Listed, Rings, Loads, ThreadCode
<1>20. Members(W)'
  <2>1. current_thread \in W <=> Point[current_thread] \in Yielding
    <3>1. CASE pc = "t_load" /\ current_thread = cpu
      BY <1>1, <3>1 DEF Listed, Members, YieldCode
    <3>2. CASE ~(pc = "t_load" /\ current_thread = cpu)
      <4>1. current_thread \notin W
        BY <1>1, <1>2, <3>2 DEF Listed, Members
      <4>2. current_thread # cpu
        BY <1>1, <1>2, <3>2, <4>1 DEF Listed, Members, Loads, YieldCode
      <4>3. Point[current_thread] \in Parked
        BY <1>3, <4>2 DEF Running, Left
      <4> QED BY <4>1, <4>3 DEF Parked, Yielding
    <3> QED BY <3>1, <3>2
  <2>2. pc' \notin YieldCode /\ pc' \notin Loads
    BY <1>7 DEF ThreadCode, YieldCode, Loads
  <2>3. Point[current_thread] = "rel_del" => W # {}
    BY <1>1, <1>15 DEF Listed, Members, Parked
  <2> QED BY <1>1, <1>5, <1>8, <2>1, <2>2, <2>3 DEF Listed, Members
<1>21. Heard(W)'
  BY <1>1, <1>2, <1>5, <1>8, <1>15 DEF Listed, Heard, Parked, Releasing
<1>22. Chosen' /\ READY_LIST' \in Threads
  BY <1>2, <1>7 DEF Running, Chosen, ThreadCode
<1> QED BY <1>5, <1>10, <1>11, <1>14, <1>16, <1>17, <1>19, <1>20, <1>21, <1>22
        DEF Running, Listed

\* A tick: in the thread's own code, or one that does not end a slice.
LEMMA Irq00 ==
    ASSUME Confined, TypeOK, ~wild, Running, irq00
    PROVE  TypeOK' /\ ~wild' /\ Running'
<1>1. PICK W \in SUBSET Threads : Listed(W)
  BY DEF Running
<1>2. /\ save(pc) /\ pc' = "t_count"
      /\ UNCHANGED <<links, READY_LIST, READY_THREAD, current_thread, ticks, cpu, wild>>
      /\ UNCHANGED <<value, holds, loc>>
  BY DEF irq00, Goto, lists, client
<1>3. READY_LIST # NULL
  BY PreemptionAssumption DEF Running, Node
<1>4. /\ Window(pc) \in {"own", "acquire", "enqueued", "release"}
      /\ (ticks + 1) % SLICE = 0 => Window(pc) = "own"
  BY <1>3 DEF irq00, Confined
<1>5. pc \in ThreadCode
  BY <1>4 DEF Running, Stacked, Window, TimerCode, YieldCode
<1>6. (ticks + 1) % SLICE = 0 => pc \in Parked
  BY <1>4, <1>5 DEF Window, ThreadCode, Parked
<1>7. current_thread = cpu /\ cpu \in Threads /\ stk[cpu] = << >>
  BY <1>5 DEF Running, Stacked, Loads, ThreadCode
<1>8. /\ stk' = [stk EXCEPT ![cpu] = <<pc>>]
      /\ esp' = [esp EXCEPT ![cpu] = [stack |-> cpu, depth |-> 1]]
  <2>1. Append(stk[cpu], pc) = <<pc>> /\ Len(stk[cpu]) + 1 = 1
    BY <1>7
  <2> QED BY <1>2, <1>7, <2>1 DEF save
<1>9. stk \in [Stacks -> Seq(Statements)] /\ Threads \subseteq Stacks
  BY DEF TypeOK, Stacks
<1>10. Point' = Point /\ Point[cpu] = pc
  <2>1. \A t \in Threads : Point'[t] = Point[t]
    BY <1>2, <1>5, <1>7, <1>8, <1>9 DEF Point, ThreadCode
  <2> QED BY <1>5, <1>7, <2>1 DEF Point
<1>11. TypeOK'
  <2>1. stk' \in [Stacks -> Seq(Statements)]
    BY <1>8, <1>9 DEF TypeOK
  <2>2. esp' \in [Threads \cup {NULL} -> [stack : Stacks, depth : 0 .. MaxDepth]]
    BY <1>7, <1>8, <1>9, PreemptionAssumption DEF TypeOK
  <2> QED BY <1>2, <2>1, <2>2 DEF TypeOK, Statements
<1>12. Stacked'
  <2>1. \A t \in Threads : Saved(t, t)'
    BY <1>7, <1>8, <1>9 DEF Running, Stacked, Saved, TypeOK
  <2> QED BY <1>2, <1>7, <2>1 DEF Stacked, TimerCode, ThreadCode
<1>13. Left'
  <2>1. Switching' => Point[cpu] \in Parked
    BY <1>2, <1>6, <1>10 DEF Switching
  <2> QED BY <1>2, <1>10, <2>1 DEF Running, Left, YieldCode
<1>14. Locked' /\ Locals' /\ Passing' = Passing
  BY <1>2, <1>10 DEF Running, Locked, Locals, Passing
<1>15. Off(W)' = Off(W) /\ Rest(W)' = Rest(W)
  BY <1>2, <1>5, <1>14 DEF Off, Rest, ThreadCode
<1>16. Rings(W)'
  BY <1>1, <1>2, <1>5, <1>15 DEF Listed, Rings, ThreadCode
<1>17. Members(W)' /\ Heard(W)'
  BY <1>1, <1>2, <1>5, <1>10 DEF Listed, Members, Heard, YieldCode, Loads, ThreadCode
<1>18. Chosen' /\ READY_LIST' \in Threads
  BY <1>2 DEF Running, Chosen
<1> QED BY <1>2, <1>11, <1>12, <1>13, <1>14, <1>16, <1>17, <1>18 DEF Running, Listed

\* syscall_handler calls yield
LEMMA YieldSave ==
    ASSUME TypeOK, ~wild, Running, yield_save
    PROVE  TypeOK' /\ ~wild' /\ Running'
<1>1. PICK W \in SUBSET Threads : Listed(W)
  BY DEF Running
<1>2. /\ pc = "sys_yield" /\ save("acq_test") /\ pc' = "y_pick"
      /\ UNCHANGED <<links, READY_LIST, READY_THREAD, current_thread, ticks, cpu, wild>>
      /\ UNCHANGED <<value, holds, loc>>
  BY DEF yield_save, At, Goto, lists, client
<1>3. current_thread = cpu /\ cpu \in Threads /\ stk[cpu] = << >>
  BY <1>2 DEF Running, Stacked, Loads, ThreadCode
<1>4. /\ stk' = [stk EXCEPT ![cpu] = <<"acq_test">>]
      /\ esp' = [esp EXCEPT ![cpu] = [stack |-> cpu, depth |-> 1]]
  <2>1. Append(stk[cpu], "acq_test") = <<"acq_test">> /\ Len(stk[cpu]) + 1 = 1
    BY <1>3
  <2> QED BY <1>2, <1>3, <2>1 DEF save
<1>5. stk \in [Stacks -> Seq(Statements)] /\ Threads \subseteq Stacks
  BY DEF TypeOK, Stacks
<1>6. Point[cpu] = "sys_yield" /\ Point' = [Point EXCEPT ![cpu] = "acq_test"]
  <2>1. \A t \in Threads : Point'[t] = IF t = cpu THEN "acq_test" ELSE Point[t]
    BY <1>2, <1>3, <1>4, <1>5 DEF Point, ThreadCode
  <2> QED BY <1>2, <1>3, <2>1 DEF Point, ThreadCode
<1>7. cpu \in W /\ value = -1 /\ cpu # init_struct
  BY <1>1, <1>6 DEF Running, Listed, Members, Locked, Left, Yielding
<1>8. Passing = {} /\ Passing' = {}
  <2>1. Passing = {}
    BY <1>6, PassingIs DEF Running
  <2> QED BY <1>2, <2>1 DEF Passing
<1>9. TypeOK'
  <2>1. stk' \in [Stacks -> Seq(Statements)]
    BY <1>4, <1>5 DEF TypeOK, Statements, ThreadCode
  <2>2. esp' \in [Threads \cup {NULL} -> [stack : Stacks, depth : 0 .. MaxDepth]]
    BY <1>3, <1>4, <1>5, PreemptionAssumption DEF TypeOK
  <2> QED BY <1>2, <2>1, <2>2 DEF TypeOK, Statements
<1>10. Stacked'
  <2>1. \A t \in Threads : Saved(t, t)'
    BY <1>2, <1>3, <1>4, <1>5 DEF Running, Stacked, Saved, TypeOK
  <2> QED BY <1>2, <1>3, <2>1 DEF Stacked, YieldCode, ThreadCode
<1>11. Point \in [Threads -> ThreadCode]
  BY DEF Running, Left
<1>12. Left'
  <2>1. ~Switching'
    BY <1>2 DEF Switching
  <2> QED BY <1>2, <1>3, <1>6, <1>7, <1>11, <2>1 DEF Running, Left, ThreadCode
<1>13. Locked'
  BY <1>2, <1>3, <1>6, <1>7, <1>11 DEF Running, Locked, Yielding, Releasing
<1>14. Locals'
  BY <1>2, <1>3, <1>6, <1>11 DEF Running, Locals
<1>15. Off(W) = {} /\ Off(W)' = {} /\ Rest(W)' = Rest(W)
  BY <1>2, <1>3, <1>7, <1>8 DEF Off, Rest
<1>16. Rings(W)'
  BY <1>1, <1>2, <1>15 DEF Listed, Rings
<1>17. Members(W)'
  BY <1>1, <1>2, <1>3, <1>6, <1>7, <1>11 DEF Listed, Members, YieldCode, Loads, Yielding
<1>18. Heard(W)'
  BY <1>2, <1>7 DEF Heard
<1>19. Chosen' /\ READY_LIST' \in Threads
  <2>1. READY_LIST \in Rest(W)
    BY <1>1, <1>2, CircleHead DEF Listed, Rings
  <2>2. READY_LIST # cpu
    BY <1>7, <2>1 DEF Rest
  <2> QED BY <1>2, <2>2 DEF Running, Chosen
<1> QED BY <1>2, <1>9, <1>10, <1>12, <1>13, <1>14, <1>16, <1>17, <1>18, <1>19
        DEF Running, Listed

-----------------------------------------------------------------------------
(* A step of lock_acquire or lock_realse, from one statement to another.    *)

LEMMA ThreadStep ==
    ASSUME TypeOK, Stacked, Left, pc \in ThreadCode, pc' \in ThreadCode,
           UNCHANGED <<machine, current_thread>>, cpu # init_struct
    PROVE  /\ current_thread = cpu /\ cpu \in Threads /\ UNCHANGED <<esp, stk, cpu>>
           /\ Point \in [Threads -> ThreadCode] /\ Point[cpu] = pc
           /\ Point' = [Point EXCEPT ![cpu] = pc'] /\ Stacked' /\ Left'
<1>1. current_thread = cpu /\ cpu \in Threads /\ UNCHANGED <<esp, stk, cpu>>
  BY DEF Stacked, Loads, ThreadCode, machine
<1>2. Point \in [Threads -> ThreadCode] /\ Point[cpu] = pc
  BY <1>1 DEF Left, Point
<1>3. Point' = [Point EXCEPT ![cpu] = pc']
  <2>1. \A t \in Threads : Point'[t] = IF t = cpu THEN pc' ELSE Point[t]
    BY <1>1 DEF Point
  <2> QED BY <1>1, <2>1 DEF Point
<1>4. Stacked'
  BY <1>1 DEF Stacked, Saved
<1>5. Left'
  <2>1. ~Switching' /\ pc' \notin YieldCode
    BY DEF Switching, ThreadCode, YieldCode
  <2> QED BY <1>1, <1>2, <1>3, <2>1 DEF Left
<1> QED BY <1>1, <1>2, <1>3, <1>4, <1>5

LEMMA InCode ==
    ASSUME Running, pc \in ThreadCode
    PROVE  /\ current_thread = cpu /\ cpu \in Threads /\ Point[cpu] = pc
           /\ pc # "own" => cpu # init_struct
<1>1. current_thread = cpu /\ cpu \in Threads
  BY DEF Running, Stacked, Loads, ThreadCode
<1>2. Point[cpu] = pc
  BY <1>1 DEF Point
<1> QED BY <1>1, <1>2 DEF Running, Left

\* The parts that a step leaves alone when it leaves the lists alone.
LEMMA SameLists ==
    ASSUME pc \in ThreadCode, pc' \in ThreadCode, Chosen, READY_LIST \in Threads,
           UNCHANGED <<links, READY_LIST, READY_THREAD, current_thread>>,
           Passing' = Passing, NEW W \in SUBSET Threads, Rings(W)
    PROVE  Rings(W)' /\ Chosen' /\ READY_LIST' \in Threads
<1>1. Off(W)' = Off(W) /\ Rest(W)' = Rest(W)
  BY DEF Off, Rest, ThreadCode
<1>2. Rings(W)'
  BY <1>1 DEF Rings, ThreadCode
<1>3. Chosen' /\ READY_LIST' \in Threads
  BY DEF Chosen, ThreadCode
<1> QED BY <1>2, <1>3

\* lock_acquire's call, its test and its yield; lock_realse's call.
LEMMA Calls ==
    ASSUME TypeOK, ~wild, Running,
           call_acquire \/ acquire_test \/ thread_yield \/ call_realse
    PROVE  TypeOK' /\ ~wild' /\ Running'
<1>1. PICK W \in SUBSET Threads : Listed(W)
  BY DEF Running
<1>2. /\ \/ /\ pc = "own" /\ pc' = "acq_test"
            /\ current_thread \notin holds \cup {init_struct}
         \/ pc = "acq_test" /\ pc' = IF value < 0 THEN "acq_enqueue" ELSE "acq_take"
         \/ pc = "acq_yield" /\ pc' = "sys_yield"
         \/ pc = "own" /\ pc' = "rel_inc" /\ current_thread \in holds
      /\ UNCHANGED <<links, READY_LIST, READY_THREAD, current_thread, ticks, machine, wild>>
      /\ UNCHANGED <<esp, stk, cpu, value, holds, loc>>
  BY DEF call_acquire, acquire_test, thread_yield, call_realse, At, Goto, lists, machine, client
<1>3. pc \in ThreadCode /\ pc' \in ThreadCode
  BY <1>2 DEF ThreadCode
<1>4. current_thread = cpu /\ cpu \in Threads
  BY <1>3 DEF Running, Stacked, Loads, ThreadCode
<1>5. cpu # init_struct
  <2>1. Point[cpu] = pc
    BY <1>3, <1>4 DEF Point
  <2> QED BY <1>2, <1>4, <2>1 DEF Running, Left, Locked
<1>6. /\ Point \in [Threads -> ThreadCode] /\ Point[cpu] = pc
      /\ Point' = [Point EXCEPT ![cpu] = pc'] /\ Stacked' /\ Left'
  BY <1>2, <1>3, <1>5, ThreadStep DEF Running
<1>7. TypeOK'
  BY <1>2, <1>3 DEF TypeOK, Statements
<1>8. Locked'
  <2>1. pc' \notin {"y_pick", "y_next", "y_del"}
    BY <1>3 DEF ThreadCode
  <2>2. value = 0 \/ value = -1
    BY DEF Running, Locked
  <2> QED BY <1>2, <1>4, <1>6, <2>1, <2>2 DEF Running, Locked, Yielding, Releasing
<1>9. Locals' /\ Passing' = Passing
  BY <1>2, <1>4, <1>6 DEF Running, Locals, Passing
<1>10. Rings(W)' /\ Chosen' /\ READY_LIST' \in Threads
  BY <1>1, <1>2, <1>3, <1>9, SameLists DEF Running, Listed
<1>11. pc \notin YieldCode /\ pc' \notin YieldCode /\ pc' \notin Loads
  BY <1>3 DEF ThreadCode, YieldCode, Loads
<1>12. cpu \in W => pc = "acq_yield"
  BY <1>1, <1>2, <1>6, <1>11 DEF Listed, Members, Yielding
<1>13. Members(W)'
  BY <1>1, <1>2, <1>4, <1>6, <1>11, <1>12 DEF Listed, Members, Yielding
<1>14. Heard(W)'
  <2>1. SUFFICES ASSUME W # {}, value = 0
                 PROVE  Heard(W)'
    BY <1>2 DEF Heard
  <2>2. Point[cpu] \notin Releasing
    BY <1>2, <1>6 DEF Releasing
  <2>3. PICK t \in Threads \ W : Point[t] \in {"acq_test", "acq_take"}
    BY <1>1, <2>1, <2>2 DEF Listed, Heard
  <2>4. Point'[t] \in {"acq_test", "acq_take"}
    BY <1>2, <1>4, <1>6, <2>1, <2>3
  <2> QED BY <2>3, <2>4 DEF Heard
<1> QED BY <1>2, <1>6, <1>7, <1>8, <1>9, <1>10, <1>13, <1>14 DEF Running, Listed

\* lock->value--, after a test that is still true
LEMMA AcquireTake ==
    ASSUME TypeOK, ~wild, Running, acquire_take
    PROVE  TypeOK' /\ ~wild' /\ Running'
<1>1. PICK W \in SUBSET Threads : Listed(W)
  BY DEF Running
<1>2. /\ pc = "acq_take" /\ pc' = "own"
      /\ value' = value - 1 /\ holds' = holds \cup {current_thread}
      /\ UNCHANGED <<links, READY_LIST, READY_THREAD, current_thread, ticks, machine, wild>>
      /\ UNCHANGED <<esp, stk, cpu, loc>>
  BY DEF acquire_take, At, Goto, lists, machine
<1>3. pc \in ThreadCode /\ pc' \in ThreadCode
  BY <1>2 DEF ThreadCode
<1>4. current_thread = cpu /\ cpu \in Threads /\ cpu # init_struct /\ Point[cpu] = pc
  BY <1>2, <1>3, InCode
<1>5. /\ Point \in [Threads -> ThreadCode]
      /\ Point' = [Point EXCEPT ![cpu] = pc'] /\ Stacked' /\ Left'
  BY <1>2, <1>3, <1>4, ThreadStep DEF Running
<1>6. value = 0 /\ holds = {} /\ value' = -1 /\ holds' = {cpu}
  <2>1. value = 0
    BY <1>2, <1>4 DEF Running, Locked
  <2>2. holds = {}
    BY <2>1 DEF Running, Locked
  <2> QED BY <1>2, <1>4, <2>1, <2>2
<1>7. TypeOK'
  BY <1>2, <1>3, <1>4, <1>6 DEF TypeOK, Statements
<1>8. Locked'
  BY <1>2, <1>4, <1>5, <1>6 DEF Running, Locked, Yielding, Releasing
<1>9. Locals' /\ Passing' = Passing
  BY <1>2, <1>4, <1>5 DEF Running, Locals, Passing
<1>10. Rings(W)' /\ Chosen' /\ READY_LIST' \in Threads
  BY <1>1, <1>2, <1>3, <1>9, SameLists DEF Running, Listed
<1>11. cpu \notin W
  BY <1>1, <1>2, <1>4 DEF Listed, Members, Yielding, YieldCode
<1>12. Members(W)'
  BY <1>1, <1>2, <1>4, <1>5, <1>11 DEF Listed, Members, Yielding, YieldCode, Loads
<1>13. Heard(W)'
  BY <1>6 DEF Heard
<1> QED BY <1>2, <1>5, <1>7, <1>8, <1>9, <1>10, <1>12, <1>13 DEF Running, Listed

\* The thread goes from no list to the end of the lock's.
LEMMA AcquireEnqueue ==
    ASSUME TypeOK, ~wild, Running, acquire_enqueue
    PROVE  TypeOK' /\ ~wild' /\ Running'
<1>1. PICK W \in SUBSET Threads : Listed(W)
  BY DEF Running
<1>2. /\ pc = "acq_enqueue" /\ pc' = "acq_yield"
      /\ links' = list_add_tail(links, current_thread, links.prev[LOCK])
      /\ UNCHANGED <<READY_LIST, READY_THREAD, current_thread, ticks, machine, wild>>
      /\ UNCHANGED <<esp, stk, cpu, value, holds, loc>>
  BY DEF acquire_enqueue, At, Goto, machine, client
<1>3. pc \in ThreadCode /\ pc' \in ThreadCode
  BY <1>2 DEF ThreadCode
<1>4. current_thread = cpu /\ cpu \in Threads /\ cpu # init_struct /\ Point[cpu] = pc
  BY <1>2, <1>3, InCode
<1>5. /\ Point \in [Threads -> ThreadCode]
      /\ Point' = [Point EXCEPT ![cpu] = pc'] /\ Stacked' /\ Left'
  BY <1>2, <1>3, <1>4, ThreadStep DEF Running
<1>6. value = -1
  BY <1>2, <1>4 DEF Running, Locked
<1>7. cpu \notin W
  BY <1>1, <1>2, <1>4 DEF Listed, Members, Yielding, YieldCode
<1>8. Passing = {} /\ Passing' = {}
  <2>1. Passing = {}
    BY <1>2, <1>4, PassingIs DEF Running
  <2> QED BY <1>2, <2>1 DEF Passing
<1>9. PICK V \in SUBSET Threads : V = W \cup {cpu}
  BY <1>4
<1>10. Rest(W) = Threads \ V /\ Off(V)' = {} /\ Rest(V)' = Threads \ V
  BY <1>2, <1>4, <1>7, <1>8, <1>9 DEF Off, Rest
<1>11. /\ links' \in Links(Node) /\ Circle(links', (W \cup {LOCK}) \cup {cpu}, LOCK)
       /\ \A x \in Node : x # cpu /\ x \notin W \cup {LOCK} => SameLinks(links, links', x)
  <2>1. /\ links \in Links(Node) /\ W \cup {LOCK} \in SUBSET Node /\ cpu \in Node
        /\ cpu \notin W \cup {LOCK} /\ Circle(links, W \cup {LOCK}, LOCK)
    BY <1>1, <1>4, <1>7, PreemptionAssumption DEF TypeOK, Node, Listed, Rings
  <2>2. /\ list_add_tail(links, cpu, links.prev[LOCK]) \in Links(Node)
        /\ Circle(list_add_tail(links, cpu, links.prev[LOCK]), (W \cup {LOCK}) \cup {cpu}, LOCK)
        /\ \A x \in Node : x # cpu /\ x \notin W \cup {LOCK} =>
              SameLinks(links, list_add_tail(links, cpu, links.prev[LOCK]), x)
    BY <2>1, CircleAdd, Zenon
  <2> QED BY <1>2, <1>4, <2>2
<1>12. TypeOK'
  BY <1>2, <1>3, <1>11 DEF TypeOK, Statements
<1>13. Rings(V)'
  <2>1. Circle(links, Rest(W), READY_LIST)
    BY <1>1, <1>2 DEF Listed, Rings
  <2>2. \A x \in Rest(W) : SameLinks(links, links', x)
    BY <1>10, <1>11, <1>9, PreemptionAssumption DEF Node
  <2>3. Circle(links', Rest(W), READY_LIST)
    BY <2>1, <2>2, CircleFrame
  <2>4. (W \cup {LOCK}) \cup {cpu} = V \cup {LOCK}
    BY <1>9
  <2> QED BY <1>2, <1>10, <1>11, <2>3, <2>4 DEF Rings
<1>14. Locked' /\ Locals'
  BY <1>2, <1>4, <1>5, <1>6 DEF Running, Locked, Locals, Yielding, Releasing
<1>15. Members(V)'
  BY <1>1, <1>2, <1>4, <1>5, <1>7, <1>9 DEF Listed, Members, Yielding, YieldCode, Loads
<1>16. Heard(V)'
  BY <1>2, <1>6 DEF Heard
<1>17. Chosen' /\ READY_LIST' \in Threads
  BY <1>2 DEF Running, Chosen
<1> QED BY <1>2, <1>5, <1>12, <1>13, <1>14, <1>15, <1>16, <1>17 DEF Running, Listed

\* The one holder gives the lock back; a thread waits.
LEMMA RealseInc ==
    ASSUME Confined, TypeOK, ~wild, Running, realse_inc
    PROVE  TypeOK' /\ ~wild' /\ Running'
<1>1. PICK W \in SUBSET Threads : Listed(W)
  BY DEF Running
<1>2. /\ pc = "rel_inc" /\ links.next[LOCK] # LOCK
      /\ value' = value + 1 /\ holds' = holds \ {current_thread}
      /\ pc' = IF value + 1 >= 0 THEN "rel_del" ELSE "own"
      /\ UNCHANGED <<links, READY_LIST, READY_THREAD, current_thread, ticks, machine, wild>>
      /\ UNCHANGED <<esp, stk, cpu, loc>>
  BY DEF realse_inc, At, Goto, lists, machine, Confined
<1>3. pc \in ThreadCode /\ pc' \in ThreadCode
  BY <1>2 DEF ThreadCode
<1>4. current_thread = cpu /\ cpu \in Threads /\ cpu # init_struct /\ Point[cpu] = pc
  BY <1>2, <1>3, InCode
<1>5. /\ Point \in [Threads -> ThreadCode]
      /\ Point' = [Point EXCEPT ![cpu] = pc'] /\ Stacked' /\ Left'
  BY <1>2, <1>3, <1>4, ThreadStep DEF Running
<1>6. value = -1 /\ holds = {cpu} /\ value' = 0 /\ holds' = {} /\ pc' = "rel_del"
  <2>1. cpu \in holds
    BY <1>2, <1>4 DEF Running, Locked
  <2>2. value = -1 /\ holds = {cpu}
    BY <2>1 DEF Running, Locked
  <2> QED BY <1>2, <1>4, <2>2
<1>7. TypeOK'
  BY <1>2, <1>3, <1>6 DEF TypeOK, Statements
<1>8. Locked'
  BY <1>2, <1>4, <1>5, <1>6 DEF Running, Locked, Yielding, Releasing
<1>9. Locals' /\ Passing' = Passing
  BY <1>2, <1>4, <1>5, <1>6 DEF Running, Locals, Passing
<1>10. Rings(W)' /\ Chosen' /\ READY_LIST' \in Threads
  BY <1>1, <1>2, <1>3, <1>9, SameLists DEF Running, Listed
<1>11. W # {}
  <2>1. /\ links \in Links(Node) /\ W \cup {LOCK} \in SUBSET Node
        /\ Circle(links, W \cup {LOCK}, LOCK)
    BY <1>1 DEF TypeOK, Node, Listed, Rings
  <2>2. links.next[LOCK] \in (W \cup {LOCK}) \ {LOCK}
    BY <1>2, <2>1, CircleDelNext
  <2> QED BY <2>2
<1>12. Members(W)'
  BY <1>1, <1>2, <1>4, <1>5, <1>6, <1>11 DEF Listed, Members, Yielding, YieldCode, Loads
<1>13. Heard(W)'
  BY <1>2, <1>4, <1>5, <1>6 DEF Heard, Releasing
<1> QED BY <1>2, <1>5, <1>7, <1>8, <1>9, <1>10, <1>12, <1>13 DEF Running, Listed

\* The first waiter goes from the lock's list to lock_realse's tmp.
LEMMA RealseDel ==
    ASSUME TypeOK, ~wild, Running, realse_del
    PROVE  TypeOK' /\ ~wild' /\ Running'
<1>1. PICK W \in SUBSET Threads : Listed(W)
  BY DEF Running
<1>2. /\ pc = "rel_del" /\ pc' = "rel_tail"
      /\ loc' = [loc EXCEPT ![current_thread].tmp = links.next[LOCK]]
      /\ links' = list_del(links, links.next[LOCK])
      /\ UNCHANGED <<READY_LIST, READY_THREAD, current_thread, ticks, machine, wild>>
      /\ UNCHANGED <<esp, stk, cpu, value, holds>>
  BY DEF realse_del, At, Goto, machine
<1>3. pc \in ThreadCode /\ pc' \in ThreadCode
  BY <1>2 DEF ThreadCode
<1>4. current_thread = cpu /\ cpu \in Threads /\ cpu # init_struct /\ Point[cpu] = pc
  BY <1>2, <1>3, InCode
<1>5. /\ Point \in [Threads -> ThreadCode]
      /\ Point' = [Point EXCEPT ![cpu] = pc'] /\ Stacked' /\ Left'
  BY <1>2, <1>3, <1>4, ThreadStep DEF Running
<1>6. W # {} /\ cpu \notin W /\ value = 0
  BY <1>1, <1>2, <1>4 DEF Running, Locked, Releasing, Listed, Members, Yielding, YieldCode
<1>7. /\ links \in Links(Node) /\ W \cup {LOCK} \in SUBSET Node
      /\ Circle(links, W \cup {LOCK}, LOCK)
  BY <1>1 DEF TypeOK, Node, Listed, Rings
<1>8. PICK e \in W : e = links.next[LOCK]
  <2>1. W \cup {LOCK} # {LOCK}
    BY <1>6, PreemptionAssumption
  <2>2. links.next[LOCK] \in (W \cup {LOCK}) \ {LOCK}
    BY <1>7, <2>1, CircleDelHead
  <2> QED BY <2>2
<1>9. /\ links' \in Links(Node) /\ Circle(links', (W \cup {LOCK}) \ {e}, LOCK)
      /\ \A x \in Node \ (W \cup {LOCK}) : SameLinks(links, links', x)
  <2>1. links.next[LOCK] # LOCK
    BY <1>8, PreemptionAssumption
  <2>2. /\ list_del(links, links.next[LOCK]) \in Links(Node)
        /\ Circle(list_del(links, links.next[LOCK]), (W \cup {LOCK}) \ {links.next[LOCK]}, LOCK)
        /\ \A x \in Node \ (W \cup {LOCK}) :
              SameLinks(links, list_del(links, links.next[LOCK]), x)
    BY <1>7, <2>1, CircleDelNext, Zenon
  <2> QED BY <1>2, <1>8, <2>2
<1>10. e \in Threads /\ e # cpu /\ Point[e] = "acq_test" /\ e # NULL /\ e # LOCK
  BY <1>1, <1>6, <1>8, PreemptionAssumption
     DEF Running, Left, Parked, Listed, Members, Yielding, Node
<1>11. loc'[cpu].tmp = e /\ \A t \in Threads \ {cpu} : loc'[t] = loc[t]
  BY <1>2, <1>4, <1>8 DEF TypeOK
<1>12. Locals'
  BY <1>2, <1>4, <1>5, <1>10, <1>11 DEF Running, Locals
<1>13. Passing = {} /\ Passing' = {e}
  <2>1. Passing = {}
    BY <1>2, <1>4, PassingIs DEF Running
  <2>2. \A t \in Threads \ {cpu} : loc[t].tmp = NULL
    BY DEF Running, Locals
  <2> QED BY <1>4, <1>10, <1>11, <2>1, <2>2 DEF Passing
<1>14. TypeOK'
  BY <1>2, <1>3, <1>8, <1>9, <1>10 DEF TypeOK, Statements, Node
<1>15. Locked'
  BY <1>2, <1>4, <1>5, <1>6 DEF Running, Locked, Yielding, Releasing
<1>16. PICK V \in SUBSET Threads : V = W \ {e}
  OBVIOUS
<1>17. /\ Rest(W) = Threads \ (W \cup {cpu})
       /\ Off(V)' = {cpu, e} /\ Rest(V)' = Threads \ (W \cup {cpu})
  BY <1>2, <1>4, <1>6, <1>8, <1>13, <1>16 DEF Off, Rest
<1>18. Rings(V)'
  <2>1. Circle(links, Rest(W), READY_LIST)
    BY <1>1, <1>2 DEF Listed, Rings
  <2>2. \A x \in Rest(W) : SameLinks(links, links', x)
    BY <1>9, <1>17, PreemptionAssumption DEF Node
  <2>3. Circle(links', Rest(W), READY_LIST)
    BY <2>1, <2>2, CircleFrame
  <2>4. (W \cup {LOCK}) \ {e} = V \cup {LOCK}
    BY <1>10, <1>16
  <2>5. {cpu, e} \subseteq Threads \ V
    BY <1>4, <1>6, <1>10, <1>16
  <2> QED BY <1>2, <1>9, <1>17, <2>3, <2>4, <2>5 DEF Rings
<1>19. Members(V)'
  BY <1>1, <1>2, <1>4, <1>5, <1>6, <1>16 DEF Listed, Members, Yielding, YieldCode, Loads
<1>20. Heard(V)'
  BY <1>2, <1>4, <1>5 DEF Heard, Releasing
<1>21. Chosen' /\ READY_LIST' \in Threads
  BY <1>2 DEF Running, Chosen
<1> QED BY <1>2, <1>5, <1>12, <1>14, <1>15, <1>18, <1>19, <1>20, <1>21 DEF Running, Listed

\* The tail stays true: nobody touches the ready list before the next statement.
LEMMA RealseTail ==
    ASSUME TypeOK, ~wild, Running, realse_tail
    PROVE  TypeOK' /\ ~wild' /\ Running'
<1>1. PICK W \in SUBSET Threads : Listed(W)
  BY DEF Running
<1>2. /\ pc = "rel_tail" /\ pc' = "rel_add"
      /\ loc' = [loc EXCEPT ![current_thread].tail = links.prev[READY_LIST]]
      /\ UNCHANGED <<links, READY_LIST, READY_THREAD, current_thread, ticks, machine, wild>>
      /\ UNCHANGED <<esp, stk, cpu, value, holds>>
  BY DEF realse_tail, At, Goto, machine, lists
<1>3. pc \in ThreadCode /\ pc' \in ThreadCode
  BY <1>2 DEF ThreadCode
<1>4. current_thread = cpu /\ cpu \in Threads /\ cpu # init_struct /\ Point[cpu] = pc
  BY <1>2, <1>3, InCode
<1>5. /\ Point \in [Threads -> ThreadCode]
      /\ Point' = [Point EXCEPT ![cpu] = pc'] /\ Stacked' /\ Left'
  BY <1>2, <1>3, <1>4, ThreadStep DEF Running
<1>6. /\ loc'[cpu].tail = links.prev[READY_LIST]
      /\ \A t \in Threads : loc'[t].tmp = loc[t].tmp
  BY <1>2, <1>4 DEF TypeOK
<1>7. TypeOK'
  <2>1. links.prev[READY_LIST] \in Node
    BY DEF TypeOK, Links, Running, Node
  <2> QED BY <1>2, <1>3, <1>4, <2>1 DEF TypeOK, Statements
<1>8. Locals' /\ Passing' = Passing
  <2>1. loc[cpu].tmp \in Threads \ {cpu} /\ Point[loc[cpu].tmp] = "acq_test"
    BY <1>2, <1>4 DEF Running, Locals
  <2>2. Passing' = Passing
    BY <1>6 DEF Passing
  <2>3. \A t \in Threads \ {cpu} : loc[t].tmp = NULL
    BY DEF Running, Locals
  <2> QED BY <1>2, <1>4, <1>5, <1>6, <2>1, <2>2, <2>3 DEF Locals
<1>9. Rings(W)' /\ Chosen' /\ READY_LIST' \in Threads
  BY <1>1, <1>2, <1>3, <1>8, SameLists DEF Running, Listed
<1>10. Locked'
  BY <1>2, <1>4, <1>5 DEF Running, Locked, Yielding, Releasing
<1>11. Members(W)'
  BY <1>1, <1>2, <1>4, <1>5 DEF Listed, Members, Yielding, YieldCode, Loads
<1>12. Heard(W)'
  BY <1>2, <1>4, <1>5 DEF Heard, Releasing
<1> QED BY <1>2, <1>5, <1>7, <1>8, <1>9, <1>10, <1>11, <1>12 DEF Running, Listed

\* ... and from there to the end of the ready list, about to test value again.
LEMMA RealseAdd ==
    ASSUME TypeOK, ~wild, Running, realse_add
    PROVE  TypeOK' /\ ~wild' /\ Running'
<1>1. PICK W \in SUBSET Threads : Listed(W)
  BY DEF Running
<1>2. /\ pc = "rel_add" /\ pc' = "own"
      /\ links' = list_add_tail(links, loc[current_thread].tmp, loc[current_thread].tail)
      /\ loc' = [loc EXCEPT ![current_thread] = [tmp |-> NULL, tail |-> NULL]]
      /\ UNCHANGED <<READY_LIST, READY_THREAD, current_thread, ticks, machine, wild>>
      /\ UNCHANGED <<esp, stk, cpu, value, holds>>
  BY DEF realse_add, At, Goto, machine
<1>3. pc \in ThreadCode /\ pc' \in ThreadCode
  BY <1>2 DEF ThreadCode
<1>4. current_thread = cpu /\ cpu \in Threads /\ cpu # init_struct /\ Point[cpu] = pc
  BY <1>2, <1>3, InCode
<1>5. /\ Point \in [Threads -> ThreadCode]
      /\ Point' = [Point EXCEPT ![cpu] = pc'] /\ Stacked' /\ Left'
  BY <1>2, <1>3, <1>4, ThreadStep DEF Running
<1>6. PICK e \in Threads \ {cpu} :
        /\ e = loc[cpu].tmp /\ Point[e] = "acq_test"
        /\ loc[cpu].tail = links.prev[READY_LIST]
  BY <1>2, <1>4 DEF Running, Locals
<1>7. Passing = {e}
  BY <1>2, <1>4, <1>6, PassingIs DEF Running
<1>8. /\ \A t \in Threads : loc'[t].tmp = NULL
      /\ Passing' = {} /\ Locals'
  <2>1. \A t \in Threads \ {cpu} : loc[t].tmp = NULL
    BY DEF Running, Locals
  <2>2. \A t \in Threads : loc'[t].tmp = NULL
    BY <1>2, <1>4, <2>1 DEF TypeOK
  <2>3. Passing' = {}
    BY <2>2 DEF Passing
  <2>4. Locals'
    BY <1>2, <1>4, <1>5, <2>2 DEF Locals
  <2> QED BY <2>2, <2>3, <2>4
<1>9. cpu \notin W /\ e \notin W
  BY <1>1, <1>2, <1>4, <1>6, <1>7
     DEF Listed, Members, Yielding, YieldCode, Rings, Off
<1>10. /\ Rest(W) = Threads \ (W \cup {cpu, e})
       /\ Off(W)' = {cpu} /\ Rest(W)' = Threads \ (W \cup {cpu})
  BY <1>2, <1>4, <1>7, <1>8, <1>9 DEF Off, Rest
<1>11. /\ links' \in Links(Node) /\ Circle(links', Rest(W) \cup {e}, READY_LIST)
       /\ \A x \in Node : x # e /\ x \notin Rest(W) => SameLinks(links, links', x)
  <2>1. /\ links \in Links(Node) /\ Rest(W) \in SUBSET Node /\ e \in Node
        /\ e \notin Rest(W) /\ Circle(links, Rest(W), READY_LIST)
    BY <1>1, <1>2, <1>6, <1>10 DEF TypeOK, Node, Listed, Rings
  <2>2. /\ list_add_tail(links, e, links.prev[READY_LIST]) \in Links(Node)
        /\ Circle(list_add_tail(links, e, links.prev[READY_LIST]),
                  Rest(W) \cup {e}, READY_LIST)
        /\ \A x \in Node : x # e /\ x \notin Rest(W) =>
              SameLinks(links, list_add_tail(links, e, links.prev[READY_LIST]), x)
    BY <2>1, CircleAdd, Zenon
  <2> QED BY <1>2, <1>4, <1>6, <2>2
<1>12. TypeOK'
  BY <1>2, <1>3, <1>4, <1>11 DEF TypeOK, Statements
<1>13. Rings(W)'
  <2>1. \A x \in W \cup {LOCK} : SameLinks(links, links', x)
    BY <1>6, <1>9, <1>10, <1>11, PreemptionAssumption DEF Node
  <2>2. Circle(links', W \cup {LOCK}, LOCK)
    BY <1>1, <2>1, CircleFrame DEF Listed, Rings
  <2>3. Rest(W) \cup {e} = Threads \ (W \cup {cpu})
    BY <1>6, <1>9, <1>10
  <2>4. {cpu} \subseteq Threads \ W
    BY <1>4, <1>9
  <2> QED BY <1>2, <1>10, <1>11, <2>2, <2>3, <2>4 DEF Rings
<1>14. Locked'
  BY <1>2, <1>4, <1>5 DEF Running, Locked, Yielding, Releasing
<1>15. Members(W)'
  BY <1>1, <1>2, <1>4, <1>5, <1>9 DEF Listed, Members, Yielding, YieldCode, Loads
<1>16. Heard(W)'
  BY <1>5, <1>6, <1>9 DEF Heard
<1>17. Chosen' /\ READY_LIST' \in Threads
  BY <1>2 DEF Running, Chosen
<1> QED BY <1>2, <1>5, <1>8, <1>12, <1>13, <1>14, <1>15, <1>16, <1>17 DEF Running, Listed

-----------------------------------------------------------------------------
(* From creat_init to init_thread.                                          *)

LEMMA InitPInv == Init => PInv
<1>1. SUFFICES ASSUME Init
               PROVE  PInv
  OBVIOUS
<1>2. stk[BOOT] = << >> /\ READY_LIST = NULL
  BY <1>1 DEF Init, Stacks
<1>3. links \in Links(Node)
  BY <1>1 DEF Init, Links
<1>4. TypeOK
  <2>1. esp \in [Threads \cup {NULL} -> [stack : Stacks, depth : 0 .. MaxDepth]]
    BY <1>1, PreemptionAssumption DEF Init, Stacks
  <2>2. stk \in [Stacks -> Seq(Statements)]
    BY <1>1 DEF Init
  <2>3. loc \in [Threads -> [tmp : Node \cup {NULL}, tail : Node \cup {NULL}]]
    BY <1>1 DEF Init
  <2>4. cpu \in Stacks /\ pc \in Statements
    BY <1>1 DEF Init, Stacks, Statements
  <2>5. value \in Int
    BY <1>1 DEF Init
  <2>6. ticks \in 0 .. SLICE - 1 /\ wild \in BOOLEAN
    BY <1>1, Zenon DEF Init
  <2>7. /\ READY_LIST \in {NULL} /\ READY_THREAD \in {NULL} /\ current_thread \in {NULL}
        /\ holds \in SUBSET Threads
    BY <1>1 DEF Init
  <2> QED BY <1>3, <2>1, <2>2, <2>3, <2>4, <2>5, <2>6, <2>7 DEF TypeOK
<1>5. Booting
  BY <1>1, <1>2 DEF Init, Booting
<1> QED BY <1>1, <1>2, <1>4, <1>5 DEF Init, PInv

\* init_struct gets its stack, with init_thread as the context to load.
LEMMA BootFrame ==
    ASSUME TypeOK, ~wild, READY_LIST = NULL, Booting, creat_init_frame
    PROVE  TypeOK' /\ ~wild' /\ READY_LIST' = NULL /\ Booting'
<1>1. /\ pc = "boot_frame" /\ pc' = "boot_current"
      /\ stk' = [stk EXCEPT ![init_struct] = <<"create">>]
      /\ esp' = [esp EXCEPT ![init_struct] = [stack |-> init_struct, depth |-> 1]]
      /\ links' = INIT_LIST_HEAD(links, init_struct)
      /\ UNCHANGED <<READY_LIST, READY_THREAD, current_thread, ticks, cpu, wild>>
      /\ UNCHANGED <<value, holds, loc>>
  BY DEF creat_init_frame, At, Goto, client
<1>2. cpu = BOOT
  BY <1>1 DEF Booting
<1>3. links = [next |-> [n \in Node |-> n], prev |-> [n \in Node |-> n]]
  BY DEF Booting
<1>4. links' = links
  <2>1. links.next = [n \in Node |-> n] /\ links.prev = [n \in Node |-> n]
    BY <1>3
  <2>2. /\ [links.next EXCEPT ![init_struct] = init_struct] = links.next
        /\ [links.prev EXCEPT ![init_struct] = init_struct] = links.prev
    BY <2>1
  <2> QED BY <1>1, <1>3, <2>1, <2>2 DEF INIT_LIST_HEAD
<1>5. init_struct \in Stacks /\ init_struct \in Threads
  BY PreemptionAssumption DEF Stacks
<1>6. TypeOK'
  <2>1. stk' \in [Stacks -> Seq(Statements)]
    BY <1>1, <1>5 DEF TypeOK, Statements
  <2>2. esp' \in [Threads \cup {NULL} -> [stack : Stacks, depth : 0 .. MaxDepth]]
    BY <1>1, <1>5, PreemptionAssumption DEF TypeOK
  <2> QED BY <1>1, <1>4, <2>1, <2>2 DEF TypeOK, Statements
<1>7. Saved(init_struct, init_struct)' /\ stk'[init_struct][1] = "create"
  BY <1>1, <1>5 DEF Saved, TypeOK
<1> QED BY <1>1, <1>2, <1>3, <1>4, <1>6, <1>7 DEF Booting

\* No tick falls between this and schedule.
LEMMA BootCurrent ==
    ASSUME TypeOK, ~wild, READY_LIST = NULL, Booting, creat_init_current
    PROVE  TypeOK' /\ ~wild' /\ READY_LIST' = NULL /\ Booting'
<1>1. /\ pc = "boot_current" /\ pc' = "boot_schedule" /\ current_thread' = init_struct
      /\ UNCHANGED <<links, READY_LIST, READY_THREAD, ticks, esp, stk, cpu, wild>>
      /\ UNCHANGED <<value, holds, loc>>
  BY DEF creat_init_current, At, Goto, client, lists, machine
<1>2. TypeOK'
  BY <1>1, PreemptionAssumption DEF TypeOK, Statements, Node
<1>3. cpu = BOOT /\ Saved(init_struct, init_struct) /\ stk[init_struct][1] = "create"
  BY <1>1 DEF Booting
<1>4. Saved(init_struct, init_struct)'
  BY <1>1, <1>3 DEF Saved
<1> QED BY <1>1, <1>2, <1>3, <1>4 DEF Booting

\* Loading the one context of a stack.
LEMMA LoadOnly ==
    ASSUME TypeOK, NEW t \in Threads \cup {NULL}, NEW s \in Stacks, Saved(t, s),
           load(t)
    PROVE  /\ cpu' = s /\ pc' = stk[s][1] /\ stk' = [stk EXCEPT ![s] = << >>]
           /\ UNCHANGED <<esp, wild>> /\ pc' \in Statements /\ stk'[s] = << >>
<1>1. /\ esp[t] = [stack |-> s, depth |-> 1] /\ Len(stk[s]) = 1
      /\ t \in DOMAIN esp /\ stk[s] \in Seq(Statements)
  BY DEF Saved, TypeOK
<1>2. /\ cpu' = s /\ pc' = stk[s][1]
      /\ stk' = [stk EXCEPT ![s] = SubSeq(@, 1, 1 - 1)] /\ UNCHANGED <<esp, wild>>
  BY <1>1 DEF load
<1>3. SubSeq(stk[s], 1, 1 - 1) = << >> /\ stk[s][1] \in Statements
  BY <1>1
<1> QED BY <1>2, <1>3 DEF TypeOK

\* schedule, and the end of a tick before the ready list exists.
LEMMA BootLoad ==
    ASSUME TypeOK, ~wild, READY_LIST = NULL, Booting,
           schedule \/ resume("t_load") \/ resume("y_load")
    PROVE  TypeOK' /\ ~wild' /\ READY_LIST' = NULL /\ Booting'
<1>1. /\ \/ pc = "boot_schedule" /\ load(init_struct)
         \/ pc \in Loads /\ load(current_thread)
      /\ UNCHANGED <<links, READY_LIST, READY_THREAD, current_thread, ticks>>
      /\ UNCHANGED <<value, holds, loc>>
  BY DEF schedule, resume, At, client, lists, Loads
<1>2. init_struct \in Threads /\ BOOT \in Stacks /\ Threads \subseteq Stacks
  BY PreemptionAssumption DEF Stacks
<1>3. CASE cpu = BOOT /\ pc = "t_load"
  <2>1. current_thread = NULL /\ Saved(NULL, BOOT) /\ stk[BOOT][1] = "boot_frame"
    BY <1>3, PreemptionAssumption DEF Booting
  <2>2. load(NULL)
    BY <1>1, <1>3, <2>1
  <2>3. /\ cpu' = BOOT /\ pc' = stk[BOOT][1] /\ stk' = [stk EXCEPT ![BOOT] = << >>]
        /\ UNCHANGED <<esp, wild>> /\ pc' \in Statements /\ stk'[BOOT] = << >>
    BY <1>2, <2>1, <2>2, LoadOnly
  <2>4. TypeOK'
    BY <1>1, <1>2, <2>3 DEF TypeOK
  <2> QED BY <1>1, <2>1, <2>3, <2>4 DEF Booting
<1>4. CASE ~(cpu = BOOT /\ pc = "t_load")
  <2>1. /\ current_thread = init_struct /\ Saved(init_struct, init_struct)
        /\ stk[init_struct][1] = "create"
    BY <1>1, <1>4 DEF Booting, Loads
  <2>2. load(init_struct)
    BY <1>1, <2>1
  <2>3. /\ cpu' = init_struct /\ pc' = stk[init_struct][1]
        /\ stk' = [stk EXCEPT ![init_struct] = << >>]
        /\ UNCHANGED <<esp, wild>> /\ pc' \in Statements /\ stk'[init_struct] = << >>
    BY <1>2, <2>1, <2>2, LoadOnly
  <2>4. TypeOK'
    BY <1>1, <1>2, <2>3 DEF TypeOK
  <2> QED BY <1>1, <2>1, <2>3, <2>4 DEF Booting
<1> QED BY <1>3, <1>4

\* A tick before there is a thread saves esp at address 0.
LEMMA BootTick ==
    ASSUME Confined, TypeOK, ~wild, READY_LIST = NULL, Booting, irq00
    PROVE  TypeOK' /\ ~wild' /\ READY_LIST' = NULL /\ Booting'
<1>1. /\ save(pc) /\ pc' = "t_count"
      /\ UNCHANGED <<links, READY_LIST, READY_THREAD, current_thread, ticks, cpu, wild>>
      /\ UNCHANGED <<value, holds, loc>>
  BY DEF irq00, Goto, lists, client
<1>2. Window(pc) \in {"own", "acquire", "enqueued", "release"}
  BY DEF irq00, Confined
<1>3. /\ stk[cpu] = << >> /\ cpu \in Stacks
      /\ \/ cpu = BOOT /\ current_thread = NULL /\ pc = "boot_frame"
         \/ cpu = init_struct /\ current_thread = init_struct /\ pc = "create"
  BY <1>2 DEF Booting, Window, TypeOK
<1>4. /\ stk' = [stk EXCEPT ![cpu] = <<pc>>]
      /\ esp' = [esp EXCEPT ![current_thread] = [stack |-> cpu, depth |-> 1]]
  <2>1. Append(stk[cpu], pc) = <<pc>> /\ Len(stk[cpu]) + 1 = 1
    BY <1>3
  <2> QED BY <1>1, <2>1 DEF save
<1>5. current_thread \in Threads \cup {NULL}
  BY <1>3, PreemptionAssumption
<1>6. TypeOK'
  <2>1. stk' \in [Stacks -> Seq(Statements)]
    BY <1>3, <1>4 DEF TypeOK
  <2>2. esp' \in [Threads \cup {NULL} -> [stack : Stacks, depth : 0 .. MaxDepth]]
    BY <1>3, <1>4, <1>5, PreemptionAssumption DEF TypeOK
  <2> QED BY <1>1, <2>1, <2>2 DEF TypeOK, Statements
<1>7. Saved(current_thread, cpu)' /\ stk'[cpu][1] = pc
  BY <1>1, <1>3, <1>4, <1>5 DEF Saved, TypeOK
<1> QED BY <1>1, <1>3, <1>6, <1>7 DEF Booting, Saved

\* READY_LIST is NULL: the tick only counts.
LEMMA BootCount ==
    ASSUME TypeOK, ~wild, READY_LIST = NULL, Booting, timer_count
    PROVE  TypeOK' /\ ~wild' /\ READY_LIST' = NULL /\ Booting'
<1>1. /\ pc = "t_count" /\ pc' = "t_load" /\ ticks' = (ticks + 1) % SLICE
      /\ UNCHANGED <<links, READY_LIST, READY_THREAD, current_thread, wild>>
      /\ UNCHANGED <<esp, stk, cpu, value, holds, loc>>
  BY DEF timer_count, At, Goto, lists, machine, client
<1>2. TypeOK'
  <2>1. ticks' \in 0 .. SLICE - 1
    BY <1>1, PreemptionAssumption DEF TypeOK
  <2> QED BY <1>1, <2>1 DEF TypeOK, Statements
<1> QED BY <1>1, <1>2 DEF Booting, Saved

\* The ready list of all threads but init_struct; the lock's list is empty.
LEMMA InitThread ==
    ASSUME TypeOK, ~wild, READY_LIST = NULL, Booting, init_thread
    PROVE  TypeOK' /\ ~wild' /\ Running'
<1> DEFINE Others == Threads \ {init_struct}
<1>1. /\ pc = "create" /\ pc' = "own" /\ current_thread' = init_struct /\ value' = 0
      /\ stk' = [s \in Stacks |-> IF s \in Others THEN <<"own">> ELSE stk[s]]
      /\ esp' = [t \in DOMAIN esp |-> IF t \in Others
                                      THEN [stack |-> t, depth |-> 1] ELSE esp[t]]
      /\ UNCHANGED <<ticks, cpu, holds, loc, wild>>
  BY DEF init_thread, At, Goto
<1>2. /\ cpu = init_struct /\ stk[init_struct] = << >> /\ holds = {}
      /\ loc = [t \in Threads |-> [tmp |-> NULL, tail |-> NULL]]
  BY <1>1 DEF Booting
<1>3. \A x \in Node : Alone(links, x)
  BY DEF Booting, Alone
<1>4. /\ links' \in Links(Node) /\ READY_LIST' \in Others /\ READY_THREAD' = READY_LIST'
      /\ Circle(links', Others, READY_LIST') /\ Alone(links', LOCK)
  BY <1>3, InitThreadRing DEF TypeOK
<1>5. /\ init_struct \in Threads /\ Threads \subseteq Stacks
      /\ Threads \subseteq Node /\ DOMAIN esp = Threads \cup {NULL}
  BY PreemptionAssumption DEF Stacks, Node, TypeOK
<1>6. TypeOK'
  <2>1. stk' \in [Stacks -> Seq(Statements)]
    <3>1. <<"own">> \in Seq(Statements)
      BY DEF Statements, ThreadCode
    <3> QED BY <1>1, <3>1 DEF TypeOK
  <2>2. esp' \in [Threads \cup {NULL} -> [stack : Stacks, depth : 0 .. MaxDepth]]
    BY <1>1, <1>5, PreemptionAssumption DEF TypeOK
  <2> QED BY <1>1, <1>4, <1>5, <2>1, <2>2 DEF TypeOK, Statements, ThreadCode
<1>7. Point' = [t \in Threads |-> "own"]
  <2>1. \A t \in Threads : Point'[t] = "own"
    BY <1>1, <1>2, <1>5 DEF Point, ThreadCode
  <2> QED BY <2>1 DEF Point
<1>8. Stacked'
  <2>1. \A t \in Threads \ {cpu} : Saved(t, t)'
    BY <1>1, <1>2, <1>5 DEF Saved
  <2>2. stk'[cpu] = << >>
    BY <1>1, <1>2, <1>5
  <2> QED BY <1>1, <1>2, <1>5, <2>1, <2>2 DEF Stacked, ThreadCode, Loads
<1>9. Left'
  BY <1>1, <1>2, <1>5, <1>7 DEF Left, Switching, YieldCode, ThreadCode, Parked
<1>10. Locked'
  BY <1>1, <1>2, <1>5, <1>7 DEF Locked, Yielding, Releasing
<1>11. Locals' /\ Passing' = {}
  BY <1>1, <1>2, <1>5, <1>7 DEF Locals, Passing
<1>12. Off({})' = {init_struct} /\ Rest({})' = Others
  BY <1>1, <1>11 DEF Off, Rest
<1>13. Rings({})'
  <2>1. Circle(links', {LOCK}, LOCK)
    BY <1>4, CircleOne
  <2>2. {} \cup {LOCK} = {LOCK}
    OBVIOUS
  <2> QED BY <1>1, <1>4, <1>5, <1>12, <2>1, <2>2 DEF Rings
<1>14. Members({})' /\ Heard({})'
  BY <1>1, <1>2, <1>5, <1>7 DEF Members, Heard, Yielding, YieldCode, Loads
<1>15. Chosen'
  BY <1>1 DEF Chosen
<1> QED BY <1>1, <1>4, <1>6, <1>8, <1>9, <1>10, <1>11, <1>13, <1>14, <1>15
        DEF Running, Listed

-----------------------------------------------------------------------------
\* Every step keeps the invariant.
LEMMA StepPInv == Confined /\ PInv /\ [Next]_vars => PInv'
<1>1. SUFFICES ASSUME Confined, PInv, [Next]_vars
               PROVE  PInv'
  OBVIOUS
<1>2. TypeOK /\ ~wild
  BY <1>1 DEF PInv
<1>3. CASE UNCHANGED vars
  <2>1. /\ UNCHANGED <<links, READY_LIST, READY_THREAD, current_thread, value, ticks>>
        /\ UNCHANGED <<esp, stk, cpu, pc, holds, loc, wild>>
    BY <1>3 DEF vars
  <2>2. TypeOK' /\ ~wild'
    BY <1>2, <2>1 DEF TypeOK
  <2>3. CASE READY_LIST = NULL
    BY <1>1, <2>1, <2>2, <2>3 DEF PInv, Booting, Saved
  <2>4. CASE READY_LIST # NULL
    <3>1. PICK W \in SUBSET Threads : Listed(W)
      BY <1>1, <2>4 DEF PInv, Running
    <3>2. Point' = Point /\ Passing' = Passing
      BY <2>1 DEF Point, Passing
    <3>3. Off(W)' = Off(W) /\ Rest(W)' = Rest(W)
      BY <2>1, <3>2 DEF Off, Rest
    <3>4. Listed(W)'
      BY <2>1, <3>1, <3>2, <3>3 DEF Listed, Rings, Members, Heard
    <3>5. Stacked' /\ Left' /\ Locked' /\ Locals' /\ Chosen' /\ READY_LIST' \in Threads
      BY <1>1, <2>1, <2>4, <3>2
         DEF PInv, Running, Stacked, Saved, Left, Switching, Locked, Locals, Chosen
    <3> QED BY <2>1, <2>2, <2>4, <3>4, <3>5 DEF PInv, Running
  <2> QED BY <2>3, <2>4
<1>4. CASE Next /\ READY_LIST = NULL
  <2>1. Booting
    BY <1>1, <1>4 DEF PInv
  <2>2. CASE init_thread
    <3>1. TypeOK' /\ ~wild' /\ Running'
      BY <1>2, <1>4, <2>1, <2>2, InitThread
    <3>2. READY_LIST' # NULL
      BY <3>1, PreemptionAssumption DEF Running, Node
    <3> QED BY <3>1, <3>2 DEF PInv
  <2>3. CASE ~init_thread
    <3>1. \/ creat_init_frame \/ creat_init_current \/ schedule \/ irq00 \/ timer_count
          \/ resume("t_load") \/ resume("y_load")
      <4>1. pc \in {"boot_frame", "boot_current", "boot_schedule", "create", "t_count", "t_load"}
        BY <2>1 DEF Booting
      <4> QED BY <1>4, <2>3, <4>1
              DEF Next, System, Call, timer_add, pick, advance, unlink, make_current, call_acquire,
                  acquire_test, acquire_take, acquire_enqueue, thread_yield, yield_save,
                  call_realse, realse_inc, realse_del, realse_tail, realse_add, At
    <3>2. TypeOK' /\ ~wild' /\ READY_LIST' = NULL /\ Booting'
      BY <1>1, <1>2, <1>4, <2>1, <3>1, BootFrame, BootCurrent, BootLoad, BootTick, BootCount
    <3> QED BY <3>2 DEF PInv
  <2> QED BY <2>2, <2>3
<1>5. CASE Next /\ READY_LIST # NULL
  <2>1. Running
    BY <1>1, <1>5 DEF PInv
  <2>2. pc \notin {"boot_frame", "boot_current", "boot_schedule", "create"}
    BY <2>1 DEF Running, Stacked, ThreadCode, TimerCode, YieldCode
  <2>3. ~(creat_init_frame \/ creat_init_current \/ schedule \/ init_thread)
    BY <2>2 DEF creat_init_frame, creat_init_current, schedule, init_thread, At
  <2>4. TypeOK' /\ ~wild' /\ Running'
    <3>1. CASE irq00 \/ timer_count \/ timer_add
      BY <1>1, <1>2, <2>1, <3>1, Irq00, TimerCount, TimerAdd
    <3>2. CASE \/ pick("t_pick", "t_next") \/ pick("y_pick", "y_next")
               \/ advance("t_next", "t_del") \/ advance("y_next", "y_del")
      BY <1>2, <2>1, <3>2, Pick, Advance
    <3>3. CASE \/ unlink("t_del", "t_current") \/ unlink("y_del", "y_current")
               \/ make_current("t_current", "t_load") \/ make_current("y_current", "y_load")
      BY <1>2, <2>1, <3>3, Unlink, MakeCurrent
    <3>4. CASE resume("t_load") \/ resume("y_load") \/ yield_save
      BY <1>2, <2>1, <3>4, Resume, YieldSave
    <3>5. CASE \/ call_acquire \/ acquire_test \/ thread_yield \/ call_realse
               \/ acquire_take \/ acquire_enqueue
      BY <1>2, <2>1, <3>5, Calls, AcquireTake, AcquireEnqueue
    <3>6. CASE realse_inc \/ realse_del \/ realse_tail \/ realse_add
      BY <1>1, <1>2, <2>1, <3>6, RealseInc, RealseDel, RealseTail, RealseAdd
    <3> QED BY <1>5, <2>3, <3>1, <3>2, <3>3, <3>4, <3>5, <3>6 DEF Next, System, Call
  <2>5. READY_LIST' # NULL
    BY <2>4, PreemptionAssumption DEF Running, Node
  <2> QED BY <2>4, <2>5 DEF PInv
<1> QED BY <1>1, <1>3, <1>4, <1>5

LEMMA InvariantPInv == Confined => (Spec => []PInv)
<1>1. CASE Confined
  <2>1. PInv /\ [Next]_vars => PInv'
    BY <1>1, StepPInv
  <2> QED BY <2>1, InitPInv, PTL DEF Spec
<1>2. CASE ~Confined
  BY <1>2
<1> QED BY <1>1, <1>2

-----------------------------------------------------------------------------
(* The results, for every number of threads.                                *)

\* Every statement of irq00_handler, timer_handler, yield_thread, lock_acquire
\* and lock_realse keeps the variables in their types.
THEOREM ThreadTypes == Confined => (Spec => []TypeOK)
<1>1. PInv => TypeOK
  BY DEF PInv
<1> QED BY <1>1, InvariantPInv, PTL

\* irq00_handler, yield and schedule never load a context that is gone, and in
\* a thread's code current_thread names the thread that runs.
THEOREM CurrentThreadRuns == Confined => (Spec => []CurrentRuns)
<1>1. PInv => CurrentRuns
  <2>1. SUFFICES ASSUME PInv, pc \in ThreadCode
                 PROVE  cpu = current_thread
    BY DEF PInv, CurrentRuns, InThread
  <2>2. READY_LIST # NULL
    BY <2>1 DEF PInv, Booting, ThreadCode
  <2> QED BY <2>1, <2>2 DEF PInv, Running, Stacked, Loads, ThreadCode
<1> QED BY <1>1, InvariantPInv, PTL

\* irq00_handler and yield leave every thread that does not run with one
\* saved context, the one its esp points to.
THEOREM ThreadsAreResumable == Confined => (Spec => []Resumable)
<1>1. PInv => Resumable
  <2>1. SUFFICES ASSUME PInv, pc \in ThreadCode
                 PROVE  /\ stk[cpu] = << >>
                        /\ \A t \in Threads \ {cpu} :
                              Len(stk[t]) = 1 /\ esp[t] = [stack |-> t, depth |-> 1]
    BY DEF Resumable, InThread
  <2>2. READY_LIST # NULL
    BY <2>1 DEF PInv, Booting, ThreadCode
  <2> QED BY <2>1, <2>2 DEF PInv, Running, Stacked, Saved
<1> QED BY <1>1, InvariantPInv, PTL

\* What Ready and Waiting are in a thread's code.
LEMMA ListsInThread ==
    ASSUME PInv, pc \in ThreadCode
    PROVE  /\ Running /\ current_thread = cpu /\ cpu \in Threads
           /\ \E W \in SUBSET Threads :
                /\ Listed(W) /\ Waiting = W
                /\ Ready = Threads \ (W \cup {cpu} \cup Passing)
<1>1. READY_LIST # NULL
  BY DEF PInv, Booting, ThreadCode
<1>2. Running
  BY <1>1 DEF PInv
<1>3. current_thread = cpu /\ cpu \in Threads
  BY <1>2 DEF Running, Stacked, Loads, ThreadCode
<1>4. PICK W \in SUBSET Threads : Listed(W)
  BY <1>2 DEF Running
<1>5. Rest(W) = Threads \ (W \cup ({cpu} \ W) \cup Passing)
  BY <1>3 DEF Rest, Off, ThreadCode
<1>6. Circle(links, W \cup {LOCK}, LOCK) /\ Circle(links, Rest(W), READY_LIST)
  BY <1>4 DEF Listed, Rings, ThreadCode
<1>7. W \cup {LOCK} \in SUBSET Node /\ Rest(W) \in SUBSET Node
  BY DEF Rest, Node
<1>8. Follow(LOCK) = W \cup {LOCK} /\ Follow(READY_LIST) = Rest(W)
  BY <1>6, <1>7, FollowCircle
<1>9. Waiting = W
  BY <1>8, PreemptionAssumption DEF Waiting
<1>10. Ready = Threads \ (W \cup {cpu} \cup Passing)
  BY <1>1, <1>3, <1>5, <1>8 DEF Ready
<1> QED BY <1>2, <1>3, <1>4, <1>9, <1>10

\* timer_handler, yield_thread, lock_acquire and lock_realse keep every thread
\* that does not run on exactly one list.
THEOREM ThreadsAreOnOneList == Confined => (Spec => []OneList)
<1>1. PInv => OneList
  <2>1. SUFFICES ASSUME PInv, pc \in ThreadCode
                 PROVE  /\ Ready \cap Waiting = {} /\ Passing \cap (Ready \cup Waiting) = {}
                        /\ LOCK \notin Ready
                        /\ Threads \ {current_thread} \subseteq Ready \cup Waiting \cup Passing
    BY DEF OneList, InThread
  <2>2. PICK W \in SUBSET Threads :
          /\ Listed(W) /\ Waiting = W /\ Ready = Threads \ (W \cup {cpu} \cup Passing)
    BY <2>1, ListsInThread
  <2>3. Passing \cap W = {}
    BY <2>1, <2>2 DEF Listed, Rings, Off, ThreadCode
  <2>4. current_thread = cpu /\ LOCK \notin Threads
    BY <2>1, ListsInThread, PreemptionAssumption
  <2> QED BY <2>2, <2>3, <2>4
<1> QED BY <1>1, InvariantPInv, PTL

\* A thread is alone between lock_acquire and lock_realse although the test of
\* value and its decrement are two statements.
THEOREM LockExcludes == Confined => (Spec => []MutualExclusion)
<1>1. PInv => MutualExclusion
  <2>1. SUFFICES ASSUME PInv
                 PROVE  Cardinality(holds) <= 1
    BY DEF MutualExclusion
  <2>2. holds = {} \/ \E h : holds = {h}
    BY <2>1 DEF PInv, Booting, Running, Locked
  <2>3. Cardinality(holds) = 0 \/ Cardinality(holds) = 1
    BY <2>2, FS_EmptySet, FS_Singleton, Zenon
  <2> QED BY <2>3
<1> QED BY <1>1, InvariantPInv, PTL

\* A thread that lock_acquire has put on the lock's list is not forgotten: the
\* lock is held, lock_realse is under way, or a thread is about to take it.
THEOREM NoWakeupIsLost == Confined => (Spec => []NoLostWakeup)
<1>1. PInv => NoLostWakeup
  <2>1. SUFFICES ASSUME PInv, pc \in ThreadCode, Waiting # {}
                 PROVE  value < 0 \/ pc \in Releasing \/ Retesting # {}
    BY DEF NoLostWakeup, InThread, Releasing
  <2>2. Running /\ cpu \in Threads
    BY <2>1, ListsInThread
  <2>3. PICK W \in SUBSET Threads : Listed(W) /\ Waiting = W
    BY <2>1, ListsInThread
  <2>4. value = 0 \/ value = -1
    BY <2>2 DEF Running, Locked
  <2>5. Point[cpu] = pc /\ \A t \in Threads : Point[t] = IF t = cpu THEN pc ELSE stk[t][1]
    BY <2>1, <2>2 DEF Point
  <2>6. CASE value = 0
    <3>1. \/ Point[cpu] \in Releasing
          \/ \E t \in Threads \ W : Point[t] \in {"acq_test", "acq_take"}
      BY <2>1, <2>3, <2>6 DEF Listed, Heard
    <3> QED BY <2>3, <2>5, <3>1 DEF Retesting
  <2>7. CASE value = -1
    BY <2>7
  <2> QED BY <2>4, <2>6, <2>7
<1> QED BY <1>1, InvariantPInv, PTL
=============================================================================
