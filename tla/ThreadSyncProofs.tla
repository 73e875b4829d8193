-------------------------- MODULE ThreadSyncProofs --------------------------
(***************************************************************************)
(* Proofs about ThreadSync for every set of threads, locks and semaphores. *)
(***************************************************************************)
EXTENDS ThreadSyncHist, ListHeadProofs, FiniteSetTheorems,
        SequenceTheorems

IInv == HTypeOK /\ Coupled /\ ValueFloor

LEMMA InitInv == HInit => IInv
<1> SUFFICES ASSUME HInit PROVE IInv
  OBVIOUS
<1>1. HTypeOK
  <2>1. links \in Links(Node) /\ ticks \in 0 .. SLICE - 1
    BY DEF HInit, Init, Links
  <2>2. value \in [Sync -> Int]
    BY SyncAssumption DEF HInit, Init, InitialValue, Sync
  <2>3. /\ current_thread \in Threads /\ current_thread \in Node
        /\ want \in [Threads -> Sync \cup {NULL}] /\ held \in [Threads -> SUBSET Sync]
        /\ fresh \in SUBSET Threads
    BY ThreadsAssumption DEF HInit, Init, Node
  <2>4. readyQ \in Seq(Threads) /\ waitQ \in [Sync -> Seq(Threads)]
    BY DEF HInit
  <2>5. place \in [Threads -> {"fresh", "running", "ready"} \cup Sync]
    BY DEF HInit
  <2> QED BY <2>1, <2>2, <2>3, <2>4, <2>5 DEF HTypeOK, TypeOK, HInit, Init
<1>2. ReadyRing
  BY PlaceAssumption DEF HInit, Init, ReadyRing, Ring, NoRepeat
<1>3. WaitRings
  BY PlaceAssumption DEF HInit, Init, WaitRings, Ring, NoRepeat, WaitRing, CycSucc, CycPred, Node
<1>4. OffLists
  BY PlaceAssumption DEF HInit, Init, OffLists, Alone, Node
<1>5. InitReady
  BY ThreadsAssumption DEF HInit, Init, InitReady
<1>6. ValueFloor
  BY SyncAssumption DEF HInit, Init, ValueFloor, InitialValue, Sync
<1> QED BY <1>1, <1>2, <1>3, <1>4, <1>5, <1>6 DEF IInv, Coupled

-----------------------------------------------------------------------------
(* Facts about queues and about picking the next thread.                    *)

LEMMA SeqOfThreads == \A q \in Seq(Threads) : q \in Seq(Node)
BY DEF Node

LEMMA SecondOfRing ==
    ASSUME NEW S, NEW q \in Seq(S), q # << >>
    PROVE  /\ Tail(q) # << >> => q[CycSucc(1, Len(q))] = Tail(q)[1]
           /\ Tail(q) = << >> => q[CycSucc(1, Len(q))] = q[1]
<1>1. Len(q) \in Nat /\ Len(q) >= 1 /\ Len(Tail(q)) = Len(q) - 1
  BY TailFacts
<1>2. CASE Len(q) = 1
  <2>1. Tail(q) = << >>
    BY <1>1, <1>2, TailFacts, EmptySeq
  <2> QED BY <1>2, <2>1 DEF CycSucc
<1>3. CASE Len(q) > 1
  <2>1. Tail(q)[1] = q[2]
    BY <1>1, <1>3, TailFacts
  <2> QED BY <1>1, <1>3, <2>1 DEF CycSucc
<1> QED BY <1>1, <1>2, <1>3

\* yield_thread takes the head off a ring that starts at READY_LIST.
LEMMA YieldTakesHead ==
    ASSUME NEW L \in Links(Node), NEW q \in Seq(Threads), q # << >>,
           Ring(L, q), READY_LIST = q[1], yield_thread(L)
    PROVE  /\ links' \in Links(Node)
           /\ Ring(links', Tail(q))
           /\ Alone(links', q[1])
           /\ current_thread' = q[1] /\ READY_THREAD' = q[1]
           /\ Tail(q) # << >> => READY_LIST' = Tail(q)[1]
           /\ Tail(q) = << >> => READY_LIST' = q[1]
           /\ \A x \in Node : (\A i \in 1 .. Len(q) : x # q[i]) =>
                 SameLinks(L, links', x)
<1>1. q \in Seq(Node) /\ 1 \in 1 .. Len(q) /\ Len(q) \in Nat /\ Len(q) >= 1
  BY SeqOfThreads
<1>2. links' = list_del(L, q[1])
  BY DEF yield_thread
<1>3. /\ links' \in Links(Node) /\ Ring(links', Without(q, 1)) /\ Alone(links', q[1])
      /\ \A x \in Node : (\A i \in 1 .. Len(q) : x # q[i]) => SameLinks(L, links', x)
  BY <1>1, <1>2, DelRemoves
<1>4. READY_LIST' = q[CycSucc(1, Len(q))]
  BY <1>1 DEF yield_thread, Ring
<1>5. /\ Tail(q) # << >> => READY_LIST' = Tail(q)[1]
      /\ Tail(q) = << >> => READY_LIST' = q[1]
  BY <1>4, SecondOfRing
<1> QED BY <1>3, <1>5, TailFacts DEF yield_thread

LEMMA WaitRingFacts ==
    ASSUME NEW s \in Sync, NEW w \in Seq(Threads)
    PROVE  /\ WaitRing(s, w) \in Seq(Node) /\ WaitRing(s, w) # << >>
           /\ Len(w) \in Nat /\ Len(WaitRing(s, w)) = Len(w) + 1
           /\ WaitRing(s, w)[1] = s
           /\ \A i \in 1 .. Len(w) : WaitRing(s, w)[i + 1] = w[i]
           /\ \A i \in 1 .. Len(w) + 1 :
                 WaitRing(s, w)[i] = IF i = 1 THEN s ELSE w[i - 1]
<1>1. Len(w) \in Nat /\ \A i \in 1 .. Len(w) : w[i] \in Threads
  OBVIOUS
<1>2. WaitRing(s, w) \in [1 .. Len(w) + 1 -> Node]
  BY <1>1 DEF WaitRing, Node
<1>3. WaitRing(s, w) \in Seq(Node) /\ Len(WaitRing(s, w)) = Len(w) + 1
  BY <1>1, <1>2
<1>4. \A i \in 1 .. Len(w) + 1 : WaitRing(s, w)[i] = IF i = 1 THEN s ELSE w[i - 1]
  BY <1>1 DEF WaitRing
<1>5. WaitRing(s, w) # << >>
  BY <1>1, <1>3
<1> HIDE DEF WaitRing
<1> QED BY <1>1, <1>3, <1>4, <1>5

LEMMA WaitRingAppend ==
    ASSUME NEW s \in Sync, NEW w \in Seq(Threads), NEW t \in Threads
    PROVE  Append(WaitRing(s, w), t) = WaitRing(s, Append(w, t))
<1> DEFINE x == Append(WaitRing(s, w), t)
           y == WaitRing(s, Append(w, t))
<1>1. t \in Node /\ Append(w, t) \in Seq(Threads)
  BY DEF Node
<1>2. x \in Seq(Node) /\ Len(x) = Len(w) + 2
  BY <1>1, WaitRingFacts, AppendFacts
<1>3. /\ y \in Seq(Node) /\ Len(y) = Len(w) + 2
      /\ \A i \in 1 .. Len(w) + 2 : y[i] = IF i = 1 THEN s ELSE Append(w, t)[i - 1]
  <2> DEFINE v == Append(w, t)
  <2>1. v \in Seq(Threads) /\ Len(v) = Len(w) + 1 /\ Len(w) \in Nat
    OBVIOUS
  <2> HIDE DEF v
  <2>2. WaitRing(s, v) \in Seq(Node) /\ Len(WaitRing(s, v)) = Len(w) + 2
    BY <2>1, WaitRingFacts
  <2>3. \A i \in 1 .. Len(v) + 1 : WaitRing(s, v)[i] = IF i = 1 THEN s ELSE v[i - 1]
    BY <2>1, WaitRingFacts
  <2> QED BY <2>1, <2>2, <2>3 DEF v
<1>4. ASSUME NEW i \in 1 .. Len(w) + 2 PROVE x[i] = y[i]
  <2>1. Len(w) \in Nat
    OBVIOUS
  <2>2. x[i] = IF i = Len(w) + 2 THEN t ELSE WaitRing(s, w)[i]
    BY <1>1, <2>1, WaitRingFacts, AppendFacts
  <2>3. y[i] = IF i = 1 THEN s ELSE Append(w, t)[i - 1]
    BY <1>3
  <2>4. i # 1 /\ i # Len(w) + 2 => Append(w, t)[i - 1] = w[i - 1]
    BY <2>1
  <2>5. Append(w, t)[Len(w) + 1] = t
    OBVIOUS
  <2>6. i # Len(w) + 2 => WaitRing(s, w)[i] = IF i = 1 THEN s ELSE w[i - 1]
    BY <2>1, WaitRingFacts
  <2> QED BY <2>1, <2>2, <2>3, <2>4, <2>5, <2>6
<1> HIDE DEF x, y
<1>5. x = y
  BY <1>2, <1>3, <1>4, SeqEqual
<1> QED BY <1>5 DEF x, y

LEMMA WaitRingTail ==
    ASSUME NEW s \in Sync, NEW w \in Seq(Threads), w # << >>
    PROVE  Without(WaitRing(s, w), 2) = WaitRing(s, Tail(w))
<1>1. Len(w) \in Nat /\ Len(w) >= 1 /\ Tail(w) \in Seq(Threads)
      /\ Len(Tail(w)) = Len(w) - 1
  BY TailFacts
<1>2. Len(WaitRing(s, w)) - 1 = Len(w)
  BY <1>1, WaitRingFacts
<1>3. Without(WaitRing(s, w), 2) =
        [i \in 1 .. Len(w) |-> IF i < 2 THEN WaitRing(s, w)[i] ELSE WaitRing(s, w)[i + 1]]
  BY <1>2 DEF Without
<1>4. WaitRing(s, Tail(w)) = [i \in 1 .. Len(w) |-> IF i = 1 THEN s ELSE Tail(w)[i - 1]]
  BY <1>1 DEF WaitRing
<1>5. ASSUME NEW i \in 1 .. Len(w)
      PROVE  (IF i < 2 THEN WaitRing(s, w)[i] ELSE WaitRing(s, w)[i + 1])
                = (IF i = 1 THEN s ELSE Tail(w)[i - 1])
  <2>1. WaitRing(s, w)[1] = s /\ WaitRing(s, w)[i + 1] = w[i]
    BY WaitRingFacts
  <2>2. i # 1 => Tail(w)[i - 1] = w[i]
    BY <1>1, TailFacts
  <2> QED BY <1>1, <2>1, <2>2
<1> QED BY <1>3, <1>4, <1>5

\* A lock's ring survives changes to the links of other nodes.
LEMMA KeepWaitRing ==
    ASSUME IInv, NEW s \in Sync, NEW M,
           \A x \in Node : x = s \/ (x \in Threads /\ place[x] = s)
                              => SameLinks(links, M, x)
    PROVE  Ring(M, WaitRing(s, waitQ[s]))
<1> DEFINE w == waitQ[s]
<1>1. w \in Seq(Threads) /\ Ring(links, WaitRing(s, w))
      /\ \A i \in 1 .. Len(w) : place[w[i]] = s
  BY DEF IInv, HTypeOK, Coupled, WaitRings
<1> HIDE DEF w
<1>2. ASSUME NEW i \in 1 .. Len(WaitRing(s, w))
      PROVE  SameLinks(links, M, WaitRing(s, w)[i])
  <2>1. i \in 1 .. Len(w) + 1 /\ Len(w) \in Nat
    BY <1>1, WaitRingFacts
  <2>2. WaitRing(s, w)[i] = IF i = 1 THEN s ELSE w[i - 1]
    BY <1>1, <2>1, WaitRingFacts
  <2>3. CASE i = 1
    BY <2>2, <2>3 DEF Node
  <2>4. CASE i # 1
    <3>1. i - 1 \in 1 .. Len(w)
      BY <2>1, <2>4
    <3>2. w[i - 1] \in Threads /\ place[w[i - 1]] = s
      BY <1>1, <3>1
    <3> QED BY <2>2, <2>4, <3>2 DEF Node
  <2> QED BY <2>3, <2>4
<1> QED BY <1>1, <1>2, RingFrame DEF w

\* Every conjunct of the invariant that speaks of the blocked threads, when a
\* step leaves them where they are.
LEMMA KeepWaitRings ==
    ASSUME IInv, HTypeOK', UNCHANGED <<waitQ, want>>,
           \A t \in Threads : place'[t] \in Sync \/ place[t] \in Sync => place'[t] = place[t],
           \A x \in Node : x \in Sync \/ (x \in Threads /\ place[x] \in Sync)
                              => SameLinks(links, links', x)
    PROVE  WaitRings'
<1> SUFFICES ASSUME NEW s \in Sync
             PROVE  /\ Ring(links', WaitRing(s, waitQ[s]))
                    /\ \A i \in 1 .. Len(waitQ[s]) : place'[waitQ[s][i]] = s
                    /\ \A t \in Threads : place'[t] = s =>
                          want[t] = s /\ \E i \in 1 .. Len(waitQ[s]) : waitQ[s][i] = t
  BY DEF WaitRings
<1>1. Ring(links', WaitRing(s, waitQ[s]))
  BY KeepWaitRing
<1>2. waitQ[s] \in Seq(Threads)
  BY DEF IInv, HTypeOK
<1>3. /\ \A i \in 1 .. Len(waitQ[s]) : place[waitQ[s][i]] = s
      /\ \A t \in Threads : place[t] = s =>
            want[t] = s /\ \E i \in 1 .. Len(waitQ[s]) : waitQ[s][i] = t
  BY DEF IInv, Coupled, WaitRings
<1>4. \A i \in 1 .. Len(waitQ[s]) : waitQ[s][i] \in Threads
  BY <1>2
<1>5. \A i \in 1 .. Len(waitQ[s]) : place'[waitQ[s][i]] = s
  BY <1>3, <1>4
<1>6. \A t \in Threads : place'[t] = s =>
          want[t] = s /\ \E i \in 1 .. Len(waitQ[s]) : waitQ[s][i] = t
  BY <1>3
<1> QED BY <1>1, <1>5, <1>6

-----------------------------------------------------------------------------
(* One lemma per action: it preserves the invariant.                        *)

LEMMA AdmitInv ==
    ASSUME IInv, NEW t \in Threads, HAdmit(t)
    PROVE  IInv'
<1> USE DEF IInv, Coupled, HTypeOK, TypeOK
<1>1. /\ t \in fresh /\ fresh' = fresh \ {t} /\ ~booted /\ booted' = booted
      /\ current_thread' = current_thread /\ UNCHANGED <<want, held, waitQ>>
      /\ READY_THREAD' = READY_THREAD /\ UNCHANGED <<ticks, value, intr>>
      /\ readyQ' = Append(readyQ, t) /\ place' = [place EXCEPT ![t] = "ready"]
  BY DEF HAdmit, init_ready_list, init_add_ready
<1>2. place[t] = "fresh" /\ Alone(links, t) /\ t \in Node
  BY <1>1 DEF OffLists, Node
<1>3. \A i \in 1 .. Len(readyQ) : readyQ[i] \in Threads /\ place[readyQ[i]] = "ready"
                                /\ readyQ[i] # t
  BY <1>2 DEF ReadyRing
<1>4. /\ links' \in Links(Node) /\ Ring(links', readyQ')
      /\ READY_LIST' = readyQ'[1] /\ READY_LIST' \in Node
      /\ \A x \in Node : (x # t /\ \A i \in 1 .. Len(readyQ) : x # readyQ[i])
                             => SameLinks(links, links', x)
  <2>1. CASE init_ready_list(t)
    <3>1. readyQ = << >> /\ links' = links /\ READY_LIST' = t
      <4>1. READY_LIST = NULL /\ links' = links /\ READY_LIST' = t
        BY <2>1 DEF init_ready_list
      <4>2. readyQ # << >> => READY_LIST \in Threads
        BY DEF ReadyRing
      <4> QED BY <4>1, <4>2, NullAssumption
    <3>2. readyQ' = <<t>>
      BY <1>1, <3>1
    <3>3. Ring(links, <<t>>)
      BY <1>2 DEF Ring, NoRepeat, CycSucc, CycPred, Alone
    <3> QED BY <1>2, <3>1, <3>2, <3>3 DEF SameLinks
  <2>2. CASE init_add_ready(t)
    <3>1. READY_LIST # NULL /\ READY_LIST' = READY_LIST
          /\ links' = list_add_tail(links, t, links.prev[READY_LIST])
      BY <2>2 DEF init_add_ready
    <3>2. readyQ # << >> /\ READY_LIST = readyQ[1] /\ Ring(links, readyQ)
      BY <1>1, <3>1 DEF ReadyRing, InitReady
    <3>3. readyQ \in Seq(Node) /\ links \in Links(Node)
      BY SeqOfThreads
    <3>4. /\ links' \in Links(Node) /\ Ring(links', Append(readyQ, t))
          /\ \A x \in Node : (x # t /\ \A i \in 1 .. Len(readyQ) : x # readyQ[i])
                             => SameLinks(links, links', x)
      BY <1>2, <1>3, <3>1, <3>2, <3>3, AddTailAppends
    <3>5. Append(readyQ, t)[1] = readyQ[1]
      BY <3>2
    <3> QED BY <1>1, <3>1, <3>2, <3>4, <3>5
  <2> QED BY <2>1, <2>2 DEF HAdmit
<1>5. HTypeOK'
  <2>1. readyQ' \in Seq(Threads)
    BY <1>1
  <2>2. place' \in [Threads -> {"fresh", "running", "ready"} \cup Sync]
    BY <1>1
  <2> QED BY <1>1, <1>4, <2>1, <2>2
<1>6. ReadyRing'
  <2>1. readyQ' # << >> /\ Len(readyQ') = Len(readyQ) + 1 /\ Len(readyQ) \in Nat
        /\ readyQ'[Len(readyQ) + 1] = t
        /\ \A i \in 1 .. Len(readyQ) : readyQ'[i] = readyQ[i]
    <3>1. readyQ \in Seq(Threads)
      OBVIOUS
    <3>2. /\ Append(readyQ, t) # << >> /\ Len(readyQ) \in Nat
          /\ Len(Append(readyQ, t)) = Len(readyQ) + 1
          /\ Append(readyQ, t)[Len(readyQ) + 1] = t
          /\ \A i \in 1 .. Len(readyQ) : Append(readyQ, t)[i] = readyQ[i]
      BY <3>1, AppendFacts
    <3> QED BY <3>2, <1>1, Zenon
  <2>2. \A i \in 1 .. Len(readyQ') : place'[readyQ'[i]] = "ready"
    BY <1>1, <1>3, <2>1
  <2>3. ASSUME NEW u \in Threads, place'[u] = "ready"
        PROVE  \E i \in 1 .. Len(readyQ') : readyQ'[i] = u
    <3>1. CASE u = t
      BY <2>1, <3>1
    <3>2. CASE u # t
      <4>1. place[u] = "ready"
        BY <1>1, <2>3, <3>2
      <4>2. PICK i \in 1 .. Len(readyQ) : readyQ[i] = u
        BY <4>1 DEF ReadyRing
      <4> QED BY <2>1, <4>2
    <3> QED BY <3>1, <3>2
  <2> QED BY <1>4, <2>1, <2>2, <2>3 DEF ReadyRing
<1>7. \A u \in Threads : place'[u] \in Sync \/ place[u] \in Sync => place'[u] = place[u]
  BY <1>1, <1>2, PlaceAssumption
<1>8. \A x \in Node : x \in Sync \/ (x \in Threads /\ place[x] \in Sync)
                           => SameLinks(links, links', x)
  BY <1>2, <1>3, <1>4, PlaceAssumption, SyncAssumption DEF Sync
<1>9. WaitRings'
  BY <1>1, <1>5, <1>7, <1>8, KeepWaitRings
<1>10. OffLists'
  <2>1. ASSUME NEW u \in Threads, place'[u] \in {"fresh", "running"}
        PROVE  Alone(links', u)
    <3>1. u # t /\ place[u] \in {"fresh", "running"} /\ u \in Node
      BY <1>1, <2>1 DEF Node
    <3>2. SameLinks(links, links', u)
      BY <1>3, <1>4, <3>1
    <3> QED BY <3>1, <3>2 DEF OffLists, SameLinks, Alone
  <2> QED BY <1>1, <1>2, <2>1 DEF OffLists
<1>11. InitReady'
  BY <1>1, <1>2, <1>4 DEF InitReady
<1>12. ValueFloor'
  BY <1>1 DEF ValueFloor
<1> QED BY <1>5, <1>6, <1>9, <1>10, <1>11, <1>12

\* Steps that move no thread: init_sti, timer_count and acquire_take.
LEMMA StayInv ==
    ASSUME IInv, UNCHANGED <<links, READY_LIST, current_thread, fresh, hist>>,
           TypeOK', ValueFloor', held'[init_struct] = {},
           \A t \in Threads : place[t] \in Sync => want'[t] = want[t],
           booted' => fresh = {}, booted => booted'
    PROVE  IInv'
<1>1. HTypeOK' /\ ReadyRing' /\ OffLists' /\ InitReady'
  BY DEF IInv, HTypeOK, Coupled, ReadyRing, OffLists, InitReady, hist
<1>2. WaitRings'
  <2> SUFFICES ASSUME NEW s \in Sync
               PROVE  /\ Ring(links, WaitRing(s, waitQ[s]))
                      /\ \A i \in 1 .. Len(waitQ[s]) : place[waitQ[s][i]] = s
                      /\ \A t \in Threads : place[t] = s =>
                            want'[t] = s /\ \E i \in 1 .. Len(waitQ[s]) : waitQ[s][i] = t
    BY DEF WaitRings, hist
  <2> QED BY DEF IInv, Coupled, WaitRings
<1> QED BY <1>1, <1>2 DEF IInv, Coupled

LEMMA StiInv == ASSUME IInv, HSti PROVE IInv'
<1>1. /\ UNCHANGED <<links, READY_LIST, fresh, hist, ticks, value, want, held>>
      /\ current_thread' = init_struct /\ READY_THREAD' = READY_LIST
      /\ intr' = TRUE /\ booted' = TRUE /\ ~booted /\ fresh = {}
  BY DEF HSti, init_sti
<1>2. current_thread' = current_thread
  BY <1>1 DEF IInv, Coupled, InitReady
<1>3. TypeOK' /\ ValueFloor' /\ held'[init_struct] = {}
  BY <1>1, <1>2 DEF IInv, HTypeOK, TypeOK, ValueFloor, Coupled, InitReady
<1> QED BY <1>1, <1>2, <1>3, StayInv

LEMMA CountInv == ASSUME IInv, HCount PROVE IInv'
<1>1. /\ UNCHANGED <<links, READY_LIST, READY_THREAD, current_thread, fresh, hist,
                      value, want, held, intr, booted>>
      /\ ticks' = (ticks + 1) % SLICE
  BY DEF HCount, timer_count, sched
<1>2. ticks' \in 0 .. SLICE - 1
  BY <1>1, SliceAssumption DEF IInv, HTypeOK, TypeOK
<1>3. TypeOK' /\ ValueFloor' /\ held'[init_struct] = {} /\ (booted' => fresh = {})
  BY <1>1, <1>2 DEF IInv, HTypeOK, TypeOK, ValueFloor, Coupled, InitReady
<1> QED BY <1>1, <1>3, StayInv

LEMMA TakeInv ==
    ASSUME IInv, NEW t \in Threads, NEW s \in Sync, HTake(t, s)
    PROVE  IInv'
<1>1. /\ UNCHANGED <<links, READY_LIST, READY_THREAD, current_thread, fresh, hist,
                      intr, booted, ticks>>
      /\ value' = [value EXCEPT ![s] = @ - 1] /\ ~(value[s] < 0)
      /\ held' = [held EXCEPT ![t] = @ \cup {s}]
      /\ want' = [want EXCEPT ![t] = NULL]
      /\ t = current_thread /\ t # init_struct
  BY DEF HTake, acquire_take, sched, Calls
<1>2. value' \in [Sync -> Int] /\ ValueFloor'
  BY <1>1 DEF IInv, HTypeOK, TypeOK, ValueFloor
<1>3. TypeOK' /\ held'[init_struct] = {} /\ (booted' => fresh = {})
  BY <1>1, <1>2, ThreadsAssumption DEF IInv, HTypeOK, TypeOK, Coupled, InitReady
<1>4. \A u \in Threads : place[u] \in Sync => want'[u] = want[u]
  BY <1>1, PlaceAssumption DEF IInv, HTypeOK, TypeOK, Coupled, OffLists
<1> QED BY <1>1, <1>2, <1>3, <1>4, StayInv

LEMMA RotateInv ==
    ASSUME IInv, HRotate
    PROVE  IInv'
<1> DEFINE c == current_thread
           q == Append(readyQ, c)
           L == list_add_tail(links, c, links.prev[READY_LIST])
<1>1. /\ READY_LIST # NULL /\ yield_thread(L) /\ ticks' = 0
      /\ readyQ' = Tail(q)
      /\ place' = [[place EXCEPT ![c] = "ready"] EXCEPT ![q[1]] = "running"]
      /\ UNCHANGED <<value, booted, fresh, want, held, waitQ>> /\ booted
  BY DEF HRotate, timer_switch, irq00
<1>2. /\ c \in Threads /\ c \in Node /\ place[c] = "running" /\ Alone(links, c)
      /\ links \in Links(Node) /\ readyQ \in Seq(Threads) /\ readyQ \in Seq(Node)
  BY SeqOfThreads DEF IInv, HTypeOK, TypeOK, Coupled, OffLists, Node
<1>3. \A i \in 1 .. Len(readyQ) : readyQ[i] \in Threads /\ place[readyQ[i]] = "ready"
                                /\ readyQ[i] # c
  BY <1>2 DEF IInv, Coupled, ReadyRing
<1>4. /\ q \in Seq(Threads) /\ q # << >> /\ Len(q) = Len(readyQ) + 1 /\ Len(readyQ) \in Nat
      /\ q[Len(readyQ) + 1] = c /\ \A i \in 1 .. Len(readyQ) : q[i] = readyQ[i]
  BY <1>2, AppendFacts
<1>5. /\ L \in Links(Node) /\ Ring(L, q) /\ READY_LIST = q[1]
      /\ \A x \in Node : (x # c /\ \A i \in 1 .. Len(readyQ) : x # readyQ[i])
                             => SameLinks(links, L, x)
  <2>1. CASE readyQ # << >>
    <3>1. READY_LIST = readyQ[1] /\ Ring(links, readyQ)
      BY <2>1 DEF IInv, Coupled, ReadyRing
    <3>2. q[1] = readyQ[1]
      BY <1>2, <1>4, <2>1
    <3> QED BY <1>2, <1>3, <2>1, <3>1, <3>2, AddTailAppends
  <2>2. CASE readyQ = << >>
    <3>1. READY_LIST = c
      BY <1>1, <2>2 DEF IInv, Coupled, ReadyRing
    <3>2. links.prev[c] = c /\ links.next[c] = c
      BY <1>2 DEF Alone
    <3>3. L = [next |-> [[links.next EXCEPT ![c] = c] EXCEPT ![c] = c],
               prev |-> [[links.prev EXCEPT ![c] = c] EXCEPT ![c] = c]]
      BY <3>1, <3>2 DEF list_add_tail, list_insert
    <3>4. L \in Links(Node) /\ \A x \in Node : SameLinks(links, L, x)
      BY <1>2, <3>2, <3>3 DEF Links, SameLinks
    <3>5. q = <<c>>
      BY <2>2
    <3>6. Ring(L, <<c>>)
      BY <1>2, <3>2, <3>4 DEF Ring, NoRepeat, CycSucc, CycPred, SameLinks
    <3> QED BY <3>1, <3>4, <3>5, <3>6
  <2> QED BY <2>1, <2>2
<1> HIDE DEF q, L
<1>6. /\ links' \in Links(Node) /\ Ring(links', Tail(q)) /\ Alone(links', q[1])
      /\ current_thread' = q[1] /\ READY_THREAD' = q[1]
      /\ Tail(q) # << >> => READY_LIST' = Tail(q)[1]
      /\ Tail(q) = << >> => READY_LIST' = q[1]
      /\ \A x \in Node : (\A i \in 1 .. Len(q) : x # q[i]) => SameLinks(L, links', x)
  BY <1>1, <1>4, <1>5, YieldTakesHead
<1>7. /\ q[1] \in Threads /\ Tail(q) \in Seq(Threads) /\ Len(Tail(q)) = Len(q) - 1
      /\ \A i \in 1 .. Len(q) - 1 : Tail(q)[i] = q[i + 1]
  BY <1>4, TailFacts
<1>8. \A x \in Node : (x # c /\ \A i \in 1 .. Len(readyQ) : x # readyQ[i])
                          => SameLinks(links, links', x)
  <2> SUFFICES ASSUME NEW x \in Node, x # c, \A i \in 1 .. Len(readyQ) : x # readyQ[i]
               PROVE  SameLinks(links, links', x)
    OBVIOUS
  <2>1. \A i \in 1 .. Len(q) : x # q[i]
    BY <1>4
  <2>2. SameLinks(L, links', x) /\ SameLinks(links, L, x)
    BY <1>5, <1>6, <2>1
  <2> QED BY <2>2 DEF SameLinks
<1>9. \A i \in 1 .. Len(q) : q[i] = c \/ (q[i] \in Threads /\ place[q[i]] = "ready")
  BY <1>3, <1>4
<1>10. \A i, j \in 1 .. Len(q) : q[i] = q[j] => i = j
  BY <1>5, Zenon DEF Ring, NoRepeat
<1>11. place \in [Threads -> {"fresh", "running", "ready"} \cup Sync]
  BY DEF IInv, HTypeOK
<1>12. \A u \in Threads : place'[u] = IF u = q[1] THEN "running"
                                      ELSE IF u = c THEN "ready" ELSE place[u]
  BY <1>1, <1>2, <1>7, <1>11
<1>13. intr' \in BOOLEAN
  BY <1>1 DEF yield_thread, ResumeFlag
<1>14. HTypeOK'
  <2>1. place' \in [Threads -> {"fresh", "running", "ready"} \cup Sync]
    BY <1>1, <1>2, <1>7, <1>11
  <2>2. READY_LIST' \in Node
    <3>1. CASE Tail(q) = << >>
      BY <3>1, <1>6, <1>7 DEF Node
    <3>2. CASE Tail(q) # << >>
      <4>1. Tail(q)[1] \in Threads
        BY <3>2, <1>7
      <4> QED BY <3>2, <4>1, <1>6 DEF Node
    <3> QED BY <3>1, <3>2
  <2>3. ticks' \in 0 .. SLICE - 1
    BY <1>1, SliceAssumption
  <2> QED BY <1>1, <1>6, <1>7, <1>13, <2>1, <2>2, <2>3 DEF IInv, HTypeOK, TypeOK, Node
<1>15. ReadyRing'
  <2>1. \A i \in 1 .. Len(Tail(q)) : place'[Tail(q)[i]] = "ready"
    <3> SUFFICES ASSUME NEW i \in 1 .. Len(q) - 1
                 PROVE  place'[q[i + 1]] = "ready"
      BY <1>7
    <3>1. i + 1 \in 1 .. Len(q) /\ 1 \in 1 .. Len(q) /\ i + 1 # 1
      BY <1>4
    <3>2. q[i + 1] # q[1]
      BY <3>1, <1>10
    <3> QED BY <3>1, <3>2, <1>2, <1>9, <1>12
  <2>2. ASSUME NEW u \in Threads, place'[u] = "ready"
        PROVE  \E i \in 1 .. Len(Tail(q)) : Tail(q)[i] = u
    <3>1. u # q[1] /\ (u = c \/ place[u] = "ready")
      BY <2>2, <1>12
    <3>2. \E j \in 1 .. Len(q) : q[j] = u
      <4>1. CASE u = c
        BY <4>1, <1>4
      <4>2. CASE place[u] = "ready"
        <5>1. PICK j \in 1 .. Len(readyQ) : readyQ[j] = u
          BY <4>2 DEF IInv, Coupled, ReadyRing
        <5> QED BY <5>1, <1>4
      <4> QED BY <3>1, <4>1, <4>2
    <3>3. PICK j \in 1 .. Len(q) : q[j] = u
      BY <3>2
    <3>4. j # 1 /\ j - 1 \in 1 .. Len(q) - 1 /\ (j - 1) + 1 = j
      BY <3>1, <3>3, <1>4
    <3> QED BY <3>3, <3>4, <1>7
  <2> QED BY <1>1, <1>6, <2>1, <2>2 DEF ReadyRing
<1>16. WaitRings'
  <2>1. \A u \in Threads : place'[u] \in Sync \/ place[u] \in Sync => place'[u] = place[u]
    <3>1. q[1] = c \/ place[q[1]] = "ready"
      BY <1>4, <1>9
    <3> QED BY <3>1, <1>2, <1>7, <1>12, PlaceAssumption
  <2>2. \A x \in Node : x \in Sync \/ (x \in Threads /\ place[x] \in Sync)
                           => SameLinks(links, links', x)
    BY <1>2, <1>3, <1>8, PlaceAssumption, SyncAssumption DEF Sync
  <2> QED BY <1>1, <1>14, <2>1, <2>2, KeepWaitRings
<1>17. OffLists'
  <2>1. ASSUME NEW u \in Threads, place'[u] \in {"fresh", "running"}
        PROVE  Alone(links', u)
    <3>1. CASE u = q[1]
      BY <3>1, <1>6
    <3>2. CASE u # q[1]
      <4>1. u # c /\ place[u] \in {"fresh", "running"} /\ u \in Node
        BY <2>1, <3>2, <1>12 DEF Node
      <4>2. SameLinks(links, links', u)
        BY <4>1, <1>3, <1>8
      <4> QED BY <4>1, <4>2 DEF IInv, Coupled, OffLists, SameLinks, Alone
    <3> QED BY <3>1, <3>2
  <2>2. \A u \in Threads : place'[u] = "running" <=> u = q[1]
    BY <1>12 DEF IInv, Coupled, OffLists
  <2>3. \A u \in Threads : place'[u] = "fresh" <=> place[u] = "fresh"
    <3>1. q[1] = c \/ place[q[1]] = "ready"
      BY <1>4, <1>9
    <3> QED BY <3>1, <1>2, <1>12
  <2> QED BY <1>1, <1>6, <2>1, <2>2, <2>3 DEF IInv, Coupled, OffLists
<1>18. InitReady'
  BY <1>1, <1>12, ThreadsAssumption DEF IInv, Coupled, InitReady
<1>19. ValueFloor'
  BY <1>1 DEF IInv, ValueFloor
<1> QED BY <1>14, <1>15, <1>16, <1>17, <1>18, <1>19 DEF IInv, Coupled

\* While a thread other than init runs, init is ready: READY_LIST is a thread.
LEMMA SomeoneReady ==
    ASSUME IInv, current_thread # init_struct
    PROVE  /\ readyQ # << >> /\ READY_LIST = readyQ[1] /\ Ring(links, readyQ)
           /\ readyQ[1] \in Threads
<1>1. place[init_struct] = "ready"
  BY ThreadsAssumption DEF IInv, Coupled, InitReady, OffLists
<1>2. readyQ \in Seq(Threads)
  BY DEF IInv, HTypeOK
<1>3. PICK i \in 1 .. Len(readyQ) : readyQ[i] = init_struct
  BY <1>1, ThreadsAssumption DEF IInv, Coupled, ReadyRing
<1>4. readyQ # << >>
  BY <1>2, <1>3
<1> QED BY <1>2, <1>4, TailFacts DEF IInv, Coupled, ReadyRing

LEMMA BlockInv ==
    ASSUME IInv, NEW t \in Threads, NEW s \in Sync, HBlock(t, s)
    PROVE  IInv'
<1> DEFINE L == list_add_tail(links, t, links.prev[s])
           w == waitQ[s]
           n == readyQ[1]
<1>1. /\ t = current_thread /\ t # init_struct /\ yield_thread(L)
      /\ want' = [want EXCEPT ![t] = s]
      /\ waitQ' = [waitQ EXCEPT ![s] = Append(w, t)]
      /\ readyQ' = Tail(readyQ)
      /\ place' = [[place EXCEPT ![t] = s] EXCEPT ![n] = "running"]
      /\ UNCHANGED <<ticks, value, booted, fresh, held>> /\ booted
  BY DEF HBlock, acquire_block, Calls
<1>2. /\ t \in Node /\ s \in Node /\ place[t] = "running" /\ links \in Links(Node)
      /\ readyQ \in Seq(Threads) /\ w \in Seq(Threads) /\ t # s
      /\ place \in [Threads -> {"fresh", "running", "ready"} \cup Sync]
      /\ waitQ \in [Sync -> Seq(Threads)] /\ want \in [Threads -> Sync \cup {NULL}]
  BY <1>1, SyncAssumption DEF IInv, HTypeOK, TypeOK, Coupled, OffLists, Node, Sync
<1>3. readyQ # << >> /\ READY_LIST = n /\ Ring(links, readyQ) /\ n \in Threads
  BY <1>1, SomeoneReady
<1>4. \A i \in 1 .. Len(readyQ) : /\ readyQ[i] \in Threads /\ place[readyQ[i]] = "ready"
                                /\ readyQ[i] # t /\ readyQ[i] \in Node
  BY <1>2 DEF IInv, Coupled, ReadyRing, Node
<1>5. \A i \in 1 .. Len(w) : w[i] \in Threads /\ place[w[i]] = s /\ w[i] # t
  BY <1>2, PlaceAssumption DEF IInv, Coupled, WaitRings
<1>6. place[n] = "ready" /\ n # t
  BY <1>2, <1>3, <1>4, TailFacts
<1> HIDE DEF w, n, L
<1>7. /\ WaitRing(s, w) \in Seq(Node) /\ WaitRing(s, w) # << >> /\ WaitRing(s, w)[1] = s
      /\ Len(w) \in Nat /\ Len(WaitRing(s, w)) = Len(w) + 1
      /\ \A i \in 1 .. Len(w) + 1 : WaitRing(s, w)[i] = IF i = 1 THEN s ELSE w[i - 1]
  BY <1>2, WaitRingFacts
<1>8. ASSUME NEW i \in 1 .. Len(WaitRing(s, w))
      PROVE  /\ WaitRing(s, w)[i] # t
             /\ \/ WaitRing(s, w)[i] = s
                \/ WaitRing(s, w)[i] \in Threads /\ place[WaitRing(s, w)[i]] = s
  <2>1. i \in 1 .. Len(w) + 1
    BY <1>7
  <2>2. i # 1 => i - 1 \in 1 .. Len(w)
    BY <2>1, <1>7
  <2>3. WaitRing(s, w)[i] = IF i = 1 THEN s ELSE w[i - 1]
    BY <1>7, <2>1
  <2> QED BY <1>2, <1>5, <2>2, <2>3
<1>9. Ring(links, WaitRing(s, w))
  BY DEF IInv, Coupled, WaitRings, w
<1>10. /\ L \in Links(Node) /\ Ring(L, Append(WaitRing(s, w), t))
       /\ \A x \in Node : (x # t /\ \A i \in 1 .. Len(WaitRing(s, w)) : x # WaitRing(s, w)[i])
                              => SameLinks(links, L, x)
  <2> DEFINE r == WaitRing(s, w)
  <2>1. r \in Seq(Node) /\ r # << >> /\ \A i \in 1 .. Len(r) : r[i] # t
    BY <1>7, <1>8
  <2>2. Ring(links, r) /\ L = list_add_tail(links, t, links.prev[r[1]])
    BY <1>7, <1>9 DEF L
  <2> HIDE DEF r
  <2>3. /\ L \in Links(Node) /\ Ring(L, Append(r, t))
        /\ \A x \in Node : (x # t /\ \A i \in 1 .. Len(r) : x # r[i]) => SameLinks(links, L, x)
    BY <1>2, <2>1, <2>2, AddTailAppends
  <2> QED BY <2>3 DEF r
<1>11. Ring(L, WaitRing(s, Append(w, t)))
  BY <1>2, <1>10, WaitRingAppend
<1>12. ASSUME NEW x \in Node, x # t, x # s, x \in Threads => place[x] # s
       PROVE  SameLinks(links, L, x)
  <2>1. \A i \in 1 .. Len(WaitRing(s, w)) : x # WaitRing(s, w)[i]
    BY <1>8, <1>12
  <2> QED BY <2>1, <1>10, <1>12
<1>13. Ring(L, readyQ)
  <2>1. \A i \in 1 .. Len(readyQ) : SameLinks(links, L, readyQ[i])
    BY <1>4, <1>12, PlaceAssumption, SyncAssumption DEF Sync
  <2> QED BY <1>3, <2>1, RingFrame
<1>14. /\ links' \in Links(Node) /\ Ring(links', Tail(readyQ)) /\ Alone(links', n)
       /\ current_thread' = n /\ READY_THREAD' = n
       /\ Tail(readyQ) # << >> => READY_LIST' = Tail(readyQ)[1]
       /\ Tail(readyQ) = << >> => READY_LIST' = n
       /\ \A x \in Node : (\A i \in 1 .. Len(readyQ) : x # readyQ[i]) => SameLinks(L, links', x)
  BY <1>1, <1>2, <1>3, <1>10, <1>13, YieldTakesHead DEF n
<1>15. /\ Len(readyQ) \in Nat /\ Len(readyQ) >= 1 /\ Tail(readyQ) \in Seq(Threads)
       /\ Len(Tail(readyQ)) = Len(readyQ) - 1
       /\ \A i \in 1 .. Len(readyQ) - 1 : Tail(readyQ)[i] = readyQ[i + 1]
  BY <1>2, <1>3, TailFacts
<1>16. \A u \in Threads : place'[u] = IF u = n THEN "running"
                                      ELSE IF u = t THEN s ELSE place[u]
  BY <1>1, <1>2, <1>3
<1>17. \A x \in Node : (x \in Threads => place[x] # "ready") => SameLinks(L, links', x)
  BY <1>4, <1>14
<1>18. HTypeOK'
  <2>1. place' \in [Threads -> {"fresh", "running", "ready"} \cup Sync]
    BY <1>1, <1>2, <1>3
  <2>2. READY_LIST' \in Node
    <3>1. CASE Tail(readyQ) = << >>
      BY <3>1, <1>3, <1>14 DEF Node
    <3>2. CASE Tail(readyQ) # << >>
      <4>1. Tail(readyQ)[1] \in Threads
        BY <3>2, <1>15
      <4> QED BY <3>2, <4>1, <1>14 DEF Node
    <3> QED BY <3>1, <3>2
  <2>3. waitQ' \in [Sync -> Seq(Threads)] /\ want' \in [Threads -> Sync \cup {NULL}]
    BY <1>1, <1>2, AppendFacts
  <2>4. intr' \in BOOLEAN
    BY <1>1 DEF yield_thread, ResumeFlag
  <2> QED BY <1>1, <1>3, <1>14, <1>15, <2>1, <2>2, <2>3, <2>4 DEF IInv, HTypeOK, TypeOK, Node
<1>19. ReadyRing'
  <2>1. \A i \in 1 .. Len(Tail(readyQ)) : place'[Tail(readyQ)[i]] = "ready"
    <3> SUFFICES ASSUME NEW i \in 1 .. Len(readyQ) - 1
                 PROVE  place'[readyQ[i + 1]] = "ready"
      BY <1>15
    <3>1. i + 1 \in 1 .. Len(readyQ) /\ 1 \in 1 .. Len(readyQ) /\ i + 1 # 1
      BY <1>15
    <3>2. readyQ[i + 1] # n
      BY <3>1, <1>3 DEF Ring, NoRepeat, n
    <3> QED BY <3>1, <3>2, <1>4, <1>16
  <2>2. ASSUME NEW u \in Threads, place'[u] = "ready"
        PROVE  \E i \in 1 .. Len(Tail(readyQ)) : Tail(readyQ)[i] = u
    <3>1. u # n /\ place[u] = "ready"
      BY <2>2, <1>16, PlaceAssumption
    <3>2. PICK j \in 1 .. Len(readyQ) : readyQ[j] = u
      BY <3>1 DEF IInv, Coupled, ReadyRing
    <3>3. j # 1 /\ j - 1 \in 1 .. Len(readyQ) - 1 /\ (j - 1) + 1 = j
      BY <3>1, <3>2, <1>15 DEF n
    <3> QED BY <3>2, <3>3, <1>15
  <2> QED BY <1>1, <1>14, <2>1, <2>2 DEF ReadyRing, n
<1>20. WaitRings'
  <2> SUFFICES ASSUME NEW r \in Sync
               PROVE  /\ Ring(links', WaitRing(r, waitQ'[r]))
                      /\ \A i \in 1 .. Len(waitQ'[r]) : place'[waitQ'[r][i]] = r
                      /\ \A u \in Threads : place'[u] = r =>
                            want'[u] = r /\ \E i \in 1 .. Len(waitQ'[r]) : waitQ'[r][i] = u
    BY DEF WaitRings
  <2>1. CASE r = s
    <3> DEFINE v == Append(w, t)
    <3>1. waitQ'[s] = v /\ want'[t] = s /\ \A u \in Threads : u # t => want'[u] = want[u]
      BY <1>1, <1>2
    <3>2. /\ v \in Seq(Threads) /\ Len(v) = Len(w) + 1 /\ v[Len(w) + 1] = t
          /\ \A i \in 1 .. Len(w) : v[i] = w[i]
      BY <1>2, AppendFacts
    <3> HIDE DEF v
    <3>3. \A i \in 1 .. Len(v) : v[i] \in Threads /\ (v[i] = t \/ place[v[i]] = s)
      BY <1>5, <1>7, <3>2
    <3>4. Ring(links', WaitRing(s, v))
      <4>1. /\ Len(WaitRing(s, v)) = Len(v) + 1 /\ Len(v) \in Nat
            /\ \A i \in 1 .. Len(v) + 1 : WaitRing(s, v)[i] = IF i = 1 THEN s ELSE v[i - 1]
        BY <3>2, WaitRingFacts
      <4>2. ASSUME NEW i \in 1 .. Len(v) + 1
            PROVE  SameLinks(L, links', WaitRing(s, v)[i])
        <5>1. i # 1 => i - 1 \in 1 .. Len(v)
          BY <4>1
        <5>2. CASE i = 1
          BY <5>2, <4>1, <1>2, <1>17, SyncAssumption DEF Sync
        <5>3. CASE i # 1
          <6>1. WaitRing(s, v)[i] = v[i - 1] /\ i - 1 \in 1 .. Len(v)
            BY <5>1, <5>3, <4>1
          <6>2. /\ v[i - 1] \in Threads /\ v[i - 1] \in Node
                /\ v[i - 1] = t \/ place[v[i - 1]] = s
            BY <6>1, <3>3 DEF Node
          <6>3. place[v[i - 1]] # "ready"
            BY <6>2, <1>2, <1>6, PlaceAssumption
          <6> QED BY <6>1, <6>2, <6>3, <1>17
        <5> QED BY <5>2, <5>3
      <4>3. Ring(L, WaitRing(s, v))
        BY <1>11 DEF v
      <4> QED BY <4>1, <4>2, <4>3, RingFrame
    <3>5. \A i \in 1 .. Len(v) : place'[v[i]] = s
      BY <3>3, <1>6, <1>16, PlaceAssumption
    <3>6. ASSUME NEW u \in Threads, place'[u] = s
          PROVE  want'[u] = s /\ \E i \in 1 .. Len(v) : v[i] = u
      <4>1. CASE u = t
        BY <4>1, <3>1, <3>2, <1>7
      <4>2. CASE u # t
        <5>1. place[u] = s
          BY <3>6, <4>2, <1>16, PlaceAssumption
        <5>2. want[u] = s /\ \E i \in 1 .. Len(w) : w[i] = u
          BY <5>1 DEF IInv, Coupled, WaitRings, w
        <5>3. PICK i \in 1 .. Len(w) : w[i] = u
          BY <5>2
        <5>4. i \in 1 .. Len(v) /\ v[i] = u
          BY <5>3, <3>2, <1>7
        <5> QED BY <4>2, <5>2, <5>4, <3>1
      <4> QED BY <4>1, <4>2
    <3> QED BY <2>1, <3>1, <3>4, <3>5, <3>6
  <2>2. CASE r # s
    <3>1. waitQ'[r] = waitQ[r] /\ waitQ[r] \in Seq(Threads)
      BY <1>1, <1>2, <2>2
    <3>2. \A x \in Node : x = r \/ (x \in Threads /\ place[x] = r)
                              => SameLinks(links, links', x)
      <4> SUFFICES ASSUME NEW x \in Node, x = r \/ (x \in Threads /\ place[x] = r)
                   PROVE  SameLinks(links, links', x)
        OBVIOUS
      <4>1. x # t /\ x # s /\ (x \in Threads => place[x] # s /\ place[x] # "ready")
        BY <1>2, <2>2, PlaceAssumption, SyncAssumption DEF Sync
      <4>2. SameLinks(links, L, x) /\ SameLinks(L, links', x)
        BY <4>1, <1>12, <1>17
      <4> QED BY <4>2 DEF SameLinks
    <3>3. Ring(links', WaitRing(r, waitQ[r]))
      BY <3>2, KeepWaitRing
    <3>4. \A i \in 1 .. Len(waitQ[r]) : waitQ[r][i] \in Threads /\ place[waitQ[r][i]] = r
      BY <3>1 DEF IInv, Coupled, WaitRings
    <3>5. \A i \in 1 .. Len(waitQ[r]) : place'[waitQ[r][i]] = r
      BY <3>4, <1>2, <1>6, <1>16, PlaceAssumption
    <3>6. ASSUME NEW u \in Threads, place'[u] = r
          PROVE  want'[u] = r /\ \E i \in 1 .. Len(waitQ[r]) : waitQ[r][i] = u
      <4>1. place[u] = r /\ u # t
        BY <3>6, <2>2, <1>16, PlaceAssumption
      <4> QED BY <4>1, <1>1, <1>2 DEF IInv, Coupled, WaitRings
    <3> QED BY <3>1, <3>3, <3>5, <3>6
  <2> QED BY <2>1, <2>2
<1>21. OffLists'
  <2>1. ASSUME NEW u \in Threads, place'[u] \in {"fresh", "running"}
        PROVE  Alone(links', u)
    <3>1. CASE u = n
      BY <3>1, <1>14
    <3>2. CASE u # n
      <4>1. u # t /\ place[u] \in {"fresh", "running"} /\ u \in Node
        BY <2>1, <3>2, <1>16, PlaceAssumption DEF Node
      <4>2. u # s /\ place[u] # s /\ place[u] # "ready"
        BY <4>1, PlaceAssumption, SyncAssumption DEF Sync
      <4>3. SameLinks(links, L, u) /\ SameLinks(L, links', u)
        BY <4>1, <4>2, <1>12, <1>17
      <4> QED BY <4>1, <4>3 DEF IInv, Coupled, OffLists, SameLinks, Alone
    <3> QED BY <3>1, <3>2
  <2>2. \A u \in Threads : place'[u] = "running" <=> u = n
    BY <1>1, <1>16, PlaceAssumption DEF IInv, Coupled, OffLists
  <2>3. \A u \in Threads : place'[u] = "fresh" <=> place[u] = "fresh"
    BY <1>2, <1>6, <1>16, PlaceAssumption
  <2> QED BY <1>1, <1>14, <2>1, <2>2, <2>3 DEF IInv, Coupled, OffLists
<1>22. InitReady'
  BY <1>1, <1>16, ThreadsAssumption DEF IInv, Coupled, InitReady
<1>23. ValueFloor'
  BY <1>1 DEF IInv, ValueFloor
<1> QED BY <1>18, <1>19, <1>20, <1>21, <1>22, <1>23 DEF IInv, Coupled

LEMMA WakeInv ==
    ASSUME IInv, HandOff, NEW t \in Threads, NEW s \in Sync, HWake(t, s)
    PROVE  IInv'
<1> DEFINE w == waitQ[s]
           e == links.next[s]
           L == list_del(links, e)
<1>1. /\ t = current_thread /\ t # init_struct /\ e # s /\ s \in held[t] /\ booted
      /\ value' = [value EXCEPT ![s] = @ + 1]
      /\ value[s] + 1 >= 0 => links' = list_add_tail(L, e, L.prev[READY_LIST])
      /\ held' = [held EXCEPT ![t] = @ \ {s}]
      /\ UNCHANGED <<READY_LIST, READY_THREAD, current_thread, intr, ticks, booted, fresh, want>>
      /\ waitQ' = [waitQ EXCEPT ![s] = Tail(w)]
      /\ readyQ' = Append(readyQ, w[1])
      /\ place' = [place EXCEPT ![w[1]] = "ready"]
  BY DEF HWake, realse, IInv, Coupled, InitReady
<1>2. /\ s \in Node /\ place[t] = "running" /\ links \in Links(Node)
      /\ readyQ \in Seq(Threads) /\ readyQ \in Seq(Node) /\ w \in Seq(Threads)
      /\ place \in [Threads -> {"fresh", "running", "ready"} \cup Sync]
      /\ waitQ \in [Sync -> Seq(Threads)] /\ held \in [Threads -> SUBSET Sync]
      /\ value \in [Sync -> Int] /\ Ring(links, WaitRing(s, w))
  BY <1>1, SeqOfThreads DEF IInv, HTypeOK, TypeOK, Coupled, OffLists, WaitRings, Node
<1>3. readyQ # << >> /\ READY_LIST = readyQ[1] /\ Ring(links, readyQ)
  BY <1>1, SomeoneReady
<1>4. links' = list_add_tail(L, e, L.prev[READY_LIST])
  BY <1>1, <1>2 DEF IInv, ValueFloor
<1> HIDE DEF w, L
<1>5. /\ WaitRing(s, w) \in Seq(Node) /\ WaitRing(s, w)[1] = s
      /\ Len(w) \in Nat /\ Len(WaitRing(s, w)) = Len(w) + 1
      /\ \A i \in 1 .. Len(w) + 1 : WaitRing(s, w)[i] = IF i = 1 THEN s ELSE w[i - 1]
  BY <1>2, WaitRingFacts
<1>6. Len(w) >= 1 /\ e = w[1] /\ WaitRing(s, w)[2] = w[1] /\ w # << >>
  <2>1. e = WaitRing(s, w)[CycSucc(1, Len(w) + 1)]
    <3>1. 1 \in 1 .. Len(WaitRing(s, w))
      BY <1>5
    <3> QED BY <3>1, <1>2, <1>5 DEF Ring
  <2>2. Len(w) # 0
    BY <2>1, <1>1, <1>5 DEF CycSucc
  <2>3. Len(w) >= 1 /\ CycSucc(1, Len(w) + 1) = 2 /\ WaitRing(s, w)[2] = w[1]
    BY <2>2, <1>5 DEF CycSucc
  <2> QED BY <2>1, <2>2, <2>3, <1>2
<1> HIDE DEF e
<1>7. \A i \in 1 .. Len(w) : w[i] \in Threads /\ place[w[i]] = s
  BY <1>2 DEF IInv, Coupled, WaitRings, w
<1>8. e \in Threads /\ e \in Node /\ place[e] = s /\ place[e] # "ready" /\ e # t
  BY <1>2, <1>5, <1>6, <1>7, PlaceAssumption DEF Node
<1>9. /\ L \in Links(Node) /\ Ring(L, WaitRing(s, Tail(w))) /\ Alone(L, e)
      /\ \A x \in Node : (x # s /\ (x \in Threads => place[x] # s)) => SameLinks(links, L, x)
  <2> DEFINE r == WaitRing(s, w)
  <2>1. r \in Seq(Node) /\ 2 \in 1 .. Len(r) /\ L = list_del(links, r[2]) /\ Ring(links, r)
        /\ r[2] = e
    BY <1>2, <1>5, <1>6 DEF L
  <2>2. Without(r, 2) = WaitRing(s, Tail(w))
    BY <1>2, <1>6, WaitRingTail
  <2>3. \A i \in 1 .. Len(r) : r[i] = s \/ (r[i] \in Threads /\ place[r[i]] = s)
    <3> SUFFICES ASSUME NEW i \in 1 .. Len(w) + 1
                 PROVE  r[i] = s \/ (r[i] \in Threads /\ place[r[i]] = s)
      BY <1>5
    <3>1. i # 1 => i - 1 \in 1 .. Len(w)
      BY <1>5
    <3> QED BY <3>1, <1>5, <1>7
  <2> HIDE DEF r
  <2>4. /\ L \in Links(Node) /\ Ring(L, Without(r, 2)) /\ Alone(L, r[2])
        /\ \A x \in Node : (\A i \in 1 .. Len(r) : x # r[i]) => SameLinks(links, L, x)
    BY <1>2, <2>1, DelRemoves
  <2> QED BY <2>1, <2>2, <2>3, <2>4
<1>10. \A i \in 1 .. Len(readyQ) : /\ readyQ[i] \in Threads /\ place[readyQ[i]] = "ready"
                                 /\ readyQ[i] # e /\ readyQ[i] \in Node
  BY <1>2, <1>8 DEF IInv, Coupled, ReadyRing, Node
<1>11. Ring(L, readyQ)
  <2>1. \A i \in 1 .. Len(readyQ) : SameLinks(links, L, readyQ[i])
    BY <1>9, <1>10, PlaceAssumption, SyncAssumption DEF Sync
  <2> QED BY <1>3, <2>1, RingFrame
<1>12. /\ links' \in Links(Node) /\ Ring(links', Append(readyQ, e))
       /\ \A x \in Node : (x # e /\ \A i \in 1 .. Len(readyQ) : x # readyQ[i])
                              => SameLinks(L, links', x)
  BY <1>2, <1>3, <1>4, <1>8, <1>9, <1>10, <1>11, AddTailAppends
<1>13. \A x \in Node : (x # e /\ (x \in Threads => place[x] # "ready"))
                           => SameLinks(L, links', x)
  BY <1>10, <1>12
<1>14. readyQ' = Append(readyQ, e) /\ place' = [place EXCEPT ![e] = "ready"]
  BY <1>1, <1>6
<1>15. /\ Append(readyQ, e) \in Seq(Threads) /\ Append(readyQ, e) # << >>
       /\ Len(readyQ) \in Nat /\ Len(Append(readyQ, e)) = Len(readyQ) + 1
       /\ Append(readyQ, e)[Len(readyQ) + 1] = e
       /\ \A i \in 1 .. Len(readyQ) : Append(readyQ, e)[i] = readyQ[i]
  BY <1>2, <1>8, AppendFacts
<1>16. /\ Tail(w) \in Seq(Threads) /\ Len(Tail(w)) = Len(w) - 1
       /\ \A i \in 1 .. Len(w) - 1 : Tail(w)[i] = w[i + 1]
  BY <1>2, <1>6, TailFacts
<1>17. \A u \in Threads : place'[u] = IF u = e THEN "ready" ELSE place[u]
  BY <1>2, <1>14
<1>18. HTypeOK'
  <2>1. place' \in [Threads -> {"fresh", "running", "ready"} \cup Sync]
    BY <1>2, <1>14
  <2>2. waitQ' \in [Sync -> Seq(Threads)] /\ held' \in [Threads -> SUBSET Sync]
    BY <1>1, <1>2, <1>16
  <2>3. value' \in [Sync -> Int] /\ readyQ' \in Seq(Threads)
    BY <1>1, <1>2, <1>14, <1>15
  <2> QED BY <1>1, <1>12, <2>1, <2>2, <2>3 DEF IInv, HTypeOK, TypeOK
<1>19. ReadyRing'
  <2> DEFINE q == Append(readyQ, e)
  <2>1. q[1] = readyQ[1]
    BY <1>2, <1>3, <1>15
  <2> HIDE DEF q
  <2>2. \A i \in 1 .. Len(q) : place'[q[i]] = "ready"
    BY <1>8, <1>10, <1>15, <1>17 DEF q
  <2>3. ASSUME NEW u \in Threads, place'[u] = "ready"
        PROVE  \E i \in 1 .. Len(q) : q[i] = u
    <3>1. CASE u = e
      BY <3>1, <1>15 DEF q
    <3>2. CASE u # e
      <4>1. place[u] = "ready"
        BY <2>3, <3>2, <1>17
      <4>2. PICK i \in 1 .. Len(readyQ) : readyQ[i] = u
        BY <4>1 DEF IInv, Coupled, ReadyRing
      <4> QED BY <4>2, <1>15 DEF q
    <3> QED BY <3>1, <3>2
  <2>4. q # << >> /\ readyQ' = q /\ Ring(links', q) /\ READY_LIST' = q[1]
    BY <1>1, <1>3, <1>12, <1>14, <1>15, <2>1 DEF q
  <2> QED BY <2>2, <2>3, <2>4 DEF ReadyRing
<1>20. WaitRings'
  <2> SUFFICES ASSUME NEW r \in Sync
               PROVE  /\ Ring(links', WaitRing(r, waitQ'[r]))
                      /\ \A i \in 1 .. Len(waitQ'[r]) : place'[waitQ'[r][i]] = r
                      /\ \A u \in Threads : place'[u] = r =>
                            want'[u] = r /\ \E i \in 1 .. Len(waitQ'[r]) : waitQ'[r][i] = u
    BY DEF WaitRings
  <2>0. want' = want
    BY <1>1
  <2>1. CASE r = s
    <3> DEFINE v == Tail(w)
    <3>1. waitQ'[s] = v /\ v \in Seq(Threads) /\ Len(v) = Len(w) - 1
          /\ \A i \in 1 .. Len(w) - 1 : v[i] = w[i + 1]
      BY <1>1, <1>2, <1>16
    <3> HIDE DEF v
    <3>2. \A i, j \in 1 .. Len(w) : w[i] = w[j] => i = j
      <4> SUFFICES ASSUME NEW i \in 1 .. Len(w), NEW j \in 1 .. Len(w), w[i] = w[j]
                   PROVE  i = j
        OBVIOUS
      <4>1. WaitRing(s, w)[i + 1] = w[i] /\ WaitRing(s, w)[j + 1] = w[j]
        BY <1>2, WaitRingFacts
      <4>2. i + 1 \in 1 .. Len(WaitRing(s, w)) /\ j + 1 \in 1 .. Len(WaitRing(s, w))
        BY <1>5
      <4>3. i + 1 = j + 1
        BY <4>1, <4>2, <1>2 DEF Ring, NoRepeat
      <4> QED BY <4>3, <1>5
    <3>3. \A i \in 1 .. Len(v) : v[i] \in Threads /\ place[v[i]] = s /\ v[i] # e
      <4> SUFFICES ASSUME NEW i \in 1 .. Len(w) - 1
                   PROVE  w[i + 1] \in Threads /\ place[w[i + 1]] = s /\ w[i + 1] # e
        BY <3>1
      <4>1. i + 1 \in 1 .. Len(w) /\ 1 \in 1 .. Len(w) /\ i + 1 # 1
        BY <1>5
      <4> QED BY <4>1, <1>6, <1>7, <3>2
    <3>4. Ring(links', WaitRing(s, v))
      <4>1. /\ Len(WaitRing(s, v)) = Len(v) + 1 /\ Len(v) \in Nat
            /\ \A i \in 1 .. Len(v) + 1 : WaitRing(s, v)[i] = IF i = 1 THEN s ELSE v[i - 1]
        BY <3>1, WaitRingFacts
      <4>2. ASSUME NEW i \in 1 .. Len(v) + 1
            PROVE  SameLinks(L, links', WaitRing(s, v)[i])
        <5>1. i # 1 => i - 1 \in 1 .. Len(v)
          BY <4>1
        <5>2. CASE i = 1
          BY <5>2, <4>1, <1>2, <1>8, <1>13, SyncAssumption DEF Sync
        <5>3. CASE i # 1
          BY <5>1, <5>3, <4>1, <3>3, <1>13, PlaceAssumption DEF Node
        <5> QED BY <5>2, <5>3
      <4>3. Ring(L, WaitRing(s, v))
        BY <1>9 DEF v
      <4> QED BY <4>1, <4>2, <4>3, RingFrame
    <3>5. \A i \in 1 .. Len(v) : place'[v[i]] = s
      BY <3>3, <1>17
    <3>6. ASSUME NEW u \in Threads, place'[u] = s
          PROVE  want[u] = s /\ \E i \in 1 .. Len(v) : v[i] = u
      <4>1. u # e /\ place[u] = s
        BY <3>6, <1>17, PlaceAssumption
      <4>2. want[u] = s /\ \E i \in 1 .. Len(w) : w[i] = u
        BY <4>1 DEF IInv, Coupled, WaitRings, w
      <4>3. PICK i \in 1 .. Len(w) : w[i] = u
        BY <4>2
      <4>4. i # 1 /\ i - 1 \in 1 .. Len(w) - 1 /\ (i - 1) + 1 = i
        BY <4>1, <4>3, <1>5, <1>6
      <4>5. i - 1 \in 1 .. Len(v) /\ v[i - 1] = u
        BY <4>3, <4>4, <3>1
      <4> QED BY <4>2, <4>5
    <3> QED BY <2>0, <2>1, <3>1, <3>4, <3>5, <3>6
  <2>2. CASE r # s
    <3>1. waitQ'[r] = waitQ[r] /\ waitQ[r] \in Seq(Threads)
      BY <1>1, <1>2, <2>2
    <3>2. \A x \in Node : x = r \/ (x \in Threads /\ place[x] = r)
                              => SameLinks(links, links', x)
      <4> SUFFICES ASSUME NEW x \in Node, x = r \/ (x \in Threads /\ place[x] = r)
                   PROVE  SameLinks(links, links', x)
        OBVIOUS
      <4>1. x # e /\ x # s /\ (x \in Threads => place[x] # s /\ place[x] # "ready")
        BY <1>8, <2>2, PlaceAssumption, SyncAssumption DEF Sync
      <4>2. SameLinks(links, L, x) /\ SameLinks(L, links', x)
        BY <4>1, <1>9, <1>13
      <4> QED BY <4>2 DEF SameLinks
    <3>3. Ring(links', WaitRing(r, waitQ[r]))
      BY <3>2, KeepWaitRing
    <3>4. \A i \in 1 .. Len(waitQ[r]) : waitQ[r][i] \in Threads /\ place[waitQ[r][i]] = r
      BY <3>1 DEF IInv, Coupled, WaitRings
    <3>5. \A i \in 1 .. Len(waitQ[r]) : place'[waitQ[r][i]] = r
      BY <3>4, <2>2, <1>8, <1>17
    <3>6. ASSUME NEW u \in Threads, place'[u] = r
          PROVE  want[u] = r /\ \E i \in 1 .. Len(waitQ[r]) : waitQ[r][i] = u
      <4>1. place[u] = r
        BY <3>6, <1>17, PlaceAssumption
      <4> QED BY <4>1 DEF IInv, Coupled, WaitRings
    <3> QED BY <2>0, <3>1, <3>3, <3>5, <3>6
  <2> QED BY <2>1, <2>2
<1>21. OffLists'
  <2>1. ASSUME NEW u \in Threads, place'[u] \in {"fresh", "running"}
        PROVE  Alone(links', u)
    <3>1. u # e /\ place[u] \in {"fresh", "running"} /\ u \in Node
      BY <2>1, <1>17 DEF Node
    <3>2. u # s /\ place[u] # s /\ place[u] # "ready"
      BY <3>1, PlaceAssumption, SyncAssumption DEF Sync
    <3>3. SameLinks(links, L, u) /\ SameLinks(L, links', u)
      BY <3>1, <3>2, <1>9, <1>13
    <3> QED BY <3>1, <3>3 DEF IInv, Coupled, OffLists, SameLinks, Alone
  <2>2. \A u \in Threads : /\ place'[u] = "running" <=> place[u] = "running"
                           /\ place'[u] = "fresh" <=> place[u] = "fresh"
    BY <1>8, <1>17, PlaceAssumption
  <2> QED BY <1>1, <2>1, <2>2 DEF IInv, Coupled, OffLists
<1>22. InitReady'
  <2>1. held'[init_struct] = {}
    BY <1>1, <1>2, ThreadsAssumption DEF IInv, Coupled, InitReady
  <2> QED BY <1>1, <1>15, <1>14, <1>17, <2>1, ThreadsAssumption DEF IInv, Coupled, InitReady
<1>23. ValueFloor'
  BY <1>1, <1>2 DEF IInv, ValueFloor
<1> QED BY <1>18, <1>19, <1>20, <1>21, <1>22, <1>23 DEF IInv, Coupled

-----------------------------------------------------------------------------
LEMMA NextInv == ASSUME HandOff, IInv, [HNext]_hvars PROVE IInv'
<1>1. CASE UNCHANGED hvars
  BY <1>1 DEF hvars, vars, hist, IInv, HTypeOK, TypeOK, Coupled, ReadyRing, WaitRings,
              OffLists, InitReady, ValueFloor
<1>2. ASSUME NEW t \in Threads, HAdmit(t) PROVE IInv'
  BY <1>2, AdmitInv
<1>3. CASE HSti
  BY <1>3, StiInv
<1>4. CASE HCount
  BY <1>4, CountInv
<1>5. CASE HRotate
  BY <1>5, RotateInv
<1>6. ASSUME NEW t \in Threads, NEW s \in Sync, HTake(t, s) PROVE IInv'
  BY <1>6, TakeInv
<1>7. ASSUME NEW t \in Threads, NEW s \in Sync, HBlock(t, s) PROVE IInv'
  BY <1>7, BlockInv
<1>8. ASSUME NEW t \in Threads, NEW s \in Sync, HWake(t, s) PROVE IInv'
  BY <1>8, WakeInv
<1> QED BY <1>1, <1>2, <1>3, <1>4, <1>5, <1>6, <1>7, <1>8 DEF HNext

\* For every number of threads, locks and semaphores: when clients release only
\* what a thread waits for, timer_handler, yield_thread, lock_acquire and
\* lock_realse keep the linked lists equal to first-in first-out queues with
\* every thread in exactly one place.
THEOREM ListsAreQueues == ASSUME HandOff PROVE HSpec => []Coupled
<1>1. HInit => IInv
  BY InitInv
<1>2. IInv /\ [HNext]_hvars => IInv'
  BY NextInv
<1>3. IInv => Coupled
  BY DEF IInv
<1> QED BY <1>1, <1>2, <1>3, PTL DEF HSpec

\* Every variable of the thread system keeps its type, and the running thread
\* is a thread.
THEOREM TypesHold == ASSUME HandOff PROVE HSpec => []HTypeOK
<1>1. HInit => IInv
  BY InitInv
<1>2. IInv /\ [HNext]_hvars => IInv'
  BY NextInv
<1>3. IInv => HTypeOK
  BY DEF IInv
<1> QED BY <1>1, <1>2, <1>3, PTL DEF HSpec

-----------------------------------------------------------------------------
(* What follows from the lists being queues: how many threads a lock or a  *)
(* semaphore admits, that no wakeup is lost, and that the pointer code     *)
(* implements the abstract round-robin scheduler.                          *)

\* The inductive invariant: the lists are queues, the values count the holders
\* and no wakeup is lost.
FullInv == IInv /\ Admission /\ NoLostWakeup

LEMMA CountedSets ==
    \A s : /\ IsFiniteSet(Holders(s)) /\ Cardinality(Holders(s)) \in Nat
           /\ IsFiniteSet(Retesters(s)) /\ Cardinality(Retesters(s)) \in Nat
<1> SUFFICES ASSUME NEW s
             PROVE  /\ IsFiniteSet(Holders(s)) /\ Cardinality(Holders(s)) \in Nat
                    /\ IsFiniteSet(Retesters(s)) /\ Cardinality(Retesters(s)) \in Nat
  OBVIOUS
<1>1. Holders(s) \in SUBSET Threads /\ Retesters(s) \in SUBSET Threads
  BY DEF Holders, Retesters
<1>2. IsFiniteSet(Holders(s)) /\ IsFiniteSet(Retesters(s))
  BY <1>1, ThreadsAssumption, FS_Subset
<1> QED BY <1>2, FS_CardinalityType

LEMMA FullInit == HInit => FullInv
<1> SUFFICES ASSUME HInit PROVE FullInv
  OBVIOUS
<1>1. IInv
  BY InitInv
<1>2. \A s \in Sync : Holders(s) = {} /\ waitQ[s] = << >> /\ value[s] = InitialValue(s)
  BY DEF HInit, Init, Holders
<1>3. \A s \in Sync : InitialValue(s) \in Nat
  BY SyncAssumption DEF Sync, InitialValue
<1>4. Admission
  <2>1. \A s \in Sync : Cardinality(Holders(s)) = 0
    BY <1>2, FS_EmptySet, Zenon
  <2>2. ValueFloor
    BY <1>1 DEF IInv
  <2>3. ASSUME NEW s \in Sync PROVE value[s] + Cardinality(Holders(s)) = InitialValue(s)
    BY <2>1, <1>2, <1>3
  <2> QED BY <2>2, <2>3 DEF Admission
<1>5. NoLostWakeup
  BY <1>2 DEF NoLostWakeup
<1> QED BY <1>1, <1>4, <1>5 DEF FullInv

-----------------------------------------------------------------------------
(* The values count the holders.                                            *)

LEMMA KeepAdmission ==
    ASSUME Admission, ValueFloor', UNCHANGED <<value, held>>
    PROVE  Admission'
BY DEF Admission, Holders

LEMMA AdmissionStep ==
    ASSUME HandOff, FullInv, [HNext]_hvars PROVE Admission'
<1>0. IInv' /\ ValueFloor' /\ Admission
  BY NextInv DEF FullInv, IInv
<1>1. CASE UNCHANGED <<value, held>>
  BY <1>0, <1>1, KeepAdmission
<1>2. ASSUME NEW t \in Threads, NEW s \in Sync, HTake(t, s) PROVE Admission'
  <2>1. /\ value' = [value EXCEPT ![s] = @ - 1]
        /\ held' = [held EXCEPT ![t] = @ \cup {s}] /\ s \notin held[t]
    BY <1>2 DEF HTake, acquire_take, Calls
  <2>2. value \in [Sync -> Int] /\ held \in [Threads -> SUBSET Sync]
    BY DEF FullInv, IInv, HTypeOK, TypeOK
  <2>3. Holders(s)' = Holders(s) \cup {t} /\ t \notin Holders(s)
    BY <2>1, <2>2 DEF Holders
  <2>4. Cardinality(Holders(s)') = Cardinality(Holders(s)) + 1
    BY <2>3, CountedSets, FS_AddElement
  <2>5. \A r \in Sync : r # s => Holders(r)' = Holders(r) /\ value'[r] = value[r]
    BY <2>1, <2>2 DEF Holders
  <2>6. value'[s] = value[s] - 1 /\ value[s] \in Int /\ Cardinality(Holders(s)) \in Nat
    BY <2>1, <2>2, CountedSets
  <2> QED BY <1>0, <2>4, <2>5, <2>6 DEF Admission
<1>3. ASSUME NEW t \in Threads, NEW s \in Sync, HWake(t, s) PROVE Admission'
  <2>1. /\ value' = [value EXCEPT ![s] = @ + 1]
        /\ held' = [held EXCEPT ![t] = @ \ {s}] /\ s \in held[t]
    BY <1>3 DEF HWake, realse
  <2>2. value \in [Sync -> Int] /\ held \in [Threads -> SUBSET Sync]
    BY DEF FullInv, IInv, HTypeOK, TypeOK
  <2>3. Holders(s)' = Holders(s) \ {t} /\ t \in Holders(s)
    BY <2>1, <2>2 DEF Holders
  <2>4. Cardinality(Holders(s)') = Cardinality(Holders(s)) - 1
    BY <2>3, CountedSets, FS_RemoveElement
  <2>5. \A r \in Sync : r # s => Holders(r)' = Holders(r) /\ value'[r] = value[r]
    BY <2>1, <2>2 DEF Holders
  <2>6. value'[s] = value[s] + 1 /\ value[s] \in Int /\ Cardinality(Holders(s)) \in Nat
    BY <2>1, <2>2, CountedSets
  <2> QED BY <1>0, <2>4, <2>5, <2>6 DEF Admission
<1>4. \/ UNCHANGED <<value, held>>
      \/ \E t \in Threads, s \in Sync : HTake(t, s) \/ HWake(t, s)
  BY DEF HNext, HAdmit, init_ready_list, init_add_ready, HSti, init_sti, HCount, timer_count,
         HRotate, timer_switch, HBlock, acquire_block, hvars, vars
<1> QED BY <1>1, <1>2, <1>3, <1>4

-----------------------------------------------------------------------------
(* No lost wakeup.                                                          *)

\* A list head linked to something else has a thread behind it.
LEMMA WaitersLinked ==
    ASSUME IInv, NEW s \in Sync, links.next[s] # s
    PROVE  waitQ[s] # << >>
<1>1. waitQ[s] \in Seq(Threads) /\ Ring(links, WaitRing(s, waitQ[s]))
  BY DEF IInv, HTypeOK, Coupled, WaitRings
<1>2. /\ WaitRing(s, waitQ[s])[1] = s /\ Len(waitQ[s]) \in Nat
      /\ Len(WaitRing(s, waitQ[s])) = Len(waitQ[s]) + 1
  BY <1>1, WaitRingFacts
<1>3. links.next[s] = WaitRing(s, waitQ[s])[CycSucc(1, Len(waitQ[s]) + 1)]
  <2>1. 1 \in 1 .. Len(WaitRing(s, waitQ[s]))
    BY <1>2
  <2> QED BY <2>1, <1>1, <1>2 DEF Ring
<1>4. Len(waitQ[s]) # 0
  BY <1>2, <1>3 DEF CycSucc
<1> QED BY <1>1, <1>2, <1>4

LEMMA WakeupStep ==
    ASSUME HandOff, FullInv, [HNext]_hvars PROVE NoLostWakeup'
<1>0. /\ value \in [Sync -> Int] /\ want \in [Threads -> Sync \cup {NULL}]
      /\ place \in [Threads -> {"fresh", "running", "ready"} \cup Sync]
      /\ waitQ \in [Sync -> Seq(Threads)]
      /\ \A t \in Threads : place[t] = "running" <=> t = current_thread
      /\ current_thread \in Threads
  BY DEF FullInv, IInv, HTypeOK, TypeOK, Coupled, OffLists
<1>01. \A s \in Sync : waitQ[s] # << >> => value[s] < Cardinality(Retesters(s))
  BY DEF FullInv, NoLostWakeup
<1>02. \A s \in Sync : value'[s] \in Int /\ waitQ'[s] \in Seq(Threads)
  BY NextInv DEF FullInv, IInv, HTypeOK, TypeOK
<1>1. ASSUME UNCHANGED <<waitQ, want, value>>,
             \A u \in Threads, s \in Sync : place'[u] = s <=> place[u] = s
      PROVE  NoLostWakeup'
  <2>1. \A s \in Sync : Retesters(s)' = Retesters(s)
    BY <1>1 DEF Retesters
  <2> QED BY <1>0, <1>01, <1>1, <2>1 DEF NoLostWakeup
<1>2. ASSUME NEW t \in Threads, HAdmit(t) PROVE NoLostWakeup'
  <2>1. UNCHANGED <<waitQ, want, value>> /\ place' = [place EXCEPT ![t] = "ready"]
        /\ t \in fresh
    BY <1>2 DEF HAdmit, init_ready_list, init_add_ready
  <2>2. place[t] = "fresh"
    BY <2>1 DEF FullInv, IInv, Coupled, OffLists
  <2>3. \A u \in Threads, s \in Sync : place'[u] = s <=> place[u] = s
    BY <1>0, <2>1, <2>2, PlaceAssumption
  <2> QED BY <1>1, <2>1, <2>3
<1>3. CASE HSti \/ HCount \/ UNCHANGED hvars
  BY <1>1, <1>3 DEF HSti, init_sti, HCount, timer_count, hist, hvars, vars
<1>4. CASE HRotate
  <2> DEFINE n == Append(readyQ, current_thread)[1]
  <2>1. UNCHANGED <<waitQ, want, value>>
        /\ place' = [[place EXCEPT ![current_thread] = "ready"] EXCEPT ![n] = "running"]
    BY <1>4 DEF HRotate, timer_switch
  <2>2. n = current_thread \/ (n \in Threads /\ place[n] = "ready")
    <3>1. readyQ \in Seq(Threads) /\ \A i \in 1 .. Len(readyQ) : place[readyQ[i]] = "ready"
      BY DEF FullInv, IInv, HTypeOK, Coupled, ReadyRing
    <3>2. CASE readyQ = << >>
      BY <3>2
    <3>3. CASE readyQ # << >>
      <4>1. Len(readyQ) \in Nat /\ Len(readyQ) >= 1 /\ readyQ[1] \in Threads
        BY <3>1, <3>3, TailFacts
      <4>2. n = readyQ[1]
        BY <1>0, <3>1, <4>1, AppendFacts
      <4> QED BY <3>1, <4>1, <4>2
    <3> QED BY <3>2, <3>3
  <2> HIDE DEF n
  <2>3. \A u \in Threads, s \in Sync : place'[u] = s <=> place[u] = s
    BY <1>0, <2>1, <2>2, PlaceAssumption
  <2> QED BY <1>1, <2>1, <2>3
<1>5. ASSUME NEW t \in Threads, NEW s \in Sync, HTake(t, s) PROVE NoLostWakeup'
  <2>1. /\ value' = [value EXCEPT ![s] = @ - 1] /\ want' = [want EXCEPT ![t] = NULL]
        /\ waitQ' = waitQ /\ place' = place /\ want[t] \in {NULL, s}
    BY <1>5 DEF HTake, acquire_take, Calls, hist
  <2>2. \A r \in Sync : Retesters(r)' = Retesters(r) \/ (r = s /\ Retesters(r)' = Retesters(r) \ {t})
    BY <1>0, <2>1, NullAssumption DEF Retesters, Sync
  <2> SUFFICES ASSUME NEW r \in Sync, waitQ'[r] # << >>
               PROVE  value'[r] < Cardinality(Retesters(r)')
    BY DEF NoLostWakeup
  <2>3. value[r] < Cardinality(Retesters(r)) /\ value[r] \in Int
        /\ Cardinality(Retesters(r)) \in Nat
    BY <1>0, <1>01, <2>1, CountedSets
  <2>4. CASE r = s
    <3>1. value'[r] = value[r] - 1
      BY <1>0, <2>1, <2>4
    <3>2. Cardinality(Retesters(r)') >= Cardinality(Retesters(r)) - 1
      <4>1. CASE Retesters(r)' = Retesters(r)
        BY <4>1, <2>3
      <4>2. CASE Retesters(r)' = Retesters(r) \ {t}
        <5>1. Cardinality(Retesters(r) \ {t}) =
                IF t \in Retesters(r) THEN Cardinality(Retesters(r)) - 1
                                      ELSE Cardinality(Retesters(r))
          BY CountedSets, FS_RemoveElement
        <5> QED BY <4>2, <5>1, <2>3
      <4> QED BY <4>1, <4>2, <2>2
    <3>3. Cardinality(Retesters(r)') \in Nat
      <4>1. CASE Retesters(r)' = Retesters(r)
        BY <4>1, <2>3
      <4>2. CASE Retesters(r)' = Retesters(r) \ {t}
        BY <4>2, CountedSets, FS_RemoveElement, FS_CardinalityType
      <4> QED BY <4>1, <4>2, <2>2
    <3> QED BY <2>3, <3>1, <3>2, <3>3
  <2>5. CASE r # s
    BY <1>0, <2>1, <2>2, <2>3, <2>5
  <2> QED BY <2>4, <2>5
<1>6. ASSUME NEW t \in Threads, NEW s \in Sync, HBlock(t, s) PROVE NoLostWakeup'
  <2> DEFINE n == readyQ[1]
  <2>1. /\ value' = value /\ want' = [want EXCEPT ![t] = s] /\ value[s] < 0
        /\ waitQ' = [waitQ EXCEPT ![s] = Append(waitQ[s], t)] /\ want[t] \in {NULL, s}
        /\ place' = [[place EXCEPT ![t] = s] EXCEPT ![n] = "running"]
        /\ t = current_thread /\ t # init_struct
    BY <1>6 DEF HBlock, acquire_block, Calls
  <2>2. n \in Threads /\ place[n] = "ready" /\ n # t
    <3>1. readyQ # << >> /\ n \in Threads /\ readyQ \in Seq(Threads)
      BY <2>1, SomeoneReady DEF FullInv, IInv, HTypeOK
    <3>2. 1 \in 1 .. Len(readyQ)
      BY <3>1, TailFacts
    <3> QED BY <1>0, <2>1, <3>1, <3>2 DEF FullInv, IInv, Coupled, ReadyRing
  <2> HIDE DEF n
  <2> SUFFICES ASSUME NEW r \in Sync, waitQ'[r] # << >>
               PROVE  value'[r] < Cardinality(Retesters(r)')
    BY DEF NoLostWakeup
  <2>3. CASE r = s
    <3>1. Retesters(r)' \in SUBSET Threads
      BY DEF Retesters
    <3>2. Cardinality(Retesters(r)') \in Nat
      BY <3>1, ThreadsAssumption, FS_Subset, FS_CardinalityType
    <3> QED BY <1>0, <2>1, <2>3, <3>2
  <2>4. CASE r # s
    <3>1. place'[n] = "running" /\ place'[t] = s
          /\ \A u \in Threads : u # n /\ u # t => place'[u] = place[u]
      BY <1>0, <2>1, <2>2
    <3>2. want'[t] = s /\ \A u \in Threads : u # t => want'[u] = want[u]
      BY <1>0, <2>1
    <3>3. ASSUME NEW u \in Threads
          PROVE  (want'[u] = r /\ place'[u] # r) <=> (want[u] = r /\ place[u] # r)
      <4>1. CASE u = t
        BY <4>1, <2>1, <2>4, <3>2, NullAssumption DEF Sync
      <4>2. CASE u = n
        BY <4>2, <2>2, <3>1, <3>2, PlaceAssumption
      <4>3. CASE u # t /\ u # n
        BY <4>3, <3>1, <3>2
      <4> QED BY <4>1, <4>2, <4>3
    <3>4. Retesters(r)' = Retesters(r)
      BY <3>3 DEF Retesters
    <3>5. waitQ'[r] = waitQ[r]
      BY <1>0, <2>1, <2>4
    <3> QED BY <1>01, <2>1, <3>4, <3>5
  <2> QED BY <2>3, <2>4
<1>7. ASSUME NEW t \in Threads, NEW s \in Sync, HWake(t, s) PROVE NoLostWakeup'
  <2> DEFINE e == waitQ[s][1]
  <2>1. /\ value' = [value EXCEPT ![s] = @ + 1] /\ want' = want
        /\ waitQ' = [waitQ EXCEPT ![s] = Tail(waitQ[s])]
        /\ place' = [place EXCEPT ![e] = "ready"] /\ links.next[s] # s
    BY <1>7 DEF HWake, realse
  <2>2. waitQ[s] # << >> /\ e \in Threads /\ place[e] = s /\ want[e] = s
    <3>1. waitQ[s] # << >> /\ waitQ[s] \in Seq(Threads)
      BY <1>0, <2>1, WaitersLinked DEF FullInv
    <3>2. 1 \in 1 .. Len(waitQ[s])
      BY <3>1, TailFacts
    <3> QED BY <3>1, <3>2 DEF FullInv, IInv, Coupled, WaitRings
  <2> HIDE DEF e
  <2> SUFFICES ASSUME NEW r \in Sync, waitQ'[r] # << >>
               PROVE  value'[r] < Cardinality(Retesters(r)')
    BY DEF NoLostWakeup
  <2>3. CASE r = s
    <3>1. Retesters(s)' = Retesters(s) \cup {e} /\ e \notin Retesters(s)
      BY <1>0, <2>1, <2>2, PlaceAssumption DEF Retesters
    <3>2. Cardinality(Retesters(s)') = Cardinality(Retesters(s)) + 1
      BY <3>1, CountedSets, FS_AddElement
    <3>3. value[s] < Cardinality(Retesters(s)) /\ value[s] \in Int
          /\ Cardinality(Retesters(s)) \in Nat /\ value'[s] = value[s] + 1
      BY <1>0, <1>01, <2>1, <2>2, CountedSets
    <3> QED BY <2>3, <3>2, <3>3
  <2>4. CASE r # s
    <3>1. Retesters(r)' = Retesters(r)
      BY <1>0, <2>1, <2>2, <2>4, PlaceAssumption DEF Retesters
    <3> QED BY <1>0, <1>01, <2>1, <2>4, <3>1
  <2> QED BY <2>3, <2>4
<1> QED BY <1>2, <1>3, <1>4, <1>5, <1>6, <1>7 DEF HNext

-----------------------------------------------------------------------------
LEMMA FullNext == ASSUME HandOff, FullInv, [HNext]_hvars PROVE FullInv'
BY NextInv, AdmissionStep, WakeupStep DEF FullInv

\* lock_acquire and sema_acquire admit exactly as many threads as value allows:
\* value and the number of holders always add up to the initial value, and
\* value never falls below -1.
THEOREM ValueCountsHolders == ASSUME HandOff PROVE HSpec => []Admission
<1>1. HInit => FullInv
  BY FullInit
<1>2. FullInv /\ [HNext]_hvars => FullInv'
  BY FullNext
<1>3. FullInv => Admission
  BY DEF FullInv
<1> QED BY <1>1, <1>2, <1>3, PTL DEF HSpec

\* What Admission means for a lock, whose value begins at 0.
MutualExclusion ==
    \A l \in Locks : \A t, u \in Threads :
        (l \in held[t] /\ l \in held[u]) => t = u

LEMMA AdmissionExcludes == FullInv => MutualExclusion
<1> SUFFICES ASSUME FullInv, NEW l \in Locks, NEW t \in Threads, NEW u \in Threads,
                    l \in held[t], l \in held[u], t # u
             PROVE  FALSE
  BY DEF MutualExclusion
<1>1. l \in Sync /\ InitialValue(l) = 0
  BY DEF Sync, InitialValue
<1>2. value[l] \in Int /\ value[l] >= -1 /\ value[l] + Cardinality(Holders(l)) = 0
  BY <1>1 DEF FullInv, IInv, HTypeOK, TypeOK, Admission, ValueFloor
<1>3. Cardinality(Holders(l)) <= 1
  BY <1>2, CountedSets
<1>4. {t} \cup {u} \in SUBSET Holders(l)
  BY DEF Holders
<1>5. Cardinality({t} \cup {u}) = 2
  <2>1. IsFiniteSet({t}) /\ Cardinality({t}) = 1 /\ u \notin {t}
    BY FS_Singleton
  <2>2. Cardinality({t} \cup {u}) = Cardinality({t}) + 1
    BY <2>1, FS_AddElement, Zenon
  <2> QED BY <2>1, <2>2
<1>6. Cardinality({t} \cup {u}) <= Cardinality(Holders(l))
  BY <1>4, CountedSets, FS_Subset
<1> QED BY <1>3, <1>5, <1>6, CountedSets

\* So lock_acquire gives a lock to one thread at a time.
COROLLARY LocksExclude == ASSUME HandOff PROVE HSpec => []MutualExclusion
<1>1. HInit => FullInv
  BY FullInit
<1>2. FullInv /\ [HNext]_hvars => FullInv'
  BY FullNext
<1> QED BY <1>1, <1>2, AdmissionExcludes, PTL DEF HSpec

\* When lock_realse leaves threads blocked on a free lock, a thread it has
\* woken is on its way to test the lock again.
THEOREM WakeupsNotLost == ASSUME HandOff PROVE HSpec => []NoLostWakeup
<1>1. HInit => FullInv
  BY FullInit
<1>2. FullInv /\ [HNext]_hvars => FullInv'
  BY FullNext
<1>3. FullInv => NoLostWakeup
  BY DEF FullInv
<1> QED BY <1>1, <1>2, <1>3, PTL DEF HSpec

-----------------------------------------------------------------------------
(* The pointer code implements RoundRobin.                                  *)

LEMMA AbsInitMaps == HInit => Abs!AbsInit
BY DEF HInit, Init, Abs!AbsInit, Holders

\* Holders as a function of the structure, for the steps that leave held alone.
LEMMA OwnersSame ==
    ASSUME UNCHANGED held
    PROVE  [s \in Sync |-> Holders(s)]' = [s \in Sync |-> Holders(s)]
BY DEF Holders

\* The two modules count with the same Cardinality.
LEMMA SameCardinality == \A S : Abs!Cardinality(S) = Cardinality(S)
BY DEF Cardinality, Abs!Cardinality, Abs!IsFiniteSet, IsFiniteSet

LEMMA StepMaps ==
    ASSUME HandOff, FullInv, FullInv', [HNext]_hvars
    PROVE  [Abs!AbsNext]_(Abs!absvars)
<1> DEFINE own == [s \in Sync |-> Holders(s)]
<1>0. /\ value \in [Sync -> Int] /\ held \in [Threads -> SUBSET Sync]
      /\ readyQ \in Seq(Threads) /\ waitQ \in [Sync -> Seq(Threads)]
      /\ current_thread \in Threads
  BY DEF FullInv, IInv, HTypeOK, TypeOK
<1>1. CASE UNCHANGED hvars
  <2>1. UNCHANGED <<current_thread, readyQ, waitQ, fresh, held>>
    BY <1>1 DEF hvars, vars, hist
  <2>2. own' = own
    BY <2>1, OwnersSame
  <2> QED BY <2>1, <2>2 DEF Abs!absvars
<1>2. ASSUME NEW t \in Threads, HAdmit(t) PROVE Abs!AbsNext
  <2>1. /\ t \in fresh /\ fresh' = fresh \ {t} /\ readyQ' = Append(readyQ, t)
        /\ UNCHANGED <<current_thread, waitQ, held>>
    BY <1>2 DEF HAdmit, init_ready_list, init_add_ready
  <2>2. own' = own
    BY <2>1, OwnersSame
  <2>3. Abs!Admit(t)
    BY <2>1, <2>2 DEF Abs!Admit
  <2> QED BY <2>3 DEF Abs!AbsNext
<1>3. CASE HSti \/ HCount
  <2>1. UNCHANGED <<readyQ, waitQ, fresh, held>>
    BY <1>3 DEF HSti, HCount, init_sti, timer_count, hist
  <2>2. current_thread' = current_thread
    BY <1>3 DEF HSti, HCount, init_sti, timer_count, sched, FullInv, IInv, Coupled, InitReady
  <2>3. own' = own
    BY <2>1, OwnersSame
  <2> QED BY <2>1, <2>2, <2>3 DEF Abs!absvars
<1>4. CASE HRotate
  <2> DEFINE q == Append(readyQ, current_thread)
  <2>1. /\ readyQ' = Tail(q) /\ UNCHANGED <<waitQ, fresh, held>>
        /\ current_thread' = READY_LIST /\ READY_LIST # NULL
    BY <1>4 DEF HRotate, timer_switch, yield_thread
  <2>2. current_thread' = Head(q)
    <3>1. CASE readyQ = << >>
      BY <2>1, <3>1 DEF FullInv, IInv, Coupled, ReadyRing
    <3>2. CASE readyQ # << >>
      <4>1. READY_LIST = readyQ[1]
        BY <3>2 DEF FullInv, IInv, Coupled, ReadyRing
      <4>2. Head(q) = readyQ[1]
        <5>1. Len(readyQ) \in Nat /\ Len(readyQ) >= 1
          BY <1>0, <3>2, TailFacts
        <5> QED BY <1>0, <5>1
      <4> QED BY <2>1, <4>1, <4>2
    <3> QED BY <3>1, <3>2
  <2>3. own' = own
    BY <2>1, OwnersSame
  <2>4. Abs!Rotate
    BY <2>1, <2>2, <2>3 DEF Abs!Rotate
  <2> QED BY <2>4 DEF Abs!AbsNext
<1>5. ASSUME NEW t \in Threads, NEW s \in Sync, HTake(t, s) PROVE Abs!AbsNext
  <2>1. /\ t = current_thread /\ t # init_struct /\ s \notin held[t] /\ ~(value[s] < 0)
        /\ held' = [held EXCEPT ![t] = @ \cup {s}]
        /\ UNCHANGED <<current_thread, readyQ, waitQ, fresh>>
    BY <1>5 DEF HTake, acquire_take, Calls, hist, sched
  <2>2. Cardinality(own[s]) < Slots(s)
    BY <1>0, <2>1, CountedSets DEF FullInv, Admission, Slots
  <2>3. own' = [own EXCEPT ![s] = own[s] \cup {t}]
    BY <1>0, <2>1 DEF Holders
  <2>4. t \notin own[s]
    BY <2>1 DEF Holders
  <2>6. own' = [own EXCEPT ![s] = @ \cup {current_thread}]
    BY <2>1, <2>3
  <2>7. Abs!Take(s)
    BY <2>1, <2>2, <2>4, <2>6, SameCardinality DEF Abs!Take
  <2> QED BY <2>7 DEF Abs!AbsNext
<1>6. ASSUME NEW t \in Threads, NEW s \in Sync, HBlock(t, s) PROVE Abs!AbsNext
  <2>1. /\ t = current_thread /\ t # init_struct /\ s \notin held[t] /\ value[s] < 0
        /\ waitQ' = [waitQ EXCEPT ![s] = Append(@, t)] /\ readyQ' = Tail(readyQ)
        /\ current_thread' = READY_LIST /\ UNCHANGED <<fresh, held>>
    BY <1>6 DEF HBlock, acquire_block, Calls, yield_thread
  <2>2. readyQ # << >> /\ READY_LIST = readyQ[1]
    BY <2>1, SomeoneReady DEF FullInv
  <2>3. Head(readyQ) = readyQ[1]
    OBVIOUS
  <2>4. Cardinality(own[s]) = Slots(s)
    BY <1>0, <2>1, CountedSets DEF FullInv, Admission, ValueFloor, Slots
  <2>5. t \notin own[s]
    BY <2>1 DEF Holders
  <2>6. own' = own
    BY <2>1, OwnersSame
  <2>7. Abs!Block(s)
    BY <2>1, <2>2, <2>3, <2>4, <2>5, <2>6, SameCardinality DEF Abs!Block
  <2> QED BY <2>7 DEF Abs!AbsNext
<1>7. ASSUME NEW t \in Threads, NEW s \in Sync, HWake(t, s) PROVE Abs!AbsNext
  <2>1. /\ t = current_thread /\ s \in held[t] /\ links.next[s] # s
        /\ held' = [held EXCEPT ![t] = @ \ {s}]
        /\ waitQ' = [waitQ EXCEPT ![s] = Tail(@)]
        /\ readyQ' = Append(readyQ, waitQ[s][1])
        /\ UNCHANGED <<current_thread, fresh>>
    BY <1>7 DEF HWake, realse
  <2>2. waitQ[s] # << >>
    BY <2>1, WaitersLinked DEF FullInv
  <2>3. Head(waitQ[s]) = waitQ[s][1]
    OBVIOUS
  <2>4. t \in own[s]
    BY <2>1 DEF Holders
  <2>5. own' = [own EXCEPT ![s] = own[s] \ {t}]
    BY <1>0, <2>1 DEF Holders
  <2>6. Abs!Wake(s)
    BY <2>1, <2>2, <2>3, <2>4, <2>5 DEF Abs!Wake
  <2> QED BY <2>6 DEF Abs!AbsNext
<1> QED BY <1>1, <1>2, <1>3, <1>4, <1>5, <1>6, <1>7 DEF HNext

\* The linked lists, values and pointers of the kernel implement first-in
\* first-out round-robin scheduling and first-in first-out blocking with a
\* bounded number of owners.
THEOREM ImplementsRoundRobin == ASSUME HandOff PROVE HSpec => Refinement
<1>1. HInit => FullInv /\ Abs!AbsInit
  BY FullInit, AbsInitMaps
<1>2. FullInv /\ [HNext]_hvars => FullInv'
  BY FullNext
<1>3. FullInv /\ FullInv' /\ [HNext]_hvars => [Abs!AbsNext]_(Abs!absvars)
  BY StepMaps
<1> QED BY <1>1, <1>2, <1>3, PTL DEF HSpec, Refinement, Abs!AbsSpec
=============================================================================
