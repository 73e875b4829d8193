--------------------------- MODULE ListHeadProofs ---------------------------
(***************************************************************************)
(* What the list functions of lib/list.c do to a ring of nodes, for rings  *)
(* of every length over every set of nodes.                                *)
(***************************************************************************)
EXTENDS ListHead, SequenceTheorems, TLAPS

\* The links of node x are the same in the memories L and M.
SameLinks(L, M, x) == M.next[x] = L.next[x] /\ M.prev[x] = L.prev[x]

\* Inserting a node that is on no list before the first node of a ring (the
\* callers' list_add_tail(new, first->prev)) appends it to the ring.
LEMMA AddTailAppends ==
    ASSUME NEW N, NEW L \in Links(N), NEW q \in Seq(N), NEW new \in N,
           q # << >>, Ring(L, q), \A i \in 1 .. Len(q) : q[i] # new
    PROVE  /\ list_add_tail(L, new, L.prev[q[1]]) \in Links(N)
           /\ Ring(list_add_tail(L, new, L.prev[q[1]]), Append(q, new))
           /\ \A x \in N : (x # new /\ \A i \in 1 .. Len(q) : x # q[i]) =>
                 SameLinks(L, list_add_tail(L, new, L.prev[q[1]]), x)
<1> DEFINE n == Len(q)
           r == Append(q, new)
           M == list_add_tail(L, new, L.prev[q[1]])
<1>1. n \in Nat /\ n >= 1 /\ 1 \in 1 .. n /\ n \in 1 .. n
  OBVIOUS
<1>2. \A i \in 1 .. n : q[i] \in N /\ q[i] # new
  OBVIOUS
<1>3. Len(r) = n + 1 /\ r[n + 1] = new /\ \A i \in 1 .. n : r[i] = q[i]
  OBVIOUS
<1>4. /\ \A i \in 1 .. n : L.next[q[i]] = q[CycSucc(i, n)]
      /\ \A i \in 1 .. n : L.prev[q[i]] = q[CycPred(i, n)]
      /\ \A i, j \in 1 .. n : q[i] = q[j] => i = j
  BY Zenon DEF Ring, NoRepeat
<1>5. L.next \in [N -> N] /\ L.prev \in [N -> N]
  BY DEF Links
<1> HIDE DEF n
<1>6. L.prev[q[1]] = q[n] /\ L.next[q[n]] = q[1]
  BY <1>1, <1>4 DEF CycSucc, CycPred
<1>7. /\ M.next = [[L.next EXCEPT ![new] = q[1]] EXCEPT ![q[n]] = new]
      /\ M.prev = [[L.prev EXCEPT ![q[1]] = new] EXCEPT ![new] = q[n]]
      /\ M = [next |-> M.next, prev |-> M.prev]
  BY <1>6 DEF list_add_tail, list_insert
<1> HIDE DEF M, r
<1>8. M \in Links(N)
  BY <1>1, <1>2, <1>5, <1>7 DEF Links
<1>9. NoRepeat(r)
  BY <1>1, <1>2, <1>3, <1>4 DEF NoRepeat
<1>10. ASSUME NEW i \in 1 .. n + 1
       PROVE  /\ M.next[r[i]] = r[CycSucc(i, n + 1)]
              /\ M.prev[r[i]] = r[CycPred(i, n + 1)]
  <2>1. CASE i = n + 1
    <3>1. M.next[new] = q[1] /\ M.prev[new] = q[n]
      BY <1>1, <1>2, <1>5, <1>7
    <3> QED BY <2>1, <3>1, <1>1, <1>3 DEF CycSucc, CycPred
  <2>2. CASE i \in 1 .. n
    <3>1. /\ M.next[q[i]] = IF i = n THEN new ELSE q[CycSucc(i, n)]
          /\ M.prev[q[i]] = IF i = 1 THEN new ELSE q[CycPred(i, n)]
      BY <2>2, <1>1, <1>2, <1>4, <1>5, <1>7
    <3> QED BY <2>2, <3>1, <1>1, <1>3 DEF CycSucc, CycPred
  <2> QED BY <2>1, <2>2, <1>1
<1>11. ASSUME NEW x \in N, x # new, \A i \in 1 .. n : x # q[i]
       PROVE  SameLinks(L, M, x)
  BY <1>1, <1>5, <1>7, <1>11 DEF SameLinks
<1>12. Ring(M, r)
  BY <1>3, <1>9, <1>10 DEF Ring
<1> QED BY <1>8, <1>11, <1>12 DEF M, r, n

\* Deleting the k-th node of a ring takes it out of the ring, leaves it on no
\* list, and touches no other list.
LEMMA DelRemoves ==
    ASSUME NEW N, NEW L \in Links(N), NEW q \in Seq(N),
           NEW k \in 1 .. Len(q), Ring(L, q)
    PROVE  /\ list_del(L, q[k]) \in Links(N)
           /\ Ring(list_del(L, q[k]), Without(q, k))
           /\ Alone(list_del(L, q[k]), q[k])
           /\ \A x \in N : (\A i \in 1 .. Len(q) : x # q[i]) =>
                 SameLinks(L, list_del(L, q[k]), x)
<1> DEFINE n == Len(q)
           r == Without(q, k)
           M == list_del(L, q[k])
           e == q[k]
           b == q[CycPred(k, n)]
           a == q[CycSucc(k, n)]
<1>1. n \in Nat /\ n >= 1 /\ k \in 1 .. n
  OBVIOUS
<1>2. \A i \in 1 .. n : q[i] \in N
  OBVIOUS
<1>3. Len(r) = n - 1 /\ \A i \in 1 .. n - 1 : r[i] = IF i < k THEN q[i] ELSE q[i + 1]
  BY <1>1 DEF Without
<1>4. /\ \A i \in 1 .. n : L.next[q[i]] = q[CycSucc(i, n)]
      /\ \A i \in 1 .. n : L.prev[q[i]] = q[CycPred(i, n)]
      /\ \A i, j \in 1 .. n : q[i] = q[j] => i = j
  BY Zenon DEF Ring, NoRepeat
<1>5. L.next \in [N -> N] /\ L.prev \in [N -> N]
  BY DEF Links
<1> HIDE DEF n
<1>6. CycSucc(k, n) \in 1 .. n /\ CycPred(k, n) \in 1 .. n
  BY <1>1 DEF CycSucc, CycPred
<1>7. e \in N /\ a \in N /\ b \in N /\ L.prev[e] = b /\ L.next[e] = a
  BY <1>1, <1>2, <1>4, <1>6
<1>8. /\ M.next = [[L.next EXCEPT ![b] = a] EXCEPT ![e] = e]
      /\ M.prev = [[L.prev EXCEPT ![a] = b] EXCEPT ![e] = e]
      /\ M = [next |-> M.next, prev |-> M.prev]
  BY <1>7 DEF list_del, list_unlink, INIT_LIST_HEAD
<1> HIDE DEF M, r
<1>9. M \in Links(N)
  BY <1>5, <1>7, <1>8 DEF Links
<1>10. Alone(M, e)
  BY <1>5, <1>7, <1>8 DEF Alone
<1>11. ASSUME NEW x \in N, \A i \in 1 .. n : x # q[i]
       PROVE  SameLinks(L, M, x)
  BY <1>1, <1>5, <1>6, <1>7, <1>8, <1>11 DEF SameLinks
<1>12. NoRepeat(r)
  BY <1>1, <1>3, <1>4 DEF NoRepeat
<1>13. ASSUME NEW j \in 1 .. n, j # k
       PROVE  /\ M.next[q[j]] = IF j = CycPred(k, n) THEN a ELSE q[CycSucc(j, n)]
              /\ M.prev[q[j]] = IF j = CycSucc(k, n) THEN b ELSE q[CycPred(j, n)]
  BY <1>1, <1>2, <1>4, <1>5, <1>6, <1>8, <1>13
<1>14. ASSUME NEW i \in 1 .. n - 1
       PROVE  /\ M.next[r[i]] = r[CycSucc(i, n - 1)]
              /\ M.prev[r[i]] = r[CycPred(i, n - 1)]
  <2> DEFINE j == IF i < k THEN i ELSE i + 1
  <2>1. j \in 1 .. n /\ j # k /\ r[i] = q[j]
    BY <1>1, <1>3
  <2>2. r[CycSucc(i, n - 1)] = IF j = CycPred(k, n) THEN a ELSE q[CycSucc(j, n)]
    <3>1. CASE i = n - 1
      <4>1. r[1] = IF k = 1 THEN q[2] ELSE q[1]
        BY <1>1, <1>3
      <4> QED BY <3>1, <4>1, <1>1 DEF CycSucc, CycPred
    <3>2. CASE i < n - 1
      <4>1. r[i + 1] = IF i + 1 < k THEN q[i + 1] ELSE q[i + 2]
        BY <3>2, <1>1, <1>3
      <4> QED BY <3>2, <4>1, <1>1 DEF CycSucc, CycPred
    <3> QED BY <3>1, <3>2, <1>1
  <2>3. r[CycPred(i, n - 1)] = IF j = CycSucc(k, n) THEN b ELSE q[CycPred(j, n)]
    BY <1>1, <1>3 DEF CycSucc, CycPred
  <2> HIDE DEF j
  <2> QED BY <2>1, <2>2, <2>3, <1>13
<1>15. Ring(M, r)
  BY <1>3, <1>12, <1>14 DEF Ring
<1> QED BY <1>9, <1>10, <1>11, <1>15 DEF M, r, n

\* Replacing the k-th node of a ring by a node of no list puts the new one in
\* its place and leaves the old one on no list.
LEMMA ReplaceSwaps ==
    ASSUME NEW N, NEW L \in Links(N), NEW q \in Seq(N), NEW new \in N,
           NEW k \in 1 .. Len(q), Ring(L, q),
           \A i \in 1 .. Len(q) : q[i] # new
    PROVE  /\ list_replace(L, new, q[k]) \in Links(N)
           /\ Ring(list_replace(L, new, q[k]), [q EXCEPT ![k] = new])
           /\ Alone(list_replace(L, new, q[k]), q[k])
           /\ \A x \in N : (x # new /\ \A i \in 1 .. Len(q) : x # q[i]) =>
                 SameLinks(L, list_replace(L, new, q[k]), x)
<1> DEFINE n == Len(q)
           r == [q EXCEPT ![k] = new]
           M == list_replace(L, new, q[k])
           e == q[k]
           b == q[CycPred(k, n)]
           a == q[CycSucc(k, n)]
           bb == IF n = 1 THEN new ELSE b
<1>1. n \in Nat /\ n >= 1 /\ k \in 1 .. n
  OBVIOUS
<1>2. \A i \in 1 .. n : q[i] \in N /\ q[i] # new
  OBVIOUS
<1>3. Len(r) = n /\ \A i \in 1 .. n : r[i] = IF i = k THEN new ELSE q[i]
  OBVIOUS
<1>4. /\ \A i \in 1 .. n : L.next[q[i]] = q[CycSucc(i, n)]
      /\ \A i \in 1 .. n : L.prev[q[i]] = q[CycPred(i, n)]
      /\ \A i, j \in 1 .. n : q[i] = q[j] => i = j
  BY Zenon DEF Ring, NoRepeat
<1>5. L.next \in [N -> N] /\ L.prev \in [N -> N]
  BY DEF Links
<1> HIDE DEF n
<1>6. CycSucc(k, n) \in 1 .. n /\ CycPred(k, n) \in 1 .. n
  BY <1>1 DEF CycSucc, CycPred
<1>7. e \in N /\ a \in N /\ b \in N /\ L.prev[e] = b /\ L.next[e] = a
      /\ e # new /\ a # new /\ b # new /\ bb \in N
  BY <1>1, <1>2, <1>4, <1>6
<1>8. (a = e) <=> (n = 1)
  BY <1>1, <1>4, <1>6 DEF CycSucc
<1>9. /\ M.next = [[[L.next EXCEPT ![new] = a] EXCEPT ![bb] = new] EXCEPT ![e] = e]
      /\ M.prev = [[[L.prev EXCEPT ![a] = new] EXCEPT ![new] = bb] EXCEPT ![e] = e]
      /\ M = [next |-> M.next, prev |-> M.prev]
  <2> DEFINE n1 == [L.next EXCEPT ![new] = L.next[e]]
             p1 == [L.prev EXCEPT ![n1[new]] = new]
             p2 == [p1 EXCEPT ![new] = p1[e]]
             n2 == [n1 EXCEPT ![p2[new]] = new]
  <2>1. n1[new] = a
    BY <1>5, <1>7
  <2>2. p1[e] = bb
    BY <2>1, <1>5, <1>7, <1>8
  <2>3. p2[new] = bb
    BY <2>1, <2>2, <1>5, <1>7
  <2>4. M = [next |-> [n2 EXCEPT ![e] = e], prev |-> [p2 EXCEPT ![e] = e]]
    BY DEF list_replace, INIT_LIST_HEAD
  <2>5. n2 = [[L.next EXCEPT ![new] = a] EXCEPT ![bb] = new]
    BY <2>3, <1>7
  <2>6. p2 = [[L.prev EXCEPT ![a] = new] EXCEPT ![new] = bb]
    BY <2>1, <2>2
  <2> HIDE DEF M, n1, p1, n2, p2
  <2> QED BY <2>4, <2>5, <2>6
<1> HIDE DEF M, r, bb
<1>10. M \in Links(N)
  BY <1>5, <1>7, <1>9 DEF Links
<1>11. Alone(M, e)
  BY <1>5, <1>7, <1>9 DEF Alone
<1>12. ASSUME NEW x \in N, x # new, \A i \in 1 .. n : x # q[i]
       PROVE  SameLinks(L, M, x)
  BY <1>1, <1>5, <1>6, <1>7, <1>9, <1>12 DEF SameLinks, bb
<1>13. NoRepeat(r)
  BY <1>1, <1>2, <1>3, <1>4 DEF NoRepeat
<1>14. ASSUME NEW i \in 1 .. n
       PROVE  /\ M.next[r[i]] = r[CycSucc(i, n)]
              /\ M.prev[r[i]] = r[CycPred(i, n)]
  <2>1. CASE i = k
    <3>1. M.next[new] = (IF n = 1 THEN new ELSE a) /\ M.prev[new] = bb
      BY <1>1, <1>5, <1>7, <1>9 DEF bb
    <3>2. r[CycSucc(k, n)] = IF n = 1 THEN new ELSE a
      BY <1>1, <1>3, <1>6 DEF CycSucc
    <3>3. r[CycPred(k, n)] = bb
      BY <1>1, <1>3, <1>6 DEF CycPred, bb
    <3> QED BY <2>1, <3>1, <3>2, <3>3, <1>1, <1>3
  <2>2. CASE i # k
    <3>1. n # 1 /\ q[i] # e /\ q[i] # new /\ q[i] \in N
      BY <2>2, <1>1, <1>2, <1>4
    <3>2. /\ q[i] = a <=> i = CycSucc(k, n)
          /\ q[i] = b <=> i = CycPred(k, n)
      BY <1>1, <1>4, <1>6
    <3>3. /\ M.next[q[i]] = IF q[i] = b THEN new ELSE L.next[q[i]]
          /\ M.prev[q[i]] = IF q[i] = a THEN new ELSE L.prev[q[i]]
      BY <3>1, <1>5, <1>7, <1>9 DEF bb
    <3>4. /\ CycSucc(i, n) \in 1 .. n /\ CycPred(i, n) \in 1 .. n
          /\ i = CycPred(k, n) <=> CycSucc(i, n) = k
          /\ i = CycSucc(k, n) <=> CycPred(i, n) = k
      BY <1>1 DEF CycSucc, CycPred
    <3>5. /\ L.next[q[i]] = q[CycSucc(i, n)]
          /\ L.prev[q[i]] = q[CycPred(i, n)]
      BY <1>4
    <3> QED BY <2>2, <3>2, <3>3, <3>4, <3>5, <1>3
  <2> QED BY <2>1, <2>2
<1>15. Ring(M, r)
  BY <1>3, <1>13, <1>14 DEF Ring
<1> QED BY <1>10, <1>11, <1>12, <1>15 DEF M, r, n

\* A ring none of whose nodes had its links changed is still that ring.
LEMMA RingFrame ==
    ASSUME NEW L, NEW M, NEW q, Ring(L, q),
           \A i \in 1 .. Len(q) : SameLinks(L, M, q[i])
    PROVE  Ring(M, q)
BY DEF Ring, SameLinks

-----------------------------------------------------------------------------
(* Queues.                                                                  *)

LEMMA TailFacts ==
    ASSUME NEW S, NEW q \in Seq(S), q # << >>
    PROVE  /\ Len(q) \in Nat /\ Len(q) >= 1 /\ q[1] \in S
           /\ Tail(q) \in Seq(S) /\ Len(Tail(q)) = Len(q) - 1
           /\ \A i \in 1 .. Len(q) - 1 : Tail(q)[i] = q[i + 1]
           /\ Tail(q) = Without(q, 1)
<1>1. Len(q) \in Nat /\ Len(q) >= 1 /\ q[1] \in S
  OBVIOUS
<1>2. /\ Tail(q) \in Seq(S) /\ Len(Tail(q)) = Len(q) - 1
      /\ \A i \in 1 .. Len(q) - 1 : Tail(q)[i] = q[i + 1]
  OBVIOUS
<1>3. Tail(q) \in [1 .. Len(q) - 1 -> S]
  BY <1>2, LenProperties
<1>4. Tail(q) = Without(q, 1)
  <2>1. Without(q, 1) = [i \in 1 .. Len(q) - 1 |-> q[i + 1]]
    BY <1>1 DEF Without
  <2>2. Tail(q) = [i \in 1 .. Len(q) - 1 |-> Tail(q)[i]]
    BY <1>3, Zenon
  <2> QED BY <1>2, <2>1, <2>2
<1> QED BY <1>1, <1>2, <1>4

LEMMA AppendFacts ==
    ASSUME NEW S, NEW q \in Seq(S), NEW e \in S
    PROVE  /\ Append(q, e) \in Seq(S) /\ Append(q, e) # << >>
           /\ Len(q) \in Nat /\ Len(Append(q, e)) = Len(q) + 1
           /\ Append(q, e)[Len(q) + 1] = e
           /\ \A i \in 1 .. Len(q) : Append(q, e)[i] = q[i]
OBVIOUS

-----------------------------------------------------------------------------
(* Rings as sets: who is on a list, whatever the order.                     *)

\* Every node of S is in q.
Covers(q, S) == \A x \in S : \E i \in 1 .. Len(q) : q[i] = x

\* In memory L the nodes of S form one ring, and h is one of them.
Circle(L, S, h) ==
    \E q \in Seq(S) : Ring(L, q) /\ q # << >> /\ q[1] = h /\ Covers(q, S)

LEMMA CircleHead ==
    ASSUME NEW L, NEW S, NEW h, Circle(L, S, h)
    PROVE  h \in S
BY DEF Circle

\* A node of no list is a ring of its own.
LEMMA CircleOne ==
    ASSUME NEW L, NEW h, Alone(L, h)
    PROVE  Circle(L, {h}, h)
<1> DEFINE q == <<h>>
<1>1. q \in Seq({h}) /\ Len(q) = 1 /\ q[1] = h /\ q # << >>
  OBVIOUS
<1> HIDE DEF q
<1>2. Ring(L, q)
  BY <1>1 DEF Ring, NoRepeat, CycSucc, CycPred, Alone
<1>3. Covers(q, {h})
  BY <1>1 DEF Covers
<1> QED BY <1>1, <1>2, <1>3 DEF Circle

\* A ring none of whose nodes had its links changed is still that ring.
LEMMA CircleFrame ==
    ASSUME NEW L, NEW M, NEW S, NEW h, Circle(L, S, h),
           \A x \in S : SameLinks(L, M, x)
    PROVE  Circle(M, S, h)
<1>1. PICK q \in Seq(S) : Ring(L, q) /\ q # << >> /\ q[1] = h /\ Covers(q, S)
  BY DEF Circle
<1>2. \A i \in 1 .. Len(q) : q[i] \in S
  OBVIOUS
<1>3. Ring(M, q)
  BY <1>1, <1>2, RingFrame
<1> QED BY <1>1, <1>3 DEF Circle

\* list_add_tail(new, h->prev)
LEMMA CircleAdd ==
    ASSUME NEW N, NEW L \in Links(N), NEW S \in SUBSET N, NEW h,
           Circle(L, S, h), NEW new \in N, new \notin S
    PROVE  /\ list_add_tail(L, new, L.prev[h]) \in Links(N)
           /\ Circle(list_add_tail(L, new, L.prev[h]), S \cup {new}, h)
           /\ \A x \in N : x # new /\ x \notin S =>
                 SameLinks(L, list_add_tail(L, new, L.prev[h]), x)
<1> DEFINE M == list_add_tail(L, new, L.prev[h])
<1>1. PICK q \in Seq(S) : Ring(L, q) /\ q # << >> /\ q[1] = h /\ Covers(q, S)
  BY DEF Circle
<1>2. \A i \in 1 .. Len(q) : q[i] \in S
  OBVIOUS
<1>3. q \in Seq(N) /\ \A i \in 1 .. Len(q) : q[i] # new
  BY <1>2
<1>4. /\ M \in Links(N) /\ Ring(M, Append(q, new))
      /\ \A x \in N : (x # new /\ \A i \in 1 .. Len(q) : x # q[i]) => SameLinks(L, M, x)
  BY <1>1, <1>3, AddTailAppends
<1>5. /\ Append(q, new) \in Seq(S \cup {new}) /\ Append(q, new) # << >>
      /\ Len(q) \in Nat /\ Len(Append(q, new)) = Len(q) + 1
      /\ Append(q, new)[Len(q) + 1] = new
      /\ \A i \in 1 .. Len(q) : Append(q, new)[i] = q[i]
  <2>1. q \in Seq(S \cup {new})
    BY <1>2
  <2> QED BY <2>1, AppendFacts
<1> DEFINE r == Append(q, new)
<1> HIDE DEF M, r
<1>6. r[1] = h
  BY <1>1, <1>5 DEF r
<1>7. Covers(r, S \cup {new})
  <2>1. \A i \in 1 .. Len(q) : i \in 1 .. Len(r) /\ r[i] = q[i]
    BY <1>5 DEF r
  <2>2. Len(q) + 1 \in 1 .. Len(r) /\ r[Len(q) + 1] = new
    BY <1>5 DEF r
  <2> QED BY <1>1, <2>1, <2>2 DEF Covers
<1>8. Circle(M, S \cup {new}, h)
  BY <1>4, <1>5, <1>6, <1>7 DEF Circle, r
<1>9. \A x \in N : x # new /\ x \notin S => SameLinks(L, M, x)
  BY <1>2, <1>4
<1> QED BY <1>4, <1>8, <1>9 DEF M

\* What is left of a ring's sequence without its k-th node.
LEMMA WithoutFacts ==
    ASSUME NEW S, NEW q \in Seq(S), NoRepeat(q), NEW k \in 1 .. Len(q), Covers(q, S)
    PROVE  /\ Without(q, k) \in Seq(S \ {q[k]})
           /\ Len(Without(q, k)) = Len(q) - 1
           /\ k = 1 /\ Len(q) >= 2 => Without(q, k)[1] = q[2]
           /\ k = 2 => Without(q, k)[1] = q[1]
           /\ Covers(Without(q, k), S \ {q[k]})
<1> DEFINE n == Len(q)
           r == Without(q, k)
<1>1. n \in Nat /\ k \in 1 .. n /\ n - 1 \in Nat
  OBVIOUS
<1>2. \A i \in 1 .. n : q[i] \in S
  OBVIOUS
<1>3. \A i, j \in 1 .. n : q[i] = q[j] => i = j
  BY DEF NoRepeat
<1> HIDE DEF n
<1>4. /\ r = [i \in 1 .. n - 1 |-> IF i < k THEN q[i] ELSE q[i + 1]]
      /\ \A i \in 1 .. n - 1 : r[i] = IF i < k THEN q[i] ELSE q[i + 1]
  BY DEF Without, n
<1> HIDE DEF r
<1>5. ASSUME NEW i \in 1 .. n - 1
      PROVE  r[i] \in S \ {q[k]}
  <2>1. PICK j \in 1 .. n : j = IF i < k THEN i ELSE i + 1
    BY <1>1
  <2>2. j # k /\ r[i] = q[j]
    BY <1>1, <1>4, <2>1
  <2>3. q[j] \in S /\ q[j] # q[k]
    BY <1>1, <1>2, <1>3, <2>2
  <2> QED BY <2>2, <2>3
<1>6. PICK m \in Nat : m = n - 1
  BY <1>1
<1>7. r \in Seq(S \ {q[k]}) /\ Len(r) = n - 1
  <2>1. r \in [1 .. m -> S \ {q[k]}]
    BY <1>4, <1>5, <1>6
  <2>2. r \in Seq(S \ {q[k]}) /\ Len(r) = m
    BY <2>1
  <2> QED BY <1>6, <2>2
<1>8. ASSUME NEW x \in S \ {q[k]}
      PROVE  \E i \in 1 .. n - 1 : r[i] = x
  <2>1. PICK j \in 1 .. n : q[j] = x
    BY DEF n, Covers
  <2>2. j # k
    BY <2>1
  <2>3. CASE j < k
    BY <1>1, <1>4, <2>1, <2>3
  <2>4. CASE j > k
    <3>1. j - 1 \in 1 .. n - 1 /\ ~(j - 1 < k) /\ (j - 1) + 1 = j
      BY <1>1, <2>1, <2>4
    <3>2. r[j - 1] = x
      BY <1>4, <2>1, <3>1
    <3> QED BY <3>1, <3>2
  <2> QED BY <1>1, <2>2, <2>3, <2>4
<1>9. /\ k = 1 /\ n >= 2 => r[1] = q[2]
      /\ k = 2 => r[1] = q[1]
  BY <1>1, <1>4
<1>10. Covers(r, S \ {q[k]})
  BY <1>7, <1>8 DEF Covers
<1> QED BY <1>7, <1>9, <1>10 DEF n, r

\* list_del(h), when the list's head has moved on to h->next
LEMMA CircleDelHead ==
    ASSUME NEW N, NEW L \in Links(N), NEW S \in SUBSET N, NEW h,
           Circle(L, S, h), S # {h}
    PROVE  /\ L.next[h] \in S \ {h} /\ list_del(L, h) \in Links(N)
           /\ Circle(list_del(L, h), S \ {h}, L.next[h])
           /\ \A x \in N \ S : SameLinks(L, list_del(L, h), x)
<1> DEFINE M == list_del(L, h)
<1>1. PICK q \in Seq(S) : Ring(L, q) /\ q # << >> /\ q[1] = h /\ Covers(q, S)
  BY DEF Circle
<1>2. q \in Seq(N) /\ 1 \in 1 .. Len(q) /\ Len(q) \in Nat
      /\ \A i \in 1 .. Len(q) : q[i] \in S
  BY <1>1
<1>3. Len(q) >= 2
  <2>1. PICK x \in S : x # h
    BY <1>1
  <2>2. PICK i \in 1 .. Len(q) : q[i] = x
    BY <1>1 DEF Covers
  <2> QED BY <1>1, <1>2, <2>1, <2>2
<1>4. L.next[h] = q[2] /\ q[2] \in S /\ q[2] # h
  <2>1. L.next[q[1]] = q[2]
    <3>1. L.next[q[1]] = q[CycSucc(1, Len(q))]
      BY <1>1, <1>2 DEF Ring
    <3>2. CycSucc(1, Len(q)) = 2
      BY <1>2, <1>3 DEF CycSucc
    <3> QED BY <3>1, <3>2
  <2>2. q[2] # q[1]
    BY <1>1, <1>2, <1>3 DEF Ring, NoRepeat
  <2> QED BY <1>1, <1>2, <1>3, <2>1, <2>2
<1>5. /\ M \in Links(N) /\ Ring(M, Without(q, 1))
      /\ \A x \in N : (\A i \in 1 .. Len(q) : x # q[i]) => SameLinks(L, M, x)
  BY <1>1, <1>2, DelRemoves
<1>n. NoRepeat(q)
  BY <1>1 DEF Ring
<1>6. /\ Without(q, 1) \in Seq(S \ {q[1]}) /\ Len(Without(q, 1)) = Len(q) - 1
      /\ Len(q) >= 2 => Without(q, 1)[1] = q[2]
      /\ Covers(Without(q, 1), S \ {q[1]})
  BY <1>1, <1>2, <1>n, WithoutFacts
<1> DEFINE r == Without(q, 1)
<1> HIDE DEF M, r
<1>7. r # << >> /\ r[1] = q[2]
  BY <1>2, <1>3, <1>6 DEF r
<1>8. Circle(M, S \ {h}, L.next[h])
  BY <1>1, <1>4, <1>5, <1>6, <1>7 DEF Circle, r
<1>9. \A x \in N \ S : SameLinks(L, M, x)
  BY <1>2, <1>5
<1> QED BY <1>4, <1>5, <1>8, <1>9 DEF M

\* list_del(h->next), when the list is not empty
LEMMA CircleDelNext ==
    ASSUME NEW N, NEW L \in Links(N), NEW S \in SUBSET N, NEW h,
           Circle(L, S, h), L.next[h] # h
    PROVE  /\ L.next[h] \in S \ {h} /\ list_del(L, L.next[h]) \in Links(N)
           /\ Circle(list_del(L, L.next[h]), S \ {L.next[h]}, h)
           /\ \A x \in N \ S : SameLinks(L, list_del(L, L.next[h]), x)
<1> DEFINE M == list_del(L, L.next[h])
<1>1. PICK q \in Seq(S) : Ring(L, q) /\ q # << >> /\ q[1] = h /\ Covers(q, S)
  BY DEF Circle
<1>2. q \in Seq(N) /\ 1 \in 1 .. Len(q) /\ Len(q) \in Nat
      /\ \A i \in 1 .. Len(q) : q[i] \in S
  BY <1>1
<1>3. Len(q) >= 2 /\ L.next[h] = q[2]
  <2>1. L.next[q[1]] = q[CycSucc(1, Len(q))]
    BY <1>1, <1>2 DEF Ring
  <2>2. CASE Len(q) = 1
    BY <1>1, <2>1, <2>2 DEF CycSucc
  <2>3. CASE Len(q) # 1
    <3>1. CycSucc(1, Len(q)) = 2
      BY <1>2, <2>3 DEF CycSucc
    <3>2. \A n \in Nat : 1 \in 1 .. n /\ n # 1 => n >= 2
      OBVIOUS
    <3>3. Len(q) >= 2
      BY <1>2, <2>3, <3>2
    <3> QED BY <1>1, <2>1, <3>1, <3>3
  <2> QED BY <2>2, <2>3
<1>4. 2 \in 1 .. Len(q)
  BY <1>2, <1>3
<1>5. /\ M \in Links(N) /\ Ring(M, Without(q, 2))
      /\ \A x \in N : (\A i \in 1 .. Len(q) : x # q[i]) => SameLinks(L, M, x)
  BY <1>1, <1>2, <1>3, <1>4, DelRemoves
<1>n. NoRepeat(q)
  BY <1>1 DEF Ring
<1>6. /\ Without(q, 2) \in Seq(S \ {q[2]}) /\ Len(Without(q, 2)) = Len(q) - 1
      /\ Without(q, 2)[1] = q[1]
      /\ Covers(Without(q, 2), S \ {q[2]})
  BY <1>1, <1>4, <1>n, WithoutFacts
<1> DEFINE r == Without(q, 2)
<1> HIDE DEF M, r
<1>7. r # << >> /\ r[1] = h
  <2>1. 1 \in 1 .. Len(q) - 1 /\ 1 < 2 /\ Len(r) > 0
    BY <1>2, <1>3, <1>6 DEF r
  <2>2. r[1] = q[1]
    BY <1>6, <2>1 DEF r
  <2> QED BY <1>1, <1>6, <2>1, <2>2 DEF r
<1>8. Circle(M, S \ {q[2]}, h)
  BY <1>5, <1>6, <1>7 DEF Circle, r
<1>9. \A x \in N \ S : SameLinks(L, M, x)
  BY <1>2, <1>5
<1>10. L.next[h] \in S \ {h}
  BY <1>2, <1>3, <1>4
<1> QED BY <1>3, <1>5, <1>8, <1>9, <1>10 DEF M
=============================================================================
