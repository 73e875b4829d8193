--------------------------- MODULE PageAllocProofs ---------------------------
(***************************************************************************)
(* The page allocator for any owners and any requests, as long as requests *)
(* are served from the first byte of the bitmap (InMap).                   *)
(***************************************************************************)
EXTENDS PageAlloc, TLAPS

\* What get_pages and free_pages keep, of a bitmap m and the blocks k.  Every
\* block lies in pages 1 to 7; without that the bits free_pages clears would
\* not be those of the block.
InByte(k) ==
    \A c \in Clients : k[c] # NULL =>
        k[c].cnt \in 1 .. 7 /\ k[c].page \in 1 .. 7 /\ k[c].page + k[c].cnt <= 8

BitExact(m, k) ==
    \A b \in Bits : b \in m <=> (b = 7 \/ \E c \in Clients : 7 - b \in Pages(k[c]))

Apart(k) ==
    \A c, d \in Clients : c # d => Pages(k[c]) \cap Pages(k[d]) = {}

Sound(m, k) ==
    /\ m \in SUBSET Bits
    /\ k \in [Clients -> Block \cup {NULL}]
    /\ InByte(k) /\ BitExact(m, k) /\ Apart(k)

PInv == Sound(bit_map, block) /\ threads \in SUBSET (Clients \X Clients) /\ panic \in BOOLEAN

\* An attempt inside the byte stands for the pages that it marks.
LEMMA AttemptPages ==
    ASSUME NEW cnt \in Nat, cnt > 0, NEW k \in Nat, k < PerByte(cnt)
    PROVE  /\ cnt \in 1 .. 7
           /\ PageOf(k, cnt) \in 1 .. 7
           /\ PageOf(k, cnt) + cnt <= 8
           /\ PageOf(k, cnt) = 8 - k - cnt
           /\ \A b \in Bits : b \in select(k, cnt) <=>
                 7 - b \in PageOf(k, cnt) .. PageOf(k, cnt) + cnt - 1
<1>1. cnt \in 1 .. 7 /\ k \in 0 .. 7 - cnt
  BY DEF PerByte
<1>2. k \div (8 - cnt) = 0 /\ k % (8 - cnt) = k
  <2>1. CASE cnt = 1  BY <1>1, <2>1
  <2>2. CASE cnt = 2  BY <1>1, <2>2
  <2>3. CASE cnt = 3  BY <1>1, <2>3
  <2>4. CASE cnt = 4  BY <1>1, <2>4
  <2>5. CASE cnt = 5  BY <1>1, <2>5
  <2>6. CASE cnt = 6  BY <1>1, <2>6
  <2>7. CASE cnt = 7  BY <1>1, <2>7
  <2> QED BY <1>1, <2>1, <2>2, <2>3, <2>4, <2>5, <2>6, <2>7
<1>3. PageOf(k, cnt) = 8 - k - cnt
  BY <1>1, <1>2 DEF PageOf, PerByte
<1>4. ASSUME NEW b \in Bits
      PROVE  b \in select(k, cnt) <=>
                7 - b \in PageOf(k, cnt) .. PageOf(k, cnt) + cnt - 1
  BY <1>1, <1>3 DEF select, Bits
<1> QED BY <1>1, <1>3, <1>4

\* get_pages: marking a run of clear bits and handing out its pages.
LEMMA GrantKeeps ==
    ASSUME NEW m, NEW blk, Sound(m, blk), NullAssumption,
           NEW c \in Clients, blk[c] = NULL,
           NEW cnt \in Nat, cnt > 0, NEW k \in Nat, k < PerByte(cnt),
           select(k, cnt) \cap m = {}
    PROVE  Sound(m \cup select(k, cnt),
                 [blk EXCEPT ![c] = [page |-> PageOf(k, cnt), cnt |-> cnt]])
<1> DEFINE n == [page |-> PageOf(k, cnt), cnt |-> cnt]
           new == [blk EXCEPT ![c] = n]
           S == select(k, cnt)
<1>1. /\ cnt \in 1 .. 7 /\ PageOf(k, cnt) \in 1 .. 7 /\ PageOf(k, cnt) + cnt <= 8
      /\ \A b \in Bits : b \in S <=> 7 - b \in PageOf(k, cnt) .. PageOf(k, cnt) + cnt - 1
  BY AttemptPages
<1>2. S \subseteq Bits
  BY DEF select
<1>3. n \in Block /\ n # NULL /\ n.page = PageOf(k, cnt) /\ n.cnt = cnt
  BY <1>1 DEF Block, NullAssumption
<1>4. Pages(n) = PageOf(k, cnt) .. PageOf(k, cnt) + cnt - 1 /\ Pages(n) \subseteq 1 .. 7
  BY <1>1, <1>3, SMTT(40) DEF Pages
<1>5. blk \in [Clients -> Block \cup {NULL}] /\ m \in SUBSET Bits
      /\ InByte(blk) /\ BitExact(m, blk) /\ Apart(blk)
  BY DEF Sound
<1>6. \A b \in Bits : b \in S <=> 7 - b \in Pages(n)
  BY <1>1, <1>4
<1> HIDE DEF S, n
<1>7. new \in [Clients -> Block \cup {NULL}] /\ new[c] = n
      /\ \A d \in Clients : d # c => new[d] = blk[d]
  BY <1>3, <1>5
<1>8. Pages(blk[c]) = {}
  BY DEF Pages
<1> HIDE DEF new
<1>9. InByte(new)
  BY <1>1, <1>3, <1>5, <1>7 DEF InByte
<1>10. BitExact(m \cup S, new)
  <2> SUFFICES ASSUME NEW b \in Bits
               PROVE  b \in m \cup S <=>
                        (b = 7 \/ \E d \in Clients : 7 - b \in Pages(new[d]))
    BY DEF BitExact
  <2>1. b \in m <=> (b = 7 \/ \E d \in Clients : 7 - b \in Pages(blk[d]))
    BY <1>5 DEF BitExact
  <2>2. (\E d \in Clients : 7 - b \in Pages(new[d])) <=>
           (7 - b \in Pages(n) \/ \E d \in Clients : 7 - b \in Pages(blk[d]))
    BY <1>7, <1>8
  <2> QED BY <2>1, <2>2, <1>6
<1>11. ASSUME NEW d \in Clients, d # c
       PROVE  Pages(n) \cap Pages(blk[d]) = {}
  <2> SUFFICES ASSUME NEW p \in Pages(n), p \in Pages(blk[d])  PROVE FALSE
    OBVIOUS
  <2>1. 7 - p \in Bits /\ 7 - (7 - p) = p
    BY <1>4 DEF Bits
  <2>2. 7 - p \in S
    BY <2>1, <1>6
  <2>3. 7 - p \in m
    BY <2>1, <1>5 DEF BitExact
  <2> QED BY <2>2, <2>3 DEF S
<1>12. Apart(new)
  BY <1>5, <1>7, <1>11 DEF Apart
<1> QED BY <1>2, <1>5, <1>7, <1>9, <1>10, <1>12 DEF Sound, S, new, n

\* free_pages: clearing the bits of a block and forgetting it.
LEMMA FreeKeeps ==
    ASSUME NEW m, NEW blk, Sound(m, blk), NullAssumption,
           NEW c \in Clients, blk[c] # NULL
    PROVE  Sound(m \ cleared(blk[c]), [blk EXCEPT ![c] = NULL])
<1> DEFINE new == [blk EXCEPT ![c] = NULL]
           S == cleared(blk[c])
<1>1. blk \in [Clients -> Block \cup {NULL}] /\ m \in SUBSET Bits
      /\ InByte(blk) /\ BitExact(m, blk) /\ Apart(blk)
  BY DEF Sound
<1>2. /\ blk[c].cnt \in 1 .. 7 /\ blk[c].page \in 1 .. 7
      /\ blk[c].page + blk[c].cnt <= 8
  BY <1>1 DEF InByte
<1>3. Pages(blk[c]) = blk[c].page .. blk[c].page + blk[c].cnt - 1
  BY DEF Pages
<1>4. blk[c].page % 8 = blk[c].page
  BY <1>2
<1>5. \A b \in Bits : b \in S <=> 7 - b \in Pages(blk[c])
  <2> DEFINE p == blk[c].page
             n == blk[c].cnt
  <2>1. S = ((8 - p - n) .. (8 - p - n + n - 1)) \cap Bits
    BY <1>4 DEF cleared
  <2>2. Pages(blk[c]) = p .. p + n - 1
    BY <1>3
  <2>3. n \in 1 .. 7 /\ p \in 1 .. 7 /\ p + n <= 8
    BY <1>2
  <2> HIDE DEF S, p, n
  <2> QED BY <2>1, <2>2, <2>3 DEF Bits
<1>6. 7 \notin S
  BY <1>2, <1>3, <1>5 DEF Bits
<1> HIDE DEF S
<1>7. new \in [Clients -> Block \cup {NULL}] /\ new[c] = NULL
      /\ \A d \in Clients : d # c => new[d] = blk[d]
  BY <1>1
<1> HIDE DEF new
<1>8. Pages(new[c]) = {}
  BY <1>7 DEF Pages
<1>9. InByte(new) /\ Apart(new)
  BY <1>1, <1>7, <1>8 DEF InByte, Apart
<1>10. BitExact(m \ S, new)
  <2> SUFFICES ASSUME NEW b \in Bits
               PROVE  b \in m \ S <=>
                        (b = 7 \/ \E d \in Clients : 7 - b \in Pages(new[d]))
    BY DEF BitExact
  <2>1. b \in m <=> (b = 7 \/ \E d \in Clients : 7 - b \in Pages(blk[d]))
    BY <1>1 DEF BitExact
  <2>2. \A d \in Clients : d # c => (7 - b \in Pages(blk[d]) => 7 - b \notin Pages(blk[c]))
    BY <1>1 DEF Apart
  <2>3. (\E d \in Clients : 7 - b \in Pages(new[d])) <=>
           (\E d \in Clients : 7 - b \in Pages(blk[d])) /\ 7 - b \notin Pages(blk[c])
    BY <2>2, <1>7, <1>8
  <2> QED BY <2>1, <2>3, <1>5, <1>6
<1> QED BY <1>1, <1>7, <1>9, <1>10 DEF Sound, S, new

\* The allocator starts with the bitmap's own page marked.
LEMMA InitSound == Init => PInv
<1> SUFFICES ASSUME Init PROVE PInv
  OBVIOUS
<1>1. \A c \in Clients : block[c] = NULL /\ Pages(block[c]) = {}
  BY DEF Init, Pages
<1>2. InByte(block) /\ Apart(block) /\ BitExact(bit_map, block)
  BY <1>1 DEF InByte, Apart, BitExact, Init
<1>3. bit_map \in SUBSET Bits
  BY DEF Init, Bits
<1>4. block \in [Clients -> Block \cup {NULL}]
  BY DEF Init
<1>5. threads \in SUBSET (Clients \X Clients) /\ panic \in BOOLEAN
  BY DEF Init
<1> QED BY <1>2, <1>3, <1>4, <1>5 DEF PInv, Sound

\* Every call of the allocator keeps the bitmap and the blocks in step.
LEMMA NextSound == InMap /\ PInv /\ [Next]_vars => PInv'
<1> SUFFICES ASSUME InMap, PInv, [Next]_vars  PROVE PInv'
  OBVIOUS
<1>0. NullAssumption /\ CountsAssumption /\ MapAssumption
  BY NullAssumption, CountsAssumption, MapAssumption
<1>1. ASSUME NEW c \in Clients, NEW cnt \in Counts, get_pages(c, cnt)
      PROVE  PInv'
  <2>1. PICK k \in Attempts(cnt) :
          /\ Found(bit_map, cnt, k) /\ Asks(k, cnt)
          /\ bit_map' = bit_map \cup select(k, cnt)
          /\ block' = [block EXCEPT ![c] = [page |-> PageOf(k, cnt), cnt |-> cnt]]
    BY <1>1 DEF get_pages
  <2>2. cnt \in Nat /\ cnt > 0 /\ k < PerByte(cnt) /\ select(k, cnt) \cap bit_map = {}
    BY <2>1, CountsAssumption DEF Asks, Found
  <2>3. k \in Nat
    BY <2>2 DEF Attempts, PerByte
  <2>4. Sound(bit_map, block) /\ block[c] = NULL
    BY <1>1 DEF PInv, get_pages
  <2>5. Sound(bit_map', block')
    BY <2>1, <2>2, <2>3, <2>4, <1>0, GrantKeeps
  <2> QED BY <2>5, <1>1 DEF PInv, get_pages, Sound
<1>2. ASSUME NEW cnt \in Counts, get_pages_panic(cnt)
      PROVE  PInv'
  BY <1>2 DEF get_pages_panic, PInv, Sound, InByte, BitExact, Apart
<1>3. ASSUME NEW c \in Clients, free_pages(c)
      PROVE  PInv'
  <2>1. Sound(bit_map', block')
    BY <1>3, <1>0, FreeKeeps DEF free_pages, PInv
  <2> QED BY <2>1, <1>3 DEF PInv, free_pages, Sound
<1>4. ASSUME NEW c \in Clients, NEW d \in Clients, thread_creat(c, d)
      PROVE  PInv'
  <2>1. PICK k \in Attempts(1), m \in Attempts(3) :
          /\ Found(bit_map, 1, k) /\ Asks(k, 1)
          /\ Found(bit_map \cup select(k, 1), 3, m) /\ Asks(m, 3)
          /\ bit_map' = (bit_map \cup select(k, 1)) \cup select(m, 3)
          /\ block' = [block EXCEPT ![c] = [page |-> PageOf(k, 1), cnt |-> 1],
                                    ![d] = [page |-> PageOf(m, 3), cnt |-> 3]]
    BY <1>4 DEF thread_creat
  <2> DEFINE map == bit_map \cup select(k, 1)
             one == [block EXCEPT ![c] = [page |-> PageOf(k, 1), cnt |-> 1]]
  <2>2. k < PerByte(1) /\ m < PerByte(3) /\ k \in Nat /\ m \in Nat
    BY <2>1 DEF Asks, Attempts, PerByte
  <2>3. c # d /\ block[c] = NULL /\ block[d] = NULL /\ Sound(bit_map, block)
    BY <1>4 DEF thread_creat, PInv
  <2>4. select(k, 1) \cap bit_map = {} /\ select(m, 3) \cap map = {}
    BY <2>1 DEF Found
  <2>5. Sound(map, one)
    BY <2>2, <2>3, <2>4, <1>0, GrantKeeps
  <2>6. one[d] = NULL
    BY <2>3 DEF Sound
  <2>7. block' = [one EXCEPT ![d] = [page |-> PageOf(m, 3), cnt |-> 3]]
    BY <2>1
  <2>8. bit_map' = map \cup select(m, 3)
    BY <2>1
  <2> HIDE DEF map, one
  <2>9. Sound(map \cup select(m, 3), [one EXCEPT ![d] = [page |-> PageOf(m, 3), cnt |-> 3]])
    BY <2>2, <2>4, <2>5, <2>6, <1>0, GrantKeeps
  <2>10. Sound(bit_map', block')
    BY <2>7, <2>8, <2>9
  <2>11. threads' \in SUBSET (Clients \X Clients) /\ panic' \in BOOLEAN
    BY <1>4 DEF thread_creat, PInv
  <2> QED BY <2>10, <2>11 DEF PInv, Sound
<1>5. CASE UNCHANGED vars
  BY <1>5 DEF vars, PInv, Sound, InByte, BitExact, Apart
<1> QED BY <1>1, <1>2, <1>3, <1>4, <1>5 DEF Next

\* The invariant says what the two properties say.
LEMMA SoundIsExact == PInv => MapExact /\ NoSharing
<1> SUFFICES ASSUME PInv PROVE MapExact /\ NoSharing
  OBVIOUS
<1>1. bit_map \in SUBSET Bits /\ InByte(block) /\ BitExact(bit_map, block) /\ Apart(block)
  BY DEF PInv, Sound
<1>2. \A c \in Clients : Pages(block[c]) \subseteq 1 .. 7
  BY <1>1 DEF InByte, Pages
<1> DEFINE U == UNION {Pages(block[c]) : c \in Clients}
<1>3. \A p : p \in U <=> \E c \in Clients : p \in Pages(block[c])
  OBVIOUS
<1>4. U \subseteq 1 .. 7
  BY <1>2, <1>3
<1> HIDE DEF U
<1>5. \A b \in Bits : b \in {7 - p : p \in U} <=> 7 - b \in U
  BY <1>4 DEF Bits
<1>6. {7 - p : p \in U} \subseteq Bits
  BY <1>4 DEF Bits
<1>7. \A b \in Bits : b \in bit_map <=> b \in {7} \cup {7 - p : p \in U}
  BY <1>1, <1>3, <1>5 DEF BitExact
<1>8. bit_map = {7} \cup {7 - p : p \in U}
  BY <1>1, <1>6, <1>7 DEF Bits
<1> QED BY <1>1, <1>2, <1>8 DEF MapExact, NoSharing, Apart, U

\* While requests are served from the first byte, the bits set in the bitmap
\* are exactly those of the blocks that get_pages has handed out and free_pages
\* has not taken back, and that of the bitmap's own page.
THEOREM BitmapIsExact == InMap => (Spec => []MapExact)
<1> SUFFICES ASSUME InMap PROVE Spec => []MapExact
  OBVIOUS
<1>1. PInv /\ [Next]_vars => PInv'
  BY NextSound
<1> QED BY <1>1, InitSound, SoundIsExact, PTL DEF Spec

\* While requests are served from the first byte, get_pages gives no page to
\* two owners and never the page the bitmap is in.
THEOREM PagesNotShared == InMap => (Spec => []NoSharing)
<1> SUFFICES ASSUME InMap PROVE Spec => []NoSharing
  OBVIOUS
<1>1. PInv /\ [Next]_vars => PInv'
  BY NextSound
<1> QED BY <1>1, InitSound, SoundIsExact, PTL DEF Spec
\* The pages of any attempt, those beyond the first byte included, have numbers.
LEMMA PageOfType ==
    ASSUME NEW cnt \in Nat, NEW k \in Attempts(cnt)
    PROVE  PageOf(k, cnt) \in Nat
<1>1. cnt \in 0 .. 7 /\ k \in Nat
  <2>1. cnt \in 0 .. 7
    BY DEF Attempts
  <2>2. 0 .. MapBytes * PerByte(cnt) - 1 \subseteq Nat
    OBVIOUS
  <2> QED BY <2>1, <2>2 DEF Attempts
<1>2. \A P \in 1 .. 8 : k \div P \in Nat /\ k % P \in 0 .. P - 1
  BY <1>1
<1>3. /\ PerByte(cnt) = 8 - cnt /\ 8 - cnt \in 1 .. 8
      /\ k \div PerByte(cnt) \in Nat /\ k % PerByte(cnt) \in 0 .. 7 - cnt
  BY <1>1, <1>2 DEF PerByte
<1> QED BY <1>1, <1>3 DEF PageOf

\* Every call of the allocator keeps the types, with or without InMap.
LEMMA NextTypes == TypeOK /\ [Next]_vars => TypeOK'
<1> SUFFICES ASSUME TypeOK, [Next]_vars  PROVE TypeOK'
  OBVIOUS
<1>1. ASSUME NEW c \in Clients, NEW cnt \in Counts, get_pages(c, cnt)
      PROVE  TypeOK'
  <2>1. PICK k \in Attempts(cnt) :
          /\ bit_map' = bit_map \cup select(k, cnt)
          /\ block' = [block EXCEPT ![c] = [page |-> PageOf(k, cnt), cnt |-> cnt]]
    BY <1>1 DEF get_pages
  <2>2. cnt \in Nat
    BY CountsAssumption
  <2>3. [page |-> PageOf(k, cnt), cnt |-> cnt] \in Block
    BY <2>2, PageOfType DEF Block
  <2> QED BY <1>1, <2>1, <2>3 DEF TypeOK, get_pages, select
<1>2. ASSUME NEW cnt \in Counts, get_pages_panic(cnt)
      PROVE  TypeOK'
  BY <1>2 DEF get_pages_panic, TypeOK
<1>3. ASSUME NEW c \in Clients, free_pages(c)
      PROVE  TypeOK'
  BY <1>3 DEF free_pages, TypeOK
<1>4. ASSUME NEW c \in Clients, NEW d \in Clients, thread_creat(c, d)
      PROVE  TypeOK'
  <2>1. PICK k \in Attempts(1), m \in Attempts(3) :
          /\ bit_map' = (bit_map \cup select(k, 1)) \cup select(m, 3)
          /\ block' = [block EXCEPT ![c] = [page |-> PageOf(k, 1), cnt |-> 1],
                                    ![d] = [page |-> PageOf(m, 3), cnt |-> 3]]
    BY <1>4 DEF thread_creat
  <2>2. /\ [page |-> PageOf(k, 1), cnt |-> 1] \in Block
        /\ [page |-> PageOf(m, 3), cnt |-> 3] \in Block
    BY PageOfType DEF Block
  <2>3. block' \in [Clients -> Block \cup {NULL}]
    BY <2>1, <2>2 DEF TypeOK
  <2> QED BY <1>4, <2>1, <2>3 DEF TypeOK, thread_creat, select
<1>5. CASE UNCHANGED vars
  BY <1>5 DEF vars, TypeOK
<1> QED BY <1>1, <1>2, <1>3, <1>4, <1>5 DEF Next

\* Bitmap, blocks and threads keep their types for any requests: the pages of
\* attempts that run past the byte, with a mask of 0, included.
THEOREM AllocatorTypes == Spec => []TypeOK
<1>1. Init => TypeOK
  BY InitSound DEF PInv, Sound, TypeOK
<1> QED BY <1>1, NextTypes, PTL DEF Spec

\* The first attempt to succeed is the one for the highest run of free pages.
LEMMA SoundIsHighest == PInv => HighestFit
<1> SUFFICES ASSUME PInv, NEW cnt \in 1 .. 7, NEW p \in Starts(cnt),
                    \A q \in Starts(cnt) : q <= p
             PROVE  \E k \in Attempts(cnt) :
                        Found(bit_map, cnt, k) /\ PageOf(k, cnt) = p
  BY DEF HighestFit
<1> DEFINE U == UNION {Pages(block[c]) : c \in Clients}
           k == 8 - cnt - p
<1>1. \A b \in Bits : b \in bit_map <=> b = 7 \/ 7 - b \in U
  BY DEF PInv, Sound, BitExact
<1>2. Free = (1 .. 7) \ U
  BY DEF Free
<1> HIDE DEF U
<1>3. /\ p \in 1 .. 8 - cnt /\ p .. p + cnt - 1 \subseteq Free
      /\ k \in 0 .. 7 - cnt
  BY DEF Starts
<1>4. k \in Attempts(cnt)
  <2>1. \A a \in Nat, n \in 1 .. 7 : a >= 2 => 8 - n <= a * (8 - n)
    <3>1. \A a \in Nat : a >= 2 =>
            /\ 7 <= a * 7 /\ 6 <= a * 6 /\ 5 <= a * 5 /\ 4 <= a * 4
            /\ 3 <= a * 3 /\ 2 <= a * 2 /\ 1 <= a * 1
      OBVIOUS
    <3> QED BY <3>1
  <2>2. MapBytes * (8 - cnt) \in Int
    BY MapAssumption
  <2>3. k <= MapBytes * (8 - cnt) - 1
    BY <1>3, <2>1, <2>2, MapAssumption
  <2> QED BY <1>3, <2>2, <2>3 DEF Attempts, PerByte
<1>5. PageOf(k, cnt) = p
  BY <1>3, AttemptPages DEF PerByte
<1>6. select(k, cnt) \cap bit_map = {}
  <2> SUFFICES ASSUME NEW b \in Bits, b \in k .. k + cnt - 1  PROVE b \notin bit_map
    BY DEF select
  <2>1. 7 - b \in p .. p + cnt - 1 /\ b # 7
    BY <1>3 DEF Bits
  <2> QED BY <1>1, <1>2, <1>3, <2>1
<1>7. ASSUME NEW j \in 0 .. k - 1
      PROVE  select(j, cnt) \cap bit_map # {}
  <2> DEFINE q == 8 - cnt - j
  <2>1. q \in 1 .. 8 - cnt /\ q > p
    BY <1>3
  <2>2. PICK x \in q .. q + cnt - 1 : x \notin Free
    BY <2>1, <1>3 DEF Starts
  <2>3. 7 - x \in Bits /\ 7 - x \in j .. j + cnt - 1 /\ x \in 1 .. 7 /\ 7 - (7 - x) = x
    BY <1>3, <2>1 DEF Bits
  <2>4. 7 - x \in bit_map
    BY <1>1, <1>2, <2>2, <2>3
  <2> QED BY <2>3, <2>4 DEF select
<1> QED BY <1>4, <1>5, <1>6, <1>7 DEF Found

\* While requests are served from the first byte, a request that fits into the
\* pages not in use is served, and with the highest run of them, whatever has
\* been allocated and freed before.
THEOREM HighestRunServed == InMap => (Spec => []HighestFit)
<1> SUFFICES ASSUME InMap PROVE Spec => []HighestFit
  OBVIOUS
<1>1. PInv /\ [Next]_vars => PInv'
  BY NextSound
<1> QED BY <1>1, InitSound, SoundIsHighest, PTL DEF Spec
=============================================================================
