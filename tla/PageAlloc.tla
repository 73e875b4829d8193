------------------------------ MODULE PageAlloc ------------------------------
(***************************************************************************)
(* The page allocator (kernel/mm/page.c) and its one client, thread_creat  *)
(* (kernel/thread/init.c).  Pages are numbered from 5M, where the bitmap   *)
(* itself lies in page 0.                                                  *)
(*                                                                         *)
(* get_pages never advances tmp_map and never resets select: it looks at   *)
(* the first byte of the bitmap only, and shifts one u8 mask left from     *)
(* attempt to attempt.  Bit b of that byte stands for page 7 - b.  Attempt *)
(* k (counted over both loops) therefore tests the bits k .. k+cnt-1 that  *)
(* are still inside the byte; from attempt 8 on the mask is 0, matches     *)
(* anything and marks nothing.                                             *)
(***************************************************************************)
EXTENDS Integers, FiniteSets

CONSTANTS
    Clients,       \* owners of blocks: each has at most one
    Counts,        \* the page counts that get_pages is called with
    MapBytes,      \* page_bit_map_cnt
    InMap,         \* TRUE: clients ask only for what the first byte can serve
    NULL

ASSUME NullAssumption == NULL \notin [page : Nat, cnt : Nat]
ASSUME CountsAssumption == Counts \subseteq Nat
ASSUME MapAssumption == MapBytes \in Nat /\ MapBytes >= 2
ASSUME InMapAssumption == InMap \in BOOLEAN

Bits == 0 .. 7

VARIABLES
    bit_map,    \* the bits set in the first byte of page_bit_map
    block,      \* the pages each client owns: [page, cnt], or NULL
    threads,    \* the clients <<struct, stack>> of every thread created
    panic       \* PANIC has been called: cli and for (;;)

vars == <<bit_map, block, threads, panic>>

Block == [page : Nat, cnt : Nat]
Pages(b) == IF b = NULL THEN {} ELSE b.page .. b.page + b.cnt - 1

TypeOK ==
    /\ bit_map \in SUBSET Bits
    /\ block \in [Clients -> Block \cup {NULL}]
    /\ threads \in SUBSET (Clients \X Clients)
    /\ panic \in BOOLEAN

\* init_page_bit_map: *page_bit_map = 1 << 7
Init ==
    /\ bit_map = {7}
    /\ block = [c \in Clients |-> NULL]
    /\ threads = {} /\ panic = FALSE

-----------------------------------------------------------------------------
\* Mutant: the mask keeps one bit.
select_one(k, cnt) == {k} \cap Bits

\* The mask of attempt k.
select(k, cnt) == (k .. k + cnt - 1) \cap Bits

\* Mutant: "< 7".
PerByte_short(cnt) == IF cnt < 7 THEN 7 - cnt ELSE 1

\* "(bytein + page_cnt) < 8" gives 8 - cnt attempts for each i.
PerByte(cnt) == 8 - cnt
Attempts(cnt) == IF cnt < 8 THEN 0 .. MapBytes * PerByte(cnt) - 1 ELSE {}

\* The attempt that get_pages stops at: the first whose bits are all clear.
Found(map, cnt, k) ==
    /\ k \in Attempts(cnt)
    /\ select(k, cnt) \cap map = {}
    /\ \A j \in 0 .. k - 1 : select(j, cnt) \cap map # {}

\* Mutant: (i * 8) + (bytein - page_cnt), an address below the bitmap.
PageOf_below(k, cnt) ==
    8 * (k \div PerByte(cnt)) + (k % PerByte(cnt)) - cnt

\* page_bit_map + ((i * 8) + (8 - bytein - page_cnt)) * PAGE_SIZE
PageOf(k, cnt) ==
    8 * (k \div PerByte(cnt)) + 8 - (k % PerByte(cnt)) - cnt

\* A client that knows the allocator asks only for a run the byte has.
Asks(k, cnt) == InMap => cnt > 0 /\ k < PerByte(cnt)

\* When no attempt succeeds, as for 8 pages, get_pages returns 0 and changes
\* nothing.
get_pages(c, cnt) ==
    /\ ~panic
    /\ block[c] = NULL
    /\ \E k \in Attempts(cnt) :
        /\ Found(bit_map, cnt, k) /\ Asks(k, cnt)
        /\ bit_map' = bit_map \cup select(k, cnt)
        /\ block' = [block EXCEPT ![c] = [page |-> PageOf(k, cnt), cnt |-> cnt]]
    /\ UNCHANGED <<threads, panic>>

\* PANIC("In the get_pages func: page_cnt > 8.")
get_pages_panic(cnt) ==
    /\ ~panic
    /\ cnt > 8
    /\ panic' = TRUE
    /\ UNCHANGED <<bit_map, block, threads>>

\* Mutant: the shift forgets page_cnt.
cleared_shift(b) ==
    LET s == 8 - (b.page % 8) IN (s .. s + b.cnt - 1) \cap Bits

\* free_pages: clears cnt bits from 8 - page % 8 - cnt on.  The byte it clears
\* them in is number page / 4096, which is the first one for every page
\* get_pages hands out.
cleared(b) ==
    LET s == 8 - (b.page % 8) - b.cnt IN (s .. s + b.cnt - 1) \cap Bits

free_pages(c) ==
    /\ ~panic
    /\ block[c] # NULL /\ \A th \in threads : c \notin {th[1], th[2]}
    /\ bit_map' = bit_map \ cleared(block[c])
    /\ block' = [block EXCEPT ![c] = NULL]
    /\ UNCHANGED <<threads, panic>>

\* thread_creat: get_pages(1) for the structure, get_pages(3) for the
\* thread_union.  Threads never end.
thread_creat(c, d) ==
    /\ ~panic
    /\ c # d /\ block[c] = NULL /\ block[d] = NULL
    /\ \E k \in Attempts(1), m \in Attempts(3) :
        LET map == bit_map \cup select(k, 1) IN
        /\ Found(bit_map, 1, k) /\ Asks(k, 1)
        /\ Found(map, 3, m) /\ Asks(m, 3)
        /\ bit_map' = map \cup select(m, 3)
        /\ block' = [block EXCEPT ![c] = [page |-> PageOf(k, 1), cnt |-> 1],
                                  ![d] = [page |-> PageOf(m, 3), cnt |-> 3]]
    /\ threads' = threads \cup {<<c, d>>}
    /\ UNCHANGED panic

Next ==
    \/ \E c \in Clients, cnt \in Counts : get_pages(c, cnt)
    \/ \E cnt \in Counts : get_pages_panic(cnt)
    \/ \E c \in Clients : free_pages(c)
    \/ \E c, d \in Clients : thread_creat(c, d)

Spec == Init /\ [][Next]_vars

-----------------------------------------------------------------------------
\* get_pages and free_pages keep the bitmap exact: the bits set are those of
\* the blocks in use and of the bitmap's own page, so nothing leaks and nothing
\* in use is marked free.
MapExact == bit_map = {7} \cup {7 - p : p \in UNION {Pages(block[c]) : c \in Clients}}

\* get_pages gives no page to two clients, and never the page the bitmap is in.
NoSharing ==
    /\ \A c, d \in Clients : c # d => Pages(block[c]) \cap Pages(block[d]) = {}
    /\ \A c \in Clients : 0 \notin Pages(block[c])

\* Whatever was allocated and freed before, a request that fits into the pages
\* not in use is served, with the highest run of them.
Free == (1 .. 7) \ UNION {Pages(block[c]) : c \in Clients}
Starts(cnt) == {p \in 1 .. 8 - cnt : p .. p + cnt - 1 \subseteq Free}
HighestFit ==
    \A cnt \in 1 .. 7 : \A p \in Starts(cnt) :
        (\A q \in Starts(cnt) : q <= p) =>
            \E k \in Attempts(cnt) : Found(bit_map, cnt, k) /\ PageOf(k, cnt) = p
=============================================================================
