------------------------------ MODULE ListHead ------------------------------
(***************************************************************************)
(* The intrusive circular doubly linked list of lib/list.c.                *)
(*                                                                         *)
(* The memory the list functions work on is a record L of two functions,   *)
(* L.next and L.prev, from list nodes to list nodes.  Every operator takes *)
(* that memory and returns the memory the C function leaves behind.  The   *)
(* assignments are kept in the order of the C code: the arguments may      *)
(* alias (a node inserted next to itself, a node that is its own           *)
(* neighbour), and then the order decides the outcome.                     *)
(***************************************************************************)
EXTENDS Naturals, Sequences

\* The memories over a set N of list nodes.
Links(N) == [next : [N -> N], prev : [N -> N]]

INIT_LIST_HEAD(L, list) ==
    [next |-> [L.next EXCEPT ![list] = list],
     prev |-> [L.prev EXCEPT ![list] = list]]

\* static inline __list_add(new, prev, next): next->prev = new;
\* new->next = next; new->prev = prev; prev->next = new.
list_insert(L, new, prev, next) ==
    [next |-> [[L.next EXCEPT ![new] = next] EXCEPT ![prev] = new],
     prev |-> [[L.prev EXCEPT ![next] = new] EXCEPT ![new] = prev]]

list_add(L, new, head) == list_insert(L, new, head, L.next[head])

\* "tail" is the node after which new goes; the callers pass X->prev.
list_add_tail(L, new, tail) == list_insert(L, new, tail, L.next[tail])

\* static inline __list_del(prev, next)
list_unlink(L, prev, next) ==
    [next |-> [L.next EXCEPT ![prev] = next],
     prev |-> [L.prev EXCEPT ![next] = prev]]

\* Mutant: the entry keeps its own links.
list_del_stale(L, entry) == list_unlink(L, L.prev[entry], L.next[entry])

list_del(L, entry) ==
    INIT_LIST_HEAD(list_unlink(L, L.prev[entry], L.next[entry]), entry)

\* The four assignments of list_replace, each reading what the one before
\* it wrote, and INIT_LIST_HEAD(old).
list_replace(L, new, old) ==
    LET n1 == [L.next EXCEPT ![new] = L.next[old]]
        p1 == [L.prev EXCEPT ![n1[new]] = new]
        p2 == [p1 EXCEPT ![new] = p1[old]]
        n2 == [n1 EXCEPT ![p2[new]] = new]
    IN  INIT_LIST_HEAD([next |-> n2, prev |-> p2], old)

-----------------------------------------------------------------------------
(***************************************************************************)
(* What the list functions are for: a ring of nodes in an order.           *)
(***************************************************************************)

\* q holds no node twice.
NoRepeat(q) == \A i, j \in 1 .. Len(q) : q[i] = q[j] => i = j

\* The cyclic successor and predecessor of an index of a ring of n nodes.
CycSucc(i, n) == IF i = n THEN 1 ELSE i + 1
CycPred(i, n) == IF i = 1 THEN n ELSE i - 1

\* In memory L the nodes of q are linked into one ring, in the order of q.
Ring(L, q) ==
    /\ NoRepeat(q)
    /\ \A i \in 1 .. Len(q) : /\ L.next[q[i]] = q[CycSucc(i, Len(q))]
                              /\ L.prev[q[i]] = q[CycPred(i, Len(q))]

\* q without its node at position k.
Without(q, k) ==
    [i \in 1 .. Len(q) - 1 |-> IF i < k THEN q[i] ELSE q[i + 1]]

\* The node n is on no list: it is linked to itself.
Alone(L, n) == L.next[n] = n /\ L.prev[n] = n
=============================================================================
