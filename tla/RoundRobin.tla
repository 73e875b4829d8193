----------------------------- MODULE RoundRobin -----------------------------
(***************************************************************************)
(* What the thread system promises, with no pointers in it: one running    *)
(* thread, a first-in first-out queue of ready threads that a time slice   *)
(* rotates, and for every lock or semaphore a bounded set of owners and a  *)
(* first-in first-out queue of blocked threads.                            *)
(***************************************************************************)
EXTENDS Naturals, Sequences, FiniteSets

CONSTANTS Tasks, Idle, Resources, Slots(_)

VARIABLES running, queue, blocked, owners, pending

absvars == <<running, queue, blocked, owners, pending>>

AbsInit ==
    /\ running = Idle
    /\ queue = << >>
    /\ blocked = [r \in Resources |-> << >>]
    /\ owners = [r \in Resources |-> {}]
    /\ pending = Tasks \ {Idle}

\* A created thread joins the ready queue.
Admit(t) ==
    /\ t \in pending
    /\ pending' = pending \ {t}
    /\ queue' = Append(queue, t)
    /\ UNCHANGED <<running, blocked, owners>>

\* The end of a time slice.
Rotate ==
    /\ running' = Head(Append(queue, running))
    /\ queue' = Tail(Append(queue, running))
    /\ UNCHANGED <<blocked, owners, pending>>

\* The running thread gets a free slot of r.
Take(r) ==
    /\ running # Idle /\ running \notin owners[r]
    /\ Cardinality(owners[r]) < Slots(r)
    /\ owners' = [owners EXCEPT ![r] = @ \cup {running}]
    /\ UNCHANGED <<running, queue, blocked, pending>>

\* Every slot of r is taken: the running thread waits, the next one runs.
Block(r) ==
    /\ running # Idle /\ running \notin owners[r]
    /\ Cardinality(owners[r]) = Slots(r)
    /\ queue # << >>
    /\ blocked' = [blocked EXCEPT ![r] = Append(@, running)]
    /\ running' = Head(queue)
    /\ queue' = Tail(queue)
    /\ UNCHANGED <<owners, pending>>

\* The running thread gives up its slot of r and the thread that has waited
\* longest is made ready.
Wake(r) ==
    /\ running \in owners[r]
    /\ blocked[r] # << >>
    /\ owners' = [owners EXCEPT ![r] = @ \ {running}]
    /\ blocked' = [blocked EXCEPT ![r] = Tail(@)]
    /\ queue' = Append(queue, Head(blocked[r]))
    /\ UNCHANGED <<running, pending>>

AbsNext ==
    \/ \E t \in Tasks : Admit(t)
    \/ Rotate
    \/ \E r \in Resources : Take(r) \/ Block(r) \/ Wake(r)

AbsSpec == AbsInit /\ [][AbsNext]_absvars
=============================================================================
