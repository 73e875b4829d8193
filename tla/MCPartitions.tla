---------------------------- MODULE MCPartitions ----------------------------
(* Instances of Partitions for TLC. *)
EXTENDS Partitions

\* The sectors that the primary partitions begin with, and the ones after.
Starts == {i * Size : i \in 1 .. 4} \cup {i * Size + 1 : i \in 0 .. 4}
Holding(first, second) ==
    [lba \in Starts |-> <<first, second, EmptyEntry, EmptyEntry>>]

\* Zeros everywhere, or what looks like tables with foreign partitions, with a
\* Finux one, or with a link to another sector.
Found == {[id |-> OTHER_SYSID, lba |-> 1], [id |-> FINUX_SYSID, lba |-> 3],
          [id |-> PART_EXTENDED, lba |-> Size]}
MCOthers ==
    {[lba \in {} |-> EmptyTable]}
    \cup {Holding(first, second) : first \in Found, second \in Found \cup {EmptyEntry}}
=============================================================================
