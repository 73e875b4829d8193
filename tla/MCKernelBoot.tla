---------------------------- MODULE MCKernelBoot ----------------------------
(* Instances of KernelBoot for TLC: PC memory maps in KB. *)
EXTENDS KernelBoot

MB == 1024
ram(from, to) == [base |-> from, len |-> to - from, ram |-> TRUE]
other(from, to) == [base |-> from, len |-> to - from, ram |-> FALSE]

\* RAM up to 639 KB, the BIOS, extended memory up to end, ACPI tables, the
\* BIOS's flash memory below 4 GB.
Low == <<ram(0, 639), other(639, 640), other(960, MB)>>
Flash == other(4096 * MB - 256, 4096 * MB - 1)
Ends_ ==
    {3 * MB, 5 * MB, 6 * MB, 6 * MB + 1, 64 * MB - 64, 133 * MB, 133 * MB + 4,
     140 * MB, 1015 * MB, 1016 * MB, 1016 * MB + 1, 1020 * MB, 2048 * MB,
     4095 * MB}

\* Without and with a hole at 15 MB, with RAM beyond 4 GB (baselow is 0), with
\* a RAM region above the flash memory's end, and maps with few entries.
MCMachines ==
    UNION {{Low \o <<ram(MB, e), other(e, e + 64), Flash>>,
            Low \o <<ram(MB, e), other(e, e + 64), Flash, ram(0, 512 * MB)>>,
            Low \o <<ram(MB, 15 * MB), ram(16 * MB, e + 16 * MB), Flash>>,
            <<ram(0, 639), ram(MB, e), Flash>>,
            <<ram(MB, e), ram(e + 64, 4096 * MB), Flash>>,
            <<ram(0, e), Flash>>,
            <<ram(MB, e)>>} : e \in {x \in Ends_ : x < 4000 * MB}}
    \cup {Low \o <<ram(MB, 4095 * MB), Flash>>}
=============================================================================
