------------------------------ MODULE HdDriver ------------------------------
(***************************************************************************)
(* The loader's disk driver (boot/hd.c) with everything it waits for: the  *)
(* interrupt stubs of boot/interrupt.c, the two interrupt controllers as   *)
(* boot/8259a.c programs them, the timer interrupt of boot/timer.c, and    *)
(* the drive.  The driver is a busy wait: hd_read, hd_write and            *)
(* hd_identify set HD.cmdnow, write the command, and spin until hd_handler *)
(* has set HD.cmdnow back to ATA_none.                                     *)
(*                                                                         *)
(* The loader calls the driver for one sector at a time, so a command has  *)
(* one answer.  The controllers and the drive are hardware, modelled by    *)
(* what the driver relies on: fixed priorities, requests latched on an     *)
(* edge, a non-specific end of interrupt (EOI) that ends the request of    *)
(* the highest priority in service, and an interrupt line that the drive   *)
(* lowers when its status is read.                                         *)
(***************************************************************************)
EXTENDS Naturals, Sequences

CONSTANTS
    LBAs,       \* sectors
    Data,       \* contents of a sector
    IDENT,      \* the drive's answer to ATA_identify
    GARBAGE     \* what the data port gives when the drive offers no data

ASSUME HdAssumption ==
    /\ LBAs # {} /\ IDENT \notin Data /\ GARBAGE \notin Data \cup {IDENT}

Irq == {0, 2, 14}      \* timer, the line of the slave, disk
Ops == {"identify", "read", "write"}
MainPoints == {"enable_read", "enable_write", "idle", "out", "command", "drq",
               "data", "wait", "copy"}
HandlerPoints == {"t_stub", "t_handler", "t_exit",
                  "h_stub", "h_handler", "h_eoi", "h_exit"}

VARIABLES
    pc,       \* where the loader is
    todo,     \* the enable_irq calls of init_timer and init_hd still to make
    seen,     \* the mask bits enable_irq has read
    stack,    \* the interrupt handlers running, the innermost last
    IF_,      \* the interrupt flag
    imr,      \* interrupts masked
    irr,      \* interrupts requested
    isr,      \* interrupts in service
    HD,       \* cmdnow and hdbuf of struct hd_status
    cmd,      \* the call in progress, or the last one
    buf,      \* the caller's buffer
    drive,    \* what the drive is doing
    intrq,    \* its interrupt line
    disk      \* its sectors

pic == <<imr, irr, isr>>
main == <<pc, todo, seen, cmd, buf>>
hw == <<drive, intrq, disk>>
vars == <<pc, todo, seen, stack, IF_, imr, irr, isr, HD, cmd, buf, drive,
          intrq, disk>>

Contents == Data \cup {IDENT, GARBAGE}
Command == [op : Ops, lba : LBAs, data : Data]

TypeOK ==
    /\ pc \in MainPoints /\ todo \in Seq({0, 14}) /\ seen \in SUBSET Irq
    /\ stack \in Seq(HandlerPoints) /\ IF_ \in BOOLEAN
    /\ imr \in SUBSET Irq /\ irr \in SUBSET {0, 14} /\ isr \in SUBSET Irq
    /\ HD \in [cmdnow : Ops \cup {"none"}, hdbuf : Contents]
    /\ cmd \in Command /\ buf \in Contents
    /\ drive \in [state : {"ready", "busy", "drq"}, op : Ops, lba : LBAs,
                  data : Contents, written : BOOLEAN, failed : BOOLEAN]
    /\ intrq \in BOOLEAN
    /\ disk \in [LBAs -> Data]

\* The enable_irq calls of init_timer and init_hd: one by set_intr_gate, once
\* the handler and its gate are installed, and one of their own.
init_timer == <<0, 0>>
init_hd == <<14, 14>>

\* After Init_8259A (everything masked) and init_idt (sti).
Init ==
    /\ pc = "enable_read" /\ todo = init_timer \o init_hd /\ seen = {}
    /\ stack = << >> /\ IF_ = TRUE
    /\ imr = Irq /\ irr = {} /\ isr = {}
    /\ HD = [cmdnow |-> "none", hdbuf |-> GARBAGE]
    /\ cmd \in [op : {"identify"}, lba : LBAs, data : Data]
    /\ buf = IDENT      \* as if hd_identify, the first call, had been made
    /\ drive = [state |-> "ready", op |-> "identify", lba |-> cmd.lba,
                data |-> GARBAGE, written |-> FALSE, failed |-> FALSE]
    /\ intrq = FALSE
    /\ disk \in [LBAs -> Data]

-----------------------------------------------------------------------------
(* The interrupt controllers.                                               *)

\* outb 0x20 to the master's, or the slave's, command port.
EOI_master(s) == IF 0 \in s THEN s \ {0} ELSE s \ {2}
EOI_slave(s) == s \ {14}

\* A tick of the timer chip.
tick ==
    /\ 0 \notin irr
    /\ irr' = irr \cup {0}
    /\ UNCHANGED <<main, stack, IF_, imr, isr, HD, hw>>

deliver(i, services, point) ==
    /\ IF_ /\ i \in irr
    /\ irr' = irr \ {i}
    /\ isr' = isr \cup services
    /\ stack' = Append(stack, point)
    /\ IF_' = FALSE
    /\ UNCHANGED <<main, imr, HD, hw>>

deliver_timer == 0 \notin imr \cup isr /\ deliver(0, {0}, "t_stub")
deliver_disk ==
    /\ imr \cap {2, 14} = {} /\ isr = {}
    /\ deliver(14, {2, 14}, "h_stub")

\* The loader runs when no handler does.
Main(p) == pc = p /\ stack = << >>

\* enable_irq reads the masks before its cli ...
enable_read ==
    /\ Main("enable_read")
    /\ seen' = imr
    /\ pc' = "enable_write"
    /\ UNCHANGED <<todo, stack, IF_, pic, HD, cmd, buf, hw>>

\* ... and writes them between cli and sti.
enable_write ==
    /\ Main("enable_write")
    /\ imr' = seen \ (IF todo[1] < 8 THEN {todo[1]} ELSE {2, todo[1]})
    /\ todo' = Tail(todo)
    /\ pc' = IF Len(todo) = 1 THEN "idle" ELSE "enable_read"
    /\ UNCHANGED <<seen, stack, IF_, irr, isr, HD, cmd, buf, hw>>

-----------------------------------------------------------------------------
(* The interrupt handlers: interrupt_master(irq) around interrupt[irq].     *)

Top == stack[Len(stack)]
In(p) == stack # << >> /\ Top = p
Step(p) == stack' = [stack EXCEPT ![Len(stack)] = p]
Return == stack' = SubSeq(stack, 1, Len(stack) - 1) /\ IF_' = TRUE

\* Mutant: the stub does not mask the interrupt it serves.
stub_nomask(p, mask, q) ==
    /\ In(p)
    /\ isr' = EOI_master(isr)
    /\ IF_' = TRUE
    /\ Step(q)
    /\ UNCHANGED <<main, imr, irr, HD, hw>>

\* Mask the interrupt, EOI, sti.  1 << 14 has no bit in bl: the disk stub
\* masks nothing.
stub(p, mask, q) ==
    /\ In(p)
    /\ imr' = imr \cup mask
    /\ isr' = EOI_master(isr)
    /\ IF_' = TRUE
    /\ Step(q)
    /\ UNCHANGED <<main, irr, HD, hw>>

\* timer_handler ends with an EOI of its own.
timer_handler ==
    /\ In("t_handler")
    /\ isr' = EOI_master(isr)
    /\ Step("t_exit")
    /\ UNCHANGED <<main, IF_, imr, irr, HD, hw>>

\* Mutant: reads the status port.
hd_handler_port ==
    /\ In("h_handler")
    /\ HD' = [cmdnow |-> "none", hdbuf |-> drive.state]
    /\ drive' = [drive EXCEPT !.state = IF @ = "drq" THEN "ready" ELSE @]
    /\ Step("h_eoi")
    /\ UNCHANGED <<main, IF_, pic, intrq, disk>>

\* hd_handler: port_read into HD.hdbuf, HD.cmdnow = ATA_none.
hd_handler ==
    /\ In("h_handler")
    /\ IF HD.cmdnow \in {"identify", "read"}
       THEN /\ HD' = [cmdnow |-> "none",
                      hdbuf |-> IF drive.state = "drq" THEN drive.data ELSE GARBAGE]
            /\ drive' = [drive EXCEPT !.state = IF @ = "drq" THEN "ready" ELSE @]
       ELSE HD' = [HD EXCEPT !.cmdnow = "none"] /\ UNCHANGED drive
    /\ Step("h_eoi")
    /\ UNCHANGED <<main, IF_, pic, intrq, disk>>

\* Mutant: only the master gets its EOI.
hd_eoi_master ==
    /\ In("h_eoi")
    /\ isr' = EOI_master(isr)
    /\ IF_' = TRUE
    /\ Step("h_exit")
    /\ UNCHANGED <<main, imr, irr, HD, hw>>

\* EOI_slave, called by hd_handler: both controllers, sti.
hd_eoi ==
    /\ In("h_eoi")
    /\ isr' = EOI_slave(EOI_master(isr))
    /\ IF_' = TRUE
    /\ Step("h_exit")
    /\ UNCHANGED <<main, imr, irr, HD, hw>>

\* Mutant: the interrupt stays masked.
exit_masked(p, mask) ==
    /\ In(p)
    /\ Return
    /\ UNCHANGED <<main, imr, irr, isr, HD, hw>>

\* cli, unmask the interrupt, iret.
exit(p, mask) ==
    /\ In(p)
    /\ imr' = imr \ mask
    /\ Return
    /\ UNCHANGED <<main, irr, isr, HD, hw>>

-----------------------------------------------------------------------------
(* hd_identify, hd_read and hd_write.                                       *)

\* Mutant: HD.cmdnow is not set.
call_unset(c) ==
    /\ Main("idle")
    /\ cmd' = c
    /\ pc' = "out"
    /\ UNCHANGED <<todo, seen, stack, IF_, pic, HD, buf, hw>>

\* A call up to hd_cmd_out: the command, and HD.
call(c) ==
    /\ Main("idle")
    /\ cmd' = c
    /\ HD' = [HD EXCEPT !.cmdnow = c.op]
    /\ pc' = "out"
    /\ UNCHANGED <<todo, seen, stack, IF_, pic, buf, hw>>

\* Reading the status register lowers the drive's interrupt line.
read_status ==
    /\ intrq' = FALSE
    /\ irr' = irr \ {14}

\* hd_cmd_out: while (inb_pic(0x1f7) >= 0x80);
hd_cmd_out ==
    /\ Main("out")
    /\ drive.state # "busy"
    /\ read_status
    /\ pc' = "command"
    /\ UNCHANGED <<todo, seen, stack, IF_, imr, isr, HD, cmd, buf, drive, disk>>

hd_command ==
    /\ Main("command")
    /\ drive' = [state |-> "busy", op |-> cmd.op, lba |-> cmd.lba,
                 data |-> GARBAGE, written |-> FALSE, failed |-> FALSE]
    /\ pc' = IF cmd.op = "write" THEN "drq" ELSE "wait"
    /\ UNCHANGED <<todo, seen, stack, IF_, pic, HD, cmd, buf, intrq, disk>>

\* hd_write: while (!(inb_pic(COM_Status) & 0x8));
hd_write_drq ==
    /\ Main("drq")
    /\ drive.state = "drq"
    /\ read_status
    /\ pc' = "data"
    /\ UNCHANGED <<todo, seen, stack, IF_, imr, isr, HD, cmd, buf, drive, disk>>

\* A round of that loop reads the status, too, and may so take back the
\* interrupt of a drive that has given up.
hd_write_poll ==
    /\ Main("drq")
    /\ drive.state # "drq"
    /\ read_status
    /\ UNCHANGED <<main, stack, IF_, imr, isr, HD, drive, disk>>

\* port_write(HD.buf, HD.port, HD.bufsize)
hd_write_data ==
    /\ Main("data")
    /\ drive' = [drive EXCEPT !.state = "busy", !.data = cmd.data, !.written = TRUE]
    /\ pc' = "wait"
    /\ UNCHANGED <<todo, seen, stack, IF_, pic, HD, cmd, buf, intrq, disk>>

\* Mutant: no wait for the handler.
hd_wait_not ==
    /\ Main("wait")
    /\ pc' = IF cmd.op = "write" THEN "idle" ELSE "copy"
    /\ UNCHANGED <<todo, seen, stack, IF_, pic, HD, cmd, buf, hw>>

\* while (HD.cmdnow == cmd.command);
hd_wait ==
    /\ Main("wait")
    /\ HD.cmdnow # cmd.op
    /\ pc' = IF cmd.op = "write" THEN "idle" ELSE "copy"
    /\ UNCHANGED <<todo, seen, stack, IF_, pic, HD, cmd, buf, hw>>

\* memcpy(buf, HD.hdbuf, HD.bufsize).  hd_identify's buffer is its own; the
\* model keeps what it received.
hd_copy ==
    /\ Main("copy")
    /\ buf' = HD.hdbuf
    /\ pc' = "idle"
    /\ UNCHANGED <<todo, seen, stack, IF_, pic, HD, cmd, hw>>

-----------------------------------------------------------------------------
(* The drive.                                                               *)

\* A rising edge of the interrupt line.
raise_intrq ==
    /\ intrq' = TRUE
    /\ irr' = IF intrq THEN irr ELSE irr \cup {14}

drive_read ==
    /\ drive.state = "busy" /\ drive.op \in {"identify", "read"}
    /\ drive' = [drive EXCEPT !.state = "drq",
                              !.data = IF drive.op = "read" THEN disk[drive.lba] ELSE IDENT]
    /\ raise_intrq
    /\ UNCHANGED <<main, stack, IF_, imr, isr, HD, disk>>

drive_want_data ==
    /\ drive.state = "busy" /\ drive.op = "write" /\ ~drive.written
    /\ drive' = [drive EXCEPT !.state = "drq"]
    /\ UNCHANGED <<main, stack, IF_, pic, HD, intrq, disk>>

drive_write ==
    /\ drive.state = "busy" /\ drive.op = "write" /\ drive.written
    /\ disk' = [disk EXCEPT ![drive.lba] = drive.data]
    /\ drive' = [drive EXCEPT !.state = "ready"]
    /\ raise_intrq
    /\ UNCHANGED <<main, stack, IF_, imr, isr, HD>>

\* The drive gives up a command, having no data or having written none, and
\* reports it in the status that nothing looks at; a write before or after it
\* has asked for the data.
drive_error ==
    /\ drive.state = "busy"
    /\ drive' = [drive EXCEPT !.state = "ready", !.failed = TRUE]
    /\ raise_intrq
    /\ UNCHANGED <<main, stack, IF_, imr, isr, HD, disk>>

-----------------------------------------------------------------------------
Loader ==
    \/ enable_read \/ enable_write
    \/ hd_cmd_out \/ hd_command \/ hd_write_drq \/ hd_write_poll \/ hd_write_data
    \/ hd_wait \/ hd_copy
TimerInterrupt ==
    stub("t_stub", {0}, "t_handler") \/ timer_handler \/ exit("t_exit", {0})
DiskInterrupt ==
    \/ stub("h_stub", {}, "h_handler") \/ hd_handler \/ hd_eoi
    \/ exit("h_exit", {})
Drive == drive_read \/ drive_want_data \/ drive_write \/ drive_error
Deliver == deliver_timer \/ deliver_disk

Next ==
    \/ tick \/ Deliver \/ TimerInterrupt \/ DiskInterrupt \/ Drive \/ Loader
    \/ \E c \in Command : call(c)

Spec == Init /\ [][Next]_vars

\* The processor runs on, the drive answers and the controllers deliver.  Ticks
\* come 18 times a second: they leave time for a step of what they interrupt.
FairSpec ==
    /\ Spec
    /\ WF_vars(TimerInterrupt) /\ SF_vars(DiskInterrupt) /\ SF_vars(Loader)
    /\ SF_vars(deliver_timer) /\ SF_vars(deliver_disk)
    /\ WF_vars(Drive)

-----------------------------------------------------------------------------
\* When a call returns it has done what it says: hd_read's buffer holds the
\* sector, hd_write's data is on the disk (not merely sent), hd_identify has
\* the drive's answer; the busy wait on HD.cmdnow never ends early.  A command
\* the drive has given up is the exception (hd_handler does not look), but
\* spoils no later call.
CallDone ==
    pc = "idle" /\ ~drive.failed =>
        /\ cmd.op = "read" => buf = disk[cmd.lba]
        /\ cmd.op = "write" => disk[cmd.lba] = cmd.data
        /\ cmd.op = "identify" => buf = IDENT

\* hd_write polls a drive that has given up before it asked for the data.
Refused == pc = "drq" /\ drive.failed

\* A disk interrupt is the answer to the command the loader waits for: when
\* hd_handler runs, HD.cmdnow is that command and the drive is done with it.
OneAnswer ==
    In("h_handler") => /\ pc = "wait" \/ Refused
                       /\ HD.cmdnow = cmd.op /\ drive.op = cmd.op
                       /\ drive.state = IF cmd.op = "write" \/ drive.failed
                                        THEN "ready" ELSE "drq"

\* A frame of the timer interrupt.
Timer(frame) == frame \in {"t_stub", "t_handler", "t_exit"}

\* Handlers run with interrupts on, yet each is on the stack at most once; and
\* when timer_handler and EOI_slave send the master an EOI that the stub has sent
\* already, nothing else is in service there, so that neither ends the interrupt
\* of the other.
HandlersApart ==
    /\ \A i, j \in 1 .. Len(stack) : i # j => Timer(stack[i]) # Timer(stack[j])
    /\ In("t_handler") \/ In("h_eoi") => isr \cap {0, 2} = {}

\* Every call returns, unless the drive gives up a write before it has asked for
\* the data, when the loop of hd_write waits for DRQ for ever; a command given up
\* later returns.  No answer is lost behind a mask, an EOI that was not sent, or a
\* status read.
CallsReturn == pc = "out" ~> (pc = "idle" \/ Refused)

\* The timer interrupt comes back after every tick: the masks that enable_irq
\* read before its cli and the stub's own masking do not lock it out.
TimerServed == (todo = << >> /\ 0 \in irr) ~> (0 \notin irr)
=============================================================================
