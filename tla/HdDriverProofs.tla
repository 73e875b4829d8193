--------------------------- MODULE HdDriverProofs ---------------------------
(***************************************************************************)
(* Safety of the disk driver for any sectors and contents: the types, that *)
(* the handlers keep apart, that a disk interrupt is always the answer the *)
(* driver waits for, and that a call that returns has done what it says.   *)
(***************************************************************************)
EXTENDS HdDriver, SequenceTheorems, TLAPS

\* The handlers on the stack, and whether the disk's is one of them.
Frames == {stack[i] : i \in 1 .. Len(stack)}
Disk == \/ "h_stub" \in Frames \/ "h_handler" \in Frames
        \/ "h_eoi" \in Frames \/ "h_exit" \in Frames

\* One handler may interrupt the other, but not its stub, which runs under cli.
Shape ==
    /\ Len(stack) <= 2
    /\ Len(stack) = 2 => /\ Timer(stack[1]) # Timer(stack[2])
                         /\ stack[1] \notin {"t_stub", "h_stub"}

\* What the handlers on the stack say about flag, masks and in-service bits.
Controllers ==
    /\ "t_stub" \in Frames \/ "h_stub" \in Frames => ~IF_
    /\ "t_handler" \in Frames \/ "t_exit" \in Frames => 0 \in imr
    /\ 0 \in isr <=> "t_stub" \in Frames
    /\ 2 \in isr <=> "h_stub" \in Frames
    /\ 14 \in isr <=> "h_stub" \in Frames \/ "h_handler" \in Frames \/ "h_eoi" \in Frames

\* b is what the call asked the drive for.
Answer(b) ==
    /\ cmd.op = "read" => b = disk[cmd.lba]
    /\ cmd.op = "identify" => b = IDENT

\* Outside the busy wait nothing is under way: no disk interrupt is requested
\* or being handled.
Outside ==
    /\ pc # "wait" /\ ~Refused => 14 \notin irr /\ ~Disk
    /\ pc \in {"enable_read", "enable_write", "idle", "out", "command", "copy"} =>
            drive.state = "ready"
    /\ pc \in {"enable_read", "enable_write", "idle", "copy"} => HD.cmdnow = "none"
    /\ pc \in {"enable_read", "enable_write"} =>
            todo # << >> /\ cmd.op = "identify" /\ buf = IDENT
    /\ pc = "copy" => cmd.op # "write" /\ (~drive.failed => Answer(HD.hdbuf))

\* A command on its way to the drive.
Sending ==
    /\ pc \in {"out", "command", "drq", "data"} /\ ~Refused => HD.cmdnow = cmd.op
    /\ pc \in {"command", "drq", "data"} /\ ~Refused => ~intrq
    /\ pc \in {"drq", "data"} =>
            /\ cmd.op = "write" /\ drive.op = "write" /\ drive.lba = cmd.lba
            /\ ~drive.written
            /\ ~Refused => drive.state \in {"busy", "drq"} /\ ~drive.failed
    /\ pc = "data" => drive.state = "drq"

\* A write given up before its data was asked for: the drive's interrupt is
\* taken back by a poll, or is on its way to hd_handler, or has been there.
Hanging ==
    Refused =>
        /\ drive.state = "ready" /\ HD.cmdnow \in {"write", "none"}
        /\ 14 \in irr => ~Disk
        /\ HD.cmdnow # "none" => "h_eoi" \notin Frames /\ "h_exit" \notin Frames
        /\ HD.cmdnow = "none" =>
            14 \notin irr /\ "h_stub" \notin Frames /\ "h_handler" \notin Frames

\* The busy wait: the drive works, then its answer is on the way to
\* hd_handler, then hd_handler has taken it.
Waiting ==
    pc = "wait" =>
        /\ drive.op = cmd.op /\ drive.lba = cmd.lba
        /\ cmd.op = "write" => drive.written /\ drive.data = cmd.data
        /\ HD.cmdnow \in {cmd.op, "none"}
        /\ 14 \in irr => ~Disk
        /\ drive.state = "busy" =>
            HD.cmdnow = cmd.op /\ ~intrq /\ 14 \notin irr /\ ~Disk /\ ~drive.failed
        /\ drive.state # "busy" /\ HD.cmdnow # "none" =>
            /\ drive.state = IF cmd.op = "write" \/ drive.failed THEN "ready" ELSE "drq"
            /\ "h_eoi" \notin Frames /\ "h_exit" \notin Frames
            /\ ~drive.failed => Answer(drive.data)
        /\ HD.cmdnow = "none" =>
            /\ drive.state = "ready" /\ 14 \notin irr
            /\ "h_stub" \notin Frames /\ "h_handler" \notin Frames
            /\ ~drive.failed => Answer(HD.hdbuf)
        /\ cmd.op = "write" /\ drive.state # "busy" /\ ~drive.failed =>
            disk[cmd.lba] = cmd.data

\* The inductive invariant.
IInv ==
    TypeOK /\ Shape /\ Controllers /\ Outside /\ Sending /\ Hanging /\ Waiting /\ CallDone

USE DEF Refused

-----------------------------------------------------------------------------
(* The stack of handlers as a set.                                          *)

\* An interrupt is delivered: its stub joins the handlers on the stack.
LEMMA PushFrame ==
    ASSUME stack \in Seq(HandlerPoints), NEW p \in HandlerPoints,
           stack' = Append(stack, p)
    PROVE  /\ stack' \in Seq(HandlerPoints)
           /\ Frames' = Frames \cup {p}
           /\ Frames = {} <=> stack = << >>
  BY DEF Frames

\* Arithmetic of small lengths.
LEMMA OneOrTwo == \A n \in Nat : n # 0 /\ n <= 2 => n \in {1, 2}
  OBVIOUS

\* The innermost handler, and the one it interrupted if there are two.
LEMMA TopFrame ==
    ASSUME stack \in Seq(HandlerPoints), Shape, NEW p, In(p)
    PROVE  /\ Len(stack) \in {1, 2} /\ p = stack[Len(stack)]
           /\ Len(stack) = 1 => Frames = {p}
           /\ Len(stack) = 2 => /\ Frames = {stack[1], p} /\ stack[1] # p
                               /\ stack[1] \notin {"t_stub", "h_stub"}
                               /\ Timer(stack[1]) # Timer(p)
  <1>1. Len(stack) \in {1, 2} /\ p = stack[Len(stack)]
    <2>1. Len(stack) \in Nat /\ Len(stack) # 0
      BY DEF In
    <2>2. Len(stack) <= 2
      BY DEF Shape
    <2>3. p = stack[Len(stack)]
      BY DEF In, Top
    <2> QED BY <2>1, <2>2, <2>3, OneOrTwo
  <1>2. 1 .. Len(stack) = IF Len(stack) = 1 THEN {1} ELSE {1, 2}
    BY <1>1
  <1>3. Frames = IF Len(stack) = 1 THEN {stack[1]} ELSE {stack[1], stack[2]}
    BY <1>1 DEF Frames
  <1>4. Len(stack) = 2 => /\ Timer(stack[1]) # Timer(p)
                          /\ stack[1] \notin {"t_stub", "h_stub"}
    BY <1>1 DEF Shape
  <1>5. Len(stack) = 2 => stack[1] # p
    BY <1>4
  <1> QED BY <1>1, <1>3, <1>4

\* What the innermost handler interrupted is the other handler past its stub.
LEMMA OtherFrames ==
    ASSUME stack \in Seq(HandlerPoints), Shape, NEW p, In(p)
    PROVE  /\ p \in Frames
           /\ \A q \in Frames \ {p} :
                q \notin {"t_stub", "h_stub"} /\ Timer(q) # Timer(p)
  BY TopFrame

\* Every frame is a handler's.
LEMMA FramesType ==
    ASSUME stack \in Seq(HandlerPoints)
    PROVE  Frames \subseteq HandlerPoints
  BY DEF Frames

\* A handler goes on to its next statement.
LEMMA StepFrame ==
    ASSUME stack \in Seq(HandlerPoints), Shape,
           NEW p \in HandlerPoints, NEW q \in HandlerPoints,
           Timer(p) = Timer(q), In(p), Step(q)
    PROVE  /\ stack' \in Seq(HandlerPoints) /\ Shape'
           /\ p \in Frames
           /\ Frames' = (Frames \ {p}) \cup {q}
  <1>1. /\ stack' \in Seq(HandlerPoints) /\ Len(stack') = Len(stack)
        /\ Len(stack) \in {1, 2}
        /\ \A j \in 1 .. Len(stack) : stack'[j] = IF j = Len(stack) THEN q ELSE stack[j]
    BY TopFrame DEF Step
  <1>2. stack'[Len(stack)] = q
    BY <1>1
  <1>3. CASE Len(stack) = 1
    <2>1. 1 .. Len(stack') = {1}
      BY <1>1, <1>3
    <2>2. Frames' = {q}
      BY <1>2, <1>3, <2>1 DEF Frames
    <2> QED BY <1>1, <1>3, <2>2, TopFrame DEF Shape
  <1>4. CASE Len(stack) = 2
    <2>1. 1 .. Len(stack') = {1, 2} /\ stack'[1] = stack[1]
      BY <1>1, <1>4
    <2>2. Frames' = {stack[1], q}
      BY <1>2, <1>4, <2>1 DEF Frames
    <2> QED BY <1>1, <1>4, <2>2, TopFrame DEF Shape
  <1> QED BY <1>1, <1>3, <1>4

\* A handler returns.
LEMMA PopFrame ==
    ASSUME stack \in Seq(HandlerPoints), Shape,
           NEW p \in HandlerPoints, In(p), Return
    PROVE  /\ stack' \in Seq(HandlerPoints) /\ Shape'
           /\ p \in Frames
           /\ Frames' = Frames \ {p}
  <1>1. /\ stack' = SubSeq(stack, 1, Len(stack) - 1) /\ Len(stack) \in {1, 2}
        /\ \A i \in 1 .. Len(stack) - 1 : stack[i] \in HandlerPoints
    BY TopFrame DEF Return
  <1>2. stack' \in Seq(HandlerPoints)
    BY <1>1
  <1>3. CASE Len(stack) = 1
    <2>1. stack' = << >>
      BY <1>1, <1>3
    <2> QED BY <1>3, <2>1, TopFrame DEF Frames, Shape
  <1>4. CASE Len(stack) = 2
    <2>1. stack' = SubSeq(stack, 1, 1)
      BY <1>1, <1>4
    <2>2. Len(stack') = 1 /\ stack'[1] = stack[1]
      BY <1>1, <1>4
    <2>3. 1 .. Len(stack') = {1}
      BY <2>2
    <2> QED BY <1>2, <1>4, <2>2, TopFrame DEF Frames, Shape
  <1> QED BY <1>1, <1>3, <1>4

\* The stack is left alone.
LEMMA SameFrames ==
    ASSUME stack' = stack
    PROVE  Frames' = Frames /\ (Shape => Shape')
  BY DEF Frames, Shape

\* No handler runs when the loader does.
LEMMA NoFrames == ASSUME stack = << >> PROVE Frames = {}
  BY DEF Frames

\* A delivered interrupt finds the other handler at most, and not its stub.
LEMMA DeliverFrame ==
    ASSUME stack \in Seq(HandlerPoints), Shape,
           NEW p \in {"t_stub", "h_stub"}, stack' = Append(stack, p),
           "t_stub" \notin Frames, "h_stub" \notin Frames,
           \A q \in Frames : Timer(q) # Timer(p)
    PROVE  Shape' /\ stack' \in Seq(HandlerPoints) /\ Frames' = Frames \cup {p}
  <1>1. stack' \in Seq(HandlerPoints) /\ Frames' = Frames \cup {p}
    BY PushFrame DEF HandlerPoints
  <1>2. Len(stack) \in Nat /\ \A i \in 1 .. Len(stack) : stack[i] \in Frames
    BY DEF Frames
  <1>3. Len(stack) # 2
    <2> SUFFICES ASSUME Len(stack) = 2 PROVE FALSE
      OBVIOUS
    <2>1. stack[1] \in Frames /\ stack[2] \in Frames
      BY <1>2
    <2>2. Timer(stack[1]) # Timer(stack[2])
      BY DEF Shape
    <2> QED BY <2>1, <2>2 DEF Timer
  <1>4. Len(stack) \in {0, 1}
    BY <1>2, <1>3, OneOrTwo DEF Shape
  <1>5. /\ Len(stack') = Len(stack) + 1 /\ stack'[Len(stack) + 1] = p
        /\ \A i \in 1 .. Len(stack) : stack'[i] = stack[i]
    OBVIOUS
  <1>6. CASE Len(stack) = 0
    <2>1. Len(stack') = 1
      BY <1>6
    <2> QED BY <1>1, <2>1 DEF Shape
  <1>7. CASE Len(stack) = 1
    <2>1. Len(stack') = 2 /\ stack'[1] = stack[1] /\ stack'[2] = p /\ stack[1] \in Frames
      BY <1>2, <1>5, <1>7
    <2>2. Timer(stack'[1]) # Timer(stack'[2]) /\ stack'[1] \notin {"t_stub", "h_stub"}
      BY <2>1
    <2> QED BY <1>1, <2>1 DEF Shape
  <1> QED BY <1>4, <1>6, <1>7

-----------------------------------------------------------------------------
(* The invariant holds initially and through every action.              *)

\* The invariant holds initially: after Init_8259A and init_idt no handler runs
\* and everything is masked.
LEMMA InitInv == Init => IInv
  <1> SUFFICES ASSUME Init PROVE IInv
    OBVIOUS
  <1>1. Frames = {}
    BY NoFrames DEF Init
  <1>2. todo \in Seq({0, 14}) /\ todo # << >>
    <2>1. /\ init_timer \in Seq({0, 14}) /\ init_hd \in Seq({0, 14})
          /\ Len(init_timer) = 2 /\ Len(init_hd) = 2
      BY DEF init_timer, init_hd
    <2>2. /\ init_timer \o init_hd \in Seq({0, 14})
          /\ Len(init_timer \o init_hd) = Len(init_timer) + Len(init_hd)
      BY <2>1, ConcatProperties
    <2>3. todo = init_timer \o init_hd
      BY DEF Init
    <2>4. Len(todo) # 0
      BY <2>1, <2>3
    <2> QED BY <2>2, <2>3, <2>4
  <1>3. TypeOK
    <2>1. todo \in Seq({0, 14}) /\ stack \in Seq(HandlerPoints)
      BY <1>2 DEF Init
    <2> QED BY <2>1 DEF Init, TypeOK, MainPoints, Ops, Contents, Command
  <1>4. Shape /\ Controllers
    BY <1>1 DEF Init, Shape, Controllers
  <1>5. Outside
    BY <1>1, <1>2 DEF Init, Outside, Disk
  <1>6. Sending /\ Hanging /\ Waiting /\ CallDone
    BY DEF Init, Sending, Hanging, Waiting, CallDone
  <1> QED BY <1>3, <1>4, <1>5, <1>6 DEF IInv

\* A tick of the timer chip.
LEMMA Tick == IInv /\ tick => IInv'
  <1> SUFFICES ASSUME IInv, tick PROVE IInv'
    OBVIOUS
  <1>1. Frames' = Frames /\ Shape'
    BY SameFrames DEF IInv, tick
  <1>2. TypeOK'
    BY DEF IInv, TypeOK, tick, main, hw
  <1>3. Controllers'
    BY <1>1 DEF IInv, Controllers, tick
  <1>4. Outside'
    BY <1>1 DEF IInv, Outside, Answer, Disk, tick, main, hw
  <1>5. Sending'
    BY DEF IInv, Sending, tick, main, hw
  <1>6. Waiting'
    BY <1>1 DEF IInv, Waiting, Answer, Disk, tick, main, hw
  <1>10. Hanging'
    BY <1>1 DEF IInv, Hanging, Outside, Sending, Disk, tick, main, hw
  <1>7. CallDone'
    BY DEF IInv, CallDone, tick, main, hw
  <1> QED BY <1>1, <1>2, <1>3, <1>4, <1>5, <1>6, <1>7, <1>10 DEF IInv

\* The timer interrupt is delivered.
LEMMA DeliverTimer == IInv /\ deliver_timer => IInv'
  <1> SUFFICES ASSUME IInv, deliver_timer PROVE IInv'
    OBVIOUS
  <1>1. /\ stack' \in Seq(HandlerPoints) /\ Shape' /\ Frames' = Frames \cup {"t_stub"}
    BY DeliverFrame DEF IInv, TypeOK, Controllers, Timer, deliver_timer, deliver
  <1>2. TypeOK'
    <2>1. /\ imr' \in SUBSET Irq /\ irr' \in SUBSET {0, 14}
          /\ isr' \in SUBSET Irq /\ seen' \in SUBSET Irq
      BY DEF IInv, TypeOK, Irq, deliver_timer, deliver, main
    <2>2. /\ drive' \in [state : {"ready", "busy", "drq"}, op : Ops, lba : LBAs,
                        data : Contents, written : BOOLEAN, failed : BOOLEAN]
          /\ disk' \in [LBAs -> Data]
      BY DEF IInv, TypeOK, deliver_timer, deliver, hw
    <2> QED BY <1>1, <2>1, <2>2, ZenonT(40) DEF IInv, TypeOK, MainPoints, Irq, Ops,
               Contents, Command, deliver_timer, deliver, main, pic, hw
  <1>3. Controllers'
    BY <1>1 DEF IInv, Controllers, deliver_timer, deliver
  <1>4. Outside'
    BY <1>1 DEF IInv, Outside, Answer, Disk, deliver_timer, deliver, main, hw
  <1>5. Sending'
    BY DEF IInv, Sending, deliver_timer, deliver, main, hw
  <1>6. Waiting'
    BY <1>1 DEF IInv, Waiting, Answer, Disk, deliver_timer, deliver, main, hw
  <1>10. Hanging'
    BY <1>1 DEF IInv, Hanging, Outside, Sending, Disk, deliver_timer, deliver, main, hw
  <1>7. CallDone'
    BY DEF IInv, CallDone, deliver_timer, deliver, main, hw
  <1> QED BY <1>1, <1>2, <1>3, <1>4, <1>5, <1>6, <1>7, <1>10 DEF IInv

\* The disk interrupt is delivered.
LEMMA DeliverDisk == IInv /\ deliver_disk => IInv'
  <1> SUFFICES ASSUME IInv, deliver_disk PROVE IInv'
    OBVIOUS
  <1>1. /\ stack' \in Seq(HandlerPoints) /\ Shape' /\ Frames' = Frames \cup {"h_stub"}
    BY DeliverFrame, FramesType DEF IInv, TypeOK, HandlerPoints, Controllers,
       Outside, Sending, Hanging, Waiting, Disk, Timer, deliver_disk, deliver
  <1>2. TypeOK'
    <2>1. /\ imr' \in SUBSET Irq /\ irr' \in SUBSET {0, 14}
          /\ isr' \in SUBSET Irq /\ seen' \in SUBSET Irq
      BY DEF IInv, TypeOK, Irq, deliver_disk, deliver, main
    <2>2. /\ drive' \in [state : {"ready", "busy", "drq"}, op : Ops, lba : LBAs,
                        data : Contents, written : BOOLEAN, failed : BOOLEAN]
          /\ disk' \in [LBAs -> Data]
      BY DEF IInv, TypeOK, deliver_disk, deliver, hw
    <2> QED BY <1>1, <2>1, <2>2, ZenonT(40) DEF IInv, TypeOK, MainPoints, Irq, Ops,
               Contents, Command, deliver_disk, deliver, main, pic, hw
  <1>3. Controllers'
    BY <1>1 DEF IInv, Controllers, deliver_disk, deliver
  <1>4. Outside'
    BY <1>1 DEF IInv, Outside, Answer, Disk, deliver_disk, deliver, main, hw
  <1>5. Sending'
    BY DEF IInv, Sending, Outside, deliver_disk, deliver, main, hw
  <1>6. Waiting'
    BY <1>1 DEF IInv, Waiting, Answer, deliver_disk, deliver, main, hw
  <1>10. Hanging'
    BY <1>1 DEF IInv, Hanging, Outside, Sending, deliver_disk, deliver, main, hw, Disk
  <1>7. CallDone'
    BY DEF IInv, CallDone, Outside, deliver_disk, deliver, main
  <1> QED BY <1>1, <1>2, <1>3, <1>4, <1>5, <1>6, <1>7, <1>10 DEF IInv

\* enable_irq reads the masks.
LEMMA EnableRead == IInv /\ enable_read => IInv'
  <1> SUFFICES ASSUME IInv, enable_read PROVE IInv'
    OBVIOUS
  <1>1. Frames = {} /\ Frames' = {} /\ Shape' /\ stack' = stack
    BY SameFrames, NoFrames DEF IInv, Main, enable_read
  <1>2. TypeOK'
    BY DEF IInv, TypeOK, MainPoints, enable_read, pic, hw
  <1>3. Controllers'
    BY <1>1 DEF IInv, Controllers, enable_read, pic
  <1>4. Outside'
    BY <1>1 DEF IInv, Outside, Disk, enable_read, Main, pic, hw
  <1>5. Sending'
    BY DEF Sending, enable_read
  <1>6. Waiting'
    BY DEF Waiting, enable_read
  <1>10. Hanging'
    BY <1>1 DEF IInv, Hanging, Outside, Sending, Disk, enable_read, Main, pic, hw
  <1>7. CallDone'
    BY DEF CallDone, enable_read
  <1> QED BY <1>1, <1>2, <1>3, <1>4, <1>5, <1>6, <1>7, <1>10 DEF IInv

\* enable_irq writes the masks.
LEMMA EnableWrite == IInv /\ enable_write => IInv'
  <1> SUFFICES ASSUME IInv, enable_write PROVE IInv'
    OBVIOUS
  <1>1. Frames = {} /\ Frames' = {} /\ Shape' /\ stack' = stack
    BY SameFrames, NoFrames DEF IInv, Main, enable_write
  <1>8. todo \in Seq({0, 14}) /\ todo # << >>
    BY DEF IInv, TypeOK, Outside, enable_write, Main
  <1>9. /\ todo[1] \in {0, 14} /\ Tail(todo) \in Seq({0, 14})
        /\ Len(todo) # 1 => Tail(todo) # << >>
    <2>1. /\ todo[1] \in {0, 14} /\ Tail(todo) \in Seq({0, 14})
          /\ Len(Tail(todo)) = Len(todo) - 1 /\ Len(todo) \in Nat
      BY <1>8
    <2>2. Len(todo) # 1 => Len(Tail(todo)) # 0
      BY <2>1
    <2> QED BY <2>1, <2>2
  <1>2. TypeOK'
    <2>1. /\ imr' \in SUBSET Irq /\ irr' \in SUBSET {0, 14}
          /\ isr' \in SUBSET Irq /\ seen' \in SUBSET Irq
      BY DEF IInv, TypeOK, enable_write
    <2>2. /\ drive' \in [state : {"ready", "busy", "drq"}, op : Ops, lba : LBAs,
                        data : Contents, written : BOOLEAN, failed : BOOLEAN]
          /\ disk' \in [LBAs -> Data]
      BY DEF IInv, TypeOK, enable_write, hw
    <2> QED BY <1>8 DEF IInv, TypeOK, MainPoints, enable_write, hw
  <1>3. Controllers'
    BY <1>1 DEF IInv, Controllers, enable_write
  <1>4. Outside'
    BY <1>1, <1>9 DEF IInv, Outside, Disk, enable_write, Main, hw
  <1>5. Sending'
    BY DEF Sending, enable_write
  <1>6. Waiting'
    BY DEF Waiting, enable_write
  <1>10. Hanging'
    BY <1>1 DEF IInv, Hanging, Outside, Sending, Disk, enable_write, Main, hw
  <1>7. CallDone'
    BY DEF IInv, CallDone, Outside, enable_write, Main
  <1> QED BY <1>1, <1>2, <1>3, <1>4, <1>5, <1>6, <1>7, <1>10 DEF IInv

\* The timer's stub.
LEMMA TimerStub == IInv /\ stub("t_stub", {0}, "t_handler") => IInv'
  <1> SUFFICES ASSUME IInv, stub("t_stub", {0}, "t_handler") PROVE IInv'
    OBVIOUS
  <1>1. /\ stack' \in Seq(HandlerPoints) /\ Shape' /\ "t_stub" \in Frames
        /\ \A o \in Frames \ {"t_stub"} :
                o \notin {"t_stub", "h_stub"} /\ Timer(o) # Timer("t_stub")
        /\ Frames' = (Frames \ {"t_stub"}) \cup {"t_handler"}
    BY StepFrame, OtherFrames DEF IInv, TypeOK, HandlerPoints, Timer, stub
  <1>2. TypeOK'
    BY <1>1 DEF IInv, TypeOK, Irq, stub, EOI_master, main, hw
  <1>3. Controllers'
    BY <1>1 DEF IInv, Controllers, stub, EOI_master
  <1>4. Outside'
    BY <1>1 DEF IInv, Outside, Answer, Disk, stub, main, hw
  <1>5. Sending'
    BY DEF IInv, Sending, stub, main, hw
  <1>6. Waiting'
    BY <1>1 DEF IInv, Waiting, Answer, Disk, stub, main, hw
  <1>10. Hanging'
    BY <1>1 DEF IInv, Hanging, Outside, Sending, Disk, stub, main, hw
  <1>7. CallDone'
    BY DEF IInv, CallDone, stub, main, hw
  <1> QED BY <1>1, <1>2, <1>3, <1>4, <1>5, <1>6, <1>7, <1>10 DEF IInv

\* timer_handler.
LEMMA TimerHandler == IInv /\ timer_handler => IInv'
  <1> SUFFICES ASSUME IInv, timer_handler PROVE IInv'
    OBVIOUS
  <1>1. /\ stack' \in Seq(HandlerPoints) /\ Shape' /\ "t_handler" \in Frames
        /\ \A o \in Frames \ {"t_handler"} :
                o \notin {"t_stub", "h_stub"} /\ Timer(o) # Timer("t_handler")
        /\ Frames' = (Frames \ {"t_handler"}) \cup {"t_exit"}
    BY StepFrame, OtherFrames DEF IInv, TypeOK, HandlerPoints, Timer,
       timer_handler
  <1>2. TypeOK'
    BY <1>1 DEF IInv, TypeOK, timer_handler, EOI_master, main, hw
  <1>3. Controllers'
    BY <1>1 DEF IInv, Controllers, timer_handler, EOI_master
  <1>4. Outside'
    BY <1>1 DEF IInv, Outside, Answer, Disk, timer_handler, main, hw
  <1>5. Sending'
    BY DEF IInv, Sending, timer_handler, main, hw
  <1>6. Waiting'
    BY <1>1 DEF IInv, Waiting, Answer, Disk, timer_handler, main, hw
  <1>10. Hanging'
    BY <1>1 DEF IInv, Hanging, Outside, Sending, Disk, timer_handler, main, hw
  <1>7. CallDone'
    BY DEF IInv, CallDone, timer_handler, main, hw
  <1> QED BY <1>1, <1>2, <1>3, <1>4, <1>5, <1>6, <1>7, <1>10 DEF IInv

\* The timer's stub returns.
LEMMA TimerExit == IInv /\ exit("t_exit", {0}) => IInv'
  <1> SUFFICES ASSUME IInv, exit("t_exit", {0}) PROVE IInv'
    OBVIOUS
  <1>1. /\ stack' \in Seq(HandlerPoints) /\ Shape' /\ "t_exit" \in Frames
        /\ \A o \in Frames \ {"t_exit"} :
                o \notin {"t_stub", "h_stub"} /\ Timer(o) # Timer("t_exit")
        /\ Frames' = Frames \ {"t_exit"}
    BY PopFrame, OtherFrames DEF IInv, TypeOK, HandlerPoints, exit
  <1>2. TypeOK'
    BY DEF IInv, TypeOK, exit, Return, main, hw
  <1>3. Controllers'
    BY <1>1 DEF IInv, Controllers, exit, Timer
  <1>4. Outside'
    BY <1>1 DEF IInv, Outside, Answer, Disk, exit, main, hw
  <1>5. Sending'
    BY DEF IInv, Sending, exit, main, hw
  <1>6. Waiting'
    BY <1>1 DEF IInv, Waiting, Answer, Disk, exit, main, hw
  <1>10. Hanging'
    BY <1>1 DEF IInv, Hanging, Outside, Sending, Disk, exit, main, hw
  <1>7. CallDone'
    BY DEF IInv, CallDone, exit, main, hw
  <1> QED BY <1>1, <1>2, <1>3, <1>4, <1>5, <1>6, <1>7, <1>10 DEF IInv

\* The disk's stub.
LEMMA DiskStub == IInv /\ stub("h_stub", {}, "h_handler") => IInv'
  <1> SUFFICES ASSUME IInv, stub("h_stub", {}, "h_handler") PROVE IInv'
    OBVIOUS
  <1>1. /\ stack' \in Seq(HandlerPoints) /\ Shape' /\ "h_stub" \in Frames
        /\ \A o \in Frames \ {"h_stub"} :
                o \notin {"t_stub", "h_stub"} /\ Timer(o) # Timer("h_stub")
        /\ Frames' = (Frames \ {"h_stub"}) \cup {"h_handler"}
    BY StepFrame, OtherFrames DEF IInv, TypeOK, HandlerPoints, Timer, stub
  <1>2. TypeOK'
    BY <1>1 DEF IInv, TypeOK, stub, EOI_master, main, hw
  <1>3. Controllers'
    BY <1>1 DEF IInv, Controllers, stub, EOI_master
  <1>4. Outside'
    BY <1>1 DEF IInv, Outside, Answer, Disk, stub, main, hw
  <1>5. Sending'
    BY <1>1 DEF IInv, Sending, Outside, Disk, stub, main, hw
  <1>6. Waiting'
    BY <1>1 DEF IInv, Waiting, Answer, Disk, stub, main, hw
  <1>10. Hanging'
    BY <1>1 DEF IInv, Hanging, Outside, Sending, Disk, stub, main, hw
  <1>7. CallDone'
    BY DEF IInv, CallDone, stub, main, hw
  <1> QED BY <1>1, <1>2, <1>3, <1>4, <1>5, <1>6, <1>7, <1>10 DEF IInv

\* hd_handler.
LEMMA HdHandler == IInv /\ hd_handler => IInv'
  <1> SUFFICES ASSUME IInv, hd_handler PROVE IInv'
    OBVIOUS
  <1>1. /\ stack' \in Seq(HandlerPoints) /\ Shape' /\ "h_handler" \in Frames
        /\ \A o \in Frames \ {"h_handler"} :
                o \notin {"t_stub", "h_stub"} /\ Timer(o) # Timer("h_handler")
        /\ Frames' = (Frames \ {"h_handler"}) \cup {"h_eoi"}
    BY StepFrame, OtherFrames DEF IInv, TypeOK, HandlerPoints, Timer, hd_handler
  <1>2. TypeOK'
    <2>1. /\ imr' \in SUBSET Irq /\ irr' \in SUBSET {0, 14}
          /\ isr' \in SUBSET Irq /\ seen' \in SUBSET Irq
      BY DEF IInv, TypeOK, hd_handler, main, pic
    <2>2. /\ drive' \in [state : {"ready", "busy", "drq"}, op : Ops, lba : LBAs,
                        data : Contents, written : BOOLEAN, failed : BOOLEAN]
          /\ disk' \in [LBAs -> Data]
      BY <1>1, SMTT(40) DEF IInv, TypeOK, Ops, Contents, Command, Outside, Sending,
         Waiting, MainPoints, hd_handler, main, pic, hw
    <2> QED BY <1>1, <2>1, <2>2 DEF IInv, TypeOK, Ops, Contents, hd_handler,
               main
  <1>3. Controllers'
    BY <1>1 DEF IInv, Controllers, hd_handler, pic
  <1>4. Outside'
    BY <1>1 DEF IInv, Outside, Hanging, Answer, Disk, TypeOK, hd_handler, main, pic
  <1>5. Sending'
    BY <1>1 DEF IInv, Sending, Outside, Hanging, Disk, TypeOK, hd_handler, main, pic
  <1>6. Waiting'
    BY <1>1 DEF IInv, Waiting, Answer, Disk, TypeOK, Ops, hd_handler, main, pic
  <1>10. Hanging'
    BY <1>1 DEF IInv, Hanging, Outside, Sending, Disk, hd_handler, main, TypeOK, Ops, pic
  <1>7. CallDone'
    BY DEF IInv, CallDone, Outside, hd_handler, main
  <1> QED BY <1>1, <1>2, <1>3, <1>4, <1>5, <1>6, <1>7, <1>10 DEF IInv

\* hd_handler's EOI_slave.
LEMMA HdEoi == IInv /\ hd_eoi => IInv'
  <1> SUFFICES ASSUME IInv, hd_eoi PROVE IInv'
    OBVIOUS
  <1>1. /\ stack' \in Seq(HandlerPoints) /\ Shape' /\ "h_eoi" \in Frames
        /\ \A o \in Frames \ {"h_eoi"} :
                o \notin {"t_stub", "h_stub"} /\ Timer(o) # Timer("h_eoi")
        /\ Frames' = (Frames \ {"h_eoi"}) \cup {"h_exit"}
    BY StepFrame, OtherFrames DEF IInv, TypeOK, HandlerPoints, Timer, hd_eoi
  <1>2. TypeOK'
    BY <1>1 DEF IInv, TypeOK, hd_eoi, EOI_master, EOI_slave, main, hw
  <1>3. Controllers'
    BY <1>1, SMTT(40) DEF IInv, Controllers, TypeOK, Irq, hd_eoi, EOI_master, EOI_slave,
       main, pic, hw, Timer
  <1>4. Outside'
    BY <1>1 DEF IInv, Outside, Answer, Disk, hd_eoi, main, hw
  <1>5. Sending'
    BY <1>1 DEF IInv, Sending, Outside, Disk, hd_eoi, main, hw
  <1>6. Waiting'
    BY <1>1 DEF IInv, Waiting, Answer, Disk, hd_eoi, main, hw
  <1>10. Hanging'
    BY <1>1 DEF IInv, Hanging, Outside, Sending, Disk, hd_eoi, main, hw
  <1>7. CallDone'
    BY DEF IInv, CallDone, hd_eoi, main, hw
  <1> QED BY <1>1, <1>2, <1>3, <1>4, <1>5, <1>6, <1>7, <1>10 DEF IInv

\* The disk's stub returns.
LEMMA DiskExit == IInv /\ exit("h_exit", {}) => IInv'
  <1> SUFFICES ASSUME IInv, exit("h_exit", {}) PROVE IInv'
    OBVIOUS
  <1>1. /\ stack' \in Seq(HandlerPoints) /\ Shape' /\ "h_exit" \in Frames
        /\ \A o \in Frames \ {"h_exit"} :
                o \notin {"t_stub", "h_stub"} /\ Timer(o) # Timer("h_exit")
        /\ Frames' = Frames \ {"h_exit"}
    BY PopFrame, OtherFrames DEF IInv, TypeOK, HandlerPoints, exit
  <1>2. TypeOK'
    BY DEF IInv, TypeOK, exit, Return, main, hw
  <1>3. Controllers'
    BY <1>1 DEF IInv, Controllers, exit
  <1>4. Outside'
    BY <1>1 DEF IInv, Outside, Answer, Disk, exit, main, hw
  <1>5. Sending'
    BY <1>1 DEF IInv, Sending, Outside, Disk, exit, main, hw
  <1>6. Waiting'
    BY <1>1 DEF IInv, Waiting, Answer, Disk, exit, main, hw
  <1>10. Hanging'
    BY <1>1 DEF IInv, Hanging, Outside, Sending, Disk, exit, main, hw
  <1>7. CallDone'
    BY DEF IInv, CallDone, exit, main, hw
  <1> QED BY <1>1, <1>2, <1>3, <1>4, <1>5, <1>6, <1>7, <1>10 DEF IInv

\* hd_cmd_out waits for the drive.
LEMMA HdCmdOut == IInv /\ hd_cmd_out => IInv'
  <1> SUFFICES ASSUME IInv, hd_cmd_out PROVE IInv'
    OBVIOUS
  <1>1. Frames = {} /\ Frames' = {} /\ Shape' /\ stack' = stack
    BY SameFrames, NoFrames DEF IInv, Main, hd_cmd_out
  <1>2. TypeOK'
    <2>1. /\ imr' \in SUBSET Irq /\ irr' \in SUBSET {0, 14}
          /\ isr' \in SUBSET Irq /\ seen' \in SUBSET Irq
      BY DEF IInv, TypeOK, hd_cmd_out, read_status
    <2>2. /\ drive' \in [state : {"ready", "busy", "drq"}, op : Ops, lba : LBAs,
                        data : Contents, written : BOOLEAN, failed : BOOLEAN]
          /\ disk' \in [LBAs -> Data]
      BY DEF IInv, TypeOK, hd_cmd_out
    <2> QED BY DEF IInv, TypeOK, MainPoints, hd_cmd_out, read_status
  <1>3. Controllers'
    BY <1>1 DEF IInv, Controllers, hd_cmd_out
  <1>4. Outside'
    BY <1>1 DEF IInv, Outside, Disk, hd_cmd_out, Main, read_status
  <1>5. Sending'
    BY DEF IInv, Sending, hd_cmd_out, Main, read_status
  <1>6. Waiting'
    BY DEF Waiting, hd_cmd_out
  <1>10. Hanging'
    BY <1>1 DEF IInv, Hanging, Outside, Sending, Disk, hd_cmd_out, Main, read_status
  <1>7. CallDone'
    BY DEF CallDone, hd_cmd_out
  <1> QED BY <1>1, <1>2, <1>3, <1>4, <1>5, <1>6, <1>7, <1>10 DEF IInv

\* hd_cmd_out writes the command.
LEMMA HdCommand == IInv /\ hd_command => IInv'
  <1> SUFFICES ASSUME IInv, hd_command PROVE IInv'
    OBVIOUS
  <1>1. Frames = {} /\ Frames' = {} /\ Shape' /\ stack' = stack
    BY SameFrames, NoFrames DEF IInv, Main, hd_command
  <1>2. TypeOK'
    BY DEF IInv, TypeOK, MainPoints, Contents, Command, hd_command, pic
  <1>3. Controllers'
    BY <1>1 DEF IInv, Controllers, hd_command, pic
  <1>4. Outside'
    BY <1>1 DEF IInv, Outside, Disk, hd_command, Main, pic
  <1>5. Sending'
    BY DEF IInv, Sending, hd_command, Main
  <1>6. Waiting'
    BY <1>1 DEF IInv, Waiting, Sending, Outside, Disk, TypeOK, Ops, Command,
       hd_command, Main, pic
  <1>10. Hanging'
    BY <1>1 DEF IInv, Hanging, Outside, Sending, Disk, hd_command, Main, pic, TypeOK, Ops, Command
  <1>7. CallDone'
    BY DEF CallDone, hd_command
  <1> QED BY <1>1, <1>2, <1>3, <1>4, <1>5, <1>6, <1>7, <1>10 DEF IInv

\* hd_write waits for the drive to ask.
LEMMA HdWriteDrq == IInv /\ hd_write_drq => IInv'
  <1> SUFFICES ASSUME IInv, hd_write_drq PROVE IInv'
    OBVIOUS
  <1>1. Frames = {} /\ Frames' = {} /\ Shape' /\ stack' = stack
    BY SameFrames, NoFrames DEF IInv, Main, hd_write_drq
  <1>2. TypeOK'
    <2>1. /\ imr' \in SUBSET Irq /\ irr' \in SUBSET {0, 14}
          /\ isr' \in SUBSET Irq /\ seen' \in SUBSET Irq
      BY DEF IInv, TypeOK, hd_write_drq, read_status
    <2>2. /\ drive' \in [state : {"ready", "busy", "drq"}, op : Ops, lba : LBAs,
                        data : Contents, written : BOOLEAN, failed : BOOLEAN]
          /\ disk' \in [LBAs -> Data]
      BY DEF IInv, TypeOK, hd_write_drq
    <2> QED BY DEF IInv, TypeOK, MainPoints, hd_write_drq, read_status
  <1>3. Controllers'
    BY <1>1 DEF IInv, Controllers, hd_write_drq
  <1>4. Outside'
    BY <1>1 DEF Outside, Disk, hd_write_drq, read_status
  <1>5. Sending'
    BY DEF IInv, Sending, Hanging, hd_write_drq, Main, read_status
  <1>6. Waiting'
    BY DEF Waiting, hd_write_drq
  <1>10. Hanging'
    BY <1>1 DEF IInv, Hanging, Outside, Sending, Disk, hd_write_drq, read_status, Main
  <1>7. CallDone'
    BY DEF CallDone, hd_write_drq
  <1> QED BY <1>1, <1>2, <1>3, <1>4, <1>5, <1>6, <1>7, <1>10 DEF IInv

\* hd_write polls the status.
LEMMA HdWritePoll == IInv /\ hd_write_poll => IInv'
  <1> SUFFICES ASSUME IInv, hd_write_poll PROVE IInv'
    OBVIOUS
  <1>1. Frames = {} /\ Frames' = {} /\ Shape' /\ stack' = stack
    BY SameFrames, NoFrames DEF IInv, Main, hd_write_poll
  <1>2. TypeOK'
    <2>1. irr' \in SUBSET {0, 14} /\ intrq' \in BOOLEAN
      BY DEF IInv, TypeOK, hd_write_poll, read_status
    <2> QED BY <2>1 DEF IInv, TypeOK, hd_write_poll, main
  <1>3. Controllers'
    BY <1>1 DEF IInv, Controllers, hd_write_poll
  <1>4. Outside'
    BY <1>1 DEF Outside, Disk, hd_write_poll, main, Main, read_status
  <1>5. Sending'
    BY DEF IInv, Sending, hd_write_poll, main, Main, read_status
  <1>6. Waiting'
    BY DEF Waiting, hd_write_poll, main, Main
  <1>10. Hanging'
    BY <1>1 DEF IInv, Hanging, Disk, hd_write_poll, main, read_status
  <1>7. CallDone'
    BY DEF CallDone, hd_write_poll, main, Main
  <1> QED BY <1>1, <1>2, <1>3, <1>4, <1>5, <1>6, <1>7, <1>10 DEF IInv

\* hd_write writes the data.
LEMMA HdWriteData == IInv /\ hd_write_data => IInv'
  <1> SUFFICES ASSUME IInv, hd_write_data PROVE IInv'
    OBVIOUS
  <1>1. Frames = {} /\ Frames' = {} /\ Shape' /\ stack' = stack
    BY SameFrames, NoFrames DEF IInv, Main, hd_write_data
  <1>2. TypeOK'
    BY DEF IInv, TypeOK, MainPoints, Contents, Command, hd_write_data, pic
  <1>3. Controllers'
    BY <1>1 DEF IInv, Controllers, hd_write_data, pic
  <1>4. Outside'
    BY DEF Outside, hd_write_data
  <1>5. Sending'
    BY DEF Sending, hd_write_data
  <1>6. Waiting'
    BY <1>1 DEF IInv, Waiting, Sending, Outside, Disk, hd_write_data, Main, pic
  <1>10. Hanging'
    BY <1>1 DEF IInv, Hanging, Outside, Sending, hd_write_data, Disk, Main, pic
  <1>7. CallDone'
    BY DEF CallDone, hd_write_data
  <1> QED BY <1>1, <1>2, <1>3, <1>4, <1>5, <1>6, <1>7, <1>10 DEF IInv

\* The busy wait ends.
LEMMA HdWait == IInv /\ hd_wait => IInv'
  <1> SUFFICES ASSUME IInv, hd_wait PROVE IInv'
    OBVIOUS
  <1>1. Frames = {} /\ Frames' = {} /\ Shape' /\ stack' = stack
    BY SameFrames, NoFrames DEF IInv, Main, hd_wait
  <1>2. TypeOK'
    BY DEF IInv, TypeOK, MainPoints, hd_wait, pic, hw
  <1>3. Controllers'
    BY <1>1 DEF IInv, Controllers, hd_wait, pic
  <1>4. Outside'
    BY <1>1 DEF IInv, Outside, Answer, Disk, Waiting, hd_wait, Main, pic, hw
  <1>5. Sending'
    BY DEF Sending, hd_wait
  <1>6. Waiting'
    BY DEF Waiting, hd_wait
  <1>10. Hanging'
    BY <1>1 DEF IInv, Hanging, Outside, Sending, Disk, hd_wait, Main, pic, hw
  <1>7. CallDone'
    BY DEF IInv, CallDone, Waiting, hd_wait, Main, hw
  <1> QED BY <1>1, <1>2, <1>3, <1>4, <1>5, <1>6, <1>7, <1>10 DEF IInv

\* The answer is copied.
LEMMA HdCopy == IInv /\ hd_copy => IInv'
  <1> SUFFICES ASSUME IInv, hd_copy PROVE IInv'
    OBVIOUS
  <1>1. Frames = {} /\ Frames' = {} /\ Shape' /\ stack' = stack
    BY SameFrames, NoFrames DEF IInv, Main, hd_copy
  <1>2. TypeOK'
    BY DEF IInv, TypeOK, MainPoints, hd_copy, pic, hw
  <1>3. Controllers'
    BY <1>1 DEF IInv, Controllers, hd_copy, pic
  <1>4. Outside'
    BY <1>1 DEF IInv, Outside, Disk, hd_copy, Main, pic, hw
  <1>5. Sending'
    BY DEF Sending, hd_copy
  <1>6. Waiting'
    BY DEF Waiting, hd_copy
  <1>10. Hanging'
    BY <1>1 DEF IInv, Hanging, Outside, Sending, Disk, hd_copy, Main, pic, hw
  <1>7. CallDone'
    BY DEF IInv, CallDone, Outside, Answer, hd_copy, Main, hw
  <1> QED BY <1>1, <1>2, <1>3, <1>4, <1>5, <1>6, <1>7, <1>10 DEF IInv

\* The drive has read.
LEMMA DriveRead == IInv /\ drive_read => IInv'
  <1> SUFFICES ASSUME IInv, drive_read PROVE IInv'
    OBVIOUS
  <1>1. Frames' = Frames /\ Shape'
    BY SameFrames DEF IInv, drive_read
  <1>2. TypeOK'
    <2>1. /\ imr' \in SUBSET Irq /\ irr' \in SUBSET {0, 14}
          /\ isr' \in SUBSET Irq /\ seen' \in SUBSET Irq
      BY DEF IInv, TypeOK, drive_read, main, raise_intrq
    <2>2. /\ drive' \in [state : {"ready", "busy", "drq"}, op : Ops, lba : LBAs,
                        data : Contents, written : BOOLEAN, failed : BOOLEAN]
          /\ disk' \in [LBAs -> Data]
      BY DEF IInv, TypeOK, Contents, drive_read
    <2> QED BY <2>2 DEF IInv, TypeOK, drive_read, main, raise_intrq
  <1>3. Controllers'
    BY <1>1 DEF IInv, Controllers, drive_read
  <1>4. Outside'
    BY DEF IInv, Outside, Sending, TypeOK, MainPoints, drive_read, main
  <1>5. Sending'
    BY DEF IInv, Sending, Outside, drive_read, main
  <1>6. Waiting'
    BY <1>1 DEF IInv, Waiting, Answer, Disk, drive_read, main
  <1>10. Hanging'
    BY <1>1 DEF IInv, Hanging, Outside, Sending, TypeOK, MainPoints, drive_read, main, Disk
  <1>7. CallDone'
    BY DEF IInv, CallDone, drive_read, main
  <1> QED BY <1>1, <1>2, <1>3, <1>4, <1>5, <1>6, <1>7, <1>10 DEF IInv

\* The drive asks for the data.
LEMMA DriveWantData == IInv /\ drive_want_data => IInv'
  <1> SUFFICES ASSUME IInv, drive_want_data PROVE IInv'
    OBVIOUS
  <1>1. Frames' = Frames /\ Shape'
    BY SameFrames DEF IInv, drive_want_data
  <1>2. TypeOK'
    <2>1. /\ imr' \in SUBSET Irq /\ irr' \in SUBSET {0, 14}
          /\ isr' \in SUBSET Irq /\ seen' \in SUBSET Irq
      BY DEF IInv, TypeOK, drive_want_data, main, pic
    <2>2. /\ drive' \in [state : {"ready", "busy", "drq"}, op : Ops, lba : LBAs,
                        data : Contents, written : BOOLEAN, failed : BOOLEAN]
          /\ disk' \in [LBAs -> Data]
      BY DEF IInv, TypeOK, drive_want_data
    <2> QED BY <2>1 DEF IInv, TypeOK, drive_want_data, main
  <1>3. Controllers'
    BY <1>1 DEF IInv, Controllers, drive_want_data, pic
  <1>4. Outside'
    BY <1>1 DEF IInv, Outside, Disk, drive_want_data, main, pic
  <1>5. Sending'
    BY DEF IInv, Sending, drive_want_data, main
  <1>6. Waiting'
    BY DEF IInv, Waiting, drive_want_data, main
  <1>10. Hanging'
    BY <1>1 DEF IInv, Hanging, Outside, Sending, Disk, drive_want_data, main, pic
  <1>7. CallDone'
    BY DEF IInv, CallDone, drive_want_data, main
  <1> QED BY <1>1, <1>2, <1>3, <1>4, <1>5, <1>6, <1>7, <1>10 DEF IInv

\* The drive has written.
LEMMA DriveWrite == IInv /\ drive_write => IInv'
  <1> SUFFICES ASSUME IInv, drive_write PROVE IInv'
    OBVIOUS
  <1>1. Frames' = Frames /\ Shape'
    BY SameFrames DEF IInv, drive_write
  <1>2. TypeOK'
    <2>1. /\ imr' \in SUBSET Irq /\ irr' \in SUBSET {0, 14}
          /\ isr' \in SUBSET Irq /\ seen' \in SUBSET Irq
      BY DEF IInv, TypeOK, drive_write, main, raise_intrq
    <2>2. /\ drive' \in [state : {"ready", "busy", "drq"}, op : Ops, lba : LBAs,
                        data : Contents, written : BOOLEAN, failed : BOOLEAN]
          /\ disk' \in [LBAs -> Data]
      BY DEF IInv, TypeOK, Command, Outside, Sending, Waiting, MainPoints,
         drive_write
    <2> QED BY <2>2 DEF IInv, TypeOK, drive_write, main, raise_intrq
  <1>3. Controllers'
    BY <1>1 DEF IInv, Controllers, drive_write
  <1>4. Outside'
    BY DEF IInv, Outside, Sending, TypeOK, MainPoints, drive_write, main
  <1>5. Sending'
    BY DEF IInv, Sending, Outside, drive_write, main
  <1>6. Waiting'
    BY <1>1 DEF IInv, Waiting, Answer, Disk, TypeOK, drive_write, main
  <1>10. Hanging'
    BY <1>1 DEF IInv, Hanging, Outside, Sending, TypeOK, MainPoints, drive_write, main, Disk
  <1>7. CallDone'
    BY DEF IInv, CallDone, Outside, drive_write, main
  <1> QED BY <1>1, <1>2, <1>3, <1>4, <1>5, <1>6, <1>7, <1>10 DEF IInv

\* The drive gives up.
LEMMA DriveError == IInv /\ drive_error => IInv'
  <1> SUFFICES ASSUME IInv, drive_error PROVE IInv'
    OBVIOUS
  <1>1. Frames' = Frames /\ Shape'
    BY SameFrames DEF IInv, drive_error
  <1>2. TypeOK'
    <2>1. /\ imr' \in SUBSET Irq /\ irr' \in SUBSET {0, 14}
          /\ isr' \in SUBSET Irq /\ seen' \in SUBSET Irq
      BY DEF IInv, TypeOK, drive_error, main, raise_intrq
    <2>2. /\ drive' \in [state : {"ready", "busy", "drq"}, op : Ops, lba : LBAs,
                        data : Contents, written : BOOLEAN, failed : BOOLEAN]
          /\ disk' \in [LBAs -> Data]
      BY DEF IInv, TypeOK, drive_error
    <2> QED BY DEF IInv, TypeOK, drive_error, main, raise_intrq
  <1>3. Controllers'
    BY <1>1 DEF IInv, Controllers, drive_error
  <1>4. Outside'
    BY DEF IInv, Outside, Sending, TypeOK, MainPoints, drive_error, main
  <1>5. Sending'
    BY DEF IInv, Sending, Outside, drive_error, main
  <1>6. Waiting'
    BY <1>1 DEF IInv, Waiting, Disk, drive_error, main
  <1>10. Hanging'
    BY <1>1 DEF IInv, Hanging, Outside, Sending, TypeOK, MainPoints, drive_error, main, Disk
  <1>7. CallDone'
    BY DEF CallDone, drive_error
  <1> QED BY <1>1, <1>2, <1>3, <1>4, <1>5, <1>6, <1>7, <1>10 DEF IInv

\* A call: the command, and HD.cmdnow.
LEMMA Call ==
    ASSUME IInv, NEW c \in Command, call(c)
    PROVE  IInv'
  <1>1. Frames = {} /\ Frames' = {} /\ Shape' /\ stack' = stack
    BY SameFrames, NoFrames DEF IInv, Main, call
  <1>2. TypeOK'
    BY DEF IInv, TypeOK, MainPoints, Command, call, Main, pic, hw
  <1>3. Controllers'
    BY <1>1 DEF IInv, Controllers, call, pic
  <1>4. Outside'
    BY <1>1 DEF IInv, Outside, Disk, call, Main, pic, hw
  <1>5. Sending'
    BY DEF Sending, call
  <1>6. Waiting'
    BY DEF Waiting, call
  <1>10. Hanging'
    BY <1>1 DEF IInv, Hanging, Outside, Sending, Disk, call, Main, pic, hw
  <1>7. CallDone'
    BY DEF CallDone, call
  <1> QED BY <1>1, <1>2, <1>3, <1>4, <1>5, <1>6, <1>7, <1>10 DEF IInv

\* Every step of the loader, the handlers, the controllers and the drive
\* preserves the invariant.
LEMMA NextInv == IInv /\ [Next]_vars => IInv'
  <1> SUFFICES ASSUME IInv, [Next]_vars PROVE IInv'
    OBVIOUS
  <1>1. CASE tick \/ Deliver
    BY <1>1, Tick, DeliverTimer, DeliverDisk DEF Deliver
  <1>2. CASE TimerInterrupt
    BY <1>2, TimerStub, TimerHandler, TimerExit DEF TimerInterrupt
  <1>3. CASE DiskInterrupt
    BY <1>3, DiskStub, HdHandler, HdEoi, DiskExit DEF DiskInterrupt
  <1>4. CASE Drive
    BY <1>4, DriveRead, DriveWantData, DriveWrite, DriveError DEF Drive
  <1>5. CASE Loader
    BY <1>5, EnableRead, EnableWrite, HdCmdOut, HdCommand, HdWriteDrq, HdWritePoll,
       HdWriteData, HdWait, HdCopy DEF Loader
  <1>6. CASE \E c \in Command : call(c)
    BY <1>6, Call
  <1>7. CASE UNCHANGED vars
    <2>1. Frames' = Frames
      BY <1>7, SameFrames DEF vars
    <2> QED
      BY <1>7, <2>1 DEF vars, IInv, TypeOK, Shape, Controllers, Outside, Disk,
         Sending, Hanging, Waiting, Answer, CallDone
  <1> QED BY <1>1, <1>2, <1>3, <1>4, <1>5, <1>6, <1>7 DEF Next

\* What the driver's safety rests on.
LEMMA Invariance == Spec => []IInv
  BY InitInv, NextInv, PTL DEF Spec

-----------------------------------------------------------------------------
(* The theorems.                                                            *)

\* Every variable of the driver, the controllers and the drive keeps its type.
THEOREM DriverTypes == Spec => []TypeOK
  <1>1. IInv => TypeOK
    BY DEF IInv
  <1> QED BY <1>1, Invariance, PTL

\* A call that returns has done what it says: the busy wait of hd_read, hd_write
\* and hd_identify on HD.cmdnow never ends before the drive has answered.
THEOREM CallsAreDone == Spec => []CallDone
  <1>1. IInv => CallDone
    BY DEF IInv
  <1> QED BY <1>1, Invariance, PTL

\* A disk interrupt that reaches hd_handler is the answer to the command the
\* loader waits for, and the drive is done with it.
THEOREM EveryInterruptAnswers == Spec => []OneAnswer
  <1>1. IInv => OneAnswer
    <2> SUFFICES ASSUME IInv, In("h_handler") PROVE OneAnswer
      BY DEF OneAnswer
    <2>1. "h_handler" \in Frames
      BY OtherFrames DEF IInv, TypeOK
    <2> QED BY <2>1 DEF IInv, OneAnswer, Outside, Sending, Hanging, Waiting, Disk
  <1> QED BY <1>1, Invariance, PTL

\* The handlers run with interrupts on and yet never interrupt themselves, and
\* the second EOI that timer_handler and EOI_slave send ends nobody's interrupt.
THEOREM HandlersKeepApart == Spec => []HandlersApart
  <1>1. IInv => HandlersApart
    <2> SUFFICES ASSUME IInv PROVE HandlersApart
      OBVIOUS
    <2>1. \A i, j \in 1 .. Len(stack) : i # j => Timer(stack[i]) # Timer(stack[j])
      <3>1. Len(stack) \in Nat /\ Len(stack) <= 2
        BY DEF IInv, Shape
      <3>2. CASE Len(stack) = 2
        <4>1. 1 .. Len(stack) = {1, 2} /\ Timer(stack[1]) # Timer(stack[2])
          BY <3>2 DEF IInv, Shape
        <4> QED BY <4>1
      <3>3. CASE Len(stack) # 2
        <4>1. \A n \in Nat : n <= 2 /\ n # 2 => \A i, j \in 1 .. n : i = j
          OBVIOUS
        <4> QED BY <3>1, <3>3, <4>1
      <3> QED BY <3>2, <3>3
    <2>2. ASSUME In("t_handler") \/ In("h_eoi")
          PROVE  isr \cap {0, 2} = {}
      <3>1. "t_stub" \notin Frames /\ "h_stub" \notin Frames
        BY <2>2, OtherFrames DEF IInv, TypeOK
      <3> QED BY <3>1 DEF IInv, Controllers
    <2> QED BY <2>1, <2>2 DEF HandlersApart
  <1> QED BY <1>1, Invariance, PTL

\* The same under the scheduling that the liveness properties assume.
COROLLARY FairDriver ==
    FairSpec => [](TypeOK /\ CallDone /\ OneAnswer /\ HandlersApart)
  BY DriverTypes, CallsAreDone, EveryInterruptAnswers, HandlersKeepApart, PTL DEF FairSpec
=============================================================================
