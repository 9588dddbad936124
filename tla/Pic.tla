--------------------------------- MODULE Pic ---------------------------------
(***************************************************************************)
(* The two cascaded 8259A interrupt controllers of a PC, as i386/pic.c and *)
(* c_isr() program them.  The chips are external; what the kernel writes   *)
(* to their ports is not.                                                  *)
(***************************************************************************)
EXTENDS Integers, FiniteSetsExt

\* icw is the initialisation word that the data port expects next, 0 if none.
Chip(base) ==
  [base |-> base, mask |-> {}, cascade |-> 0, irr |-> {}, isr |-> {}, icw |-> 0]

Weights == <<1, 2, 4, 8, 16, 32, 64, 128>>
Bits(data) == {i \in 0 .. 7 : (data \div Weights[i + 1]) % 2 = 1}

\* The command port: ICW1 has bit 4 set, 0x20 is the non-specific end of
\* interrupt, of the one with the highest priority in service.
Command(chip, data) ==
  IF 4 \in Bits(data) THEN [Chip(chip.base) EXCEPT !.icw = 2]
  ELSE IF data = 32 /\ chip.isr # {} THEN [chip EXCEPT !.isr = @ \ {Min(@)}]
  ELSE chip

\* The data port: ICW2 to ICW4 while they are due, then the mask.
Data(chip, data) ==
  CASE chip.icw = 0 -> [chip EXCEPT !.mask = Bits(data)]
    [] chip.icw = 2 -> [chip EXCEPT !.base = 8 * (data \div 8), !.icw = 3]
    [] chip.icw = 3 -> [chip EXCEPT !.cascade = data, !.icw = 4]
    [] chip.icw = 4 -> [chip EXCEPT !.icw = 0]

\* outportb(): ports 0x20 and 0x21 are the master's, 0xA0 and 0xA1 the slave's.
Written(chip, command, data, port, value) ==
  IF port = command THEN Command(chip, value)
  ELSE IF port = data THEN Data(chip, value)
  ELSE chip

Outportb(pics, port, value) ==
  [master |-> Written(pics.master, 32, 33, port, value),
   slave |-> Written(pics.slave, 160, 161, port, value)]

\* Lines 0 to 7 become vectors 32 to 39, lines 8 to 15 vectors 40 to 47.
PicRemapIRQs(pics) ==
  LET icw1 == Outportb(Outportb(pics, 32, 17), 160, 17)
      icw2 == Outportb(Outportb(icw1, 33, 32), 161, 40)
      icw3 == Outportb(Outportb(icw2, 33, 4), 161, 2)
      icw4 == Outportb(Outportb(icw3, 33, 1), 161, 1)
  IN  Outportb(Outportb(icw4, 33, 0), 161, 0)

\* A slip in the next one: the slave's first line is taken for the master's.
AcknowledgeMaster(pics, int_no) ==
  Outportb(IF int_no > 40 THEN Outportb(pics, 160, 32) ELSE pics, 32, 32)

\* A slip in the next one: only what came by the controllers is acknowledged.
AcknowledgeHardware(pics, int_no) ==
  IF int_no \notin 32 .. 47 THEN pics
  ELSE Outportb(IF int_no >= 40 THEN Outportb(pics, 160, 32) ELSE pics, 32, 32)

\* The end of c_isr(), whatever came in.
Acknowledge(pics, int_no) ==
  Outportb(IF int_no >= 40 THEN Outportb(pics, 160, 32) ELSE pics, 32, 32)

-----------------------------------------------------------------------------
\* The requests of a chip that its mask and what is in service let through.
Requests(chip) == {i \in chip.irr \ chip.mask : \A j \in chip.isr : i < j}

\* The slave is wired to line 2 of the master and answers if both know it.
Cascaded(pics) == pics.slave.cascade = 2 /\ 2 \in Bits(pics.master.cascade)

WithSlave(pics) ==
  IF Requests(pics.slave) = {} THEN pics ELSE [pics EXCEPT !.master.irr = @ \cup {2}]

\* The processor's interrupt line.
Asserted(pics) == Requests(WithSlave(pics).master) # {}

InService(chip, i) == [chip EXCEPT !.irr = @ \ {i}, !.isr = @ \cup {i}]

\* The processor acknowledges: the controllers and the vector they answer with.
Accepted(pics) ==
  LET i == Min(Requests(WithSlave(pics).master))
      m == [pics EXCEPT !.master = InService(@, i)]
      j == Min(Requests(pics.slave))
  IN  IF i # 2 THEN [pics |-> m, vector |-> pics.master.base + i]
      ELSE IF ~Cascaded(pics) THEN [pics |-> m, vector |-> pics.master.base + 2]
      ELSE [pics |-> [m EXCEPT !.slave = InService(@, j)], vector |-> pics.slave.base + j]

\* The request is gone when the processor acknowledges: the chip answers with
\* its last vector and puts nothing in service, but the master has the slave.
Spurious(pics) ==
  {[pics |-> pics, vector |-> pics.master.base + 7],
   [pics |-> [pics EXCEPT !.master = InService(@, 2)], vector |-> pics.slave.base + 7]}

\* A device pulls its line.
Requested(pics, line) ==
  IF line < 8 THEN [pics EXCEPT !.master.irr = @ \cup {line}]
  ELSE [pics EXCEPT !.slave.irr = @ \cup {line - 8}]
==============================================================================
