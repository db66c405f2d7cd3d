-------------------------------- MODULE Pic --------------------------------
(***************************************************************************)
(* The two cascaded 8259 interrupt controllers of src/src/hardware/pic.c   *)
(* and the CPU's INTR line they drive.  Controller Master receives the     *)
(* interrupt output of controller Slave on its line Cascade.               *)
(*                                                                         *)
(* Every entry point of pic.c runs to completion on the emulator's core,   *)
(* so each is one action.  The environment is the devices, which raise and *)
(* lower their lines, and the guest, which accepts interrupts and programs *)
(* the controllers through their command and data ports.                   *)
(*                                                                         *)
(* The bytes irr, imr, isr and pin_state are sets of line numbers; "rol"   *)
(* followed by a scan from bit 0 is the order given by Rank.  Left out, as *)
(* nothing the controllers do depends on them: vector_offset (the number   *)
(* added to the line), read_isr, elcr, irq_bus_value and raised_intr_line. *)
(* The machine's APIC is disabled here; IrqFabric has it.                  *)
(***************************************************************************)
EXTENDS Integers, FiniteSets

CONSTANTS
  NLines,      \* lines of one controller: 8 in the code
  Devices,     \* the <<controller, line>> pairs a device is wired to
  Pulsing,     \* the devices that signal by lowering the line and raising it again
  Withdrawing, \* the devices that lower a line the CPU has not accepted yet
  Masks,       \* the masks the guest writes with OCW1
  Ocw2,        \* the OCW2 commands the guest writes
  Ocw3,        \* the OCW3 commands the guest writes
  Icw1,        \* the ICW1 commands the guest writes
  Resets       \* the guest can reset the machine

Master  == 0
Slave   == 1
Ctrl    == {Master, Slave}
Lines   == 0 .. NLines - 1
Cascade == 2

Ocw2Commands == [rotate : BOOLEAN, specific : BOOLEAN, eoi : BOOLEAN, line : Lines]
Ocw3Commands == [smm : BOOLEAN]
Icw1Commands == [single : BOOLEAN, ic4 : BOOLEAN]

ASSUME PicAssumption ==
  /\ NLines \in Nat /\ NLines > Cascade
  /\ Devices \subseteq (Ctrl \X Lines) \ {<<Master, Cascade>>}
  /\ Pulsing \subseteq Devices
  /\ Withdrawing \subseteq Devices
  /\ Masks \subseteq SUBSET Lines
  /\ Ocw2 \subseteq Ocw2Commands
  /\ Ocw3 \subseteq Ocw3Commands
  /\ Icw1 \subseteq Icw1Commands
  /\ Resets \in BOOLEAN

VARIABLE pic    \* [chip |-> the two controllers, intr |-> the CPU's INTR line]

(***************************************************************************)
(* One controller.  "icw" is the initialisation word the data port expects *)
(* next, 0 when in_initialization is clear; "base" is priority_base, the   *)
(* line of lowest priority; "highest" is highest_priority_irq_to_send;     *)
(* "smm" is what the test of ocw[3] against 0x60 finds.                    *)
(***************************************************************************)
Chip ==
  [irr : SUBSET Lines, imr : SUBSET Lines, isr : SUBSET Lines, pin : SUBSET Lines,
   base : Lines, highest : Lines, autoeoi : BOOLEAN, rotate : BOOLEAN,
   smm : BOOLEAN, icw : {0, 2, 3, 4}, single : BOOLEAN, ic4 : BOOLEAN]

State == [chip : [Ctrl -> Chip], intr : BOOLEAN]

SetChip(s, c, ch) == [s EXCEPT !.chip[c] = ch]

-----------------------------------------------------------------------------
(* Priorities.                                                             *)

\* The position of line l when base is the lowest: 0 is served first.
Rank(base, l) == (l - base - 1 + NLines) % NLines

Outranks(base, l, S) == \A j \in S : Rank(base, l) < Rank(base, j)

Requests(ch) == ch.irr \ ch.imr

\* Fault: the scan does not stop at a line in service.
DeliverableOverService(ch) == Requests(ch)

\* The lines pic_internal_update may announce: in special mask mode those not
\* in service, otherwise those of higher priority than every line in service.
Deliverable(ch) ==
  {l \in Requests(ch) : IF ch.smm THEN l \notin ch.isr
                                  ELSE Outranks(ch.base, l, ch.isr)}

\* The first of S in order of priority.
TopOf(base, S) == CHOOSE l \in S : \A j \in S : Rank(base, l) <= Rank(base, j)

\* Fault: the line is not taken modulo the number of lines.
AnnounceNoModulus(ch) ==
  [ch EXCEPT !.highest = ch.base + 1 + Rank(ch.base, TopOf(ch.base, Deliverable(ch)))]

Announce(ch) == [ch EXCEPT !.highest = TopOf(ch.base, Deliverable(ch))]

-----------------------------------------------------------------------------
(* The functions of pic.c, as functions of the state.                      *)

DropLine(ch, l) == [ch EXCEPT !.irr = @ \ {l}, !.pin = @ \ {l}]
LatchLine(ch, l) == [ch EXCEPT !.irr = @ \cup {l}, !.pin = @ \cup {l}]

UpdateMaster(s) ==
  IF Deliverable(s.chip[Master]) = {} THEN s
  ELSE [SetChip(s, Master, Announce(s.chip[Master])) EXCEPT !.intr = TRUE]

RaiseMaster(s, l) ==
  IF l \in s.chip[Master].pin THEN s
  ELSE UpdateMaster(SetChip(s, Master, LatchLine(s.chip[Master], l)))

LowerMaster(s, l) == SetChip(s, Master, DropLine(s.chip[Master], l))

\* The slave announces a line by pulsing the master's cascade line.
UpdateSlave(s) ==
  IF Deliverable(s.chip[Slave]) = {} THEN s
  ELSE RaiseMaster(LowerMaster(SetChip(s, Slave, Announce(s.chip[Slave])), Cascade),
                   Cascade)

Update(s, c) == IF c = Master THEN UpdateMaster(s) ELSE UpdateSlave(s)

RaiseSlave(s, l) ==
  IF l \in s.chip[Slave].pin THEN s
  ELSE UpdateSlave(SetChip(s, Slave, LatchLine(s.chip[Slave], l)))

\* A slave left without any request, masked ones included, drops the cascade line.
LowerSlave(s, l) ==
  LET t == SetChip(s, Slave, DropLine(s.chip[Slave], l))
  IN  IF t.chip[Slave].irr = {} THEN LowerMaster(t, Cascade) ELSE t

RaiseLine(s, c, l) == IF c = Master THEN RaiseMaster(s, l) ELSE RaiseSlave(s, l)
LowerLine(s, c, l) == IF c = Master THEN LowerMaster(s, l) ELSE LowerSlave(s, l)

\* pic_internal_get_interrupt on one controller: the announced line goes into
\* service, unless its request is gone (the spurious case changes nothing).
Genuine(ch) == ch.highest \in ch.irr

TakeRequest(ch) ==
  IF ~Genuine(ch) THEN ch
  ELSE [ch EXCEPT !.irr = @ \ {ch.highest},
                  !.isr = IF ch.autoeoi THEN @ ELSE @ \cup {ch.highest},
                  !.base = IF ch.autoeoi /\ ch.rotate THEN ch.highest ELSE @]

AsksSlave(s) == Genuine(s.chip[Master]) /\ s.chip[Master].highest = Cascade

\* Fault: the INTR line is left up.
TakeInterruptIntrUp(s) ==
  [s EXCEPT !.chip = [c \in Ctrl |-> IF c = Master \/ AsksSlave(s)
                                     THEN TakeRequest(s.chip[c]) ELSE s.chip[c]]]

TakeInterrupt(s) ==
  [chip |-> [c \in Ctrl |-> IF c = Master \/ AsksSlave(s) THEN TakeRequest(s.chip[c])
                                                          ELSE s.chip[c]],
   intr |-> FALSE]

\* The line that a non-specific EOI ends: the one of highest priority in service.
EndHighest(ch) == [ch EXCEPT !.isr = @ \ {TopOf(ch.base, ch.isr)}]

EndInterrupt(ch, w) ==
  LET ended == IF w.specific THEN [ch EXCEPT !.isr = @ \ {w.line}]
               ELSE IF ch.isr = {} THEN ch ELSE EndHighest(ch)
  IN  IF w.rotate THEN [ended EXCEPT !.base = w.line] ELSE ended

\* Fault: an EOI does not look for the next request.
WriteOcw2NoUpdate(s, c, w) ==
  IF w.eoi THEN SetChip(s, c, EndInterrupt(s.chip[c], w)) ELSE s

WriteOcw2(s, c, w) ==
  LET ch == s.chip[c]
  IN  IF w.eoi THEN Update(SetChip(s, c, EndInterrupt(ch, w)), c)
      ELSE IF ~w.specific THEN SetChip(s, c, [ch EXCEPT !.rotate = w.rotate])
      ELSE IF w.rotate THEN SetChip(s, c, [ch EXCEPT !.base = w.line])
      ELSE s

WriteOcw3(s, c, w) == SetChip(s, c, [s.chip[c] EXCEPT !.smm = w.smm])

\* Fault: unmasking does not look for requests that were masked.
WriteOcw1NoUpdate(s, c, mask) == SetChip(s, c, [s.chip[c] EXCEPT !.imr = mask])

WriteOcw1(s, c, mask) == Update(SetChip(s, c, [s.chip[c] EXCEPT !.imr = mask]), c)

\* ICW1 forgets the controller's requests and lowers the CPU's INTR line, also
\* when it is written to the slave.  It leaves pin, highest and smm.
WriteIcw1(s, c, w) ==
  [SetChip(s, c, [s.chip[c] EXCEPT !.irr = {}, !.imr = {}, !.isr = {},
                                   !.base = NLines - 1, !.autoeoi = FALSE,
                                   !.rotate = FALSE, !.icw = 2,
                                   !.single = w.single, !.ic4 = w.ic4])
     EXCEPT !.intr = FALSE]

IcwAfter(ch) ==
  CASE ch.icw = 2 -> IF ~ch.single THEN 3 ELSE IF ch.ic4 THEN 4 ELSE 0
    [] ch.icw = 3 -> IF ch.ic4 THEN 4 ELSE 0
    [] OTHER      -> 0

\* ICW2, ICW3 or ICW4, whichever is due; auto matters in ICW4 only.
WriteIcw(s, c, auto) ==
  LET ch == s.chip[c]
  IN  SetChip(s, c, [ch EXCEPT !.icw = IcwAfter(ch),
                               !.autoeoi = IF ch.icw = 4 THEN auto ELSE @])

ResetChip(ch) == [ch EXCEPT !.imr = Lines, !.irr = {}, !.isr = {}, !.icw = 0]

\* io_reset runs pic_reset and cpu_reset: neither touches the CPU's INTR line.
ResetState(s) == [s EXCEPT !.chip = [c \in Ctrl |-> ResetChip(s.chip[c])]]

-----------------------------------------------------------------------------
(* Initial states: after pic_reset at power on, or after the BIOS.         *)

ZeroedChip ==
  [irr |-> {}, imr |-> {}, isr |-> {}, pin |-> {}, base |-> 0, highest |-> 0,
   autoeoi |-> FALSE, rotate |-> FALSE, smm |-> FALSE, icw |-> 0,
   single |-> FALSE, ic4 |-> FALSE]

PowerOn == ResetState([chip |-> [c \in Ctrl |-> ZeroedChip], intr |-> FALSE])

\* The BIOS writes ICW1 with a cascade and an ICW4, then ICW2, ICW3, ICW4 and
\* a mask, as every guest of the machine does.
Programmed(s, c) ==
  LET icw1 == WriteIcw1(s, c, [single |-> FALSE, ic4 |-> TRUE])
  IN  WriteOcw1(WriteIcw(WriteIcw(WriteIcw(icw1, c, FALSE), c, FALSE), c, FALSE), c, {})

AfterBios == Programmed(Programmed(PowerOn, Master), Slave)

Init == pic \in {PowerOn, AfterBios}

-----------------------------------------------------------------------------
(* Actions.                                                                *)

\* A device raises its line.
Raise(c, l) ==
  /\ <<c, l>> \in Devices
  /\ pic' = RaiseLine(pic, c, l)

\* A device lowers its line and raises it again at once, as the timer does.
Pulse(c, l) ==
  /\ <<c, l>> \in Pulsing
  /\ pic' = RaiseLine(LowerLine(pic, c, l), c, l)

\* A device lowers its line.  One that is not Withdrawing does so only when
\* the CPU has accepted its request.
Lower(c, l) ==
  /\ <<c, l>> \in Devices
  /\ <<c, l>> \in Withdrawing \/ l \notin pic.chip[c].irr
  /\ pic' = LowerLine(pic, c, l)

\* The CPU accepts an interrupt (cpu_run, with IF set and nothing blocked).
GetInterrupt ==
  /\ pic.intr
  /\ pic' = TakeInterrupt(pic)

Ocw1Write(c) ==
  /\ pic.chip[c].icw = 0
  /\ \E mask \in Masks : pic' = WriteOcw1(pic, c, mask)

Ocw2Write(c) == \E w \in Ocw2 : pic' = WriteOcw2(pic, c, w)

Ocw3Write(c) == \E w \in Ocw3 : pic' = WriteOcw3(pic, c, w)

Icw1Write(c) == \E w \in Icw1 : pic' = WriteIcw1(pic, c, w)

IcwWrite(c) ==
  /\ pic.chip[c].icw # 0
  /\ \E auto \in BOOLEAN : pic' = WriteIcw(pic, c, auto)

Reset == Resets /\ pic' = ResetState(pic)

Next ==
  \/ \E c \in Ctrl : \/ \E l \in Lines : Raise(c, l) \/ Pulse(c, l) \/ Lower(c, l)
                     \/ Ocw1Write(c)
                     \/ Ocw2Write(c)
                     \/ Ocw3Write(c)
                     \/ Icw1Write(c)
                     \/ IcwWrite(c)
  \/ GetInterrupt
  \/ Reset

Spec == Init /\ [][Next]_pic

\* cpu_run looks at the INTR line before each block of instructions, so a guest
\* that keeps enabling interrupts accepts.
FairSpec == Spec /\ WF_pic(GetInterrupt)

-----------------------------------------------------------------------------
(* Properties.                                                             *)

TypeOK == pic \in State

\* The guest uses neither rotation nor the special mask mode.
FullyNested == (\A w \in Ocw2 : ~w.rotate) /\ (\A w \in Ocw3 : ~w.smm)

\* A line that goes into service outranks every line of its controller already
\* in service: no handler is interrupted by its equal or its inferior, although
\* the line was chosen by an earlier update (pic_internal_update) and lines may
\* since have been masked, withdrawn, ended or announced by the other controller.
NestedService ==
  \A c \in Ctrl : \A l \in pic'.chip[c].isr \ pic.chip[c].isr :
    Outranks(pic.chip[c].base, l, pic.chip[c].isr)

NestedDelivery == [][NestedService]_pic

\* The announcement a later acceptance will act on still outranks what is in
\* service, on each controller: what makes NestedDelivery inductive.
Announced(s) ==
  /\ s.intr =>
       Outranks(s.chip[Master].base, s.chip[Master].highest, s.chip[Master].isr)
  /\ Cascade \in s.chip[Master].irr =>
       Outranks(s.chip[Slave].base, s.chip[Slave].highest, s.chip[Slave].isr)

AnnouncedOutranks == Announced(pic)

\* Every request that may be served is announced, and the announcement names
\* the one of highest priority: by INTR for the master, by a request on the
\* master's cascade line for the slave.  Holds of devices that never withdraw
\* a request and a guest that never reprograms a controller.
NoLostRequest ==
  LET m == pic.chip[Master]
      s == pic.chip[Slave]
  IN  /\ Deliverable(m) # {} =>
           pic.intr /\ m.highest = TopOf(m.base, Deliverable(m))
      /\ Deliverable(s) # {} =>
           Cascade \in m.irr /\ s.highest = TopOf(s.base, Deliverable(s))

\* Without withdrawals the CPU never fetches a spurious vector, from either
\* controller (the "sanity check" of pic_internal_get_interrupt never fires).
NoSpurious ==
  pic.intr => /\ Genuine(pic.chip[Master])
              /\ AsksSlave(pic) => Genuine(pic.chip[Slave])

\* Once the masks are open and no device asks again, every request is served in
\* the end, provided the guest ends what it serves: none is left behind in
\* either controller.
NoDeviceAsks ==
  \A c \in Ctrl : pic'.chip[c].irr \subseteq
                    pic.chip[c].irr \cup (IF c = Master THEN {Cascade} ELSE {})

RequestsDrain ==
  (/\ <>[](\A c \in Ctrl : pic.chip[c].imr = {})
   /\ <>[][NoDeviceAsks]_pic
   /\ \A c \in Ctrl : []<>(pic.chip[c].isr = {}))
     => []<>(\A c \in Ctrl : pic.chip[c].irr = {})

=============================================================================
