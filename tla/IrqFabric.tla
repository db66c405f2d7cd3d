----------------------------- MODULE IrqFabric ------------------------------
(***************************************************************************)
(* The machine's interrupt wiring: the 8259s of module Pic and the APICs   *)
(* of module Apic hear the same devices (pic_raise_irq and pic_lower_irq   *)
(* tell both) and drive the same INTR line of the CPU, and                 *)
(* pic_get_interrupt acknowledges for both.                                *)
(*                                                                         *)
(* INTR is pic.intr.  The local APIC also keeps its own notion of the line,*)
(* apic.sent: it raises INTR exactly when it sets it.                      *)
(*                                                                         *)
(* "mode" is the guest's: an operating system uses the 8259s until it      *)
(* masks them and turns to the APICs; "restarted" is the guest after a     *)
(* reset of a machine that had.                                            *)
(***************************************************************************)
EXTENDS Pic, Apic

CONSTANT
  Reinitialises  \* the guest initialises the 8259s while it uses the APICs

VARIABLE mode

fabric == <<pic, apic, mode>>

\* The I/O APIC has the timer's line 0 on line 2, the others where they are.
TimerLine == 2
IoLine(c, l) == IF c = Master /\ l = 0 THEN TimerLine ELSE c * NLines + l

ASSUME FabricAssumption ==
  /\ TimerLine \in IoLines
  /\ \A d \in Devices : IoLine(d[1], d[2]) \in IoLines

-----------------------------------------------------------------------------
(* Functions of f = [pic, apic].                                           *)

\* Fault: INTR follows the I/O APIC's lines, masked or not.
JoinedUnmasked(f, p, a) ==
  [pic |-> IF a.lines \ f.apic.lines # {} THEN [p EXCEPT !.intr = TRUE] ELSE p, apic |-> a]

\* The APIC raises the CPU's line when it sends.
Joined(f, p, a) ==
  [pic |-> IF a.sent /\ ~f.apic.sent THEN [p EXCEPT !.intr = TRUE] ELSE p, apic |-> a]

\* The slave announces with pic_lower_irq(2) and pic_raise_irq(2), which the I/O
\* APIC hears on the timer's line.
HearCascade(a, p) ==
  IF Deliverable(p.chip[Slave]) = {} THEN a
  ELSE RaiseIoLine(LowerIoLine(a, TimerLine), TimerLine)

RaiseIrq(f, c, l) ==
  LET p == RaiseLine(f.pic, c, l)
      a == RaiseIoLine(f.apic, IoLine(c, l))
  IN  Joined(f, p, IF c = Slave /\ l \notin f.pic.chip[Slave].pin
                   THEN HearCascade(a, p) ELSE a)

LowerIrq(f, c, l) ==
  LET p == LowerLine(f.pic, c, l)
      a == LowerIoLine(f.apic, IoLine(c, l))
  IN  Joined(f, p, IF c = Slave /\ p.chip[Slave].irr = {}
                   THEN LowerIoLine(a, TimerLine) ELSE a)

\* Fault: the 8259 answers although the APIC has an interrupt.
AcknowledgePicFirst(f) == [f EXCEPT !.pic = TakeInterrupt(@)]

\* pic_get_interrupt: the APIC answers if it has an interrupt.
AcknowledgeInterrupt(f) ==
  IF f.apic.sent
  THEN [pic |-> [f.pic EXCEPT !.intr = FALSE], apic |-> Acknowledge(f.apic)]
  ELSE [f EXCEPT !.pic = TakeInterrupt(@)]

-----------------------------------------------------------------------------
(* Actions.                                                                *)

Now == [pic |-> pic, apic |-> apic]
Becomes(f) == pic' = f.pic /\ apic' = f.apic /\ UNCHANGED mode

\* A device that pulses its line, as the timer does, does nothing else with it:
\* to raise it alone is a pulse when it is low and nothing when it is high.
DeviceRaises(c, l) ==
  /\ <<c, l>> \in Devices \ Pulsing
  /\ Becomes(RaiseIrq(Now, c, l))

DevicePulses(c, l) ==
  /\ <<c, l>> \in Pulsing
  /\ Becomes(RaiseIrq(LowerIrq(Now, c, l), c, l))

DeviceLowers(c, l) ==
  /\ <<c, l>> \in Devices \ Pulsing
  /\ Becomes(LowerIrq(Now, c, l))

CpuAccepts ==
  /\ pic.intr
  /\ Becomes(AcknowledgeInterrupt(Now))

\* The guest's write to chip c leaves the 8259s in state p, and the slave may
\* have announced a line.
PicWritten(c, p) ==
  Becomes(Joined(Now, p, IF c = Slave THEN HearCascade(apic, p) ELSE apic))

MaskPic(c) ==
  /\ mode # "apic"
  /\ pic.chip[c].icw = 0
  /\ \E mask \in Masks : PicWritten(c, WriteOcw1(pic, c, mask))

EndPic(c) == \E w \in Ocw2 : w.eoi /\ PicWritten(c, WriteOcw2(pic, c, w))

\* The guest initialises an 8259, before it turns to the APICs or at any time.
InitialisePic(c) ==
  /\ mode = "pic" \/ Reinitialises
  /\ Icw1Write(c) \/ IcwWrite(c)
  /\ UNCHANGED <<apic, mode>>

\* With every line of the 8259s masked, the guest turns to the APICs.
UseApic ==
  /\ mode # "apic"
  /\ \A c \in Ctrl : pic.chip[c].imr = Lines
  /\ mode' = "apic"
  /\ UNCHANGED <<pic, apic>>

GuestApic ==
  /\ mode = "apic"
  /\ \/ \E l \in IoLines : Program(l)
     \/ \E v \in OwnVectors : Own(v)
     \/ Eoi
     \/ Tpr
  /\ pic' = Joined(Now, pic, apic').pic
  /\ UNCHANGED mode

ResetMachine ==
  /\ Resets
  /\ pic' = ResetState(pic) /\ apic' = ResetApic(apic)
  /\ mode' = IF mode = "pic" THEN "pic" ELSE "restarted"

FabricInit ==
  /\ Init
  /\ ApicInit
  /\ mode = "pic"

FabricNext ==
  \/ \E c \in Ctrl, l \in Lines :
       DeviceRaises(c, l) \/ DevicePulses(c, l) \/ DeviceLowers(c, l)
  \/ \E c \in Ctrl : MaskPic(c) \/ EndPic(c) \/ InitialisePic(c)
  \/ CpuAccepts
  \/ UseApic
  \/ GuestApic
  \/ ResetMachine

FabricSpec == FabricInit /\ [][FabricNext]_fabric

\* cpu_run accepts what the guest lets it.
FabricFairSpec == FabricSpec /\ WF_fabric(CpuAccepts)

-----------------------------------------------------------------------------
(* Properties.                                                             *)

\* What apic.c relies on (line 154): "Ignore if INTR is already high -- this means
\* that we've signalled the CPU".  While the APIC believes INTR is up it is,
\* although the 8259s lower the same line; otherwise the APIC is dumb for ever.
SentIsHigh == apic.sent => pic.intr

\* To a guest that has not turned to the APICs the machine is the two 8259s of
\* module Pic alone: no step of the I/O APIC, which hears every line and every
\* pulse of the cascade, shows on them or on INTR.
PicAlone == [][mode = "pic" => Next]_pic

\* Every vector a guest of the APICs may be sent is sent in the end, although
\* the 8259s share INTR and may still answer first.
DevicesAsk == apic'.irr \subseteq apic.irr

FabricServes ==
  (/\ <>[](mode = "apic" /\ apic.tpr = 0)
   /\ <>[][DevicesAsk]_fabric
   /\ []<>(apic.isr = {}))
     => []<>(apic.irr = {})

=============================================================================
