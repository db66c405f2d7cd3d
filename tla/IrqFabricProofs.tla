-------------------------- MODULE IrqFabricProofs ---------------------------
(***************************************************************************)
(* Theorems about Pic, about Apic, and about IrqFabric, which joins them,  *)
(* for every number of lines, set of devices and vectors, repertoire of    *)
(* guest commands and table of the I/O APIC.                               *)
(*                                                                         *)
(* Part one: the 8259s.  The functions of pic.c are functions on states    *)
(* here, so the proof has one lemma for each of them: what it does to the  *)
(* type, and to the inductive invariants Announced and Steady.  Each       *)
(* action then follows from the lemmas of the functions it calls.          *)
(*                                                                         *)
(* Part two: the wiring, which uses those lemmas.  Two writers share the   *)
(* CPU's INTR line.  The 8259s never lower INTR by a line or a command,    *)
(* and an acceptance lowers INTR and apic.sent together.  And until the    *)
(* guest turns to the APICs the I/O APIC's table is masked, so that        *)
(* nothing the APICs hear can have been sent when the guest initialises an *)
(* 8259, which does lower INTR.                                            *)
(*                                                                         *)
(* Part three: the APICs alone, with one lemma for each                    *)
(* function of apic.c and ioapic.c.  The invariant is Sound: the type,     *)
(* Nests (NeverSpurious of a state) and Alert (NothingWaits of a state).   *)
(* Neither of the last two is inductive alone: an acceptance needs Nests   *)
(* to find a vector, and leaves nothing to send only because it takes the  *)
(* highest.  RemoteEnds needs careful guests and vectors that level lines  *)
(* have to themselves: its invariant, Ending, says that the trigger mode   *)
(* kept with a vector (tmr) can then be trusted until the vector's end.    *)
(*                                                                         *)
(* Part four: the APICs in the machine, by the lemmas of parts two and     *)
(* three: a step of the machine is several steps of the APICs.  Nesting    *)
(* needs a last fact of the 8259s, that none of their functions reads      *)
(* INTR: behind an APIC that has sent, only their registers are followed.  *)
(***************************************************************************)
EXTENDS IrqFabric, WellFoundedInduction, TLAPS

-----------------------------------------------------------------------------
(* Priorities.                                                             *)

\* A nonempty set of naturals has a least element.
LEMMA LeastNatural ==
  ASSUME NEW T \in SUBSET Nat, T # {}
  PROVE  \E x \in T : \A y \in T : x <= y
<1> DEFINE R == {ss \in Nat \X Nat : ss[1] < ss[2]}
<1>1. R = OpToRel(<, Nat)
  BY DEF OpToRel
<1>2. IsWellFoundedOn(R, Nat)
  BY <1>1, NatLessThanWellFounded
<1>3. \A x, y \in Nat : x < y => <<x, y>> \in R
  OBVIOUS
<1> HIDE DEF R
<1>4. PICK x \in T : \A y \in T : ~(<<y, x>> \in R)
  BY <1>2, WFMin
<1>5. \A y \in T : ~(y < x)
  BY <1>3, <1>4
<1> QED
  BY <1>5

\* The rank of a line is a position among the lines.
LEMMA RankIsLine ==
  ASSUME NEW base \in Lines, NEW l \in Lines
  PROVE  Rank(base, l) \in Lines
<1>1. NLines \in Nat /\ NLines > 2
  BY PicAssumption DEF Cascade
<1> QED
  BY <1>1 DEF Rank, Lines

\* TopOf chooses one of the lines it is given.
LEMMA TopOfIsOne ==
  ASSUME NEW base \in Lines, NEW S \in SUBSET Lines, S # {}
  PROVE  TopOf(base, S) \in S
<1> DEFINE T == {Rank(base, l) : l \in S}
<1>1. T \in SUBSET Nat /\ T # {}
  <2>1. \A l \in S : Rank(base, l) \in Lines
    BY RankIsLine
  <2>2. Lines \subseteq Nat
    BY PicAssumption DEF Lines
  <2> QED
    BY <2>1, <2>2
<1>2. PICK x \in T : \A y \in T : x <= y
  BY <1>1, LeastNatural
<1>3. \E l \in S : \A j \in S : Rank(base, l) <= Rank(base, j)
  BY <1>2
<1> QED
  BY <1>3 DEF TopOf

-----------------------------------------------------------------------------
(* Type correctness.                                                       *)

LEMMA SetChipType ==
  ASSUME NEW s \in State, NEW c \in Ctrl, NEW ch \in Chip
  PROVE  /\ SetChip(s, c, ch) \in State
         /\ SetChip(s, c, ch).chip[c] = ch
         /\ \A d \in Ctrl \ {c} : SetChip(s, c, ch).chip[d] = s.chip[d]
         /\ SetChip(s, c, ch).intr = s.intr
  BY DEF State, SetChip

\* The same for the two controllers by name.
LEMMA SetMaster ==
  ASSUME NEW s \in State, NEW ch \in Chip
  PROVE  /\ SetChip(s, Master, ch) \in State
         /\ SetChip(s, Master, ch).chip[Master] = ch
         /\ SetChip(s, Master, ch).chip[Slave] = s.chip[Slave]
         /\ SetChip(s, Master, ch).intr = s.intr
  BY SetChipType DEF Ctrl, Master, Slave

LEMMA SetSlave ==
  ASSUME NEW s \in State, NEW ch \in Chip
  PROVE  /\ SetChip(s, Slave, ch) \in State
         /\ SetChip(s, Slave, ch).chip[Slave] = ch
         /\ SetChip(s, Slave, ch).chip[Master] = s.chip[Master]
         /\ SetChip(s, Slave, ch).intr = s.intr
  BY SetChipType DEF Ctrl, Master, Slave

LEMMA LineType ==
  ASSUME NEW ch \in Chip, NEW l \in Lines
  PROVE  DropLine(ch, l) \in Chip /\ LatchLine(ch, l) \in Chip
  BY DEF Chip, DropLine, LatchLine

LEMMA AnnounceType ==
  ASSUME NEW ch \in Chip, Deliverable(ch) # {}
  PROVE  Announce(ch) \in Chip /\ Announce(ch).highest \in Deliverable(ch)
<1>1. ch.base \in Lines /\ Deliverable(ch) \in SUBSET Lines
  BY DEF Chip, Deliverable, Requests
<1>2. TopOf(ch.base, Deliverable(ch)) \in Deliverable(ch)
  BY <1>1, TopOfIsOne
<1> QED
  BY <1>1, <1>2 DEF Announce, Chip

LEMMA MasterType ==
  ASSUME NEW s \in State, NEW l \in Lines
  PROVE  /\ UpdateMaster(s) \in State
         /\ RaiseMaster(s, l) \in State
         /\ LowerMaster(s, l) \in State
<1>1. \A t \in State : UpdateMaster(t) \in State
  <2> TAKE t \in State
  <2>1. t.chip[Master] \in Chip
    BY DEF State, Ctrl
  <2>2. CASE Deliverable(t.chip[Master]) = {}
    BY <2>2 DEF UpdateMaster
  <2>3. CASE Deliverable(t.chip[Master]) # {}
    <3>1. SetChip(t, Master, Announce(t.chip[Master])) \in State
      BY <2>1, <2>3, AnnounceType, SetChipType DEF Ctrl
    <3> QED
      BY <2>3, <3>1 DEF UpdateMaster, State
  <2> QED
    BY <2>2, <2>3
<1>2. s.chip[Master] \in Chip
  BY DEF State, Ctrl
<1>3. /\ SetChip(s, Master, LatchLine(s.chip[Master], l)) \in State
      /\ LowerMaster(s, l) \in State
  BY <1>2, LineType, SetChipType DEF Ctrl, LowerMaster
<1> QED
  BY <1>1, <1>3 DEF RaiseMaster

LEMMA SlaveType ==
  ASSUME NEW s \in State, NEW l \in Lines
  PROVE  /\ UpdateSlave(s) \in State
         /\ RaiseSlave(s, l) \in State
         /\ LowerSlave(s, l) \in State
<1>1. Cascade \in Lines
  BY PicAssumption DEF Lines, Cascade
<1>2. \A t \in State : UpdateSlave(t) \in State
  <2> TAKE t \in State
  <2>1. t.chip[Slave] \in Chip
    BY DEF State, Ctrl
  <2>2. CASE Deliverable(t.chip[Slave]) = {}
    BY <2>2 DEF UpdateSlave
  <2>3. CASE Deliverable(t.chip[Slave]) # {}
    <3>1. SetChip(t, Slave, Announce(t.chip[Slave])) \in State
      BY <2>1, <2>3, AnnounceType, SetChipType DEF Ctrl
    <3> QED
      BY <1>1, <2>3, <3>1, MasterType DEF UpdateSlave
  <2> QED
    BY <2>2, <2>3
<1>3. s.chip[Slave] \in Chip
  BY DEF State, Ctrl
<1>4. /\ SetChip(s, Slave, LatchLine(s.chip[Slave], l)) \in State
      /\ SetChip(s, Slave, DropLine(s.chip[Slave], l)) \in State
  BY <1>3, LineType, SetChipType DEF Ctrl
<1> QED
  BY <1>1, <1>2, <1>4, MasterType DEF RaiseSlave, LowerSlave

LEMMA LineStateType ==
  ASSUME NEW s \in State, NEW c \in Ctrl, NEW l \in Lines
  PROVE  /\ Update(s, c) \in State
         /\ RaiseLine(s, c, l) \in State
         /\ LowerLine(s, c, l) \in State
  BY MasterType, SlaveType DEF Update, RaiseLine, LowerLine

LEMMA TakeRequestType ==
  ASSUME NEW ch \in Chip
  PROVE  TakeRequest(ch) \in Chip
  BY DEF Chip, TakeRequest, Genuine

LEMMA TakeInterruptType ==
  ASSUME NEW s \in State
  PROVE  TakeInterrupt(s) \in State
<1>1. \A c \in Ctrl : s.chip[c] \in Chip /\ TakeRequest(s.chip[c]) \in Chip
  BY TakeRequestType DEF State
<1> QED
  BY <1>1 DEF TakeInterrupt, State

LEMMA EndInterruptType ==
  ASSUME NEW ch \in Chip, NEW w \in Ocw2Commands
  PROVE  EndInterrupt(ch, w) \in Chip
<1>1. EndHighest(ch) \in Chip
  BY DEF Chip, EndHighest
<1>2. w.line \in Lines
  BY DEF Ocw2Commands
<1>3. [ch EXCEPT !.isr = @ \ {w.line}] \in Chip
  BY DEF Chip
<1>4. \A e \in Chip : [e EXCEPT !.base = w.line] \in Chip
  BY <1>2 DEF Chip
<1> QED
  BY <1>1, <1>3, <1>4 DEF EndInterrupt

LEMMA WriteType ==
  ASSUME NEW s \in State, NEW c \in Ctrl
  PROVE  /\ \A w \in Ocw2Commands : WriteOcw2(s, c, w) \in State
         /\ \A w \in Ocw3Commands : WriteOcw3(s, c, w) \in State
         /\ \A mask \in SUBSET Lines : WriteOcw1(s, c, mask) \in State
         /\ \A w \in Icw1Commands : WriteIcw1(s, c, w) \in State
         /\ \A auto \in BOOLEAN : WriteIcw(s, c, auto) \in State
<1>1. s.chip[c] \in Chip
  BY DEF State
<1>2. \A t \in State : Update(t, c) \in State
  BY MasterType, SlaveType, PicAssumption DEF Update, Lines, Cascade
<1>3. ASSUME NEW w \in Ocw2Commands PROVE WriteOcw2(s, c, w) \in State
  <2>1. SetChip(s, c, EndInterrupt(s.chip[c], w)) \in State
    BY <1>1, EndInterruptType, SetChipType
  <2>2. /\ [s.chip[c] EXCEPT !.rotate = w.rotate] \in Chip
        /\ [s.chip[c] EXCEPT !.base = w.line] \in Chip
    BY <1>1 DEF Chip, Ocw2Commands
  <2> QED
    BY <1>2, <2>1, <2>2, SetChipType DEF WriteOcw2
<1>4. ASSUME NEW w \in Ocw3Commands PROVE WriteOcw3(s, c, w) \in State
  <2>1. [s.chip[c] EXCEPT !.smm = w.smm] \in Chip
    BY <1>1 DEF Chip, Ocw3Commands
  <2> QED
    BY <2>1, SetChipType DEF WriteOcw3
<1>5. ASSUME NEW mask \in SUBSET Lines PROVE WriteOcw1(s, c, mask) \in State
  <2>1. [s.chip[c] EXCEPT !.imr = mask] \in Chip
    BY <1>1 DEF Chip
  <2> QED
    BY <1>2, <2>1, SetChipType DEF WriteOcw1
<1>6. ASSUME NEW w \in Icw1Commands PROVE WriteIcw1(s, c, w) \in State
  <2> DEFINE ch == [s.chip[c] EXCEPT !.irr = {}, !.imr = {}, !.isr = {},
                                     !.base = NLines - 1, !.autoeoi = FALSE,
                                     !.rotate = FALSE, !.icw = 2,
                                     !.single = w.single, !.ic4 = w.ic4]
  <2>1. NLines - 1 \in Lines
    BY PicAssumption DEF Lines, Cascade
  <2>2. w.single \in BOOLEAN /\ w.ic4 \in BOOLEAN
    BY DEF Icw1Commands
  <2>3. ch \in Chip
    BY <1>1, <2>1, <2>2 DEF Chip
  <2>4. SetChip(s, c, ch) \in State
    BY <2>3, SetChipType
  <2> QED
    BY <2>4 DEF WriteIcw1, State
<1>7. ASSUME NEW auto \in BOOLEAN PROVE WriteIcw(s, c, auto) \in State
  <2>1. IcwAfter(s.chip[c]) \in {0, 2, 3, 4}
    BY DEF IcwAfter
  <2>2. [s.chip[c] EXCEPT !.icw = IcwAfter(s.chip[c]),
                          !.autoeoi = IF s.chip[c].icw = 4 THEN auto ELSE @] \in Chip
    BY <1>1, <2>1 DEF Chip
  <2> QED
    BY <2>2, SetChipType DEF WriteIcw
<1> QED
  BY <1>3, <1>4, <1>5, <1>6, <1>7

LEMMA ResetType ==
  ASSUME NEW s \in State
  PROVE  ResetState(s) \in State
<1>1. ASSUME NEW c \in Ctrl PROVE ResetChip(s.chip[c]) \in Chip
  <2>1. s.chip[c] \in Chip
    BY DEF State
  <2> QED
    BY <2>1 DEF Chip, ResetChip
<1> QED
  BY <1>1 DEF ResetState, State

LEMMA InitType == PowerOn \in State /\ AfterBios \in State
<1>1. PowerOn \in State
  <2>1. 0 \in Lines
    BY PicAssumption DEF Lines, Cascade
  <2>2. ZeroedChip \in Chip
    BY <2>1 DEF ZeroedChip, Chip
  <2>3. [chip |-> [c \in Ctrl |-> ZeroedChip], intr |-> FALSE] \in State
    BY <2>2 DEF State
  <2> QED
    BY <2>3, ResetType DEF PowerOn
<1>2. ASSUME NEW s \in State, NEW c \in Ctrl PROVE Programmed(s, c) \in State
  <2> DEFINE icw1 == WriteIcw1(s, c, [single |-> FALSE, ic4 |-> TRUE])
  <2>1. icw1 \in State
    BY WriteType DEF Icw1Commands
  <2> HIDE DEF icw1
  <2>2. WriteIcw(WriteIcw(WriteIcw(icw1, c, FALSE), c, FALSE), c, FALSE) \in State
    BY <2>1, WriteType
  <2>3. \A t \in State : WriteOcw1(t, c, {}) \in State
    BY WriteType
  <2> QED
    BY <2>2, <2>3 DEF Programmed, icw1
<1> QED
  BY <1>1, <1>2 DEF AfterBios, Ctrl

\* The controllers' state keeps its type, whatever the devices do and the guest
\* writes (the bytes and flags of struct pic_controller).
THEOREM TypeCorrect == Spec => []TypeOK
<1>1. Init => TypeOK
  BY InitType DEF Init, TypeOK
<1>2. TypeOK /\ [Next]_pic => TypeOK'
  <2> SUFFICES ASSUME pic \in State, [Next]_pic
               PROVE  pic' \in State
    BY DEF TypeOK
  <2>1. ASSUME NEW c \in Ctrl, NEW l \in Lines, Raise(c, l) \/ Pulse(c, l) \/ Lower(c, l)
        PROVE  pic' \in State
    BY <2>1, LineStateType DEF Raise, Pulse, Lower
  <2>2. ASSUME NEW c \in Ctrl,
               Ocw1Write(c) \/ Ocw2Write(c) \/ Ocw3Write(c) \/ Icw1Write(c) \/ IcwWrite(c)
        PROVE  pic' \in State
    BY <2>2, WriteType, PicAssumption
    DEF Ocw1Write, Ocw2Write, Ocw3Write, Icw1Write, IcwWrite
  <2>3. CASE GetInterrupt
    BY <2>3, TakeInterruptType DEF GetInterrupt
  <2>4. CASE Reset
    BY <2>4, ResetType DEF Reset
  <2>5. CASE UNCHANGED pic
    BY <2>5
  <2> QED
    BY <2>1, <2>2, <2>3, <2>4, <2>5 DEF Next
<1> QED
  BY <1>1, <1>2, PTL DEF Spec

-----------------------------------------------------------------------------
(* Nested delivery.                                                        *)

\* No controller rotates or masks specially.
Plain(s) == \A c \in Ctrl : ~s.chip[c].smm /\ ~s.chip[c].rotate

Good(s) == s \in State /\ Plain(s) /\ Announced(s)

\* A step to a good state that puts nothing in service.
Calm(s, t) == Good(t) /\ \A c \in Ctrl : t.chip[c].isr \subseteq s.chip[c].isr

\* A controller may change in any way that leaves its priorities and its
\* announcement alone, adds nothing in service and no request of the slave.
LEMMA SetChipGood ==
  ASSUME NEW s, Good(s), NEW c \in Ctrl, NEW ch \in Chip,
         ~ch.smm, ~ch.rotate,
         ch.base = s.chip[c].base, ch.highest = s.chip[c].highest,
         ch.isr \subseteq s.chip[c].isr,
         c = Master /\ Cascade \in ch.irr => Cascade \in s.chip[Master].irr
  PROVE  Calm(s, SetChip(s, c, ch))
<1> DEFINE t == SetChip(s, c, ch)
<1>1. t \in State /\ t.intr = s.intr
  BY SetChipType DEF Good
<1>2. t.chip[c] = ch /\ \A d \in Ctrl \ {c} : t.chip[d] = s.chip[d]
  BY SetChipType DEF Good
<1> HIDE DEF t
<1>3. Plain(t)
  BY <1>2 DEF Good, Plain
<1>4. Announced(t)
  BY <1>1, <1>2 DEF Good, Announced, Outranks, Ctrl, Master, Slave
<1>5. \A d \in Ctrl : t.chip[d].isr \subseteq s.chip[d].isr
  BY <1>2
<1> QED
  BY <1>1, <1>3, <1>4, <1>5 DEF Good, Calm, t

\* What is deliverable outranks what is in service, when nothing is masked
\* specially; so does what Announce chooses.
LEMMA AnnounceOutranks ==
  ASSUME NEW ch \in Chip, ~ch.smm, Deliverable(ch) # {}
  PROVE  /\ Announce(ch) \in Chip
         /\ Outranks(ch.base, Announce(ch).highest, ch.isr)
         /\ Announce(ch) = [ch EXCEPT !.highest = Announce(ch).highest]
<1>1. Announce(ch) \in Chip /\ Announce(ch).highest \in Deliverable(ch)
  BY AnnounceType
<1>2. Outranks(ch.base, Announce(ch).highest, ch.isr)
  BY <1>1 DEF Deliverable
<1>3. Announce(ch) = [ch EXCEPT !.highest = Announce(ch).highest]
  BY DEF Announce, Chip
<1> QED
  BY <1>1, <1>2, <1>3

LEMMA UpdateMasterGood ==
  ASSUME NEW s, Good(s)
  PROVE  Calm(s, UpdateMaster(s))
<1> DEFINE m == s.chip[Master]
           a == Announce(m)
           t == [SetChip(s, Master, a) EXCEPT !.intr = TRUE]
<1>1. CASE Deliverable(m) = {}
  BY <1>1 DEF UpdateMaster, Calm
<1>2. CASE Deliverable(m) # {}
  <2>1. m \in Chip /\ ~m.smm /\ ~m.rotate
    BY DEF Good, State, Plain, Ctrl
  <2>2. /\ a \in Chip
        /\ Outranks(m.base, a.highest, m.isr)
        /\ a = [m EXCEPT !.highest = a.highest]
    BY <1>2, <2>1, AnnounceOutranks
  <2>3. /\ a.base = m.base /\ a.isr = m.isr /\ a.irr = m.irr
        /\ a.smm = m.smm /\ a.rotate = m.rotate
    BY <2>1, <2>2 DEF Chip
  <2> HIDE DEF a
  <2>4. SetChip(s, Master, a) \in State
    BY <2>2, SetChipType DEF Good, Ctrl
  <2>5. /\ t \in State /\ t.chip[Master] = a /\ t.chip[Slave] = s.chip[Slave]
    BY <2>2, <2>4, SetMaster DEF Good, State
  <2> HIDE DEF t
  <2>6. Plain(t)
    BY <2>1, <2>3, <2>5 DEF Good, Plain, Ctrl
  <2>7. Announced(t)
    BY <2>2, <2>3, <2>5 DEF Good, Announced
  <2>8. \A c \in Ctrl : t.chip[c].isr \subseteq s.chip[c].isr
    BY <2>3, <2>5 DEF Ctrl
  <2>9. UpdateMaster(s) = t
    BY <1>2 DEF UpdateMaster, a, t
  <2> QED
    BY <2>5, <2>6, <2>7, <2>8, <2>9 DEF Good, Calm
<1> QED
  BY <1>1, <1>2

LEMMA LowerMasterGood ==
  ASSUME NEW s, Good(s), NEW l \in Lines
  PROVE  Calm(s, LowerMaster(s, l)) /\ LowerMaster(s, l).chip[Slave] = s.chip[Slave]
<1> DEFINE m == s.chip[Master]
<1>1. m \in Chip /\ ~m.smm /\ ~m.rotate
  BY DEF Good, State, Plain, Ctrl
<1>2. DropLine(m, l) \in Chip
  BY <1>1, LineType
<1>3. /\ DropLine(m, l).base = m.base /\ DropLine(m, l).highest = m.highest
      /\ DropLine(m, l).isr = m.isr /\ DropLine(m, l).irr \subseteq m.irr
      /\ DropLine(m, l).smm = m.smm /\ DropLine(m, l).rotate = m.rotate
  BY <1>1 DEF DropLine, Chip
<1>4. Calm(s, LowerMaster(s, l))
  BY <1>1, <1>2, <1>3, SetChipGood DEF LowerMaster, Ctrl
<1>5. LowerMaster(s, l).chip[Slave] = s.chip[Slave]
  BY <1>2, SetMaster DEF LowerMaster, Good
<1> QED
  BY <1>4, <1>5

\* The cascade line may be raised once the slave has announced.
LEMMA RaiseMasterGood ==
  ASSUME NEW s, Good(s), NEW l \in Lines,
         l = Cascade => Outranks(s.chip[Slave].base, s.chip[Slave].highest, s.chip[Slave].isr)
  PROVE  Calm(s, RaiseMaster(s, l))
<1> DEFINE m == s.chip[Master]
           ch == LatchLine(m, l)
           t == SetChip(s, Master, ch)
<1>1. m \in Chip /\ ~m.smm /\ ~m.rotate
  BY DEF Good, State, Plain, Ctrl
<1>2. /\ ch \in Chip
      /\ ch.base = m.base /\ ch.highest = m.highest /\ ch.isr = m.isr
      /\ ch.irr = m.irr \cup {l} /\ ch.smm = m.smm /\ ch.rotate = m.rotate
  BY <1>1, LineType DEF LatchLine, Chip
<1> HIDE DEF ch
<1>3. /\ t \in State /\ t.chip[Master] = ch
      /\ t.chip[Slave] = s.chip[Slave] /\ t.intr = s.intr
  BY <1>2, SetMaster DEF Good
<1> HIDE DEF t
<1>4. Plain(t)
  BY <1>1, <1>2, <1>3 DEF Good, Plain, Ctrl
<1>5. Announced(t)
  BY <1>2, <1>3 DEF Good, Announced
<1>6. Calm(t, UpdateMaster(t))
  BY <1>3, <1>4, <1>5, UpdateMasterGood DEF Good
<1>7. Calm(s, UpdateMaster(t))
  BY <1>2, <1>3, <1>6 DEF Calm, Ctrl
<1> QED
  BY <1>7 DEF RaiseMaster, Calm, ch, t

LEMMA UpdateSlaveGood ==
  ASSUME NEW s, Good(s)
  PROVE  Calm(s, UpdateSlave(s))
<1> DEFINE b == s.chip[Slave]
           a == Announce(b)
           t == SetChip(s, Slave, a)
<1>1. CASE Deliverable(b) = {}
  BY <1>1 DEF UpdateSlave, Calm
<1>2. CASE Deliverable(b) # {}
  <2>1. b \in Chip /\ ~b.smm /\ ~b.rotate
    BY DEF Good, State, Plain, Ctrl
  <2>2. /\ a \in Chip
        /\ Outranks(b.base, a.highest, b.isr)
        /\ a = [b EXCEPT !.highest = a.highest]
    BY <1>2, <2>1, AnnounceOutranks
  <2>3. /\ a.base = b.base /\ a.isr = b.isr
        /\ a.smm = b.smm /\ a.rotate = b.rotate
    BY <2>1, <2>2 DEF Chip
  <2> HIDE DEF a
  <2>4. /\ t \in State /\ t.chip[Slave] = a
        /\ t.chip[Master] = s.chip[Master] /\ t.intr = s.intr
    BY <2>2, SetSlave DEF Good
  <2> HIDE DEF t
  <2>5. Plain(t) /\ Announced(t)
    BY <2>1, <2>2, <2>3, <2>4 DEF Good, Plain, Announced, Ctrl
  <2>6. Calm(s, t)
    BY <2>3, <2>4, <2>5 DEF Good, Calm, Ctrl
  <2>7. Cascade \in Lines
    BY PicAssumption DEF Lines, Cascade
  <2> DEFINE u == LowerMaster(t, Cascade)
  <2>8. Calm(t, u) /\ u.chip[Slave] = a
    BY <2>4, <2>6, <2>7, LowerMasterGood DEF Calm
  <2> HIDE DEF u
  <2>9. Calm(u, RaiseMaster(u, Cascade))
    BY <2>2, <2>3, <2>7, <2>8, RaiseMasterGood DEF Calm
  <2>10. Calm(s, RaiseMaster(u, Cascade))
    BY <2>6, <2>8, <2>9 DEF Calm
  <2> QED
    BY <1>2, <2>10 DEF UpdateSlave, a, t, u
<1> QED
  BY <1>1, <1>2

LEMMA UpdateGood ==
  ASSUME NEW s, Good(s), NEW c \in Ctrl
  PROVE  Calm(s, Update(s, c))
  BY UpdateMasterGood, UpdateSlaveGood DEF Update

\* A device may be wired to any line but the master's cascade line.
LEMMA LineGood ==
  ASSUME NEW s, Good(s), NEW c \in Ctrl, NEW l \in Lines, <<c, l>> # <<Master, Cascade>>
  PROVE  Calm(s, RaiseLine(s, c, l)) /\ Calm(s, LowerLine(s, c, l))
<1>1. CASE c = Master
  BY <1>1, RaiseMasterGood, LowerMasterGood DEF RaiseLine, LowerLine
<1>2. CASE c = Slave
  <2> DEFINE b == s.chip[Slave]
  <2>1. b \in Chip /\ ~b.smm /\ ~b.rotate
    BY DEF Good, State, Plain, Ctrl
  <2>2. Calm(s, SetChip(s, Slave, LatchLine(b, l)))
    <3>1. /\ LatchLine(b, l) \in Chip
          /\ LatchLine(b, l).base = b.base /\ LatchLine(b, l).highest = b.highest
          /\ LatchLine(b, l).isr = b.isr
          /\ LatchLine(b, l).smm = b.smm /\ LatchLine(b, l).rotate = b.rotate
      BY <2>1, LineType DEF LatchLine, Chip
    <3> QED
      BY <2>1, <3>1, SetChipGood DEF Ctrl, Master, Slave
  <2>3. Calm(s, SetChip(s, Slave, DropLine(b, l)))
    <3>1. /\ DropLine(b, l) \in Chip
          /\ DropLine(b, l).base = b.base /\ DropLine(b, l).highest = b.highest
          /\ DropLine(b, l).isr = b.isr
          /\ DropLine(b, l).smm = b.smm /\ DropLine(b, l).rotate = b.rotate
      BY <2>1, LineType DEF DropLine, Chip
    <3> QED
      BY <2>1, <3>1, SetChipGood DEF Ctrl, Master, Slave
  <2>4. Calm(s, RaiseSlave(s, l))
    <3>1. CASE l \in b.pin
      BY <3>1 DEF RaiseSlave, Calm
    <3>2. CASE l \notin b.pin
      BY <2>2, <3>2, UpdateSlaveGood DEF RaiseSlave, Calm
    <3> QED
      BY <3>1, <3>2
  <2>5. Calm(s, LowerSlave(s, l))
    <3> DEFINE t == SetChip(s, Slave, DropLine(b, l))
    <3>1. Cascade \in Lines
      BY PicAssumption DEF Lines, Cascade
    <3>2. Calm(s, t)
      BY <2>3
    <3> HIDE DEF t
    <3>3. Calm(s, LowerMaster(t, Cascade))
      BY <3>1, <3>2, LowerMasterGood DEF Calm
    <3>4. LowerSlave(s, l) = IF t.chip[Slave].irr = {} THEN LowerMaster(t, Cascade) ELSE t
      BY DEF LowerSlave, t
    <3> QED
      BY <3>2, <3>3, <3>4
  <2> QED
    BY <1>2, <2>4, <2>5 DEF RaiseLine, LowerLine, Master, Slave
<1> QED
  BY <1>1, <1>2 DEF Ctrl

\* Accepting an interrupt: what goes into service was announced.
LEMMA TakeGood ==
  ASSUME NEW s, Good(s), s.intr
  PROVE  LET t == TakeInterrupt(s)
         IN  /\ Good(t)
             /\ \A c \in Ctrl : \A l \in t.chip[c].isr \ s.chip[c].isr :
                  Outranks(s.chip[c].base, l, s.chip[c].isr)
<1> DEFINE t == TakeInterrupt(s)
           m == s.chip[Master]
           b == s.chip[Slave]
<1>1. m \in Chip /\ ~m.smm /\ ~m.rotate /\ b \in Chip /\ ~b.smm /\ ~b.rotate
  BY DEF Good, State, Plain, Ctrl
<1>2. ASSUME NEW ch \in Chip, ~ch.smm, ~ch.rotate
      PROVE  LET r == TakeRequest(ch)
             IN  /\ ~r.smm /\ ~r.rotate /\ r.base = ch.base /\ r.highest = ch.highest
                 /\ r.irr \subseteq ch.irr
                 /\ Genuine(ch) => r.irr = ch.irr \ {ch.highest}
                 /\ r.isr \subseteq ch.isr \cup {ch.highest}
  BY <1>2 DEF TakeRequest, Genuine, Chip
<1>3. /\ t \in State /\ ~t.intr
      /\ t.chip[Master] = TakeRequest(m)
      /\ t.chip[Slave] = IF AsksSlave(s) THEN TakeRequest(b) ELSE b
  BY TakeInterruptType DEF Good, TakeInterrupt, Ctrl, Master, Slave
<1> HIDE DEF t
<1>4. Plain(t)
  BY <1>1, <1>2, <1>3 DEF Plain, Ctrl
<1>5. Announced(t)
  <2>1. CASE AsksSlave(s)
    <3>1. Cascade \notin t.chip[Master].irr
      BY <1>1, <1>2, <1>3, <2>1 DEF AsksSlave
    <3> QED
      BY <1>3, <3>1 DEF Announced
  <2>2. CASE ~AsksSlave(s)
    <3>1. t.chip[Slave] = b /\ t.chip[Master].irr \subseteq m.irr
      BY <1>1, <1>2, <1>3, <2>2
    <3> QED
      BY <1>3, <3>1 DEF Good, Announced
  <2> QED
    BY <2>1, <2>2
<1>6. \A l \in t.chip[Master].isr \ m.isr : Outranks(m.base, l, m.isr)
  BY <1>1, <1>2, <1>3 DEF Good, Announced
<1>7. \A l \in t.chip[Slave].isr \ b.isr : Outranks(b.base, l, b.isr)
  <2>1. CASE AsksSlave(s)
    <3>1. Cascade \in m.irr
      BY <2>1 DEF AsksSlave, Genuine
    <3> QED
      BY <1>1, <1>2, <1>3, <3>1 DEF Good, Announced
  <2>2. CASE ~AsksSlave(s)
    BY <1>3, <2>2
  <2> QED
    BY <2>1, <2>2
<1> QED
  BY <1>3, <1>4, <1>5, <1>6, <1>7 DEF Good, Ctrl, t

\* What the guest writes, when it neither rotates nor masks specially.
LEMMA WriteGood ==
  ASSUME NEW s, Good(s), NEW c \in Ctrl
  PROVE  /\ \A w \in Ocw2Commands : ~w.rotate => Calm(s, WriteOcw2(s, c, w))
         /\ \A w \in Ocw3Commands : ~w.smm => Calm(s, WriteOcw3(s, c, w))
         /\ \A mask \in SUBSET Lines : Calm(s, WriteOcw1(s, c, mask))
         /\ \A w \in Icw1Commands : Calm(s, WriteIcw1(s, c, w))
         /\ \A auto \in BOOLEAN : Calm(s, WriteIcw(s, c, auto))
<1> DEFINE b == s.chip[c]
<1>1. s \in State /\ b \in Chip /\ ~b.smm /\ ~b.rotate
  BY DEF Good, State, Plain
<1>2. ASSUME NEW ch \in Chip, Calm(s, SetChip(s, c, ch))
      PROVE  Calm(s, Update(SetChip(s, c, ch), c))
  BY <1>2, UpdateGood DEF Calm
<1>3. ASSUME NEW w \in Ocw2Commands, ~w.rotate PROVE Calm(s, WriteOcw2(s, c, w))
  <2> DEFINE e == EndInterrupt(b, w)
             r == [b EXCEPT !.rotate = w.rotate]
  <2>1. e \in Chip
    BY <1>1, EndInterruptType
  <2>2. /\ e.base = b.base /\ e.highest = b.highest /\ e.isr \subseteq b.isr
        /\ e.irr = b.irr /\ e.smm = b.smm /\ e.rotate = b.rotate
    BY <1>1, <1>3 DEF EndInterrupt, EndHighest, Chip
  <2> HIDE DEF e
  <2>3. Calm(s, SetChip(s, c, e))
    BY <1>1, <2>1, <2>2, SetChipGood
  <2>4. /\ r \in Chip /\ ~r.rotate
        /\ r.base = b.base /\ r.highest = b.highest /\ r.isr = b.isr
        /\ r.irr = b.irr /\ r.smm = b.smm
    BY <1>1, <1>3 DEF Chip, Ocw2Commands
  <2> HIDE DEF r
  <2>5. Calm(s, SetChip(s, c, r))
    BY <1>1, <2>4, SetChipGood
  <2>6. Calm(s, s)
    BY DEF Calm
  <2> QED
    BY <1>2, <1>3, <2>1, <2>3, <2>5, <2>6 DEF WriteOcw2, e, r
<1>4. ASSUME NEW w \in Ocw3Commands, ~w.smm PROVE Calm(s, WriteOcw3(s, c, w))
  <2> DEFINE ch == [b EXCEPT !.smm = w.smm]
  <2>1. /\ ch \in Chip /\ ~ch.smm /\ ch.rotate = b.rotate
        /\ ch.base = b.base /\ ch.highest = b.highest /\ ch.isr = b.isr /\ ch.irr = b.irr
    BY <1>1, <1>4 DEF Chip, Ocw3Commands
  <2> HIDE DEF ch
  <2>2. Calm(s, SetChip(s, c, ch))
    BY <1>1, <2>1, SetChipGood
  <2> QED
    BY <2>2 DEF WriteOcw3, ch
<1>5. ASSUME NEW mask \in SUBSET Lines PROVE Calm(s, WriteOcw1(s, c, mask))
  <2> DEFINE ch == [b EXCEPT !.imr = mask]
  <2>1. /\ ch \in Chip /\ ch.smm = b.smm /\ ch.rotate = b.rotate
        /\ ch.base = b.base /\ ch.highest = b.highest /\ ch.isr = b.isr /\ ch.irr = b.irr
    BY <1>1 DEF Chip
  <2> HIDE DEF ch
  <2>2. Calm(s, SetChip(s, c, ch))
    BY <1>1, <2>1, SetChipGood
  <2> QED
    BY <1>2, <2>1, <2>2 DEF WriteOcw1, ch
<1>6. ASSUME NEW w \in Icw1Commands PROVE Calm(s, WriteIcw1(s, c, w))
  <2> DEFINE ch == [b EXCEPT !.irr = {}, !.imr = {}, !.isr = {},
                             !.base = NLines - 1, !.autoeoi = FALSE,
                             !.rotate = FALSE, !.icw = 2,
                             !.single = w.single, !.ic4 = w.ic4]
             t == SetChip(s, c, ch)
             u == WriteIcw1(s, c, w)
  <2>1. NLines - 1 \in Lines /\ w.single \in BOOLEAN /\ w.ic4 \in BOOLEAN
    BY PicAssumption DEF Lines, Cascade, Icw1Commands
  <2>2. ch \in Chip /\ ~ch.smm /\ ~ch.rotate /\ ch.isr = {} /\ ch.irr = {}
    BY <1>1, <2>1 DEF Chip
  <2>3. u = [t EXCEPT !.intr = FALSE]
    BY DEF WriteIcw1
  <2> HIDE DEF ch
  <2>4. t \in State /\ t.chip[c] = ch /\ \A d \in Ctrl \ {c} : t.chip[d] = s.chip[d]
    BY <1>1, <2>2, SetChipType
  <2> HIDE DEF t, u
  <2>5. u \in State /\ ~u.intr /\ u.chip = t.chip
    BY <2>3, <2>4 DEF State
  <2>6. Plain(u) /\ \A d \in Ctrl : u.chip[d].isr \subseteq s.chip[d].isr
    BY <2>2, <2>4, <2>5 DEF Good, Plain
  <2>7. Announced(u)
    BY <2>2, <2>4, <2>5 DEF Good, Announced, Outranks, Ctrl, Master, Slave
  <2> QED
    BY <2>5, <2>6, <2>7 DEF Calm, Good, u
<1>7. ASSUME NEW auto \in BOOLEAN PROVE Calm(s, WriteIcw(s, c, auto))
  <2> DEFINE ch == [b EXCEPT !.icw = IcwAfter(b),
                             !.autoeoi = IF b.icw = 4 THEN auto ELSE @]
  <2>1. IcwAfter(b) \in {0, 2, 3, 4}
    BY DEF IcwAfter
  <2>2. /\ ch \in Chip /\ ch.smm = b.smm /\ ch.rotate = b.rotate
        /\ ch.base = b.base /\ ch.highest = b.highest /\ ch.isr = b.isr /\ ch.irr = b.irr
    BY <1>1, <2>1 DEF Chip
  <2>3. WriteIcw(s, c, auto) = SetChip(s, c, ch)
    BY DEF WriteIcw
  <2> HIDE DEF ch
  <2>4. Calm(s, SetChip(s, c, ch))
    BY <1>1, <2>2, SetChipGood
  <2> QED
    BY <2>3, <2>4
<1> QED
  BY <1>3, <1>4, <1>5, <1>6, <1>7

LEMMA ResetGood ==
  ASSUME NEW s \in State, Plain(s)
  PROVE  Calm(s, ResetState(s))
<1> DEFINE t == ResetState(s)
<1>1. ASSUME NEW c \in Ctrl
      PROVE  /\ t.chip[c].isr = {} /\ t.chip[c].irr = {}
             /\ ~t.chip[c].smm /\ ~t.chip[c].rotate
  <2>1. s.chip[c] \in Chip /\ ~s.chip[c].smm /\ ~s.chip[c].rotate
    BY DEF State, Plain
  <2>2. t.chip[c] = ResetChip(s.chip[c])
    BY DEF ResetState, State
  <2> QED
    BY <2>1, <2>2 DEF ResetChip, Chip
<1>2. t \in State
  BY ResetType
<1> HIDE DEF t
<1>3. Announced(t)
  BY <1>1 DEF Announced, Outranks, Ctrl
<1> QED
  BY <1>1, <1>2, <1>3 DEF Calm, Good, Plain, t

LEMMA InitGood == Good(PowerOn) /\ Good(AfterBios)
<1>1. Good(PowerOn)
  <2> DEFINE z == [chip |-> [c \in Ctrl |-> ZeroedChip], intr |-> FALSE]
  <2>1. 0 \in Lines
    BY PicAssumption DEF Lines, Cascade
  <2>2. z \in State /\ Plain(z)
    BY <2>1 DEF ZeroedChip, Chip, State, Plain
  <2> HIDE DEF z
  <2>3. Calm(z, ResetState(z))
    BY <2>2, ResetGood
  <2> QED
    BY <2>3 DEF PowerOn, Calm, z
<1>2. ASSUME NEW s, Good(s), NEW c \in Ctrl PROVE Good(Programmed(s, c))
  <2> DEFINE icw1 == WriteIcw1(s, c, [single |-> FALSE, ic4 |-> TRUE])
             icw2 == WriteIcw(icw1, c, FALSE)
             icw3 == WriteIcw(icw2, c, FALSE)
             icw4 == WriteIcw(icw3, c, FALSE)
  <2>1. Good(icw1)
    BY <1>2, WriteGood DEF Icw1Commands, Calm
  <2> HIDE DEF icw1
  <2>2. Good(icw2)
    BY <2>1, WriteGood DEF Calm
  <2> HIDE DEF icw2
  <2>3. Good(icw3)
    BY <2>2, WriteGood DEF Calm
  <2> HIDE DEF icw3
  <2>4. Good(icw4)
    BY <2>3, WriteGood DEF Calm
  <2> HIDE DEF icw4
  <2>5. Good(WriteOcw1(icw4, c, {}))
    BY <2>4, WriteGood DEF Calm
  <2> QED
    BY <2>5 DEF Programmed, icw4, icw3, icw2, icw1
<1>3. Good(Programmed(PowerOn, Master))
  BY <1>1, <1>2 DEF Ctrl
<1> QED
  BY <1>1, <1>2, <1>3 DEF AfterBios, Ctrl

\* With a guest that neither rotates priorities nor uses the special mask mode,
\* a step of the devices or of the guest preserves Good, and puts in service
\* only lines that outrank their controller's.
LEMMA StepGood ==
  ASSUME FullyNested, Good(pic), [Next]_pic
  PROVE  Good(pic') /\ NestedService
<1>1. ASSUME Calm(pic, pic') PROVE Good(pic') /\ NestedService
  BY <1>1 DEF Calm, NestedService
<1>2. ASSUME NEW c \in Ctrl, NEW l \in Lines, Raise(c, l) \/ Pulse(c, l) \/ Lower(c, l)
      PROVE  Calm(pic, pic')
  <2>1. <<c, l>> # <<Master, Cascade>>
    BY <1>2, PicAssumption DEF Raise, Pulse, Lower
  <2>2. Calm(pic, RaiseLine(pic, c, l)) /\ Calm(pic, LowerLine(pic, c, l))
    BY <2>1, LineGood
  <2>3. Calm(LowerLine(pic, c, l), RaiseLine(LowerLine(pic, c, l), c, l))
    BY <2>1, <2>2, LineGood DEF Calm
  <2>4. Calm(pic, RaiseLine(LowerLine(pic, c, l), c, l))
    BY <2>2, <2>3 DEF Calm
  <2> QED
    BY <1>2, <2>2, <2>4 DEF Raise, Pulse, Lower
<1>3. ASSUME NEW c \in Ctrl,
             Ocw1Write(c) \/ Ocw2Write(c) \/ Ocw3Write(c) \/ Icw1Write(c) \/ IcwWrite(c)
      PROVE  Calm(pic, pic')
  <2>1. /\ \A w \in Ocw2 : Calm(pic, WriteOcw2(pic, c, w))
        /\ \A w \in Ocw3 : Calm(pic, WriteOcw3(pic, c, w))
        /\ \A mask \in Masks : Calm(pic, WriteOcw1(pic, c, mask))
        /\ \A w \in Icw1 : Calm(pic, WriteIcw1(pic, c, w))
        /\ \A auto \in BOOLEAN : Calm(pic, WriteIcw(pic, c, auto))
    BY WriteGood, PicAssumption DEF FullyNested
  <2> QED
    BY <1>3, <2>1 DEF Ocw1Write, Ocw2Write, Ocw3Write, Icw1Write, IcwWrite
<1>4. CASE GetInterrupt
  BY <1>4, TakeGood DEF GetInterrupt, NestedService
<1>5. CASE Reset
  BY <1>1, <1>5, ResetGood DEF Reset, Good
<1>6. CASE UNCHANGED pic
  BY <1>6 DEF NestedService
<1> QED
  BY <1>1, <1>2, <1>3, <1>4, <1>5, <1>6 DEF Next

\* No announcement goes stale in a way that matters: what a later acceptance
\* will put in service outranks what is in service (the CPU samples INTR long
\* after pic_internal_update chose the line).
THEOREM AnnouncementsHold ==
  ASSUME FullyNested
  PROVE  Spec => []AnnouncedOutranks
<1>1. Init => Good(pic)
  BY InitGood DEF Init
<1>2. Good(pic) /\ [Next]_pic => Good(pic)'
  BY StepGood
<1>3. Good(pic) => AnnouncedOutranks
  BY DEF Good, AnnouncedOutranks
<1> QED
  BY <1>1, <1>2, <1>3, PTL DEF Spec

\* No handler is interrupted by a line of equal or lower priority of the same
\* controller, for every number of lines, set of devices and order of events.
THEOREM NestedDeliveryHolds ==
  ASSUME FullyNested
  PROVE  Spec => NestedDelivery
<1>1. Init => Good(pic)
  BY InitGood DEF Init
<1>2. Good(pic) /\ [Next]_pic => Good(pic)' /\ [NestedService]_pic
  BY StepGood
<1> QED
  BY <1>1, <1>2, PTL DEF Spec, NestedDelivery

-----------------------------------------------------------------------------
(* Nothing is lost, and nothing spurious is fetched.                       *)

\* Devices that hold a request until it is accepted; only lines of the master
\* pulse, as the timer's: a pulse of the slave's lowers the cascade line while
\* INTR may already be up for it.
Patient == Withdrawing = {} /\ \A d \in Pulsing : d[1] = Master

\* A guest that leaves the controllers as the BIOS has set them up.
Settled == Icw1 = {} /\ ~Resets

\* A controller announces the first of its deliverable requests, if it has any.
TopAnnounced(ch) ==
  Deliverable(ch) # {} => ch.highest = TopOf(ch.base, Deliverable(ch))

\* The modes in which a service ends with an EOI.
Ends(ch) == ~ch.smm /\ ~ch.autoeoi /\ ch.icw = 0

\* The slave asks the master when it has something to deliver, and only then;
\* the master asks the CPU.
SlaveAsks(s) ==
  LET asks == Cascade \in s.chip[Master].irr
  IN  /\ Deliverable(s.chip[Slave]) # {} => asks
      /\ asks => Genuine(s.chip[Slave])
      /\ TopAnnounced(s.chip[Slave])

MasterAsks(s) ==
  /\ Deliverable(s.chip[Master]) # {} => s.intr
  /\ s.intr => Genuine(s.chip[Master])
  /\ TopAnnounced(s.chip[Master])

Steady(s) ==
  /\ s \in State
  /\ \A c \in Ctrl : Ends(s.chip[c])
  /\ MasterAsks(s) /\ SlaveAsks(s)

\* TopOf chooses the one of highest priority.
LEMMA TopOfIsTop ==
  ASSUME NEW base \in Lines, NEW S \in SUBSET Lines, S # {}
  PROVE  \A j \in S : Rank(base, TopOf(base, S)) <= Rank(base, j)
<1>1. PICK T : T = {Rank(base, l) : l \in S}
  OBVIOUS
<1>2. T \in SUBSET Nat /\ T # {}
  <2>1. \A l \in S : Rank(base, l) \in Lines
    BY RankIsLine
  <2>2. Lines \subseteq Nat
    BY PicAssumption DEF Lines
  <2> QED
    BY <1>1, <2>1, <2>2
<1>3. PICK x \in T : \A y \in T : x <= y
  BY <1>2, LeastNatural
<1>4. \E l \in S : \A j \in S : Rank(base, l) <= Rank(base, j)
  BY <1>1, <1>3
<1> QED
  BY <1>4 DEF TopOf

\* Which requests are deliverable, and which is announced, depends on these.
LEMMA SameDeliverable ==
  ASSUME NEW ch \in Chip, NEW x \in Chip,
         x.irr = ch.irr, x.imr = ch.imr, x.isr = ch.isr, x.base = ch.base, x.smm = ch.smm
  PROVE  Deliverable(x) = Deliverable(ch)
  BY DEF Deliverable, Requests, Outranks

\* What pic_internal_update writes is the first of the deliverable requests.
LEMMA AnnounceTop ==
  ASSUME NEW ch \in Chip, Deliverable(ch) # {}, NEW a, a = Announce(ch)
  PROVE  /\ a \in Chip /\ a.irr = ch.irr /\ (Ends(ch) => Ends(a))
         /\ Deliverable(a) = Deliverable(ch)
         /\ TopAnnounced(a) /\ Genuine(a)
<1>1. a \in Chip /\ a.highest \in Deliverable(ch)
  BY AnnounceType
<1>2. /\ a.irr = ch.irr /\ a.imr = ch.imr /\ a.isr = ch.isr /\ a.base = ch.base
      /\ a.smm = ch.smm /\ a.autoeoi = ch.autoeoi /\ a.icw = ch.icw
      /\ a.highest = TopOf(ch.base, Deliverable(ch))
  BY DEF Announce, Chip
<1>3. Deliverable(a) = Deliverable(ch)
  BY <1>1, <1>2, SameDeliverable
<1>4. Deliverable(ch) \subseteq ch.irr
  BY DEF Deliverable, Requests
<1> QED
  BY <1>1, <1>2, <1>3, <1>4 DEF TopAnnounced, Genuine, Ends

\* When the request announced goes into service nothing is deliverable: all the
\* others that were are of lower priority than it.
LEMMA TakeLeavesNone ==
  ASSUME NEW ch \in Chip, Ends(ch), Genuine(ch), TopAnnounced(ch),
         NEW r, r = TakeRequest(ch)
  PROVE  /\ r \in Chip /\ Ends(r) /\ r.irr = ch.irr \ {ch.highest}
         /\ Deliverable(r) = {} /\ TopAnnounced(r)
<1>1. r \in Chip
  BY TakeRequestType
<1>2. /\ r.irr = ch.irr \ {ch.highest} /\ r.isr = ch.isr \cup {ch.highest}
      /\ r.imr = ch.imr /\ r.base = ch.base /\ r.smm = ch.smm
      /\ r.autoeoi = ch.autoeoi /\ r.icw = ch.icw
  BY DEF TakeRequest, Ends, Genuine, Chip
<1>3. ~ch.smm /\ ~r.smm
  BY <1>2 DEF Ends
<1>4. ASSUME NEW l \in Deliverable(r) PROVE FALSE
  <2>1. l \in Requests(r) /\ Outranks(r.base, l, r.isr)
    BY <1>3 DEF Deliverable
  <2>2. l \in Deliverable(ch)
    BY <1>2, <1>3, <2>1 DEF Deliverable, Requests, Outranks
  <2>3. ch.base \in Lines /\ Deliverable(ch) \in SUBSET Lines
    BY DEF Chip, Deliverable, Requests
  <2>4. ch.highest = TopOf(ch.base, Deliverable(ch))
    BY <2>2 DEF TopAnnounced
  <2>5. Rank(ch.base, ch.highest) <= Rank(ch.base, l)
    BY <2>2, <2>3, <2>4, TopOfIsTop
  <2>6. Rank(ch.base, l) < Rank(ch.base, ch.highest)
    BY <1>2, <2>1 DEF Outranks
  <2>7. l \in Lines /\ ch.highest \in Lines
    BY <2>2, <2>3 DEF Chip
  <2>8. Rank(ch.base, l) \in Nat /\ Rank(ch.base, ch.highest) \in Nat
    BY <2>3, <2>7, RankIsLine, PicAssumption DEF Lines
  <2> QED
    BY <2>5, <2>6, <2>8
<1> QED
  BY <1>1, <1>2, <1>4 DEF Ends, TopAnnounced

\* An update of the master asks the CPU for what it may deliver.
LEMMA UpdateMasterSteady ==
  ASSUME NEW s \in State, \A c \in Ctrl : Ends(s.chip[c]), SlaveAsks(s),
         s.intr => Genuine(s.chip[Master])
  PROVE  Steady(UpdateMaster(s))
<1>1. PICK m : m = s.chip[Master]
  OBVIOUS
<1>2. m \in Chip /\ Ends(m) /\ Ends(s.chip[Slave])
  BY <1>1 DEF State, Ctrl
<1>3. CASE Deliverable(m) = {}
  BY <1>1, <1>3 DEF UpdateMaster, Steady, MasterAsks, TopAnnounced
<1>4. CASE Deliverable(m) # {}
  <2>1. PICK a : a = Announce(m)
    OBVIOUS
  <2>2. /\ a \in Chip /\ a.irr = m.irr /\ Ends(a)
        /\ TopAnnounced(a) /\ Genuine(a)
    BY <1>2, <1>4, <2>1, AnnounceTop
  <2>3. PICK t : t = SetChip(s, Master, a)
    OBVIOUS
  <2>4. t \in State /\ t.chip[Master] = a /\ t.chip[Slave] = s.chip[Slave]
    BY <2>2, <2>3, SetMaster
  <2>5. PICK u : u = [t EXCEPT !.intr = TRUE]
    OBVIOUS
  <2>6. u \in State /\ u.intr /\ u.chip = t.chip
    BY <2>4, <2>5 DEF State
  <2>7. UpdateMaster(s) = u
    BY <1>1, <1>4, <2>1, <2>3, <2>5 DEF UpdateMaster
  <2>8. SlaveAsks(u)
    BY <1>1, <2>2, <2>4, <2>6 DEF SlaveAsks
  <2>9. MasterAsks(u)
    BY <2>2, <2>4, <2>6 DEF MasterAsks
  <2>10. \A c \in Ctrl : Ends(u.chip[c])
    BY <1>2, <2>2, <2>4, <2>6 DEF Ctrl
  <2> QED
    BY <2>6, <2>7, <2>8, <2>9, <2>10 DEF Steady
<1> QED
  BY <1>3, <1>4

\* An update of the slave asks the master, by pulsing the cascade line, for what
\* it may deliver: INTR may already be up for that line, and is right again
\* when the pulse is over.
LEMMA UpdateSlaveSteady ==
  ASSUME NEW s \in State, \A c \in Ctrl : Ends(s.chip[c]), MasterAsks(s),
         Cascade \in s.chip[Master].irr => Genuine(s.chip[Slave])
  PROVE  Steady(UpdateSlave(s))
<1>1. PICK m : m = s.chip[Master]
  OBVIOUS
<1>2. PICK b : b = s.chip[Slave]
  OBVIOUS
<1>3. m \in Chip /\ b \in Chip /\ Ends(m) /\ Ends(b)
  BY <1>1, <1>2 DEF State, Ctrl
<1>4. CASE Deliverable(b) = {}
  BY <1>2, <1>4 DEF UpdateSlave, Steady, SlaveAsks, TopAnnounced
<1>5. CASE Deliverable(b) # {}
  <2>1. PICK a : a = Announce(b)
    OBVIOUS
  <2>2. /\ a \in Chip /\ Ends(a) /\ TopAnnounced(a) /\ Genuine(a)
    BY <1>3, <1>5, <2>1, AnnounceTop
  <2>3. PICK t : t = SetChip(s, Slave, a)
    OBVIOUS
  <2>4. t \in State /\ t.chip[Slave] = a /\ t.chip[Master] = m /\ t.intr = s.intr
    BY <1>1, <2>2, <2>3, SetSlave
  <2>5. Cascade \in Lines
    BY PicAssumption DEF Lines, Cascade
  <2>6. PICK d : d = DropLine(m, Cascade)
    OBVIOUS
  <2>7. /\ d \in Chip /\ d.irr = m.irr \ {Cascade} /\ Cascade \notin d.pin
        /\ d.highest = m.highest /\ Ends(d)
    BY <1>3, <2>5, <2>6, LineType DEF DropLine, Chip, Ends
  <2>8. PICK u : u = SetChip(t, Master, d)
    OBVIOUS
  <2>9. u \in State /\ u.chip[Slave] = a /\ u.chip[Master] = d /\ u.intr = s.intr
    BY <2>4, <2>7, <2>8, SetMaster
  <2>10. PICK e : e = LatchLine(d, Cascade)
    OBVIOUS
  <2>11. /\ e \in Chip /\ e.irr = m.irr \cup {Cascade}
         /\ e.highest = m.highest /\ Ends(e)
    BY <1>3, <2>5, <2>7, <2>10, LineType DEF LatchLine, Chip, Ends
  <2>12. PICK v : v = SetChip(u, Master, e)
    OBVIOUS
  <2>13. v \in State /\ v.chip[Slave] = a /\ v.chip[Master] = e /\ v.intr = s.intr
    BY <2>9, <2>11, <2>12, SetMaster
  <2>14. UpdateSlave(s) = UpdateMaster(v)
    <3>1. UpdateSlave(s) = RaiseMaster(LowerMaster(t, Cascade), Cascade)
      BY <1>2, <1>5, <2>1, <2>3 DEF UpdateSlave
    <3>2. LowerMaster(t, Cascade) = u
      BY <2>4, <2>6, <2>8 DEF LowerMaster
    <3>3. RaiseMaster(u, Cascade) = UpdateMaster(v)
      BY <2>7, <2>9, <2>10, <2>12 DEF RaiseMaster
    <3> QED
      BY <3>1, <3>2, <3>3
  <2>15. v.intr => Genuine(v.chip[Master])
    BY <1>1, <2>11, <2>13 DEF MasterAsks, Genuine
  <2>16. SlaveAsks(v)
    BY <2>2, <2>11, <2>13 DEF SlaveAsks
  <2>17. \A c \in Ctrl : Ends(v.chip[c])
    BY <2>2, <2>11, <2>13 DEF Ctrl
  <2> QED
    BY <2>13, <2>14, <2>15, <2>16, <2>17, UpdateMasterSteady
<1> QED
  BY <1>4, <1>5

\* A change of a controller that an update follows: whatever becomes deliverable
\* is announced, and no request is taken back.
LEMMA ChangeSteady ==
  ASSUME NEW s, Steady(s), NEW c \in Ctrl, NEW ch \in Chip, Ends(ch),
         s.chip[c].irr \subseteq ch.irr, ch.highest = s.chip[c].highest,
         c = Master /\ Cascade \in ch.irr => Cascade \in s.chip[Master].irr
  PROVE  Steady(Update(SetChip(s, c, ch), c))
<1>1. s \in State /\ Ends(s.chip[Master]) /\ Ends(s.chip[Slave])
  BY DEF Steady, Ctrl
<1>2. CASE c = Master
  <2>1. PICK t : t = SetChip(s, Master, ch)
    OBVIOUS
  <2>2. /\ t \in State /\ t.chip[Master] = ch /\ t.chip[Slave] = s.chip[Slave]
        /\ t.intr = s.intr
    BY <1>1, <2>1, SetMaster
  <2>3. SlaveAsks(t)
    BY <1>2, <2>2 DEF Steady, SlaveAsks
  <2>4. t.intr => Genuine(t.chip[Master])
    BY <1>2, <2>2 DEF Steady, MasterAsks, Genuine
  <2>5. \A d \in Ctrl : Ends(t.chip[d])
    BY <1>1, <2>2 DEF Ctrl
  <2> QED
    BY <1>2, <2>1, <2>2, <2>3, <2>4, <2>5, UpdateMasterSteady DEF Update
<1>3. CASE c = Slave
  <2>1. PICK t : t = SetChip(s, Slave, ch)
    OBVIOUS
  <2>2. /\ t \in State /\ t.chip[Slave] = ch /\ t.chip[Master] = s.chip[Master]
        /\ t.intr = s.intr
    BY <1>1, <2>1, SetSlave
  <2>3. MasterAsks(t)
    BY <2>2 DEF Steady, MasterAsks
  <2>4. Cascade \in t.chip[Master].irr => Genuine(t.chip[Slave])
    BY <1>3, <2>2 DEF Steady, SlaveAsks, Genuine
  <2>5. \A d \in Ctrl : Ends(t.chip[d])
    BY <1>1, <2>2 DEF Ctrl
  <2>6. Slave # Master
    BY DEF Slave, Master
  <2> QED
    BY <1>3, <2>1, <2>2, <2>3, <2>4, <2>5, <2>6, UpdateSlaveSteady DEF Update
<1> QED
  BY <1>2, <1>3 DEF Ctrl

\* A change that neither requests nor priorities feel.
LEMMA UnfeltSteady ==
  ASSUME NEW s, Steady(s), NEW c \in Ctrl, NEW ch \in Chip, NEW b, b = s.chip[c],
         ch.irr = b.irr, ch.imr = b.imr, ch.isr = b.isr, ch.base = b.base,
         ch.highest = b.highest, ch.smm = b.smm, ch.autoeoi = b.autoeoi, ch.icw = b.icw
  PROVE  Steady(SetChip(s, c, ch))
<1>1. s \in State /\ b \in Chip /\ Ends(b) /\ Ends(s.chip[Master]) /\ Ends(s.chip[Slave])
  BY DEF Steady, State, Ctrl
<1>2. Deliverable(ch) = Deliverable(b) /\ Ends(ch)
  BY <1>1, SameDeliverable DEF Ends
<1>3. /\ TopAnnounced(b) => TopAnnounced(ch)
      /\ Genuine(b) => Genuine(ch)
  BY <1>2 DEF TopAnnounced, Genuine
<1>4. CASE c = Master
  <2>1. PICK t : t = SetChip(s, Master, ch)
    OBVIOUS
  <2>2. /\ t \in State /\ t.chip[Master] = ch /\ t.chip[Slave] = s.chip[Slave]
        /\ t.intr = s.intr
    BY <1>1, <2>1, SetMaster
  <2>3. MasterAsks(t) /\ SlaveAsks(t)
    BY <1>2, <1>3, <1>4, <2>2 DEF Steady, MasterAsks, SlaveAsks
  <2>4. \A d \in Ctrl : Ends(t.chip[d])
    BY <1>1, <1>2, <2>2 DEF Ctrl
  <2> QED
    BY <1>4, <2>1, <2>2, <2>3, <2>4 DEF Steady
<1>5. CASE c = Slave
  <2>1. PICK t : t = SetChip(s, Slave, ch)
    OBVIOUS
  <2>2. /\ t \in State /\ t.chip[Slave] = ch /\ t.chip[Master] = s.chip[Master]
        /\ t.intr = s.intr
    BY <1>1, <2>1, SetSlave
  <2>3. MasterAsks(t) /\ SlaveAsks(t)
    BY <1>2, <1>3, <1>5, <2>2 DEF Steady, MasterAsks, SlaveAsks
  <2>4. \A d \in Ctrl : Ends(t.chip[d])
    BY <1>1, <1>2, <2>2 DEF Ctrl
  <2> QED
    BY <1>5, <2>1, <2>2, <2>3, <2>4 DEF Steady
<1> QED
  BY <1>4, <1>5 DEF Ctrl

\* What lowering and raising a line do to the rest of a controller: nothing.
LEMMA DropShape ==
  ASSUME NEW ch \in Chip, NEW l \in Lines, NEW x, x = DropLine(ch, l)
  PROVE  /\ x \in Chip /\ x.irr = ch.irr \ {l} /\ x.pin = ch.pin \ {l}
         /\ x.imr = ch.imr /\ x.isr = ch.isr /\ x.base = ch.base
         /\ x.highest = ch.highest
         /\ x.smm = ch.smm /\ x.autoeoi = ch.autoeoi /\ x.icw = ch.icw
<1>1. x \in Chip
  BY LineType
<1>2. x = [ch EXCEPT !.irr = ch.irr \ {l}, !.pin = ch.pin \ {l}]
  BY DEF DropLine
<1> QED
  BY <1>1, <1>2 DEF Chip

LEMMA LatchShape ==
  ASSUME NEW ch \in Chip, NEW l \in Lines, NEW y, y = LatchLine(ch, l)
  PROVE  /\ y \in Chip /\ y.irr = ch.irr \cup {l} /\ y.highest = ch.highest
         /\ y.smm = ch.smm /\ y.autoeoi = ch.autoeoi /\ y.icw = ch.icw
<1>1. y \in Chip
  BY LineType
<1>2. y = [ch EXCEPT !.irr = ch.irr \cup {l}, !.pin = ch.pin \cup {l}]
  BY DEF LatchLine
<1> QED
  BY <1>1, <1>2 DEF Chip

\* A device asks: its line may rise or, on the master, pulse.
LEMMA AskSteady ==
  ASSUME NEW s, Steady(s), NEW c \in Ctrl, NEW l \in Lines, <<c, l>> # <<Master, Cascade>>
  PROVE  /\ Steady(RaiseLine(s, c, l))
         /\ c = Master => Steady(RaiseLine(LowerLine(s, c, l), c, l))
<1>1. PICK b : b = s.chip[c]
  OBVIOUS
<1>2. s \in State /\ b \in Chip /\ Ends(b)
  BY <1>1 DEF Steady, State
<1>3. PICK x : x = LatchLine(b, l)
  OBVIOUS
<1>4. /\ x \in Chip /\ x.irr = b.irr \cup {l} /\ x.highest = b.highest /\ Ends(x)
  BY <1>2, <1>3, LatchShape DEF Ends
<1>5. l # Cascade \/ c # Master
  OBVIOUS
<1>6. Steady(Update(SetChip(s, c, x), c))
  BY <1>1, <1>2, <1>4, <1>5, ChangeSteady
<1>7. Slave # Master
  BY DEF Slave, Master
<1>8. Steady(RaiseLine(s, c, l))
  <2>1. RaiseLine(s, c, l) = IF l \in b.pin THEN s ELSE Update(SetChip(s, c, x), c)
    BY <1>1, <1>3, <1>7 DEF RaiseLine, RaiseMaster, RaiseSlave, Update, Ctrl
  <2> QED
    BY <1>6, <2>1
<1>9. ASSUME c = Master PROVE Steady(RaiseLine(LowerLine(s, c, l), c, l))
  <2>1. PICK d : d = DropLine(b, l)
    OBVIOUS
  <2>2. d \in Chip /\ l \notin d.pin
    BY <1>2, <2>1, DropShape
  <2>3. PICK y : y = LatchLine(d, l)
    OBVIOUS
  <2>4. /\ y \in Chip /\ y.irr = b.irr \cup {l} /\ y.highest = b.highest /\ Ends(y)
    <3>1. d.irr = b.irr \ {l} /\ d.highest = b.highest /\ Ends(d)
      BY <1>2, <2>1, DropShape DEF Ends
    <3> QED
      BY <2>2, <2>3, <3>1, LatchShape DEF Ends
  <2>5. PICK t : t = SetChip(s, Master, d)
    OBVIOUS
  <2>6. t \in State /\ t.chip[Master] = d
    BY <1>2, <2>2, <2>5, SetMaster
  <2>7. SetChip(t, Master, y) = SetChip(s, Master, y)
    BY <1>2, <2>5 DEF SetChip, State, Ctrl
  <2>8. LowerLine(s, c, l) = t
    BY <1>1, <1>9, <2>1, <2>5 DEF LowerLine, LowerMaster
  <2>9. RaiseLine(t, c, l) = Update(SetChip(s, Master, y), Master)
    BY <1>9, <2>2, <2>3, <2>6, <2>7 DEF RaiseLine, RaiseMaster, Update
  <2>10. Steady(Update(SetChip(s, Master, y), Master))
    BY <1>1, <1>2, <1>5, <1>9, <2>4, ChangeSteady DEF Ctrl
  <2> QED
    BY <2>8, <2>9, <2>10
<1> QED
  BY <1>8, <1>9

\* A device lowers a line that has been accepted.  When that leaves the slave
\* without requests the cascade line falls: it is no longer asking either.
LEMMA LowerSteady ==
  ASSUME NEW s, Steady(s), NEW c \in Ctrl, NEW l \in Lines, l \notin s.chip[c].irr
  PROVE  Steady(LowerLine(s, c, l))
<1>1. PICK b : b = s.chip[c]
  OBVIOUS
<1>2. s \in State /\ b \in Chip /\ Ends(b) /\ Cascade \in Lines
  BY <1>1, PicAssumption DEF Steady, State, Lines, Cascade
<1>3. PICK x : x = DropLine(b, l)
  OBVIOUS
<1>4. /\ x \in Chip /\ x.irr = b.irr /\ x.imr = b.imr /\ x.isr = b.isr /\ x.base = b.base
      /\ x.highest = b.highest /\ x.smm = b.smm /\ x.autoeoi = b.autoeoi /\ x.icw = b.icw
  <2>1. b.irr \ {l} = b.irr
    BY <1>1
  <2> QED
    <3>1. /\ x \in Chip /\ x.irr = b.irr \ {l} /\ x.imr = b.imr /\ x.isr = b.isr
          /\ x.base = b.base /\ x.highest = b.highest /\ x.smm = b.smm
          /\ x.autoeoi = b.autoeoi /\ x.icw = b.icw
      BY <1>2, <1>3, DropShape
    <3> QED
      BY <2>1, <3>1
<1>5. PICK t : t = SetChip(s, c, x)
  OBVIOUS
<1>6. Steady(t)
  BY <1>1, <1>4, <1>5, UnfeltSteady
<1>7. CASE c = Master
  BY <1>1, <1>3, <1>5, <1>6, <1>7 DEF LowerLine, LowerMaster
<1>8. CASE c = Slave
  <2>1. t \in State /\ t.chip[Slave] = x /\ t.chip[Master] = s.chip[Master]
    BY <1>2, <1>4, <1>5, <1>8, SetSlave
  <2>2. LowerLine(s, c, l) = IF x.irr = {} THEN LowerMaster(t, Cascade) ELSE t
    BY <1>1, <1>3, <1>5, <1>8, <2>1 DEF LowerLine, LowerSlave, Slave, Master
  <2>3. CASE x.irr # {}
    BY <1>6, <2>2, <2>3
  <2>4. CASE x.irr = {}
    <3>1. Cascade \notin t.chip[Master].irr
      BY <1>6, <2>1, <2>4 DEF Steady, SlaveAsks, Genuine
    <3>2. PICK m : m = t.chip[Master]
      OBVIOUS
    <3>3. m \in Chip
      BY <2>1, <3>2 DEF State, Ctrl
    <3>4. PICK y : y = DropLine(m, Cascade)
      OBVIOUS
    <3>5. /\ y \in Chip /\ y.irr = m.irr /\ y.imr = m.imr /\ y.isr = m.isr
          /\ y.base = m.base /\ y.highest = m.highest /\ y.smm = m.smm
          /\ y.autoeoi = m.autoeoi /\ y.icw = m.icw
      <4>1. m.irr \ {Cascade} = m.irr
        BY <3>1, <3>2
      <4> QED
        <5>1. /\ y \in Chip /\ y.irr = m.irr \ {Cascade} /\ y.imr = m.imr /\ y.isr = m.isr
              /\ y.base = m.base /\ y.highest = m.highest /\ y.smm = m.smm
              /\ y.autoeoi = m.autoeoi /\ y.icw = m.icw
          BY <1>2, <3>3, <3>4, DropShape
        <5> QED
          BY <4>1, <5>1
    <3>6. Steady(SetChip(t, Master, y))
      BY <1>6, <3>2, <3>5, UnfeltSteady DEF Ctrl
    <3>7. LowerMaster(t, Cascade) = SetChip(t, Master, y)
      BY <3>2, <3>4 DEF LowerMaster
    <3> QED
      BY <2>2, <2>4, <3>6, <3>7
  <2> QED
    BY <2>3, <2>4
<1> QED
  BY <1>7, <1>8 DEF Ctrl

\* What the guest writes in the course of business.
LEMMA WriteSteady ==
  ASSUME NEW s, Steady(s), NEW c \in Ctrl
  PROVE  /\ \A mask \in SUBSET Lines : Steady(WriteOcw1(s, c, mask))
         /\ \A w \in Ocw2Commands : ~w.rotate => Steady(WriteOcw2(s, c, w))
         /\ \A w \in Ocw3Commands : ~w.smm => Steady(WriteOcw3(s, c, w))
<1>1. PICK b : b = s.chip[c]
  OBVIOUS
<1>2. s \in State /\ b \in Chip /\ Ends(b)
  BY <1>1 DEF Steady, State
<1>3. c = Master /\ Cascade \in b.irr => Cascade \in s.chip[Master].irr
  BY <1>1
<1>4. ASSUME NEW mask \in SUBSET Lines PROVE Steady(WriteOcw1(s, c, mask))
  <2>1. PICK x : x = [b EXCEPT !.imr = mask]
    OBVIOUS
  <2>2. x \in Chip /\ x.irr = b.irr /\ x.highest = b.highest /\ Ends(x)
    BY <1>2, <2>1 DEF Chip, Ends
  <2>3. Steady(Update(SetChip(s, c, x), c))
    BY <1>1, <1>2, <1>3, <2>2, ChangeSteady
  <2> QED
    BY <1>1, <2>1, <2>3 DEF WriteOcw1
<1>5. ASSUME NEW w \in Ocw2Commands, ~w.rotate PROVE Steady(WriteOcw2(s, c, w))
  <2>1. CASE w.eoi
    <3>1. PICK x : x = EndInterrupt(b, w)
      OBVIOUS
    <3>2. x \in Chip
      BY <1>2, <3>1, EndInterruptType
    <3>3. x.irr = b.irr /\ x.highest = b.highest /\ Ends(x)
      BY <1>2, <1>5, <3>1 DEF EndInterrupt, EndHighest, Chip, Ends
    <3>4. Steady(Update(SetChip(s, c, x), c))
      BY <1>1, <1>2, <1>3, <3>2, <3>3, ChangeSteady
    <3> QED
      BY <1>1, <2>1, <3>1, <3>4 DEF WriteOcw2
  <2>2. CASE ~w.eoi /\ ~w.specific
    <3>1. PICK x : x = [b EXCEPT !.rotate = w.rotate]
      OBVIOUS
    <3>2. /\ x \in Chip /\ x.irr = b.irr /\ x.imr = b.imr /\ x.isr = b.isr
          /\ x.base = b.base /\ x.highest = b.highest /\ x.smm = b.smm
          /\ x.autoeoi = b.autoeoi /\ x.icw = b.icw
      BY <1>2, <3>1 DEF Chip, Ocw2Commands
    <3>3. Steady(SetChip(s, c, x))
      BY <1>1, <3>2, UnfeltSteady
    <3> QED
      BY <1>1, <2>2, <3>1, <3>3 DEF WriteOcw2
  <2>3. CASE ~w.eoi /\ w.specific
    BY <1>5, <2>3 DEF WriteOcw2
  <2> QED
    BY <2>1, <2>2, <2>3
<1>6. ASSUME NEW w \in Ocw3Commands, ~w.smm PROVE Steady(WriteOcw3(s, c, w))
  <2>1. PICK x : x = [b EXCEPT !.smm = w.smm]
    OBVIOUS
  <2>2. w.smm \in BOOLEAN /\ b.smm \in BOOLEAN /\ ~b.smm
    BY <1>2 DEF Ocw3Commands, Chip, Ends
  <2>3. x = b
    BY <1>2, <1>6, <2>1, <2>2 DEF Chip
  <2>4. Steady(SetChip(s, c, b))
    BY <1>1, <1>2, UnfeltSteady
  <2> QED
    BY <1>1, <2>1, <2>3, <2>4 DEF WriteOcw3
<1> QED
  BY <1>4, <1>5, <1>6

\* An acceptance leaves nothing deliverable on the controllers that it serves,
\* and the slave's request up if it serves another.
LEMMA TakeSteady ==
  ASSUME NEW s, Steady(s), s.intr
  PROVE  Steady(TakeInterrupt(s))
<1>1. PICK t : t = TakeInterrupt(s)
  OBVIOUS
<1>2. PICK m : m = s.chip[Master]
  OBVIOUS
<1>3. PICK b : b = s.chip[Slave]
  OBVIOUS
<1>4. s \in State /\ m \in Chip /\ b \in Chip /\ Ends(m) /\ Ends(b)
  BY <1>2, <1>3 DEF Steady, State, Ctrl
<1>5. /\ t \in State /\ ~t.intr
      /\ t.chip[Master] = TakeRequest(m)
      /\ t.chip[Slave] = IF AsksSlave(s) THEN TakeRequest(b) ELSE b
  BY <1>1, <1>2, <1>3, <1>4, TakeInterruptType DEF TakeInterrupt, Ctrl, Master, Slave
<1>6. Genuine(m) /\ TopAnnounced(m)
  BY <1>2 DEF Steady, MasterAsks
<1>7. /\ Ends(t.chip[Master]) /\ Deliverable(t.chip[Master]) = {}
      /\ t.chip[Master].irr = m.irr \ {m.highest} /\ TopAnnounced(t.chip[Master])
  BY <1>4, <1>5, <1>6, TakeLeavesNone
<1>8. MasterAsks(t)
  BY <1>5, <1>7 DEF MasterAsks
<1>9. CASE AsksSlave(s)
  <2>1. Cascade \in m.irr /\ m.highest = Cascade
    BY <1>2, <1>9 DEF AsksSlave, Genuine
  <2>2. Genuine(b) /\ TopAnnounced(b)
    BY <1>2, <1>3, <2>1 DEF Steady, SlaveAsks
  <2>3. /\ Ends(t.chip[Slave]) /\ Deliverable(t.chip[Slave]) = {}
        /\ TopAnnounced(t.chip[Slave])
    BY <1>4, <1>5, <1>9, <2>2, TakeLeavesNone
  <2>4. SlaveAsks(t)
    BY <1>7, <2>1, <2>3 DEF SlaveAsks
  <2> QED
    BY <1>1, <1>5, <1>7, <1>8, <2>3, <2>4 DEF Steady, Ctrl
<1>10. CASE ~AsksSlave(s)
  <2>1. t.chip[Slave] = b /\ m.highest # Cascade
    BY <1>2, <1>5, <1>6, <1>10 DEF AsksSlave
  <2>2. Cascade \in t.chip[Master].irr <=> Cascade \in m.irr
    BY <1>7, <2>1
  <2>3. SlaveAsks(t)
    BY <1>2, <1>3, <2>1, <2>2 DEF Steady, SlaveAsks
  <2> QED
    BY <1>1, <1>4, <1>5, <1>7, <1>8, <2>1, <2>3 DEF Steady, Ctrl
<1> QED
  BY <1>9, <1>10

\* Nothing is asked for, and no initialisation is under way.
Quiet(s) ==
  /\ s \in State /\ ~s.intr
  /\ \A c \in Ctrl : s.chip[c].irr = {} /\ Ends(s.chip[c])

\* A controller that expects word i of an initialisation with a cascade and an ICW4.
Expects(s, c, i) ==
  LET b == s.chip[c]
  IN  b.irr = {} /\ ~b.smm /\ ~b.autoeoi /\ ~b.single /\ b.ic4 /\ b.icw = i

\* The controller takes an initialisation word without automatic end of interrupt.
IcwWord(s, c) == WriteIcw(s, c, FALSE)

\* Each initialisation word leads to the next one.
LEMMA IcwShape ==
  ASSUME NEW s \in State, NEW c \in Ctrl, NEW t, t = IcwWord(s, c),
         Expects(s, c, 2) \/ Expects(s, c, 3) \/ Expects(s, c, 4)
  PROVE  /\ t \in State /\ t.intr = s.intr
         /\ \A d \in Ctrl \ {c} : t.chip[d] = s.chip[d]
         /\ Expects(s, c, 2) => Expects(t, c, 3)
         /\ Expects(s, c, 3) => Expects(t, c, 4)
         /\ Expects(s, c, 4) => Expects(t, c, 0)
<1>b. PICK b : b = s.chip[c]
  OBVIOUS
<1>e. b.irr = {} /\ ~b.smm /\ ~b.autoeoi /\ ~b.single /\ b.ic4
  BY <1>b DEF Expects
<1>1. b \in Chip
  BY <1>b DEF State
<1>2. PICK ch : ch = [b EXCEPT !.icw = IcwAfter(b),
                               !.autoeoi = IF b.icw = 4 THEN FALSE ELSE @]
  OBVIOUS
<1>3. /\ b.icw = 2 => IcwAfter(b) = 3
      /\ b.icw = 3 => IcwAfter(b) = 4
      /\ b.icw = 4 => IcwAfter(b) = 0
  BY <1>e DEF IcwAfter
<1>4. IcwAfter(b) \in {0, 2, 3, 4}
  BY DEF IcwAfter
<1>5. ch \in Chip
  BY <1>1, <1>2, <1>4 DEF Chip
<1>6. /\ ch.irr = {} /\ ~ch.smm /\ ~ch.autoeoi /\ ~ch.single /\ ch.ic4
      /\ ch.icw = IcwAfter(b)
  BY <1>1, <1>2, <1>e DEF Chip
<1>7. t = SetChip(s, c, ch)
  BY <1>2, <1>b DEF IcwWord, WriteIcw
<1>8. /\ t \in State /\ t.chip[c] = ch /\ t.intr = s.intr
      /\ \A d \in Ctrl \ {c} : t.chip[d] = s.chip[d]
  <2>1. PICK u : u = SetChip(s, c, ch)
    OBVIOUS
  <2>2. /\ u \in State /\ u.chip[c] = ch /\ u.intr = s.intr
        /\ \A d \in Ctrl \ {c} : u.chip[d] = s.chip[d]
    BY <1>5, <2>1, SetChipType
  <2> QED
    BY <1>7, <2>1, <2>2
<1>9. \A i : ch.icw = i => Expects(t, c, i)
  BY <1>6, <1>8 DEF Expects
<1>10. \A i : Expects(s, c, i) => b.icw = i
  BY <1>b DEF Expects
<1>11. Expects(s, c, 2) => Expects(t, c, 3)
  <2>1. SUFFICES ASSUME Expects(s, c, 2) PROVE Expects(t, c, 3)
    OBVIOUS
  <2>2. ch.icw = 3
    BY <1>3, <1>6, <1>10, <2>1
  <2> QED
    BY <1>9, <2>2
<1>12. Expects(s, c, 3) => Expects(t, c, 4)
  <2>1. SUFFICES ASSUME Expects(s, c, 3) PROVE Expects(t, c, 4)
    OBVIOUS
  <2>2. ch.icw = 4
    BY <1>3, <1>6, <1>10, <2>1
  <2> QED
    BY <1>9, <2>2
<1>13. Expects(s, c, 4) => Expects(t, c, 0)
  <2>1. SUFFICES ASSUME Expects(s, c, 4) PROVE Expects(t, c, 0)
    OBVIOUS
  <2>2. ch.icw = 0
    BY <1>3, <1>6, <1>10, <2>1
  <2> QED
    BY <1>9, <2>2
<1> QED
  BY <1>8, <1>11, <1>12, <1>13

\* The BIOS's initialisation of a controller ends where it began, but for the
\* mask.
LEMMA ProgrammedQuiet ==
  ASSUME NEW s, Quiet(s), NEW c \in Ctrl
  PROVE  Quiet(Programmed(s, c))
<1>1. s \in State /\ s.chip[c] \in Chip /\ ~s.chip[c].smm /\ ~s.intr
  BY DEF Quiet, State, Ends
<1>2. PICK x : x = WriteIcw1(s, c, [single |-> FALSE, ic4 |-> TRUE])
  OBVIOUS
<1>3. PICK x2 : x2 = IcwWord(x, c)
  OBVIOUS
<1>4. PICK x3 : x3 = IcwWord(x2, c)
  OBVIOUS
<1>5. PICK x4 : x4 = IcwWord(x3, c)
  OBVIOUS
<1>6. PICK x5 : x5 = SetChip(x4, c, [x4.chip[c] EXCEPT !.imr = {}])
  OBVIOUS
<1>7. /\ x \in State /\ ~x.intr /\ \A d \in Ctrl \ {c} : x.chip[d] = s.chip[d]
      /\ Expects(x, c, 2)
  <2>1. PICK ch : ch = [s.chip[c] EXCEPT !.irr = {}, !.imr = {}, !.isr = {},
                                         !.base = NLines - 1, !.autoeoi = FALSE,
                                         !.rotate = FALSE, !.icw = 2,
                                         !.single = FALSE, !.ic4 = TRUE]
    OBVIOUS
  <2>2. NLines - 1 \in Lines
    BY PicAssumption DEF Lines, Cascade
  <2>3. ch \in Chip
    BY <1>1, <2>1, <2>2 DEF Chip
  <2>4. /\ ch.irr = {} /\ ch.smm = s.chip[c].smm /\ ~ch.autoeoi
        /\ ~ch.single /\ ch.ic4 /\ ch.icw = 2
    BY <1>1, <2>1 DEF Chip
  <2>5. PICK t : t = SetChip(s, c, ch)
    OBVIOUS
  <2>6. t \in State /\ t.chip[c] = ch /\ \A d \in Ctrl \ {c} : t.chip[d] = s.chip[d]
    BY <1>1, <2>3, <2>5, SetChipType
  <2>7. x = [t EXCEPT !.intr = FALSE]
    BY <1>2, <2>1, <2>5 DEF WriteIcw1
  <2>8. x \in State /\ ~x.intr /\ x.chip = t.chip
    BY <2>6, <2>7 DEF State
  <2> QED
    BY <1>1, <2>4, <2>6, <2>8 DEF Expects
<1>8. /\ x2 \in State /\ ~x2.intr /\ \A d \in Ctrl \ {c} : x2.chip[d] = s.chip[d]
      /\ Expects(x2, c, 3)
  BY <1>3, <1>7, IcwShape
<1>9. /\ x3 \in State /\ ~x3.intr /\ \A d \in Ctrl \ {c} : x3.chip[d] = s.chip[d]
      /\ Expects(x3, c, 4)
  BY <1>4, <1>8, IcwShape
<1>10. /\ x4 \in State /\ ~x4.intr /\ \A d \in Ctrl \ {c} : x4.chip[d] = s.chip[d]
       /\ Expects(x4, c, 0)
  BY <1>5, <1>9, IcwShape
<1>11. Quiet(x5)
  <2>1. x4.chip[c] \in Chip
    BY <1>10 DEF State
  <2>2. PICK ch : ch = [x4.chip[c] EXCEPT !.imr = {}]
    OBVIOUS
  <2>3. ch \in Chip
    BY <2>1, <2>2 DEF Chip
  <2>4. ch.irr = {} /\ Ends(ch)
    BY <1>10, <2>1, <2>2 DEF Chip, Ends, Expects
  <2>5. /\ x5 \in State /\ x5.chip[c] = ch /\ x5.intr = x4.intr
        /\ \A d \in Ctrl \ {c} : x5.chip[d] = s.chip[d]
    <3>1. PICK u : u = SetChip(x4, c, ch)
      OBVIOUS
    <3>2. /\ u \in State /\ u.chip[c] = ch /\ u.intr = x4.intr
          /\ \A d \in Ctrl \ {c} : u.chip[d] = x4.chip[d]
      BY <1>10, <2>3, <3>1, SetChipType
    <3> QED
      BY <1>6, <1>10, <2>2, <3>1, <3>2
  <2> QED
    BY <1>10, <2>4, <2>5 DEF Quiet
<1>12. Update(x5, c) = x5
  <2>1. \A d \in Ctrl : Deliverable(x5.chip[d]) = {}
    BY <1>11 DEF Quiet, Deliverable, Requests
  <2> QED
    BY <2>1 DEF Update, UpdateMaster, UpdateSlave, Ctrl
<1> QED
  BY <1>2, <1>3, <1>4, <1>5, <1>6, <1>11, <1>12 DEF Programmed, WriteOcw1, IcwWord

\* The machine begins with nothing to deliver.
LEMMA InitSteady ==
  ASSUME Init
  PROVE  Steady(pic)
<1>1. Master \in Ctrl /\ Slave \in Ctrl
  BY DEF Ctrl
<1>2. Quiet(PowerOn)
  BY InitType DEF PowerOn, ResetState, ResetChip, ZeroedChip, Ends, Quiet
<1>3. Quiet(AfterBios)
  BY <1>1, <1>2, ProgrammedQuiet DEF AfterBios
<1>4. Quiet(pic)
  BY <1>2, <1>3 DEF Init
<1>5. \A c \in Ctrl : Deliverable(pic.chip[c]) = {}
  BY <1>4 DEF Quiet, Deliverable, Requests
<1> QED
  BY <1>1, <1>4, <1>5 DEF Quiet, Steady, MasterAsks, SlaveAsks, TopAnnounced

\* The controllers stay steady as long as devices are patient and the guest
\* does not set them up anew.
LEMMA StepSteady ==
  ASSUME FullyNested, Patient, Settled, Steady(pic), [Next]_pic
  PROVE  Steady(pic')
<1>1. ASSUME NEW c \in Ctrl, NEW l \in Lines, Raise(c, l)
      PROVE  Steady(pic')
  <2>1. <<c, l>> # <<Master, Cascade>>
    BY <1>1, PicAssumption DEF Raise
  <2> QED
    BY <1>1, <2>1, AskSteady DEF Raise
<1>2. ASSUME NEW c \in Ctrl, NEW l \in Lines, Pulse(c, l)
      PROVE  Steady(pic')
  <2>1. <<c, l>> # <<Master, Cascade>> /\ c = Master
    BY <1>2, PicAssumption DEF Pulse, Patient
  <2> QED
    BY <1>2, <2>1, AskSteady DEF Pulse
<1>3. ASSUME NEW c \in Ctrl, NEW l \in Lines, Lower(c, l)
      PROVE  Steady(pic')
  BY <1>3, LowerSteady DEF Lower, Patient
<1>4. ASSUME NEW c \in Ctrl, Ocw1Write(c) \/ Ocw2Write(c) \/ Ocw3Write(c)
      PROVE  Steady(pic')
  <2>1. /\ \A w \in Ocw2 : Steady(WriteOcw2(pic, c, w))
        /\ \A w \in Ocw3 : Steady(WriteOcw3(pic, c, w))
        /\ \A mask \in Masks : Steady(WriteOcw1(pic, c, mask))
    BY WriteSteady, PicAssumption DEF FullyNested
  <2> QED
    BY <1>4, <2>1 DEF Ocw1Write, Ocw2Write, Ocw3Write
<1>5. ASSUME NEW c \in Ctrl PROVE ~Icw1Write(c) /\ ~IcwWrite(c)
  BY DEF Settled, Icw1Write, IcwWrite, Steady, Ends
<1>6. CASE GetInterrupt
  BY <1>6, TakeSteady DEF GetInterrupt
<1>7. ~Reset
  BY DEF Settled, Reset
<1>8. CASE UNCHANGED pic
  BY <1>8
<1> QED
  BY <1>1, <1>2, <1>3, <1>4, <1>5, <1>6, <1>7, <1>8 DEF Next

\* No request that may be served is lost between pic_internal_update, the pulse
\* of the cascade line and the CPU's INTR: each controller announces the one of
\* highest priority for as long as there is one.
THEOREM NoRequestIsLost ==
  ASSUME FullyNested, Patient, Settled
  PROVE  Spec => []NoLostRequest
<1>1. Steady(pic) /\ [Next]_pic => Steady(pic)'
  BY StepSteady
<1>2. Steady(pic) => NoLostRequest
  BY DEF Steady, MasterAsks, SlaveAsks, TopAnnounced, NoLostRequest
<1> QED
  BY InitSteady, <1>1, <1>2, PTL DEF Spec

\* When INTR is up the CPU finds a request, of the slave's too if the master
\* sends it there: the spurious case of pic_internal_get_interrupt is not met.
THEOREM NothingIsSpurious ==
  ASSUME FullyNested, Patient, Settled
  PROVE  Spec => []NoSpurious
<1>1. Steady(pic) /\ [Next]_pic => Steady(pic)'
  BY StepSteady
<1>2. Steady(pic) => NoSpurious
  BY DEF Steady, MasterAsks, SlaveAsks, NoSpurious, AsksSlave, Genuine
<1> QED
  BY InitSteady, <1>1, <1>2, PTL DEF Spec

-----------------------------------------------------------------------------
(* Part two: the wiring.                                                   *)


\* The registers of module Apic, whatever they hold.
Registers(a) ==
  DOMAIN a = {"irr", "isr", "tmr", "tpr", "sent", "pins", "lines", "entry"}

\* APICs that no guest has turned to: whatever their lines do, nothing is sent.
Dormant(a) ==
  /\ Registers(a) /\ a.irr = {} /\ ~a.sent /\ a.lines \subseteq IoLines
  /\ a.entry = [l \in IoLines |-> MaskedEntry]

\* Devices lower their lines when they like: module Pic's restriction to those
\* that withdraw requests is void.
LowersFreely == Devices \ Pulsing \subseteq Withdrawing

\* A state f = [pic, apic] in which INTR is up when the APIC relies on it.
High(f) == f.pic \in State /\ Registers(f.apic) /\ (f.apic.sent => f.pic.intr)

-----------------------------------------------------------------------------
(* The 8259s never lower INTR, except to initialise and to be accepted.    *)

LEMMA UpdateKeepsIntr ==
  ASSUME NEW s \in State, s.intr, NEW c \in Ctrl
  PROVE  Update(s, c).intr
<1>1. ASSUME NEW t \in State, t.intr PROVE UpdateMaster(t).intr
  <2>1. t.chip[Master] \in Chip
    BY DEF State, Ctrl
  <2>2. CASE Deliverable(t.chip[Master]) = {}
    BY <1>1, <2>2 DEF UpdateMaster
  <2>3. CASE Deliverable(t.chip[Master]) # {}
    <3>1. SetChip(t, Master, Announce(t.chip[Master])) \in State
      BY <2>1, <2>3, AnnounceType, SetMaster
    <3> QED
      BY <2>3, <3>1 DEF UpdateMaster, State
  <2> QED
    BY <2>2, <2>3
<1>2. UpdateSlave(s).intr
  <2>1. s.chip[Slave] \in Chip /\ Cascade \in Lines
    BY PicAssumption DEF State, Ctrl, Lines, Cascade
  <2>2. CASE Deliverable(s.chip[Slave]) = {}
    BY <2>2 DEF UpdateSlave
  <2>3. CASE Deliverable(s.chip[Slave]) # {}
    <3>1. PICK t : t = SetChip(s, Slave, Announce(s.chip[Slave]))
      OBVIOUS
    <3>2. t \in State /\ t.intr
      BY <2>1, <2>3, <3>1, AnnounceType, SetSlave
    <3>3. PICK u : u = LowerMaster(t, Cascade)
      OBVIOUS
    <3>4. u \in State /\ u.intr
      <4>1. t.chip[Master] \in Chip
        BY <3>2 DEF State, Ctrl
      <4>2. DropLine(t.chip[Master], Cascade) \in Chip
        BY <2>1, <4>1, LineType
      <4> QED
        BY <3>2, <3>3, <4>2, SetMaster DEF LowerMaster
    <3>5. PICK v : v = SetChip(u, Master, LatchLine(u.chip[Master], Cascade))
      OBVIOUS
    <3>6. v \in State /\ v.intr
      <4>1. u.chip[Master] \in Chip
        BY <3>4 DEF State, Ctrl
      <4>2. LatchLine(u.chip[Master], Cascade) \in Chip
        BY <2>1, <4>1, LineType
      <4> QED
        BY <3>4, <3>5, <4>2, SetMaster
    <3>7. UpdateMaster(v).intr
      BY <1>1, <3>6
    <3>8. RaiseMaster(u, Cascade).intr
      BY <3>4, <3>5, <3>7 DEF RaiseMaster
    <3> QED
      BY <2>3, <3>1, <3>3, <3>8 DEF UpdateSlave
  <2> QED
    BY <2>2, <2>3
<1> QED
  BY <1>1, <1>2 DEF Update

LEMMA LineKeepsIntr ==
  ASSUME NEW s \in State, s.intr, NEW c \in Ctrl, NEW l \in Lines
  PROVE  RaiseLine(s, c, l).intr /\ LowerLine(s, c, l).intr
<1>1. s.chip[c] \in Chip /\ Cascade \in Lines
  BY PicAssumption DEF State, Lines, Cascade
<1>2. PICK t : t = SetChip(s, c, LatchLine(s.chip[c], l))
  OBVIOUS
<1>3. PICK u : u = SetChip(s, c, DropLine(s.chip[c], l))
  OBVIOUS
<1>4. t \in State /\ t.intr /\ u \in State /\ u.intr
  BY <1>1, <1>2, <1>3, LineType, SetChipType
<1>5. Update(t, c).intr
  BY <1>4, UpdateKeepsIntr
<1>6. RaiseLine(s, c, l) = IF l \in s.chip[c].pin THEN s ELSE Update(t, c)
  BY <1>2 DEF RaiseLine, RaiseMaster, RaiseSlave, Update, Ctrl, Master, Slave
<1>7. LowerMaster(u, Cascade).intr
  <2>1. u.chip[Master] \in Chip
    BY <1>4 DEF State, Ctrl
  <2>2. DropLine(u.chip[Master], Cascade) \in Chip
    BY <1>1, <2>1, LineType
  <2> QED
    BY <1>4, <2>2, SetMaster DEF LowerMaster
<1>8. LowerLine(s, c, l) \in {u, LowerMaster(u, Cascade)}
  BY <1>3 DEF LowerLine, LowerMaster, LowerSlave, Ctrl, Master, Slave
<1> QED
  BY <1>4, <1>5, <1>6, <1>7, <1>8

LEMMA WriteKeepsIntr ==
  ASSUME NEW s \in State, s.intr, NEW c \in Ctrl
  PROVE  /\ \A mask \in SUBSET Lines : WriteOcw1(s, c, mask).intr
         /\ \A w \in Ocw2Commands : w.eoi => WriteOcw2(s, c, w).intr
<1>1. s.chip[c] \in Chip
  BY DEF State
<1>2. ASSUME NEW mask \in SUBSET Lines PROVE WriteOcw1(s, c, mask).intr
  <2>1. [s.chip[c] EXCEPT !.imr = mask] \in Chip
    BY <1>1 DEF Chip
  <2>2. PICK t : t = SetChip(s, c, [s.chip[c] EXCEPT !.imr = mask])
    OBVIOUS
  <2>3. t \in State /\ t.intr
    BY <2>1, <2>2, SetChipType
  <2> QED
    BY <2>2, <2>3, UpdateKeepsIntr DEF WriteOcw1
<1>3. ASSUME NEW w \in Ocw2Commands, w.eoi PROVE WriteOcw2(s, c, w).intr
  <2>1. PICK t : t = SetChip(s, c, EndInterrupt(s.chip[c], w))
    OBVIOUS
  <2>2. t \in State /\ t.intr
    BY <1>1, <2>1, EndInterruptType, SetChipType
  <2> QED
    BY <1>3, <2>1, <2>2, UpdateKeepsIntr DEF WriteOcw2
<1> QED
  BY <1>2, <1>3

-----------------------------------------------------------------------------
(* The APICs keep their registers, and sleep until the guest wakes them.   *)

\* A function of the APIC changes the contents of registers only.
LEMMA SendKeepsRegisters ==
  ASSUME NEW a, Registers(a)
  PROVE  /\ Registers(Send(a))
         /\ \A l : Registers(Request(a, l))
  BY DEF Registers, Send, Request

LEMMA UpdateKeepsRegisters ==
  ASSUME NEW a, Registers(a)
  PROVE  Registers(UpdateIo(a))
<1>1. PICK due : due = {l \in a.lines : ~a.entry[l].masked}
  OBVIOUS
<1>2. PICK new : new = {a.entry[l].vector : l \in due} \ a.irr
  OBVIOUS
<1>3. PICK levels : levels = {v \in new : \E l \in due :
                               /\ a.entry[l].vector = v /\ a.entry[l].level
                               /\ \A k \in due : a.entry[k].vector = v => l <= k}
  OBVIOUS
<1>4. PICK b : b = [a EXCEPT !.lines = @ \ {l \in due : ~a.entry[l].level}]
  OBVIOUS
<1>5. PICK c : c = [b EXCEPT !.irr = @ \cup new, !.tmr = (@ \ new) \cup levels]
  OBVIOUS
<1>6. UpdateIo(a) = IF new = {} THEN b ELSE Send(c)
  BY <1>1, <1>2, <1>3, <1>4, <1>5 DEF UpdateIo
<1>7. Registers(b) /\ Registers(c)
  BY <1>4, <1>5 DEF Registers
<1> QED
  BY <1>6, <1>7, SendKeepsRegisters

LEMMA LinesKeepRegisters ==
  ASSUME NEW a, Registers(a), NEW l
  PROVE  Registers(RaiseIoLine(a, l)) /\ Registers(LowerIoLine(a, l))
<1>1. PICK b : b = Request(a, l)
  OBVIOUS
<1>2. PICK c : c = [b EXCEPT !.entry[l].remote = TRUE]
  OBVIOUS
<1>3. Registers(b)
  BY <1>1, SendKeepsRegisters
<1>4. Registers(c)
  BY <1>2, <1>3 DEF Registers
<1>5. Registers(UpdateIo(b)) /\ Registers(UpdateIo(c))
  BY <1>3, <1>4, UpdateKeepsRegisters
<1>6. Registers(RaiseIoLine(a, l))
  <2>1. CASE a.entry[l].level /\ a.entry[l].remote
    BY <2>1 DEF RaiseIoLine
  <2>2. CASE a.entry[l].level /\ ~a.entry[l].remote
    BY <1>1, <1>2, <1>5, <2>2 DEF RaiseIoLine
  <2>3. CASE ~a.entry[l].level
    BY <1>1, <1>5, <2>3 DEF RaiseIoLine
  <2> QED
    BY <2>1, <2>2, <2>3
<1>7. Registers(LowerIoLine(a, l))
  BY DEF Registers, LowerIoLine
<1> QED
  BY <1>6, <1>7

LEMMA GuestKeepsRegisters ==
  ASSUME Registers(apic),
         \/ \E l \in IoLines : Program(l)
         \/ \E v \in OwnVectors : Own(v)
         \/ Eoi
         \/ Tpr
  PROVE  Registers(apic')
<1>1. ASSUME NEW l \in IoLines, Program(l) PROVE Registers(apic')
  <2>1. PICK w \in Entries[l], remote \in {FALSE, apic.entry[l].remote} :
          apic' = WriteEntry(apic, l, w, remote)
    BY <1>1 DEF Program
  <2>2. PICK e : e = [vector |-> w.vector, masked |-> w.masked,
                      level |-> w.level, remote |-> remote]
    OBVIOUS
  <2>3. PICK b : b = [apic EXCEPT !.entry[l] = e]
    OBVIOUS
  <2>4. Registers(b)
    BY <2>3 DEF Registers
  <2>5. Registers(UpdateIo(b))
    BY <2>4, UpdateKeepsRegisters
  <2>6. apic' = IF e = apic.entry[l] THEN apic ELSE UpdateIo(b)
    BY <2>1, <2>2, <2>3 DEF WriteEntry
  <2> QED
    BY <2>5, <2>6
<1>2. ASSUME NEW v \in OwnVectors, Own(v) PROVE Registers(apic')
  <2>1. PICK level \in BOOLEAN : apic' = Receive(apic, v, level)
    BY <1>2 DEF Own
  <2>2. PICK b : b = [apic EXCEPT !.irr = @ \cup {v},
                                  !.tmr = IF level THEN @ \cup {v} ELSE @ \ {v}]
    OBVIOUS
  <2>3. Registers(b)
    BY <2>2 DEF Registers
  <2>4. apic' = IF v \in apic.irr THEN apic ELSE Send(b)
    BY <2>1, <2>2 DEF Receive
  <2> QED
    BY <2>3, <2>4, SendKeepsRegisters
<1>3. CASE Eoi
  <2>1. PICK v : v = Max(apic.isr)
    OBVIOUS
  <2>2. PICK b : b = [apic EXCEPT !.isr = @ \ {v}]
    OBVIOUS
  <2>3. Registers(b)
    BY <2>2 DEF Registers
  <2>4. Registers(RemoteEoi(b, v))
    BY <2>3 DEF Registers, RemoteEoi
  <2>5. apic' = IF apic.isr = {} THEN apic
                ELSE Send(IF v \in apic.tmr THEN RemoteEoi(b, v) ELSE b)
    BY <1>3, <2>1, <2>2 DEF Eoi, EndOfInterrupt
  <2> QED
    BY <2>3, <2>4, <2>5, SendKeepsRegisters
<1>4. CASE Tpr
  <2>1. PICK t \in Classes : apic' = SetPriority(apic, t)
    BY <1>4 DEF Tpr
  <2>2. PICK b : b = [apic EXCEPT !.tpr = t]
    OBVIOUS
  <2>3. Registers(b)
    BY <2>2 DEF Registers
  <2> QED
    BY <2>1, <2>2, <2>3, SendKeepsRegisters DEF SetPriority
<1> QED
  BY <1>1, <1>2, <1>3, <1>4

\* A line of a masked table is latched and sends nothing.
LEMMA LinesLeaveDormant ==
  ASSUME NEW a, Dormant(a), NEW l \in IoLines
  PROVE  Dormant(RaiseIoLine(a, l)) /\ Dormant(LowerIoLine(a, l))
<1>1. PICK t : t = [k \in IoLines |-> MaskedEntry]
  OBVIOUS
<1>2. Registers(a) /\ a.irr = {} /\ ~a.sent /\ a.entry = t
  BY <1>1 DEF Dormant
<1>3. \A k \in IoLines : t[k].masked /\ ~t[k].level
  BY <1>1 DEF MaskedEntry
<1>4. Dormant(LowerIoLine(a, l))
  <2>1. PICK b : b = LowerIoLine(a, l)
    OBVIOUS
  <2>2. /\ DOMAIN b = DOMAIN a
        /\ b.irr = a.irr /\ b.sent = a.sent /\ b.entry = a.entry
    BY <1>2, <2>1 DEF LowerIoLine, Registers
  <2>3. b.lines = IF a.entry[l].level THEN a.lines \ {l} ELSE a.lines
    BY <1>2, <2>1 DEF LowerIoLine, Registers
  <2>4. b.lines \subseteq IoLines
    BY <2>3 DEF Dormant
  <2> QED
    BY <1>1, <1>2, <2>1, <2>2, <2>4 DEF Dormant, Registers
<1>5. PICK b : b = Request(a, l)
  OBVIOUS
<1>6. /\ Registers(b) /\ b.irr = {} /\ ~b.sent /\ b.entry = t
      /\ b.lines \subseteq IoLines
  <2>1. /\ DOMAIN b = DOMAIN a
        /\ b.irr = a.irr /\ b.sent = a.sent /\ b.entry = a.entry
    BY <1>2, <1>5 DEF Request, Registers
  <2>2. b.lines = a.lines \cup {l}
    BY <1>2, <1>5 DEF Request, Registers
  <2>3. b.lines \subseteq IoLines
    BY <2>2 DEF Dormant
  <2> QED
    BY <1>2, <2>1, <2>3 DEF Registers
<1>7. Dormant(UpdateIo(b))
  <2>1. PICK due : due = {k \in b.lines : ~b.entry[k].masked}
    OBVIOUS
  <2>2. due = {}
    BY <1>3, <1>6, <2>1
  <2>3. {b.entry[k].vector : k \in due} \ b.irr = {}
    BY <2>2
  <2>4. UpdateIo(b) = [b EXCEPT !.lines = @ \ {k \in due : ~b.entry[k].level}]
    BY <2>1, <2>3 DEF UpdateIo
  <2>5. PICK c : c = UpdateIo(b)
    OBVIOUS
  <2>6. /\ Registers(c) /\ c.irr = {} /\ ~c.sent /\ c.entry = t
        /\ c.lines \subseteq IoLines
    BY <1>6, <2>4, <2>5 DEF Registers
  <2> QED
    BY <1>1, <2>5, <2>6 DEF Dormant
<1>8. RaiseIoLine(a, l) = IF l \in a.pins THEN a ELSE UpdateIo(b)
  BY <1>2, <1>3, <1>5 DEF RaiseIoLine
<1> QED
  BY <1>4, <1>7, <1>8

-----------------------------------------------------------------------------
(* The wiring.                                                             *)

\* The CPU's line follows the APIC's when it sends, and the 8259s' otherwise.
LEMMA JoinedHigh ==
  ASSUME NEW f, High(f), NEW p \in State, f.pic.intr => p.intr,
         NEW a, Registers(a)
  PROVE  High(Joined(f, p, a))
<1>1. Joined(f, p, a).apic = a
  BY DEF Joined
<1>2. CASE a.sent /\ ~f.apic.sent
  <2>1. Joined(f, p, a).pic = [p EXCEPT !.intr = TRUE]
    BY <1>2 DEF Joined
  <2>2. Joined(f, p, a).pic \in State /\ Joined(f, p, a).pic.intr
    BY <2>1 DEF State
  <2> QED
    BY <1>1, <2>2 DEF High
<1>3. CASE ~(a.sent /\ ~f.apic.sent)
  <2>1. Joined(f, p, a).pic = p
    BY <1>3 DEF Joined
  <2> QED
    BY <1>1, <1>3, <2>1 DEF High
<1> QED
  BY <1>2, <1>3

\* A dormant APIC does not touch the CPU's line.
LEMMA JoinedDormant ==
  ASSUME NEW f, NEW p, NEW a, Dormant(a)
  PROVE  Joined(f, p, a).pic = p /\ Joined(f, p, a).apic = a
  BY DEF Joined, Dormant

LEMMA HearCascadeKeeps ==
  ASSUME NEW a, NEW p
  PROVE  /\ Registers(a) => Registers(HearCascade(a, p))
         /\ Dormant(a) => Dormant(HearCascade(a, p))
<1>1. ASSUME Registers(a) PROVE Registers(HearCascade(a, p))
  <2>1. Registers(RaiseIoLine(LowerIoLine(a, TimerLine), TimerLine))
    BY <1>1, LinesKeepRegisters
  <2> QED
    BY <1>1, <2>1 DEF HearCascade
<1>2. ASSUME Dormant(a) PROVE Dormant(HearCascade(a, p))
  <2>1. Dormant(RaiseIoLine(LowerIoLine(a, TimerLine), TimerLine))
    BY <1>2, FabricAssumption, LinesLeaveDormant
  <2> QED
    BY <1>2, <2>1 DEF HearCascade
<1> QED
  BY <1>1, <1>2

\* Devices' lines keep INTR up.
LEMMA IrqKeepsHigh ==
  ASSUME NEW f, High(f), NEW c \in Ctrl, NEW l \in Lines
  PROVE  High(RaiseIrq(f, c, l)) /\ High(LowerIrq(f, c, l))
<1>1. PICK p : p = RaiseLine(f.pic, c, l)
  OBVIOUS
<1>2. PICK q : q = LowerLine(f.pic, c, l)
  OBVIOUS
<1>3. p \in State /\ q \in State /\ (f.pic.intr => p.intr /\ q.intr)
  BY <1>1, <1>2, LineStateType, LineKeepsIntr DEF High
<1>4. PICK a : a = RaiseIoLine(f.apic, IoLine(c, l))
  OBVIOUS
<1>5. PICK b : b = LowerIoLine(f.apic, IoLine(c, l))
  OBVIOUS
<1>6. /\ Registers(a) /\ Registers(HearCascade(a, p))
      /\ Registers(b) /\ Registers(LowerIoLine(b, TimerLine))
  BY <1>4, <1>5, LinesKeepRegisters, HearCascadeKeeps DEF High
<1>7. High(RaiseIrq(f, c, l))
  <2>1. \E d \in {a, HearCascade(a, p)} : RaiseIrq(f, c, l) = Joined(f, p, d)
    BY <1>1, <1>4 DEF RaiseIrq
  <2> QED
    BY <1>3, <1>6, <2>1, JoinedHigh
<1>8. High(LowerIrq(f, c, l))
  <2>1. \E d \in {b, LowerIoLine(b, TimerLine)} : LowerIrq(f, c, l) = Joined(f, q, d)
    BY <1>2, <1>5 DEF LowerIrq
  <2> QED
    BY <1>3, <1>6, <2>1, JoinedHigh
<1> QED
  BY <1>7, <1>8

\* While the APICs are dormant, devices' lines do to the 8259s what module Pic
\* says, and nothing to INTR besides.
LEMMA IrqLeavesDormant ==
  ASSUME NEW f, Dormant(f.apic), NEW c, NEW l, <<c, l>> \in Devices
  PROVE  /\ Dormant(RaiseIrq(f, c, l).apic) /\ Dormant(LowerIrq(f, c, l).apic)
         /\ RaiseIrq(f, c, l).pic = RaiseLine(f.pic, c, l)
         /\ LowerIrq(f, c, l).pic = LowerLine(f.pic, c, l)
<1>1. IoLine(c, l) \in IoLines
  BY FabricAssumption
<1>2. PICK a : a = RaiseIoLine(f.apic, IoLine(c, l))
  OBVIOUS
<1>3. PICK b : b = LowerIoLine(f.apic, IoLine(c, l))
  OBVIOUS
<1>4. PICK p : p = RaiseLine(f.pic, c, l)
  OBVIOUS
<1>5. PICK q : q = LowerLine(f.pic, c, l)
  OBVIOUS
<1>6. /\ Dormant(a) /\ Dormant(HearCascade(a, p))
      /\ Dormant(b) /\ Dormant(LowerIoLine(b, TimerLine))
  BY <1>1, <1>2, <1>3, FabricAssumption, LinesLeaveDormant, HearCascadeKeeps
<1>7. \E d \in {a, HearCascade(a, p)} : RaiseIrq(f, c, l) = Joined(f, p, d)
  BY <1>2, <1>4 DEF RaiseIrq
<1>8. \E d \in {b, LowerIoLine(b, TimerLine)} : LowerIrq(f, c, l) = Joined(f, q, d)
  BY <1>3, <1>5 DEF LowerIrq
<1>9. Dormant(RaiseIrq(f, c, l).apic) /\ RaiseIrq(f, c, l).pic = p
  BY <1>6, <1>7, JoinedDormant
<1>10. Dormant(LowerIrq(f, c, l).apic) /\ LowerIrq(f, c, l).pic = q
  BY <1>6, <1>8, JoinedDormant
<1> QED
  BY <1>4, <1>5, <1>9, <1>10

-----------------------------------------------------------------------------
(* The theorems.                                                           *)

Asleep == pic \in State /\ (mode = "pic" => Dormant(apic))

Awake == High(Now)

LEMMA FabricStarts == FabricInit => Asleep /\ Awake
<1> SUFFICES ASSUME FabricInit PROVE Asleep /\ Awake
  OBVIOUS
<1>1. pic \in State
  BY InitType DEF FabricInit, Init
<1>2. Dormant(apic)
  <2>1. PICK t : t = [l \in IoLines |-> MaskedEntry]
    OBVIOUS
  <2>2. apic = [irr |-> {}, isr |-> {}, tmr |-> {}, tpr |-> 0, sent |-> FALSE,
                pins |-> {}, lines |-> {}, entry |-> t]
    BY <2>1 DEF FabricInit, ApicInit, ApicPowerOn
  <2> QED
    BY <2>1, <2>2 DEF Dormant, Registers
<1> QED
  BY <1>1, <1>2 DEF Asleep, Awake, High, Now, Dormant

\* What a guest's write to an 8259 does to the wiring.
LEMMA PicWrittenKeeps ==
  ASSUME NEW c \in Ctrl, NEW p \in State, PicWritten(c, p)
  PROVE  /\ Awake /\ (pic.intr => p.intr) => Awake'
         /\ Dormant(apic) => pic' = p /\ Dormant(apic')
         /\ UNCHANGED mode
<1>1. PICK a : a = IF c = Slave THEN HearCascade(apic, p) ELSE apic
  OBVIOUS
<1>2. Now' = Joined(Now, p, a) /\ UNCHANGED mode
  <2>1. pic' = Joined(Now, p, a).pic /\ apic' = Joined(Now, p, a).apic /\ UNCHANGED mode
    BY <1>1 DEF PicWritten, Becomes
  <2> QED
    BY <2>1 DEF Now, Joined
<1>3. ASSUME Awake, pic.intr => p.intr PROVE Awake'
  <2>1. Registers(a)
    BY <1>1, <1>3, HearCascadeKeeps DEF Awake, High, Now
  <2>2. High(Joined(Now, p, a))
    BY <1>3, <2>1, JoinedHigh DEF Awake, Now
  <2> QED
    BY <1>2, <2>2 DEF Awake
<1>4. ASSUME Dormant(apic) PROVE pic' = p /\ Dormant(apic')
  <2>1. Dormant(a)
    BY <1>1, <1>4, HearCascadeKeeps
  <2>2. Joined(Now, p, a).pic = p /\ Joined(Now, p, a).apic = a
    BY <2>1, JoinedDormant
  <2> QED
    BY <1>2, <2>1, <2>2 DEF Now
<1> QED
  BY <1>2, <1>3, <1>4

\* A guest's commands to an 8259 that is not being initialised.
LEMMA PicCommands ==
  ASSUME NEW c \in Ctrl, pic \in State, MaskPic(c) \/ EndPic(c)
  PROVE  \E p \in State : /\ PicWritten(c, p) /\ (pic.intr => p.intr)
                          /\ pic' = p => Ocw1Write(c) \/ Ocw2Write(c)
<1>1. CASE MaskPic(c)
  <2>1. PICK mask \in Masks : PicWritten(c, WriteOcw1(pic, c, mask))
    BY <1>1 DEF MaskPic
  <2>2. mask \in SUBSET Lines
    BY PicAssumption
  <2>3. /\ WriteOcw1(pic, c, mask) \in State
        /\ pic.intr => WriteOcw1(pic, c, mask).intr
    BY <2>2, WriteType, WriteKeepsIntr
  <2>4. pic' = WriteOcw1(pic, c, mask) => Ocw1Write(c)
    BY <1>1 DEF MaskPic, Ocw1Write
  <2> QED
    BY <2>1, <2>3, <2>4
<1>2. CASE EndPic(c)
  <2>1. PICK w \in Ocw2 : w.eoi /\ PicWritten(c, WriteOcw2(pic, c, w))
    BY <1>2 DEF EndPic
  <2>2. w \in Ocw2Commands
    BY PicAssumption
  <2>3. /\ WriteOcw2(pic, c, w) \in State
        /\ pic.intr => WriteOcw2(pic, c, w).intr
    BY <2>1, <2>2, WriteType, WriteKeepsIntr
  <2>4. pic' = WriteOcw2(pic, c, w) => Ocw2Write(c)
    BY DEF Ocw2Write
  <2> QED
    BY <2>1, <2>3, <2>4
<1> QED
  BY <1>1, <1>2

\* The 8259s keep their type behind the wiring.
LEMMA JoinedType ==
  ASSUME NEW f, NEW p \in State, NEW a
  PROVE  Joined(f, p, a).pic \in State
  BY DEF Joined, State

LEMMA IrqType ==
  ASSUME NEW f, f.pic \in State, NEW c \in Ctrl, NEW l \in Lines
  PROVE  RaiseIrq(f, c, l).pic \in State /\ LowerIrq(f, c, l).pic \in State
<1>1. RaiseLine(f.pic, c, l) \in State /\ LowerLine(f.pic, c, l) \in State
  BY LineStateType
<1> QED
  BY <1>1, JoinedType DEF RaiseIrq, LowerIrq

LEMMA StepTyped ==
  ASSUME pic \in State, [FabricNext]_fabric
  PROVE  pic' \in State
<1>1. Now.pic = pic
  BY DEF Now
<1>2. ASSUME NEW c \in Ctrl, NEW l \in Lines,
             DeviceRaises(c, l) \/ DevicePulses(c, l) \/ DeviceLowers(c, l)
      PROVE  pic' \in State
  BY <1>1, <1>2, IrqType DEF DeviceRaises, DevicePulses, DeviceLowers, Becomes
<1>3. ASSUME NEW c \in Ctrl, MaskPic(c) \/ EndPic(c) PROVE pic' \in State
  BY <1>3, PicCommands, JoinedType DEF PicWritten, Becomes
<1>4. ASSUME NEW c \in Ctrl, InitialisePic(c) PROVE pic' \in State
  BY <1>4, WriteType, PicAssumption DEF InitialisePic, Icw1Write, IcwWrite
<1>5. CASE CpuAccepts
  <2>1. TakeInterrupt(pic) \in State /\ [pic EXCEPT !.intr = FALSE] \in State
    BY TakeInterruptType DEF State
  <2> QED
    BY <1>5, <2>1 DEF CpuAccepts, Becomes, AcknowledgeInterrupt, Now
<1>6. CASE GuestApic
  BY <1>6, JoinedType DEF GuestApic
<1>7. CASE UseApic \/ UNCHANGED fabric
  BY <1>7 DEF UseApic, fabric
<1>8. CASE ResetMachine
  BY <1>8, ResetType DEF ResetMachine
<1> QED
  BY <1>2, <1>3, <1>4, <1>5, <1>6, <1>7, <1>8 DEF FabricNext

\* Until the guest turns to the APICs, every step is one of module Pic, or is
\* not seen by the 8259s.
LEMMA StepAsleep ==
  ASSUME Asleep, [FabricNext]_fabric
  PROVE  Asleep' /\ (LowersFreely /\ mode = "pic" => [Next]_pic)
<1>1. pic \in State /\ pic' \in State
  BY StepTyped DEF Asleep
<1>2. SUFFICES ASSUME mode = "pic"
               PROVE  (LowersFreely => [Next]_pic) /\ (mode' = "pic" => Dormant(apic'))
  <2>1. CASE mode = "pic"
    BY <1>1, <2>1 DEF Asleep
  <2>2. CASE mode # "pic"
    <3>1. mode' # "pic"
      BY <2>2 DEF FabricNext, fabric, DeviceRaises, DevicePulses, DeviceLowers, MaskPic,
                  EndPic, PicWritten, InitialisePic, CpuAccepts, UseApic, GuestApic,
                  ResetMachine, Becomes
    <3> QED
      BY <1>1, <2>2, <3>1 DEF Asleep
  <2> QED
    BY <2>1, <2>2
<1>3. Dormant(apic)
  BY <1>2 DEF Asleep
<1>4. Now.pic = pic /\ Now.apic = apic
  BY DEF Now
<1>5. ASSUME NEW c \in Ctrl, NEW l \in Lines, DeviceRaises(c, l)
      PROVE  Next /\ Dormant(apic')
  <2>1. <<c, l>> \in Devices
    BY <1>5 DEF DeviceRaises
  <2>2. pic' = RaiseIrq(Now, c, l).pic /\ apic' = RaiseIrq(Now, c, l).apic
    BY <1>5 DEF DeviceRaises, Becomes
  <2>3. pic' = RaiseLine(pic, c, l) /\ Dormant(apic')
    BY <1>3, <1>4, <2>1, <2>2, IrqLeavesDormant
  <2> QED
    BY <2>1, <2>3 DEF Next, Raise
<1>6. ASSUME NEW c \in Ctrl, NEW l \in Lines, DevicePulses(c, l)
      PROVE  Next /\ Dormant(apic')
  <2>1. <<c, l>> \in Pulsing /\ <<c, l>> \in Devices
    BY <1>6, PicAssumption DEF DevicePulses
  <2>2. PICK f : f = LowerIrq(Now, c, l)
    OBVIOUS
  <2>3. f.pic = LowerLine(pic, c, l) /\ Dormant(f.apic)
    BY <1>3, <1>4, <2>1, <2>2, IrqLeavesDormant
  <2>4. pic' = RaiseIrq(f, c, l).pic /\ apic' = RaiseIrq(f, c, l).apic
    BY <1>6, <2>2 DEF DevicePulses, Becomes
  <2>5. pic' = RaiseLine(LowerLine(pic, c, l), c, l) /\ Dormant(apic')
    BY <2>1, <2>3, <2>4, IrqLeavesDormant
  <2> QED
    BY <2>1, <2>5 DEF Next, Pulse
<1>7. ASSUME NEW c \in Ctrl, NEW l \in Lines, DeviceLowers(c, l)
      PROVE  (LowersFreely => Next) /\ Dormant(apic')
  <2>1. <<c, l>> \in Devices /\ (LowersFreely => <<c, l>> \in Withdrawing)
    BY <1>7 DEF DeviceLowers, LowersFreely
  <2>2. pic' = LowerIrq(Now, c, l).pic /\ apic' = LowerIrq(Now, c, l).apic
    BY <1>7 DEF DeviceLowers, Becomes
  <2>3. pic' = LowerLine(pic, c, l) /\ Dormant(apic')
    BY <1>3, <1>4, <2>1, <2>2, IrqLeavesDormant
  <2> QED
    BY <2>1, <2>3 DEF Next, Lower
<1>8. ASSUME NEW c \in Ctrl, MaskPic(c) \/ EndPic(c)
      PROVE  Next /\ Dormant(apic')
  <2>1. PICK p \in State : /\ PicWritten(c, p)
                           /\ pic' = p => Ocw1Write(c) \/ Ocw2Write(c)
    BY <1>1, <1>8, PicCommands
  <2>2. pic' = p /\ Dormant(apic')
    BY <1>3, <2>1, PicWrittenKeeps
  <2> QED
    BY <2>1, <2>2 DEF Next
<1>9. ASSUME NEW c \in Ctrl, InitialisePic(c)
      PROVE  Next /\ Dormant(apic')
  <2>1. (Icw1Write(c) \/ IcwWrite(c)) /\ apic' = apic
    BY <1>9 DEF InitialisePic
  <2> QED
    BY <1>3, <2>1 DEF Next
<1>10. ASSUME CpuAccepts
       PROVE  Next /\ Dormant(apic')
  <2>1. AcknowledgeInterrupt(Now) = [Now EXCEPT !.pic = TakeInterrupt(@)]
    BY <1>3, <1>4 DEF AcknowledgeInterrupt, Dormant
  <2>2. pic' = TakeInterrupt(pic) /\ apic' = apic
    BY <1>10, <2>1 DEF CpuAccepts, Becomes, Now
  <2>3. GetInterrupt
    BY <1>10, <2>2 DEF CpuAccepts, GetInterrupt
  <2> QED
    BY <1>3, <2>2, <2>3 DEF Next
<1>11. CASE UseApic
  BY <1>11 DEF UseApic
<1>12. ~GuestApic
  BY <1>2 DEF GuestApic
<1>13. ASSUME ResetMachine
       PROVE  Next /\ Dormant(apic')
  <2>1. PICK t : t = [l \in IoLines |-> MaskedEntry]
    OBVIOUS
  <2>2. apic' = [apic EXCEPT !.entry = t]
    BY <1>13, <2>1 DEF ResetMachine, ResetApic
  <2>3. Dormant(apic')
    BY <1>3, <2>1, <2>2 DEF Dormant, Registers
  <2>4. Reset
    BY <1>13 DEF ResetMachine, Reset
  <2> QED
    BY <2>3, <2>4 DEF Next
<1>14. CASE UNCHANGED fabric
  BY <1>3, <1>14 DEF fabric
<1> QED
  BY <1>5, <1>6, <1>7, <1>8, <1>9, <1>10, <1>11, <1>12, <1>13, <1>14 DEF FabricNext

\* While the 8259s are not initialised anew, INTR is up when the APIC relies on it.
LEMMA StepAwake ==
  ASSUME ~Reinitialises, Asleep, Awake, [FabricNext]_fabric
  PROVE  Awake'
<1>1. pic \in State /\ Registers(apic) /\ (apic.sent => pic.intr)
  BY DEF Awake, High, Now
<1>2. ASSUME NEW f, High(f), Becomes(f) PROVE Awake'
  BY <1>2 DEF Awake, High, Becomes, Now
<1>3. ASSUME NEW c \in Ctrl, NEW l \in Lines,
             DeviceRaises(c, l) \/ DevicePulses(c, l) \/ DeviceLowers(c, l)
      PROVE  Awake'
  <2>1. High(LowerIrq(Now, c, l)) /\ High(RaiseIrq(Now, c, l))
    BY IrqKeepsHigh DEF Awake
  <2>2. High(RaiseIrq(LowerIrq(Now, c, l), c, l))
    BY <2>1, IrqKeepsHigh
  <2> QED
    BY <1>2, <1>3, <2>1, <2>2 DEF DeviceRaises, DevicePulses, DeviceLowers
<1>4. ASSUME NEW c \in Ctrl, MaskPic(c) \/ EndPic(c) PROVE Awake'
  BY <1>1, <1>4, PicCommands, PicWrittenKeeps
<1>5. ASSUME NEW c \in Ctrl, InitialisePic(c) PROVE Awake'
  <2>1. ~apic.sent /\ apic' = apic
    BY <1>5 DEF InitialisePic, Asleep, Dormant
  <2>2. pic' \in State
    BY <1>1, StepTyped
  <2> QED
    BY <1>1, <2>1, <2>2 DEF Awake, High, Now
<1>6. CASE CpuAccepts
  <2>1. CASE apic.sent
    <3>1. apic' = Acknowledge(apic)
      BY <1>6, <2>1 DEF CpuAccepts, Becomes, AcknowledgeInterrupt, Now
    <3>2. Registers(apic') /\ ~apic'.sent
      BY <1>1, <3>1 DEF Acknowledge, Registers
    <3>3. pic' \in State
      BY <1>1, StepTyped
    <3> QED
      BY <3>2, <3>3 DEF Awake, High, Now
  <2>2. CASE ~apic.sent
    <3>1. apic' = apic
      BY <1>6, <2>2 DEF CpuAccepts, Becomes, AcknowledgeInterrupt, Now
    <3>2. pic' \in State
      BY <1>1, StepTyped
    <3> QED
      BY <1>1, <2>2, <3>1, <3>2 DEF Awake, High, Now
  <2> QED
    BY <2>1, <2>2
<1>7. CASE GuestApic
  <2>1. Registers(apic')
    BY <1>1, <1>7, GuestKeepsRegisters DEF GuestApic
  <2>2. High(Joined(Now, pic, apic'))
    BY <1>1, <2>1, JoinedHigh DEF Awake, Now
  <2>3. pic' = Joined(Now, pic, apic').pic
    BY <1>7 DEF GuestApic
  <2>4. Joined(Now, pic, apic').apic = apic'
    BY DEF Joined
  <2> QED
    BY <2>2, <2>3, <2>4 DEF Awake, High, Now
<1>8. CASE UseApic \/ UNCHANGED fabric
  BY <1>1, <1>8 DEF UseApic, fabric, Awake, High, Now
<1>9. CASE ResetMachine
  <2>1. PICK t : t = [l \in IoLines |-> MaskedEntry]
    OBVIOUS
  <2>2. apic' = [apic EXCEPT !.entry = t]
    BY <1>9, <2>1 DEF ResetMachine, ResetApic
  <2>3. Registers(apic') /\ apic'.sent = apic.sent
    BY <1>1, <2>2 DEF Registers
  <2>4. pic' \in State /\ pic'.intr = pic.intr
    BY <1>1, <1>9, StepTyped DEF ResetMachine, ResetState, State
  <2> QED
    BY <1>1, <2>3, <2>4 DEF Awake, High, Now
<1> QED
  BY <1>3, <1>4, <1>5, <1>6, <1>7, <1>8, <1>9 DEF FabricNext

LEMMA AlwaysAsleep == FabricSpec => []Asleep
<1>1. Asleep /\ [FabricNext]_fabric => Asleep'
  BY StepAsleep
<1> QED
  BY FabricStarts, <1>1, PTL DEF FabricSpec

\* INTR stays up while the APIC relies on it: the 8259s, which share the line,
\* lower it in no order of lines, pulses, commands, acceptances and resets, as
\* long as a guest that uses the APICs does not initialise an 8259 again.
THEOREM SentStaysHigh ==
  ASSUME ~Reinitialises
  PROVE  FabricSpec => []SentIsHigh
<1>1. Asleep /\ Awake /\ [FabricNext]_fabric => Awake'
  BY StepAwake
<1>2. Awake => SentIsHigh
  BY DEF Awake, High, Now, SentIsHigh
<1> QED
  BY AlwaysAsleep, FabricStarts, <1>1, <1>2, PTL DEF FabricSpec

\* The machine refines the two 8259s until its guest turns to the APICs: the
\* I/O APIC hears every line and every pulse of the cascade, and shows nothing.
THEOREM PicsAreAlone ==
  ASSUME LowersFreely
  PROVE  FabricSpec => PicAlone
<1>1. Asleep /\ [FabricNext]_fabric => [mode = "pic" => Next]_pic
  BY StepAsleep
<1> QED
  BY AlwaysAsleep, <1>1, PTL DEF FabricSpec, PicAlone

-----------------------------------------------------------------------------
(* Part three: the APICs alone.                                            *)

Nests(a) == a.sent => \E v \in a.irr : \A w \in a.isr : w < v

Alert(a) == Sendable(a) => a.sent

Sound(a) == a \in ApicState /\ Nests(a) /\ Alert(a)

-----------------------------------------------------------------------------

\* A set of vectors has a highest one, which Max chooses.
LEMMA MaxIsHighest ==
  ASSUME NEW S \in SUBSET Vectors, S # {}
  PROVE  Max(S) \in S /\ \A w \in S : w <= Max(S)
<1> DEFINE T == {255 - v : v \in S}
<1>1. S \subseteq 1 .. 255
  BY ApicAssumption
<1>2. T \in SUBSET Nat
  <2>1. \A v \in S : 255 - v \in Nat
    BY <1>1
  <2> QED
    BY <2>1
<1>3. T # {}
  OBVIOUS
<1> HIDE DEF T
<1>5. PICK x \in T : \A y \in T : x <= y
  BY <1>2, <1>3, LeastNatural
<1>7. \E v \in S : \A w \in S : v >= w
  <2>1. PICK v \in S : x = 255 - v
    BY <1>5 DEF T
  <2>2. \A w \in S : x <= 255 - w
    BY <1>5 DEF T
  <2> QED
    BY <1>1, <2>1, <2>2
<1> QED
  BY <1>1, <1>7 DEF Max

\* Sending keeps the type and what nests, and leaves nothing to send.
LEMMA SendIsSound ==
  ASSUME NEW a \in ApicState, Nests(a)
  PROVE  Sound(Send(a))
<1>1. CASE ~a.sent /\ Sendable(a)
  <2>1. Send(a) = [a EXCEPT !.sent = TRUE]
    BY <1>1 DEF Send
  <2>2. /\ Send(a) \in ApicState
        /\ Send(a).irr = a.irr /\ Send(a).isr = a.isr /\ Send(a).sent
    BY <2>1 DEF ApicState
  <2>3. \E v \in a.irr : \A w \in a.isr : w < v
    BY <1>1 DEF Sendable
  <2> QED
    BY <2>2, <2>3 DEF Sound, Nests, Alert
<1>2. CASE a.sent \/ ~Sendable(a)
  BY <1>2 DEF Send, Sound, Alert
<1> QED
  BY <1>1, <1>2

\* More requests and fewer services keep what nests.
LEMMA NestsGrows ==
  ASSUME NEW a, NEW b, Nests(a),
         b.sent = a.sent, a.irr \subseteq b.irr, b.isr \subseteq a.isr
  PROVE  Nests(b)
  BY DEF Nests

\* What changes neither requests, services, priority nor sent stays sound.
LEMMA SameIsSound ==
  ASSUME NEW a, NEW b \in ApicState, Sound(a),
         b.irr = a.irr, b.isr = a.isr, b.tpr = a.tpr, b.sent = a.sent
  PROVE  Sound(b)
  BY DEF Sound, Nests, Alert, Sendable

-----------------------------------------------------------------------------
(* The functions of apic.c.                                                *)

LEMMA ReceiveIsSound ==
  ASSUME NEW a, Sound(a), NEW v \in Vectors, NEW level \in BOOLEAN
  PROVE  Sound(Receive(a, v, level))
<1>1. CASE v \in a.irr
  BY <1>1 DEF Receive
<1>2. CASE v \notin a.irr
  <2> DEFINE b == [a EXCEPT !.irr = @ \cup {v},
                            !.tmr = IF level THEN @ \cup {v} ELSE @ \ {v}]
  <2>1. a \in ApicState
    BY DEF Sound
  <2>2. b \in ApicState /\ b.sent = a.sent /\ b.irr = a.irr \cup {v} /\ b.isr = a.isr
    BY <2>1 DEF ApicState
  <2>3. Receive(a, v, level) = Send(b)
    BY <1>2 DEF Receive
  <2> HIDE DEF b
  <2>4. Nests(b)
    BY <2>2, NestsGrows DEF Sound
  <2> QED
    BY <2>2, <2>3, <2>4, SendIsSound
<1> QED
  BY <1>1, <1>2

\* An acceptance takes the highest request, so what is left cannot be sent.
LEMMA AcknowledgeIsSound ==
  ASSUME NEW a, Sound(a), a.sent
  PROVE  Sound(Acknowledge(a))
<1> DEFINE v == Max(a.irr)
           b == Acknowledge(a)
<1>1. a \in ApicState
  BY DEF Sound
<1>2. a.irr \in SUBSET Vectors /\ a.irr # {}
  BY <1>1 DEF Sound, Nests, ApicState
<1>3. v \in a.irr /\ \A w \in a.irr : w <= v
  BY <1>2, MaxIsHighest
<1>4. v \in Vectors
  BY <1>2, <1>3
<1> HIDE DEF v
<1>5. b = [a EXCEPT !.irr = @ \ {v}, !.isr = @ \cup {v}, !.sent = FALSE]
  BY DEF Acknowledge, v
<1> HIDE DEF b
<1>6. /\ b \in ApicState /\ b.sent = FALSE
      /\ b.irr = a.irr \ {v} /\ b.isr = a.isr \cup {v}
  BY <1>1, <1>4, <1>5 DEF ApicState
<1>7. ~Sendable(b)
  <2> SUFFICES ASSUME NEW u \in b.irr, \A w \in b.isr : w < u
               PROVE  FALSE
    BY DEF Sendable
  <2>1. v < u /\ u <= v
    BY <1>3, <1>6
  <2>2. u \in 1 .. 255 /\ v \in 1 .. 255
    BY <1>2, <1>4, <1>6, ApicAssumption
  <2>3. ~(v < u /\ u <= v)
    <3>1. u \in Int /\ v \in Int
      BY <2>2
    <3> QED
      BY <3>1
  <2> QED
    BY <2>1, <2>3
<1>8. Sound(b)
  BY <1>6, <1>7 DEF Sound, Nests, Alert
<1> QED
  BY <1>8 DEF b

LEMMA RemoteEoiType ==
  ASSUME NEW a \in ApicState, NEW v \in Vectors
  PROVE  /\ RemoteEoi(a, v) \in ApicState
         /\ RemoteEoi(a, v).irr = a.irr /\ RemoteEoi(a, v).isr = a.isr
         /\ RemoteEoi(a, v).tpr = a.tpr /\ RemoteEoi(a, v).sent = a.sent
<1> DEFINE e == [l \in IoLines |-> IF a.entry[l].vector = v
                                   THEN [a.entry[l] EXCEPT !.remote = FALSE] ELSE a.entry[l]]
<1>1. e \in [IoLines -> Entry]
  <2>1. \A l \in IoLines : a.entry[l] \in Entry
    BY DEF ApicState
  <2>2. \A x \in Entry : [x EXCEPT !.remote = FALSE] \in Entry
    BY DEF Entry
  <2> QED
    BY <2>1, <2>2
<1>2. RemoteEoi(a, v) = [a EXCEPT !.entry = e]
  BY DEF RemoteEoi
<1> HIDE DEF e
<1> QED
  BY <1>1, <1>2 DEF ApicState

LEMMA EndOfInterruptIsSound ==
  ASSUME NEW a, Sound(a)
  PROVE  Sound(EndOfInterrupt(a))
<1>1. CASE a.isr = {}
  BY <1>1 DEF EndOfInterrupt
<1>2. CASE a.isr # {}
  <2> DEFINE v == Max(a.isr)
             b == [a EXCEPT !.isr = @ \ {v}]
             c == IF v \in a.tmr THEN RemoteEoi(b, v) ELSE b
  <2>1. a \in ApicState
    BY DEF Sound
  <2>2. v \in Vectors
    <3>1. a.isr \in SUBSET Vectors
      BY <2>1 DEF ApicState
    <3> QED
      BY <1>2, <3>1, MaxIsHighest
  <2>3. EndOfInterrupt(a) = Send(c)
    BY <1>2 DEF EndOfInterrupt
  <2> HIDE DEF v
  <2>4. b \in ApicState /\ b.irr = a.irr /\ b.isr = a.isr \ {v} /\ b.sent = a.sent
    BY <2>1 DEF ApicState
  <2> HIDE DEF b
  <2>5. c \in ApicState /\ c.irr = a.irr /\ c.isr = a.isr \ {v} /\ c.sent = a.sent
    BY <2>2, <2>4, RemoteEoiType
  <2> HIDE DEF c
  <2>6. Nests(c)
    BY <2>5, NestsGrows DEF Sound
  <2> QED
    BY <2>3, <2>5, <2>6, SendIsSound
<1> QED
  BY <1>1, <1>2

LEMMA SetPriorityIsSound ==
  ASSUME NEW a, Sound(a), NEW t \in Nat
  PROVE  Sound(SetPriority(a, t))
<1> DEFINE b == [a EXCEPT !.tpr = t]
<1>1. b \in ApicState /\ b.irr = a.irr /\ b.isr = a.isr /\ b.sent = a.sent
  BY DEF Sound, ApicState
<1>2. SetPriority(a, t) = Send(b)
  BY DEF SetPriority
<1> HIDE DEF b
<1>3. Nests(b)
  BY <1>1, NestsGrows DEF Sound
<1> QED
  BY <1>1, <1>2, <1>3, SendIsSound

-----------------------------------------------------------------------------
(* The functions of ioapic.c.                                              *)

\* Whether every line that may send has a vector the guest gave it: the table
\* is masked after a reset.
Vectored(a) == \A l \in IoLines : ~a.entry[l].masked => a.entry[l].vector \in Vectors

LEMMA UpdateIsSound ==
  ASSUME NEW a, Sound(a), Vectored(a)
  PROVE  Sound(UpdateIo(a)) /\ UpdateIo(a).entry = a.entry
<1> DEFINE due == {l \in a.lines : ~a.entry[l].masked}
           new == {a.entry[l].vector : l \in due} \ a.irr
           levels == {v \in new : \E l \in due :
                                    /\ a.entry[l].vector = v /\ a.entry[l].level
                                    /\ \A k \in due : a.entry[k].vector = v => l <= k}
           b == [a EXCEPT !.lines = @ \ {l \in due : ~a.entry[l].level}]
           c == [b EXCEPT !.irr = @ \cup new, !.tmr = (@ \ new) \cup levels]
<1>1. a \in ApicState
  BY DEF Sound
<1>2. new \subseteq Vectors
  <2>1. \A l \in due : l \in IoLines
    BY <1>1 DEF ApicState
  <2> QED
    BY <2>1 DEF Vectored
<1>3. levels \subseteq new
  OBVIOUS
<1>4. UpdateIo(a) = IF new = {} THEN b ELSE Send(c)
  BY DEF UpdateIo
<1> HIDE DEF new, levels
<1>5. /\ b \in ApicState /\ b.entry = a.entry
      /\ b.irr = a.irr /\ b.isr = a.isr /\ b.tpr = a.tpr /\ b.sent = a.sent
  BY <1>1 DEF ApicState
<1> HIDE DEF b
<1>6. /\ c \in ApicState /\ c.entry = a.entry
      /\ c.irr = a.irr \cup new /\ c.isr = a.isr /\ c.sent = a.sent
  BY <1>2, <1>3, <1>5 DEF ApicState
<1> HIDE DEF c
<1>7. CASE new = {}
  BY <1>4, <1>5, <1>7, SameIsSound
<1>8. CASE new # {}
  <2>1. Nests(c)
    BY <1>6, NestsGrows DEF Sound
  <2>2. Sound(Send(c))
    BY <1>6, <2>1, SendIsSound
  <2>3. Send(c).entry = c.entry
    BY <1>6 DEF Send, ApicState
  <2> QED
    BY <1>4, <1>6, <1>8, <2>2, <2>3
<1> QED
  BY <1>7, <1>8

\* The entry of a line is replaced: nothing else is.
LEMMA EntryType ==
  ASSUME NEW a, Sound(a), NEW l \in IoLines, NEW e \in Entry
  PROVE  Sound([a EXCEPT !.entry[l] = e])
<1> DEFINE b == [a EXCEPT !.entry[l] = e]
<1>1. /\ b \in ApicState
      /\ b.irr = a.irr /\ b.isr = a.isr /\ b.tpr = a.tpr /\ b.sent = a.sent
  BY DEF Sound, ApicState
<1> HIDE DEF b
<1>2. Sound(b)
  BY <1>1, SameIsSound
<1> QED
  BY <1>2 DEF b

LEMMA RequestIsSound ==
  ASSUME NEW a, Sound(a), NEW l \in IoLines
  PROVE  Sound(Request(a, l)) /\ Request(a, l).entry = a.entry
<1> DEFINE b == Request(a, l)
<1>1. /\ b \in ApicState /\ b.entry = a.entry
      /\ b.irr = a.irr /\ b.isr = a.isr /\ b.tpr = a.tpr /\ b.sent = a.sent
  BY DEF Request, Sound, ApicState
<1> HIDE DEF b
<1>2. Sound(b)
  BY <1>1, SameIsSound
<1> QED
  BY <1>1, <1>2 DEF b

LEMMA RaiseLineIsSound ==
  ASSUME NEW a, Sound(a), Vectored(a), NEW l \in IoLines
  PROVE  Sound(RaiseIoLine(a, l)) /\ Vectored(RaiseIoLine(a, l))
<1> DEFINE b == Request(a, l)
           c == [b EXCEPT !.entry[l].remote = TRUE]
           e == [a.entry[l] EXCEPT !.remote = TRUE]
<1>1. Sound(b) /\ b.entry = a.entry
  BY RequestIsSound
<1>2. Sound(UpdateIo(b)) /\ Vectored(UpdateIo(b))
  BY <1>1, UpdateIsSound DEF Vectored
<1>3. Sound(c) /\ Vectored(c)
  <2>1. a.entry[l] \in Entry
    BY DEF Sound, ApicState
  <2>2. e \in Entry /\ e.vector = a.entry[l].vector /\ e.masked = a.entry[l].masked
    BY <2>1 DEF Entry
  <2>3. c = [b EXCEPT !.entry[l] = e]
    BY <1>1
  <2>4. Sound(c)
    BY <1>1, <2>2, <2>3, EntryType
  <2>5. c.entry = [a.entry EXCEPT ![l] = e]
    BY <1>1, <2>3 DEF Sound, ApicState
  <2>6. a.entry \in [IoLines -> Entry]
    BY DEF Sound, ApicState
  <2> QED
    BY <2>2, <2>4, <2>5, <2>6 DEF Vectored
<1>4. Sound(UpdateIo(c)) /\ Vectored(UpdateIo(c))
  BY <1>3, UpdateIsSound DEF Vectored
<1>5. a.entry[l].level \in BOOLEAN
  BY DEF Sound, ApicState, Entry
<1> HIDE DEF c
<1>6. CASE a.entry[l].level /\ a.entry[l].remote
  BY <1>6 DEF RaiseIoLine
<1>7. CASE a.entry[l].level /\ ~a.entry[l].remote
  BY <1>4, <1>7 DEF RaiseIoLine, c
<1>8. CASE ~a.entry[l].level
  BY <1>2, <1>8 DEF RaiseIoLine
<1> QED
  BY <1>5, <1>6, <1>7, <1>8

LEMMA LowerLineIsSound ==
  ASSUME NEW a, Sound(a), NEW l \in IoLines
  PROVE  Sound(LowerIoLine(a, l)) /\ LowerIoLine(a, l).entry = a.entry
<1> DEFINE b == LowerIoLine(a, l)
<1>1. /\ b \in ApicState /\ b.entry = a.entry
      /\ b.irr = a.irr /\ b.isr = a.isr /\ b.tpr = a.tpr /\ b.sent = a.sent
  BY DEF LowerIoLine, Sound, ApicState
<1> HIDE DEF b
<1>2. Sound(b)
  BY <1>1, SameIsSound
<1> QED
  BY <1>1, <1>2 DEF b

LEMMA WriteEntryIsSound ==
  ASSUME NEW a, Sound(a), Vectored(a),
         NEW l \in IoLines, NEW w \in EntryWrites, NEW remote \in BOOLEAN
  PROVE  Sound(WriteEntry(a, l, w, remote)) /\ Vectored(WriteEntry(a, l, w, remote))
<1> DEFINE e == [vector |-> w.vector, masked |-> w.masked,
                 level |-> w.level, remote |-> remote]
           b == [a EXCEPT !.entry[l] = e]
<1>1. e \in Entry /\ e.vector \in Vectors
  BY DEF Entry, EntryWrites
<1>2. WriteEntry(a, l, w, remote) = IF e = a.entry[l] THEN a ELSE UpdateIo(b)
  BY DEF WriteEntry
<1> HIDE DEF e
<1>3. Sound(b)
  BY <1>1, EntryType
<1>4. Vectored(b)
  <2>1. b.entry = [a.entry EXCEPT ![l] = e]
    BY DEF Sound, ApicState
  <2>2. a.entry \in [IoLines -> Entry]
    BY DEF Sound, ApicState
  <2> QED
    BY <1>1, <2>1, <2>2 DEF Vectored
<1> HIDE DEF b
<1>5. Sound(UpdateIo(b)) /\ Vectored(UpdateIo(b))
  BY <1>3, <1>4, UpdateIsSound DEF Vectored
<1> QED
  BY <1>2, <1>5

LEMMA ResetApicIsSound ==
  ASSUME NEW a, Sound(a)
  PROVE  Sound(ResetApic(a)) /\ Vectored(ResetApic(a))
<1> DEFINE t == [l \in IoLines |-> MaskedEntry]
           b == ResetApic(a)
<1>1. t \in [IoLines -> Entry] /\ \A l \in IoLines : t[l].masked
  BY DEF MaskedEntry, Entry
<1>2. b = [a EXCEPT !.entry = t]
  BY DEF ResetApic
<1> HIDE DEF t, b
<1>3. /\ b \in ApicState /\ b.entry = t
      /\ b.irr = a.irr /\ b.isr = a.isr /\ b.tpr = a.tpr /\ b.sent = a.sent
  BY <1>1, <1>2 DEF Sound, ApicState
<1>4. Sound(b)
  BY <1>3, SameIsSound
<1>5. Vectored(b)
  BY <1>1, <1>3 DEF Vectored
<1> QED
  BY <1>4, <1>5 DEF b

-----------------------------------------------------------------------------

\* The functions of the local APIC leave the vectors and masks of the table.
LEMMA TableIsKept ==
  ASSUME NEW a, Sound(a), Vectored(a)
  PROVE  /\ \A v, level : Vectored(Receive(a, v, level))
         /\ a.sent => Vectored(Acknowledge(a))
         /\ Vectored(EndOfInterrupt(a))
         /\ \A t : Vectored(SetPriority(a, t))
<1>1. a \in ApicState
  BY DEF Sound
<1>2. ASSUME NEW b, DOMAIN b = DOMAIN a, Vectored(b)
      PROVE  Vectored(Send(b))
  BY <1>1, <1>2 DEF Send, Vectored, ApicState
<1>3. ASSUME NEW v, NEW level
      PROVE  Vectored(Receive(a, v, level))
  <2> DEFINE b == [a EXCEPT !.irr = @ \cup {v},
                            !.tmr = IF level THEN @ \cup {v} ELSE @ \ {v}]
  <2>1. DOMAIN b = DOMAIN a /\ b.entry = a.entry
    BY <1>1 DEF ApicState
  <2>2. Receive(a, v, level) = IF v \in a.irr THEN a ELSE Send(b)
    BY DEF Receive
  <2> HIDE DEF b
  <2> QED
    BY <1>2, <2>1, <2>2 DEF Vectored
<1>4. Vectored(Acknowledge(a))
  <2>1. Acknowledge(a).entry = a.entry
    BY <1>1 DEF Acknowledge, ApicState
  <2> QED
    BY <2>1 DEF Vectored
<1>5. Vectored(EndOfInterrupt(a))
  <2> DEFINE v == Max(a.isr)
             b == [a EXCEPT !.isr = @ \ {v}]
             c == IF v \in a.tmr THEN RemoteEoi(b, v) ELSE b
  <2>1. EndOfInterrupt(a) = IF a.isr = {} THEN a ELSE Send(c)
    BY DEF EndOfInterrupt
  <2> HIDE DEF v
  <2>2. DOMAIN b = DOMAIN a /\ b.entry = a.entry
    BY <1>1 DEF ApicState
  <2> HIDE DEF b
  <2>3. /\ DOMAIN RemoteEoi(b, v) = DOMAIN a
        /\ Vectored(RemoteEoi(b, v))
    <3>1. \A l \in IoLines : a.entry[l] \in Entry
      BY <1>1 DEF ApicState
    <3>2. \A x \in Entry : /\ [x EXCEPT !.remote = FALSE].masked = x.masked
                           /\ [x EXCEPT !.remote = FALSE].vector = x.vector
      BY DEF Entry
    <3> DEFINE f == [l \in IoLines |-> IF b.entry[l].vector = v
                       THEN [b.entry[l] EXCEPT !.remote = FALSE] ELSE b.entry[l]]
    <3>3. RemoteEoi(b, v) = [b EXCEPT !.entry = f]
      BY DEF RemoteEoi
    <3>4. \A l \in IoLines : f[l].masked = a.entry[l].masked /\ f[l].vector = a.entry[l].vector
      BY <2>2, <3>1, <3>2
    <3> HIDE DEF f
    <3>5. DOMAIN RemoteEoi(b, v) = DOMAIN a /\ RemoteEoi(b, v).entry = f
      BY <1>1, <2>2, <3>3 DEF ApicState
    <3> QED
      BY <3>4, <3>5 DEF Vectored
  <2>4. DOMAIN c = DOMAIN a /\ Vectored(c)
    BY <2>2, <2>3 DEF Vectored
  <2> HIDE DEF c
  <2> QED
    BY <1>2, <2>1, <2>4
<1>6. ASSUME NEW t
      PROVE  Vectored(SetPriority(a, t))
  <2> DEFINE b == [a EXCEPT !.tpr = t]
  <2>1. DOMAIN b = DOMAIN a /\ b.entry = a.entry
    BY <1>1 DEF ApicState
  <2>2. SetPriority(a, t) = Send(b)
    BY DEF SetPriority
  <2> HIDE DEF b
  <2> QED
    BY <1>2, <2>1, <2>2 DEF Vectored
<1> QED
  BY <1>3, <1>4, <1>5, <1>6

ApicInv == Sound(apic) /\ Vectored(apic)

\* The machine starts sound.
LEMMA InitIsSound == ApicInit => ApicInv
<1> SUFFICES ASSUME ApicInit PROVE ApicInv
  OBVIOUS
<1> DEFINE t == [l \in IoLines |-> MaskedEntry]
<1>1. t \in [IoLines -> Entry] /\ \A l \in IoLines : t[l].masked
  BY DEF MaskedEntry, Entry
<1>2. apic = [irr |-> {}, isr |-> {}, tmr |-> {}, tpr |-> 0, sent |-> FALSE,
              pins |-> {}, lines |-> {}, entry |-> t]
  BY DEF ApicInit, ApicPowerOn
<1> HIDE DEF t
<1>3. apic \in ApicState /\ ~Sendable(apic)
  BY <1>1, <1>2 DEF ApicState, Sendable
<1> QED
  BY <1>1, <1>2, <1>3 DEF ApicInv, Sound, Nests, Alert, Vectored

\* Every step of the guest and of the devices keeps the invariant.
LEMMA StepIsSound == ApicInv /\ [ApicNext]_apic => ApicInv'
<1> SUFFICES ASSUME ApicInv, [ApicNext]_apic PROVE ApicInv'
  OBVIOUS
<1> USE DEF ApicInv
<1>1. ASSUME NEW l \in IoLines, RaiseIo(l) PROVE ApicInv'
  BY <1>1, RaiseLineIsSound DEF RaiseIo
<1>2. ASSUME NEW l \in IoLines, LowerIo(l) PROVE ApicInv'
  BY <1>2, LowerLineIsSound DEF LowerIo, Vectored
<1>3. ASSUME NEW l \in IoLines, Program(l) PROVE ApicInv'
  <2>1. PICK w \in Entries[l], remote \in {FALSE, apic.entry[l].remote} :
           apic' = WriteEntry(apic, l, w, remote)
    BY <1>3 DEF Program
  <2>2. w \in EntryWrites
    BY ApicAssumption
  <2>3. remote \in BOOLEAN
    BY DEF Sound, ApicState, Entry
  <2> QED
    BY <2>1, <2>2, <2>3, WriteEntryIsSound
<1>4. ASSUME NEW v \in OwnVectors, Own(v) PROVE ApicInv'
  BY <1>4, ApicAssumption, ReceiveIsSound, TableIsKept DEF Own
<1>5. CASE Accept
  BY <1>5, AcknowledgeIsSound, TableIsKept DEF Accept
<1>6. CASE Eoi
  BY <1>6, EndOfInterruptIsSound, TableIsKept DEF Eoi
<1>7. CASE Tpr
  BY <1>7, ApicAssumption, SetPriorityIsSound, TableIsKept DEF Tpr
<1>8. CASE Restart
  BY <1>8, ResetApicIsSound DEF Restart
<1>9. CASE UNCHANGED apic
  BY <1>9
<1> QED
  BY <1>1, <1>2, <1>3, <1>4, <1>5, <1>6, <1>7, <1>8, <1>9 DEF ApicNext

LEMMA InvariantHolds == ApicSpec => []ApicInv
  BY InitIsSound, StepIsSound, PTL DEF ApicSpec

-----------------------------------------------------------------------------

\* The registers keep their type in every reachable state: the vectors the
\* I/O APIC sends are vectors of the table, also after a reset, when every
\* entry has the illegal vector 0 and only its mask keeps it from being sent.
THEOREM ApicTypeCorrect == ApicSpec => []ApicTypeOK
<1>1. ApicInv => ApicTypeOK
  BY DEF ApicInv, Sound, ApicTypeOK
<1> QED
  BY <1>1, InvariantHolds, PTL

\* No acceptance is spurious: apic_get_interrupt always finds a vector that
\* outranks what is in service, however late the CPU asks.
THEOREM NeverSpuriousHolds == ApicSpec => []NeverSpurious
<1>1. ApicInv => NeverSpurious
  BY DEF ApicInv, Sound, Nests, NeverSpurious
<1> QED
  BY <1>1, InvariantHolds, PTL

\* Whatever may be served has raised INTR: no order of requests, acceptances,
\* ends, priority writes, table writes and resets leaves one waiting unseen.
THEOREM NothingWaitsHolds == ApicSpec => []NothingWaits
<1>1. ApicInv => NothingWaits
  BY DEF ApicInv, Sound, Alert, NothingWaits
<1> QED
  BY <1>1, InvariantHolds, PTL

-----------------------------------------------------------------------------
(* The end of level interrupts.                                            *)

\* The vectors of level lines.
LevelVectors ==
  {v \in Vectors : \E l \in IoLines : \E w \in Entries[l] : w.level /\ w.vector = v}

\* Edge lines and the processor's own interrupts have vectors of their own.
Unshared ==
  /\ OwnVectors \cap LevelVectors = {}
  /\ \A l \in IoLines : \A w \in Entries[l] : ~w.level => w.vector \notin LevelVectors

\* The table is the guest's: level lines have the vectors of level lines, and
\* edge lines no Remote IRR.
Tabled(a) ==
  \A l \in IoLines :
    /\ a.entry[l].level <=> a.entry[l].vector \in LevelVectors
    /\ a.entry[l].remote => a.entry[l].level

\* What is requested or served on a level line's vector is known as level
\* triggered, so that its end reaches the I/O APIC.
Known(a) == (a.irr \cup a.isr) \cap LevelVectors \subseteq a.tmr

\* RemoteEnds of a state, without the trigger mode.
Held(a) ==
  \A l \in IoLines :
    a.entry[l].remote => \/ l \in a.lines /\ a.entry[l].masked
                         \/ a.entry[l].vector \in a.irr \cup a.isr

Ending(a) == Tabled(a) /\ Known(a) /\ Held(a)

LEMMA SameEnding ==
  ASSUME NEW a, NEW b, Ending(a), b.entry = a.entry, b.lines = a.lines,
         b.irr = a.irr, b.isr = a.isr, b.tmr = a.tmr
  PROVE  Ending(b)
  BY DEF Ending, Tabled, Known, Held

LEMMA SendEnding ==
  ASSUME NEW a \in ApicState, Ending(a)
  PROVE  Ending(Send(a))
<1>1. PICK b : b = Send(a)
  OBVIOUS
<1>2. /\ b.entry = a.entry /\ b.lines = a.lines
      /\ b.irr = a.irr /\ b.isr = a.isr /\ b.tmr = a.tmr
  BY <1>1 DEF Send, ApicState
<1> QED
  BY <1>1, <1>2, SameEnding

\* Of some lines one comes first.
LEMMA FirstLine ==
  ASSUME NEW S \in SUBSET IoLines, S # {}
  PROVE  \E l \in S : \A k \in S : l <= k
<1> DEFINE R == {ss \in Nat \X Nat : ss[1] < ss[2]}
<1>1. S \subseteq Nat
  BY ApicAssumption
<1>2. IsWellFoundedOn(R, Nat)
  <2>1. R = OpToRel(<, Nat)
    BY DEF OpToRel
  <2> QED
    BY <2>1, NatLessThanWellFounded
<1>3. \A x, y \in Nat : x < y => <<x, y>> \in R
  OBVIOUS
<1> HIDE DEF R
<1>4. PICK l \in S : \A k \in S : ~(<<k, l>> \in R)
  BY <1>1, <1>2, WFMin
<1>5. \A k \in S : ~(k < l)
  BY <1>1, <1>3, <1>4
<1>6. \A k \in S : l <= k
  BY <1>1, <1>5
<1> QED
  BY <1>6

\* An update sends what is due, and knows the level triggered vectors as such.
LEMMA UpdateEnding ==
  ASSUME NEW a, Sound(a), Vectored(a), Tabled(a), Known(a),
         \A l \in IoLines : a.entry[l].remote =>
           l \in a.lines \/ a.entry[l].vector \in a.irr \cup a.isr
  PROVE  Ending(UpdateIo(a))
<1> DEFINE due == {l \in a.lines : ~a.entry[l].masked}
           new == {a.entry[l].vector : l \in due} \ a.irr
           levels == {v \in new : \E l \in due :
                                    /\ a.entry[l].vector = v /\ a.entry[l].level
                                    /\ \A k \in due : a.entry[k].vector = v => l <= k}
           b == [a EXCEPT !.lines = @ \ {l \in due : ~a.entry[l].level}]
           c == [b EXCEPT !.irr = @ \cup new, !.tmr = (@ \ new) \cup levels]
<1>1. a \in ApicState
  BY DEF Sound
<1>2. due \in SUBSET IoLines
  BY <1>1 DEF ApicState
<1>3. new \subseteq Vectors
  BY <1>2 DEF Vectored
<1>4. levels \subseteq new
  OBVIOUS
<1>5. new \cap LevelVectors \subseteq levels
  <2> SUFFICES ASSUME NEW v \in new, v \in LevelVectors PROVE v \in levels
    OBVIOUS
  <2> DEFINE asking == {l \in due : a.entry[l].vector = v}
  <2>1. asking # {} /\ asking \in SUBSET IoLines
    BY <1>2
  <2>2. PICK l \in asking : \A k \in asking : l <= k
    BY <2>1, FirstLine
  <2>3. a.entry[l].level
    BY <1>2, <2>2 DEF Tabled
  <2> QED
    BY <2>2, <2>3
<1>6. \A l \in due : a.entry[l].vector \in a.irr \cup new
  OBVIOUS
<1>7. UpdateIo(a) = IF new = {} THEN b ELSE Send(c)
  BY DEF UpdateIo
<1>8. \A l \in IoLines : l \in a.lines /\ l \notin due => a.entry[l].masked
  BY <1>1 DEF ApicState, Entry
<1> HIDE DEF new, levels
<1>9. /\ b \in ApicState /\ b.entry = a.entry
      /\ b.lines = a.lines \ {l \in due : ~a.entry[l].level}
      /\ b.irr = a.irr /\ b.isr = a.isr /\ b.tmr = a.tmr
  BY <1>1 DEF ApicState
<1> HIDE DEF b
<1>10. /\ c \in ApicState /\ c.entry = a.entry /\ c.lines = b.lines
       /\ c.irr = a.irr \cup new /\ c.isr = a.isr
       /\ c.tmr = (a.tmr \ new) \cup levels
  BY <1>3, <1>4, <1>9 DEF ApicState
<1> HIDE DEF c
<1>11. ASSUME NEW d, d.entry = a.entry, d.lines = b.lines,
              d.irr = a.irr \cup new, d.isr = a.isr
       PROVE  Tabled(d) /\ Held(d)
  <2>1. Tabled(d)
    BY <1>11 DEF Tabled
  <2>2. ASSUME NEW l \in IoLines, a.entry[l].remote
        PROVE  \/ l \in b.lines /\ a.entry[l].masked
               \/ a.entry[l].vector \in a.irr \cup new \cup a.isr
    <3>1. CASE a.entry[l].vector \in a.irr \cup a.isr
      BY <3>1
    <3>2. CASE l \in due
      BY <1>6, <3>2
    <3>3. CASE l \in a.lines /\ l \notin due
      BY <1>8, <1>9, <3>3
    <3> QED
      BY <2>2, <3>1, <3>2, <3>3
  <2>3. Held(d)
    BY <1>11, <2>2 DEF Held
  <2> QED
    BY <2>1, <2>3
<1>12. CASE new = {}
  <2>1. b.irr = a.irr \cup new
    BY <1>9, <1>12
  <2>2. Known(b)
    BY <1>9 DEF Known
  <2> QED
    BY <1>7, <1>9, <1>11, <1>12, <2>1, <2>2 DEF Ending
<1>13. CASE new # {}
  <2>1. Known(c)
    BY <1>5, <1>10 DEF Known
  <2>2. Ending(c)
    BY <1>10, <1>11, <2>1 DEF Ending
  <2> QED
    BY <1>7, <1>10, <1>13, <2>2, SendEnding
<1> QED
  BY <1>12, <1>13

LEMMA ReceiveEnding ==
  ASSUME NEW a, Sound(a), Ending(a), NEW v \in Vectors \ LevelVectors, NEW level \in BOOLEAN
  PROVE  Ending(Receive(a, v, level))
<1>1. PICK b : b = [a EXCEPT !.irr = @ \cup {v},
                             !.tmr = IF level THEN @ \cup {v} ELSE @ \ {v}]
  OBVIOUS
<1>2. /\ b \in ApicState /\ b.entry = a.entry /\ b.lines = a.lines
      /\ b.irr = a.irr \cup {v} /\ b.isr = a.isr /\ b.tmr \in {a.tmr \cup {v}, a.tmr \ {v}}
  BY <1>1 DEF Sound, ApicState
<1>3. Known(b)
  BY <1>2 DEF Ending, Known
<1>4. Tabled(b)
  BY <1>2 DEF Ending, Tabled
<1>5. Held(b)
  BY <1>2 DEF Ending, Held
<1>6. Receive(a, v, level) = IF v \in a.irr THEN a ELSE Send(b)
  BY <1>1 DEF Receive
<1>7. Ending(Send(b))
  BY <1>2, <1>3, <1>4, <1>5, SendEnding DEF Ending
<1> QED
  BY <1>6, <1>7

LEMMA AcknowledgeEnding ==
  ASSUME NEW a, Sound(a), a.sent, Ending(a)
  PROVE  Ending(Acknowledge(a))
<1>1. PICK v : v = Max(a.irr)
  OBVIOUS
<1>2. a \in ApicState /\ a.irr \in SUBSET Vectors /\ a.irr # {}
  BY DEF Sound, Nests, ApicState
<1>3. v \in a.irr
  BY <1>1, <1>2, MaxIsHighest
<1>4. PICK b : b = Acknowledge(a)
  OBVIOUS
<1>5. /\ b.entry = a.entry /\ b.lines = a.lines /\ b.tmr = a.tmr
      /\ b.irr = a.irr \ {v} /\ b.isr = a.isr \cup {v}
  BY <1>1, <1>2, <1>4 DEF Acknowledge, ApicState
<1>6. b.irr \cup b.isr = a.irr \cup a.isr
  BY <1>3, <1>5
<1>7. Ending(b)
  BY <1>5, <1>6 DEF Ending, Tabled, Known, Held
<1> QED
  BY <1>4, <1>7

\* The lines whose vector has ended may ask again; the others are as they were.
LEMMA RemoteEoiEnds ==
  ASSUME NEW a \in ApicState, NEW v \in Vectors, NEW b, b = RemoteEoi(a, v)
  PROVE  /\ b.lines = a.lines /\ b.tmr = a.tmr
         /\ \A l \in IoLines :
              /\ b.entry[l].level = a.entry[l].level
              /\ b.entry[l].vector = a.entry[l].vector
              /\ b.entry[l].masked = a.entry[l].masked
              /\ b.entry[l].remote <=> a.entry[l].remote /\ a.entry[l].vector # v
<1>1. PICK e : e = [l \in IoLines |-> IF a.entry[l].vector = v
                                      THEN [a.entry[l] EXCEPT !.remote = FALSE]
                                      ELSE a.entry[l]]
  OBVIOUS
<1>2. \A l \in IoLines : a.entry[l] \in Entry
  BY DEF ApicState
<1>3. \A x \in Entry : /\ [x EXCEPT !.remote = FALSE].masked = x.masked
                       /\ [x EXCEPT !.remote = FALSE].vector = x.vector
                       /\ [x EXCEPT !.remote = FALSE].level = x.level
                       /\ ~[x EXCEPT !.remote = FALSE].remote
  BY DEF Entry
<1>4. \A l \in IoLines :
        /\ e[l].level = a.entry[l].level
        /\ e[l].vector = a.entry[l].vector
        /\ e[l].masked = a.entry[l].masked
        /\ e[l].remote <=> a.entry[l].remote /\ a.entry[l].vector # v
  BY <1>1, <1>2, <1>3
<1>5. b = [a EXCEPT !.entry = e]
  BY <1>1 DEF RemoteEoi
<1>6. b.entry = e /\ b.lines = a.lines /\ b.tmr = a.tmr
  BY <1>5 DEF ApicState
<1> QED
  BY <1>4, <1>6

LEMMA EndOfInterruptEnding ==
  ASSUME NEW a, Sound(a), Ending(a)
  PROVE  Ending(EndOfInterrupt(a))
<1>1. CASE a.isr = {}
  BY <1>1 DEF EndOfInterrupt
<1>2. CASE a.isr # {}
  <2>1. PICK v : v = Max(a.isr)
    OBVIOUS
  <2>2. PICK b : b = [a EXCEPT !.isr = @ \ {v}]
    OBVIOUS
  <2>3. PICK c : c = IF v \in a.tmr THEN RemoteEoi(b, v) ELSE b
    OBVIOUS
  <2>4. EndOfInterrupt(a) = Send(c)
    BY <1>2, <2>1, <2>2, <2>3 DEF EndOfInterrupt
  <2>5. a \in ApicState
    BY DEF Sound
  <2>6. v \in a.isr /\ v \in Vectors
    <3>1. a.isr \in SUBSET Vectors
      BY <2>5 DEF ApicState
    <3> QED
      BY <1>2, <2>1, <3>1, MaxIsHighest
  <2>7. /\ b \in ApicState /\ b.entry = a.entry /\ b.lines = a.lines
        /\ b.irr = a.irr /\ b.isr = a.isr \ {v} /\ b.tmr = a.tmr
    BY <2>2, <2>5 DEF ApicState
  <2>8. CASE v \in a.tmr
    <3>1. c = RemoteEoi(b, v)
      BY <2>3, <2>8
    <3>2. c \in ApicState /\ c.irr = a.irr /\ c.isr = a.isr \ {v}
      BY <2>6, <2>7, <3>1, RemoteEoiType
    <3>3. /\ c.lines = a.lines /\ c.tmr = a.tmr
          /\ \A l \in IoLines :
               /\ c.entry[l].level = a.entry[l].level
               /\ c.entry[l].vector = a.entry[l].vector
               /\ c.entry[l].masked = a.entry[l].masked
               /\ c.entry[l].remote <=> a.entry[l].remote /\ a.entry[l].vector # v
      BY <2>6, <2>7, <3>1, RemoteEoiEnds
    <3>4. Tabled(c)
      BY <3>3 DEF Ending, Tabled
    <3>5. Known(c)
      BY <3>2, <3>3 DEF Ending, Known
    <3>6. Held(c)
      BY <3>2, <3>3 DEF Ending, Held
    <3> QED
      BY <2>4, <3>2, <3>4, <3>5, <3>6, SendEnding DEF Ending
  <2>9. CASE v \notin a.tmr
    <3>1. c = b
      BY <2>3, <2>9
    <3>2. v \notin LevelVectors
      BY <2>6, <2>9 DEF Ending, Known
    <3>3. Tabled(c)
      BY <2>7, <3>1 DEF Ending, Tabled
    <3>4. Known(c)
      BY <2>7, <3>1 DEF Ending, Known
    <3>5. \A l \in IoLines : a.entry[l].remote => a.entry[l].vector # v
      BY <3>2 DEF Ending, Tabled
    <3>6. Held(c)
      BY <2>7, <3>1, <3>5 DEF Ending, Held
    <3> QED
      BY <2>4, <2>7, <3>1, <3>3, <3>4, <3>6, SendEnding DEF Ending
  <2> QED
    BY <2>8, <2>9
<1> QED
  BY <1>1, <1>2

LEMMA SetPriorityEnding ==
  ASSUME NEW a, Sound(a), Ending(a), NEW t \in Nat
  PROVE  Ending(SetPriority(a, t))
<1>1. PICK b : b = [a EXCEPT !.tpr = t]
  OBVIOUS
<1>2. /\ b \in ApicState /\ b.entry = a.entry /\ b.lines = a.lines
      /\ b.irr = a.irr /\ b.isr = a.isr /\ b.tmr = a.tmr
  BY <1>1 DEF Sound, ApicState
<1>3. Ending(b)
  BY <1>2, SameEnding
<1> QED
  BY <1>1, <1>2, <1>3, SendEnding DEF SetPriority

\* A level line that asks is either sent or, masked, goes on asking.
LEMMA RaiseLineEnding ==
  ASSUME NEW a, Sound(a), Vectored(a), Ending(a), NEW l \in IoLines
  PROVE  Ending(RaiseIoLine(a, l))
<1>1. PICK b : b = Request(a, l)
  OBVIOUS
<1>2. PICK e : e = [a.entry[l] EXCEPT !.remote = TRUE]
  OBVIOUS
<1>3. a \in ApicState /\ a.entry[l] \in Entry
  BY DEF Sound, ApicState
<1>4. /\ Sound(b) /\ b \in ApicState /\ b.entry = a.entry
      /\ b.lines = a.lines \cup {l} /\ b.tmr = a.tmr
      /\ b.irr = a.irr /\ b.isr = a.isr
  BY <1>1, <1>3, RequestIsSound DEF Request, ApicState, Sound
<1>5. /\ e \in Entry /\ e.vector = a.entry[l].vector /\ e.masked = a.entry[l].masked
      /\ e.level = a.entry[l].level /\ e.remote
  BY <1>2, <1>3 DEF Entry
<1>6. ASSUME a.entry[l].level
      PROVE  Ending(UpdateIo([b EXCEPT !.entry[l].remote = TRUE]))
  <2>1. PICK c : c = [b EXCEPT !.entry[l] = e]
    OBVIOUS
  <2>2. c = [b EXCEPT !.entry[l].remote = TRUE]
    BY <1>2, <1>4, <2>1
  <2>3. Sound(c)
    BY <1>4, <1>5, <2>1, EntryType
  <2>4. /\ c.entry = [a.entry EXCEPT ![l] = e] /\ c.lines = a.lines \cup {l}
        /\ c.tmr = a.tmr /\ c.irr = a.irr /\ c.isr = a.isr
    BY <1>4, <2>1 DEF ApicState
  <2>5. /\ c.entry[l] = e
        /\ \A k \in IoLines \ {l} : c.entry[k] = a.entry[k]
    BY <1>3, <2>4 DEF ApicState
  <2>6. Vectored(c)
    BY <1>5, <2>5 DEF Vectored
  <2>7. Tabled(c)
    BY <1>5, <1>6, <2>5 DEF Ending, Tabled
  <2>8. Known(c)
    BY <2>4 DEF Ending, Known
  <2>9. \A k \in IoLines : c.entry[k].remote =>
          k \in c.lines \/ c.entry[k].vector \in c.irr \cup c.isr
    BY <2>4, <2>5 DEF Ending, Held
  <2> QED
    BY <2>2, <2>3, <2>6, <2>7, <2>8, <2>9, UpdateEnding
<1>7. Ending(UpdateIo(b))
  <2>1. Vectored(b)
    BY <1>4 DEF Vectored
  <2>2. Tabled(b)
    BY <1>4 DEF Ending, Tabled
  <2>3. Known(b)
    BY <1>4 DEF Ending, Known
  <2>4. \A k \in IoLines : b.entry[k].remote =>
          k \in b.lines \/ b.entry[k].vector \in b.irr \cup b.isr
    BY <1>4 DEF Ending, Held
  <2> QED
    BY <1>4, <2>1, <2>2, <2>3, <2>4, UpdateEnding
<1>8. a.entry[l].level \in BOOLEAN
  BY <1>3 DEF Entry
<1>9. CASE a.entry[l].level /\ a.entry[l].remote
  BY <1>9 DEF RaiseIoLine
<1>10. CASE a.entry[l].level /\ ~a.entry[l].remote
  BY <1>1, <1>6, <1>10 DEF RaiseIoLine
<1>11. CASE ~a.entry[l].level
  BY <1>1, <1>7, <1>11 DEF RaiseIoLine
<1> QED
  BY <1>8, <1>9, <1>10, <1>11

\* A level line is lowered once its vector is served.
LEMMA LowerLineEnding ==
  ASSUME NEW a, Sound(a), Ending(a), NEW l \in IoLines,
         a.entry[l].level => a.entry[l].vector \in a.isr
  PROVE  Ending(LowerIoLine(a, l))
<1>1. PICK b : b = LowerIoLine(a, l)
  OBVIOUS
<1>2. /\ b.entry = a.entry /\ b.tmr = a.tmr /\ b.irr = a.irr /\ b.isr = a.isr
      /\ b.lines = IF a.entry[l].level THEN a.lines \ {l} ELSE a.lines
  BY <1>1 DEF LowerIoLine, Sound, ApicState
<1>3. Tabled(b)
  BY <1>2 DEF Ending, Tabled
<1>4. Known(b)
  BY <1>2 DEF Ending, Known
<1>5. \A k \in IoLines : k \in a.lines => k \in b.lines \/ a.entry[k].vector \in a.isr
  BY <1>2
<1>6. Held(b)
  BY <1>2, <1>5 DEF Ending, Held
<1> QED
  BY <1>1, <1>3, <1>4, <1>6 DEF Ending

\* An entry written with Remote IRR clear, of the line's own kind.
LEMMA WriteEntryEnding ==
  ASSUME NEW a, Sound(a), Vectored(a), Ending(a),
         NEW l \in IoLines, NEW w \in EntryWrites,
         w.level <=> w.vector \in LevelVectors
  PROVE  Ending(WriteEntry(a, l, w, FALSE))
<1>1. PICK e : e = [vector |-> w.vector, masked |-> w.masked,
                    level |-> w.level, remote |-> FALSE]
  OBVIOUS
<1>2. PICK b : b = [a EXCEPT !.entry[l] = e]
  OBVIOUS
<1>3. WriteEntry(a, l, w, FALSE) = IF e = a.entry[l] THEN a ELSE UpdateIo(b)
  BY <1>1, <1>2 DEF WriteEntry
<1>4. /\ e \in Entry /\ e.vector \in Vectors /\ ~e.remote
      /\ e.level <=> e.vector \in LevelVectors
  BY <1>1 DEF Entry, EntryWrites
<1>5. Sound(b)
  BY <1>2, <1>4, EntryType
<1>6. /\ b.entry = [a.entry EXCEPT ![l] = e] /\ b.lines = a.lines
      /\ b.tmr = a.tmr /\ b.irr = a.irr /\ b.isr = a.isr
  BY <1>2 DEF Sound, ApicState
<1>7. b.entry[l] = e /\ \A k \in IoLines \ {l} : b.entry[k] = a.entry[k]
  BY <1>6 DEF Sound, ApicState
<1>8. Vectored(b)
  BY <1>4, <1>7 DEF Vectored
<1>9. Tabled(b)
  BY <1>4, <1>7 DEF Ending, Tabled
<1>10. Known(b)
  BY <1>6 DEF Ending, Known
<1>11. \A k \in IoLines : b.entry[k].remote =>
         k \in b.lines \/ b.entry[k].vector \in b.irr \cup b.isr
  BY <1>4, <1>6, <1>7 DEF Ending, Held
<1> QED
  BY <1>3, <1>5, <1>8, <1>9, <1>10, <1>11, UpdateEnding

\* A reset masks every line and clears its Remote IRR.
LEMMA ResetApicEnding ==
  ASSUME NEW a, Sound(a), Ending(a)
  PROVE  Ending(ResetApic(a))
<1>1. PICK b : b = ResetApic(a)
  OBVIOUS
<1>2. PICK t : t = [l \in IoLines |-> MaskedEntry]
  OBVIOUS
<1>3. \A l \in IoLines : ~t[l].level /\ ~t[l].remote /\ t[l].vector = 0
  BY <1>2 DEF MaskedEntry
<1>4. b = [a EXCEPT !.entry = t]
  BY <1>1, <1>2 DEF ResetApic
<1>5. b.entry = t /\ b.tmr = a.tmr /\ b.irr = a.irr /\ b.isr = a.isr
  BY <1>4 DEF Sound, ApicState
<1>6. 0 \notin LevelVectors
  BY ApicAssumption DEF LevelVectors
<1>7. Tabled(b)
  BY <1>3, <1>5, <1>6 DEF Tabled
<1>8. Known(b)
  BY <1>5 DEF Ending, Known
<1>9. Held(b)
  BY <1>3, <1>5 DEF Held
<1> QED
  BY <1>1, <1>7, <1>8, <1>9 DEF Ending

\* What the guest may write to a line's entry is of the line's own kind.
LEMMA WritesAreTabled ==
  ASSUME Unshared, NEW l \in IoLines, NEW w \in Entries[l]
  PROVE  w \in EntryWrites /\ (w.level <=> w.vector \in LevelVectors)
<1>1. w \in EntryWrites
  BY ApicAssumption
<1>2. w.vector \in Vectors /\ w.level \in BOOLEAN
  BY <1>1 DEF EntryWrites
<1>3. w.level => w.vector \in LevelVectors
  BY <1>2 DEF LevelVectors
<1>4. ~w.level => w.vector \notin LevelVectors
  BY DEF Unshared
<1> QED
  BY <1>1, <1>2, <1>3, <1>4

\* Careful guests and devices leave no line without an end ahead.
LEMMA StepEnding ==
  ASSUME Careful, Unshared, ApicInv, Ending(apic), [ApicNext]_apic
  PROVE  Ending(apic')
<1>0. Sound(apic) /\ Vectored(apic)
  BY DEF ApicInv
<1>1. ASSUME NEW l \in IoLines, RaiseIo(l) PROVE Ending(apic')
  BY <1>0, <1>1, RaiseLineEnding DEF RaiseIo
<1>2. ASSUME NEW l \in IoLines, LowerIo(l) PROVE Ending(apic')
  BY <1>0, <1>2, LowerLineEnding DEF LowerIo
<1>3. ASSUME NEW l \in IoLines, Program(l) PROVE Ending(apic')
  <2>1. PICK w \in Entries[l], remote \in {FALSE, apic.entry[l].remote} :
          /\ (apic.entry[l].level \/ w.level) => ~InFlight(l)
          /\ apic' = WriteEntry(apic, l, w, remote)
    BY <1>3 DEF Program
  <2>2. apic.entry[l].remote \in BOOLEAN
    BY <1>0 DEF Sound, ApicState, Entry
  <2>3. remote = FALSE
    <3>1. CASE apic.entry[l].level \/ w.level
      BY <2>1, <2>2, <3>1 DEF InFlight
    <3>2. CASE ~apic.entry[l].level
      <4>1. ~apic.entry[l].remote
        BY <3>2 DEF Ending, Tabled
      <4> QED
        BY <2>1, <2>2, <4>1
    <3> QED
      BY <3>1, <3>2
  <2>4. apic' = WriteEntry(apic, l, w, FALSE)
    BY <2>1, <2>3
  <2>5. w \in EntryWrites /\ (w.level <=> w.vector \in LevelVectors)
    BY WritesAreTabled
  <2> QED
    BY <1>0, <2>4, <2>5, WriteEntryEnding
<1>4. ASSUME NEW v \in OwnVectors, Own(v) PROVE Ending(apic')
  <2>1. v \in Vectors \ LevelVectors
    BY ApicAssumption DEF Unshared
  <2> QED
    BY <1>0, <1>4, <2>1, ReceiveEnding DEF Own
<1>5. CASE Accept
  BY <1>0, <1>5, AcknowledgeEnding DEF Accept
<1>6. CASE Eoi
  BY <1>0, <1>6, EndOfInterruptEnding DEF Eoi
<1>7. CASE Tpr
  BY <1>0, <1>7, ApicAssumption, SetPriorityEnding DEF Tpr
<1>8. CASE Restart
  BY <1>0, <1>8, ResetApicEnding DEF Restart
<1>9. CASE UNCHANGED apic
  BY <1>9
<1> QED
  BY <1>1, <1>2, <1>3, <1>4, <1>5, <1>6, <1>7, <1>8, <1>9 DEF ApicNext

\* No line is left dead: when careful guests and devices use the APIC, and edge
\* lines and messages keep off the vectors of level lines, every Remote IRR that
\* is set has an end of interrupt ahead that ioapic_remote_eoi will hear of.
THEOREM EveryRemoteEnds ==
  ASSUME Careful, Unshared
  PROVE  ApicSpec => []RemoteEnds
<1> DEFINE EInv == Ending(apic)
<1>1. ApicInit => EInv
  <2> SUFFICES ASSUME ApicInit PROVE Ending(apic)
    OBVIOUS
  <2>1. PICK t : t = [l \in IoLines |-> MaskedEntry]
    OBVIOUS
  <2>2. \A l \in IoLines : ~t[l].level /\ ~t[l].remote /\ t[l].vector = 0
    BY <2>1 DEF MaskedEntry
  <2>3. apic.entry = t /\ apic.irr = {} /\ apic.isr = {}
    BY <2>1 DEF ApicInit, ApicPowerOn
  <2>4. 0 \notin LevelVectors
    BY ApicAssumption DEF LevelVectors
  <2> QED
    BY <2>2, <2>3, <2>4 DEF Ending, Tabled, Known, Held
<1>2. ApicInv /\ EInv /\ [ApicNext]_apic => EInv'
  BY StepEnding
<1>3. EInv => RemoteEnds
  <2> SUFFICES ASSUME Ending(apic), NEW l \in IoLines, apic.entry[l].remote
               PROVE  \/ l \in apic.lines /\ apic.entry[l].masked
                      \/ apic.entry[l].vector \in (apic.irr \cup apic.isr) \cap apic.tmr
    BY DEF RemoteEnds
  <2>1. apic.entry[l].vector \in LevelVectors
    BY DEF Ending, Tabled
  <2> QED
    BY <2>1 DEF Ending, Known, Held
<1> HIDE DEF EInv
<1> QED
  BY InvariantHolds, <1>1, <1>2, <1>3, PTL DEF ApicSpec
-----------------------------------------------------------------------------
(* Part four: the APICs in the machine.                                    *)

Firm(a) == Sound(a) /\ Vectored(a)

\* The I/O APIC hears a device, and the pulse of the cascade.
LEMMA LinesKeepFirm ==
  ASSUME NEW a, Firm(a), NEW p, NEW l \in IoLines
  PROVE  /\ Firm(RaiseIoLine(a, l)) /\ Firm(LowerIoLine(a, l))
         /\ Firm(HearCascade(a, p))
<1>1. ASSUME NEW b, Firm(b), NEW i \in IoLines
      PROVE  Firm(RaiseIoLine(b, i)) /\ Firm(LowerIoLine(b, i))
  <2>1. Firm(RaiseIoLine(b, i))
    BY <1>1, RaiseLineIsSound DEF Firm
  <2>2. Sound(LowerIoLine(b, i)) /\ LowerIoLine(b, i).entry = b.entry
    BY <1>1, LowerLineIsSound DEF Firm
  <2> QED
    BY <1>1, <2>1, <2>2 DEF Firm, Vectored
<1>2. TimerLine \in IoLines
  BY FabricAssumption
<1>3. Firm(RaiseIoLine(LowerIoLine(a, TimerLine), TimerLine))
  BY <1>1, <1>2
<1> QED
  BY <1>1, <1>3 DEF HearCascade

LEMMA IrqKeepsFirm ==
  ASSUME NEW f, Firm(f.apic), NEW c, NEW l, <<c, l>> \in Devices
  PROVE  Firm(RaiseIrq(f, c, l).apic) /\ Firm(LowerIrq(f, c, l).apic)
<1>1. IoLine(c, l) \in IoLines /\ TimerLine \in IoLines
  BY FabricAssumption
<1>2. PICK a : a = RaiseIoLine(f.apic, IoLine(c, l))
  OBVIOUS
<1>3. PICK b : b = LowerIoLine(f.apic, IoLine(c, l))
  OBVIOUS
<1>4. PICK p : p = RaiseLine(f.pic, c, l)
  OBVIOUS
<1>5. PICK q : q = LowerLine(f.pic, c, l)
  OBVIOUS
<1>6. Firm(a) /\ Firm(b)
  BY <1>1, <1>2, <1>3, LinesKeepFirm
<1>7. Firm(HearCascade(a, p)) /\ Firm(LowerIoLine(b, TimerLine))
  BY <1>1, <1>6, LinesKeepFirm
<1>8. \E d \in {a, HearCascade(a, p)} : RaiseIrq(f, c, l) = Joined(f, p, d)
  BY <1>2, <1>4 DEF RaiseIrq
<1>9. \E d \in {b, LowerIoLine(b, TimerLine)} : LowerIrq(f, c, l) = Joined(f, q, d)
  BY <1>3, <1>5 DEF LowerIrq
<1>10. \A g, r, d : Joined(g, r, d).apic = d
  BY DEF Joined
<1> QED
  BY <1>6, <1>7, <1>8, <1>9, <1>10

\* Every step of the machine keeps the APICs' invariant, although a device's
\* pulse, or a slave that announces, is several steps of the I/O APIC.
LEMMA StepFirm == ApicInv /\ [FabricNext]_fabric => ApicInv'
<1> SUFFICES ASSUME Firm(apic), [FabricNext]_fabric PROVE Firm(apic')
  BY DEF ApicInv, Firm
<1>1. ASSUME NEW c \in Ctrl, NEW l \in Lines,
             DeviceRaises(c, l) \/ DevicePulses(c, l) \/ DeviceLowers(c, l)
      PROVE  Firm(apic')
  <2>1. <<c, l>> \in Devices
    BY <1>1, PicAssumption DEF DeviceRaises, DevicePulses, DeviceLowers
  <2>2. PICK f : f = LowerIrq(Now, c, l)
    OBVIOUS
  <2>3. Now.apic = apic
    BY DEF Now
  <2>4. Firm(f.apic) /\ Firm(RaiseIrq(Now, c, l).apic)
    BY <2>1, <2>2, <2>3, IrqKeepsFirm
  <2>5. Firm(RaiseIrq(f, c, l).apic)
    BY <2>1, <2>4, IrqKeepsFirm
  <2> QED
    BY <1>1, <2>2, <2>4, <2>5 DEF DeviceRaises, DevicePulses, DeviceLowers, Becomes
<1>2. ASSUME NEW c \in Ctrl, NEW p, PicWritten(c, p) PROVE Firm(apic')
  <2>1. apic' = IF c = Slave THEN HearCascade(apic, p) ELSE apic
    BY <1>2 DEF PicWritten, Becomes, Joined
  <2>2. TimerLine \in IoLines
    BY FabricAssumption
  <2> QED
    BY <2>1, <2>2, LinesKeepFirm
<1>3. ASSUME NEW c \in Ctrl, MaskPic(c) \/ EndPic(c) \/ InitialisePic(c)
      PROVE  Firm(apic')
  BY <1>2, <1>3 DEF MaskPic, EndPic, InitialisePic
<1>4. CASE CpuAccepts
  <2>1. CASE apic.sent
    <3>1. apic' = Acknowledge(apic)
      BY <1>4, <2>1 DEF CpuAccepts, AcknowledgeInterrupt, Becomes, Now
    <3> QED
      BY <2>1, <3>1, AcknowledgeIsSound, TableIsKept DEF Firm
  <2>2. CASE ~apic.sent
    BY <1>4, <2>2 DEF CpuAccepts, AcknowledgeInterrupt, Becomes, Now
  <2> QED
    BY <2>1, <2>2
<1>5. CASE GuestApic
  <2>1. ApicNext
    BY <1>5 DEF GuestApic, ApicNext
  <2>2. ApicInv /\ [ApicNext]_apic
    BY <2>1 DEF ApicInv, Firm
  <2> QED
    BY <2>2, StepIsSound DEF ApicInv, Firm
<1>6. CASE ResetMachine
  BY <1>6, ResetApicIsSound DEF ResetMachine, Firm
<1>7. CASE UseApic \/ UNCHANGED fabric
  BY <1>7 DEF UseApic, fabric
<1> QED
  BY <1>1, <1>3, <1>4, <1>5, <1>6, <1>7 DEF FabricNext

\* In the machine, whatever its guest and its devices do, an acceptance that
\* the APIC answers finds a vector that outranks what is in service.
THEOREM MachineNeverSpurious == FabricSpec => []NeverSpurious
<1>1. FabricInit => ApicInv
  BY InitIsSound DEF FabricInit
<1>2. ApicInv => NeverSpurious
  BY DEF ApicInv, Sound, Nests, NeverSpurious
<1> QED
  BY <1>1, <1>2, StepFirm, PTL DEF FabricSpec

\* And a vector that may be served has the CPU's own line up, not only the
\* APIC's notion of it, although the 8259s lower the same line: the two halves
\* (the APIC has sent, and what it sent is still seen) hold together.
THEOREM MachineNothingWaits ==
  ASSUME ~Reinitialises
  PROVE  FabricSpec => [](Sendable(apic) => pic.intr)
<1>1. FabricInit => ApicInv
  BY InitIsSound DEF FabricInit
<1>2. ApicInv /\ SentIsHigh => (Sendable(apic) => pic.intr)
  BY DEF ApicInv, Sound, Alert, SentIsHigh
<1> QED
  BY <1>1, <1>2, StepFirm, SentStaysHigh, PTL DEF FabricSpec
-----------------------------------------------------------------------------
(* Nesting in the machine: the two controllers, whoever moves INTR.        *)

\* The 8259s with INTR down: what they would do is in their registers alone.
Muted(s) == [s EXCEPT !.intr = FALSE]

\* Behind an APIC that has sent, INTR says nothing of the 8259s: their
\* announcement is believed only when the APIC will not answer instead.
Truthful(f) ==
  f.pic \in State /\ Good(Muted(f.pic)) /\ (~f.apic.sent => Good(f.pic))

\* No function of an 8259 reads INTR: its registers become the same, up or down.
LEMMA SetChipUnread ==
  ASSUME NEW s \in State, NEW t \in State, s.chip = t.chip, NEW c, NEW ch
  PROVE  SetChip(s, c, ch).chip = SetChip(t, c, ch).chip
  BY DEF SetChip, State

LEMMA MasterUnread ==
  ASSUME NEW s \in State, NEW t \in State, s.chip = t.chip, NEW l \in Lines
  PROVE  /\ UpdateMaster(s).chip = UpdateMaster(t).chip
         /\ RaiseMaster(s, l).chip = RaiseMaster(t, l).chip
         /\ LowerMaster(s, l).chip = LowerMaster(t, l).chip
<1>1. ASSUME NEW u \in State, NEW v \in State, u.chip = v.chip
      PROVE  UpdateMaster(u).chip = UpdateMaster(v).chip
  <2>1. PICK ch : ch = Announce(u.chip[Master])
    OBVIOUS
  <2>2. SetChip(u, Master, ch).chip = SetChip(v, Master, ch).chip
    BY <1>1, SetChipUnread
  <2>3. ASSUME NEW w \in State
        PROVE  [SetChip(w, Master, ch) EXCEPT !.intr = TRUE].chip = SetChip(w, Master, ch).chip
    BY DEF SetChip, State
  <2> QED
    BY <1>1, <2>1, <2>2, <2>3 DEF UpdateMaster
<1>2. PICK b : b = LatchLine(s.chip[Master], l)
  OBVIOUS
<1>3. b \in Chip
  BY <1>2, LineType DEF State, Ctrl
<1>4. SetChip(s, Master, b) \in State /\ SetChip(t, Master, b) \in State
  BY <1>3, SetMaster
<1>5. SetChip(s, Master, b).chip = SetChip(t, Master, b).chip
  BY SetChipUnread
<1>6. UpdateMaster(SetChip(s, Master, b)).chip = UpdateMaster(SetChip(t, Master, b)).chip
  BY <1>1, <1>4, <1>5
<1>7. RaiseMaster(s, l).chip = RaiseMaster(t, l).chip
  BY <1>2, <1>6 DEF RaiseMaster
<1>8. LowerMaster(s, l).chip = LowerMaster(t, l).chip
  BY SetChipUnread DEF LowerMaster
<1> QED
  BY <1>1, <1>7, <1>8

LEMMA UpdateUnread ==
  ASSUME NEW s \in State, NEW t \in State, s.chip = t.chip, NEW c \in Ctrl
  PROVE  Update(s, c).chip = Update(t, c).chip
<1>1. Cascade \in Lines
  BY PicAssumption DEF Lines, Cascade
<1>2. UpdateSlave(s).chip = UpdateSlave(t).chip
  <2>1. CASE Deliverable(s.chip[Slave]) = {}
    BY <2>1 DEF UpdateSlave
  <2>2. CASE Deliverable(s.chip[Slave]) # {}
    <3>1. PICK b : b = Announce(s.chip[Slave])
      OBVIOUS
    <3>2. b \in Chip
      BY <2>2, <3>1, AnnounceType DEF State, Ctrl
    <3>3. PICK u : u = SetChip(s, Slave, b)
      OBVIOUS
    <3>4. PICK v : v = SetChip(t, Slave, b)
      OBVIOUS
    <3>5. u \in State /\ v \in State /\ u.chip = v.chip
      BY <3>2, <3>3, <3>4, SetSlave, SetChipUnread
    <3>6. /\ LowerMaster(u, Cascade) \in State /\ LowerMaster(v, Cascade) \in State
          /\ LowerMaster(u, Cascade).chip = LowerMaster(v, Cascade).chip
      BY <1>1, <3>5, MasterType, MasterUnread
    <3>7. RaiseMaster(LowerMaster(u, Cascade), Cascade).chip
            = RaiseMaster(LowerMaster(v, Cascade), Cascade).chip
      BY <1>1, <3>6, MasterUnread
    <3> QED
      BY <2>2, <3>1, <3>3, <3>4, <3>7 DEF UpdateSlave
  <2> QED
    BY <2>1, <2>2
<1>3. UpdateMaster(s).chip = UpdateMaster(t).chip
  BY <1>1, MasterUnread
<1> QED
  BY <1>2, <1>3 DEF Update

LEMMA LinesUnread ==
  ASSUME NEW s \in State, NEW t \in State, s.chip = t.chip, NEW c \in Ctrl, NEW l \in Lines
  PROVE  /\ RaiseLine(s, c, l).chip = RaiseLine(t, c, l).chip
         /\ LowerLine(s, c, l).chip = LowerLine(t, c, l).chip
<1>1. Cascade \in Lines
  BY PicAssumption DEF Lines, Cascade
<1>2. s.chip[Slave] \in Chip
  BY DEF State, Ctrl
<1>3. PICK b : b = LatchLine(s.chip[Slave], l)
  OBVIOUS
<1>4. PICK d : d = DropLine(s.chip[Slave], l)
  OBVIOUS
<1>5. b \in Chip /\ d \in Chip
  BY <1>2, <1>3, <1>4, LineType
<1>6. RaiseSlave(s, l).chip = RaiseSlave(t, l).chip
  <2>1. PICK u : u = SetChip(s, Slave, b)
    OBVIOUS
  <2>2. PICK v : v = SetChip(t, Slave, b)
    OBVIOUS
  <2>3. u \in State /\ v \in State /\ u.chip = v.chip
    BY <1>5, <2>1, <2>2, SetSlave, SetChipUnread
  <2>4. Update(u, Slave).chip = Update(v, Slave).chip
    BY <2>3, UpdateUnread DEF Ctrl
  <2>5. Update(u, Slave) = UpdateSlave(u) /\ Update(v, Slave) = UpdateSlave(v)
    BY DEF Update, Master, Slave
  <2> QED
    BY <1>3, <2>1, <2>2, <2>4, <2>5 DEF RaiseSlave
<1>7. LowerSlave(s, l).chip = LowerSlave(t, l).chip
  <2>1. PICK u : u = SetChip(s, Slave, d)
    OBVIOUS
  <2>2. PICK v : v = SetChip(t, Slave, d)
    OBVIOUS
  <2>3. u \in State /\ v \in State /\ u.chip = v.chip
    BY <1>5, <2>1, <2>2, SetSlave, SetChipUnread
  <2>4. LowerMaster(u, Cascade).chip = LowerMaster(v, Cascade).chip
    BY <1>1, <2>3, MasterUnread
  <2>5. LowerSlave(s, l) = IF u.chip[Slave].irr = {} THEN LowerMaster(u, Cascade) ELSE u
    BY <1>4, <2>1 DEF LowerSlave
  <2>6. LowerSlave(t, l) = IF v.chip[Slave].irr = {} THEN LowerMaster(v, Cascade) ELSE v
    BY <1>4, <2>2 DEF LowerSlave
  <2> QED
    BY <2>3, <2>4, <2>5, <2>6
<1> QED
  BY <1>6, <1>7, MasterUnread DEF RaiseLine, LowerLine

LEMMA WritesUnread ==
  ASSUME NEW s \in State, NEW t \in State, s.chip = t.chip, NEW c \in Ctrl
  PROVE  /\ \A mask \in SUBSET Lines : WriteOcw1(s, c, mask).chip = WriteOcw1(t, c, mask).chip
         /\ \A w \in Ocw2Commands : w.eoi => WriteOcw2(s, c, w).chip = WriteOcw2(t, c, w).chip
         /\ \A w : WriteIcw1(s, c, w).chip = WriteIcw1(t, c, w).chip
         /\ \A auto : WriteIcw(s, c, auto).chip = WriteIcw(t, c, auto).chip
<1>1. s.chip[c] \in Chip
  BY DEF State
<1>2. ASSUME NEW b \in Chip
      PROVE  Update(SetChip(s, c, b), c).chip = Update(SetChip(t, c, b), c).chip
  <2>1. SetChip(s, c, b) \in State /\ SetChip(t, c, b) \in State
    BY SetChipType
  <2>2. SetChip(s, c, b).chip = SetChip(t, c, b).chip
    BY SetChipUnread
  <2> QED
    BY <2>1, <2>2, UpdateUnread
<1>3. ASSUME NEW mask \in SUBSET Lines
      PROVE  WriteOcw1(s, c, mask).chip = WriteOcw1(t, c, mask).chip
  <2>1. [s.chip[c] EXCEPT !.imr = mask] \in Chip
    BY <1>1 DEF Chip
  <2> QED
    BY <1>2, <2>1 DEF WriteOcw1
<1>4. ASSUME NEW w \in Ocw2Commands, w.eoi
      PROVE  WriteOcw2(s, c, w).chip = WriteOcw2(t, c, w).chip
  <2>1. EndInterrupt(s.chip[c], w) \in Chip
    BY <1>1, EndInterruptType
  <2> QED
    BY <1>2, <1>4, <2>1 DEF WriteOcw2
<1>5. ASSUME NEW w PROVE WriteIcw1(s, c, w).chip = WriteIcw1(t, c, w).chip
  <2>1. PICK b : b = [s.chip[c] EXCEPT !.irr = {}, !.imr = {}, !.isr = {},
                                       !.base = NLines - 1, !.autoeoi = FALSE,
                                       !.rotate = FALSE, !.icw = 2,
                                       !.single = w.single, !.ic4 = w.ic4]
    OBVIOUS
  <2>2. /\ WriteIcw1(s, c, w) = [SetChip(s, c, b) EXCEPT !.intr = FALSE]
        /\ WriteIcw1(t, c, w) = [SetChip(t, c, b) EXCEPT !.intr = FALSE]
    BY <2>1 DEF WriteIcw1
  <2>3. ASSUME NEW u \in State
        PROVE  [SetChip(u, c, b) EXCEPT !.intr = FALSE].chip = SetChip(u, c, b).chip
    BY DEF SetChip, State
  <2> QED
    BY <2>2, <2>3, SetChipUnread
<1>6. ASSUME NEW auto PROVE WriteIcw(s, c, auto).chip = WriteIcw(t, c, auto).chip
  BY SetChipUnread DEF WriteIcw
<1> QED
  BY <1>3, <1>4, <1>5, <1>6

\* What keeps the priorities with INTR down keeps them: s becomes p as q says,
\* whether q came of s itself or of s with INTR down.
LEMMA MutedFollows ==
  ASSUME NEW s \in State, NEW p \in State, NEW q, Calm(Muted(s), q), q.chip = p.chip
  PROVE  Good(Muted(p)) /\ \A c \in Ctrl : p.chip[c].isr \subseteq s.chip[c].isr
<1>1. Muted(p) \in State /\ ~Muted(p).intr /\ Muted(p).chip = q.chip
  BY DEF Muted, State
<1>2. Muted(s).chip = s.chip
  BY DEF Muted, State
<1>3. Good(q) /\ \A c \in Ctrl : q.chip[c].isr \subseteq s.chip[c].isr
  BY <1>2 DEF Calm
<1>4. Good(Muted(p))
  BY <1>1, <1>3 DEF Good, Plain, Announced
<1> QED
  BY <1>3, <1>4

LEMMA GoodMuted ==
  ASSUME NEW s, Good(s)
  PROVE  Good(Muted(s)) /\ Muted(s) \in State /\ Muted(s).chip = s.chip
<1>1. s \in State
  BY DEF Good
<1>2. Muted(s) \in State /\ ~Muted(s).intr /\ Muted(s).chip = s.chip
  BY <1>1 DEF Muted, State
<1> QED
  BY <1>2 DEF Good, Plain, Announced

\* The 8259s of f may become p: the same with INTR down, and, when the APIC
\* leaves the answer to them, with INTR as it is.
Follows(f, p) ==
  /\ p \in State
  /\ \E q : Calm(Muted(f.pic), q) /\ q.chip = p.chip
  /\ ~f.apic.sent => Good(p)

\* A step that puts nothing in service.
Lulled(f, g) ==
  Truthful(g) /\ \A c \in Ctrl : g.pic.chip[c].isr \subseteq f.pic.chip[c].isr

LEMMA JoinedTruthful ==
  ASSUME NEW f, Truthful(f), NEW p, Follows(f, p), NEW a, f.apic.sent => a.sent
  PROVE  Lulled(f, Joined(f, p, a))
<1>1. f.pic \in State /\ p \in State
  BY DEF Truthful, Follows
<1>2. Good(Muted(p)) /\ \A c \in Ctrl : p.chip[c].isr \subseteq f.pic.chip[c].isr
  BY <1>1, MutedFollows DEF Follows
<1>3. Joined(f, p, a).apic = a
  BY DEF Joined
<1>4. CASE a.sent /\ ~f.apic.sent
  <2>1. PICK r : r = [p EXCEPT !.intr = TRUE]
    OBVIOUS
  <2>2. Joined(f, p, a).pic = r
    BY <1>4, <2>1 DEF Joined
  <2>3. r \in State /\ r.chip = p.chip /\ Muted(r) = Muted(p)
    BY <1>1, <2>1 DEF State, Muted
  <2> QED
    BY <1>2, <1>3, <1>4, <2>2, <2>3 DEF Lulled, Truthful
<1>5. CASE ~(a.sent /\ ~f.apic.sent)
  <2>1. Joined(f, p, a).pic = p
    BY <1>5 DEF Joined
  <2> QED
    BY <1>1, <1>2, <1>3, <1>5, <2>1 DEF Lulled, Truthful, Follows
<1> QED
  BY <1>4, <1>5

\* The APIC takes back nothing it has sent.
LEMMA UpdateLeavesSent ==
  ASSUME NEW b, Registers(b), b.sent
  PROVE  UpdateIo(b).sent
<1>1. PICK due : due = {k \in b.lines : ~b.entry[k].masked}
  OBVIOUS
<1>2. PICK new : new = {b.entry[k].vector : k \in due} \ b.irr
  OBVIOUS
<1>3. PICK levels : levels = {v \in new : \E k \in due :
                               /\ b.entry[k].vector = v /\ b.entry[k].level
                               /\ \A j \in due : b.entry[j].vector = v => k <= j}
  OBVIOUS
<1>4. PICK c : c = [b EXCEPT !.lines = @ \ {k \in due : ~b.entry[k].level}]
  OBVIOUS
<1>5. PICK d : d = [c EXCEPT !.irr = @ \cup new, !.tmr = (@ \ new) \cup levels]
  OBVIOUS
<1>6. UpdateIo(b) = IF new = {} THEN c ELSE Send(d)
  BY <1>1, <1>2, <1>3, <1>4, <1>5 DEF UpdateIo
<1>7. c.sent /\ d.sent
  BY <1>4, <1>5 DEF Registers
<1>8. Send(d) = d
  BY <1>7 DEF Send
<1> QED
  BY <1>6, <1>7, <1>8

LEMMA LinesLeaveSent ==
  ASSUME NEW a, Registers(a), a.sent, NEW l
  PROVE  RaiseIoLine(a, l).sent /\ LowerIoLine(a, l).sent
<1>1. PICK b : b = Request(a, l)
  OBVIOUS
<1>2. PICK c : c = [b EXCEPT !.entry[l].remote = TRUE]
  OBVIOUS
<1>3. Registers(b) /\ Registers(c) /\ b.sent /\ c.sent
  BY <1>1, <1>2 DEF Registers, Request
<1>4. UpdateIo(b).sent /\ UpdateIo(c).sent
  BY <1>3, UpdateLeavesSent
<1>5. RaiseIoLine(a, l).sent
  <2>1. CASE a.entry[l].level /\ a.entry[l].remote
    BY <2>1 DEF RaiseIoLine
  <2>2. CASE a.entry[l].level /\ ~a.entry[l].remote
    BY <1>1, <1>2, <1>4, <2>2 DEF RaiseIoLine
  <2>3. CASE ~a.entry[l].level
    BY <1>1, <1>4, <2>3 DEF RaiseIoLine
  <2> QED
    BY <2>1, <2>2, <2>3
<1>6. LowerIoLine(a, l).sent
  BY DEF Registers, LowerIoLine
<1> QED
  BY <1>5, <1>6

LEMMA CascadeLeavesSent ==
  ASSUME NEW a, Registers(a), a.sent, NEW p
  PROVE  HearCascade(a, p).sent
<1>1. Registers(LowerIoLine(a, TimerLine)) /\ LowerIoLine(a, TimerLine).sent
  BY LinesKeepRegisters, LinesLeaveSent
<1> QED
  BY <1>1, LinesLeaveSent DEF HearCascade

LEMMA GuestLeavesSent ==
  ASSUME Registers(apic), apic.sent, GuestApic
  PROVE  apic'.sent
<1>1. ASSUME NEW l \in IoLines, Program(l) PROVE apic'.sent
  <2>1. PICK w \in Entries[l], remote \in {FALSE, apic.entry[l].remote} :
          apic' = WriteEntry(apic, l, w, remote)
    BY <1>1 DEF Program
  <2>2. PICK e : e = [vector |-> w.vector, masked |-> w.masked,
                      level |-> w.level, remote |-> remote]
    OBVIOUS
  <2>3. PICK b : b = [apic EXCEPT !.entry[l] = e]
    OBVIOUS
  <2>4. Registers(b) /\ b.sent
    BY <2>3 DEF Registers
  <2>5. UpdateIo(b).sent
    BY <2>4, UpdateLeavesSent
  <2>6. apic' = IF e = apic.entry[l] THEN apic ELSE UpdateIo(b)
    BY <2>1, <2>2, <2>3 DEF WriteEntry
  <2> QED
    BY <2>5, <2>6
<1>2. ASSUME NEW v \in OwnVectors, Own(v) PROVE apic'.sent
  <2>1. PICK level \in BOOLEAN : apic' = Receive(apic, v, level)
    BY <1>2 DEF Own
  <2>2. PICK b : b = [apic EXCEPT !.irr = @ \cup {v},
                                  !.tmr = IF level THEN @ \cup {v} ELSE @ \ {v}]
    OBVIOUS
  <2>3. b.sent
    BY <2>2 DEF Registers
  <2>4. apic' = IF v \in apic.irr THEN apic ELSE Send(b)
    BY <2>1, <2>2 DEF Receive
  <2> QED
    BY <2>3, <2>4 DEF Send
<1>3. CASE Eoi
  <2>1. PICK v : v = Max(apic.isr)
    OBVIOUS
  <2>2. PICK b : b = [apic EXCEPT !.isr = @ \ {v}]
    OBVIOUS
  <2>3. Registers(b) /\ b.sent
    BY <2>2 DEF Registers
  <2>4. RemoteEoi(b, v).sent
    BY <2>3 DEF Registers, RemoteEoi
  <2>5. apic' = IF apic.isr = {} THEN apic
                ELSE Send(IF v \in apic.tmr THEN RemoteEoi(b, v) ELSE b)
    BY <1>3, <2>1, <2>2 DEF Eoi, EndOfInterrupt
  <2> QED
    BY <2>3, <2>4, <2>5 DEF Send
<1>4. CASE Tpr
  <2>1. PICK t \in Classes : apic' = SetPriority(apic, t)
    BY <1>4 DEF Tpr
  <2>2. PICK b : b = [apic EXCEPT !.tpr = t]
    OBVIOUS
  <2>3. b.sent
    BY <2>2 DEF Registers
  <2> QED
    BY <2>1, <2>2, <2>3 DEF SetPriority, Send
<1> QED
  BY <1>1, <1>2, <1>3, <1>4 DEF GuestApic

LEMMA IrqTruthful ==
  ASSUME NEW f, Truthful(f), Registers(f.apic),
         NEW c \in Ctrl, NEW l \in Lines, <<c, l>> # <<Master, Cascade>>
  PROVE  /\ Lulled(f, RaiseIrq(f, c, l)) /\ Registers(RaiseIrq(f, c, l).apic)
         /\ Lulled(f, LowerIrq(f, c, l)) /\ Registers(LowerIrq(f, c, l).apic)
<1>1. PICK s : s = f.pic
  OBVIOUS
<1>2. s \in State /\ Good(Muted(s)) /\ (~f.apic.sent => Good(s))
  BY <1>1 DEF Truthful
<1>3. Muted(s) \in State /\ Muted(s).chip = s.chip
  BY <1>2 DEF Muted, State
<1>4. PICK p : p = RaiseLine(s, c, l)
  OBVIOUS
<1>5. PICK q : q = LowerLine(s, c, l)
  OBVIOUS
<1>6. Follows(f, p) /\ Follows(f, q)
  <2>1. p \in State /\ q \in State
    BY <1>2, <1>4, <1>5, LineStateType
  <2>2. /\ Calm(Muted(s), RaiseLine(Muted(s), c, l))
        /\ Calm(Muted(s), LowerLine(Muted(s), c, l))
    BY <1>2, LineGood
  <2>3. /\ RaiseLine(Muted(s), c, l).chip = p.chip
        /\ LowerLine(Muted(s), c, l).chip = q.chip
    BY <1>2, <1>3, <1>4, <1>5, LinesUnread
  <2>4. ~f.apic.sent => Good(p) /\ Good(q)
    BY <1>2, <1>4, <1>5, LineGood DEF Calm
  <2> QED
    BY <1>1, <2>1, <2>2, <2>3, <2>4 DEF Follows
<1>7. PICK a : a = RaiseIoLine(f.apic, IoLine(c, l))
  OBVIOUS
<1>8. PICK b : b = LowerIoLine(f.apic, IoLine(c, l))
  OBVIOUS
<1>9. Registers(a) /\ Registers(b) /\ (f.apic.sent => a.sent /\ b.sent)
  BY <1>7, <1>8, LinesKeepRegisters, LinesLeaveSent
<1>10. \A d \in {a, HearCascade(a, p), b, LowerIoLine(b, TimerLine)} :
         Registers(d) /\ (f.apic.sent => d.sent)
  BY <1>9, LinesKeepRegisters, LinesLeaveSent, HearCascadeKeeps, CascadeLeavesSent
<1>11. \E d \in {a, HearCascade(a, p)} : RaiseIrq(f, c, l) = Joined(f, p, d)
  BY <1>1, <1>4, <1>7 DEF RaiseIrq
<1>12. \E d \in {b, LowerIoLine(b, TimerLine)} : LowerIrq(f, c, l) = Joined(f, q, d)
  BY <1>1, <1>5, <1>8 DEF LowerIrq
<1>13. \A g, r, d : Joined(g, r, d).apic = d
  BY DEF Joined
<1>14. Lulled(f, RaiseIrq(f, c, l)) /\ Registers(RaiseIrq(f, c, l).apic)
  BY <1>6, <1>10, <1>11, <1>13, JoinedTruthful
<1>15. Lulled(f, LowerIrq(f, c, l)) /\ Registers(LowerIrq(f, c, l).apic)
  BY <1>6, <1>10, <1>12, <1>13, JoinedTruthful
<1> QED
  BY <1>14, <1>15

\* A write of the guest's to the 8259s.
LEMMA WriteFollows ==
  ASSUME FullyNested, NEW f, Truthful(f), NEW c \in Ctrl
  PROVE  /\ \A mask \in Masks : Follows(f, WriteOcw1(f.pic, c, mask))
         /\ \A w \in Ocw2 : w.eoi => Follows(f, WriteOcw2(f.pic, c, w))
         /\ \A w \in Icw1 : Follows(f, WriteIcw1(f.pic, c, w))
         /\ \A auto \in BOOLEAN : Follows(f, WriteIcw(f.pic, c, auto))
<1>1. PICK s : s = f.pic
  OBVIOUS
<1>2. s \in State /\ Good(Muted(s)) /\ (~f.apic.sent => Good(s))
  BY <1>1 DEF Truthful
<1>3. Muted(s) \in State /\ Muted(s).chip = s.chip
  BY <1>2 DEF Muted, State
<1>4. ASSUME NEW p \in State, NEW q, Calm(Muted(s), q), q.chip = p.chip,
             Good(s) => Calm(s, p)
      PROVE  Follows(f, p)
  BY <1>1, <1>2, <1>4 DEF Follows, Calm
<1>5. ASSUME NEW mask \in Masks PROVE Follows(f, WriteOcw1(s, c, mask))
  <2>1. mask \in SUBSET Lines
    BY PicAssumption
  <2>2. WriteOcw1(s, c, mask) \in State
    BY <1>2, <2>1, WriteType
  <2>3. WriteOcw1(Muted(s), c, mask).chip = WriteOcw1(s, c, mask).chip
    BY <1>2, <1>3, <2>1, WritesUnread
  <2>4. /\ Calm(Muted(s), WriteOcw1(Muted(s), c, mask))
        /\ Good(s) => Calm(s, WriteOcw1(s, c, mask))
    BY <1>2, <2>1, WriteGood
  <2> QED
    BY <1>4, <2>2, <2>3, <2>4
<1>6. ASSUME NEW w \in Ocw2, w.eoi PROVE Follows(f, WriteOcw2(s, c, w))
  <2>1. w \in Ocw2Commands /\ ~w.rotate
    BY PicAssumption DEF FullyNested
  <2>2. WriteOcw2(s, c, w) \in State
    BY <1>2, <2>1, WriteType
  <2>3. WriteOcw2(Muted(s), c, w).chip = WriteOcw2(s, c, w).chip
    BY <1>2, <1>3, <1>6, <2>1, WritesUnread
  <2>4. /\ Calm(Muted(s), WriteOcw2(Muted(s), c, w))
        /\ Good(s) => Calm(s, WriteOcw2(s, c, w))
    BY <1>2, <2>1, WriteGood
  <2> QED
    BY <1>4, <2>2, <2>3, <2>4
<1>7. ASSUME NEW w \in Icw1 PROVE Follows(f, WriteIcw1(s, c, w))
  <2>1. w \in Icw1Commands
    BY PicAssumption
  <2>2. WriteIcw1(s, c, w) \in State
    BY <1>2, <2>1, WriteType
  <2>3. WriteIcw1(Muted(s), c, w).chip = WriteIcw1(s, c, w).chip
    BY <1>2, <1>3, WritesUnread
  <2>4. /\ Calm(Muted(s), WriteIcw1(Muted(s), c, w))
        /\ Good(s) => Calm(s, WriteIcw1(s, c, w))
    BY <1>2, <2>1, WriteGood
  <2> QED
    BY <1>4, <2>2, <2>3, <2>4
<1>8. ASSUME NEW auto \in BOOLEAN PROVE Follows(f, WriteIcw(s, c, auto))
  <2>1. WriteIcw(s, c, auto) \in State
    BY <1>2, WriteType
  <2>2. WriteIcw(Muted(s), c, auto).chip = WriteIcw(s, c, auto).chip
    BY <1>2, <1>3, WritesUnread
  <2>3. /\ Calm(Muted(s), WriteIcw(Muted(s), c, auto))
        /\ Good(s) => Calm(s, WriteIcw(s, c, auto))
    BY <1>2, WriteGood
  <2> QED
    BY <1>4, <2>1, <2>2, <2>3
<1> QED
  BY <1>1, <1>5, <1>6, <1>7, <1>8

\* Every step of the machine: the 8259s' announcement holds whenever they are
\* the ones to be asked, and what goes into service outranks what is there.
LEMMA StepTruthful ==
  ASSUME FullyNested, Truthful(Now), Registers(apic), [FabricNext]_fabric
  PROVE  Truthful(Now)' /\ NestedService
<1>1. /\ Now.pic = pic /\ Now.apic = apic
      /\ Now'.pic = pic' /\ Now'.apic = apic'
  BY DEF Now
<1>2. pic \in State /\ Good(Muted(pic)) /\ (~apic.sent => Good(pic))
  BY <1>1 DEF Truthful
<1>3. ASSUME Lulled(Now, Now') PROVE Truthful(Now') /\ NestedService
  BY <1>1, <1>3 DEF Lulled, NestedService
<1>4. ASSUME NEW f, pic' = f.pic, apic' = f.apic, Lulled(Now, f)
      PROVE  Lulled(Now, Now')
  BY <1>1, <1>4 DEF Lulled, Truthful
<1>5. Lulled(Now, Now)
  BY DEF Lulled
<1>6. ASSUME NEW c \in Ctrl, NEW l \in Lines,
             DeviceRaises(c, l) \/ DevicePulses(c, l) \/ DeviceLowers(c, l)
      PROVE  Lulled(Now, Now')
  <2>1. <<c, l>> # <<Master, Cascade>>
    BY <1>6, PicAssumption DEF DeviceRaises, DevicePulses, DeviceLowers
  <2>2. PICK f : f = LowerIrq(Now, c, l)
    OBVIOUS
  <2>3. /\ Lulled(Now, f) /\ Registers(f.apic)
        /\ Lulled(Now, RaiseIrq(Now, c, l))
    BY <1>1, <2>1, <2>2, IrqTruthful
  <2>4. Lulled(f, RaiseIrq(f, c, l))
    BY <2>1, <2>3, IrqTruthful DEF Lulled
  <2>5. Lulled(Now, RaiseIrq(f, c, l))
    BY <2>3, <2>4 DEF Lulled
  <2>6. \E g \in {f, RaiseIrq(Now, c, l), RaiseIrq(f, c, l)} : Becomes(g)
    BY <1>6, <2>2 DEF DeviceRaises, DevicePulses, DeviceLowers
  <2> QED
    BY <1>4, <2>3, <2>5, <2>6 DEF Becomes
<1>7. ASSUME NEW c \in Ctrl, NEW p, Follows(Now, p), PicWritten(c, p)
      PROVE  Lulled(Now, Now')
  <2>1. PICK a : a = IF c = Slave THEN HearCascade(apic, p) ELSE apic
    OBVIOUS
  <2>2. apic.sent => a.sent
    BY <2>1, CascadeLeavesSent
  <2>3. Lulled(Now, Joined(Now, p, a))
    BY <1>1, <1>7, <2>2, JoinedTruthful
  <2> QED
    BY <1>4, <1>7, <2>1, <2>3 DEF PicWritten, Becomes
<1>8. ASSUME NEW c \in Ctrl, MaskPic(c) \/ EndPic(c)
      PROVE  Lulled(Now, Now')
  <2>1. \E p : Follows(Now, p) /\ PicWritten(c, p)
    BY <1>1, <1>8, WriteFollows DEF MaskPic, EndPic
  <2> QED
    BY <1>7, <2>1
<1>9. ASSUME NEW c \in Ctrl, InitialisePic(c) PROVE Lulled(Now, Now')
  <2>1. Follows(Now, pic') /\ apic' = apic
    BY <1>1, <1>9, WriteFollows DEF InitialisePic, Icw1Write, IcwWrite
  <2>2. Lulled(Now, Joined(Now, pic', apic'))
    BY <1>1, <2>1, JoinedTruthful
  <2>3. Joined(Now, pic', apic') = [pic |-> pic', apic |-> apic']
    BY <1>1, <2>1 DEF Joined
  <2> QED
    BY <1>4, <2>2, <2>3
<1>10. ASSUME CpuAccepts PROVE Truthful(Now') /\ NestedService
  <2>1. CASE apic.sent
    <3>1. pic' = Muted(pic)
      BY <1>1, <1>10, <2>1 DEF CpuAccepts, Becomes, AcknowledgeInterrupt, Muted
    <3>2. pic' \in State /\ pic'.chip = pic.chip /\ Muted(pic') = pic'
      BY <1>2, <3>1 DEF Muted, State
    <3> QED
      BY <1>1, <1>2, <3>1, <3>2 DEF Truthful, NestedService
  <2>2. CASE ~apic.sent
    <3>1. pic' = TakeInterrupt(pic) /\ pic.intr
      BY <1>1, <1>10, <2>2 DEF CpuAccepts, Becomes, AcknowledgeInterrupt
    <3>2. Good(pic') /\ NestedService
      BY <1>2, <2>2, <3>1, TakeGood DEF NestedService
    <3> QED
      BY <1>1, <3>2, GoodMuted DEF Truthful, Good
  <2> QED
    BY <2>1, <2>2
<1>11. ASSUME GuestApic PROVE Lulled(Now, Now')
  <2>1. apic.sent => apic'.sent
    BY <1>11, GuestLeavesSent
  <2>2. Follows(Now, pic)
    <3>1. Calm(Muted(pic), Muted(pic)) /\ Muted(pic).chip = pic.chip
      BY <1>2 DEF Calm, Muted, State
    <3> QED
      BY <1>1, <1>2, <3>1 DEF Follows
  <2>3. Lulled(Now, Joined(Now, pic, apic'))
    BY <1>1, <2>1, <2>2, JoinedTruthful
  <2>4. pic' = Joined(Now, pic, apic').pic /\ apic' = Joined(Now, pic, apic').apic
    BY <1>11 DEF GuestApic, Joined
  <2> QED
    BY <1>4, <2>3, <2>4
<1>12. ASSUME ResetMachine PROVE Truthful(Now') /\ NestedService
  <2>1. Plain(pic)
    BY <1>2 DEF Good, Plain, Muted, State
  <2>2. Calm(pic, pic')
    BY <1>2, <1>12, <2>1, ResetGood DEF ResetMachine
  <2>3. Good(pic') /\ NestedService
    BY <2>2 DEF Calm, NestedService
  <2> QED
    BY <1>1, <2>3, GoodMuted DEF Truthful, Good
<1>13. CASE UseApic \/ UNCHANGED fabric
  <2>1. pic' = pic /\ apic' = apic
    BY <1>13 DEF UseApic, fabric
  <2> QED
    BY <1>1, <1>3, <1>4, <1>5, <2>1
<1>14. Truthful(Now') /\ NestedService
  BY <1>3, <1>6, <1>8, <1>9, <1>10, <1>11, <1>12, <1>13 DEF FabricNext
<1> QED
  BY <1>14

\* The 8259s' interrupts nest in the machine too, in every mode: no handler is
\* interrupted by an equal or inferior line of its controller, although the APIC
\* raises and takes down the INTR line under the 8259s, and whether or not a
\* guest of the APICs initialises them again (pic_get_interrupt asks the APIC
\* first, so an announcement is acted on only while the APIC has sent nothing).
THEOREM MachineNests ==
  ASSUME FullyNested
  PROVE  FabricSpec => NestedDelivery
<1> DEFINE Nested == Truthful(Now)
<1>1. FabricInit => Nested /\ ApicInv
  <2> SUFFICES ASSUME FabricInit PROVE Nested /\ ApicInv
    OBVIOUS
  <2>1. Good(pic)
    BY InitGood DEF FabricInit, Init
  <2>2. Now.pic = pic
    BY DEF Now
  <2> QED
    BY <2>1, <2>2, GoodMuted, InitIsSound DEF FabricInit, Truthful, Good
<1>2. Nested /\ ApicInv /\ [FabricNext]_fabric => Nested' /\ [NestedService]_pic
  <2>1. ApicInv => Registers(apic)
    BY DEF ApicInv, Sound, ApicState, Registers
  <2> QED
    BY <2>1, StepTruthful
<1> HIDE DEF Nested
<1> QED
  BY <1>1, <1>2, StepFirm, PTL DEF FabricSpec, NestedDelivery

=============================================================================
