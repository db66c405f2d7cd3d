------------------------- MODULE MachineLoopProofs -------------------------
(***************************************************************************)
(* Theorems about MachineLoop, for any length of runs, any periods of the  *)
(* clock and any counts, with the APIC's timer in its one-shot mode: in    *)
(* periodic mode a late masked timer answers 0 and TimeKept is false.      *)
(*                                                                         *)
(* The invariant says what the four counters of cpu_run have to do with    *)
(* each other and with the run that pc_execute allowed.                    *)
(***************************************************************************)
EXTENDS MachineLoop, TLAPS

\* Before the end of a run something is left of it; what has run, what runs
\* and what is left for later are together the run, and one instruction more
\* only if the run began with interrupts blocked.
Counted ==
  /\ stage \in {"top", "execute"} =>
       cpu.ctr > 0 /\ retired + cpu.ctr + cpu.refill <= budget + 1
  /\ stage = "after" => retired <= budget + 1
  /\ stage = "top" /\ cpu.blocked => retired = 0
  /\ stage = "execute" => ~cpu.halted /\ ~cpu.blocked

\* The clock's last period began in the past.
ClockBehind == dev.called <= IF stage = "look" THEN 0 ELSE retired

\* Behind STI or a load of SS either the next instruction is in the same
\* piece, or interrupts are blocked until it is.
ShadowBlocks == shadow /\ stage # "execute" => cpu.blocked

Inv == TypeOK /\ TimeKept /\ Counted /\ ClockBehind /\ ShadowBlocks

-----------------------------------------------------------------------------
(* The devices.                                                            *)

\* devices_get_next leaves the devices in their types, the clock's period in
\* the past, and answers a time ahead (with a one-shot timer).
LEMMA DeadlineAhead ==
  ASSUME ~Periodic, NEW d \in Dev, NEW t \in Int, d.called <= t
  PROVE  /\ Service(d, t) \in Dev
         /\ Service(d, t).called <= t
         /\ NextDeadline(d, t) \in 1 .. Forever - 1
<1>1. PICK c : c = CmosClock(d, t)
  OBVIOUS
<1>2. PICK a : a = ApicClock(c, t)
  OBVIOUS
<1>3. PICK p : p = CmosPeriod(d)
  OBVIOUS
<1>4. p \in 1 .. Forever - 1
  BY <1>3, MachineLoopAssumption DEF CmosPeriod
<1>5. d.called \in Int /\ d.timer \in Int
  BY DEF Dev
<1>6. c \in Dev /\ c.called <= t /\ t < c.called + p /\ CmosPeriod(c) = p
  <2>1. CASE t < d.called + p
    BY <1>1, <1>3, <2>1 DEF CmosClock
  <2>2. CASE ~(t < d.called + p)
    <3>1. PICK x : x = [d EXCEPT !.called = t]
      OBVIOUS
    <3>2. x \in Dev /\ x.called = t /\ x.enables = d.enables
      BY <3>1 DEF Dev
    <3>3. c = x \/ c = RaiseRtc(x)
      BY <1>1, <1>3, <2>2, <3>1 DEF CmosClock
    <3>4. RaiseRtc(x) \in Dev /\ RaiseRtc(x).called = t /\ RaiseRtc(x).enables = d.enables
      BY <3>2 DEF RaiseRtc, Dev, Sources
    <3> HIDE <3>1
    <3>5. c \in Dev /\ c.called = t /\ c.enables = d.enables
      BY <3>2, <3>3, <3>4
    <3> QED BY <1>3, <1>4, <3>5 DEF CmosPeriod, Forever
  <2> QED BY <2>1, <2>2
<1>7. a \in Dev /\ a.called = c.called /\ (a.timer = Forever \/ a.timer > t)
  <2>1. CASE ~TimerFires(c, t)
    <3>1. a = c /\ c.timer \in Int
      BY <1>2, <1>6, <2>1 DEF ApicClock, Dev
    <3> QED BY <1>6, <2>1, <3>1 DEF TimerFires
  <2>2. CASE TimerFires(c, t)
    <3>1. a = [c EXCEPT !.timer = Forever,
                        !.latched = IF c.masked THEN @ ELSE @ \cup {"timer"}]
      BY <1>2, <2>2 DEF ApicClock
    <3>2. {"timer"} \subseteq Sources
      BY DEF Sources
    <3>3. c.masked \in BOOLEAN /\ c.latched \subseteq Sources
      BY <1>6 DEF Dev
    <3>4. (IF c.masked THEN c.latched ELSE c.latched \cup {"timer"}) \subseteq Sources
      BY <3>2, <3>3
    <3>5. PICK l \in SUBSET Sources : a = [c EXCEPT !.timer = Forever, !.latched = l]
      BY <3>1, <3>4
    <3>6. Forever \in Int
      BY DEF Forever
    <3>7. a \in Dev
      BY <1>6, <3>5, <3>6 DEF Dev
    <3>8. a.called = c.called /\ a.timer = Forever
      BY <1>6, <3>5 DEF Dev
    <3> QED BY <3>7, <3>8
  <2> QED BY <2>1, <2>2
<1>8. CmosNext(c, t) \in 1 .. Forever - 1
  <2>1. CmosNext(c, t) = c.called + p - t /\ c.called \in Int
    BY <1>6 DEF CmosNext, Dev
  <2>2. p \in Int /\ p >= 1 /\ p <= 999
    BY <1>4 DEF Forever
  <2>3. c.called + p - t \in Int /\ c.called + p - t >= 1 /\ c.called + p - t <= 999
    BY <1>6, <2>1, <2>2
  <2> QED BY <2>1, <2>3 DEF Forever
<1>9. ApicNext(c, t) \in Nat \ {0}
  <2>1. a.timer \in Int
    BY <1>7 DEF Dev
  <2> QED BY <1>2, <1>7, <2>1 DEF ApicNext, Forever
<1>10. NextDeadline(d, t) \in 1 .. Forever - 1
  BY <1>1, <1>8, <1>9 DEF NextDeadline, Forever
<1> QED BY <1>1, <1>2, <1>6, <1>7, <1>10 DEF Service

-----------------------------------------------------------------------------
(* The counters.                                                           *)

\* Cutting a piece does not move the clock.
LEMMA CutKeepsElapsed ==
  ASSUME NEW c \in Cpu, Elapsed(c) \in Nat, NEW n \in Nat, NEW rest \in Nat
  PROVE  /\ Cut(c, n, rest) \in Cpu
         /\ Elapsed(Cut(c, n, rest)) = Elapsed(c)
<1> DEFINE x == Cut(c, n, rest)
<1>1. x \in Cpu
  BY DEF Cut, Cpu
<1>2. x.cycles = Elapsed(c) /\ x.ctr = n /\ x.offset = n
  BY DEF Cut, Cpu
<1>3. Elapsed(x) = x.cycles + x.offset - x.ctr
  BY DEF Elapsed
<1> HIDE DEF x
<1>4. Elapsed(x) = Elapsed(c)
  BY <1>2, <1>3
<1> QED BY <1>1, <1>2, <1>4 DEF x

\* The end of an instruction keeps what the invariant says of the counters,
\* whatever the instruction has cut, if the clock is one behind when it ends.
LEMMA CompletesCounts ==
  ASSUME Inv, stage = "execute", NEW c \in Cpu, Completes(c),
         retired' \in Nat, Elapsed(c) = retired' - 1, c.ctr > 0,
         retired' + c.ctr + c.refill <= budget + 2,
         c.halted \/ c.blocked => c.ctr = 1 /\ c.refill = 0
  PROVE  /\ cpu' \in Cpu
         /\ stage' \in {"top", "execute", "after"}
         /\ budget' = budget
         /\ TimeKept'
         /\ Counted'
         /\ cpu'.blocked = c.blocked
         /\ c.ctr > 1 => stage' = "execute"
<1>1. PICK d : d = CountDown(c)
  OBVIOUS
<1>2. PICK e : e = NextPiece(d)
  OBVIOUS
<1>3. /\ d \in Cpu /\ d.ctr = c.ctr - 1 /\ Elapsed(d) = retired'
      /\ d.refill = c.refill /\ d.blocked = c.blocked /\ d.halted = c.halted
  BY <1>1 DEF CountDown, Elapsed, Cpu
<1>4. /\ e \in Cpu /\ e.ctr = c.refill /\ Elapsed(e) = retired'
      /\ e.refill = 0 /\ e.blocked = c.blocked /\ e.halted = c.halted
  <2>1. d.refill \in Nat /\ Elapsed(d) \in Nat /\ 0 \in Nat /\ e = Cut(d, d.refill, 0)
    BY <1>2, <1>3 DEF Cpu, NextPiece
  <2>2. e \in Cpu /\ Elapsed(e) = Elapsed(d)
    BY <1>3, <2>1, CutKeepsElapsed
  <2>3. e.ctr = d.refill /\ e.refill = 0 /\ e.blocked = d.blocked /\ e.halted = d.halted
    BY <1>3, <2>1 DEF Cut, Cpu
  <2> QED BY <1>3, <2>2, <2>3
<1>5. /\ budget \in Nat /\ budget > 0
      /\ c.ctr \in Nat /\ c.refill \in Nat /\ c.blocked \in BOOLEAN /\ c.halted \in BOOLEAN
  BY DEF Inv, TypeOK, TimeKept, RunBounded, Forever, Cpu
<1>6. CASE d.ctr # 0
  <2>1. cpu' = d /\ stage' = "execute" /\ budget' = budget
    BY <1>1, <1>6 DEF Completes
  <2>2. d.ctr > 0 /\ ~d.halted /\ ~d.blocked
    BY <1>3, <1>5, <1>6
  <2>3. retired' + d.ctr + d.refill <= budget + 1 /\ retired' <= budget + 1
    BY <1>3, <1>5
  <2> QED BY <1>3, <1>5, <2>1, <2>2, <2>3
          DEF TimeKept, ClockExact, RunBounded, Counted, Elapsed
<1>7. CASE d.ctr = 0 /\ e.ctr = 0
  <2>1. cpu' = e /\ stage' = "after" /\ budget' = budget
    BY <1>1, <1>2, <1>7 DEF Completes
  <2>2. retired' <= budget + 1 /\ ~(c.ctr > 1)
    BY <1>3, <1>5, <1>7
  <2> QED BY <1>3, <1>4, <1>5, <2>1, <2>2
          DEF TimeKept, ClockExact, RunBounded, Counted, Elapsed
<1>8. CASE d.ctr = 0 /\ e.ctr # 0
  <2>1. cpu' = e /\ stage' = "top" /\ budget' = budget
    BY <1>1, <1>2, <1>8 DEF Completes
  <2>2. /\ retired' + e.ctr + e.refill <= budget + 1 /\ retired' <= budget + 1
        /\ e.ctr > 0 /\ ~(c.ctr > 1)
    BY <1>3, <1>4, <1>5, <1>8
  <2>3. ~e.blocked
    BY <1>3, <1>4, <1>8
  <2> QED BY <1>3, <1>4, <1>5, <2>1, <2>2, <2>3
          DEF TimeKept, ClockExact, RunBounded, Counted, Elapsed
<1> QED BY <1>6, <1>7, <1>8

\* The same for an instruction of the guest: it needs to leave the clock where
\* it was, and the devices in their types.
LEMMA RetiresStep ==
  ASSUME Inv, NEW c \in Cpu, NEW shadows \in BOOLEAN, Retires(c, shadows),
         Elapsed(c) = Elapsed(cpu), c.ctr > 0,
         c.ctr + c.refill <= cpu.ctr + cpu.refill,
         c.halted \/ c.blocked => c.ctr = 1 /\ c.refill = 0,
         shadows => c.blocked \/ c.ctr > 1,
         dev' \in Dev, dev'.called = dev.called \/ dev'.called = Elapsed(cpu)
  PROVE  Inv'
<1>1. /\ stage = "execute" /\ Completes(c)
      /\ retired' = retired + 1 /\ shadow' = shadows
  BY DEF Retires
<1>2. /\ retired \in Nat /\ budget \in Nat /\ cpu \in Cpu /\ dev \in Dev
      /\ budget \in 0 .. Forever
      /\ Elapsed(cpu) = retired /\ retired + cpu.ctr + cpu.refill <= budget + 1
  BY <1>1 DEF Inv, TypeOK, TimeKept, ClockExact, Counted, Forever
<1>3. retired' + c.ctr + c.refill <= budget + 2
  BY <1>1, <1>2 DEF Cpu
<1>4. retired' \in Nat /\ Elapsed(c) = retired' - 1
  BY <1>1, <1>2
<1>5. /\ cpu' \in Cpu
      /\ stage' \in {"top", "execute", "after"}
      /\ budget' = budget
      /\ TimeKept'
      /\ Counted'
      /\ cpu'.blocked = c.blocked
      /\ c.ctr > 1 => stage' = "execute"
  BY <1>1, <1>3, <1>4, CompletesCounts
<1>6. TypeOK'
  BY <1>1, <1>2, <1>5 DEF TypeOK
<1>7. ClockBehind'
  BY <1>1, <1>2, <1>5 DEF Inv, ClockBehind, Dev
<1>8. ShadowBlocks'
  BY <1>1, <1>5 DEF ShadowBlocks
<1> QED BY <1>5, <1>6, <1>7, <1>8 DEF Inv

-----------------------------------------------------------------------------
(* The guest's instructions.                                               *)

\* What RetiresStep asks of an instruction that leaves the counters alone, or
\* cuts the piece that runs to one instruction.
LEMMA Counters ==
  ASSUME Inv, stage = "execute"
  PROVE  /\ cpu \in Cpu /\ dev \in Dev
         /\ cpu.ctr \in Nat /\ cpu.ctr > 0 /\ cpu.refill \in Nat
         /\ ~cpu.halted /\ ~cpu.blocked
         /\ Elapsed(cpu) = retired /\ retired \in Nat
BY DEF Inv, TypeOK, TimeKept, ClockExact, Counted, Cpu

\* The flags are not counters.
LEMMA FlagsKeepElapsed ==
  ASSUME NEW c \in Cpu, NEW f \in BOOLEAN, NEW x, x = [c EXCEPT !.ifl = f]
  PROVE  /\ x \in Cpu /\ Elapsed(x) = Elapsed(c)
         /\ x.ctr = c.ctr /\ x.refill = c.refill
         /\ x.halted = c.halted /\ x.blocked = c.blocked
BY DEF Cpu, Elapsed

\* interrupt_guard: the piece becomes two instructions, or interrupts are
\* blocked behind the last one.
LEMMA GuardCuts ==
  ASSUME NEW c \in Cpu, Elapsed(c) \in Nat, c.ctr > 0, ~c.halted, ~c.blocked,
         NEW x, x = Guard(c)
  PROVE  /\ x \in Cpu /\ Elapsed(x) = Elapsed(c) /\ x.ctr > 0
         /\ x.ctr + x.refill <= c.ctr + c.refill
         /\ x.halted \/ x.blocked => x.ctr = 1 /\ x.refill = 0
         /\ x.blocked \/ x.ctr > 1
<1>1. c.ctr \in Nat /\ c.refill \in Nat
  BY DEF Cpu
<1>2. CASE c.ctr # 1
  <2>1. PICK n \in Nat : n = c.ctr - 2
    BY <1>1, <1>2
  <2>2. x = Cut(c, 2, n)
    BY <1>2, <2>1 DEF Guard
  <2>3. x \in Cpu /\ Elapsed(x) = Elapsed(c)
    BY <2>2, CutKeepsElapsed
  <2>4. x.ctr = 2 /\ x.refill = n /\ x.halted = c.halted /\ x.blocked = c.blocked
    BY <2>2 DEF Cut, Cpu
  <2> QED BY <1>1, <2>1, <2>3, <2>4
<1>3. CASE c.ctr = 1
  <2>1. PICK y : y = Cut(c, 1, 0)
    OBVIOUS
  <2>2. y \in Cpu /\ Elapsed(y) = Elapsed(c)
    BY <2>1, CutKeepsElapsed
  <2>3. y.ctr = 1 /\ y.refill = 0
    BY <2>1 DEF Cut, Cpu
  <2>4. x = [y EXCEPT !.blocked = TRUE]
    BY <1>3, <2>1 DEF Guard
  <2>5. x \in Cpu /\ Elapsed(x) = Elapsed(y) /\ x.ctr = 1 /\ x.refill = 0 /\ x.blocked
    BY <2>2, <2>3, <2>4 DEF Cpu, Elapsed
  <2> QED BY <1>1, <1>3, <2>2, <2>5
<1> QED BY <1>2, <1>3

\* INTERNAL_CPU_LOOP_EXIT: the piece becomes one instruction, the rest is kept.
LEMMA LoopExitCuts ==
  ASSUME NEW c \in Cpu, Elapsed(c) \in Nat, c.ctr > 0, ~c.halted, ~c.blocked,
         NEW x, x = LoopExit(c)
  PROVE  /\ x \in Cpu /\ Elapsed(x) = Elapsed(c) /\ x.ctr > 0
         /\ x.ctr + x.refill <= c.ctr + c.refill
         /\ ~x.halted /\ ~x.blocked
<1>1. c.ctr \in Nat /\ c.refill \in Nat
  BY DEF Cpu
<1>2. PICK n \in Nat : n = c.ctr - 1
  BY <1>1
<1>3. x = Cut(c, 1, n)
  BY <1>2 DEF LoopExit
<1>4. x \in Cpu /\ Elapsed(x) = Elapsed(c)
  BY <1>3, CutKeepsElapsed
<1>5. x.ctr = 1 /\ x.refill = n /\ x.halted = c.halted /\ x.blocked = c.blocked
  BY <1>3 DEF Cut, Cpu
<1> QED BY <1>1, <1>2, <1>4, <1>5

\* HLT and cpu_cancel_execution_cycle: the run ends here.
LEMMA CancelCuts ==
  ASSUME NEW c \in Cpu, Elapsed(c) \in Nat, c.ctr > 0,
         ~c.blocked, NEW x, x = Cancel(c) \/ x = Halt(c)
  PROVE  /\ x \in Cpu /\ Elapsed(x) = Elapsed(c) /\ x.ctr > 0
         /\ x.ctr + x.refill <= c.ctr + c.refill
         /\ x.ctr = 1 /\ x.refill = 0
<1>1. c.ctr \in Nat /\ c.refill \in Nat
  BY DEF Cpu
<1>2. PICK y : y = Cut(c, 1, 0)
  OBVIOUS
<1>3. y \in Cpu /\ Elapsed(y) = Elapsed(c)
  BY <1>2, CutKeepsElapsed
<1>4. y.ctr = 1 /\ y.refill = 0
  BY <1>2 DEF Cut, Cpu
<1>5. x = [y EXCEPT !.halted = FALSE] \/ x = [y EXCEPT !.blocked = FALSE, !.halted = TRUE]
  BY <1>2 DEF Cancel, Halt
<1>6. x \in Cpu /\ Elapsed(x) = Elapsed(y) /\ x.ctr = 1 /\ x.refill = 0
  BY <1>3, <1>4, <1>5 DEF Cpu, Elapsed
<1> QED BY <1>1, <1>3, <1>6

\* The invariant survives every instruction that completes.
LEMMA GuestStep ==
  ASSUME Inv, Guest, ~Fault
  PROVE  Inv'
<1>0. stage = "execute"
  BY DEF Guest, Plain, Sti, LoadSs, Cli, Popf, Kick, Hlt, SetTimer, MaskTimer,
         ReadRegisterC, WriteRegisterB, Retires
<1>s. /\ cpu \in Cpu /\ dev \in Dev
      /\ cpu.ctr \in Nat /\ cpu.ctr > 0 /\ cpu.refill \in Nat
      /\ ~cpu.halted /\ ~cpu.blocked
      /\ Elapsed(cpu) = retired /\ retired \in Nat
  BY <1>0, Counters
<1>r. cpu.ctr + cpu.refill <= cpu.ctr + cpu.refill
  BY <1>s
<1>1. ASSUME Plain PROVE Inv'
  <2>1. Retires(cpu, FALSE) /\ dev' = dev
    BY <1>1 DEF Plain
  <2> QED BY <1>s, <1>r, <2>1, RetiresStep
<1>2. ASSUME Sti PROVE Inv'
  <2>1. PICK c : c = [cpu EXCEPT !.ifl = TRUE]
    OBVIOUS
  <2>2. PICK x : x = Guard(c)
    OBVIOUS
  <2>3. Retires(x, TRUE) /\ dev' = dev
    BY <1>2, <2>1, <2>2 DEF Sti
  <2>4. /\ c \in Cpu /\ Elapsed(c) = Elapsed(cpu) /\ c.ctr = cpu.ctr /\ c.refill = cpu.refill
        /\ c.halted = cpu.halted /\ c.blocked = cpu.blocked
    BY <1>s, <2>1, FlagsKeepElapsed
  <2>5. /\ x \in Cpu /\ Elapsed(x) = Elapsed(c) /\ x.ctr > 0
        /\ x.ctr + x.refill <= c.ctr + c.refill
        /\ x.halted \/ x.blocked => x.ctr = 1 /\ x.refill = 0
        /\ x.blocked \/ x.ctr > 1
    BY <1>s, <2>2, <2>4, GuardCuts
  <2> QED BY <1>s, <2>3, <2>4, <2>5, RetiresStep
<1>3. ASSUME LoadSs PROVE Inv'
  <2>1. PICK x : x = Guard(cpu)
    OBVIOUS
  <2>2. Retires(x, TRUE) /\ dev' = dev
    BY <1>3, <2>1 DEF LoadSs
  <2>3. /\ x \in Cpu /\ Elapsed(x) = Elapsed(cpu) /\ x.ctr > 0
        /\ x.ctr + x.refill <= cpu.ctr + cpu.refill
        /\ x.halted \/ x.blocked => x.ctr = 1 /\ x.refill = 0
        /\ x.blocked \/ x.ctr > 1
    BY <1>s, <2>1, GuardCuts
  <2> QED BY <1>s, <2>2, <2>3, RetiresStep
<1>4. ASSUME Cli PROVE Inv'
  <2>1. PICK c : c = [cpu EXCEPT !.ifl = FALSE]
    OBVIOUS
  <2>2. Retires(c, FALSE) /\ dev' = dev
    BY <1>4, <2>1 DEF Cli
  <2>3. /\ c \in Cpu /\ Elapsed(c) = Elapsed(cpu) /\ c.ctr = cpu.ctr /\ c.refill = cpu.refill
        /\ c.halted = cpu.halted /\ c.blocked = cpu.blocked
    BY <1>s, <2>1, FlagsKeepElapsed
  <2> QED BY <1>s, <1>r, <2>2, <2>3, RetiresStep
<1>5. ASSUME Popf PROVE Inv'
  <2>1. PICK c : c = [cpu EXCEPT !.ifl = ~cpu.ifl]
    OBVIOUS
  <2>2. PICK x : x = LoopExit(c)
    OBVIOUS
  <2>3. Retires(x, FALSE) /\ dev' = dev
    BY <1>5, <2>1, <2>2 DEF Popf
  <2>f. (~cpu.ifl) \in BOOLEAN
    OBVIOUS
  <2>4. /\ c \in Cpu /\ Elapsed(c) = Elapsed(cpu) /\ c.ctr = cpu.ctr /\ c.refill = cpu.refill
        /\ c.halted = cpu.halted /\ c.blocked = cpu.blocked
    BY <1>s, <2>1, <2>f, FlagsKeepElapsed
  <2>5. /\ x \in Cpu /\ Elapsed(x) = Elapsed(c) /\ x.ctr > 0
        /\ x.ctr + x.refill <= c.ctr + c.refill
        /\ ~x.halted /\ ~x.blocked
    BY <1>s, <2>2, <2>4, LoopExitCuts
  <2> QED BY <1>s, <2>3, <2>4, <2>5, RetiresStep
<1>6. ASSUME Kick PROVE Inv'
  <2>1. PICK x : x = LoopExit(cpu)
    OBVIOUS
  <2>2. Retires(x, FALSE) /\ dev' = [dev EXCEPT !.latched = @ \cup {"other"}]
    BY <1>6, <2>1 DEF Kick
  <2>3. dev' \in Dev /\ dev'.called = dev.called
    BY <1>s, <2>2 DEF Dev, Sources
  <2>4. /\ x \in Cpu /\ Elapsed(x) = Elapsed(cpu) /\ x.ctr > 0
        /\ x.ctr + x.refill <= cpu.ctr + cpu.refill
        /\ ~x.halted /\ ~x.blocked
    BY <1>s, <2>1, LoopExitCuts
  <2> QED BY <2>2, <2>3, <2>4, RetiresStep
<1>7. ASSUME Hlt PROVE Inv'
  <2>1. PICK x : x = Halt(cpu)
    OBVIOUS
  <2>2. Retires(x, FALSE) /\ dev' = dev
    BY <1>7, <2>1 DEF Hlt
  <2>3. /\ x \in Cpu /\ Elapsed(x) = Elapsed(cpu) /\ x.ctr > 0
        /\ x.ctr + x.refill <= cpu.ctr + cpu.refill
        /\ x.ctr = 1 /\ x.refill = 0
    BY <1>s, <2>1, CancelCuts
  <2> QED BY <1>s, <2>2, <2>3, RetiresStep
<1>8. ASSUME SetTimer PROVE Inv'
  <2>1. PICK n \in Counts \cup {0} :
          /\ Retires(Cancel(cpu), FALSE)
          /\ dev' = [dev EXCEPT !.timer = IF n = 0 THEN Forever ELSE Elapsed(cpu) + n,
                                !.period = n]
    BY <1>8 DEF SetTimer
  <2>2. PICK x : x = Cancel(cpu)
    OBVIOUS
  <2>3. n \in Nat
    <3>1. Counts \subseteq Nat
      BY MachineLoopAssumption DEF Forever
    <3> QED BY <2>1, <3>1
  <2>4. PICK t \in Int : dev' = [dev EXCEPT !.timer = t, !.period = n]
    <3>1. Forever \in Int
      BY DEF Forever
    <3>2. (IF n = 0 THEN Forever ELSE Elapsed(cpu) + n) \in Int
      BY <1>s, <2>3, <3>1
    <3> QED BY <2>1, <3>2
  <2>5. dev' \in Dev /\ dev'.called = dev.called
    BY <1>s, <2>3, <2>4 DEF Dev
  <2>6. /\ x \in Cpu /\ Elapsed(x) = Elapsed(cpu) /\ x.ctr > 0
        /\ x.ctr + x.refill <= cpu.ctr + cpu.refill
        /\ x.ctr = 1 /\ x.refill = 0
    BY <1>s, <2>2, CancelCuts
  <2>7. Retires(x, FALSE)
    BY <2>1, <2>2
  <2> QED BY <2>5, <2>6, <2>7, RetiresStep
<1>9. ASSUME MaskTimer PROVE Inv'
  <2>1. PICK m \in BOOLEAN : dev' = [dev EXCEPT !.masked = m]
    BY <1>9 DEF MaskTimer
  <2>2. Retires(cpu, FALSE)
    BY <1>9 DEF MaskTimer
  <2>3. dev' \in Dev /\ dev'.called = dev.called
    BY <1>s, <2>1 DEF Dev
  <2> QED BY <1>s, <1>r, <2>2, <2>3, RetiresStep
<1>10. ASSUME ReadRegisterC PROVE Inv'
  <2>1. Retires(cpu, FALSE) /\ dev' = ReadC(dev)
    BY <1>10 DEF ReadRegisterC
  <2>2. dev' \in Dev /\ dev'.called = dev.called
    BY <1>s, <2>1 DEF ReadC, Dev
  <2> QED BY <1>s, <1>r, <2>1, <2>2, RetiresStep
<1>11. ASSUME WriteRegisterB PROVE Inv'
  <2>1. PICK e \in SUBSET {"periodic", "update"} :
          dev' = [dev EXCEPT !.enables = e, !.called = Elapsed(cpu)]
    BY <1>11 DEF WriteRegisterB
  <2>2. Retires(cpu, FALSE)
    BY <1>11 DEF WriteRegisterB
  <2>3. Elapsed(cpu) \in Int
    BY <1>s
  <2>4. dev' \in Dev /\ dev'.called = Elapsed(cpu)
    BY <1>s, <2>1, <2>3 DEF Dev
  <2> QED BY <1>s, <1>r, <2>2, <2>4, RetiresStep
<1> QED BY <1>1, <1>2, <1>3, <1>4, <1>5, <1>6, <1>7, <1>8, <1>9, <1>10, <1>11 DEF Guest

\* A faulting instruction takes no time: the piece is one instruction longer.
LEMMA FaultStep ==
  ASSUME Inv, Fault
  PROVE  Inv'
<1>1. stage = "execute" /\ Completes(Excep(cpu)) /\ UNCHANGED <<dev, retired>> /\ shadow' = FALSE
  BY DEF Fault
<1>2. /\ cpu \in Cpu /\ dev \in Dev
      /\ cpu.ctr \in Nat /\ cpu.ctr > 0 /\ cpu.refill \in Nat
      /\ ~cpu.halted /\ ~cpu.blocked
      /\ Elapsed(cpu) = retired /\ retired \in Nat
  BY <1>1, Counters
<1>3. retired + cpu.ctr + cpu.refill <= budget + 1 /\ budget \in Nat /\ budget \in 0 .. Forever
  BY <1>1 DEF Inv, Counted, TypeOK, Forever
<1>4. PICK c : c = Excep(cpu)
  OBVIOUS
<1>5. /\ c \in Cpu /\ c.ctr = cpu.ctr + 1 /\ c.refill = cpu.refill /\ ~c.halted /\ ~c.blocked
      /\ Elapsed(c) = Elapsed(cpu) - 1
  <2>1. c = [cpu EXCEPT !.ctr = cpu.ctr + 1, !.ifl = FALSE] /\ cpu.ctr + 1 \in Nat
    BY <1>2, <1>4 DEF Excep
  <2>2. /\ c \in Cpu /\ c.ctr = cpu.ctr + 1 /\ c.refill = cpu.refill
        /\ c.cycles = cpu.cycles /\ c.offset = cpu.offset
        /\ c.halted = cpu.halted /\ c.blocked = cpu.blocked
    BY <1>2, <2>1 DEF Cpu
  <2>3. cpu.cycles \in Nat /\ cpu.offset \in Nat
    BY <1>2 DEF Cpu
  <2> HIDE <2>1
  <2> QED BY <1>2, <2>2, <2>3 DEF Elapsed
<1>6. /\ retired' \in Nat /\ Elapsed(c) = retired' - 1 /\ c.ctr > 0
      /\ retired' + c.ctr + c.refill <= budget + 2
  BY <1>1, <1>2, <1>3, <1>5
<1>7. /\ cpu' \in Cpu
      /\ stage' \in {"top", "execute", "after"}
      /\ budget' = budget
      /\ TimeKept'
      /\ Counted'
  BY <1>1, <1>4, <1>5, <1>6, CompletesCounts
<1>8. TypeOK'
  BY <1>1, <1>2, <1>3, <1>7 DEF TypeOK
<1>9. ClockBehind'
  BY <1>1, <1>2, <1>7 DEF Inv, ClockBehind, Dev
<1>10. ShadowBlocks'
  BY <1>1 DEF ShadowBlocks
<1> QED BY <1>7, <1>8, <1>9, <1>10 DEF Inv

-----------------------------------------------------------------------------
(* The loop.                                                               *)

\* A run begins with all of it in the first piece.
LEMMA LookStep ==
  ASSUME ~Periodic, Inv, Look
  PROVE  Inv'
<1>1. dev \in Dev /\ cpu \in Cpu /\ 0 \in Int /\ dev.called <= 0
  BY DEF Inv, TypeOK, Look, ClockBehind
<1>2. Service(dev, 0) \in Dev /\ Service(dev, 0).called <= 0
  BY <1>1, DeadlineAhead
<1>3. NextDeadline(dev, 0) \in 1 .. Forever - 1
  BY <1>1, DeadlineAhead
<1>4. PICK run \in 1 .. Forever - 1 :
        /\ budget' = run
        /\ cpu' = [cpu EXCEPT !.ctr = run, !.offset = run, !.refill = 0, !.cycles = 0]
  BY <1>3, MachineLoopAssumption DEF Look
<1>5. dev' = Service(dev, 0) /\ stage' = "top" /\ retired' = 0 /\ shadow' = shadow
  BY DEF Look
<1>6. run \in Nat /\ run > 0 /\ run \in 0 .. Forever
  BY <1>4 DEF Forever
<1>7. /\ cpu' \in Cpu /\ cpu'.ctr = run /\ cpu'.offset = run /\ cpu'.refill = 0
      /\ cpu'.cycles = 0 /\ cpu'.blocked = cpu.blocked
  BY <1>1, <1>4, <1>6 DEF Cpu
<1>8. TypeOK'
  BY <1>2, <1>4, <1>5, <1>6, <1>7 DEF TypeOK, Inv
<1>9. TimeKept'
  BY <1>4, <1>5, <1>6, <1>7 DEF TimeKept, ClockExact, RunBounded, Elapsed
<1>10. Counted'
  BY <1>4, <1>5, <1>6, <1>7 DEF Counted
<1>11. ClockBehind'
  BY <1>2, <1>5 DEF ClockBehind
<1>12. ShadowBlocks'
  BY <1>5, <1>7 DEF ShadowBlocks, Inv, Look
<1> QED BY <1>8, <1>9, <1>10, <1>11, <1>12 DEF Inv

\* Nothing is counted while an interrupt is delivered.
LEMMA AcceptStep ==
  ASSUME Inv, AcceptInterrupt
  PROVE  Inv'
<1>1. PICK s \in dev.latched : dev' = [dev EXCEPT !.latched = @ \ {s}]
  BY DEF AcceptInterrupt
<1>2. /\ stage = "top" /\ stage' = "execute" /\ shadow' = FALSE
      /\ cpu' = [cpu EXCEPT !.ifl = FALSE, !.halted = FALSE]
      /\ ~cpu.blocked /\ UNCHANGED <<budget, retired>>
  BY DEF AcceptInterrupt, Accepts
<1>3. /\ dev \in Dev /\ cpu \in Cpu
      /\ Elapsed(cpu) = retired /\ retired \in Nat /\ budget \in 0 .. Forever
      /\ budget > 0 /\ retired <= budget + 1
      /\ cpu.ctr > 0 /\ retired + cpu.ctr + cpu.refill <= budget + 1
      /\ dev.called <= retired
  BY <1>2 DEF Inv, TypeOK, TimeKept, ClockExact, RunBounded, Counted, ClockBehind
<1>4. dev' \in Dev /\ dev'.called = dev.called
  BY <1>1, <1>3 DEF Dev
<1>5. /\ cpu' \in Cpu /\ cpu'.ctr = cpu.ctr /\ cpu'.refill = cpu.refill /\ ~cpu'.halted
      /\ ~cpu'.blocked
  BY <1>2, <1>3 DEF Cpu
<1>6. Elapsed(cpu') = Elapsed(cpu)
  BY <1>2, <1>3 DEF Cpu, Elapsed
<1>7. TypeOK'
  BY <1>2, <1>3, <1>4, <1>5 DEF TypeOK
<1>8. TimeKept'
  BY <1>2, <1>3, <1>6 DEF TimeKept, ClockExact, RunBounded, Elapsed
<1>9. Counted'
  BY <1>2, <1>3, <1>5 DEF Counted
<1>10. ClockBehind' /\ ShadowBlocks'
  BY <1>2, <1>3, <1>4 DEF ClockBehind, ShadowBlocks
<1> QED BY <1>7, <1>8, <1>9, <1>10 DEF Inv

\* A run that begins with interrupts blocked begins with one instruction, and
\* has all of the run behind it: the one instruction more.
LEMMA GoOnStep ==
  ASSUME Inv, GoOn
  PROVE  Inv'
<1>1. /\ stage = "top" /\ stage' = (IF cpu.halted THEN "after" ELSE "execute")
      /\ UNCHANGED <<dev, budget, retired, shadow>>
  BY DEF GoOn
<1>2. /\ dev \in Dev /\ cpu \in Cpu
      /\ Elapsed(cpu) = retired /\ retired \in Nat /\ budget \in 0 .. Forever
      /\ budget \in Nat /\ budget > 0 /\ retired <= budget + 1
      /\ cpu.ctr > 0 /\ retired + cpu.ctr + cpu.refill <= budget + 1
      /\ dev.called <= retired /\ shadow \in BOOLEAN /\ (shadow => cpu.blocked)
      /\ cpu.blocked => retired = 0
  BY <1>1 DEF Inv, TypeOK, TimeKept, ClockExact, RunBounded, Counted, ClockBehind,
              ShadowBlocks, Forever
<1>3. ClockBehind'
  BY <1>1, <1>2 DEF ClockBehind
<1>4. CASE ~cpu.halted /\ cpu.blocked
  <2>1. cpu' = [Cut(cpu, 1, budget) EXCEPT !.blocked = FALSE] /\ stage' = "execute"
    BY <1>1, <1>4 DEF GoOn, OneBlocked
  <2>2. PICK y : y = Cut(cpu, 1, budget)
    OBVIOUS
  <2>3. y \in Cpu /\ Elapsed(y) = Elapsed(cpu)
    BY <1>2, <2>2, CutKeepsElapsed
  <2>4. y.ctr = 1 /\ y.refill = budget /\ y.halted = cpu.halted
    BY <1>2, <2>2 DEF Cut, Cpu
  <2>5. /\ cpu' \in Cpu /\ cpu'.ctr = 1 /\ cpu'.refill = budget /\ ~cpu'.halted /\ ~cpu'.blocked
        /\ Elapsed(cpu') = Elapsed(y)
    BY <1>4, <2>1, <2>2, <2>3, <2>4 DEF Cpu, Elapsed
  <2>6. TypeOK'
    BY <1>1, <1>2, <2>1, <2>5 DEF TypeOK
  <2>7. TimeKept'
    BY <1>1, <1>2, <2>3, <2>5 DEF TimeKept, ClockExact, RunBounded, Elapsed
  <2>8. Counted'
    BY <1>1, <1>2, <1>4, <2>1, <2>5 DEF Counted
  <2>9. ShadowBlocks'
    BY <2>1 DEF ShadowBlocks
  <2> QED BY <1>3, <2>6, <2>7, <2>8, <2>9 DEF Inv
<1>5. CASE cpu.halted \/ ~cpu.blocked
  <2>1. cpu' = cpu
    BY <1>5 DEF GoOn
  <2>2. TypeOK'
    BY <1>1, <1>2, <2>1 DEF TypeOK
  <2>3. TimeKept'
    BY <1>1, <1>2, <2>1 DEF TimeKept, ClockExact, RunBounded, Elapsed
  <2>4. Counted'
    BY <1>1, <1>2, <1>5, <2>1 DEF Counted
  <2>5. ShadowBlocks'
    BY <1>1, <1>2, <2>1 DEF ShadowBlocks
  <2> QED BY <1>3, <2>2, <2>3, <2>4, <2>5 DEF Inv
<1> QED BY <1>4, <1>5

\* However much time is skipped, the clock's period began before it.
LEMMA AfterStep ==
  ASSUME ~Periodic, Inv, After
  PROVE  Inv'
<1>1. /\ dev \in Dev /\ cpu \in Cpu /\ Elapsed(cpu) = retired
      /\ retired \in Nat /\ budget \in Nat /\ dev.called <= retired
      /\ shadow \in BOOLEAN /\ (shadow => cpu.blocked)
      /\ retired <= budget + 1
  BY DEF Inv, TypeOK, TimeKept, ClockExact, RunBounded, Counted, ClockBehind, ShadowBlocks,
         After, Forever
<1>2. /\ stage' = "look" /\ budget' = 0 /\ retired' = 0 /\ shadow' = shadow
      /\ cpu' = [cpu EXCEPT !.ctr = 0, !.offset = 0, !.cycles = 0]
  BY DEF After
<1>3. cpu' \in Cpu /\ cpu'.blocked = cpu.blocked
  BY <1>1, <1>2 DEF Cpu
<1>4. PICK d : d = IF cpu.halted /\ cpu.ifl THEN Service(dev, retired) ELSE dev
  OBVIOUS
<1>5. PICK n : n = Skipped(cpu, dev)
  OBVIOUS
<1>6. /\ Service(dev, retired) \in Dev /\ Service(dev, retired).called <= retired
      /\ NextDeadline(dev, retired) \in 1 .. Forever - 1
  <2>1. retired \in Int
    BY <1>1
  <2> QED BY <1>1, <2>1, DeadlineAhead
<1>7. d \in Dev /\ d.called <= retired
  BY <1>1, <1>4, <1>6
<1>8. n \in Int /\ n >= retired
  BY <1>1, <1>5, <1>6 DEF Skipped, Forever
<1>9. dev' = Later(d, n)
  BY <1>1, <1>4, <1>5 DEF After
<1>10. d.timer \in Int /\ d.called \in Int /\ Forever \in Int
  BY <1>7 DEF Dev, Forever
<1>11. PICK t \in Int : dev' = [d EXCEPT !.called = d.called - n, !.timer = t]
  <2>1. (IF d.timer = Forever THEN d.timer ELSE d.timer - n) \in Int
    BY <1>8, <1>10
  <2>2. PICK t \in Int : t = IF d.timer = Forever THEN d.timer ELSE d.timer - n
    BY <2>1
  <2>3. dev' = [d EXCEPT !.called = d.called - n, !.timer = t]
    BY <1>9, <2>2 DEF Later
  <2> QED BY <2>3
<1>12. PICK k \in Int : k = d.called - n /\ k <= 0
  BY <1>1, <1>7, <1>8, <1>10
<1>13. dev' \in Dev /\ dev'.called = k
  BY <1>7, <1>11, <1>12 DEF Dev
<1>14. TypeOK'
  BY <1>1, <1>2, <1>3, <1>13 DEF TypeOK, Forever
<1>15. TimeKept' /\ Counted'
  BY <1>2 DEF TimeKept, ClockExact, RunBounded, Counted
<1>16. ClockBehind' /\ ShadowBlocks'
  BY <1>1, <1>2, <1>3, <1>12, <1>13 DEF ClockBehind, ShadowBlocks
<1> QED BY <1>14, <1>15, <1>16 DEF Inv

-----------------------------------------------------------------------------
(* The theorems.                                                           *)

\* The machine at power-on.
LEMMA InitInv ==
  ASSUME Init
  PROVE  Inv
<1>1. cpu \in Cpu
  BY DEF Init, Cpu
<1>2. dev \in Dev /\ dev.called = 0
  <2>1. Forever \in Int /\ {} \in SUBSET Sources
    BY DEF Forever
  <2> QED BY <2>1 DEF Init, Dev
<1>3. stage \in {"look", "top", "execute", "after"} /\ budget \in 0 .. Forever
  BY DEF Init, Forever
<1>4. TypeOK
  BY <1>1, <1>2, <1>3 DEF Init, TypeOK
<1> QED BY <1>2, <1>4
        DEF Init, Inv, TimeKept, ClockExact, RunBounded, Counted, ClockBehind, ShadowBlocks

\* Every step of the loop and of the guest keeps the invariant.
LEMMA StepInv ==
  ASSUME ~Periodic, Inv, [Next]_vars
  PROVE  Inv'
<1>1. CASE Look
  BY <1>1, LookStep
<1>2. CASE AcceptInterrupt
  BY <1>2, AcceptStep
<1>3. CASE GoOn
  BY <1>3, GoOnStep
<1>4. CASE After
  BY <1>4, AfterStep
<1>5. CASE Fault
  BY <1>5, FaultStep
<1>6. CASE Guest /\ ~Fault
  BY <1>6, GuestStep
<1>7. CASE UNCHANGED vars
  BY <1>7 DEF vars, Inv, TypeOK, TimeKept, ClockExact, RunBounded, Counted, ClockBehind,
              ShadowBlocks, Elapsed
<1> QED BY <1>1, <1>2, <1>3, <1>4, <1>5, <1>6, <1>7 DEF Next

\* The loop keeps its types.
THEOREM TypeCorrect ==
  ASSUME ~Periodic
  PROVE  Spec => []TypeOK
<1>1. Inv /\ [Next]_vars => Inv'
  BY StepInv
<1>2. Inv => TypeOK
  BY DEF Inv
<1> QED BY InitInv, <1>1, <1>2, PTL DEF Spec

\* However cpu_run cuts its runs (interrupt_guard, INTERNAL_CPU_LOOP_EXIT,
\* cpu_cancel_execution_cycle, faults), cpu_get_cycles counts every instruction
\* once, and pc_execute looks at the devices after the instructions they
\* allowed, and one more at most.
THEOREM TimeIsKept ==
  ASSUME ~Periodic
  PROVE  Spec => []TimeKept
<1>1. Inv /\ [Next]_vars => Inv'
  BY StepInv
<1>2. Inv => TimeKept
  BY DEF Inv
<1> QED BY InitInv, <1>1, <1>2, PTL DEF Spec

\* No interrupt is accepted between STI or a load of SS and the end of the
\* instruction behind it: interrupts_blocked is set when a run ends in between.
THEOREM ShadowIsKept ==
  ASSUME ~Periodic
  PROVE  Spec => ShadowKept
<1>1. Inv /\ [Next]_vars => Inv'
  BY StepInv
<1>2. Inv => [AcceptInterrupt => ~shadow]_vars
  BY DEF Inv, ShadowBlocks, AcceptInterrupt, Accepts
<1> QED BY InitInv, <1>1, <1>2, PTL DEF Spec, ShadowKept
=============================================================================
