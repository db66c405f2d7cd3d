---------------------------- MODULE MachineLoop ----------------------------
(***************************************************************************)
(* The machine's loop: pc_execute (src/src/pc.c) looks at the devices,     *)
(* runs the CPU for as long as none has a deadline (cpu_run,               *)
(* src/src/cpu/cpu.c), and skips the time a halted CPU would wait.         *)
(*                                                                         *)
(* The clock counts instructions, and cpu_run counts them down in pieces:  *)
(* STI, a write that raises INTR, HLT and others cut the piece that runs   *)
(* (cycles_to_run) and leave the rest in refill_counter.  The devices with *)
(* deadlines are the APIC's timer and the CMOS clock; the PIT and the ACPI *)
(* timer are not running, and answer that they have none.  INTR is up when *)
(* an interrupt is latched: priorities are in modules Pic and Apic.        *)
(*                                                                         *)
(* Times are relative to the last look at the devices.                     *)
(***************************************************************************)
EXTENDS Integers

CONSTANTS
  Cap,        \* the longest run: 200000 in the code
  Second,     \* ticks_per_second
  RtcPeriod,  \* ticks between two periodic interrupts of the CMOS clock
  Counts,     \* the periods the guest gives the APIC's timer
  Periodic    \* the guest uses that timer's periodic mode

Forever == 1000   \* 0xFFFFFFFF of the code: no deadline

ASSUME MachineLoopAssumption ==
  /\ {Cap, Second, RtcPeriod} \subseteq 1 .. Forever - 1
  /\ Counts \subseteq 1 .. Forever - 1
  /\ Periodic \in BOOLEAN

VARIABLES
  cpu,     \* the counters of cpu_run, and what decides whether it accepts
  dev,     \* the devices, and the interrupts latched
  stage,   \* where pc_execute is
  budget,  \* cycles_to_run of pc_execute
  retired, \* history: instructions completed in this run
  shadow   \* history: the last instruction was STI or loaded SS

vars == <<cpu, dev, stage, budget, retired, shadow>>

\* "ctr" is cycles_to_run, "offset" cycle_offset, "refill" refill_counter;
\* "blocked" is interrupts_blocked, "ifl" EFLAGS.IF, "halted" says exit_reason
\* is EXIT_STATUS_HLT.
Cpu == [ctr : Nat, offset : Nat, refill : Nat, cycles : Nat,
        blocked : BOOLEAN, halted : BOOLEAN, ifl : BOOLEAN]

Sources == {"timer", "rtc", "other"}

\* "called" is cmos.last_called, "enables" the interrupts of status register B,
\* "flag" bit 7 of register C, "line" the pin of IRQ 8; "timer" is timer_next.
Dev == [called : Int, enables : SUBSET {"periodic", "update"},
        flag : BOOLEAN, line : BOOLEAN,
        timer : Int, period : Nat, masked : BOOLEAN, latched : SUBSET Sources]

TypeOK ==
  /\ cpu \in Cpu
  /\ dev \in Dev
  /\ stage \in {"look", "top", "execute", "after"}
  /\ budget \in 0 .. Forever
  /\ retired \in Nat /\ shadow \in BOOLEAN

-----------------------------------------------------------------------------
(* The devices at time t.                                                  *)

CmosPeriod(d) == IF "periodic" \in d.enables THEN RtcPeriod ELSE Second

\* cmos_raise_irq; the 8259 latches a line that was low.
RaiseRtc(d) ==
  [d EXCEPT !.flag = TRUE, !.line = TRUE,
            !.latched = IF d.line THEN @ ELSE @ \cup {"rtc"}]

CmosClock(d, t) ==
  LET called == [d EXCEPT !.called = t]
  IN  IF t < d.called + CmosPeriod(d) THEN d
      ELSE IF d.enables = {} THEN called ELSE RaiseRtc(called)

CmosNext(d, t) == d.called + CmosPeriod(d) - t

\* apic_next, what it does to the timer: a periodic one is moved on by one
\* period, a one-shot one is stopped.
TimerFires(d, t) == d.timer # Forever /\ d.timer <= t

ApicClock(d, t) ==
  IF ~TimerFires(d, t) THEN d
  ELSE [d EXCEPT !.timer = IF Periodic THEN @ + d.period ELSE Forever,
                 !.latched = IF d.masked THEN @ ELSE @ \cup {"timer"}]

\* ... and what it answers, d being the state before: nothing if it has just
\* sent an interrupt, nor if the timer is still late.
ApicNext(d, t) ==
  LET after == ApicClock(d, t).timer
  IN  IF (TimerFires(d, t) /\ ~d.masked) \/ after = Forever \/ after < t
      THEN Forever ELSE after - t

\* devices_get_next_raw.
Service(d, t) == ApicClock(CmosClock(d, t), t)
NextDeadline(d, t) ==
  LET c == CmosClock(d, t)
  IN  IF CmosNext(c, t) < ApicNext(c, t) THEN CmosNext(c, t) ELSE ApicNext(c, t)

\* n ticks later.
Later(d, n) ==
  [d EXCEPT !.called = @ - n, !.timer = IF @ = Forever THEN @ ELSE @ - n]

-----------------------------------------------------------------------------
(* The counters.                                                           *)

\* cpu_get_cycles, from the start of the run.
Elapsed(c) == c.cycles + c.offset - c.ctr

\* The piece that runs is cut to n instructions, and rest are left for later.
Cut(c, n, rest) ==
  [c EXCEPT !.cycles = Elapsed(c), !.ctr = n, !.offset = n, !.refill = rest]

\* Fault: at the end of a run nothing is remembered.
GuardForgets(c) == IF c.ctr # 1 THEN Cut(c, 2, c.ctr - 2) ELSE Cut(c, 1, 0)

\* Fault: the end of a run is not told apart.
GuardUnchecked(c) == Cut(c, 2, c.ctr - 2)

\* interrupt_guard: no interrupt after the next instruction but one.
Guard(c) ==
  IF c.ctr # 1 THEN Cut(c, 2, c.ctr - 2)
  ELSE [Cut(c, 1, 0) EXCEPT !.blocked = TRUE]

\* Fault: the cycles run so far are not added.
LoopExitUncounted(c) == [c EXCEPT !.ctr = 1, !.offset = 1, !.refill = c.ctr - 1]

\* INTERNAL_CPU_LOOP_EXIT, also cpu_request_fast_return.
LoopExit(c) == Cut(c, 1, c.ctr - 1)

\* cpu_cancel_execution_cycle(EXIT_STATUS_NORMAL).
Cancel(c) == [Cut(c, 1, 0) EXCEPT !.halted = FALSE]

\* op_hlt
Halt(c) == [Cut(c, 1, 0) EXCEPT !.blocked = FALSE, !.halted = TRUE]

\* EXCEP: a faulting instruction takes no cycle.
Excep(c) == [c EXCEPT !.ctr = @ + 1, !.ifl = FALSE]

\* The end of an instruction in cpu_execute, and of a piece in cpu_run.
CountDown(c) == [c EXCEPT !.ctr = @ - 1]
NextPiece(c) == Cut(c, c.refill, 0)

\* cpu_run goes on to a single instruction while interrupts are blocked, the
\* whole budget behind it.
OneBlocked(c) == [Cut(c, 1, budget) EXCEPT !.blocked = FALSE]

-----------------------------------------------------------------------------
(* pc_execute.                                                             *)

\* devices_get_next, and the start of cpu_run.
Look ==
  /\ stage = "look"
  /\ LET next == NextDeadline(dev, 0)
         run  == IF cpu.halted \/ next <= Cap THEN next ELSE Cap
     IN  /\ budget' = run
         /\ cpu' = [cpu EXCEPT !.ctr = run, !.offset = run, !.refill = 0, !.cycles = 0]
  /\ dev' = Service(dev, 0)
  /\ stage' = "top" /\ retired' = 0
  /\ UNCHANGED shadow

Accepts == cpu.ifl /\ ~cpu.blocked /\ dev.latched # {}

\* The start of each turn of cpu_run's loop, when it accepts an interrupt ...
AcceptInterrupt ==
  /\ stage = "top" /\ Accepts
  /\ \E s \in dev.latched : dev' = [dev EXCEPT !.latched = @ \ {s}]
  /\ cpu' = [cpu EXCEPT !.ifl = FALSE, !.halted = FALSE]
  /\ stage' = "execute" /\ shadow' = FALSE
  /\ UNCHANGED <<budget, retired>>

\* ... or not.
GoOn ==
  /\ stage = "top" /\ ~Accepts
  /\ stage' = IF cpu.halted THEN "after" ELSE "execute"
  /\ cpu' = IF ~cpu.halted /\ cpu.blocked THEN OneBlocked(cpu) ELSE cpu
  /\ UNCHANGED <<dev, budget, retired, shadow>>

\* Fault: a halted CPU's time stands still.
SkippedNothing(c, d) == Elapsed(c)

\* How far the clock is when pc_execute looks again: a CPU halted with
\* interrupts enabled is taken past the rest of its run, and past the next
\* deadline.
Skipped(c, d) ==
  IF c.halted /\ c.ifl THEN budget + NextDeadline(d, Elapsed(c)) ELSE Elapsed(c)

After ==
  /\ stage = "after"
  /\ dev' = Later(IF cpu.halted /\ cpu.ifl THEN Service(dev, Elapsed(cpu)) ELSE dev,
                  Skipped(cpu, dev))
  /\ stage' = "look"
  /\ budget' = 0 /\ retired' = 0
  /\ cpu' = [cpu EXCEPT !.ctr = 0, !.offset = 0, !.cycles = 0]
  /\ UNCHANGED shadow

-----------------------------------------------------------------------------
(* The guest's instructions.                                               *)

\* An instruction that leaves the counters in c.
Completes(c) ==
  LET d == CountDown(c)
      e == IF d.ctr = 0 THEN NextPiece(d) ELSE d
  IN  /\ cpu' = e
      /\ stage' = IF d.ctr # 0 THEN "execute" ELSE IF e.ctr = 0 THEN "after" ELSE "top"
      /\ UNCHANGED budget

Retires(c, shadows) ==
  /\ stage = "execute"
  /\ Completes(c)
  /\ retired' = retired + 1 /\ shadow' = shadows

Plain == Retires(cpu, FALSE) /\ UNCHANGED dev

Sti == Retires(Guard([cpu EXCEPT !.ifl = TRUE]), TRUE) /\ UNCHANGED dev

LoadSs == Retires(Guard(cpu), TRUE) /\ UNCHANGED dev

Cli == Retires([cpu EXCEPT !.ifl = FALSE], FALSE) /\ UNCHANGED dev

\* POPF, IRET: cpu_set_eflags leaves the loop when IF changes.
Popf == Retires(LoopExit([cpu EXCEPT !.ifl = ~@]), FALSE) /\ UNCHANGED dev

\* A port write that has a device raise INTR.
Kick ==
  /\ Retires(LoopExit(cpu), FALSE)
  /\ dev' = [dev EXCEPT !.latched = @ \cup {"other"}]

Hlt == Retires(Halt(cpu), FALSE) /\ UNCHANGED dev

\* Handlers of exceptions, which run with interrupts disabled, do not fault.
Fault ==
  /\ stage = "execute" /\ cpu.ifl
  /\ Completes(Excep(cpu))
  /\ shadow' = FALSE
  /\ UNCHANGED <<dev, retired>>

\* The APIC timer's initial count (0 stops it) ...
SetTimer ==
  \E n \in Counts \cup {0} :
    /\ Retires(Cancel(cpu), FALSE)
    /\ dev' = [dev EXCEPT !.timer = IF n = 0 THEN Forever ELSE Elapsed(cpu) + n,
                          !.period = n]

\* ... and the mask in its LVT entry, with which the timer runs on.
MaskTimer ==
  /\ Retires(cpu, FALSE)
  /\ \E m \in BOOLEAN : dev' = [dev EXCEPT !.masked = m]

\* Fault: the line of the CMOS clock stays up.
Acknowledged(d) == [d EXCEPT !.flag = FALSE]

\* A read of CMOS register C.
ReadC(d) == [d EXCEPT !.flag = FALSE, !.line = FALSE, !.latched = @ \ {"rtc"}]

ReadRegisterC == Retires(cpu, FALSE) /\ dev' = ReadC(dev)

\* A write of register B: the period starts anew, the flag stays.
WriteRegisterB ==
  /\ Retires(cpu, FALSE)
  /\ \E e \in SUBSET {"periodic", "update"} :
       dev' = [dev EXCEPT !.enables = e, !.called = Elapsed(cpu)]

Guest ==
  \/ Plain \/ Sti \/ LoadSs \/ Cli \/ Popf \/ Kick \/ Hlt \/ Fault
  \/ SetTimer \/ MaskTimer \/ ReadRegisterC \/ WriteRegisterB

-----------------------------------------------------------------------------

Init ==
  /\ cpu = [ctr |-> 0, offset |-> 0, refill |-> 0, cycles |-> 0,
            blocked |-> FALSE, halted |-> FALSE, ifl |-> FALSE]
  /\ dev = [called |-> 0, enables |-> {}, flag |-> FALSE, line |-> FALSE,
            timer |-> Forever, period |-> 0, masked |-> TRUE, latched |-> {}]
  /\ stage = "look" /\ budget = 0 /\ retired = 0 /\ shadow = FALSE

Next == Look \/ AcceptInterrupt \/ GoOn \/ After \/ Guest

Spec == Init /\ [][Next]_vars

\* The loop of main.c calls pc_execute for ever.
FairSpec == Spec /\ WF_vars(Next)

-----------------------------------------------------------------------------
(* Properties.                                                             *)

\* The clock that devices and guest read is the number of instructions run,
\* whatever cuts the pieces of a run short: none is lost or counted twice.
ClockExact == stage \in {"top", "execute", "after"} => Elapsed(cpu) = retired

\* However often a guest cuts its run (STI after STI, loads of SS, POPF, port
\* writes, faults), the devices are looked at after the instructions they
\* allowed, and one more at most.
RunBounded == stage # "look" => budget > 0 /\ retired <= budget + 1

\* Both: time is counted once, and the devices learn of it when they asked to.
TimeKept == ClockExact /\ RunBounded

\* No interrupt is accepted between STI or a load of SS and the end of the
\* instruction behind it, also when the first ends a run and the devices are
\* looked at in between.
ShadowKept == [][AcceptInterrupt => ~shadow]_vars

\* A CPU halted with interrupts enabled and the APIC's timer running goes on:
\* HLT is left though the loop runs no instruction.
Idle == cpu.halted /\ cpu.ifl
IdleWakes == (Idle /\ dev.timer # Forever /\ ~dev.masked) ~> ~cpu.halted

\* The periodic interrupts of the CMOS clock never stop for a guest that goes on
\* reading register C and does not halt for good.
RtcWritten ==
  stage = "execute" /\ (dev'.enables # dev.enables \/ dev'.called # dev.called)

RtcKeepsTicking ==
  (/\ <>[](dev.enables = {"periodic"} /\ (cpu.halted => cpu.ifl))
   /\ <>[][~RtcWritten]_vars
   /\ []<>(~dev.flag))
     => []<>("rtc" \in dev.latched)

=============================================================================
