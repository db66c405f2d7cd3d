-------------------------------- MODULE Apic --------------------------------
(***************************************************************************)
(* The I/O APIC (src/src/hardware/ioapic.c) and the local APIC             *)
(* (src/src/hardware/apic.c) of the single processor, as far as requests   *)
(* go: from a device's line through the redirection table to a vector, its *)
(* acceptance and its end.  The CPU's INTR line, which the 8259 drives     *)
(* too, is in module IrqFabric; here it is up when the APIC has raised it. *)
(* Names that Pic has too carry Apic or Io here, as IrqFabric extends both.*)
(*                                                                         *)
(* The 256-bit registers are sets of vectors.  Left out, as no request     *)
(* depends on them: PPR (stored, never read), the identifiers, destinations*)
(* (every one reaches the only processor), errors, polarity, the registers *)
(* of the timer.  The guest writes 32-bit registers at once, delivers      *)
(* fixed or lowest priority, and does not write ISR, TMR and IRR, which a  *)
(* real APIC has read-only.                                                *)
(***************************************************************************)
EXTENDS Integers, FiniteSetsExt

CONSTANTS
  IoLines,     \* the I/O APIC's input lines in use, of 0 .. 23
  Vectors,     \* the vectors in use
  ClassSize,   \* vectors of one priority class: 16 in the code
  Entries,     \* what the guest writes to the redirection table: see EntryWrites
  OwnVectors,  \* vectors the guest sends to itself (ICR), or the APIC's timer sends
  Classes,     \* the priority classes the guest writes to TPR
  Careful,     \* a level line in flight is not reprogrammed, nor lowered unaccepted
  Restarts     \* the guest can reset the machine

EntryWrites == [vector : Vectors, masked : BOOLEAN, level : BOOLEAN]

ASSUME ApicAssumption ==
  /\ Vectors \subseteq 1 .. 255
  /\ IoLines \subseteq 0 .. 23
  /\ ClassSize \in Nat \ {0}
  /\ Entries \in [IoLines -> SUBSET EntryWrites]
  /\ OwnVectors \subseteq Vectors
  /\ Classes \subseteq Nat
  /\ Careful \in BOOLEAN /\ Restarts \in BOOLEAN

VARIABLE apic

\* A redirection entry; "remote" is its Remote IRR bit, and 0 the vector after
\* a reset.
Entry == [vector : Vectors \cup {0}, masked : BOOLEAN, level : BOOLEAN, remote : BOOLEAN]

\* "sent" is apic.intr_line_state, "pins" and "lines" are the I/O APIC's
\* pin_state and irr.
ApicState ==
  [irr : SUBSET Vectors, isr : SUBSET Vectors, tmr : SUBSET Vectors,
   tpr : Nat, sent : BOOLEAN,
   pins : SUBSET IoLines, lines : SUBSET IoLines, entry : [IoLines -> Entry]]

Class(v) == v \div ClassSize

-----------------------------------------------------------------------------
(* The local APIC.                                                         *)

\* Whether the request of the highest vector may interrupt what is in service.
Sendable(a) ==
  \E v \in a.irr : /\ \A w \in a.irr : w <= v
                   /\ \A w \in a.isr : w < v
                   /\ Class(v) > a.tpr

\* apic_send_highest_priority_interrupt
Send(a) == IF ~a.sent /\ Sendable(a) THEN [a EXCEPT !.sent = TRUE] ELSE a

\* apic_receive_bus_message: a vector already requested is not requested twice.
Receive(a, v, level) ==
  IF v \in a.irr THEN a
  ELSE Send([a EXCEPT !.irr = @ \cup {v},
                      !.tmr = IF level THEN @ \cup {v} ELSE @ \ {v}])

\* Fault: sent stays set.
AcknowledgeStillSent(a) ==
  [a EXCEPT !.irr = @ \ {Max(a.irr)}, !.isr = @ \cup {Max(a.irr)}]

\* apic_get_interrupt
Acknowledge(a) ==
  [a EXCEPT !.irr = @ \ {Max(a.irr)}, !.isr = @ \cup {Max(a.irr)}, !.sent = FALSE]

\* ioapic_remote_eoi: every line with this vector may interrupt again.
RemoteEoi(a, v) ==
  [a EXCEPT !.entry = [l \in IoLines |-> IF @[l].vector = v
                                         THEN [@[l] EXCEPT !.remote = FALSE] ELSE @[l]]]

\* Fault: the end of an interrupt does not look for the next.
EndOfInterruptNoSend(a) ==
  IF a.isr = {} THEN a
  ELSE LET v == Max(a.isr)
           b == [a EXCEPT !.isr = @ \ {v}]
       IN  IF v \in a.tmr THEN RemoteEoi(b, v) ELSE b

\* Fault: the I/O APIC is not told of the end.
EndOfInterruptLocal(a) ==
  IF a.isr = {} THEN a ELSE Send([a EXCEPT !.isr = @ \ {Max(a.isr)}])

EndOfInterrupt(a) ==
  IF a.isr = {} THEN a
  ELSE LET v == Max(a.isr)
           b == [a EXCEPT !.isr = @ \ {v}]
       IN  Send(IF v \in a.tmr THEN RemoteEoi(b, v) ELSE b)

SetPriority(a, t) == Send([a EXCEPT !.tpr = t])

-----------------------------------------------------------------------------
(* The I/O APIC.                                                           *)

\* Fault: masked lines send too.
UpdateUnmasked(a) ==
  Send([a EXCEPT !.irr = @ \cup {a.entry[l].vector : l \in a.lines},
                 !.lines = {l \in @ : a.entry[l].level}])

\* ioapic_update goes through the lines in order and sends the vector of each
\* that is requested and not masked; an edge request is used up.  The first
\* line that sends a new vector decides its trigger mode.
UpdateIo(a) ==
  LET due == {l \in a.lines : ~a.entry[l].masked}
      new == {a.entry[l].vector : l \in due} \ a.irr
      levels == {v \in new : \E l \in due :
                               /\ a.entry[l].vector = v /\ a.entry[l].level
                               /\ \A k \in due : a.entry[k].vector = v => l <= k}
      b == [a EXCEPT !.lines = @ \ {l \in due : ~a.entry[l].level}]
  IN  IF new = {} THEN b
      ELSE Send([b EXCEPT !.irr = @ \cup new, !.tmr = (@ \ new) \cup levels])

Request(a, l) == [a EXCEPT !.pins = @ \cup {l}, !.lines = @ \cup {l}]

\* ioapic_raise_irq: a level line waits for the end of its last interrupt, and
\* what it asks meanwhile is dropped; an edge line must have been low.
RaiseIoLine(a, l) ==
  CASE a.entry[l].level /\ a.entry[l].remote -> a
    [] a.entry[l].level /\ ~a.entry[l].remote ->
         UpdateIo([Request(a, l) EXCEPT !.entry[l].remote = TRUE])
    [] ~a.entry[l].level -> IF l \in a.pins THEN a ELSE UpdateIo(Request(a, l))

LowerIoLine(a, l) ==
  [a EXCEPT !.pins = @ \ {l}, !.lines = IF a.entry[l].level THEN @ \ {l} ELSE @]

\* ioapic_write of an entry's lower half, unless it is what was there; the
\* Remote IRR written is what the guest read, now or before.
WriteEntry(a, l, w, remote) ==
  LET e == [vector |-> w.vector, masked |-> w.masked, level |-> w.level, remote |-> remote]
  IN  IF e = a.entry[l] THEN a ELSE UpdateIo([a EXCEPT !.entry[l] = e])

\* apic_reset and ioapic_reset: requests, services and intr_line_state survive.
MaskedEntry == [vector |-> 0, masked |-> TRUE, level |-> FALSE, remote |-> FALSE]
ResetApic(a) == [a EXCEPT !.entry = [l \in IoLines |-> MaskedEntry]]

-----------------------------------------------------------------------------

ApicPowerOn ==
  [irr |-> {}, isr |-> {}, tmr |-> {}, tpr |-> 0, sent |-> FALSE,
   pins |-> {}, lines |-> {}, entry |-> [l \in IoLines |-> MaskedEntry]]

ApicInit == apic = ApicPowerOn

\* Whether an interrupt of level line l is under way.
InFlight(l) ==
  \/ l \in apic.pins \cup apic.lines
  \/ apic.entry[l].remote
  \/ apic.entry[l].vector \in apic.irr \cup apic.isr

RaiseIo(l) == apic' = RaiseIoLine(apic, l)

\* A careful device holds a level line until the handler deals with it.
LowerIo(l) ==
  /\ Careful /\ apic.entry[l].level => apic.entry[l].vector \in apic.isr
  /\ apic' = LowerIoLine(apic, l)

\* With the trigger mode the guest chooses (ICR bit 15).
Own(v) == \E level \in BOOLEAN : apic' = Receive(apic, v, level)

Accept ==
  /\ apic.sent
  /\ apic' = Acknowledge(apic)

Eoi == apic' = EndOfInterrupt(apic)

Tpr == \E t \in Classes : apic' = SetPriority(apic, t)

Program(l) ==
  \E w \in Entries[l], remote \in {FALSE, apic.entry[l].remote} :
    /\ Careful /\ (apic.entry[l].level \/ w.level) => ~InFlight(l)
    /\ apic' = WriteEntry(apic, l, w, remote)

Restart == Restarts /\ apic' = ResetApic(apic)

ApicNext ==
  \/ \E l \in IoLines : RaiseIo(l) \/ LowerIo(l) \/ Program(l)
  \/ \E v \in OwnVectors : Own(v)
  \/ Accept \/ Eoi \/ Tpr \/ Restart

ApicSpec == ApicInit /\ [][ApicNext]_apic

\* cpu_run accepts what the guest lets it.
ApicFairSpec == ApicSpec /\ WF_apic(Accept)

-----------------------------------------------------------------------------
(* Properties.                                                             *)

ApicTypeOK == apic \in ApicState

\* When the APIC has raised INTR there is a request that outranks everything in
\* service, so an acceptance, however late, finds a vector (the "spurious
\* interrupts" at which apic_get_interrupt gives up are never met) and nests.
NeverSpurious ==
  apic.sent => \E v \in apic.irr : \A w \in apic.isr : w < v

\* No request that may be served waits without INTR: after any sequence of
\* lines, messages, acceptances, ends, priorities and table writes.
NothingWaits == Sendable(apic) => apic.sent

\* A line whose Remote IRR discards its requests has an end of interrupt ahead
\* that will clear it: it is asking, or its vector is requested or served as
\* level triggered.  Otherwise the line is dead for ever.  Holds of careful
\* guests and devices, with vectors that edge lines do not share.
RemoteEnds ==
  \A l \in IoLines :
    apic.entry[l].remote =>
      \/ l \in apic.lines /\ apic.entry[l].masked
      \/ apic.entry[l].vector \in (apic.irr \cup apic.isr) \cap apic.tmr

\* Once the task priority stays 0, every vector and every line that may send is
\* served in the end, provided the guest ends what it serves and no device asks
\* again.
NothingAsks == apic'.irr \subseteq apic.irr

RequestsServed ==
  (/\ <>[](apic.tpr = 0)
   /\ <>[][NothingAsks]_apic
   /\ []<>(apic.isr = {}))
     => []<>(apic.irr = {})

=============================================================================
