-------------------------------- MODULE Fdc --------------------------------
(***************************************************************************)
(* The floppy controller of src/src/hardware/fdc.c over channel 2 of the   *)
(* DMA controller: bytes of a command go in, data moves when the channel   *)
(* lets it, the result comes out byte by byte, and line 6 says so.         *)
(*                                                                         *)
(* One drive with one track and nothing in the other.  A unit is a sector. *)
(* Commands that act alike are one; two bytes stand for the result of a    *)
(* transfer and one for a report.  Left out: the values of a result, the   *)
(* count of senses after a reset, motors, media change, drives that answer *)
(* later (drive.c has none), write protection (it ends as a missing medium *)
(* does).                                                                  *)
(*                                                                         *)
(* The guest is a driver: it programs the channel for a command before it  *)
(* sends one, waits for the interrupt, reads the result, lets go of the    *)
(* line by a write of the DOR, and takes the channel's request back when   *)
(* it gives up.                                                            *)
(***************************************************************************)
EXTENDS Dma

CONSTANTS
  Sectors,   \* sectors of the track
  Data,      \* what a sector may hold
  Fill,      \* what formatting leaves in one
  None       \* no command outstanding

ASSUME FdcAssumption == Sectors \in 1 .. Bank /\ Fill \in Data

VARIABLES
  fdc,       \* struct fdc, and its line at the interrupt controller
  dma,       \* channel 2
  memory,    \* the guest's memory
  disk,      \* the medium
  order      \* the guest's: the command whose interrupt it waits for

vars == <<fdc, dma, memory, disk, order>>

Sector  == 0 .. Sectors - 1
Moving  == {"read", "write", "format"}
Opcode  == Moving \cup {"other"}

\* Sector numbers start at 1 in the code; Sectors stands for one not there.
Command ==
  [op : {"read", "write"}, there : BOOLEAN, first : 0 .. Sectors, last : Sector]
    \cup [op : {"format"}, there : BOOLEAN, first : {0}, last : {Sectors - 1}]
    \cup [op : {"calibrate", "settings"}, there : {TRUE}, first : {0}, last : {0}]

ResetOrder == [op |-> "reset", there |-> TRUE, first |-> 0, last |-> 0]
Order == [command : Command \cup {ResetOrder}, heard : BOOLEAN]

ASSUME NoneAssumption == None \notin Order

Controller ==
  [op : Opcode,              \* command_buffer[0]
   missing : BOOLEAN,        \* bytes of a command are still to come
   busy : BOOLEAN,           \* MSR_CB
   answer : BOOLEAN,         \* MSR_DIO
   left : 0 .. 2,            \* response bytes not read
   result : {"none", "done", "failed"},   \* ST0 of a transfer's response
   line : BOOLEAN,           \* SRA_INTPEND and the line
   latched : BOOLEAN,        \* the request at the interrupt controller
   at : Sector,              \* seek_internal_lba
   length : Address,         \* write_length, one less
   formatted : BOOLEAN,      \* format_dma_pos is at the end
   buffer : [Address -> Data]]

Blank == [k \in Address |-> Fill]

TypeOK ==
  /\ fdc \in Controller
  /\ dma \in Channel
  /\ memory \in [Address -> Data]
  /\ disk \in [Sector -> Data]
  /\ order \in Order \cup {None}

-----------------------------------------------------------------------------
(* Registers and line.                                                     *)

\* fdc_raise_irq: the controllers hear an edge only.
Raise(f) ==
  [f EXCEPT !.line = TRUE, !.latched = @ \/ ~f.line]

Lower(f) == [f EXCEPT !.line = FALSE, !.latched = FALSE]

\* reset_out_fifo.
Respond(f, n) ==
  [f EXCEPT !.left = n, !.answer = n # 0, !.busy = n # 0, !.result = "none"]

\* Fault: a command that fails does not interrupt.
EndSilentFailure(f, result) ==
  LET g == [Respond(f, 2) EXCEPT !.missing = FALSE, !.result = result,
                                 !.buffer = Blank, !.length = 0]
  IN IF result = "done" THEN Raise(g) ELSE g

\* The end of a command that moves data, also of one that is aborted.  Buffer and
\* length, which the code leaves as they are, are forgotten here: the next command
\* that uses them has set them first.
End(f, result) ==
  Raise([Respond(f, 2) EXCEPT !.missing = FALSE, !.result = result,
                              !.buffer = Blank, !.length = 0])

\* fdc_reset.  The response and the line are left alone.
ResetFdc(f) ==
  [f EXCEPT !.missing = FALSE, !.busy = FALSE, !.answer = FALSE, !.at = 0]

-----------------------------------------------------------------------------
(* Data.  s is the record of all but the guest's order.                    *)

State == [fdc |-> fdc, dma |-> dma, memory |-> memory, disk |-> disk]

\* The medium after the buffer is written to it.
Written(s) ==
  [b \in Sector |-> IF b \in s.fdc.at .. s.fdc.at + s.fdc.length
                    THEN s.fdc.buffer[b - s.fdc.at] ELSE s.disk[b]]

\* fdc_dma_complete goes by the first byte in the command buffer.  Formatting
\* goes on where the last one stopped.
DmaComplete(s) ==
  CASE s.fdc.op = "read" -> [s EXCEPT !.fdc = End(@, "done")]
    [] s.fdc.op = "write" ->
         [s EXCEPT !.disk = Written(s), !.fdc = End(@, "done")]
    [] s.fdc.op = "format" ->
         [s EXCEPT !.disk = IF s.fdc.formatted THEN @ ELSE [b \in Sector |-> Fill],
                   !.fdc = End([@ EXCEPT !.formatted = TRUE,
                                         !.at = IF s.fdc.formatted THEN s.fdc.at
                                                ELSE Sectors - 1], "done")]
    [] OTHER -> s

\* dma_run_transfers, called whenever something may have made it due.
RunTransfers(s) ==
  IF ~Due(s.dma) THEN s
  ELSE DmaComplete(
    [s EXCEPT !.dma = Transferred(@),
              !.memory = IF s.dma.toMemory
                         THEN IntoMemory(s.dma, @, s.fdc.buffer) ELSE @,
              !.fdc.buffer = IF s.dma.toMemory THEN @
                             ELSE IntoBuffer(s.dma, s.memory, @)])

RaiseDreq(s) == RunTransfers([s EXCEPT !.dma.request = TRUE])

\* The last byte of a command that moves data.  A read fetches the data at
\* once, a write when the channel has brought it.
Execute(s, c) ==
  LET f == s.fdc
      n == c.last - c.first
  IN IF ~c.there \/ c.first \notin Sector THEN [s EXCEPT !.fdc = End(f, "failed")]
     ELSE CASE c.op = "format" -> RaiseDreq(s)
            [] c.op = "write" ->
                 RaiseDreq([s EXCEPT !.fdc = [f EXCEPT !.at = c.first, !.length = n,
                                                       !.missing = FALSE]])
            [] c.op = "read" ->
                 RaiseDreq([s EXCEPT !.fdc =
                   [f EXCEPT !.at = c.first, !.missing = FALSE, !.busy = TRUE,
                             !.buffer = [k \in Address |-> IF k <= n THEN disk[c.first + k]
                                                           ELSE @[k]]]])

-----------------------------------------------------------------------------
(* The guest.                                                              *)

Becomes(s) ==
  fdc' = s.fdc /\ dma' = s.dma /\ memory' = s.memory /\ disk' = s.disk

\* The channel is set up for what a command moves.
Fits(c) ==
  c.op \in Moving => dma.count = c.last - c.first /\ dma.toMemory = (c.op = "read")

Quiet == ~fdc.answer /\ ~fdc.busy /\ ~fdc.missing

Program(a, n, toMemory) ==
  /\ order = None /\ dma.masked
  /\ dma' = Programmed(dma, a, n, toMemory)
  /\ UNCHANGED <<fdc, memory, disk, order>>

Mask ==
  order = None /\ dma' = [dma EXCEPT !.masked = TRUE] /\ UNCHANGED <<fdc, memory, disk, order>>

Unmask ==
  /\ dma.masked
  /\ Becomes(RunTransfers([State EXCEPT !.dma.masked = FALSE]))
  /\ UNCHANGED order

\* The first bytes of a command ...
Begin(c) ==
  /\ order = None /\ Quiet /\ ~fdc.line
  /\ c.first <= c.last \/ c.first = Sectors
  /\ c.first # Sectors => Fits(c)
  /\ fdc' = [fdc EXCEPT !.op = IF c.op \in Moving THEN c.op ELSE "other",
                      !.missing = TRUE]
  /\ order' = [command |-> c, heard |-> FALSE]
  /\ UNCHANGED <<dma, memory, disk>>

\* ... and the last.  Calibrating and the settings take no time.
Finish ==
  /\ fdc.missing /\ order # None /\ ~dma.request
  /\ LET c == order.command
     IN CASE c.op \in Moving -> Becomes(Execute(State, c)) /\ UNCHANGED order
          [] c.op = "calibrate" ->
               /\ Becomes([State EXCEPT !.fdc =
                             Raise([fdc EXCEPT !.missing = FALSE, !.at = 0])])
               /\ UNCHANGED order
          [] c.op = "settings" ->
               /\ Becomes([State EXCEPT !.fdc =
                             [fdc EXCEPT !.missing = FALSE, !.busy = FALSE,
                                         !.answer = FALSE]])
               /\ order' = None

\* Commands of one byte that answer at once: version, lock, registers.
Report ==
  /\ order = None /\ Quiet
  /\ fdc' = Respond([fdc EXCEPT !.op = "other"], 1)
  /\ UNCHANGED <<dma, memory, disk, order>>

\* Sense interrupt, which raises the line itself.
Sense ==
  /\ Quiet /\ (order # None => order.heard)
  /\ fdc' = Raise(Respond([fdc EXCEPT !.op = "other"], 2))
  /\ UNCHANGED <<dma, memory, disk, order>>

\* The guest's handler for line 6.
Hear ==
  /\ fdc.latched
  /\ fdc' = [fdc EXCEPT !.latched = FALSE]
  /\ order' = IF order = None THEN None ELSE [order EXCEPT !.heard = TRUE]
  /\ UNCHANGED <<dma, memory, disk>>

\* Fault: the end of the response is not noticed.
TakenEndless(f) == [f EXCEPT !.left = @ - 1]

Taken(f) == IF f.left = 1 THEN Respond(f, 0) ELSE [f EXCEPT !.left = @ - 1]

\* A byte of the response; the last one settles what the guest waited for.
ReadResult ==
  /\ fdc.answer /\ (order # None => order.heard)
  /\ fdc' = Taken(fdc)
  /\ order' = IF fdc'.answer THEN order ELSE None
  /\ UNCHANGED <<dma, memory, disk>>

\* A write of the DOR with the interrupt enabled lowers the line.
WriteDor ==
  /\ order = None
  /\ fdc' = Lower(fdc)
  /\ UNCHANGED <<dma, memory, disk, order>>

\* The guest resets the controller by the DOR, and the channel with it when a
\* command waits there.
ResetController(both) ==
  /\ order # None => order.command.op # "reset"
  /\ dma.request => both
  /\ fdc' = Raise(ResetFdc(Lower(fdc)))
  /\ dma' = IF both THEN ResetChannel(dma) ELSE dma
  /\ order' = [command |-> ResetOrder, heard |-> FALSE]
  /\ UNCHANGED <<memory, disk>>

\* The machine's reset forgets the request but not the line (pic_reset).
Reset ==
  /\ fdc' = [ResetFdc(fdc) EXCEPT !.latched = FALSE]
  /\ dma' = ResetChannel(dma)
  /\ order' = None
  /\ UNCHANGED <<memory, disk>>

Init ==
  /\ memory \in [Address -> Data]
  /\ disk \in [Sector -> Data]
  /\ fdc = [op |-> "other", missing |-> FALSE, busy |-> FALSE, answer |-> FALSE,
            left |-> 0, result |-> "none", line |-> FALSE,
            latched |-> FALSE, at |-> 0, length |-> 0, formatted |-> FALSE,
            buffer |-> Blank]
  /\ dma = PowerOnChannel
  /\ order = None

Next ==
  \/ \E a \in Address, n \in Sector, toMemory \in BOOLEAN :
       Program(a, n, toMemory)
  \/ Mask \/ Unmask
  \/ \E c \in Command : Begin(c)
  \/ Finish
  \/ Report
  \/ Sense \/ Hear \/ ReadResult \/ WriteDor
  \/ \E both \in BOOLEAN : ResetController(both)
  \/ Reset

\* The driver goes on with what it began.
Spec ==
  Init /\ [][Next]_vars
       /\ WF_vars(Unmask) /\ WF_vars(Finish) /\ WF_vars(Hear)
       /\ WF_vars(Sense /\ order # None) /\ WF_vars(ReadResult)

-----------------------------------------------------------------------------
(* Properties.                                                             *)

\* What the command outstanding has moved when it ends well.
Moved(c) ==
  CASE c.op = "read" ->
         /\ disk' = disk
         /\ memory' = [a \in Address |->
              IF \E k \in 0 .. c.last - c.first : a = Place(dma, k)
              THEN disk[c.first + (CHOOSE k \in 0 .. c.last - c.first : a = Place(dma, k))]
              ELSE memory[a]]
    [] c.op = "write" ->
         /\ memory' = memory
         /\ disk' = [b \in Sector |-> IF b \in c.first .. c.last
                                      THEN memory[Place(dma, b - c.first)] ELSE disk[b]]
    [] c.op = "format" ->
         /\ memory' = memory
         /\ ~fdc.formatted => disk' = [b \in Sector |-> Fill]
    [] OTHER -> FALSE

\* The controller and its channel touch memory and medium only to carry out
\* the command the guest waits for, whole, when it is announced: whatever was
\* masked, reset, aborted or left behind before (fdc.c, dma_run_transfers).
DataMoved ==
  [][(<<fdc, dma>>' # <<fdc, dma>>
       /\ (memory' # memory \/ disk' # disk
             \/ (fdc'.result = "done" /\ fdc'.answer /\ ~fdc.answer)))
     => order # None /\ Moved(order.command)]_vars

\* Every command and reset the guest waits for is announced on line 6 and its
\* result read, though the line only ever falls by a write of the DOR.
Answered == order # None ~> order = None
=============================================================================
