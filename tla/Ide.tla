-------------------------------- MODULE Ide --------------------------------
(***************************************************************************)
(* One channel of src/src/hardware/ide.c with a disk as its master and     *)
(* nothing as its slave: reads and writes word by word, a sector or a few  *)
(* to an interrupt, and by the bus master, which goes through a table of   *)
(* places in memory; commands that only answer, or are refused; the two    *)
(* resets; and line 14, which shows irq_status unless device control       *)
(* forbids it.                                                             *)
(*                                                                         *)
(* Commands that act alike are one.  Left out: CD-ROMs, identification,    *)
(* the setting of Multiple, the error register, and 48-bit addresses.      *)
(*                                                                         *)
(* The guest is a driver.  It asks for sectors that exist and that the     *)
(* registers reach, with a table for as many, polls before the first words *)
(* it writes, waits for the interrupt (or polls, when it forbids that)     *)
(* before any other, and takes a read as finished with its last word, so   *)
(* that the interrupt after that word comes when nobody waits.             *)
(***************************************************************************)
EXTENDS Drive, Sequences

CONSTANTS
  Heads, SectorsPerTrack,   \* the geometry
  Byte,                     \* values of an address register: 256
  Most,                     \* sectors that a count of 0 asks for: 256
  Words,                    \* words of a sector: 256
  Multiple,                 \* multiple_sectors_count
  Memory                    \* sectors of the guest's memory

ASSUME IdeAssumption ==
  /\ {Heads, SectorsPerTrack, Byte, Most, Words, Multiple, Memory} \subseteq Nat \ {0}
  /\ SectorsPerTrack < Byte /\ Heads <= 16

VARIABLES
  ide,       \* struct ide_controller, and its line at the interrupt controller
  drive,     \* the master's image
  memory,    \* the guest's memory
  order      \* the guest's: what it waits for

vars == <<ide, drive, memory, order>>

Place  == 0 .. Memory - 1
Bus    == {"readDma", "writeDma"}
Reads  == {"read", "readMultiple"}
Writes == {"write", "writeMultiple"}
Moving == Bus \cup Reads \cup Writes

Registers ==
  [cylinder : 0 .. Byte * Byte - 1, head : 0 .. 15, number : 0 .. Byte - 1, lba : BOOLEAN]

\* ide_get_sector_offset, by number or by cylinder, head and sector.
Offset(r) ==
  IF r.lba THEN r.number + Byte * (r.cylinder + Byte * Byte * r.head)
  ELSE (r.cylinder * Heads + r.head) * SectorsPerTrack + r.number - 1

\* ide_set_sector_offset.
Located(p, lba, r) ==
  LET track == p \div SectorsPerTrack
  IN IF lba
     THEN [r EXCEPT !.lba = TRUE,
                    !.number = p % Byte,
                    !.cylinder = (p \div Byte) % (Byte * Byte),
                    !.head = (p \div (Byte * Byte * Byte)) % 16]
     ELSE [r EXCEPT !.lba = FALSE,
                    !.number = (p % SectorsPerTrack) + 1,
                    !.cylinder = (track \div Heads) % (Byte * Byte),
                    !.head = (track % Heads) % 16]

\* The sectors that the registers can name, by number and by geometry.
Addressable(lba) ==
  IF lba THEN 16 * (Byte * Byte * Byte) ELSE Byte * Byte * Heads * SectorsPerTrack

\* ide_get_sector_count.
Count(n) == IF n = 0 THEN Most ELSE n

\* The sectors of a request of n that one interrupt is for: chunk_count, or
\* what is left of the request.
Chunk(op, n) ==
  IF op \notin {"readMultiple", "writeMultiple"} THEN 1
  ELSE IF Multiple < n THEN Multiple ELSE n

\* An entry of the table the bus master follows.
Entry == [to : Place, count : 1 .. Memory]

Total(table) == table[1].count + IF 2 \in DOMAIN table THEN table[2].count ELSE 0

\* An entry is cut to the size of the whole request, as bytes_in_buffer never falls.
Cut(e, n) == IF e.count < n THEN e.count ELSE n

\* The places the bus master visits; the table ends the loop.
Visited(table, n) ==
  LET one == Cut(table[1], n)
      two == IF 2 \in DOMAIN table THEN Cut(table[2], n) ELSE 0
  IN  [k \in 1 .. one + two |-> IF k <= one THEN table[1].to + k - 1
                               ELSE table[2].to + k - one - 1]

\* Tables of one entry or of two that do not overlap.
Table == {t \in UNION {[1 .. n -> Entry] : n \in 1 .. 2} :
            /\ \A i \in DOMAIN t : t[i].to + t[i].count <= Memory
            /\ \A i, j \in DOMAIN t :
                 i # j => \/ t[i].to + t[i].count <= t[j].to
                          \/ t[j].to + t[j].count <= t[i].to
            /\ Total(t) <= Most}

Command ==
  [op : Moving, first : Sector, lba : BOOLEAN, table : Table]
    \cup [op : {"plain", "translate", "refused"}, first : {0}, lba : {FALSE},
          table : {<<[to |-> 0, count |-> 1]>>}]

Order ==
  [command : Command \cup {None}, heard : BOOLEAN, done : 0 .. Most]

ASSUME NoneAssumption == None \notin Command \cup Order

Controller ==
  [at : Registers,
   count : 0 .. Most - 1,     \* sector_count
   slave : BOOLEAN,           \* selected
   command : Moving \cup {"other"},   \* command_issued
   busy : BOOLEAN,            \* ATA_STATUS_BSY
   drq : BOOLEAN,             \* ATA_STATUS_DRQ
   position : 0 .. Words * Multiple - 1,            \* pio_position
   taken : 1 .. Multiple,     \* sectors_read
   buffer : UNION {[1 .. n -> Data] : n \in 0 .. Multiple},   \* pio_buffer, while read
   irq : BOOLEAN,             \* irq_status
   silent : BOOLEAN,          \* device_control: nIEN
   resetting : BOOLEAN,       \* device_control: SRST
   started : BOOLEAN,         \* dma_command
   ended : BOOLEAN,           \* dma_status: interrupt
   latched : BOOLEAN]         \* the request at the interrupt controller

TypeOK ==
  /\ ide \in Controller
  /\ drive \in Image
  /\ memory \in [Place -> Data]
  /\ order \in Order \cup {None}

-----------------------------------------------------------------------------
(* The line.                                                               *)

Line(i) == i.irq /\ ~i.silent

\* ide_update_irq after a change from i to j: the controllers hear an edge.
UpdateIrq(i, j) ==
  [j EXCEPT !.latched = Line(j) /\ (~Line(i) \/ i.latched)]

LowerIrq(i) == UpdateIrq(i, [i EXCEPT !.irq = FALSE])
RaiseIrq(i) == UpdateIrq(i, [i EXCEPT !.irq = TRUE, !.ended = TRUE])

\* ide_abort_command.
Abort(i) == RaiseIrq([i EXCEPT !.busy = FALSE, !.drq = FALSE, !.position = 0])

-----------------------------------------------------------------------------
(* Word by word.                                                           *)

Advance(i, n) == [i EXCEPT !.at = Located(Offset(@) + n, @.lba, @)]

\* Fault: the count is not kept to its width.
FewerUnbounded(i) == [i EXCEPT !.count = @ - i.taken]

Fewer(i) == [i EXCEPT !.count = (@ - i.taken) % Most]

Taking(i) == [i EXCEPT !.taken = Chunk(i.command, Count(i.count))]

\* ide_read_sectors and its callback: the drive answers at once.
ReadSectors(i, d) ==
  LET t == Taking(i)
      sectors == [k \in 1 .. t.taken |-> ReadSector(d, Offset(i.at) + k - 1)]
  IN RaiseIrq([Advance(Fewer(t), t.taken) EXCEPT !.buffer = sectors, !.drq = TRUE,
                                                 !.busy = FALSE, !.position = 0])

\* ide_write_sectors.
WriteSectors(i) == [Taking(i) EXCEPT !.drq = TRUE, !.busy = FALSE, !.position = 0]

\* ide_pio_read_callback: announced before it is known whether more follows.
PioRead(i, d) ==
  LET read == RaiseIrq([i EXCEPT !.position = 0, !.drq = FALSE, !.buffer = <<>>])
  IN IF i.count # 0 THEN ReadSectors(read, d) ELSE [read EXCEPT !.busy = FALSE]

\* Fault: a sector written is announced only when another is wanted.
PioWriteLastSilent(i) ==
  LET written == Advance(Fewer([i EXCEPT !.position = 0]), i.taken)
  IN IF written.count # 0 THEN RaiseIrq(WriteSectors(written))
     ELSE [written EXCEPT !.drq = FALSE, !.busy = FALSE]

\* ide_pio_write_callback and drive_write_callback.
PioWrite(i) ==
  LET written == Advance(Fewer(RaiseIrq([i EXCEPT !.position = 0])), i.taken)
  IN IF written.count # 0 THEN WriteSectors(written)
     ELSE [written EXCEPT !.drq = FALSE, !.busy = FALSE]

-----------------------------------------------------------------------------
(* By the bus master.                                                      *)

\* ide_read_dma_handler on memory and ide_write_dma_handler on the image.
ToMemory(i, places, d, m) ==
  [p \in Place |->
     IF \E k \in DOMAIN places : places[k] = p
     THEN ReadSector(d, Offset(i.at) + (CHOOSE k \in DOMAIN places : places[k] = p) - 1)
     ELSE m[p]]

\* The first n sectors written, one after the other.
FromMemory(i, places, d, m) ==
  LET wrote[n \in 0 .. Len(places)] ==
        IF n = 0 THEN d
        ELSE WriteSector(wrote[n - 1], Offset(i.at) + n - 1, m[places[n]])
  IN  wrote[Len(places)]

\* How both end: the count is left alone.
BusEnd(i) ==
  RaiseIrq(Advance([i EXCEPT !.drq = FALSE, !.busy = FALSE], Count(i.count)))

-----------------------------------------------------------------------------
(* The guest.                                                              *)

\* ide_write, 0x1F7, once the registers are written.
Issued(i, op, d) ==
  LET idle == [LowerIrq(i) EXCEPT !.command = IF op \in Moving THEN op ELSE "other",
                                !.buffer = <<>>]
  IN CASE op \in Reads     -> ReadSectors(idle, d)
       [] op \in Writes    -> WriteSectors(idle)
       [] op \in Bus       -> [idle EXCEPT !.drq = TRUE]
       [] op = "plain"     -> RaiseIrq([idle EXCEPT !.drq = FALSE])
       [] op = "translate" -> RaiseIrq([idle EXCEPT !.drq = FALSE, !.slave = TRUE])
       [] op = "refused"   -> Abort(idle)

Issue(c) ==
  /\ order = None /\ ~ide.busy /\ ~ide.resetting
  /\ c.op \in Moving => /\ c.first + Total(c.table) <= Sectors
                        /\ c.first + Total(c.table) <= Addressable(c.lba)
  /\ c.op \in Reads \cup Writes => 2 \notin DOMAIN c.table
  /\ LET chosen == [ide EXCEPT !.slave = FALSE]
         moving == [chosen EXCEPT !.at = Located(c.first, c.lba, @),
                                  !.count = Total(c.table) % Most]
         bus    == [moving EXCEPT !.started = FALSE, !.ended = FALSE]
     IN ide' = Issued(CASE c.op \in Bus -> bus
                        [] c.op \in Reads \cup Writes -> moving
                        [] OTHER -> chosen, c.op, drive)
  /\ order' = [command |-> c, heard |-> FALSE, done |-> 0]
  /\ UNCHANGED <<drive, memory>>

\* A write of the start bit runs what was issued last.
Start ==
  /\ order # None /\ order.command # None /\ order.command.op \in Bus /\ ~ide.started
  /\ LET i == [ide EXCEPT !.started = TRUE]
         places == Visited(order.command.table, Count(i.count))
     IN /\ ide' = IF i.command \in Bus THEN BusEnd(i) ELSE i
        /\ memory' = IF i.command = "readDma" THEN ToMemory(i, places, drive, memory)
                     ELSE memory
        /\ drive' = IF i.command = "writeDma" THEN FromMemory(i, places, drive, memory)
                    ELSE drive
  /\ order' = [order EXCEPT !.done = Total(order.command.table)]

\* What a read of the status does: with the empty slave chosen it does nothing.
Looked(i) == IF i.slave /\ ~i.resetting THEN i ELSE LowerIrq(i)

\* The handler of the line, or a poll.  It reads the status and ends the order
\* when the disk wants no more of it.
Look ==
  /\ \/ ide.latched
     \/ order # None /\ ~order.heard
          /\ (ide.silent
                \/ (order.command # None /\ order.command.op \in Writes /\ order.done = 0))
  /\ LET i == Looked([ide EXCEPT !.latched = FALSE])
     IN IF order = None \/ order.command = None
        THEN ide' = i /\ UNCHANGED order
        ELSE IF order.command.op \in Bus
        THEN /\ ide' = IF ide.ended THEN [i EXCEPT !.started = FALSE] ELSE i
             /\ order' = IF ide.ended THEN None ELSE order
        ELSE /\ ide' = i
             /\ order' = IF ide.drq /\ ~ide.slave THEN [order EXCEPT !.heard = TRUE] ELSE None
  /\ UNCHANGED <<drive, memory>>

LastWord == ide.position = Words * ide.taken - 1

\* A word between guest and buffer, and the sectors with the last.
Word ==
  /\ order # None /\ order.heard
  /\ IF ~LastWord
     THEN ide' = [ide EXCEPT !.position = @ + 1] /\ UNCHANGED <<drive, memory, order>>
     ELSE LET c == order.command
              places == [k \in 1 .. ide.taken |-> c.table[1].to + order.done + k - 1]
              next == [order EXCEPT !.heard = FALSE, !.done = @ + ide.taken]
          IN IF c.op \in Reads
             THEN /\ memory' = [p \in Place |->
                       IF \E k \in DOMAIN places : places[k] = p
                       THEN ide.buffer[CHOOSE k \in DOMAIN places : places[k] = p]
                       ELSE memory[p]]
                  /\ ide' = PioRead(ide, drive)
                  /\ order' = IF next.done = Total(c.table) THEN None ELSE next
                  /\ UNCHANGED drive
             ELSE /\ drive' = FromMemory(ide, places, drive, memory)
                  /\ ide' = PioWrite(ide)
                  /\ order' = next
                  /\ UNCHANGED memory

\* The guest forbids interrupts or allows them.
Control(silent) ==
  /\ ~ide.resetting /\ silent # ide.silent
  /\ ide' = UpdateIrq(ide, [ide EXCEPT !.silent = silent])
  /\ UNCHANGED <<drive, memory, order>>

\* A reset by device control, which also gives up what was ordered ...
SetReset ==
  /\ ~ide.resetting
  /\ ide' = [ide EXCEPT !.busy = TRUE, !.resetting = TRUE]
  /\ order' = [command |-> None, heard |-> FALSE, done |-> 0]
  /\ UNCHANGED <<drive, memory>>

\* ... ends with the signature in the registers.  No interrupt, none taken back.
ClearReset ==
  /\ ide.resetting
  /\ ide' = [ide EXCEPT !.busy = FALSE, !.resetting = FALSE, !.drq = FALSE,
                        !.slave = FALSE, !.count = 1 % Most,
                        !.at = [@ EXCEPT !.number = 1,
                                         !.cylinder = IF ide.slave THEN Byte * Byte - 1 ELSE 0]]
  /\ order' = None
  /\ UNCHANGED <<drive, memory>>

\* The machine's reset: ide_reset, and pic_reset for the request.
Reset ==
  /\ ide' = [ide EXCEPT !.slave = FALSE, !.latched = FALSE]
  /\ order' = None
  /\ UNCHANGED <<drive, memory>>

Init ==
  /\ ide = [at |-> [cylinder |-> 0, head |-> 0, number |-> 0, lba |-> FALSE],
            count |-> 0, slave |-> FALSE, command |-> "other", busy |-> FALSE,
            drq |-> FALSE, position |-> 0, taken |-> 1, buffer |-> <<>>,
            irq |-> FALSE, silent |-> FALSE, resetting |-> FALSE,
            started |-> FALSE, ended |-> FALSE, latched |-> FALSE]
  /\ drive \in [file : [Sector -> Data], modifiable : BOOLEAN,
                blocks : [Block -> {None}]]
  /\ memory \in [Place -> Data]
  /\ order = None

Next ==
  \/ \E c \in Command : Issue(c)
  \/ Start \/ Look \/ Word
  \/ \E silent \in BOOLEAN : Control(silent)
  \/ SetReset \/ ClearReset \/ Reset

\* The driver goes on with what it began.
Spec ==
  Init /\ [][Next]_vars
       /\ WF_vars(Start) /\ WF_vars(Look) /\ WF_vars(Word) /\ WF_vars(ClearReset)

-----------------------------------------------------------------------------
(* Properties.                                                             *)

\* The step from contents c and memory m to c2 and m2 moves the sectors of the
\* order that are next: all of them, or one interrupt's.
Moves(o, c, m, c2, m2) ==
  LET table == o.command.table
      first == o.command.first
      place == [k \in 0 .. Total(table) - 1 |->
                  IF k < table[1].count THEN table[1].to + k
                  ELSE table[2].to + k - table[1].count]
      part  == Chunk(o.command.op, Total(table) - o.done)
      now   == IF o.command.op \in Bus THEN 0 .. Total(table) - 1
               ELSE o.done .. o.done + part - 1
  IN IF o.command.op \in Reads \cup {"readDma"}
     THEN c2 = c /\ m2 = [p \in Place |->
            IF \E k \in now : place[k] = p
            THEN c[first + (CHOOSE k \in now : place[k] = p)] ELSE m[p]]
     ELSE m2 = m /\ c2 = [s \in Sector |->
            IF s - first \in now THEN m[place[s - first]] ELSE c[s]]

Progress ==
  order # None /\ order.command # None /\ order.command.op \in Moving
    /\ (Start \/ (Word /\ LastWord))

\* Memory and disk change only as the guest asked, sector after sector, in the
\* order of its table, whatever was reset, given up or left unread before; and
\* what it takes as finished has been moved whole.
SectorsMoved ==
  [][/\ Progress => Moves(order, Contents(drive), memory, Contents(drive'), memory')
     /\ ~Progress => UNCHANGED <<Contents(drive), memory>>
     /\ (order # None /\ order' = None /\ ~Progress /\ ~Reset /\ ~ClearReset
           /\ order.command.op \in Moving) => order.done = Total(order.command.table)]_vars

\* Every command is announced and every sector asked for, so that the guest is
\* done with each, on a line that shows only edges and that a read of the status
\* lowers.
Completes == order # None ~> order = None
=============================================================================
