-------------------------------- MODULE Kbd --------------------------------
(***************************************************************************)
(* The 8042 keyboard controller of src/src/hardware/kbd.c with the PS/2    *)
(* keyboard and mouse behind it, and the guest that reads it.              *)
(*                                                                         *)
(* Bytes of the keyboard and of the controller wait in one queue, bytes of *)
(* the mouse in another; one byte at a time stands in the output buffer    *)
(* (port 0x60) until the guest reads it, with a status bit that says which *)
(* device it comes from and an interrupt of that device.                   *)
(*                                                                         *)
(* A byte is either of a mouse "packet" or "plain" (a scan code, a reply   *)
(* to a command): the values are left out.  So are the bits nothing        *)
(* depends on: the disabled bits, SYSFLAG, CMD and TIME_OUT, scaling,      *)
(* resolution, sample rate, keyboard_command, the button state and the     *)
(* rest of the controller's RAM; and the commands that change nothing else *)
(* (A7, AD, F0 to FF, the unknown ones).  The A20 gate is the CPU's.       *)
(***************************************************************************)
EXTENDS Integers, Sequences

CONSTANTS
  Ring,          \* size of a queue's ring: 256 in the code
  MaxWaiting,    \* bound on the bytes that wait when the host or the guest adds more
  Controls,      \* the commands the guest writes to port 0x64
  KbdCommands,   \* the keyboard commands the guest writes to port 0x60
  MouseCommands, \* the mouse commands the guest writes behind 0xD4
  RamWrites,     \* the interrupt enables the guest writes behind 0x60
  FlushesFirst   \* the guest reads what there is before it enables an interrupt

KbdQueue == 0
AuxQueue == 1
Queues   == {KbdQueue, AuxQueue}
Irq      == [q \in Queues |-> IF q = KbdQueue THEN 1 ELSE 12]
Irqs     == {1, 12}

ControlCommands ==
  {"read_ram", "test", "aux_on", "kbd_on",
   "write_ram", "gate", "loop_kbd", "loop_aux", "mouse"}

KeyboardCommands ==
  {"param", "scanset", "echo", "identify", "scan_on", "scan_off",
   "defaults", "reset", "foreign"}

MouseCommandSet ==
  {"set", "param", "status", "identify", "stream_on", "stream_off",
   "defaults", "reset", "silent"}

ASSUME KbdAssumption ==
  /\ Ring \in Nat /\ Ring > 1 /\ MaxWaiting \in Nat
  /\ Controls \subseteq ControlCommands
  /\ KbdCommands \subseteq KeyboardCommands
  /\ MouseCommands \subseteq MouseCommandSet
  /\ RamWrites \subseteq SUBSET Queues
  /\ FlushesFirst \in BOOLEAN

VARIABLES
  kbd,      \* struct kbd, and the PIC's irr for the controller's two lines
  taken     \* the interrupts the guest accepted and has not handled yet

vars == <<kbd, taken>>

Byte == {"packet", "plain"}

\* "out" is data, "unread" says data_has_been_read is clear, "full" and "aux"
\* are the status bits, "intr" the devices whose interrupt ram[0] enables,
\* "current" is current_interrupt_raised, "command" the command a byte to
\* port 0x60 belongs to, "mcommand" the mouse's; "moved" says xrel or yrel is not 0.
\* mouse_stream_mode is left out: it is only ever set to 1.
State ==
  [queue : [Queues -> Seq(Byte)], out : [from : Queues, byte : Byte],
   unread : BOOLEAN, full : BOOLEAN, aux : BOOLEAN,
   intr : SUBSET Queues, current : Irqs \cup {-1, 0}, irr : SUBSET Irqs,
   scanning : BOOLEAN, streaming : BOOLEAN, moved : BOOLEAN,
   command : ControlCommands \cup KeyboardCommands \cup {"none"},
   mcommand : {"none", "param"}]

TypeOK ==
  /\ kbd \in State
  /\ \A q \in Queues : Len(kbd.queue[q]) < Ring
  /\ taken \subseteq Irqs

-----------------------------------------------------------------------------
(* The functions of kbd.c, as functions of the state.                      *)

Waiting(s) == {q \in Queues : s.queue[q] # <<>>}

\* The keyboard's queue goes first.
FirstQueue(s) == CHOOSE q \in Waiting(s) : \A r \in Waiting(s) : q <= r

\* Fault: a full ring goes on growing.
EnqueueNoWrap(s, q, b) == [s EXCEPT !.queue[q] = Append(@, b)]

\* kbd_queue_add: the ring that its last byte fills looks empty.
Enqueue(s, q, b) ==
  [s EXCEPT !.queue[q] = IF Len(@) + 1 = Ring THEN <<>> ELSE Append(@, b)]

\* kbd_raise_irq: the line is lowered and raised, so the PIC latches it again.
RaiseIrq(s, q) ==
  [s EXCEPT !.full = TRUE, !.aux = (q = AuxQueue),
            !.irr = IF q \in s.intr THEN @ \cup {Irq[q]} ELSE @,
            !.current = IF q \in s.intr THEN Irq[q] ELSE @]

\* kbd_refill_output.  With a byte unread the output buffer stays, but the
\* status and the interrupt become those of the first byte behind it.
RefillOutput(s) ==
  LET q == FirstQueue(s)
  IN  CASE Waiting(s) = {} -> s
        [] Waiting(s) # {} /\ s.unread -> RaiseIrq(s, q)
        [] OTHER ->
             RaiseIrq([s EXCEPT !.unread = TRUE, !.queue[q] = Tail(@),
                                !.out = [from |-> q, byte |-> Head(s.queue[q])]], q)

Add(s, q, b) == RefillOutput(Enqueue(s, q, b))

Reply(s, q)  == Add(s, q, "plain")
Reply2(s, q) == Reply(Reply(s, q), q)
Reply3(s, q) == Reply(Reply2(s, q), q)
Reply4(s, q) == Reply(Reply3(s, q), q)

LowerCurrent(s) == [s EXCEPT !.irr = @ \ {s.current}, !.current = -1]

\* Fault: the line is lowered after the next byte has raised it.
ReadOutputLowersLast(s) ==
  LowerCurrent(RefillOutput([s EXCEPT !.full = FALSE, !.aux = FALSE, !.unread = FALSE]))

\* Fault: the next byte is not loaded.
ReadOutputNoRefill(s) ==
  [LowerCurrent(s) EXCEPT !.full = FALSE, !.aux = FALSE, !.unread = FALSE]

\* kbd_read of port 0x60.
ReadOutput(s) ==
  RefillOutput([LowerCurrent(s) EXCEPT !.full = FALSE, !.aux = FALSE, !.unread = FALSE])

ResetKeyboard(s) == [s EXCEPT !.scanning = TRUE, !.intr = {KbdQueue}]
ResetMouse(s) == [s EXCEPT !.streaming = FALSE]

\* kbd_reset: the commands, the motion and current_interrupt_raised survive.
ResetController(s) ==
  ResetMouse(ResetKeyboard([s EXCEPT !.queue = [q \in Queues |-> <<>>],
                                     !.unread = FALSE, !.full = FALSE, !.aux = FALSE]))

-----------------------------------------------------------------------------
(* kbd_write.                                                              *)

\* Enabling a device finds the byte that waits, whosever it is.
Enable(s, q) ==
  LET t == RefillOutput(s) IN IF t.unread THEN RaiseIrq(t, q) ELSE t

\* Port 0x64.
Control(s, c) ==
  CASE c \in {"read_ram", "test"} -> Reply(s, KbdQueue)
    [] c = "aux_on" -> Enable(s, AuxQueue)
    [] c = "kbd_on" -> Enable(s, KbdQueue)
    [] OTHER        -> [s EXCEPT !.command = c]

\* Port 0x60 with no command pending.
KeyboardCommand(s, c) ==
  CASE c \in {"param", "scanset"} -> [Reply(s, KbdQueue) EXCEPT !.command = c]
    [] c = "echo"     -> Reply(s, KbdQueue)
    [] c = "identify" -> Reply3(s, KbdQueue)
    [] c = "scan_on"  -> Reply([s EXCEPT !.scanning = TRUE], KbdQueue)
    [] c = "scan_off" -> Reply([s EXCEPT !.scanning = FALSE], KbdQueue)
    [] c = "defaults" -> Reply(ResetController(s), KbdQueue)
    [] c = "reset"    -> Reply2(ResetKeyboard(s), KbdQueue)
    [] c = "foreign"  -> Reply(s, AuxQueue)

\* Port 0x60 behind 0xD4.
MouseCommand(s, c) ==
  CASE c = "set"         -> Reply(s, AuxQueue)
    [] c = "param"       -> [Reply(s, AuxQueue) EXCEPT !.mcommand = "param"]
    [] c = "status"      -> Reply4(s, AuxQueue)
    [] c = "identify"    -> Reply2(s, AuxQueue)
    [] c = "stream_on"   -> Reply([s EXCEPT !.streaming = TRUE], AuxQueue)
    [] c = "stream_off"  -> Reply([s EXCEPT !.streaming = FALSE], AuxQueue)
    [] c = "defaults"    -> Reply(ResetMouse(s), AuxQueue)
    [] c = "reset"       -> Reply3(ResetMouse(s), AuxQueue)
    [] c = "silent"      -> s

\* Port 0x60 as the second byte of a keyboard or a controller command, apart
\* from 0x60 and 0xD4.
SecondByte(s) ==
  CASE s.command = "param"    -> {Reply(s, KbdQueue)}
    [] s.command = "scanset"  -> {Reply(s, KbdQueue), Reply2(s, KbdQueue)}
    [] s.command = "loop_kbd" -> {Reply(s, KbdQueue)}
    [] s.command = "loop_aux" -> {Reply(s, AuxQueue)}
    [] s.command = "gate"     -> {s}

-----------------------------------------------------------------------------
(* The host's input.                                                       *)

\* mouse_move, called with something to send.
SendPacket(s) ==
  [Add(Add(Add(s, AuxQueue, "packet"), AuxQueue, "packet"), AuxQueue, "packet")
     EXCEPT !.moved = FALSE]

\* kbd_send_mouse_move; the motion may cancel the one that accumulated.
Moved(s) ==
  IF ~s.streaming THEN {s}
  ELSE IF s.queue[AuxQueue] = <<>>
  THEN {SendPacket(s)} \cup (IF s.moved THEN {[s EXCEPT !.moved = FALSE]} ELSE {})
  ELSE {[s EXCEPT !.moved = TRUE]} \cup (IF s.moved THEN {[s EXCEPT !.moved = FALSE]} ELSE {})

Room == Len(kbd.queue[KbdQueue]) + Len(kbd.queue[AuxQueue]) <= MaxWaiting

\* kbd_add_key: a key that is pressed while scanning is disabled is dropped.
AddKey ==
  /\ Room
  /\ kbd.scanning
  /\ kbd' = Add(kbd, KbdQueue, "plain")
  /\ UNCHANGED taken

\* kbd_mouse_down with a button that changes.
MouseButton ==
  /\ Room
  /\ kbd' = SendPacket(kbd)
  /\ UNCHANGED taken

MouseMotion ==
  /\ Room
  /\ kbd' \in Moved(kbd)
  /\ UNCHANGED taken

-----------------------------------------------------------------------------
(* The guest.                                                              *)

WriteControl(c) ==
  /\ Room
  /\ kbd' = Control(kbd, c)
  /\ UNCHANGED taken

WriteKeyboard(c) ==
  /\ Room
  /\ kbd.command = "none"
  /\ kbd' = KeyboardCommand(kbd, c)
  /\ UNCHANGED taken

WriteMouse(c) ==
  /\ Room
  /\ kbd.command = "mouse" /\ kbd.mcommand = "none"
  /\ kbd' = MouseCommand([kbd EXCEPT !.command = "none"], c)
  /\ UNCHANGED taken

WriteMouseParameter ==
  /\ Room
  /\ kbd.command = "mouse" /\ kbd.mcommand = "param"
  /\ kbd' = Reply([kbd EXCEPT !.command = "none", !.mcommand = "none"], AuxQueue)
  /\ UNCHANGED taken

WriteRam(enables) ==
  /\ kbd.command = "write_ram"
  /\ FlushesFirst => enables \subseteq kbd.intr \/ ~kbd.unread
  /\ kbd' = RefillOutput([kbd EXCEPT !.command = "none", !.intr = enables])
  /\ UNCHANGED taken

WriteSecondByte ==
  /\ Room
  /\ kbd.command \in {"param", "scanset", "loop_kbd", "loop_aux", "gate"}
  /\ \E s \in SecondByte(kbd) : kbd' = [s EXCEPT !.command = "none"]
  /\ UNCHANGED taken

\* The guest polls port 0x60, whether or not the status says there is a byte.
PollOutput ==
  /\ kbd' = ReadOutput(kbd)
  /\ UNCHANGED taken

\* The guest accepts an interrupt; its handler reads a byte if there is one.
Accept(n) ==
  /\ n \in kbd.irr
  /\ kbd' = [kbd EXCEPT !.irr = @ \ {n}]
  /\ taken' = taken \cup {n}

Handle(n) ==
  /\ n \in taken
  /\ kbd' = IF kbd.full THEN ReadOutput(kbd) ELSE kbd
  /\ taken' = taken \ {n}

\* io_reset: kbd_reset, and pic_reset drops the latched requests.
Reset ==
  /\ kbd' = [ResetController(kbd) EXCEPT !.irr = {}]
  /\ taken' = {}

-----------------------------------------------------------------------------

\* After kbd_reset at power on, or with a driver that enabled both devices.
PowerOn ==
  ResetController(
    [queue |-> [q \in Queues |-> <<>>], out |-> [from |-> KbdQueue, byte |-> "plain"],
     unread |-> FALSE, full |-> FALSE, aux |-> FALSE,
     intr |-> {}, current |-> 0, irr |-> {}, scanning |-> FALSE,
     streaming |-> FALSE, moved |-> FALSE,
     command |-> "none", mcommand |-> "none"])

Driven == [PowerOn EXCEPT !.intr = Queues, !.streaming = TRUE]

Init == kbd \in {PowerOn, Driven} /\ taken = {}

Host == AddKey \/ MouseButton \/ MouseMotion

Commands ==
  \/ \E c \in Controls : WriteControl(c)
  \/ \E c \in KbdCommands : WriteKeyboard(c)
  \/ \E c \in MouseCommands : WriteMouse(c)
  \/ WriteMouseParameter
  \/ \E enables \in RamWrites : WriteRam(enables)
  \/ WriteSecondByte

Handling == \E n \in Irqs : Accept(n) \/ Handle(n)

Next == Host \/ Commands \/ PollOutput \/ Handling \/ Reset

Spec == Init /\ [][Next]_vars

\* A guest with interrupts enabled accepts each one and runs its handler.
FairSpec == Spec /\ \A n \in Irqs : WF_vars(Accept(n)) /\ WF_vars(Handle(n))

-----------------------------------------------------------------------------
(* Properties.                                                             *)

\* No byte waits behind an empty output buffer, and the guest is shown a byte
\* exactly when there is one: after any order of reads, commands and resets.
NothingStuck ==
  /\ kbd.full = kbd.unread
  /\ Waiting(kbd) # {} => kbd.unread

\* The device the guest is told the byte comes from.
Named == IF kbd.aux THEN AuxQueue ELSE KbdQueue

\* A byte the guest was shown with interrupts enabled for its device has that
\* interrupt latched in the PIC or accepted and not handled yet: no order of
\* reads and arrivals takes away the interrupt of a byte still unread.
NoSilentByte ==
  kbd.unread /\ Named \in kbd.intr => Irq[Named] \in kbd.irr \cup taken

\* Once nothing more arrives and both interrupts are enabled, the interrupt
\* handlers alone read every byte there is.
AllRead ==
  (<>[][Handling]_vars /\ <>[](kbd.intr = Queues)) =>
    <>[](~kbd.unread /\ Waiting(kbd) = {})

=============================================================================
