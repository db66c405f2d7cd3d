----------------------------- MODULE KbdProofs ------------------------------
(***************************************************************************)
(* Theorems about Kbd, for rings of every size and every repertoire of     *)
(* commands, with no bound on what waits but the ring's.                   *)
(*                                                                         *)
(* The invariant has three parts: Fits (the type), Shown (NothingStuck of  *)
(* a state) and Loud (NoSilentByte of a state).  The functions of kbd.c    *)
(* keep all three, one lemma each, in the form Keeps(s, t); what breaks    *)
(* them between two calls (an interrupt enable that is set anew, a status  *)
(* that is cleared) is mended by the refill that every handler ends with.  *)
(***************************************************************************)
EXTENDS Kbd, TLAPS

Fits(s) == s \in State /\ \A q \in Queues : Len(s.queue[q]) < Ring

Shown(s) == s.full = s.unread /\ (Waiting(s) # {} => s.unread)

NamedBy(s) == IF s.aux THEN AuxQueue ELSE KbdQueue

\* With the interrupts T accepted and not handled, no byte is shown silently.
Loud(s, T) == s.unread /\ NamedBy(s) \in s.intr => Irq[NamedBy(s)] \in s.irr \cup T

Good(s) == Fits(s) /\ Shown(s)

\* A step to a good state that silences nothing.
Keeps(s, t) == Good(t) /\ \A T : Loud(s, T) => Loud(t, T)

-----------------------------------------------------------------------------
(* The queues and the output buffer.                                       *)

LEMMA QueuesAre ==
  /\ KbdQueue \in Queues /\ AuxQueue \in Queues /\ KbdQueue # AuxQueue
  /\ \A q \in Queues : q = KbdQueue \/ q = AuxQueue
  /\ Irq[KbdQueue] = 1 /\ Irq[AuxQueue] = 12
  /\ \A q \in Queues : Irq[q] \in Irqs
  BY DEF Queues, KbdQueue, AuxQueue, Irq, Irqs

LEMMA FirstQueueWaits ==
  ASSUME NEW s, Waiting(s) # {}
  PROVE  FirstQueue(s) \in Waiting(s) /\ FirstQueue(s) \in Queues
<1>1. Waiting(s) \subseteq {0, 1}
  BY DEF Waiting, Queues, KbdQueue, AuxQueue
<1>2. \E q \in Waiting(s) : \A r \in Waiting(s) : q <= r
  <2>1. CASE 0 \in Waiting(s)
    BY <1>1, <2>1
  <2>2. CASE 0 \notin Waiting(s)
    BY <1>1, <2>2
  <2> QED
    BY <2>1, <2>2
<1>3. FirstQueue(s) \in Waiting(s)
  BY <1>2 DEF FirstQueue
<1> QED
  BY <1>3 DEF Waiting

\* What kbd_raise_irq does: the status names the queue, and its line is up if
\* its interrupt is enabled.
LEMMA RaiseIrqShape ==
  ASSUME NEW s, Fits(s), NEW q \in Queues, NEW t, t = RaiseIrq(s, q)
  PROVE  /\ Fits(t) /\ t.full /\ t.unread = s.unread /\ t.queue = s.queue
         /\ NamedBy(t) = q /\ t.intr = s.intr /\ s.irr \subseteq t.irr
         /\ \A T : Loud(t, T)
<1>1. s \in State /\ Irq[q] \in Irqs
  BY QueuesAre DEF Fits
<1>2. /\ t \in State /\ t.full /\ t.unread = s.unread /\ t.queue = s.queue
      /\ t.aux = (q = AuxQueue) /\ t.intr = s.intr
      /\ t.irr = IF q \in s.intr THEN s.irr \cup {Irq[q]} ELSE s.irr
  BY <1>1 DEF RaiseIrq, State
<1>3. NamedBy(t) = q
  BY <1>2, QueuesAre DEF NamedBy
<1>4. \A T : Loud(t, T)
  BY <1>2, <1>3 DEF Loud
<1> QED
  BY <1>2, <1>3, <1>4 DEF Fits

\* What kbd_refill_output does, from any state whose status agrees with the
\* output buffer: it shows what waits, and aloud.
LEMMA RefillShape ==
  ASSUME NEW s, Fits(s), s.full = s.unread, NEW t, t = RefillOutput(s)
  PROVE  /\ Keeps(s, t) /\ t.intr = s.intr
         /\ Waiting(s) = {} => t = s
         /\ Waiting(s) # {} => t.unread /\ \A T : Loud(t, T)
<1>1. s \in State /\ \A q \in Queues : Len(s.queue[q]) < Ring
  BY DEF Fits
<1>2. CASE Waiting(s) = {}
  <2>1. t = s
    BY <1>2 DEF RefillOutput
  <2> QED
    BY <1>2, <2>1 DEF Keeps, Good, Shown
<1>3. CASE Waiting(s) # {}
  <2>1. PICK q : q = FirstQueue(s)
    OBVIOUS
  <2>2. q \in Queues /\ s.queue[q] # <<>>
    BY <1>3, <2>1, FirstQueueWaits DEF Waiting
  <2>3. PICK u : u = [s EXCEPT !.unread = TRUE, !.queue[q] = Tail(@),
                               !.out = [from |-> q, byte |-> Head(s.queue[q])]]
    OBVIOUS
  <2>4. Fits(u) /\ u.unread /\ u.intr = s.intr
    <3>1. s.queue[q] \in Seq(Byte) /\ s.queue \in [Queues -> Seq(Byte)]
      BY <1>1, <2>2 DEF State
    <3>2. Tail(s.queue[q]) \in Seq(Byte) /\ Head(s.queue[q]) \in Byte
      BY <2>2, <3>1
    <3>3. Len(Tail(s.queue[q])) < Ring
      BY <1>1, <2>2, <3>1, KbdAssumption
    <3>4. PICK f : f = [s.queue EXCEPT ![q] = Tail(@)]
      OBVIOUS
    <3>5. f \in [Queues -> Seq(Byte)] /\ \A r \in Queues : Len(f[r]) < Ring
      BY <1>1, <2>2, <3>1, <3>2, <3>3, <3>4
    <3>6. u = [s EXCEPT !.unread = TRUE, !.queue = f,
                        !.out = [from |-> q, byte |-> Head(s.queue[q])]]
      BY <2>3, <3>4
    <3>7. u \in State /\ u.queue = f /\ u.unread /\ u.intr = s.intr
      BY <1>1, <2>2, <3>2, <3>5, <3>6 DEF State
    <3> QED
      BY <3>5, <3>7 DEF Fits
  <2>5. t = IF s.unread THEN RaiseIrq(s, q) ELSE RaiseIrq(u, q)
    BY <1>3, <2>1, <2>3 DEF RefillOutput
  <2>6. Fits(t) /\ t.full /\ t.unread /\ t.intr = s.intr /\ \A T : Loud(t, T)
    <3>1. CASE s.unread
      BY <2>2, <2>5, <3>1, RaiseIrqShape
    <3>2. CASE ~s.unread
      <4>1. t = RaiseIrq(u, q)
        BY <2>5, <3>2
      <4> QED
        BY <2>2, <2>4, <4>1, RaiseIrqShape
    <3> QED
      BY <3>1, <3>2
  <2>7. t.full = t.unread
    BY <2>6 DEF Fits, State
  <2> QED
    BY <1>3, <2>6, <2>7 DEF Keeps, Good, Shown
<1> QED
  BY <1>2, <1>3

LEMMA KeepsOn ==
  ASSUME NEW s, NEW t, NEW u, Keeps(s, t), Keeps(t, u)
  PROVE  Keeps(s, u)
  BY DEF Keeps

\* What shows nothing else to the guest keeps everything.
LEMMA SameKeeps ==
  ASSUME NEW s, Good(s), NEW t \in State, t.queue = s.queue, t.unread = s.unread,
         t.full = s.full, t.aux = s.aux, t.intr = s.intr, t.irr = s.irr
  PROVE  Keeps(s, t)
<1>1. Fits(t)
  BY DEF Good, Fits
<1>2. Waiting(t) = Waiting(s)
  BY DEF Waiting
<1>3. Shown(t)
  BY <1>2 DEF Good, Shown
<1>4. \A T : Loud(s, T) => Loud(t, T)
  BY DEF Loud, NamedBy
<1> QED
  BY <1>1, <1>3, <1>4 DEF Keeps, Good

\* What kbd_queue_add does: the ring that its last byte fills is empty.
LEMMA EnqueueShape ==
  ASSUME NEW s, Fits(s), NEW q \in Queues, NEW b \in Byte, NEW t, t = Enqueue(s, q, b)
  PROVE  /\ Fits(t) /\ t.unread = s.unread /\ t.full = s.full /\ t.aux = s.aux
         /\ t.intr = s.intr /\ t.irr = s.irr
         /\ Len(s.queue[q]) + 1 # Ring => Waiting(t) # {}
         /\ Len(s.queue[q]) + 1 = Ring => t.queue[q] = <<>>
<1>1. s \in State /\ \A r \in Queues : Len(s.queue[r]) < Ring
  BY DEF Fits
<1>2. s.queue \in [Queues -> Seq(Byte)] /\ s.queue[q] \in Seq(Byte)
  BY <1>1 DEF State
<1>3. PICK n : n = IF Len(s.queue[q]) + 1 = Ring THEN <<>> ELSE Append(s.queue[q], b)
  OBVIOUS
<1>4. n \in Seq(Byte) /\ Len(n) < Ring
  <2>1. CASE Len(s.queue[q]) + 1 = Ring
    BY <1>3, <2>1, KbdAssumption
  <2>2. CASE Len(s.queue[q]) + 1 # Ring
    <3>1. n = Append(s.queue[q], b)
      BY <1>3, <2>2
    <3>2. n \in Seq(Byte) /\ Len(n) = Len(s.queue[q]) + 1
      BY <1>2, <3>1
    <3>3. Len(s.queue[q]) \in Nat /\ Len(s.queue[q]) < Ring
      BY <1>1, <1>2
    <3> QED
      BY <2>2, <3>2, <3>3, KbdAssumption
  <2> QED
    BY <2>1, <2>2
<1>5. PICK f : f = [s.queue EXCEPT ![q] = n]
  OBVIOUS
<1>6. /\ f \in [Queues -> Seq(Byte)] /\ f[q] = n
      /\ \A r \in Queues : Len(f[r]) < Ring
  BY <1>1, <1>2, <1>4, <1>5
<1>7. t = [s EXCEPT !.queue = f]
  BY <1>3, <1>5 DEF Enqueue
<1>8. /\ t \in State /\ t.queue = f /\ t.unread = s.unread /\ t.full = s.full
      /\ t.aux = s.aux /\ t.intr = s.intr /\ t.irr = s.irr
  BY <1>1, <1>6, <1>7 DEF State
<1>9. ASSUME Len(s.queue[q]) + 1 # Ring PROVE Waiting(t) # {}
  <2>1. n = Append(s.queue[q], b)
    BY <1>3, <1>9
  <2>2. n # <<>>
    BY <1>2, <2>1
  <2> QED
    BY <1>6, <1>8, <2>2 DEF Waiting
<1>10. Len(s.queue[q]) + 1 = Ring => t.queue[q] = <<>>
  BY <1>3, <1>6, <1>8
<1> QED
  BY <1>6, <1>8, <1>9, <1>10 DEF Fits

-----------------------------------------------------------------------------
(* Bytes are added.                                                        *)

\* A byte is added in a state whose status agrees with the output buffer.
LEMMA AddShape ==
  ASSUME NEW s, Fits(s), s.full = s.unread, NEW q \in Queues, NEW b \in Byte,
         NEW t, t = Add(s, q, b)
  PROVE  /\ Keeps(s, t) /\ t.intr = s.intr
         /\ Len(s.queue[q]) + 1 # Ring => \A T : Loud(t, T)
         /\ Len(s.queue[q]) + 1 = Ring => (\A T : Loud(t, T)) \/ t.queue[q] = <<>>
<1>1. PICK u : u = Enqueue(s, q, b)
  OBVIOUS
<1>2. /\ Fits(u) /\ u.unread = s.unread /\ u.full = s.full /\ u.aux = s.aux
      /\ u.intr = s.intr /\ u.irr = s.irr
      /\ Len(s.queue[q]) + 1 # Ring => Waiting(u) # {}
      /\ Len(s.queue[q]) + 1 = Ring => u.queue[q] = <<>>
  BY <1>1, EnqueueShape
<1>3. t = RefillOutput(u)
  BY <1>1 DEF Add
<1>4. u.full = u.unread
  BY <1>2
<1>5. /\ Keeps(u, t) /\ t.intr = u.intr
      /\ Waiting(u) = {} => t = u
      /\ Waiting(u) # {} => t.unread /\ \A T : Loud(t, T)
  BY <1>2, <1>3, <1>4, RefillShape
<1>6. \A T : Loud(s, T) => Loud(u, T)
  BY <1>2 DEF Loud, NamedBy
<1>7. Keeps(s, t)
  BY <1>5, <1>6 DEF Keeps
<1> QED
  BY <1>2, <1>5, <1>7

LEMMA ReplyKeeps ==
  ASSUME NEW s, Good(s), NEW q \in Queues
  PROVE  Keeps(s, Reply(s, q)) /\ Reply(s, q).intr = s.intr
<1>1. Fits(s) /\ s.full = s.unread /\ "plain" \in Byte
  BY DEF Good, Shown, Byte
<1>2. PICK t : t = Add(s, q, "plain")
  OBVIOUS
<1>3. Keeps(s, t) /\ t.intr = s.intr
  BY <1>1, <1>2, AddShape
<1> QED
  BY <1>2, <1>3 DEF Reply

LEMMA RepliesKeep ==
  ASSUME NEW s, Good(s), NEW q \in Queues
  PROVE  Keeps(s, Reply2(s, q)) /\ Keeps(s, Reply3(s, q)) /\ Keeps(s, Reply4(s, q))
<1>1. PICK t1 : t1 = Reply(s, q)
  OBVIOUS
<1>2. PICK t2 : t2 = Reply(t1, q)
  OBVIOUS
<1>3. PICK t3 : t3 = Reply(t2, q)
  OBVIOUS
<1>4. PICK t4 : t4 = Reply(t3, q)
  OBVIOUS
<1>5. Keeps(s, t1) /\ Good(t1)
  BY <1>1, ReplyKeeps DEF Keeps
<1>6. Keeps(t1, t2) /\ Good(t2)
  BY <1>2, <1>5, ReplyKeeps DEF Keeps
<1>7. Keeps(t2, t3) /\ Good(t3)
  BY <1>3, <1>6, ReplyKeeps DEF Keeps
<1>8. Keeps(t3, t4)
  BY <1>4, <1>7, ReplyKeeps
<1>9. Keeps(s, t2)
  BY <1>5, <1>6, KeepsOn
<1>10. Keeps(s, t3)
  BY <1>7, <1>9, KeepsOn
<1>11. Keeps(s, t4)
  BY <1>8, <1>10, KeepsOn
<1> QED
  BY <1>1, <1>2, <1>3, <1>4, <1>9, <1>10, <1>11 DEF Reply2, Reply3, Reply4

\* Two replies are heard even when the first fills the ring and empties it:
\* then the second cannot.
LEMMA TwoRepliesAreLoud ==
  ASSUME NEW s, Good(s), NEW q \in Queues
  PROVE  Good(Reply2(s, q)) /\ \A T : Loud(Reply2(s, q), T)
<1>1. Fits(s) /\ s.full = s.unread /\ "plain" \in Byte
  BY DEF Good, Shown, Byte
<1>2. PICK t : t = Add(s, q, "plain")
  OBVIOUS
<1>3. PICK u : u = Add(t, q, "plain")
  OBVIOUS
<1>4. /\ Keeps(s, t)
      /\ (\A T : Loud(t, T)) \/ t.queue[q] = <<>>
  BY <1>1, <1>2, AddShape
<1>5. Good(t) /\ Fits(t) /\ t.full = t.unread
  BY <1>4 DEF Keeps, Good, Shown
<1>6. Keeps(t, u) /\ (Len(t.queue[q]) + 1 # Ring => \A T : Loud(u, T))
  BY <1>1, <1>3, <1>5, AddShape
<1>7. CASE \A T : Loud(t, T)
  BY <1>2, <1>3, <1>6, <1>7 DEF Keeps, Reply2, Reply
<1>8. CASE t.queue[q] = <<>>
  <2>1. Len(t.queue[q]) + 1 # Ring
    BY <1>8, KbdAssumption
  <2> QED
    BY <1>2, <1>3, <1>6, <2>1 DEF Keeps, Reply2, Reply
<1> QED
  BY <1>4, <1>7, <1>8

\* mouse_move: three bytes, and no motion left to send.
LEMMA SendPacketKeeps ==
  ASSUME NEW s, Good(s)
  PROVE  Keeps(s, SendPacket(s))
<1>1. "packet" \in Byte /\ AuxQueue \in Queues
  BY QueuesAre DEF Byte
<1>2. PICK t1 : t1 = Add(s, AuxQueue, "packet")
  OBVIOUS
<1>3. PICK t2 : t2 = Add(t1, AuxQueue, "packet")
  OBVIOUS
<1>4. PICK t3 : t3 = Add(t2, AuxQueue, "packet")
  OBVIOUS
<1>5. PICK t : t = [t3 EXCEPT !.moved = FALSE]
  OBVIOUS
<1>6. \A x : Good(x) => Fits(x) /\ x.full = x.unread
  BY DEF Good, Shown
<1>7. Keeps(s, t1) /\ Good(t1)
  <2>1. Keeps(s, t1)
    BY <1>1, <1>2, <1>6, AddShape
  <2> QED
    BY <2>1 DEF Keeps
<1>8. Keeps(t1, t2) /\ Good(t2)
  <2>1. Keeps(t1, t2)
    BY <1>1, <1>3, <1>6, <1>7, AddShape
  <2> QED
    BY <2>1 DEF Keeps
<1>9. Keeps(t2, t3) /\ Good(t3)
  <2>1. Keeps(t2, t3)
    BY <1>1, <1>4, <1>6, <1>8, AddShape
  <2> QED
    BY <2>1 DEF Keeps
<1>10. Keeps(t3, t)
  <2>1. /\ t \in State /\ t.queue = t3.queue /\ t.unread = t3.unread
        /\ t.full = t3.full /\ t.aux = t3.aux /\ t.intr = t3.intr /\ t.irr = t3.irr
    BY <1>5, <1>9 DEF Good, Fits, State
  <2> QED
    BY <1>9, <2>1, SameKeeps
<1>11. Keeps(s, t2)
  BY <1>7, <1>8, KeepsOn
<1>12. Keeps(s, t3)
  BY <1>9, <1>11, KeepsOn
<1>13. Keeps(s, t)
  BY <1>10, <1>12, KeepsOn
<1> QED
  BY <1>2, <1>3, <1>4, <1>5, <1>13 DEF SendPacket

-----------------------------------------------------------------------------
(* Reads, resets and enables.                                              *)

\* A read of port 0x60 shows the next byte, aloud if there is one.
LEMMA ReadShape ==
  ASSUME NEW s, Fits(s), NEW t, t = ReadOutput(s)
  PROVE  Good(t) /\ \A T : Loud(t, T)
<1>1. PICK u : u = [LowerCurrent(s) EXCEPT !.full = FALSE, !.aux = FALSE, !.unread = FALSE]
  OBVIOUS
<1>2. /\ u \in State /\ u.queue = s.queue /\ ~u.full /\ ~u.unread
  <2>1. PICK v : v = LowerCurrent(s)
    OBVIOUS
  <2>2. v \in State /\ v.queue = s.queue
    BY <2>1 DEF LowerCurrent, Fits, State
  <2> QED
    BY <1>1, <2>1, <2>2 DEF State
<1>3. Fits(u) /\ u.full = u.unread
  <2>1. u.full \in BOOLEAN /\ u.unread \in BOOLEAN
    BY <1>2 DEF State
  <2> QED
    BY <1>2, <2>1 DEF Fits
<1>4. t = RefillOutput(u)
  BY <1>1 DEF ReadOutput
<1>5. Keeps(u, t)
  BY <1>3, <1>4, RefillShape
<1>6. \A T : Loud(u, T)
  BY <1>2 DEF Loud
<1> QED
  BY <1>5, <1>6 DEF Keeps

LEMMA ResetShape ==
  ASSUME NEW s, s \in State, NEW t, t = ResetController(s)
  PROVE  Good(t) /\ \A T : Loud(t, T)
<1>1. PICK f : f = [q \in Queues |-> <<>>]
  OBVIOUS
<1>2. PICK u : u = [s EXCEPT !.queue = f, !.unread = FALSE, !.full = FALSE, !.aux = FALSE]
  OBVIOUS
<1>3. f \in [Queues -> Seq(Byte)] /\ \A q \in Queues : f[q] = <<>>
  BY <1>1
<1>4. u \in State /\ u.queue = f /\ ~u.unread /\ ~u.full
  BY <1>2, <1>3 DEF State
<1>5. PICK v : v = [u EXCEPT !.scanning = TRUE, !.intr = {KbdQueue}]
  OBVIOUS
<1>6. v \in State /\ v.queue = f /\ ~v.unread /\ ~v.full
  BY <1>4, <1>5, QueuesAre DEF State
<1>7. t = [v EXCEPT !.streaming = FALSE]
  BY <1>1, <1>2, <1>5 DEF ResetController, ResetMouse, ResetKeyboard
<1>8. t \in State /\ t.queue = f /\ ~t.unread /\ ~t.full
  BY <1>6, <1>7 DEF State
<1>9. Waiting(t) = {}
  BY <1>3, <1>8 DEF Waiting
<1>10. t.full = t.unread
  BY <1>8 DEF State
<1>11. Fits(t)
  BY <1>3, <1>8, KbdAssumption DEF Fits
<1> QED
  BY <1>8, <1>9, <1>10, <1>11 DEF Good, Shown, Loud

\* Enabling a device keeps what waits loud.
LEMMA EnableKeeps ==
  ASSUME NEW s, Good(s), NEW q \in Queues
  PROVE  Keeps(s, Enable(s, q))
<1>1. PICK t : t = RefillOutput(s)
  OBVIOUS
<1>2. Keeps(s, t)
  BY <1>1, RefillShape DEF Good, Shown
<1>3. CASE t.unread
  <2>1. PICK u : u = RaiseIrq(t, q)
    OBVIOUS
  <2>2. Fits(t)
    BY <1>2 DEF Keeps, Good
  <2>3. Fits(u) /\ u.full /\ u.unread = t.unread /\ \A T : Loud(u, T)
    BY <2>1, <2>2, RaiseIrqShape
  <2>4. u.full = u.unread
    BY <1>3, <2>3 DEF Fits, State
  <2>5. Keeps(s, u)
    BY <1>3, <2>3, <2>4 DEF Keeps, Good, Shown
  <2> QED
    BY <1>1, <1>3, <2>1, <2>5 DEF Enable
<1>4. CASE ~t.unread
  BY <1>1, <1>2, <1>4 DEF Enable
<1> QED
  BY <1>3, <1>4

-----------------------------------------------------------------------------
(* The commands of kbd_write.                                              *)

\* A command that stays pending changes nothing the guest sees.
LEMMA PendingKeeps ==
  ASSUME NEW s, Good(s),
         NEW c \in ControlCommands \cup KeyboardCommands \cup {"none"}
  PROVE  Keeps(s, [s EXCEPT !.command = c])
<1>1. PICK t : t = [s EXCEPT !.command = c]
  OBVIOUS
<1>2. /\ t \in State /\ t.queue = s.queue /\ t.unread = s.unread /\ t.full = s.full
      /\ t.aux = s.aux /\ t.intr = s.intr /\ t.irr = s.irr
  BY <1>1 DEF Good, Fits, State
<1>3. Keeps(s, t)
  BY <1>2, SameKeeps
<1> QED
  BY <1>1, <1>3

LEMMA ControlKeeps ==
  ASSUME NEW s, Good(s), NEW c \in ControlCommands
  PROVE  Keeps(s, Control(s, c))
<1>1. /\ Keeps(s, Reply(s, KbdQueue)) /\ Keeps(s, Enable(s, AuxQueue))
      /\ Keeps(s, Enable(s, KbdQueue))
  BY QueuesAre, ReplyKeeps, EnableKeeps
<1>2. Keeps(s, [s EXCEPT !.command = c])
  BY PendingKeeps
<1>3. CASE c \in {"read_ram", "test"}
  BY <1>1, <1>3 DEF Control
<1>4. CASE c = "aux_on"
  BY <1>1, <1>4 DEF Control
<1>5. CASE c = "kbd_on"
  BY <1>1, <1>5 DEF Control
<1>6. CASE c \notin {"read_ram", "test", "aux_on", "kbd_on"}
  BY <1>2, <1>6 DEF Control
<1> QED
  BY <1>3, <1>4, <1>5, <1>6

\* A reply to a state that another kept.
LEMMA ReplyAfter ==
  ASSUME NEW s, NEW t, Keeps(s, t), NEW q \in Queues
  PROVE  /\ Keeps(s, Reply(t, q)) /\ Keeps(s, Reply2(t, q))
         /\ Keeps(s, Reply3(t, q)) /\ Keeps(s, Reply4(t, q))
<1>1. Good(t)
  BY DEF Keeps
<1>2. Keeps(t, Reply(t, q))
  BY <1>1, ReplyKeeps
<1>3. Keeps(t, Reply2(t, q)) /\ Keeps(t, Reply3(t, q)) /\ Keeps(t, Reply4(t, q))
  BY <1>1, RepliesKeep
<1> QED
  BY <1>2, <1>3, KeepsOn

LEMMA KeyboardKeeps ==
  ASSUME NEW s, Good(s), NEW c \in KeyboardCommands
  PROVE  Keeps(s, KeyboardCommand(s, c))
<1>1. s \in State /\ KbdQueue \in Queues /\ AuxQueue \in Queues
  BY QueuesAre DEF Good, Fits
<1>2. CASE c \in {"param", "scanset"}
  <2>1. PICK t : t = Reply(s, KbdQueue)
    OBVIOUS
  <2>2. Keeps(s, t) /\ Good(t)
    BY <1>1, <2>1, ReplyKeeps DEF Keeps
  <2>3. Keeps(t, [t EXCEPT !.command = c])
    BY <2>2, PendingKeeps
  <2>4. Keeps(s, [t EXCEPT !.command = c])
    BY <2>2, <2>3, KeepsOn
  <2> QED
    BY <1>2, <2>1, <2>4 DEF KeyboardCommand
<1>3. CASE c \in {"echo", "identify", "foreign"}
  BY <1>1, <1>3, ReplyKeeps, RepliesKeep DEF KeyboardCommand
<1>4. CASE c \in {"scan_on", "scan_off"}
  <2>1. PICK t : t = [s EXCEPT !.scanning = (c = "scan_on")]
    OBVIOUS
  <2>2. /\ t \in State /\ t.queue = s.queue /\ t.unread = s.unread /\ t.full = s.full
        /\ t.aux = s.aux /\ t.intr = s.intr /\ t.irr = s.irr
    BY <1>1, <2>1 DEF State
  <2>3. Keeps(s, Reply(t, KbdQueue))
    BY <1>1, <2>2, SameKeeps, ReplyAfter
  <2>4. CASE c = "scan_on"
    BY <2>1, <2>3, <2>4 DEF KeyboardCommand
  <2>5. CASE c = "scan_off"
    BY <2>1, <2>3, <2>5 DEF KeyboardCommand
  <2> QED
    BY <1>4, <2>4, <2>5
<1>5. CASE c = "defaults"
  <2>1. PICK t : t = ResetController(s)
    OBVIOUS
  <2>2. Good(t) /\ \A T : Loud(t, T)
    BY <1>1, <2>1, ResetShape
  <2>3. Keeps(s, t)
    BY <2>2 DEF Keeps
  <2>4. Keeps(s, Reply(t, KbdQueue))
    BY <1>1, <2>3, ReplyAfter
  <2> QED
    BY <1>5, <2>1, <2>4 DEF KeyboardCommand
<1>6. CASE c = "reset"
  <2>1. PICK t : t = ResetKeyboard(s)
    OBVIOUS
  <2>2. /\ t \in State /\ t.queue = s.queue /\ t.unread = s.unread /\ t.full = s.full
    BY <1>1, <2>1, QueuesAre DEF ResetKeyboard, State
  <2>3. Good(t)
    BY <2>2 DEF Good, Fits, Shown, Waiting
  <2>4. Good(Reply2(t, KbdQueue)) /\ \A T : Loud(Reply2(t, KbdQueue), T)
    BY <1>1, <2>3, TwoRepliesAreLoud
  <2> QED
    BY <1>6, <2>1, <2>4 DEF KeyboardCommand, Keeps
<1> QED
  BY <1>2, <1>3, <1>4, <1>5, <1>6 DEF KeyboardCommands

LEMMA MouseKeeps ==
  ASSUME NEW s, Good(s), NEW c \in MouseCommandSet
  PROVE  Keeps(s, MouseCommand(s, c))
<1>1. s \in State /\ AuxQueue \in Queues
  BY QueuesAre DEF Good, Fits
<1>2. Keeps(s, Reply(s, AuxQueue))
  BY <1>1, ReplyKeeps
<1>3. CASE c \in {"set", "status", "identify"}
  BY <1>1, <1>2, <1>3, RepliesKeep DEF MouseCommand
<1>4. CASE c = "param"
  <2>1. PICK t : t = Reply(s, AuxQueue)
    OBVIOUS
  <2>2. PICK u : u = [t EXCEPT !.mcommand = "param"]
    OBVIOUS
  <2>3. Good(t)
    BY <1>2, <2>1 DEF Keeps
  <2>4. /\ u \in State /\ u.queue = t.queue /\ u.unread = t.unread /\ u.full = t.full
        /\ u.aux = t.aux /\ u.intr = t.intr /\ u.irr = t.irr
    BY <2>2, <2>3 DEF Good, Fits, State
  <2>5. Keeps(t, u)
    BY <2>3, <2>4, SameKeeps
  <2>6. Keeps(s, u)
    BY <1>2, <2>1, <2>5, KeepsOn
  <2> QED
    BY <1>4, <2>1, <2>2, <2>6 DEF MouseCommand
<1>5. ASSUME NEW streaming \in BOOLEAN, NEW t, t = [s EXCEPT !.streaming = streaming]
      PROVE  Keeps(s, Reply(t, AuxQueue)) /\ Keeps(s, Reply3(t, AuxQueue))
  <2>1. /\ t \in State /\ t.queue = s.queue /\ t.unread = s.unread /\ t.full = s.full
        /\ t.aux = s.aux /\ t.intr = s.intr /\ t.irr = s.irr
    BY <1>1, <1>5 DEF State
  <2>2. Keeps(s, t)
    BY <2>1, SameKeeps
  <2> QED
    BY <1>1, <2>2, ReplyAfter
<1>6. CASE c = "stream_on"
  <2>1. PICK t : t = [s EXCEPT !.streaming = TRUE]
    OBVIOUS
  <2>2. Keeps(s, Reply(t, AuxQueue))
    BY <1>5, <2>1
  <2> QED
    BY <1>6, <2>1, <2>2 DEF MouseCommand
<1>7. CASE c \in {"stream_off", "defaults", "reset"}
  <2>1. PICK t : t = [s EXCEPT !.streaming = FALSE]
    OBVIOUS
  <2>2. Keeps(s, Reply(t, AuxQueue)) /\ Keeps(s, Reply3(t, AuxQueue))
    BY <1>5, <2>1
  <2> QED
    BY <1>7, <2>1, <2>2 DEF MouseCommand, ResetMouse
<1>8. CASE c = "silent"
  BY <1>8 DEF MouseCommand, Keeps
<1> QED
  BY <1>3, <1>4, <1>6, <1>7, <1>8 DEF MouseCommandSet

LEMMA SecondByteKeeps ==
  ASSUME NEW s, Good(s), s.command \in {"param", "scanset", "loop_kbd", "loop_aux", "gate"},
         NEW t \in SecondByte(s)
  PROVE  Keeps(s, [t EXCEPT !.command = "none"])
<1>1. /\ Keeps(s, Reply(s, KbdQueue)) /\ Keeps(s, Reply2(s, KbdQueue))
      /\ Keeps(s, Reply(s, AuxQueue)) /\ Keeps(s, s)
  BY QueuesAre, ReplyKeeps, RepliesKeep DEF Keeps
<1>2. t \in {Reply(s, KbdQueue), Reply2(s, KbdQueue), Reply(s, AuxQueue), s}
  <2>1. CASE s.command = "param"
    BY <2>1 DEF SecondByte
  <2>2. CASE s.command = "scanset"
    BY <2>2 DEF SecondByte
  <2>3. CASE s.command = "loop_kbd"
    BY <2>3 DEF SecondByte
  <2>4. CASE s.command = "loop_aux"
    BY <2>4 DEF SecondByte
  <2>5. CASE s.command = "gate"
    BY <2>5 DEF SecondByte
  <2> QED
    BY <2>1, <2>2, <2>3, <2>4, <2>5
<1>3. Keeps(s, t) /\ Good(t)
  BY <1>1, <1>2 DEF Keeps
<1>4. Keeps(t, [t EXCEPT !.command = "none"])
  BY <1>3, PendingKeeps
<1> QED
  BY <1>3, <1>4, KeepsOn

-----------------------------------------------------------------------------
(* The host's input.                                                       *)

LEMMA MovedKeeps ==
  ASSUME NEW s, Good(s), NEW t \in Moved(s)
  PROVE  Keeps(s, t)
<1>1. Keeps(s, s) /\ Keeps(s, SendPacket(s))
  BY SendPacketKeeps DEF Keeps
<1>2. ASSUME NEW moved \in BOOLEAN, NEW u, u = [s EXCEPT !.moved = moved]
      PROVE  Keeps(s, u)
  <2>1. /\ u \in State /\ u.queue = s.queue /\ u.unread = s.unread /\ u.full = s.full
        /\ u.aux = s.aux /\ u.intr = s.intr /\ u.irr = s.irr
    BY <1>2 DEF Good, Fits, State
  <2> QED
    BY <2>1, SameKeeps
<1>3. \/ t = s \/ t = SendPacket(s)
      \/ t = [s EXCEPT !.moved = TRUE] \/ t = [s EXCEPT !.moved = FALSE]
  BY DEF Moved
<1> QED
  BY <1>1, <1>2, <1>3

-----------------------------------------------------------------------------
(* The theorems.                                                           *)

IInv == Good(kbd) /\ taken \subseteq Irqs

\* With every step the invariant is kept, and no byte is silenced by a guest
\* that reads what there is before it enables an interrupt.
LEMMA StepKeeps ==
  ASSUME IInv, [Next]_vars
  PROVE  IInv' /\ (FlushesFirst /\ Loud(kbd, taken) => Loud(kbd', taken'))
<1>1. Good(kbd) /\ taken \subseteq Irqs /\ kbd \in State /\ Fits(kbd)
  BY DEF IInv, Good, Fits
<1>2. ASSUME Keeps(kbd, kbd'), UNCHANGED taken
      PROVE  IInv' /\ (Loud(kbd, taken) => Loud(kbd', taken'))
  BY <1>1, <1>2 DEF IInv, Keeps
<1>3. CASE Host
  <2>1. "plain" \in Byte /\ kbd.full = kbd.unread
    BY <1>1 DEF Byte, Good, Shown
  <2>2. CASE AddKey
    BY <1>1, <1>2, <2>1, <2>2, QueuesAre, AddShape DEF AddKey
  <2>3. CASE MouseButton
    BY <1>1, <1>2, <2>3, SendPacketKeeps DEF MouseButton
  <2>4. CASE MouseMotion
    BY <1>1, <1>2, <2>4, MovedKeeps DEF MouseMotion
  <2> QED
    BY <1>3, <2>2, <2>3, <2>4 DEF Host
<1>4. ASSUME NEW c \in Controls, WriteControl(c)
      PROVE  IInv' /\ (Loud(kbd, taken) => Loud(kbd', taken'))
  BY <1>1, <1>2, <1>4, KbdAssumption, ControlKeeps DEF WriteControl
<1>5. ASSUME NEW c \in KbdCommands, WriteKeyboard(c)
      PROVE  IInv' /\ (Loud(kbd, taken) => Loud(kbd', taken'))
  BY <1>1, <1>2, <1>5, KbdAssumption, KeyboardKeeps DEF WriteKeyboard
<1>6. ASSUME NEW c \in MouseCommands, WriteMouse(c)
      PROVE  IInv' /\ (Loud(kbd, taken) => Loud(kbd', taken'))
  <2>1. PICK s : s = [kbd EXCEPT !.command = "none"]
    OBVIOUS
  <2>2. Keeps(kbd, s) /\ Good(s)
    BY <1>1, <2>1, PendingKeeps DEF Keeps
  <2>3. Keeps(s, MouseCommand(s, c))
    BY <2>2, KbdAssumption, MouseKeeps
  <2>4. Keeps(kbd, MouseCommand(s, c))
    BY <2>2, <2>3, KeepsOn
  <2> QED
    BY <1>2, <1>6, <2>1, <2>4 DEF WriteMouse
<1>7. CASE WriteMouseParameter
  <2>1. PICK s : s = [kbd EXCEPT !.command = "none", !.mcommand = "none"]
    OBVIOUS
  <2>2. /\ s \in State /\ s.queue = kbd.queue /\ s.unread = kbd.unread
        /\ s.full = kbd.full /\ s.aux = kbd.aux /\ s.intr = kbd.intr /\ s.irr = kbd.irr
    BY <1>1, <2>1 DEF State
  <2>3. Keeps(kbd, s)
    BY <1>1, <2>2, SameKeeps
  <2>4. Keeps(kbd, Reply(s, AuxQueue))
    BY <2>3, QueuesAre, ReplyAfter
  <2> QED
    BY <1>2, <1>7, <2>1, <2>4 DEF WriteMouseParameter
<1>8. ASSUME NEW enables \in RamWrites, WriteRam(enables)
      PROVE  IInv' /\ (FlushesFirst /\ Loud(kbd, taken) => Loud(kbd', taken'))
  <2>1. PICK s : s = [kbd EXCEPT !.command = "none", !.intr = enables]
    OBVIOUS
  <2>2. /\ s \in State /\ s.queue = kbd.queue /\ s.unread = kbd.unread
        /\ s.full = kbd.full /\ s.aux = kbd.aux /\ s.intr = enables /\ s.irr = kbd.irr
    BY <1>1, <2>1, KbdAssumption DEF State
  <2>3. Fits(s) /\ s.full = s.unread
    BY <1>1, <2>2 DEF Good, Fits, Shown
  <2>4. kbd' = RefillOutput(s) /\ UNCHANGED taken
    BY <1>8, <2>1 DEF WriteRam
  <2>5. Keeps(s, kbd')
    BY <2>3, <2>4, RefillShape
  <2>6. ASSUME FlushesFirst, Loud(kbd, taken) PROVE Loud(s, taken)
    <3>1. enables \subseteq kbd.intr \/ ~kbd.unread
      BY <1>8, <2>6 DEF WriteRam
    <3> QED
      BY <2>2, <2>6, <3>1 DEF Loud, NamedBy
  <2> QED
    BY <1>1, <2>4, <2>5, <2>6 DEF IInv, Keeps
<1>9. CASE WriteSecondByte
  BY <1>1, <1>2, <1>9, SecondByteKeeps DEF WriteSecondByte
<1>10. CASE PollOutput
  BY <1>1, <1>10, ReadShape DEF PollOutput, IInv
<1>11. ASSUME NEW n \in Irqs, Accept(n)
       PROVE  IInv' /\ (Loud(kbd, taken) => Loud(kbd', taken'))
  <2>1. kbd' = [kbd EXCEPT !.irr = @ \ {n}] /\ taken' = taken \cup {n}
    BY <1>11 DEF Accept
  <2>2. /\ kbd' \in State /\ kbd'.queue = kbd.queue /\ kbd'.unread = kbd.unread
        /\ kbd'.full = kbd.full /\ kbd'.aux = kbd.aux /\ kbd'.intr = kbd.intr
        /\ kbd'.irr = kbd.irr \ {n}
    BY <1>1, <2>1 DEF State
  <2>3. Good(kbd')
    BY <1>1, <2>2 DEF Good, Fits, Shown, Waiting
  <2>4. kbd.irr \cup taken \subseteq kbd'.irr \cup taken'
    BY <2>1, <2>2
  <2>5. Loud(kbd, taken) => Loud(kbd', taken')
    BY <2>2, <2>4 DEF Loud, NamedBy
  <2> QED
    BY <1>1, <2>1, <2>3, <2>5 DEF IInv
<1>12. ASSUME NEW n \in Irqs, Handle(n)
       PROVE  IInv' /\ (Loud(kbd, taken) => Loud(kbd', taken'))
  <2>1. kbd' = (IF kbd.full THEN ReadOutput(kbd) ELSE kbd) /\ taken' = taken \ {n}
    BY <1>12 DEF Handle
  <2>2. CASE kbd.full
    BY <1>1, <2>1, <2>2, ReadShape DEF IInv
  <2>3. CASE ~kbd.full
    <3>1. ~kbd.unread
      BY <1>1, <2>3 DEF Good, Shown
    <3> QED
      BY <1>1, <2>1, <2>3, <3>1 DEF IInv, Loud
  <2> QED
    BY <2>2, <2>3
<1>13. CASE Reset
  <2>1. PICK s : s = ResetController(kbd)
    OBVIOUS
  <2>2. Good(s) /\ s \in State
    BY <1>1, <2>1, ResetShape DEF Good, Fits
  <2>3. kbd' = [s EXCEPT !.irr = {}] /\ taken' = {}
    BY <1>13, <2>1 DEF Reset
  <2>4. ~s.unread
    BY <1>1, <2>1 DEF ResetController, ResetMouse, ResetKeyboard, State
  <2>5. /\ kbd' \in State /\ kbd'.queue = s.queue /\ kbd'.unread = s.unread
        /\ kbd'.full = s.full
    BY <2>2, <2>3 DEF State
  <2>6. Good(kbd')
    BY <2>2, <2>5 DEF Good, Fits, Shown, Waiting
  <2> QED
    BY <2>3, <2>4, <2>5, <2>6 DEF IInv, Loud
<1>14. CASE UNCHANGED vars
  BY <1>1, <1>14 DEF vars, IInv
<1> QED
  BY <1>3, <1>4, <1>5, <1>6, <1>7, <1>8, <1>9, <1>10, <1>11, <1>12, <1>13, <1>14
  DEF Next, Commands, Handling

LEMMA InitKeeps == Init => IInv /\ Loud(kbd, taken)
<1> SUFFICES ASSUME Init PROVE IInv /\ Loud(kbd, taken)
  OBVIOUS
<1>1. PICK z : z = [queue |-> [q \in Queues |-> <<>>],
                    out |-> [from |-> KbdQueue, byte |-> "plain"],
                    unread |-> FALSE, full |-> FALSE, aux |-> FALSE,
                    intr |-> {}, current |-> 0, irr |-> {}, scanning |-> FALSE,
                    streaming |-> FALSE, moved |-> FALSE,
                    command |-> "none", mcommand |-> "none"]
  OBVIOUS
<1>2. z \in State
  BY <1>1, QueuesAre DEF State, Byte
<1>3. PowerOn = ResetController(z)
  BY <1>1 DEF PowerOn
<1>4. Good(PowerOn) /\ PowerOn \in State
  BY <1>2, <1>3, ResetShape DEF Good, Fits
<1>5. ~PowerOn.unread
  BY <1>2, <1>3 DEF ResetController, ResetMouse, ResetKeyboard, State
<1>6. PICK d : d = Driven
  OBVIOUS
<1>7. /\ d \in State /\ d.queue = PowerOn.queue /\ d.unread = PowerOn.unread
      /\ d.full = PowerOn.full
  BY <1>4, <1>6 DEF Driven, State
<1>8. Good(d)
  BY <1>4, <1>7 DEF Good, Fits, Shown, Waiting
<1> QED
  BY <1>4, <1>5, <1>6, <1>7, <1>8 DEF Init, IInv, Loud

LEMMA InvariantHolds == Spec => []IInv
<1>1. IInv /\ [Next]_vars => IInv'
  BY StepKeeps
<1> QED
  BY InitKeeps, <1>1, PTL DEF Spec

\* The registers and rings keep their type: no sequence of keys, packets,
\* replies and reads fills a ring beyond its last place.
THEOREM TypeCorrect == Spec => []TypeOK
<1>1. IInv => TypeOK
  BY DEF IInv, Good, Fits, TypeOK
<1> QED
  BY <1>1, InvariantHolds, PTL

\* No byte waits behind an empty output buffer, and the status bit tells the
\* truth, after any order of input, reads, commands and resets.
THEOREM NothingIsStuck == Spec => []NothingStuck
<1>1. IInv => NothingStuck
  BY DEF IInv, Good, Shown, NothingStuck
<1> QED
  BY <1>1, InvariantHolds, PTL

\* A byte shown with its device's interrupt enabled has that interrupt latched
\* or accepted, for a guest that empties the controller before it enables one:
\* a read lowers the line of the byte it takes, never that of the next.
THEOREM NoByteIsSilent ==
  ASSUME FlushesFirst
  PROVE  Spec => []NoSilentByte
<1> DEFINE Heard == Loud(kbd, taken)
<1>1. IInv /\ Heard /\ [Next]_vars => Heard'
  BY StepKeeps
<1>2. Init => Heard
  BY InitKeeps
<1>3. Heard => NoSilentByte
  BY DEF Loud, NamedBy, NoSilentByte, Named
<1> HIDE DEF Heard
<1> QED
  BY <1>1, <1>2, <1>3, InvariantHolds, PTL DEF Spec

=============================================================================
