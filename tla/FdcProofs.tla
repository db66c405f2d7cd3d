----------------------------- MODULE FdcProofs ------------------------------
(***************************************************************************)
(* Theorems about Fdc, for tracks and banks of every size and any data.    *)
(*                                                                         *)
(* DataMoved needs to know, when the channel lets a request through, which *)
(* command it carries out: the code goes by registers that any command     *)
(* leaves behind.  Announced says that a command not carried out yet is    *)
(* the one the guest waits for and that its interrupt is not up, so no     *)
(* sense overwrites its opcode; Requested says that the channel's request  *)
(* is that command's, with its registers and its buffer.  TypeOK needs     *)
(* Answers: the count of response bytes is taken down while MSR_DIO is up. *)
(***************************************************************************)
EXTENDS Fdc, TLAPS

Machine ==
  [fdc : Controller, dma : Channel, memory : [Address -> Data], disk : [Sector -> Data]]

\* The command c is what registers, channel and buffer of s say.
Carries(s, c) ==
  /\ c \in Command
  /\ c.op \in Moving
  /\ c.there
  /\ c.first \in Sector
  /\ c.first <= c.last
  /\ s.fdc.op = c.op
  /\ s.dma.count = c.last - c.first
  /\ s.dma.toMemory = (c.op = "read")
  /\ c.op = "read" =>
       \A k \in 0 .. c.last - c.first : s.fdc.buffer[k] = s.disk[c.first + k]
  /\ c.op = "write" => s.fdc.at = c.first /\ s.fdc.length = c.last - c.first

LatchedIsUp == fdc.latched => fdc.line

\* A controller that answers has something to say.
Answers(f) == f.answer => f.left # 0

Announced ==
  fdc.missing \/ dma.request =>
    /\ order # None
    /\ order.command \in Command
    /\ ~order.heard
    /\ ~fdc.answer
    /\ ~fdc.line
    /\ order.command.op \in Moving =>
         /\ fdc.op = order.command.op
         /\ order.command.first # Sectors =>
              order.command.first <= order.command.last /\ Fits(order.command)

Requested == dma.request => Carries(State, order.command)

Inv == TypeOK /\ LatchedIsUp /\ Answers(fdc) /\ Announced /\ Requested
-----------------------------------------------------------------------------
(* Registers.                                                              *)

\* The numbers of sectors and places.
LEMMA Sizes ==
  /\ Bank \in Nat /\ Bank > 0 /\ Sectors \in Nat /\ Sectors > 0 /\ Sectors <= Bank
  /\ Sector \subseteq Address /\ 0 \in Sector /\ Sectors - 1 \in Sector
  /\ 0 \in Address
  /\ Sector \subseteq Nat /\ Address \subseteq Nat
  /\ \A n \in Int : n % Bank \in Address
<1>1. Bank \in Nat /\ Bank > 0 /\ Sectors \in Nat /\ Sectors > 0 /\ Sectors <= Bank
  BY DmaAssumption, FdcAssumption
<1>2. \A n \in Int : n % Bank \in Address
  BY <1>1 DEF Address
<1> QED
  BY <1>1, <1>2 DEF Sector, Address

LEMMA BlankTyped == Blank \in [Address -> Data]
  BY FdcAssumption DEF Blank

LEMMA OpsAre ==
  /\ \A op \in Moving : op = "read" \/ op = "write" \/ op = "format"
  /\ "read" # "write" /\ "read" # "format" /\ "write" # "format"
  /\ Moving \subseteq Opcode /\ "other" \in Opcode
  BY DEF Moving, Opcode

\* An outstanding command, and the one that stands for a reset.
LEMMA CommandsAre ==
  /\ \A c \in Command :
       /\ c.there \in BOOLEAN /\ c.first \in 0 .. Sectors /\ c.last \in Sector
       /\ c.op \in Moving \cup {"calibrate", "settings"}
       /\ c.op = "format" => c.first = 0 /\ c.last = Sectors - 1
  /\ \A o \in Order : o.command \in Command \cup {ResetOrder} /\ o.heard \in BOOLEAN
  /\ ResetOrder.op = "reset" /\ ResetOrder.op \notin Moving
<1>1. ASSUME NEW c \in Command
      PROVE  /\ c.there \in BOOLEAN /\ c.first \in 0 .. Sectors /\ c.last \in Sector
             /\ c.op \in Moving \cup {"calibrate", "settings"}
             /\ c.op = "format" => c.first = 0 /\ c.last = Sectors - 1
  <2>1. CASE c \in [op : {"read", "write"}, there : BOOLEAN, first : 0 .. Sectors,
                    last : Sector]
    BY <2>1 DEF Moving
  <2>2. CASE c \in [op : {"format"}, there : BOOLEAN, first : {0}, last : {Sectors - 1}]
    <3>1. c.op = "format" /\ c.there \in BOOLEAN /\ c.first = 0 /\ c.last = Sectors - 1
      BY <2>2
    <3> QED
      BY <3>1, Sizes DEF Moving
  <2>3. CASE c \in [op : {"calibrate", "settings"}, there : {TRUE}, first : {0},
                    last : {0}]
    <3>1. /\ c.op \in {"calibrate", "settings"} /\ c.there /\ c.first = 0
          /\ c.last = 0
      BY <2>3
    <3> QED
      BY <3>1, Sizes
  <2> QED
    BY <2>1, <2>2, <2>3 DEF Command
<1> QED
  BY <1>1 DEF Order, ResetOrder, Moving

LEMMA RaiseShape ==
  ASSUME NEW f \in Controller
  PROVE  /\ Raise(f) \in Controller /\ Raise(f).line
         /\ Raise(f).missing = f.missing /\ Raise(f).answer = f.answer
         /\ Raise(f).result = f.result
         /\ Answers(f) => Answers(Raise(f))
  BY DEF Raise, Controller, Answers

LEMMA EndShape ==
  ASSUME NEW f \in Controller, NEW r \in {"done", "failed"}
  PROVE  /\ End(f, r) \in Controller
         /\ End(f, r).answer /\ ~End(f, r).missing /\ End(f, r).line
         /\ End(f, r).result = r /\ Answers(End(f, r))
<1>1. PICK h : h = Respond(f, 2)
  OBVIOUS
<1>2. (2 # 0) = TRUE /\ 2 \in 0 .. 2
  OBVIOUS
<1>3. h = [f EXCEPT !.left = 2, !.answer = TRUE, !.busy = TRUE, !.result = "none"]
  BY <1>1, <1>2, Zenon DEF Respond
<1>4. h \in Controller
  BY <1>2, <1>3 DEF Controller
<1>5. h.answer /\ h.left = 2
  BY <1>3 DEF Controller
<1>6. PICK g : g = [h EXCEPT !.missing = FALSE, !.result = r,
                             !.buffer = Blank, !.length = 0]
  OBVIOUS
<1>7. 0 \in Address
  BY Sizes
<1>8. /\ g \in Controller /\ g.answer /\ ~g.missing /\ g.result = r
  BY <1>4, <1>5, <1>6, <1>7, BlankTyped DEF Controller
<1>9. g.left = 2
  BY <1>4, <1>5, <1>6 DEF Controller
<1>10. Answers(g)
  BY <1>9 DEF Answers
<1>11. End(f, r) = Raise(g)
  BY <1>1, <1>6 DEF End
<1> QED
  BY <1>8, <1>10, <1>11, RaiseShape

-----------------------------------------------------------------------------
(* A transfer.                                                             *)

\* What Moved says, of two records.
Carried(s, t, c) ==
  CASE c.op = "read" ->
         /\ t.disk = s.disk
         /\ t.memory = [a \in Address |->
              IF \E k \in 0 .. c.last - c.first : a = Place(s.dma, k)
              THEN s.disk[c.first + (CHOOSE k \in 0 .. c.last - c.first :
                                       a = Place(s.dma, k))]
              ELSE s.memory[a]]
    [] c.op = "write" ->
         /\ t.memory = s.memory
         /\ t.disk = [b \in Sector |-> IF b \in c.first .. c.last
                                       THEN s.memory[Place(s.dma, b - c.first)]
                                       ELSE s.disk[b]]
    [] c.op = "format" ->
         /\ t.memory = s.memory
         /\ ~s.fdc.formatted => t.disk = [b \in Sector |-> Fill]
    [] OTHER -> FALSE

\* The step of the channel: what DmaComplete is given.
Brought(s) ==
  [s EXCEPT !.dma = Transferred(@),
            !.memory = IF s.dma.toMemory
                       THEN IntoMemory(s.dma, @, s.fdc.buffer) ELSE @,
            !.fdc.buffer = IF s.dma.toMemory THEN @
                           ELSE IntoBuffer(s.dma, s.memory, @)]

LEMMA PlaceTyped ==
  ASSUME NEW d \in Channel, NEW k \in Nat
  PROVE  Place(d, k) \in Address
<1>1. d.current \in Address
  BY DEF Channel
<1>2. d.current \in Nat
  BY <1>1, Sizes
<1>3. d.current + k \in Int
  BY <1>2
<1> QED
  BY <1>3, Sizes DEF Place

LEMMA TransferTyped ==
  ASSUME NEW d \in Channel, NEW m \in [Address -> Data], NEW b \in [Address -> Data]
  PROVE  /\ IntoMemory(d, m, b) \in [Address -> Data]
         /\ IntoBuffer(d, m, b) \in [Address -> Data]
         /\ Transferred(d) \in Channel /\ ~Transferred(d).request
<1>1. d.count \in Address /\ d.count \in Nat
  BY Sizes DEF Channel
<1>2. \A k \in 0 .. d.count : k \in Address
  BY <1>1, Sizes DEF Address
<1>3. ASSUME NEW a \in Address, \E k \in 0 .. d.count : a = Place(d, k)
      PROVE  b[CHOOSE k \in 0 .. d.count : a = Place(d, k)] \in Data
  BY <1>2, <1>3
<1>4. IntoMemory(d, m, b) \in [Address -> Data]
  BY <1>3 DEF IntoMemory
<1>5. \A k \in Address : Place(d, k) \in Address
  BY PlaceTyped, Sizes
<1>6. IntoBuffer(d, m, b) \in [Address -> Data]
  BY <1>5 DEF IntoBuffer
<1>7. Place(d, d.count + 1) \in Address
  BY <1>1, PlaceTyped
<1>8. Transferred(d) \in Channel /\ ~Transferred(d).request
  BY <1>7, Sizes DEF Transferred, Channel
<1> QED
  BY <1>4, <1>6, <1>8

LEMMA BroughtShape ==
  ASSUME NEW s \in Machine
  PROVE  /\ Brought(s) \in Machine
         /\ Brought(s).dma = Transferred(s.dma)
         /\ Brought(s).disk = s.disk
         /\ Brought(s).memory = IF s.dma.toMemory
                                THEN IntoMemory(s.dma, s.memory, s.fdc.buffer)
                                ELSE s.memory
         /\ Brought(s).fdc.buffer = IF s.dma.toMemory THEN s.fdc.buffer
                                    ELSE IntoBuffer(s.dma, s.memory, s.fdc.buffer)
         /\ Brought(s).fdc.op = s.fdc.op
         /\ Brought(s).fdc.at = s.fdc.at
         /\ Brought(s).fdc.length = s.fdc.length
         /\ Brought(s).fdc.formatted = s.fdc.formatted
<1>1. /\ s.dma \in Channel /\ s.memory \in [Address -> Data] /\ s.fdc \in Controller
      /\ s.fdc.buffer \in [Address -> Data] /\ s.disk \in [Sector -> Data]
  BY DEF Machine, Controller
<1>2. /\ IntoMemory(s.dma, s.memory, s.fdc.buffer) \in [Address -> Data]
      /\ IntoBuffer(s.dma, s.memory, s.fdc.buffer) \in [Address -> Data]
      /\ Transferred(s.dma) \in Channel
  BY <1>1, TransferTyped
<1>3. PICK m \in [Address -> Data] :
        m = IF s.dma.toMemory THEN IntoMemory(s.dma, s.memory, s.fdc.buffer) ELSE s.memory
  BY <1>1, <1>2
<1>4. PICK b \in [Address -> Data] :
        b = IF s.dma.toMemory THEN s.fdc.buffer
            ELSE IntoBuffer(s.dma, s.memory, s.fdc.buffer)
  BY <1>1, <1>2
<1>5. PICK f \in Controller : f = [s.fdc EXCEPT !.buffer = b]
  BY <1>1 DEF Controller
<1>6. f.buffer = b /\ f.op = s.fdc.op /\ f.at = s.fdc.at /\ f.length = s.fdc.length
      /\ f.formatted = s.fdc.formatted
  BY <1>1, <1>5 DEF Controller
<1>7. Brought(s) = [s EXCEPT !.dma = Transferred(s.dma), !.memory = m, !.fdc = f]
  BY <1>1, <1>3, <1>4, <1>5 DEF Brought, Machine
<1>8. Brought(s) \in Machine
  BY <1>1, <1>2, <1>7 DEF Machine
<1>9. /\ Brought(s).dma = Transferred(s.dma) /\ Brought(s).disk = s.disk
      /\ Brought(s).memory = m /\ Brought(s).fdc = f
  BY <1>1, <1>7 DEF Machine
<1> QED
  BY <1>3, <1>4, <1>6, <1>8, <1>9
\* A machine the channel has let through: what is true of it but its type.
Ended(t) ==
  /\ t.fdc.line /\ t.fdc.answer /\ ~t.fdc.missing /\ Answers(t.fdc)
  /\ ~t.dma.request

\* A transfer of the command the registers carry does that command, whole.
LEMMA TransferCarries ==
  ASSUME NEW s \in Machine, NEW c, Carries(s, c), Due(s.dma)
  PROVE  /\ RunTransfers(s) \in Machine
         /\ Ended(RunTransfers(s))
         /\ Carried(s, RunTransfers(s), c)
<1>1. PICK b : b = Brought(s)
  OBVIOUS
<1>2. RunTransfers(s) = DmaComplete(b)
  BY <1>1 DEF RunTransfers, Brought
<1>3. /\ b \in Machine /\ b.dma = Transferred(s.dma) /\ b.disk = s.disk
      /\ b.memory = IF s.dma.toMemory THEN IntoMemory(s.dma, s.memory, s.fdc.buffer)
                    ELSE s.memory
      /\ b.fdc.buffer = IF s.dma.toMemory THEN s.fdc.buffer
                        ELSE IntoBuffer(s.dma, s.memory, s.fdc.buffer)
      /\ b.fdc.op = s.fdc.op /\ b.fdc.at = s.fdc.at /\ b.fdc.length = s.fdc.length
      /\ b.fdc.formatted = s.fdc.formatted
  BY <1>1, BroughtShape
<1>4. /\ s.dma \in Channel /\ s.memory \in [Address -> Data] /\ s.fdc \in Controller
      /\ s.fdc.buffer \in [Address -> Data] /\ s.disk \in [Sector -> Data]
  BY DEF Machine, Controller
<1>5. /\ b.fdc \in Controller /\ b.memory \in [Address -> Data]
      /\ b.disk \in [Sector -> Data] /\ b.fdc.buffer \in [Address -> Data]
      /\ b.dma \in Channel /\ ~b.dma.request
  BY <1>3, <1>4, TransferTyped DEF Machine, Controller
<1>6. /\ c.op \in Moving /\ c.first \in Sector /\ c.last \in Sector
      /\ c.first \in Nat /\ c.last \in Nat /\ c.last - c.first \in Nat
      /\ s.fdc.op = c.op /\ s.dma.count = c.last - c.first
      /\ s.dma.toMemory = (c.op = "read")
  <2>1. /\ c \in Command /\ c.op \in Moving /\ c.first \in Sector /\ c.first <= c.last
        /\ s.fdc.op = c.op /\ s.dma.count = c.last - c.first
        /\ s.dma.toMemory = (c.op = "read")
    BY DEF Carries
  <2>2. c.last \in Sector
    BY <2>1, CommandsAre
  <2>3. c.first \in Nat /\ c.last \in Nat
    BY <2>1, <2>2, Sizes
  <2>4. c.last - c.first \in Nat
    BY <2>1, <2>3
  <2> QED
    BY <2>1, <2>2, <2>3, <2>4
<1>7. CASE c.op = "read"
  <2>1. PICK t : t = [b EXCEPT !.fdc = End(b.fdc, "done")]
    OBVIOUS
  <2>2. RunTransfers(s) = t
    BY <1>2, <1>3, <1>6, <1>7, <2>1 DEF DmaComplete
  <2>3. /\ t \in Machine /\ t.fdc = End(b.fdc, "done") /\ t.dma = b.dma
        /\ t.memory = b.memory /\ t.disk = b.disk
    BY <1>3, <1>5, <2>1, EndShape DEF Machine
  <2>4. Ended(t)
    BY <1>5, <2>3, EndShape DEF Ended
  <2>5. s.dma.toMemory
    BY <1>6, <1>7
  <2>6. t.memory = IntoMemory(s.dma, s.memory, s.fdc.buffer) /\ t.disk = s.disk
    BY <1>3, <2>3, <2>5
  <2>7. ASSUME NEW a \in Address,
               \E k \in 0 .. c.last - c.first : a = Place(s.dma, k)
        PROVE  s.fdc.buffer[CHOOSE k \in 0 .. c.last - c.first : a = Place(s.dma, k)]
                 = s.disk[c.first + (CHOOSE k \in 0 .. c.last - c.first :
                                       a = Place(s.dma, k))]
    <3>1. PICK m : m = CHOOSE k \in 0 .. c.last - c.first : a = Place(s.dma, k)
      OBVIOUS
    <3>2. m \in 0 .. c.last - c.first
      BY <2>7, <3>1
    <3> QED
      BY <1>7, <3>1, <3>2 DEF Carries
  <2>8. t.memory = [a \in Address |->
              IF \E k \in 0 .. c.last - c.first : a = Place(s.dma, k)
              THEN s.disk[c.first + (CHOOSE k \in 0 .. c.last - c.first :
                                       a = Place(s.dma, k))]
              ELSE s.memory[a]]
    BY <1>6, <2>6, <2>7 DEF IntoMemory
  <2>9. Carried(s, t, c)
    BY <1>7, <2>6, <2>8 DEF Carried
  <2> QED
    BY <2>2, <2>3, <2>4, <2>9
<1>8. CASE c.op = "write"
  <2>1. PICK t : t = [b EXCEPT !.disk = Written(b), !.fdc = End(b.fdc, "done")]
    OBVIOUS
  <2>2. RunTransfers(s) = t
    BY <1>2, <1>3, <1>6, <1>8, <2>1 DEF DmaComplete
  <2>3. b.fdc.at = c.first /\ b.fdc.length = c.last - c.first
    BY <1>3, <1>8 DEF Carries
  <2>4. c.first + (c.last - c.first) = c.last
    BY <1>6
  <2>5. ~s.dma.toMemory
    BY <1>6, <1>8
  <2>6. /\ b.memory = s.memory
        /\ b.fdc.buffer = IntoBuffer(s.dma, s.memory, s.fdc.buffer)
    BY <1>3, <2>5
  <2>7. ASSUME NEW p \in Sector, p \in c.first .. c.last
        PROVE  /\ p - c.first \in Address
               /\ b.fdc.buffer[p - c.first] = s.memory[Place(s.dma, p - c.first)]
    <3>1. p - c.first \in Address /\ p - c.first <= s.dma.count
      BY <1>6, <2>7, Sizes DEF Address, Sector
    <3> QED
      BY <2>6, <3>1 DEF IntoBuffer
  <2>8. Written(b) = [p \in Sector |-> IF p \in c.first .. c.last
                                       THEN s.memory[Place(s.dma, p - c.first)]
                                       ELSE s.disk[p]]
    BY <1>3, <2>3, <2>4, <2>7 DEF Written
  <2>9. Written(b) \in [Sector -> Data]
    <3>1. Written(b) = [p \in Sector |-> IF p \in c.first .. c.last
                                         THEN b.fdc.buffer[p - c.first]
                                         ELSE s.disk[p]]
      BY <1>3, <2>3, <2>4 DEF Written
    <3>2. \A p \in Sector : p \in c.first .. c.last => b.fdc.buffer[p - c.first] \in Data
      BY <1>5, <2>7
    <3> QED
      BY <1>4, <3>1, <3>2
  <2>10. /\ t \in Machine /\ t.fdc = End(b.fdc, "done") /\ t.dma = b.dma
         /\ t.memory = b.memory /\ t.disk = Written(b)
    BY <1>3, <1>5, <2>1, <2>9, EndShape DEF Machine
  <2>11. Ended(t)
    BY <1>5, <2>10, EndShape DEF Ended
  <2>12. Carried(s, t, c)
    BY <1>8, <2>6, <2>8, <2>10 DEF Carried
  <2> QED
    BY <2>2, <2>10, <2>11, <2>12
<1>9. CASE c.op = "format"
  <2>1. PICK d : d = IF b.fdc.formatted THEN b.disk ELSE [p \in Sector |-> Fill]
    OBVIOUS
  <2>2. PICK f : f = [b.fdc EXCEPT !.formatted = TRUE,
                                   !.at = IF b.fdc.formatted THEN b.fdc.at
                                          ELSE Sectors - 1]
    OBVIOUS
  <2>3. PICK t : t = [b EXCEPT !.disk = d, !.fdc = End(f, "done")]
    OBVIOUS
  <2>4. RunTransfers(s) = t
    <3>1. b.fdc.op = "format"
      BY <1>3, <1>6, <1>9
    <3>2. DmaComplete(b) =
            [b EXCEPT !.disk = IF b.fdc.formatted THEN b.disk ELSE [p \in Sector |-> Fill],
                      !.fdc = End([b.fdc EXCEPT !.formatted = TRUE,
                                     !.at = IF b.fdc.formatted THEN b.fdc.at
                                            ELSE Sectors - 1], "done")]
      BY <3>1 DEF DmaComplete
    <3> QED
      BY <1>2, <2>1, <2>2, <2>3, <3>2
  <2>5. f \in Controller
    BY <1>5, <2>2, Sizes DEF Controller
  <2>6. d \in [Sector -> Data] /\ (~s.fdc.formatted => d = [p \in Sector |-> Fill])
    BY <1>3, <1>5, <2>1, FdcAssumption
  <2>7. /\ t \in Machine /\ t.fdc = End(f, "done") /\ t.dma = b.dma
        /\ t.memory = b.memory /\ t.disk = d
    BY <1>3, <2>3, <2>5, <2>6, EndShape DEF Machine
  <2>8. Ended(t)
    BY <1>5, <2>5, <2>7, EndShape DEF Ended
  <2>9. ~s.dma.toMemory
    BY <1>6, <1>9
  <2>10. Carried(s, t, c)
    BY <1>3, <1>9, <2>6, <2>7, <2>9 DEF Carried
  <2> QED
    BY <2>4, <2>7, <2>8, <2>10
<1> QED
  BY <1>6, <1>7, <1>8, <1>9, OpsAre
LEMMA LowerShape ==
  ASSUME NEW f \in Controller
  PROVE  /\ Lower(f) \in Controller /\ ~Lower(f).latched
         /\ Lower(f).missing = f.missing /\ Lower(f).answer = f.answer
         /\ Answers(f) => Answers(Lower(f))
  BY DEF Lower, Controller, Answers

LEMMA RespondShape ==
  ASSUME NEW f \in Controller, NEW n \in 0 .. 2
  PROVE  /\ Respond(f, n) \in Controller
         /\ Respond(f, n).missing = f.missing /\ Respond(f, n).result = "none"
         /\ Respond(f, n).line = f.line /\ Respond(f, n).latched = f.latched
         /\ Answers(Respond(f, n))
<1>1. PICK w \in BOOLEAN : w = (n # 0)
  OBVIOUS
<1>2. Respond(f, n) = [f EXCEPT !.left = n, !.answer = w, !.busy = w, !.result = "none"]
  BY <1>1, Zenon DEF Respond
<1>3. Respond(f, n) \in Controller
  BY <1>2 DEF Controller
<1>4. Respond(f, n).left = n /\ Respond(f, n).answer = w
  BY <1>2 DEF Controller
<1>5. Answers(Respond(f, n))
  BY <1>1, <1>4 DEF Answers
<1> QED
  BY <1>2, <1>3, <1>5 DEF Controller

LEMMA ResetShape ==
  ASSUME NEW f \in Controller
  PROVE  /\ ResetFdc(f) \in Controller /\ ~ResetFdc(f).missing /\ ~ResetFdc(f).answer
  BY Sizes DEF ResetFdc, Controller

LEMMA ChannelShape ==
  ASSUME NEW d \in Channel
  PROVE  /\ ResetChannel(d) \in Channel /\ ~ResetChannel(d).request
         /\ \A w \in BOOLEAN : /\ [d EXCEPT !.masked = w] \in Channel
                               /\ [d EXCEPT !.masked = w].request = d.request
                               /\ [d EXCEPT !.masked = w].count = d.count
                               /\ [d EXCEPT !.masked = w].toMemory = d.toMemory
                               /\ [d EXCEPT !.masked = w].current = d.current
         /\ \A a \in Address, n \in Address, w \in BOOLEAN :
              /\ Programmed(d, a, n, w) \in Channel
              /\ Programmed(d, a, n, w).request = d.request
<1>1. ResetChannel(d) \in Channel /\ ~ResetChannel(d).request
  BY DEF ResetChannel, Channel
<1>2. ASSUME NEW w \in BOOLEAN
      PROVE  /\ [d EXCEPT !.masked = w] \in Channel
             /\ [d EXCEPT !.masked = w].request = d.request
             /\ [d EXCEPT !.masked = w].count = d.count
             /\ [d EXCEPT !.masked = w].toMemory = d.toMemory
             /\ [d EXCEPT !.masked = w].current = d.current
  BY DEF Channel
<1>3. ASSUME NEW a \in Address, NEW n \in Address, NEW w \in BOOLEAN
      PROVE  /\ Programmed(d, a, n, w) \in Channel
             /\ Programmed(d, a, n, w).request = d.request
  BY DEF Programmed, Channel
<1> QED
  BY <1>1, <1>2, <1>3

\* Moved says what Carried does, of the step that makes t out of a state that
\* s says but for the channel's request and mask and the controller.
LEMMA CarriedIsMoved ==
  ASSUME NEW s, NEW t, NEW c,
         s.memory = memory, s.disk = disk, s.dma.current = dma.current,
         s.fdc.formatted = fdc.formatted,
         memory' = t.memory, disk' = t.disk,
         Carried(s, t, c), c.op \in Moving
  PROVE  Moved(c)
<1>1. \A k : Place(s.dma, k) = Place(dma, k)
  BY DEF Place
<1> QED
  BY <1>1, OpsAre DEF Carried, Moved

-----------------------------------------------------------------------------
(* The steps.                                                              *)

\* What DataMoved says of a step.
Honest ==
  (<<fdc, dma>>' # <<fdc, dma>>
     /\ (memory' # memory \/ disk' # disk
           \/ (fdc'.result = "done" /\ fdc'.answer /\ ~fdc.answer)))
  => order # None /\ Moved(order.command)

LEMMA StateTyped ==
  ASSUME TypeOK
  PROVE  State \in Machine
  BY DEF TypeOK, State, Machine

\* A step after which no command is still to be carried out.
LEMMA Settled ==
  ASSUME fdc' \in Controller, dma' \in Channel, memory' \in [Address -> Data],
         disk' \in [Sector -> Data], order' \in Order \cup {None},
         fdc'.latched => fdc'.line, Answers(fdc'), ~fdc'.missing, ~dma'.request
  PROVE  Inv'
  BY DEF Inv, TypeOK, LatchedIsUp, Announced, Requested

\* While no command is outstanding, none is still to be carried out.
LEMMA NothingOutstanding ==
  ASSUME Inv, order = None
  PROVE  ~fdc.missing /\ ~dma.request
  BY DEF Inv, Announced

LEMMA ProgramKeeps ==
  ASSUME Inv, NEW a \in Address, NEW n \in Sector, NEW w \in BOOLEAN, Program(a, n, w)
  PROVE  Inv' /\ Honest
<1>1. /\ dma' = Programmed(dma, a, n, w) /\ order = None /\ dma \in Channel
      /\ ~dma.request /\ n \in Address
  BY NothingOutstanding, Sizes DEF Program, Inv, TypeOK
<1>2. dma' \in Channel /\ ~dma'.request
  BY <1>1 DEF Programmed, Channel
<1>3. UNCHANGED <<fdc, memory, disk, order>>
  BY DEF Program
<1>4. ~fdc.missing
  BY NothingOutstanding DEF Program
<1>5. Inv'
  BY <1>2, <1>3, <1>4, Settled DEF Inv, TypeOK, LatchedIsUp
<1> QED
  BY <1>3, <1>5 DEF Honest

LEMMA MaskKeeps ==
  ASSUME Inv, Mask
  PROVE  Inv' /\ Honest
<1>1. /\ dma' = [dma EXCEPT !.masked = TRUE] /\ order = None /\ dma \in Channel
      /\ ~dma.request
  BY NothingOutstanding DEF Mask, Inv, TypeOK
<1>2. dma' \in Channel /\ ~dma'.request
  BY <1>1 DEF Channel
<1>3. UNCHANGED <<fdc, memory, disk, order>>
  BY DEF Mask
<1>4. ~fdc.missing
  BY NothingOutstanding DEF Mask
<1>5. Inv'
  BY <1>2, <1>3, <1>4, Settled DEF Inv, TypeOK, LatchedIsUp
<1> QED
  BY <1>3, <1>5 DEF Honest

\* Unmasking the channel lets a request through, or leaves the command as it was.
LEMMA UnmaskKeeps ==
  ASSUME Inv, Unmask
  PROVE  Inv' /\ Honest
<1>1. PICK d : d = [dma EXCEPT !.masked = FALSE]
  OBVIOUS
<1>2. /\ d \in Channel /\ d.request = dma.request /\ d.count = dma.count
      /\ d.toMemory = dma.toMemory /\ d.current = dma.current /\ ~d.masked
  BY <1>1, ChannelShape DEF Inv, TypeOK, Channel
<1>3. PICK s : s = [State EXCEPT !.dma = d]
  OBVIOUS
<1>4. /\ s \in Machine /\ s.dma = d /\ s.fdc = fdc /\ s.memory = memory
      /\ s.disk = disk
  BY <1>2, <1>3, StateTyped DEF Inv, State, Machine
<1>5. PICK t : t = RunTransfers(s)
  OBVIOUS
<1>6. /\ fdc' = t.fdc /\ dma' = t.dma /\ memory' = t.memory /\ disk' = t.disk
      /\ order' = order
  BY <1>1, <1>3, <1>5 DEF Unmask, Becomes, State
<1>7. CASE dma.request
  <2>1. Carries(s, order.command)
    BY <1>2, <1>4, <1>7 DEF Inv, Requested, Carries, State
  <2>2. Due(s.dma)
    BY <1>2, <1>4, <1>7 DEF Due
  <2>3. t \in Machine /\ Ended(t) /\ Carried(s, t, order.command)
    BY <1>4, <1>5, <2>1, <2>2, TransferCarries
  <2>4. Moved(order.command)
    BY <1>2, <1>4, <1>6, <2>1, <2>3, CarriedIsMoved DEF Carries
  <2>5. order # None
    BY <1>7 DEF Inv, Announced
  <2>6. Inv'
    BY <1>6, <2>3, Settled DEF Inv, TypeOK, Machine, Ended
  <2> QED
    BY <2>4, <2>5, <2>6 DEF Honest
<1>8. CASE ~dma.request
  <2>1. t = s
    BY <1>2, <1>4, <1>5, <1>8 DEF RunTransfers, Due
  <2>2. UNCHANGED <<fdc, memory, disk, order>> /\ dma' = d
    BY <1>4, <1>6, <2>1
  <2>3. TypeOK' /\ LatchedIsUp'
    BY <1>2, <2>2 DEF Inv, TypeOK, LatchedIsUp
  <2>4. Announced' /\ Requested'
    BY <1>2, <1>8, <2>2 DEF Inv, Announced, Requested, Fits
  <2> QED
    BY <2>2, <2>3, <2>4 DEF Honest, Inv
<1> QED
  BY <1>7, <1>8
\* The first bytes of a command: it is what the guest waits for from here on.
LEMMA BeginKeeps ==
  ASSUME Inv, NEW c \in Command, Begin(c)
  PROVE  Inv' /\ Honest
<1>1. /\ order = None /\ ~fdc.answer /\ ~fdc.line /\ ~fdc.missing
      /\ c.first <= c.last \/ c.first = Sectors
      /\ c.first # Sectors => Fits(c)
      /\ fdc' = [fdc EXCEPT !.op = IF c.op \in Moving THEN c.op ELSE "other",
                            !.missing = TRUE]
      /\ order' = [command |-> c, heard |-> FALSE]
      /\ UNCHANGED <<dma, memory, disk>>
  BY DEF Begin, Quiet
<1>2. PICK o \in Opcode : o = IF c.op \in Moving THEN c.op ELSE "other"
  BY OpsAre
<1>3. /\ fdc' = [fdc EXCEPT !.op = o, !.missing = TRUE] /\ fdc \in Controller
      /\ dma \in Channel /\ memory \in [Address -> Data] /\ disk \in [Sector -> Data]
  BY <1>1, <1>2 DEF Inv, TypeOK
<1>4. /\ fdc' \in Controller /\ fdc'.op = o /\ fdc'.latched = fdc.latched
      /\ fdc'.line = fdc.line /\ fdc'.answer = fdc.answer /\ fdc'.left = fdc.left
  BY <1>3 DEF Controller
<1>5. order' \in Order /\ order' # None /\ order'.command = c /\ ~order'.heard
  <2>1. order' \in [command : Command \cup {ResetOrder}, heard : BOOLEAN]
    BY <1>1
  <2>2. order' \in Order
    BY <2>1 DEF Order
  <2> QED
    BY <1>1, <2>2, NoneAssumption
<1>6. ~dma.request
  BY <1>1, NothingOutstanding
<1>7. TypeOK' /\ LatchedIsUp' /\ Answers(fdc)' /\ Requested'
  BY <1>1, <1>3, <1>4, <1>5, <1>6 DEF Inv, TypeOK, LatchedIsUp, Requested, Answers
<1>8. Announced'
  BY <1>1, <1>2, <1>4, <1>5 DEF Announced, Fits
<1> QED
  BY <1>1, <1>7, <1>8 DEF Inv, Honest

\* The last byte of a command that moves data: the transfer, or its request.
LEMMA ExecuteKeeps ==
  ASSUME Inv, NEW c \in Command, c = order.command, c.op \in Moving, fdc.missing,
         ~dma.request, Becomes(Execute(State, c)), UNCHANGED order
  PROVE  Inv' /\ Honest
<1>1. /\ order # None /\ ~order.heard /\ ~fdc.answer /\ ~fdc.line /\ fdc.op = c.op
      /\ c.first # Sectors => c.first <= c.last /\ Fits(c)
  BY DEF Inv, Announced
<1>2. /\ fdc \in Controller /\ dma \in Channel /\ memory \in [Address -> Data]
      /\ disk \in [Sector -> Data] /\ order \in Order
  BY <1>1 DEF Inv, TypeOK
<1>3. /\ State.fdc = fdc /\ State.dma = dma /\ State.memory = memory
      /\ State.disk = disk /\ State \in Machine
  BY StateTyped DEF Inv, State
<1>4. PICK t : t = Execute(State, c)
  OBVIOUS
<1>5. /\ fdc' = t.fdc /\ dma' = t.dma /\ memory' = t.memory /\ disk' = t.disk
      /\ order' = order
  BY <1>4 DEF Becomes
<1>6. CASE ~c.there \/ c.first \notin Sector
  <2>1. t = [State EXCEPT !.fdc = End(fdc, "failed")]
    BY <1>3, <1>4, <1>6 DEF Execute
  <2>2. /\ t.fdc = End(fdc, "failed") /\ t.dma = dma /\ t.memory = memory
        /\ t.disk = disk
    BY <1>3, <2>1 DEF Machine
  <2>3. /\ fdc' \in Controller /\ ~fdc'.missing /\ fdc'.line /\ fdc'.result = "failed"
        /\ Answers(fdc')
    BY <1>2, <1>5, <2>2, EndShape
  <2>4. Inv'
    BY <1>2, <1>5, <2>2, <2>3, Settled
  <2> QED
    BY <1>5, <2>2, <2>3, <2>4 DEF Honest
<1>7. CASE c.there /\ c.first \in Sector
  <2>1. c.first # Sectors /\ c.first \in Nat
    BY <1>7, Sizes DEF Sector
  <2>2. /\ c.first <= c.last /\ dma.count = c.last - c.first
        /\ dma.toMemory = (c.op = "read")
    BY <1>1, <2>1 DEF Fits
  <2>3. /\ c.last \in Sector /\ c.last \in Nat /\ c.last - c.first \in Address
        /\ \A k \in 0 .. c.last - c.first : c.first + k \in Sector /\ k \in Address
    <3>1. c.last \in Sector /\ c.last \in Nat
      BY CommandsAre, Sizes
    <3>2. c.first \in Nat /\ c.first <= c.last /\ c.last < Sectors /\ Sectors <= Bank
          /\ Sectors \in Nat /\ Bank \in Nat
      BY <2>1, <2>2, <3>1, Sizes DEF Sector
    <3>3. c.last - c.first \in 0 .. Bank - 1
      BY <3>1, <3>2
    <3>4. \A k \in 0 .. c.last - c.first :
            c.first + k \in 0 .. Sectors - 1 /\ k \in 0 .. Bank - 1
      BY <3>1, <3>2
    <3> QED
      BY <3>1, <3>3, <3>4 DEF Sector, Address
  \* The controller when it raises its request.
  <2>4. \E f \in Controller :
          /\ t = RaiseDreq([State EXCEPT !.fdc = f])
          /\ f.op = c.op /\ f.line = fdc.line /\ f.latched = fdc.latched
          /\ f.answer = fdc.answer /\ f.formatted = fdc.formatted
          /\ c.op = "read" =>
               \A k \in 0 .. c.last - c.first : f.buffer[k] = disk[c.first + k]
          /\ c.op = "write" => f.at = c.first /\ f.length = c.last - c.first
    <3>1. CASE c.op = "read"
      <4>1. PICK b : b = [k \in Address |-> IF k <= c.last - c.first THEN disk[c.first + k]
                                            ELSE fdc.buffer[k]]
        OBVIOUS
      <4>2. PICK f : f = [fdc EXCEPT !.at = c.first, !.missing = FALSE, !.busy = TRUE,
                                     !.buffer = b]
        OBVIOUS
      <4>3. fdc.buffer \in [Address -> Data]
        BY <1>2 DEF Controller
      <4>4. \A k \in Address : k <= c.last - c.first => c.first + k \in Sector
        BY <2>3 DEF Address
      <4>5. b \in [Address -> Data]
        BY <1>2, <4>1, <4>3, <4>4
      <4>6. f \in Controller
        BY <1>2, <1>7, <4>2, <4>5 DEF Controller
      <4>7. /\ f.op = fdc.op /\ f.line = fdc.line /\ f.latched = fdc.latched
            /\ f.answer = fdc.answer /\ f.formatted = fdc.formatted /\ f.buffer = b
        BY <1>2, <4>2 DEF Controller
      <4>8. \A k \in 0 .. c.last - c.first : b[k] = disk[c.first + k]
        BY <2>3, <4>1
      <4>9. Execute(State, c) = RaiseDreq([State EXCEPT !.fdc = f])
        BY <1>3, <1>7, <3>1, <4>1, <4>2 DEF Execute
      <4> QED
        BY <1>1, <1>4, <3>1, <4>6, <4>7, <4>8, <4>9
    <3>2. CASE c.op = "write"
      <4>1. PICK f : f = [fdc EXCEPT !.at = c.first, !.length = c.last - c.first,
                                     !.missing = FALSE]
        OBVIOUS
      <4>2. f \in Controller
        BY <1>2, <1>7, <2>3, <4>1 DEF Controller
      <4>3. /\ f.op = fdc.op /\ f.line = fdc.line /\ f.latched = fdc.latched
            /\ f.answer = fdc.answer /\ f.formatted = fdc.formatted
            /\ f.at = c.first /\ f.length = c.last - c.first
        BY <1>2, <4>1 DEF Controller
      <4>4. Execute(State, c) = RaiseDreq([State EXCEPT !.fdc = f])
        BY <1>3, <1>7, <3>2, <4>1 DEF Execute
      <4> QED
        BY <1>1, <1>4, <3>2, <4>2, <4>3, <4>4
    <3>3. CASE c.op = "format"
      <4>1. Execute(State, c) = RaiseDreq(State)
        BY <1>7, <3>3 DEF Execute
      <4>2. State = [State EXCEPT !.fdc = fdc]
        BY <1>3 DEF Machine
      <4> QED
        BY <1>1, <1>2, <1>4, <3>3, <4>1, <4>2
    <3> QED
      BY <3>1, <3>2, <3>3, OpsAre
  <2>5. PICK f \in Controller :
          /\ t = RaiseDreq([State EXCEPT !.fdc = f])
          /\ f.op = c.op /\ f.line = fdc.line /\ f.latched = fdc.latched
          /\ f.answer = fdc.answer /\ f.formatted = fdc.formatted
          /\ c.op = "read" =>
               \A k \in 0 .. c.last - c.first : f.buffer[k] = disk[c.first + k]
          /\ c.op = "write" => f.at = c.first /\ f.length = c.last - c.first
    BY <2>4
  <2>6. PICK d : d = [dma EXCEPT !.request = TRUE]
    OBVIOUS
  <2>7. /\ d \in Channel /\ d.request /\ d.count = dma.count /\ d.masked = dma.masked
        /\ d.toMemory = dma.toMemory /\ d.current = dma.current
    BY <1>2, <2>6 DEF Channel
  <2>8. PICK s : s = [State EXCEPT !.fdc = f, !.dma = d]
    OBVIOUS
  <2>9. /\ s \in Machine /\ s.fdc = f /\ s.dma = d /\ s.memory = memory /\ s.disk = disk
    BY <1>3, <2>7, <2>8 DEF Machine
  <2>10. t = RunTransfers(s)
    BY <1>3, <2>5, <2>6, <2>8 DEF RaiseDreq, Machine
  <2>11. Carries(s, c)
    BY <1>7, <2>2, <2>5, <2>7, <2>9 DEF Carries
  <2>12. CASE dma.masked
    <3>1. t = s
      BY <2>7, <2>9, <2>10, <2>12 DEF RunTransfers, Due
    <3>2. fdc' = f /\ dma' = d /\ memory' = memory /\ disk' = disk /\ order' = order
      BY <1>5, <2>9, <3>1
    <3>3. TypeOK' /\ LatchedIsUp' /\ Answers(fdc)'
      BY <1>1, <1>2, <2>5, <2>7, <3>2 DEF Inv, TypeOK, LatchedIsUp, Answers
    <3>4. Announced'
      BY <1>1, <2>2, <2>5, <2>7, <3>2 DEF Announced, Fits
    <3>5. Requested'
      BY <2>9, <2>11, <3>2 DEF Requested, State, Carries
    <3> QED
      BY <1>1, <2>5, <3>2, <3>3, <3>4, <3>5 DEF Inv, Honest
  <2>13. CASE ~dma.masked
    <3>1. Due(s.dma)
      BY <2>7, <2>9, <2>13 DEF Due
    <3>2. t \in Machine /\ Ended(t) /\ Carried(s, t, c)
      BY <2>9, <2>10, <2>11, <3>1, TransferCarries
    <3>3. Moved(c)
      BY <1>5, <2>5, <2>7, <2>9, <3>2, CarriedIsMoved
    <3>4. Inv'
      BY <1>2, <1>5, <3>2, Settled DEF Machine, Ended
    <3> QED
      BY <1>1, <3>3, <3>4 DEF Honest
  <2> QED
    BY <2>12, <2>13
<1> QED
  BY <1>6, <1>7
LEMMA FinishKeeps ==
  ASSUME Inv, Finish
  PROVE  Inv' /\ Honest
<1>1. PICK c : c = order.command
  OBVIOUS
<1>2. /\ fdc.missing /\ order # None /\ ~dma.request
      /\ CASE c.op \in Moving -> Becomes(Execute(State, c)) /\ UNCHANGED order
           [] c.op = "calibrate" ->
                /\ Becomes([State EXCEPT !.fdc =
                              Raise([fdc EXCEPT !.missing = FALSE, !.at = 0])])
                /\ UNCHANGED order
           [] c.op = "settings" ->
                /\ Becomes([State EXCEPT !.fdc =
                              [fdc EXCEPT !.missing = FALSE, !.busy = FALSE,
                                          !.answer = FALSE]])
                /\ order' = None
  BY <1>1 DEF Finish
<1>3. /\ c \in Command /\ ~fdc.answer
      /\ fdc \in Controller /\ dma \in Channel /\ memory \in [Address -> Data]
      /\ disk \in [Sector -> Data] /\ order \in Order \cup {None}
      /\ fdc.latched => fdc.line
  BY <1>1, <1>2 DEF Inv, TypeOK, Announced, LatchedIsUp
<1>4. c.op \in Moving \cup {"calibrate", "settings"}
      /\ "calibrate" \notin Moving /\ "settings" \notin Moving
  BY <1>3, CommandsAre DEF Moving
<1>5. \A f : /\ [State EXCEPT !.fdc = f].fdc = f
             /\ [State EXCEPT !.fdc = f].dma = dma
             /\ [State EXCEPT !.fdc = f].memory = memory
             /\ [State EXCEPT !.fdc = f].disk = disk
  BY DEF State
<1>6. CASE c.op \in Moving
  <2>1. Becomes(Execute(State, c)) /\ UNCHANGED order
    BY <1>2, <1>4, <1>6
  <2> QED
    BY <1>1, <1>2, <1>3, <1>6, <2>1, ExecuteKeeps
<1>7. CASE c.op = "calibrate"
  <2>1. PICK f : f = [fdc EXCEPT !.missing = FALSE, !.at = 0]
    OBVIOUS
  <2>2. f \in Controller /\ ~f.missing /\ ~f.answer
    BY <1>3, <2>1, Sizes DEF Controller
  <2>3. /\ fdc' = Raise(f) /\ dma' = dma /\ memory' = memory /\ disk' = disk
        /\ order' = order
    BY <1>2, <1>4, <1>5, <1>7, <2>1 DEF Becomes
  <2>4. fdc' \in Controller /\ ~fdc'.missing /\ ~fdc'.answer /\ fdc'.line
    BY <1>3, <2>2, <2>3, RaiseShape
  <2>5. Inv'
    BY <1>2, <1>3, <2>3, <2>4, Settled DEF Answers
  <2> QED
    BY <2>3, <2>4, <2>5 DEF Honest
<1>8. CASE c.op = "settings"
  <2>1. PICK f : f = [fdc EXCEPT !.missing = FALSE, !.busy = FALSE, !.answer = FALSE]
    OBVIOUS
  <2>2. /\ f \in Controller /\ ~f.missing /\ ~f.answer /\ f.latched = fdc.latched
        /\ f.line = fdc.line
    BY <1>3, <2>1 DEF Controller
  <2>3. /\ fdc' = f /\ dma' = dma /\ memory' = memory /\ disk' = disk
        /\ order' = None
    BY <1>2, <1>4, <1>5, <1>8, <2>1 DEF Becomes
  <2>4. Inv'
    BY <1>2, <1>3, <2>2, <2>3, Settled DEF Answers
  <2> QED
    BY <2>2, <2>3, <2>4 DEF Honest
<1> QED
  BY <1>4, <1>6, <1>7, <1>8

LEMMA ReportKeeps ==
  ASSUME Inv, Report
  PROVE  Inv' /\ Honest
<1>1. /\ order = None /\ fdc \in Controller /\ ~fdc.missing /\ ~dma.request
      /\ fdc' = Respond([fdc EXCEPT !.op = "other"], 1)
      /\ UNCHANGED <<dma, memory, disk, order>>
      /\ fdc.latched => fdc.line
  BY NothingOutstanding DEF Report, Inv, TypeOK, LatchedIsUp
<1>2. PICK f : f = [fdc EXCEPT !.op = "other"]
  OBVIOUS
<1>3. /\ f \in Controller /\ ~f.missing /\ f.line = fdc.line /\ f.latched = fdc.latched
  BY <1>1, <1>2, OpsAre DEF Controller
<1>4. fdc' = Respond(f, 1)
  BY <1>1, <1>2
<1>5. /\ fdc' \in Controller /\ ~fdc'.missing /\ fdc'.result = "none"
      /\ Answers(fdc')
      /\ fdc'.latched => fdc'.line
  BY <1>1, <1>3, <1>4, RespondShape
<1>6. Inv'
  BY <1>1, <1>5, Settled DEF Inv, TypeOK
<1> QED
  BY <1>1, <1>5, <1>6 DEF Honest

\* A sense is heard of, so it finds no command still to be carried out.
LEMMA SenseKeeps ==
  ASSUME Inv, Sense
  PROVE  Inv' /\ Honest
<1>1. /\ fdc \in Controller /\ ~fdc.missing
      /\ order # None => order.heard
      /\ fdc' = Raise(Respond([fdc EXCEPT !.op = "other"], 2))
      /\ UNCHANGED <<dma, memory, disk, order>>
  BY DEF Sense, Quiet, Inv, TypeOK
<1>2. ~dma.request
  BY <1>1 DEF Inv, Announced
<1>3. PICK f : f = [fdc EXCEPT !.op = "other"]
  OBVIOUS
<1>4. f \in Controller /\ ~f.missing
  BY <1>1, <1>3, OpsAre DEF Controller
<1>5. PICK g : g = Respond(f, 2)
  OBVIOUS
<1>6. g \in Controller /\ ~g.missing /\ g.result = "none" /\ Answers(g)
  BY <1>4, <1>5, RespondShape
<1>7. fdc' = Raise(g)
  BY <1>1, <1>3, <1>5
<1>8. /\ fdc' \in Controller /\ ~fdc'.missing /\ fdc'.line /\ fdc'.result = "none"
      /\ Answers(fdc')
  BY <1>6, <1>7, RaiseShape
<1>9. Inv'
  BY <1>1, <1>2, <1>8, Settled DEF Inv, TypeOK
<1> QED
  BY <1>1, <1>8, <1>9 DEF Honest

\* An interrupt that is latched has its line up, so it announces no command
\* still to be carried out.
LEMMA HearKeeps ==
  ASSUME Inv, Hear
  PROVE  Inv' /\ Honest
<1>1. /\ fdc \in Controller /\ fdc.line /\ fdc' = [fdc EXCEPT !.latched = FALSE]
      /\ order \in Order \cup {None}
      /\ order' = IF order = None THEN None ELSE [order EXCEPT !.heard = TRUE]
      /\ UNCHANGED <<dma, memory, disk>>
  BY DEF Hear, Inv, TypeOK, LatchedIsUp
<1>2. ~fdc.missing /\ ~dma.request
  BY <1>1 DEF Inv, Announced
<1>3. /\ fdc' \in Controller /\ ~fdc'.latched /\ fdc'.missing = fdc.missing
      /\ fdc'.answer = fdc.answer /\ fdc'.left = fdc.left
  BY <1>1 DEF Controller
<1>4. order' \in Order \cup {None}
  BY <1>1 DEF Order
<1>5. Inv'
  BY <1>1, <1>2, <1>3, <1>4, Settled DEF Inv, TypeOK, Answers
<1> QED
  BY <1>1, <1>3, <1>5 DEF Honest

LEMMA ReadResultKeeps ==
  ASSUME Inv, ReadResult
  PROVE  Inv' /\ Honest
<1>1. /\ fdc \in Controller /\ fdc.answer /\ fdc' = Taken(fdc)
      /\ order \in Order \cup {None}
      /\ order' = IF fdc'.answer THEN order ELSE None
      /\ UNCHANGED <<dma, memory, disk>>
      /\ fdc.latched => fdc.line
      /\ fdc.left \in 0 .. 2 /\ fdc.left # 0
  BY DEF ReadResult, Inv, TypeOK, LatchedIsUp, Answers, Controller
<1>2. ~fdc.missing /\ ~dma.request
  BY <1>1 DEF Inv, Announced
<1>3. /\ fdc' \in Controller /\ ~fdc'.missing /\ Answers(fdc')
      /\ fdc'.latched => fdc'.line
  <2>1. CASE fdc.left = 1
    <3>1. fdc' = Respond(fdc, 0)
      BY <1>1, <2>1 DEF Taken
    <3> QED
      BY <1>1, <1>2, <3>1, RespondShape
  <2>2. CASE fdc.left # 1
    <3>1. fdc' = [fdc EXCEPT !.left = @ - 1]
      BY <1>1, <2>2 DEF Taken
    <3>2. fdc.left - 1 \in 0 .. 2 /\ fdc.left - 1 # 0
      BY <1>1, <2>2
    <3> QED
      BY <1>1, <1>2, <3>1, <3>2 DEF Controller, Answers
  <2> QED
    BY <2>1, <2>2
<1>4. order' \in Order \cup {None}
  BY <1>1
<1>5. Inv'
  BY <1>1, <1>2, <1>3, <1>4, Settled DEF Inv, TypeOK
<1> QED
  BY <1>1, <1>5 DEF Honest

LEMMA WriteDorKeeps ==
  ASSUME Inv, WriteDor
  PROVE  Inv' /\ Honest
<1>1. /\ order = None /\ fdc \in Controller /\ fdc' = Lower(fdc) /\ ~fdc.missing
      /\ ~dma.request /\ UNCHANGED <<dma, memory, disk, order>>
  BY NothingOutstanding DEF WriteDor, Inv, TypeOK
<1>2. /\ fdc' \in Controller /\ ~fdc'.missing /\ ~fdc'.latched
      /\ fdc'.answer = fdc.answer /\ Answers(fdc')
  BY <1>1, LowerShape DEF Inv
<1>3. Inv'
  BY <1>1, <1>2, Settled DEF Inv, TypeOK
<1> QED
  BY <1>1, <1>2, <1>3 DEF Honest

LEMMA ResetControllerKeeps ==
  ASSUME Inv, NEW both \in BOOLEAN, ResetController(both)
  PROVE  Inv' /\ Honest
<1>1. /\ fdc \in Controller /\ dma \in Channel
      /\ dma.request => both
      /\ fdc' = Raise(ResetFdc(Lower(fdc)))
      /\ dma' = IF both THEN ResetChannel(dma) ELSE dma
      /\ order' = [command |-> ResetOrder, heard |-> FALSE]
      /\ UNCHANGED <<memory, disk>>
  BY DEF ResetController, Inv, TypeOK
<1>2. PICK f : f = Lower(fdc)
  OBVIOUS
<1>3. f \in Controller
  BY <1>1, <1>2, LowerShape
<1>4. PICK g : g = ResetFdc(f)
  OBVIOUS
<1>5. g \in Controller /\ ~g.missing /\ ~g.answer
  BY <1>3, <1>4, ResetShape
<1>6. fdc' = Raise(g)
  BY <1>1, <1>2, <1>4
<1>7. fdc' \in Controller /\ ~fdc'.missing /\ fdc'.line /\ ~fdc'.answer
  BY <1>5, <1>6, RaiseShape
<1>8. dma' \in Channel /\ ~dma'.request
  BY <1>1, ChannelShape
<1>9. order' \in [command : Command \cup {ResetOrder}, heard : BOOLEAN]
  BY <1>1
<1>10. Inv'
  BY <1>1, <1>7, <1>8, <1>9, Settled DEF Inv, TypeOK, Order, Answers
<1> QED
  BY <1>1, <1>7, <1>10 DEF Honest

LEMMA ResetKeeps ==
  ASSUME Inv, Reset
  PROVE  Inv' /\ Honest
<1>1. /\ fdc \in Controller /\ dma \in Channel
      /\ fdc' = [ResetFdc(fdc) EXCEPT !.latched = FALSE]
      /\ dma' = ResetChannel(dma) /\ order' = None /\ UNCHANGED <<memory, disk>>
  BY DEF Reset, Inv, TypeOK
<1>2. PICK f : f = ResetFdc(fdc)
  OBVIOUS
<1>3. f \in Controller /\ ~f.missing /\ ~f.answer
  BY <1>1, <1>2, ResetShape
<1>4. fdc' = [f EXCEPT !.latched = FALSE]
  BY <1>1, <1>2
<1>5. fdc' \in Controller /\ ~fdc'.missing /\ ~fdc'.answer /\ ~fdc'.latched
  BY <1>3, <1>4 DEF Controller
<1>6. dma' \in Channel /\ ~dma'.request
  BY <1>1, ChannelShape
<1>7. Inv'
  BY <1>1, <1>5, <1>6, Settled DEF Inv, TypeOK, Answers
<1> QED
  BY <1>1, <1>5, <1>7 DEF Honest

-----------------------------------------------------------------------------
(* The theorems.                                                           *)

LEMMA InitKeeps == Init => Inv
<1> SUFFICES ASSUME Init PROVE Inv
  OBVIOUS
<1>1. fdc = [op |-> "other", missing |-> FALSE, busy |-> FALSE, answer |-> FALSE,
             left |-> 0, result |-> "none", line |-> FALSE,
             latched |-> FALSE, at |-> 0, length |-> 0, formatted |-> FALSE,
             buffer |-> Blank]
  BY DEF Init
<1>2. fdc \in Controller
  BY <1>1, BlankTyped, Sizes, OpsAre DEF Controller
<1>3. ~fdc.missing /\ ~fdc.latched /\ ~fdc.answer
  BY <1>1
<1>4. dma \in Channel /\ ~dma.request
  BY Sizes DEF Init, PowerOnChannel, Channel
<1> QED
  BY <1>2, <1>3, <1>4 DEF Init, Inv, TypeOK, LatchedIsUp, Answers, Announced, Requested

LEMMA StepKeeps ==
  ASSUME Inv, [Next]_vars
  PROVE  Inv' /\ [Honest]_vars
<1>1. CASE Next
  BY <1>1, ProgramKeeps, MaskKeeps, UnmaskKeeps, BeginKeeps, FinishKeeps, ReportKeeps,
     SenseKeeps, HearKeeps, ReadResultKeeps, WriteDorKeeps, ResetControllerKeeps,
     ResetKeeps
  DEF Next
<1>2. CASE UNCHANGED vars
  BY <1>2 DEF vars, Inv, TypeOK, LatchedIsUp, Announced, Requested, Carries, State, Fits
<1> QED
  BY <1>1, <1>2

LEMMA InvariantHolds == Spec => []Inv
  BY InitKeeps, StepKeeps, PTL DEF Spec

\* Every reachable state of controller, channel, memory and medium has its
\* type: no transfer, seek or format leaves the track, the bank or the buffer.
THEOREM TypeCorrect == Spec => []TypeOK
<1>1. Inv => TypeOK
  BY DEF Inv
<1> QED
  BY <1>1, InvariantHolds, PTL

\* Memory and medium change only to carry out the command the guest waits for,
\* whole, and a command that ends well has done so: in every order of
\* commands, masks, senses and resets of either side.
THEOREM OnlyCommandsMoveData == Spec => DataMoved
<1>1. Inv /\ [Next]_vars => [Honest]_vars
  BY StepKeeps
<1>2. DataMoved <=> [][Honest]_vars
  BY PTL DEF DataMoved, Honest
<1> QED
  BY <1>1, <1>2, InvariantHolds, PTL DEF Spec

=============================================================================
