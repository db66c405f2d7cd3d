----------------------------- MODULE IdeProofs ------------------------------
(***************************************************************************)
(* Theorems about Ide, for any geometry, width of registers, size of       *)
(* image, block, memory and chunk, and any tables of one or two entries.   *)
(*                                                                         *)
(* The controller keeps no request, only registers that commands, words    *)
(* and resets rewrite.  The inductive invariant, IInv, says how they stand *)
(* to what the driver waits for: a read is ahead of it, its sectors in the *)
(* buffer and the registers behind them; a write is level with it; the bus *)
(* master has begun nothing before its start bit.  Then each step moves    *)
(* what the order asks next, as the registers give back the place they     *)
(* were set to (LocatedIs) and the sectors of a transfer are written one   *)
(* after the other (FromMemoryIs), from places that do not meet (TablesAre)*)
(***************************************************************************)
EXTENDS Ide, WellFoundedInduction, TLAPS

-----------------------------------------------------------------------------
(* Numbers.                                                                *)

\* A nonempty set of naturals has a least element.
LEMMA LeastIs ==
  ASSUME NEW T \in SUBSET Nat, T # {}
  PROVE  \E x \in T : \A y \in T : x <= y
<1> DEFINE R == {ss \in Nat \X Nat : ss[1] < ss[2]}
<1>1. R = OpToRel(<, Nat)
  BY DEF OpToRel
<1>2. IsWellFoundedOn(R, Nat)
  BY <1>1, NatLessThanWellFounded
<1>3. \A x, y \in Nat : x < y => <<x, y>> \in R
  OBVIOUS
<1> HIDE DEF R
<1>4. PICK x \in T : \A y \in T : ~(<<y, x>> \in R)
  BY <1>2, WFMin
<1>5. \A y \in T : ~(y < x)
  BY <1>3, <1>4
<1> QED
  BY <1>5

LEMMA Quotient ==
  ASSUME NEW a \in Int, NEW b \in Nat \ {0}
  PROVE  /\ a = b * (a \div b) + (a % b)
         /\ a % b \in 0 .. b - 1
         /\ a \div b \in Int
         /\ a >= 0 => a \div b >= 0
  BY SMT

LEMMA QuotientUnique ==
  ASSUME NEW b \in Nat \ {0}, NEW q \in Int, NEW r \in 0 .. b - 1
  PROVE  (b * q + r) \div b = q /\ (b * q + r) % b = r
  BY SMT

\* The same with names for quotient and remainder.
LEMMA Divided ==
  ASSUME NEW a \in Nat, NEW b \in Nat \ {0}
  PROVE  \E q \in Nat, r \in 0 .. b - 1 : q = a \div b /\ r = a % b /\ a = b * q + r
<1>1. a \in Int /\ a >= 0
  OBVIOUS
<1>2. a = b * (a \div b) + (a % b) /\ a % b \in 0 .. b - 1
  BY <1>1, Quotient
<1>3. a \div b \in Int /\ a \div b >= 0
  BY <1>1, Quotient
<1> QED
  BY <1>2, <1>3

LEMMA Ring ==
  ASSUME NEW a \in Int, NEW b \in Int, NEW c \in Int
  PROVE  /\ a * (b + c) = a * b + a * c /\ a * (b * c) = (a * b) * c /\ a * b = b * a
         /\ a * b \in Int
  OBVIOUS

\* A number below b * c has a quotient by b below c.
LEMMA QuotientBelow ==
  ASSUME NEW b \in Nat \ {0}, NEW c \in Nat, NEW a \in Nat, a < b * c
  PROVE  a \div b < c /\ a \div b \in Nat
<1>1. PICK q \in Nat : q = a \div b
  BY Quotient
<1>2. a >= b * q
  BY <1>1, Quotient
<1>3. ASSUME q >= c PROVE FALSE
  <2>1. b * q >= b * c
    BY <1>3
  <2> QED
    BY <1>2, <2>1
<1> QED
  BY <1>1, <1>3

LEMMA SizesAre ==
  /\ Heads \in Nat \ {0} /\ SectorsPerTrack \in Nat \ {0} /\ Byte \in Nat \ {0}
  /\ Most \in Nat \ {0} /\ Words \in Nat \ {0} /\ Multiple \in Nat \ {0}
  /\ Memory \in Nat \ {0}
  /\ SectorsPerTrack < Byte /\ Heads <= 16
  /\ Byte * Byte \in Nat \ {0} /\ Byte * Byte * Byte \in Nat \ {0}
  /\ Sectors \in Nat /\ BlockSize \in Nat \ {0}
  BY IdeAssumption, DriveAssumption

-----------------------------------------------------------------------------
(* The address in the registers.                                           *)

LEMMA OffsetTyped ==
  ASSUME NEW r \in Registers
  PROVE  Offset(r) \in Int
  BY SizesAre DEF Offset, Registers

LEMMA LocatedTyped ==
  ASSUME NEW p \in Int, NEW lba \in BOOLEAN, NEW r \in Registers
  PROVE  Located(p, lba, r) \in Registers /\ Located(p, lba, r).lba = lba
<1>1. CASE lba
  <2>1. /\ p % Byte \in 0 .. Byte - 1
        /\ (p \div Byte) % (Byte * Byte) \in 0 .. Byte * Byte - 1
        /\ (p \div (Byte * Byte * Byte)) % 16 \in 0 .. 15
    BY SizesAre, Quotient
  <2>2. Located(p, lba, r) = [r EXCEPT !.lba = TRUE, !.number = p % Byte,
                                       !.cylinder = (p \div Byte) % (Byte * Byte),
                                       !.head = (p \div (Byte * Byte * Byte)) % 16]
    BY <1>1 DEF Located
  <2> QED
    BY <1>1, <2>1, <2>2 DEF Registers
<1>2. CASE ~lba
  <2>1. PICK track \in Int : track = p \div SectorsPerTrack
    BY SizesAre, Quotient
  <2>2. /\ (p % SectorsPerTrack) + 1 \in 0 .. Byte - 1
        /\ (track \div Heads) % (Byte * Byte) \in 0 .. Byte * Byte - 1
        /\ (track % Heads) % 16 \in 0 .. 15
    <3>1. p % SectorsPerTrack \in 0 .. SectorsPerTrack - 1
      BY SizesAre, Quotient
    <3>2. track \div Heads \in Int /\ track % Heads \in Int
      BY SizesAre, Quotient
    <3>3. (track \div Heads) % (Byte * Byte) \in 0 .. Byte * Byte - 1
      BY <3>2, SizesAre, Quotient
    <3> QED
      BY <3>1, <3>2, <3>3, SizesAre
  <2>3. Located(p, lba, r) = [r EXCEPT !.lba = FALSE, !.number = (p % SectorsPerTrack) + 1,
                                       !.cylinder = (track \div Heads) % (Byte * Byte),
                                       !.head = (track % Heads) % 16]
    BY <1>2, <2>1 DEF Located
  <2> QED
    BY <1>2, <2>2, <2>3 DEF Registers
<1> QED
  BY <1>1, <1>2

\* The registers come back to the sector they were set to, as long as they can
\* name it.
LEMMA LocatedIs ==
  ASSUME NEW p \in Nat, NEW lba \in BOOLEAN, NEW r \in Registers, p < Addressable(lba)
  PROVE  Offset(Located(p, lba, r)) = p
<1>1. CASE lba
  <2>1. PICK q \in Nat, n \in 0 .. Byte - 1 :
          q = p \div Byte /\ n = p % Byte /\ p = Byte * q + n
    BY SizesAre, Divided
  <2>2. PICK b \in Nat \ {0} : b = Byte * Byte
    BY SizesAre
  <2>3. PICK h \in Nat, c \in 0 .. b - 1 : h = q \div b /\ c = q % b /\ q = b * h + c
    BY Divided
  <2>4. PICK y \in Nat \ {0} : y = Byte
    BY SizesAre
  <2>5. y * (b * h + c) = (y * b) * h + y * c
    BY Ring
  <2>6. y * c + n \in 0 .. (y * b) - 1
    <3>1. y * c <= y * (b - 1)
      BY <2>3
    <3>2. y * (b - 1) = y * b - y /\ y * c \in Nat /\ y * b \in Nat
      OBVIOUS
    <3> QED
      BY <2>1, <2>4, <3>1, <3>2
  <2>7. PICK z \in Nat \ {0} : z = y * b /\ z = Byte * Byte * Byte
    <3>1. y * b = Byte * (Byte * Byte)
      BY <2>2, <2>4
    <3>2. y * b = Byte * Byte * Byte
      BY <3>1, SizesAre, Ring
    <3> QED
      BY <3>2, SizesAre
  <2>8. PICK w \in 0 .. z - 1 : w = y * c + n
    BY <2>6, <2>7
  <2>9. p = z * h + w
    <3>1. p = y * (b * h + c) + n
      BY <2>1, <2>3, <2>4
    <3>2. p = ((y * b) * h + y * c) + n
      BY <2>5, <3>1
    <3>3. (y * b) * h \in Int /\ y * c \in Int /\ n \in Int /\ z * h = (y * b) * h
      BY <2>7, Ring
    <3> QED
      BY <2>8, <3>2, <3>3
  <2>10. p \div z = h
    BY <2>9, QuotientUnique
  <2>11. h < 16
    BY <1>1, <2>7, <2>10, QuotientBelow DEF Addressable
  <2>12. h % 16 = h
    BY <2>11
  <2>13. /\ Located(p, lba, r).lba = TRUE /\ Located(p, lba, r).number = n
         /\ Located(p, lba, r).cylinder = c /\ Located(p, lba, r).head = h
    BY <1>1, <2>1, <2>2, <2>3, <2>7, <2>10, <2>12 DEF Located, Registers
  <2>14. Offset(Located(p, lba, r)) = n + Byte * (c + b * h)
    BY <2>2, <2>13 DEF Offset
  <2>15. c + b * h = q /\ Byte * q \in Nat
    BY <2>3, SizesAre
  <2> QED
    BY <2>1, <2>14, <2>15
<1>2. CASE ~lba
  <2>1. PICK s \in Nat \ {0}, hs \in Nat \ {0}, b \in Nat \ {0} :
          s = SectorsPerTrack /\ hs = Heads /\ b = Byte * Byte
    BY SizesAre
  <2>2. PICK t \in Nat, n \in 0 .. s - 1 : t = p \div s /\ n = p % s /\ p = s * t + n
    BY Divided
  <2>3. PICK c \in Nat, h \in 0 .. hs - 1 : c = t \div hs /\ h = t % hs /\ t = hs * c + h
    BY Divided
  <2>4. c < b
    <3>1. p < s * (hs * b)
      <4>1. p < b * hs * s
        BY <1>2, <2>1 DEF Addressable
      <4>2. b * hs * s = s * (hs * b)
        BY Ring
      <4> QED
        BY <4>1, <4>2
    <3>2. t < hs * b
      <4>1. PICK m \in Nat : m = hs * b
        OBVIOUS
      <4>2. p < s * m
        BY <3>1, <4>1
      <4>3. p \div s < m
        BY <4>2, QuotientBelow
      <4> QED
        BY <2>2, <4>1, <4>3
    <3> QED
      BY <2>3, <3>2, QuotientBelow
  <2>5. c % b = c
    <3>1. b * 0 + c = c /\ c \in 0 .. b - 1
      BY <2>4
    <3> QED
      BY <3>1, QuotientUnique
  <2>6. h % 16 = h
    BY <2>1, <2>3, SizesAre
  <2>7. /\ Located(p, lba, r).lba = FALSE /\ Located(p, lba, r).number = n + 1
        /\ Located(p, lba, r).cylinder = c /\ Located(p, lba, r).head = h
    BY <1>2, <2>1, <2>2, <2>3, <2>5, <2>6 DEF Located, Registers
  <2>8. Offset(Located(p, lba, r)) = (c * hs + h) * s + (n + 1) - 1
    BY <2>1, <2>7 DEF Offset
  <2>9. c * hs + h = t /\ t * s = s * t /\ s * t \in Nat
    BY <2>3, Ring
  <2> QED
    BY <2>2, <2>8, <2>9
<1> QED
  BY <1>1, <1>2
-----------------------------------------------------------------------------
(* The image of the disk.                                                  *)

\* The block and the place in it of a sector, and back.
LEMMA BlocksAre ==
  /\ \A s \in Sector : /\ s \in Nat /\ s \div BlockSize \in Block
                       /\ s % BlockSize \in 0 .. BlockSize - 1
                       /\ s = BlockSize * (s \div BlockSize) + (s % BlockSize)
  /\ \A b \in Block, k \in 0 .. BlockSize - 1 :
       /\ BlockSize * b + k \in Sector
       /\ (BlockSize * b + k) \div BlockSize = b /\ (BlockSize * b + k) % BlockSize = k
<1>1. BlockSize \in Nat \ {0} /\ Sectors \in Nat
  BY SizesAre
<1>2. PICK n \in Nat : n = Sectors \div BlockSize /\ Sectors = BlockSize * n
  <2>1. Sectors % BlockSize = 0
    BY DriveAssumption
  <2>2. PICK n \in Nat, r \in 0 .. BlockSize - 1 :
          n = Sectors \div BlockSize /\ r = Sectors % BlockSize
            /\ Sectors = BlockSize * n + r
    BY <1>1, Divided
  <2>3. Sectors = BlockSize * n
    BY <1>1, <2>1, <2>2
  <2> QED
    BY <2>2, <2>3
<1>3. Sector = 0 .. Sectors - 1 /\ Block = 0 .. n - 1
  BY <1>2 DEF Sector, Block
<1>4. ASSUME NEW s \in Sector
      PROVE  /\ s \in Nat /\ s \div BlockSize \in Block
             /\ s % BlockSize \in 0 .. BlockSize - 1
             /\ s = BlockSize * (s \div BlockSize) + (s % BlockSize)
  <2>1. s \in Nat /\ s < BlockSize * n
    BY <1>1, <1>2, <1>3
  <2>2. s \div BlockSize < n /\ s \div BlockSize \in Nat
    BY <1>1, <2>1, QuotientBelow
  <2>3. s % BlockSize \in 0 .. BlockSize - 1 /\ s = BlockSize * (s \div BlockSize) + (s % BlockSize)
    BY <1>1, <2>1, Quotient
  <2> QED
    BY <1>3, <2>1, <2>2, <2>3
<1>5. ASSUME NEW b \in Block, NEW k \in 0 .. BlockSize - 1
      PROVE  /\ BlockSize * b + k \in Sector
             /\ (BlockSize * b + k) \div BlockSize = b /\ (BlockSize * b + k) % BlockSize = k
  <2>1. b \in Int /\ b >= 0 /\ b <= n - 1
    BY <1>3
  <2>2. BlockSize * b <= BlockSize * (n - 1) /\ BlockSize * b >= 0
    BY <1>1, <2>1
  <2>3. BlockSize * (n - 1) = BlockSize * n - BlockSize
    BY <1>1
  <2>4. BlockSize * b \in Int
    BY <1>1, <2>1
  <2>5. BlockSize * b + k \in 0 .. Sectors - 1
    BY <1>1, <1>2, <2>2, <2>3, <2>4
  <2> QED
    BY <1>1, <1>3, <2>1, <2>5, QuotientUnique
<1> QED
  BY <1>4, <1>5

LEMMA ReadTyped ==
  ASSUME NEW d \in Image, NEW s \in Sector
  PROVE  ReadSector(d, s) \in Data
<1>1. s \div BlockSize \in Block /\ s % BlockSize \in 0 .. BlockSize - 1
  BY BlocksAre
<1>2. /\ d.file \in [Sector -> Data]
      /\ d.blocks[s \div BlockSize] \in [0 .. BlockSize - 1 -> Data] \cup {None}
  BY <1>1 DEF Image
<1> QED
  BY <1>1, <1>2 DEF ReadSector

LEMMA ContentsTyped ==
  ASSUME NEW d \in Image
  PROVE  Contents(d) \in [Sector -> Data] /\ \A s \in Sector : Contents(d)[s] = ReadSector(d, s)
  BY ReadTyped DEF Contents

\* An image whose file may be modified has no copies: a read would find them.
Disk == {d \in Image : d.modifiable => \A b \in Block : d.blocks[b] = None}

\* A write, to the file or to a block copied before or now, changes the sector
\* written and no other.
LEMMA WriteIs ==
  ASSUME NEW d \in Disk, NEW s \in Sector, NEW v \in Data
  PROVE  /\ WriteSector(d, s, v) \in Disk
         /\ \A z \in Sector : Contents(WriteSector(d, s, v))[z] =
                                IF z = s THEN v ELSE Contents(d)[z]
<1>1. PICK b \in Block, k \in 0 .. BlockSize - 1 :
        b = s \div BlockSize /\ k = s % BlockSize /\ s = BlockSize * b + k
  BY BlocksAre
<1>2. PICK w : w = WriteSector(d, s, v)
  OBVIOUS
<1>3. ASSUME w \in Disk,
             \A z \in Sector : ReadSector(w, z) = IF z = s THEN v ELSE ReadSector(d, z)
      PROVE  /\ WriteSector(d, s, v) \in Disk
             /\ \A z \in Sector : Contents(WriteSector(d, s, v))[z] =
                                    IF z = s THEN v ELSE Contents(d)[z]
  BY <1>2, <1>3, ContentsTyped DEF Disk
<1>4. /\ d.file \in [Sector -> Data] /\ d.modifiable \in BOOLEAN
      /\ d.blocks \in [Block -> [0 .. BlockSize - 1 -> Data] \cup {None}]
      /\ d = [file |-> d.file, modifiable |-> d.modifiable, blocks |-> d.blocks]
      /\ None \notin [0 .. BlockSize - 1 -> Data]
  BY DriveAssumption DEF Disk, Image
<1>5. CASE d.modifiable
  <2>1. PICK f \in [Sector -> Data] : f = [d.file EXCEPT ![s] = v]
    BY <1>4
  <2>2. w = [file |-> f, modifiable |-> d.modifiable, blocks |-> d.blocks]
    BY <1>2, <1>4, <1>5, <2>1 DEF WriteSector
  <2>3. w \in Image /\ w.file = f /\ w.blocks = d.blocks /\ w.modifiable = d.modifiable
    BY <1>4, <2>2 DEF Image
  <2>4. \A x \in Block : d.blocks[x] = None
    BY <1>5 DEF Disk
  <2>5. ASSUME NEW z \in Sector
        PROVE  ReadSector(w, z) = IF z = s THEN v ELSE ReadSector(d, z)
    <3>1. z \div BlockSize \in Block
      BY BlocksAre
    <3>2. ReadSector(w, z) = f[z] /\ ReadSector(d, z) = d.file[z]
      BY <2>3, <2>4, <3>1 DEF ReadSector
    <3> QED
      BY <1>4, <2>1, <3>2
  <2> QED
    BY <1>3, <2>3, <2>4, <2>5 DEF Disk
<1>6. CASE ~d.modifiable
  <2>1. PICK old \in [0 .. BlockSize - 1 -> Data] :
          old = IF d.blocks[b] = None
                THEN [j \in 0 .. BlockSize - 1 |-> d.file[BlockSize * b + j]] ELSE d.blocks[b]
    <3>1. \A j \in 0 .. BlockSize - 1 : d.file[BlockSize * b + j] \in Data
      BY <1>4, BlocksAre
    <3>2. PICK e : e = [j \in 0 .. BlockSize - 1 |-> d.file[BlockSize * b + j]]
      OBVIOUS
    <3>3. e \in [0 .. BlockSize - 1 -> Data]
      BY <3>1, <3>2
    <3>4. d.blocks[b] \in [0 .. BlockSize - 1 -> Data] \cup {None}
      BY <1>4
    <3> QED
      BY <3>2, <3>3, <3>4
  <2>2. PICK new \in [0 .. BlockSize - 1 -> Data] : new = [old EXCEPT ![k] = v]
    BY <2>1
  <2>3. PICK bs \in [Block -> [0 .. BlockSize - 1 -> Data] \cup {None}] :
          bs = [d.blocks EXCEPT ![b] = new]
    BY <1>4, <2>2
  <2>4. w = [file |-> d.file, modifiable |-> d.modifiable, blocks |-> bs]
    <3>1. CASE d.blocks[b] = None
      <4>1. w = [AddCache(d, s) EXCEPT !.blocks[b][k] = v]
        BY <1>1, <1>2, <1>6, <3>1 DEF WriteSector
      <4>2. AddCache(d, s) = [d EXCEPT !.blocks[b] = old]
        BY <1>1, <2>1, <3>1 DEF AddCache
      <4>3. PICK cs \in [Block -> [0 .. BlockSize - 1 -> Data] \cup {None}] :
              cs = [d.blocks EXCEPT ![b] = old]
        BY <1>4
      <4>4. AddCache(d, s) = [file |-> d.file, modifiable |-> d.modifiable, blocks |-> cs]
        BY <1>4, <4>2, <4>3
      <4>5. w = [file |-> d.file, modifiable |-> d.modifiable,
                 blocks |-> [cs EXCEPT ![b] = [cs[b] EXCEPT ![k] = v]]]
        BY <4>1, <4>4
      <4>6. cs[b] = old
        BY <1>4, <4>3
      <4>7. [cs EXCEPT ![b] = new] = bs
        BY <2>3, <4>3
      <4> QED
        BY <2>2, <4>5, <4>6, <4>7
    <3>2. CASE d.blocks[b] # None
      <4>1. w = [d EXCEPT !.blocks[b][k] = v]
        BY <1>1, <1>2, <1>6, <3>2 DEF WriteSector
      <4> QED
        BY <1>4, <2>1, <2>2, <2>3, <3>2, <4>1
    <3> QED
      BY <3>1, <3>2
  <2>5. w \in Image /\ w.file = d.file /\ w.blocks = bs /\ w.modifiable = d.modifiable
    BY <1>4, <2>4 DEF Image
  <2>6. ASSUME NEW z \in Sector
        PROVE  ReadSector(w, z) = IF z = s THEN v ELSE ReadSector(d, z)
    <3>1. PICK x \in Block, j \in 0 .. BlockSize - 1 :
            x = z \div BlockSize /\ j = z % BlockSize /\ z = BlockSize * x + j
      BY BlocksAre
    <3>2. CASE x # b
      <4>1. bs[x] = d.blocks[x] /\ z # s
        BY <1>1, <1>4, <2>3, <3>1, <3>2
      <4> QED
        BY <2>5, <3>1, <4>1 DEF ReadSector
    <3>3. CASE x = b
      <4>1. ReadSector(w, z) = new[j]
        BY <1>4, <2>3, <2>5, <3>1, <3>3 DEF ReadSector
      <4>2. ReadSector(d, z) = old[j]
        BY <2>1, <3>1, <3>3 DEF ReadSector
      <4>3. z = s <=> j = k
        BY <1>1, <3>1, <3>3
      <4> QED
        BY <2>2, <4>1, <4>2, <4>3
    <3> QED
      BY <3>2, <3>3
  <2> QED
    BY <1>3, <1>6, <2>5, <2>6 DEF Disk
<1> QED
  BY <1>5, <1>6
-----------------------------------------------------------------------------
(* The transfers.                                                          *)

\* Sector s once the first n of the places were written from f on.
After(d, f, places, m, n, s) ==
  IF s - f \in 0 .. n - 1 THEN m[places[s - f + 1]] ELSE Contents(d)[s]

\* wrote is the image after each of the first n writes.
Wrote(d, f, places, m, n, wrote) ==
  /\ wrote \in [0 .. n -> Disk] /\ wrote[0] = d
  /\ \A k \in 1 .. n : wrote[k] = WriteSector(wrote[k - 1], f + k - 1, m[places[k]])
  /\ \A k \in 0 .. n, s \in Sector :
       Contents(wrote[k])[s] = After(d, f, places, m, k, s)

LEMMA WritesExist ==
  ASSUME NEW d \in Disk, NEW m \in [Place -> Data], NEW N \in Nat,
         NEW places \in [1 .. N -> Place], NEW f \in Nat, f + N <= Sectors
  PROVE  \E wrote : Wrote(d, f, places, m, N, wrote)
<1> DEFINE Can(n) == \E wrote : Wrote(d, f, places, m, n, wrote)
<1>1. Can(0)
  <2>1. PICK w : w = [k \in 0 .. 0 |-> d]
    OBVIOUS
  <2>2. w \in [0 .. 0 -> Disk] /\ w[0] = d
    BY <2>1
  <2>3. \A k \in 1 .. 0 : FALSE
    OBVIOUS
  <2>4. \A k \in 0 .. 0, s \in Sector : Contents(w[k])[s] = After(d, f, places, m, k, s)
    BY <2>2 DEF After
  <2> QED
    BY <2>2, <2>3, <2>4 DEF Wrote
<1>2. ASSUME NEW n \in Nat, n + 1 <= N, Can(n)
      PROVE  Can(n + 1)
  <2>1. PICK g : Wrote(d, f, places, m, n, g)
    BY <1>2
  <2>2. n \in 0 .. n /\ n + 1 \in 1 .. N /\ f + n \in Sector
    BY <1>2, SizesAre DEF Sector
  <2>3. PICK v \in Data : v = m[places[n + 1]]
    BY <2>2
  <2>4. PICK t : t = WriteSector(g[n], f + n, v)
    OBVIOUS
  <2>5. g[n] \in Disk /\ g[0] = d /\ g \in [0 .. n -> Disk]
    BY <2>1, <2>2 DEF Wrote
  <2>6. t \in Disk /\ \A s \in Sector : Contents(t)[s] =
                        IF s = f + n THEN v ELSE Contents(g[n])[s]
    BY <2>2, <2>4, <2>5, WriteIs
  <2>7. PICK h : h = [k \in 0 .. n + 1 |-> IF k <= n THEN g[k] ELSE t]
    OBVIOUS
  <2>8. \A k \in 0 .. n + 1 : k <= n => k \in 0 .. n
    OBVIOUS
  <2>9. h \in [0 .. n + 1 -> Disk] /\ h[0] = d
    BY <2>5, <2>6, <2>7, <2>8
  <2>10. ASSUME NEW k \in 1 .. n + 1
         PROVE  h[k] = WriteSector(h[k - 1], f + k - 1, m[places[k]])
    <3>1. k - 1 \in 0 .. n + 1 /\ k - 1 <= n /\ k \in 0 .. n + 1
      OBVIOUS
    <3>2. h[k - 1] = g[k - 1]
      BY <2>7, <3>1
    <3>3. CASE k <= n
      <4>1. h[k] = g[k] /\ k \in 1 .. n
        BY <2>7, <3>1, <3>3
      <4> QED
        BY <2>1, <3>2, <4>1 DEF Wrote
    <3>4. CASE k = n + 1
      <4>1. k - 1 = n /\ ~(k <= n) /\ f + k - 1 = f + n
        BY <3>4
      <4>2. h[k] = t
        BY <2>7, <3>1, <4>1
      <4> QED
        BY <2>3, <2>4, <3>2, <3>4, <4>1, <4>2
    <3> QED
      BY <3>3, <3>4
  <2>11. ASSUME NEW k \in 0 .. n + 1, NEW s \in Sector
         PROVE  Contents(h[k])[s] = After(d, f, places, m, k, s)
    <3>1. CASE k <= n
      <4>1. h[k] = g[k] /\ k \in 0 .. n
        BY <2>7, <3>1
      <4> QED
        BY <2>1, <4>1 DEF Wrote
    <3>2. CASE k = n + 1
      <4>1. h[k] = t
        BY <2>7, <3>2
      <4>2. Contents(g[n])[s] = After(d, f, places, m, n, s)
        BY <2>1, <2>2 DEF Wrote
      <4>3. s \in Int
        BY DEF Sector
      <4>4. CASE s = f + n
        <5>1. s - f \in 0 .. k - 1 /\ s - f + 1 = n + 1
          BY <3>2, <4>4
        <5> QED
          BY <2>3, <2>6, <4>1, <4>4, <5>1 DEF After
      <4>5. CASE s # f + n
        <5>1. s - f \in 0 .. k - 1 <=> s - f \in 0 .. n - 1
          BY <3>2, <4>3, <4>5
        <5> QED
          BY <2>6, <4>1, <4>2, <4>5, <5>1 DEF After
      <4> QED
        BY <4>4, <4>5
    <3> QED
      BY <3>1, <3>2
  <2> QED
    BY <2>9, <2>10, <2>11 DEF Wrote
<1> HIDE DEF Can
<1>3. Can(N)
  <2>1. PICK D : D = {n \in 0 .. N : ~Can(n)}
    OBVIOUS
  <2>2. D \in SUBSET Nat /\ N \in 0 .. N
    BY <2>1
  <2>3. CASE D # {}
    <3>1. PICK n \in D : \A y \in D : n <= y
      BY <2>2, <2>3, LeastIs
    <3>2. n \in 0 .. N /\ n # 0
      BY <1>1, <2>1
    <3>3. n - 1 \in 0 .. N /\ n - 1 < n /\ n - 1 \in Nat /\ (n - 1) + 1 = n
      BY <3>2
    <3>4. n - 1 \notin D
      BY <2>2, <3>1, <3>3
    <3>5. Can(n - 1)
      BY <2>1, <3>3, <3>4
    <3>6. Can((n - 1) + 1)
      BY <1>2, <3>2, <3>3, <3>5
    <3> QED
      BY <2>1, <3>3, <3>6
  <2> QED
    BY <2>1, <2>2, <2>3
<1> QED
  BY <1>3 DEF Can

\* d2 is d with N sectors written from f on.
Written(d, f, places, m, N, d2) ==
  d2 \in Disk /\ \A s \in Sector : Contents(d2)[s] = After(d, f, places, m, N, s)

\* What FromMemory leaves on the disk.
LEMMA FromMemoryIs ==
  ASSUME NEW d \in Disk, NEW m \in [Place -> Data], NEW N \in Nat,
         NEW places \in [1 .. N -> Place], NEW i, NEW f \in Nat, Offset(i.at) = f,
         f + N <= Sectors
  PROVE  Written(d, f, places, m, N, FromMemory(i, places, d, m))
<1>1. PICK g : Wrote(d, f, places, m, N, g)
  BY WritesExist
<1>2. Len(places) = N
  OBVIOUS
<1> DEFINE Is(x) == x = [n \in 0 .. N |-> IF n = 0 THEN d
                          ELSE WriteSector(x[n - 1], f + n - 1, m[places[n]])]
<1>3. PICK h : h = CHOOSE x : Is(x)
  OBVIOUS
<1>4. FromMemory(i, places, d, m) = h[N]
  BY <1>2, <1>3 DEF FromMemory
<1>5. Is(g)
  <2>1. ASSUME NEW n \in 0 .. N
        PROVE  g[n] = IF n = 0 THEN d ELSE WriteSector(g[n - 1], f + n - 1, m[places[n]])
    <3>1. n = 0 \/ n \in 1 .. N
      OBVIOUS
    <3> QED
      BY <1>1, <3>1 DEF Wrote
  <2>2. g = [n \in 0 .. N |-> g[n]]
    BY <1>1 DEF Wrote
  <2> QED
    BY <2>1, <2>2
<1>6. Is(h)
  BY <1>3, <1>5
<1>7. \A n \in 0 .. N : h[n] = g[n]
  <2>1. PICK D : D = {n \in 0 .. N : h[n] # g[n]}
    OBVIOUS
  <2>2. D \in SUBSET Nat
    BY <2>1
  <2>3. h[0] = g[0]
    BY <1>5, <1>6
  <2>4. \A n \in 1 .. N : /\ h[n] = WriteSector(h[n - 1], f + n - 1, m[places[n]])
                          /\ g[n] = WriteSector(g[n - 1], f + n - 1, m[places[n]])
    BY <1>5, <1>6
  <2>5. CASE D # {}
    <3>1. PICK n \in D : \A y \in D : n <= y
      BY <2>2, <2>5, LeastIs
    <3>2. n \in 1 .. N /\ n - 1 \in 0 .. N /\ n - 1 < n /\ n - 1 \in Nat /\ n \in Nat
      BY <2>1, <2>3
    <3>3. n - 1 \notin D
      BY <2>2, <3>1, <3>2
    <3>4. h[n - 1] = g[n - 1]
      BY <2>1, <3>2, <3>3
    <3> QED
      BY <2>1, <2>4, <3>2, <3>4
  <2> QED
    BY <2>1, <2>5
<1>8. h[N] = g[N] /\ N \in 0 .. N
  BY <1>7
<1>9. PICK d2 : d2 = FromMemory(i, places, d, m)
  OBVIOUS
<1> QED
  BY <1>1, <1>4, <1>8, <1>9 DEF Wrote, Written

-----------------------------------------------------------------------------
(* The tables of the bus master.                                           *)

\* The place of the k-th sector of a table, from 0.
Put(t, k) == IF k < t[1].count THEN t[1].to + k ELSE t[2].to + k - t[1].count

\* The entries of a table do not meet, so that no two sectors go to one place.
LEMMA TablesAre ==
  ASSUME NEW t \in Table
  PROVE  /\ Total(t) \in 1 .. Most
         /\ \A k \in 0 .. Total(t) - 1 : Put(t, k) \in Place
         /\ \A j, k \in 0 .. Total(t) - 1 : Put(t, j) = Put(t, k) => j = k
         /\ Visited(t, Total(t)) = [k \in 1 .. Total(t) |-> Put(t, k - 1)]
         /\ 2 \notin DOMAIN t =>
              \A k \in 0 .. Total(t) - 1 : Put(t, k) = t[1].to + k
<1>1. PICK n \in 1 .. 2 : t \in [1 .. n -> Entry]
  BY DEF Table
<1>2. 1 \in DOMAIN t /\ DOMAIN t = 1 .. n /\ t[1] \in Entry
  BY <1>1
<1>3. PICK a \in Place, p \in 1 .. Memory : a = t[1].to /\ p = t[1].count /\ a + p <= Memory
  BY <1>2 DEF Table, Entry
<1>4. p \in Nat /\ p >= 1 /\ a \in Nat /\ Place = 0 .. Memory - 1 /\ Memory \in Nat /\ Most \in Nat
  BY <1>3, SizesAre DEF Place
<1>5. CASE 2 \notin DOMAIN t
  <2>1. Total(t) = p /\ p <= Most
    BY <1>3, <1>4, <1>5 DEF Total, Table
  <2>2. \A k \in 0 .. p - 1 : Put(t, k) = a + k
    BY <1>3, <1>4 DEF Put
  <2>3. Cut(t[1], p) = p
    BY <1>3, <1>4 DEF Cut
  <2>4. Visited(t, p) = [k \in 1 .. p + 0 |-> IF k <= p THEN a + k - 1
                                              ELSE t[2].to + k - p - 1]
    BY <1>3, <1>5, <2>3 DEF Visited
  <2>5. \A k \in 1 .. p : k - 1 \in 0 .. p - 1 /\ a + k - 1 = Put(t, k - 1) /\ k <= p
    BY <1>4, <2>2
  <2>6. p + 0 = p
    BY <1>4
  <2>7. Visited(t, p) = [k \in 1 .. p |-> Put(t, k - 1)]
    BY <2>4, <2>5, <2>6
  <2>8. p \in 1 .. Most
    BY <1>4, <2>1
  <2>9. ASSUME NEW k \in 0 .. p - 1
        PROVE  Put(t, k) \in Place
    <3>1. k \in Nat /\ k <= p - 1 /\ a + p <= Memory
      BY <1>3, <1>4
    <3>2. a + k \in 0 .. Memory - 1
      BY <1>4, <3>1
    <3>3. Put(t, k) = a + k
      BY <2>2
    <3> QED
      BY <1>4, <3>2, <3>3
  <2>10. \A j, k \in 0 .. p - 1 : Put(t, j) = Put(t, k) => j = k
    BY <1>4, <2>2
  <2> QED
    BY <1>3, <2>1, <2>2, <2>7, <2>8, <2>9, <2>10
<1>6. CASE 2 \in DOMAIN t
  <2>1. n = 2 /\ t[2] \in Entry
    BY <1>1, <1>2, <1>6
  <2>2. PICK b \in Place, q \in 1 .. Memory : b = t[2].to /\ q = t[2].count /\ b + q <= Memory
    BY <1>6, <2>1 DEF Table, Entry
  <2>3. a + p <= b \/ b + q <= a
    <3>1. \A i, j \in DOMAIN t : i # j => \/ t[i].to + t[i].count <= t[j].to
                                          \/ t[j].to + t[j].count <= t[i].to
      BY DEF Table
    <3>2. \/ t[1].to + t[1].count <= t[2].to
          \/ t[2].to + t[2].count <= t[1].to
      BY <1>2, <1>6, <3>1
    <3> QED
      BY <1>3, <2>2, <3>2
  <2>4. q \in Nat /\ q >= 1 /\ b \in Nat
    BY <1>4, <2>2
  <2>5. Total(t) = p + q /\ p + q <= Most
    BY <1>3, <1>6, <2>2 DEF Total, Table
  <2>6. \A k \in 0 .. p + q - 1 : Put(t, k) = IF k < p THEN a + k ELSE b + k - p
    BY <1>3, <2>2 DEF Put
  <2>7. Cut(t[1], p + q) = p /\ Cut(t[2], p + q) = q
    <3>1. p < p + q /\ q < p + q
      BY <1>4, <2>4
    <3> QED
      BY <1>3, <2>2, <3>1 DEF Cut
  <2>8. Visited(t, p + q) = [k \in 1 .. p + q |-> IF k <= p THEN a + k - 1
                                                  ELSE b + k - p - 1]
    BY <1>3, <1>6, <2>2, <2>7 DEF Visited
  <2>9. \A k \in 1 .. p + q : /\ k - 1 \in 0 .. p + q - 1
                              /\ Put(t, k - 1) = IF k <= p THEN a + k - 1 ELSE b + k - p - 1
    BY <1>4, <2>4, <2>6
  <2>10. Visited(t, p + q) = [k \in 1 .. p + q |-> Put(t, k - 1)]
    BY <2>8, <2>9
  <2>11. ASSUME NEW k \in 0 .. p + q - 1
         PROVE  Put(t, k) \in Place
    <3>1. Put(t, k) = IF k < p THEN a + k ELSE b + k - p
      BY <2>6
    <3>2. a + p <= Memory /\ b + q <= Memory
      BY <1>3, <2>2
    <3>3. (IF k < p THEN a + k ELSE b + k - p) \in 0 .. Memory - 1
      BY <1>4, <2>4, <3>2
    <3> QED
      BY <1>4, <3>1, <3>3
  <2>12. \A j, k \in 0 .. p + q - 1 : Put(t, j) = Put(t, k) => j = k
    BY <1>4, <2>3, <2>4, <2>6
  <2> QED
    BY <1>4, <1>6, <2>4, <2>5, <2>10, <2>11, <2>12
<1> QED
  BY <1>5, <1>6

\* A request as it is taken.
LEMMA ChunkIs ==
  ASSUME NEW op, NEW n \in Nat \ {0}
  PROVE  Chunk(op, n) \in 1 .. Multiple /\ Chunk(op, n) <= n
  BY SizesAre DEF Chunk

-----------------------------------------------------------------------------
(* The controller's registers.                                             *)

\* All but the line.
Kept(i, j) ==
  /\ j.at = i.at /\ j.count = i.count /\ j.slave = i.slave /\ j.command = i.command
  /\ j.busy = i.busy /\ j.drq = i.drq /\ j.position = i.position /\ j.taken = i.taken
  /\ j.buffer = i.buffer /\ j.silent = i.silent /\ j.resetting = i.resetting
  /\ j.started = i.started

LEMMA UpdateIrqIs ==
  ASSUME NEW i \in Controller, NEW j \in Controller
  PROVE  /\ UpdateIrq(i, j) \in Controller /\ Kept(j, UpdateIrq(i, j))
         /\ UpdateIrq(i, j).irq = j.irq /\ UpdateIrq(i, j).ended = j.ended
<1>1. PICK w \in BOOLEAN : w = (Line(j) /\ (~Line(i) \/ i.latched))
  BY ZenonT(20)
<1>2. UpdateIrq(i, j) = [j EXCEPT !.latched = w]
  BY <1>1 DEF UpdateIrq
<1> QED
  BY <1>2 DEF Controller, Kept

LEMMA LowerIrqIs ==
  ASSUME NEW i \in Controller
  PROVE  /\ LowerIrq(i) \in Controller /\ Kept(i, LowerIrq(i))
         /\ LowerIrq(i).ended = i.ended
<1>1. PICK j : j = [i EXCEPT !.irq = FALSE]
  OBVIOUS
<1>2. j \in Controller /\ Kept(i, j) /\ j.ended = i.ended
  BY <1>1 DEF Controller, Kept
<1>3. LowerIrq(i) = UpdateIrq(i, j)
  BY <1>1 DEF LowerIrq
<1> QED
  BY <1>2, <1>3, UpdateIrqIs DEF Kept

LEMMA RaiseIrqIs ==
  ASSUME NEW i \in Controller
  PROVE  RaiseIrq(i) \in Controller /\ Kept(i, RaiseIrq(i))
<1>1. PICK j : j = [i EXCEPT !.irq = TRUE, !.ended = TRUE]
  OBVIOUS
<1>2. j \in Controller /\ Kept(i, j)
  BY <1>1 DEF Controller, Kept
<1>3. RaiseIrq(i) = UpdateIrq(i, j)
  BY <1>1 DEF RaiseIrq
<1> QED
  BY <1>2, <1>3, UpdateIrqIs DEF Kept

LEMMA AdvanceIs ==
  ASSUME NEW i \in Controller, NEW n \in Int
  PROVE  \E r \in Registers :
           /\ Advance(i, n) = [i EXCEPT !.at = r] /\ r.lba = i.at.lba
           /\ (Offset(i.at) + n \in Nat /\ Offset(i.at) + n < Addressable(i.at.lba)) =>
                Offset(r) = Offset(i.at) + n
<1>1. i.at \in Registers /\ i.at.lba \in BOOLEAN
  BY DEF Controller, Registers
<1>2. PICK p \in Int : p = Offset(i.at) + n
  BY <1>1, OffsetTyped
<1>3. PICK r : r = Located(p, i.at.lba, i.at)
  OBVIOUS
<1>4. r \in Registers /\ r.lba = i.at.lba
  BY <1>1, <1>3, LocatedTyped
<1>5. Advance(i, n) = [i EXCEPT !.at = r]
  BY <1>2, <1>3 DEF Advance
<1>6. (p \in Nat /\ p < Addressable(i.at.lba)) => Offset(r) = p
  BY <1>1, <1>3, LocatedIs
<1> QED
  BY <1>2, <1>4, <1>5, <1>6

LEMMA CountTyped ==
  ASSUME NEW n \in 0 .. Most - 1
  PROVE  Count(n) \in 1 .. Most /\ (n # 0 => Count(n) = n) /\ Count(n) % Most = n
<1>1. Most \in Nat \ {0}
  BY SizesAre
<1>2. CASE n = 0
  <2>1. Most * 1 + 0 = Most /\ 0 \in 0 .. Most - 1
    BY <1>1
  <2>2. Most % Most = 0
    BY <1>1, <2>1, QuotientUnique
  <2> QED
    BY <1>1, <1>2, <2>2 DEF Count
<1>3. CASE n # 0
  <2>1. Most * 0 + n = n
    BY <1>1
  <2>2. n % Most = n
    BY <1>1, <2>1, QuotientUnique
  <2> QED
    BY <1>1, <1>3, <2>2 DEF Count
<1> QED
  BY <1>2, <1>3

\* And back: a request of n as the register holds it.
LEMMA CountBack ==
  ASSUME NEW n \in 1 .. Most
  PROVE  n % Most \in 0 .. Most - 1 /\ Count(n % Most) = n
<1>1. Most \in Nat \ {0}
  BY SizesAre
<1>2. CASE n = Most
  <2>1. Most * 1 + 0 = Most /\ 0 \in 0 .. Most - 1
    BY <1>1
  <2>2. n % Most = 0
    BY <1>1, <1>2, <2>1, QuotientUnique
  <2> QED
    BY <1>1, <1>2, <2>2 DEF Count
<1>3. CASE n # Most
  <2>1. Most * 0 + n = n /\ n \in 0 .. Most - 1
    BY <1>1, <1>3
  <2>2. n % Most = n
    BY <1>1, <2>1, QuotientUnique
  <2> QED
    BY <1>1, <2>1, <2>2 DEF Count
<1> QED
  BY <1>2, <1>3

LEMMA FewerIs ==
  ASSUME NEW i \in Controller
  PROVE  \E w \in 0 .. Most - 1 :
           /\ Fewer(i) = [i EXCEPT !.count = w]
           /\ i.taken <= Count(i.count) => w = Count(i.count) - i.taken
<1>1. Most \in Nat \ {0} /\ i.count \in 0 .. Most - 1 /\ i.taken \in Nat /\ i.taken >= 1
  BY SizesAre DEF Controller
<1>2. PICK w : w = (i.count - i.taken) % Most
  OBVIOUS
<1>3. w \in 0 .. Most - 1
  <2>1. i.count - i.taken \in Int
    BY <1>1
  <2> QED
    BY <1>1, <1>2, <2>1, Quotient
<1>4. Fewer(i) = [i EXCEPT !.count = w]
  BY <1>2 DEF Fewer
<1>5. ASSUME i.taken <= Count(i.count)
      PROVE  w = Count(i.count) - i.taken
  <2>1. CASE i.count = 0
    <3>1. PICK q \in Int, r \in 0 .. Most - 1 : q = -1 /\ r = Most - i.taken
      BY <1>1, <1>5, <2>1 DEF Count
    <3>2. i.count - i.taken = Most * q + r
      BY <1>1, <2>1, <3>1
    <3>3. (Most * q + r) % Most = r
      BY <1>1, QuotientUnique
    <3>4. w = Most - i.taken
      BY <1>2, <3>1, <3>2, <3>3
    <3> QED
      BY <2>1, <3>4 DEF Count
  <2>2. CASE i.count # 0
    <3>1. PICK v \in 0 .. Most - 1 : v = i.count - i.taken
      BY <1>1, <1>5, <2>2 DEF Count
    <3>2. PICK q \in Int : q = 0
      OBVIOUS
    <3>3. (Most * q + v) % Most = v
      BY <1>1, QuotientUnique
    <3>4. Most * q + v = v
      BY <1>1, <3>2
    <3>5. w = i.count - i.taken
      BY <1>2, <3>1, <3>3, <3>4
    <3> QED
      BY <2>2, <3>5 DEF Count
  <2> QED
    BY <2>1, <2>2
<1> QED
  BY <1>3, <1>4, <1>5

LEMMA TakingIs ==
  ASSUME NEW i \in Controller
  PROVE  \E t \in 1 .. Multiple :
           /\ t = Chunk(i.command, Count(i.count)) /\ t <= Count(i.count)
           /\ Taking(i) = [i EXCEPT !.taken = t]
<1>1. Count(i.count) \in Nat \ {0}
  BY CountTyped, SizesAre DEF Controller
<1>2. PICK t : t = Chunk(i.command, Count(i.count))
  OBVIOUS
<1>3. t \in 1 .. Multiple /\ t <= Count(i.count)
  BY <1>1, <1>2, ChunkIs
<1> QED
  BY <1>2, <1>3 DEF Taking

\* The positions of the words of a chunk.
LEMMA WordsAre ==
  ASSUME NEW t \in 1 .. Multiple
  PROVE  /\ Words * t \in Nat \ {0} /\ 0 \in 0 .. (Words * t) - 1
         /\ Words * t <= Words * Multiple
         /\ \A p \in 0 .. (Words * t) - 1 : p \in 0 .. Words * Multiple - 1
<1>1. Words \in Nat \ {0} /\ Multiple \in Nat \ {0} /\ t \in Nat \ {0} /\ t <= Multiple
  BY SizesAre
<1>2. Words * t \in Nat \ {0} /\ Words * Multiple \in Nat
  BY <1>1
<1>3. Words * t <= Words * Multiple
  <2>1. PICK u \in Nat : u = Multiple - t
    BY <1>1
  <2>2. Words * (t + u) = Words * t + Words * u /\ Words * u \in Nat
    BY <1>1, <2>1
  <2> QED
    BY <1>1, <1>2, <2>1, <2>2
<1> QED
  BY <1>2, <1>3

LEMMA BuffersAre ==
  ASSUME NEW n \in 0 .. Multiple, NEW b \in [1 .. n -> Data]
  PROVE  b \in UNION {[1 .. z -> Data] : z \in 0 .. Multiple}
  OBVIOUS

LEMMA NoBuffer ==
  <<>> \in UNION {[1 .. n -> Data] : n \in 0 .. Multiple}
<1>1. <<>> \in [1 .. 0 -> Data] /\ 0 \in 0 .. Multiple
  BY SizesAre
<1> QED
  BY <1>1

-----------------------------------------------------------------------------
(* Word by word.                                                           *)

\* The next sectors are in the buffer, as many as one interrupt is for, and the
\* registers past them.
Fetched(i, j, d) ==
  /\ j \in Controller
  /\ j.command = i.command /\ j.slave = i.slave /\ j.drq
  /\ j.taken = Chunk(i.command, Count(i.count)) /\ j.taken <= Count(i.count)
  /\ j.position = 0
  /\ j.buffer = [k \in 1 .. j.taken |-> ReadSector(d, Offset(i.at) + k - 1)]
  /\ j.count = Count(i.count) - j.taken
  /\ j.at.lba = i.at.lba
  /\ j.count # 0 => Offset(j.at) = Offset(i.at) + j.taken

LEMMA ReadSectorsIs ==
  ASSUME NEW i \in Controller, NEW d \in Image, Offset(i.at) \in Nat,
         Offset(i.at) + Count(i.count) <= Sectors,
         Offset(i.at) + Count(i.count) <= Addressable(i.at.lba)
  PROVE  Fetched(i, ReadSectors(i, d), d)
<1>1. PICK t \in 1 .. Multiple : /\ t = Chunk(i.command, Count(i.count)) /\ t <= Count(i.count)
                                 /\ Taking(i) = [i EXCEPT !.taken = t]
  BY TakingIs
<1>2. PICK i1 : i1 = Taking(i)
  OBVIOUS
<1>3. i1 \in Controller /\ i1.taken = t /\ i1.count = i.count /\ i1.at = i.at
        /\ i1.command = i.command /\ i1.slave = i.slave
  BY <1>1, <1>2 DEF Controller
<1>4. PICK w \in 0 .. Most - 1 : /\ Fewer(i1) = [i1 EXCEPT !.count = w]
                                 /\ i1.taken <= Count(i1.count) => w = Count(i1.count) - i1.taken
  BY <1>3, FewerIs
<1>5. w = Count(i.count) - t
  BY <1>1, <1>3, <1>4
<1>6. PICK i2 : i2 = Fewer(i1)
  OBVIOUS
<1>7. i2 \in Controller /\ i2.taken = t /\ i2.count = w /\ i2.at = i.at
        /\ i2.command = i.command /\ i2.slave = i.slave
  BY <1>3, <1>4, <1>6 DEF Controller
<1>8. t \in Int
  BY SizesAre
<1>9. PICK r \in Registers :
        /\ Advance(i2, t) = [i2 EXCEPT !.at = r] /\ r.lba = i2.at.lba
        /\ (Offset(i2.at) + t \in Nat /\ Offset(i2.at) + t < Addressable(i2.at.lba)) =>
             Offset(r) = Offset(i2.at) + t
  BY <1>7, <1>8, AdvanceIs
<1>10. PICK i3 : i3 = Advance(i2, t)
  OBVIOUS
<1>11. i3 \in Controller /\ i3.taken = t /\ i3.count = w /\ i3.at = r
         /\ i3.command = i.command /\ i3.slave = i.slave
  BY <1>7, <1>9, <1>10 DEF Controller
<1>12. PICK b : b = [k \in 1 .. t |-> ReadSector(d, Offset(i.at) + k - 1)]
  OBVIOUS
<1>13. b \in UNION {[1 .. z -> Data] : z \in 0 .. Multiple}
  <2>1. Count(i.count) \in Nat
    BY CountTyped, SizesAre DEF Controller
  <2>2. \A k \in 1 .. t : Offset(i.at) + k - 1 \in Sector
    BY <1>1, <1>8, <2>1, SizesAre DEF Sector
  <2>3. b \in [1 .. t -> Data]
    BY <1>12, <2>2, ReadTyped
  <2>4. t \in 0 .. Multiple
    BY SizesAre
  <2> QED
    BY <2>3, <2>4, BuffersAre
<1>14. PICK i4 : i4 = [i3 EXCEPT !.buffer = b, !.drq = TRUE, !.busy = FALSE, !.position = 0]
  OBVIOUS
<1>15. 0 \in 0 .. Words * Multiple - 1
  BY <1>1, WordsAre
<1>16. i4 \in Controller /\ i4.taken = t /\ i4.count = w /\ i4.at = r /\ i4.buffer = b
         /\ i4.command = i.command /\ i4.slave = i.slave /\ i4.drq = TRUE /\ i4.position = 0
  BY <1>11, <1>13, <1>14, <1>15 DEF Controller
<1>17. ReadSectors(i, d) = RaiseIrq(i4)
  BY <1>2, <1>3, <1>6, <1>10, <1>12, <1>14 DEF ReadSectors
<1>18. PICK j : j = ReadSectors(i, d)
  OBVIOUS
<1>19. j \in Controller /\ j.taken = t /\ j.count = w /\ j.at = r /\ j.buffer = b
         /\ j.command = i.command /\ j.slave = i.slave /\ j.drq = TRUE /\ j.position = 0
  BY <1>16, <1>17, <1>18, RaiseIrqIs DEF Kept
<1>20. j.count # 0 => Offset(j.at) = Offset(i.at) + j.taken
  <2>1. SUFFICES ASSUME w # 0
                 PROVE  Offset(r) = Offset(i.at) + t
    BY <1>19
  <2>2. Count(i.count) \in Nat
    BY CountTyped, SizesAre DEF Controller
  <2>3. i.at.lba \in BOOLEAN
    BY DEF Controller, Registers
  <2>4. Addressable(i.at.lba) \in Int
    BY SizesAre DEF Addressable
  <2>5. Offset(i.at) + t < Addressable(i.at.lba) /\ Offset(i.at) + t \in Nat
    BY <1>1, <1>5, <1>8, <2>1, <2>2, <2>4
  <2> QED
    BY <1>7, <1>9, <2>5
<1> QED
  BY <1>1, <1>5, <1>7, <1>9, <1>12, <1>18, <1>19, <1>20 DEF Fetched

\* The disk wants the next words.
Wanted(i, j) ==
  /\ j \in Controller
  /\ j.command = i.command /\ j.slave = i.slave /\ j.drq /\ j.position = 0
  /\ j.taken = Chunk(i.command, Count(i.count))
  /\ j.count = i.count /\ j.at = i.at

LEMMA WriteSectorsIs ==
  ASSUME NEW i \in Controller
  PROVE  Wanted(i, WriteSectors(i))
<1>1. PICK t \in 1 .. Multiple : /\ t = Chunk(i.command, Count(i.count))
                                 /\ Taking(i) = [i EXCEPT !.taken = t]
  BY TakingIs
<1>2. PICK j : j = WriteSectors(i)
  OBVIOUS
<1>3. j = [[i EXCEPT !.taken = t] EXCEPT !.drq = TRUE, !.busy = FALSE, !.position = 0]
  BY <1>1, <1>2 DEF WriteSectors
<1>4. 0 \in 0 .. Words * Multiple - 1
  BY <1>1, WordsAre
<1>5. PICK i1 : i1 = [i EXCEPT !.taken = t]
  OBVIOUS
<1>6. i1 \in Controller /\ i1.taken = t /\ i1.command = i.command /\ i1.slave = i.slave
        /\ i1.count = i.count /\ i1.at = i.at
  BY <1>5 DEF Controller
<1>7. j = [i1 EXCEPT !.drq = TRUE, !.busy = FALSE, !.position = 0]
  BY <1>3, <1>5
<1>8. j \in Controller /\ j.taken = t /\ j.command = i.command /\ j.slave = i.slave
        /\ j.count = i.count /\ j.at = i.at /\ j.drq = TRUE /\ j.position = 0
  BY <1>4, <1>6, <1>7 DEF Controller
<1> QED
  BY <1>1, <1>2, <1>8 DEF Wanted

LEMMA PioReadIs ==
  ASSUME NEW i \in Controller, NEW d \in Image,
         i.count # 0 => /\ Offset(i.at) \in Nat
                        /\ Offset(i.at) + Count(i.count) <= Sectors
                        /\ Offset(i.at) + Count(i.count) <= Addressable(i.at.lba)
  PROVE  /\ PioRead(i, d) \in Controller
         /\ i.count # 0 => Fetched(i, PioRead(i, d), d)
<1>1. PICK i1 : i1 = [i EXCEPT !.position = 0, !.drq = FALSE, !.buffer = <<>>]
  OBVIOUS
<1>2. 0 \in 0 .. Words * Multiple - 1
  BY WordsAre DEF Controller
<1>3. i1 \in Controller /\ i1.at = i.at /\ i1.count = i.count /\ i1.command = i.command
        /\ i1.slave = i.slave
  BY <1>1, <1>2, NoBuffer DEF Controller
<1>4. PICK read : read = RaiseIrq(i1)
  OBVIOUS
<1>5. read \in Controller /\ read.at = i.at /\ read.count = i.count
        /\ read.command = i.command /\ read.slave = i.slave
  BY <1>3, <1>4, RaiseIrqIs DEF Kept
<1>6. PioRead(i, d) = IF i.count # 0 THEN ReadSectors(read, d) ELSE [read EXCEPT !.busy = FALSE]
  BY <1>1, <1>4 DEF PioRead
<1>7. CASE i.count # 0
  <2>1. Fetched(read, ReadSectors(read, d), d)
    BY <1>5, <1>7, ReadSectorsIs
  <2> QED
    BY <1>5, <1>6, <1>7, <2>1 DEF Fetched
<1>8. CASE i.count = 0
  <2>1. [read EXCEPT !.busy = FALSE] \in Controller
    BY <1>5 DEF Controller
  <2> QED
    BY <1>6, <1>8, <2>1
<1> QED
  BY <1>7, <1>8

\* The sectors taken are on the disk: the next ones are wanted, or none.
LEMMA PioWriteIs ==
  ASSUME NEW i \in Controller, i.taken <= Count(i.count), Offset(i.at) \in Nat,
         Offset(i.at) + Count(i.count) <= Addressable(i.at.lba),
         NEW j, j = PioWrite(i), NEW left, left = Count(i.count) - i.taken
  PROVE  /\ j \in Controller
         /\ left = 0 => ~j.drq
         /\ left # 0 => /\ j.command = i.command /\ j.slave = i.slave /\ j.drq
                        /\ j.position = 0 /\ j.taken = Chunk(i.command, left)
                        /\ Count(j.count) = left /\ j.at.lba = i.at.lba
                        /\ Offset(j.at) = Offset(i.at) + i.taken
<1>1. /\ Count(i.count) \in 1 .. Most /\ i.taken \in 1 .. Multiple
      /\ Most \in Nat /\ Multiple \in Nat
  BY CountTyped, SizesAre DEF Controller
<1>2. PICK i0 : i0 = [i EXCEPT !.position = 0]
  OBVIOUS
<1>3. 0 \in 0 .. Words * Multiple - 1
  BY <1>1, WordsAre
<1>4. i0 \in Controller /\ i0.at = i.at /\ i0.count = i.count /\ i0.command = i.command
        /\ i0.slave = i.slave /\ i0.taken = i.taken
  BY <1>2, <1>3 DEF Controller
<1>5. PICK i1 : i1 = RaiseIrq(i0)
  OBVIOUS
<1>6. i1 \in Controller /\ i1.at = i.at /\ i1.count = i.count /\ i1.command = i.command
        /\ i1.slave = i.slave /\ i1.taken = i.taken
  BY <1>4, <1>5, RaiseIrqIs DEF Kept
<1>7. PICK w \in 0 .. Most - 1 : /\ Fewer(i1) = [i1 EXCEPT !.count = w]
                                 /\ i1.taken <= Count(i1.count) => w = Count(i1.count) - i1.taken
  BY <1>6, FewerIs
<1>8. w = left
  BY <1>6, <1>7
<1>9. PICK i2 : i2 = Fewer(i1)
  OBVIOUS
<1>10. i2 \in Controller /\ i2.at = i.at /\ i2.count = w /\ i2.command = i.command
         /\ i2.slave = i.slave /\ i2.taken = i.taken
  BY <1>6, <1>7, <1>9 DEF Controller
<1>11. i.taken \in Int
  BY <1>1
<1>12. PICK r \in Registers :
         /\ Advance(i2, i.taken) = [i2 EXCEPT !.at = r] /\ r.lba = i2.at.lba
         /\ (Offset(i2.at) + i.taken \in Nat
               /\ Offset(i2.at) + i.taken < Addressable(i2.at.lba)) =>
              Offset(r) = Offset(i2.at) + i.taken
  BY <1>10, <1>11, AdvanceIs
<1>13. PICK i3 : i3 = Advance(i2, i.taken)
  OBVIOUS
<1>14. i3 \in Controller /\ i3.at = r /\ i3.count = w /\ i3.command = i.command
         /\ i3.slave = i.slave
  BY <1>10, <1>12, <1>13 DEF Controller
<1>15. j = IF i3.count # 0 THEN WriteSectors(i3) ELSE [i3 EXCEPT !.drq = FALSE, !.busy = FALSE]
  BY <1>2, <1>5, <1>9, <1>13 DEF PioWrite
<1>16. CASE w = 0
  <2>1. j = [i3 EXCEPT !.drq = FALSE, !.busy = FALSE]
    BY <1>14, <1>15, <1>16
  <2>2. j \in Controller /\ j.drq = FALSE
    BY <1>14, <2>1 DEF Controller
  <2> QED
    BY <1>8, <1>16, <2>2
<1>17. CASE w # 0
  <2>1. Wanted(i3, j)
    BY <1>14, <1>15, <1>17, WriteSectorsIs
  <2>2. Count(w) = w
    BY <1>17, CountTyped
  <2>3. i.at.lba \in BOOLEAN
    BY DEF Controller, Registers
  <2>4. Addressable(i.at.lba) \in Int
    BY <2>3, SizesAre DEF Addressable
  <2>5. Offset(i.at) + i.taken \in Nat /\ Offset(i.at) + i.taken < Addressable(i.at.lba)
    BY <1>1, <1>7, <1>8, <1>17, <2>4
  <2>6. Offset(r) = Offset(i.at) + i.taken /\ r.lba = i.at.lba
    BY <1>10, <1>12, <2>5
  <2> QED
    BY <1>8, <1>14, <1>17, <2>1, <2>2, <2>6 DEF Wanted
<1> QED
  BY <1>16, <1>17

-----------------------------------------------------------------------------
(* By the bus master.                                                      *)

LEMMA BusEndIs ==
  ASSUME NEW i \in Controller
  PROVE  /\ BusEnd(i) \in Controller
         /\ BusEnd(i).command = i.command /\ BusEnd(i).started = i.started
<1>1. PICK i1 : i1 = [i EXCEPT !.drq = FALSE, !.busy = FALSE]
  OBVIOUS
<1>2. i1 \in Controller /\ i1.command = i.command /\ i1.started = i.started
  BY <1>1 DEF Controller
<1>3. Count(i.count) \in Int
  BY CountTyped, SizesAre DEF Controller
<1>4. PICK r \in Registers : Advance(i1, Count(i.count)) = [i1 EXCEPT !.at = r]
  BY <1>2, <1>3, AdvanceIs
<1>5. PICK i2 : i2 = Advance(i1, Count(i.count))
  OBVIOUS
<1>6. i2 \in Controller /\ i2.command = i.command /\ i2.started = i.started
  BY <1>2, <1>4, <1>5 DEF Controller
<1>7. BusEnd(i) = RaiseIrq(i2)
  BY <1>1, <1>5 DEF BusEnd
<1> QED
  BY <1>6, <1>7, RaiseIrqIs DEF Kept

\* What a read of the sectors from f leaves in memory: those of now, counted
\* from 0, each in its place.
Delivered(t, now, f, c, m) ==
  [p \in Place |-> IF \E k \in now : Put(t, k) = p
                   THEN c[f + (CHOOSE k \in now : Put(t, k) = p)] ELSE m[p]]

LEMMA DeliveredTyped ==
  ASSUME NEW t \in Table, NEW now \in SUBSET (0 .. Total(t) - 1), NEW f \in Nat,
         f + Total(t) <= Sectors, NEW c \in [Sector -> Data], NEW m \in [Place -> Data]
  PROVE  Delivered(t, now, f, c, m) \in [Place -> Data]
<1>1. Total(t) \in Nat
  BY TablesAre, SizesAre
<1>2. ASSUME NEW p \in Place
      PROVE  IF \E k \in now : Put(t, k) = p
             THEN c[f + (CHOOSE k \in now : Put(t, k) = p)] \in Data ELSE m[p] \in Data
  <2>1. CASE \E k \in now : Put(t, k) = p
    <3>1. PICK k \in now : k = CHOOSE z \in now : Put(t, z) = p
      BY <2>1
    <3>2. f + k \in Sector
      BY <1>1, SizesAre DEF Sector
    <3> QED
      BY <2>1, <3>1, <3>2
  <2>2. CASE ~ \E k \in now : Put(t, k) = p
    BY <2>2
  <2> QED
    BY <2>1, <2>2
<1> QED
  BY <1>2 DEF Delivered

LEMMA ToMemoryIs ==
  ASSUME NEW t \in Table, NEW N, N = Total(t), NEW i, NEW f \in Nat, Offset(i.at) = f,
         f + N <= Sectors, NEW d \in Image, NEW m
  PROVE  ToMemory(i, Visited(t, N), d, m) = Delivered(t, 0 .. N - 1, f, Contents(d), m)
<1>1. PICK places : places = Visited(t, N)
  OBVIOUS
<1>2. N \in Nat /\ N >= 1
  BY TablesAre, SizesAre
<1>3. places = [k \in 1 .. N |-> Put(t, k - 1)]
  BY <1>1, TablesAre
<1>4. \A j, k \in 0 .. N - 1 : Put(t, j) = Put(t, k) => j = k
  BY TablesAre
<1>5. \A k \in 0 .. N - 1 : k + 1 \in 1 .. N /\ places[k + 1] = Put(t, k)
  <2>1. \A k \in 0 .. N - 1 : k + 1 \in 1 .. N /\ (k + 1) - 1 = k
    BY <1>2
  <2> QED
    BY <1>3, <2>1
<1>6. \A k \in 1 .. N : k - 1 \in 0 .. N - 1 /\ places[k] = Put(t, k - 1)
  BY <1>2, <1>3
<1>7. ASSUME NEW p \in Place
      PROVE  (IF \E k \in 1 .. N : places[k] = p
              THEN ReadSector(d, f + (CHOOSE k \in 1 .. N : places[k] = p) - 1) ELSE m[p])
             = IF \E k \in 0 .. N - 1 : Put(t, k) = p
               THEN Contents(d)[f + (CHOOSE k \in 0 .. N - 1 : Put(t, k) = p)] ELSE m[p]
  <2>1. CASE \E k \in 0 .. N - 1 : Put(t, k) = p
    <3>1. PICK k \in 0 .. N - 1 : /\ k = CHOOSE z \in 0 .. N - 1 : Put(t, z) = p
                                  /\ Put(t, k) = p
      BY <2>1
    <3>2. \E z \in 1 .. N : places[z] = p
      BY <1>5, <3>1
    <3>3. PICK j \in 1 .. N : j = (CHOOSE z \in 1 .. N : places[z] = p) /\ places[j] = p
      BY <3>2
    <3>4. j - 1 = k
      BY <1>4, <1>6, <3>1, <3>3
    <3>5. f + k \in Sector /\ f + j - 1 = f + k
      BY <1>2, <3>3, <3>4, SizesAre DEF Sector
    <3>6. ReadSector(d, f + j - 1) = Contents(d)[f + k]
      BY <3>5, ContentsTyped
    <3> QED
      BY <2>1, <3>1, <3>2, <3>3, <3>6
  <2>2. CASE ~ \E k \in 0 .. N - 1 : Put(t, k) = p
    BY <1>6, <2>2
  <2> QED
    BY <2>1, <2>2
<1>8. DOMAIN places = 1 .. N
  BY <1>3
<1>9. ToMemory(i, places, d, m) =
        [p \in Place |-> IF \E k \in 1 .. N : places[k] = p
           THEN ReadSector(d, f + (CHOOSE k \in 1 .. N : places[k] = p) - 1) ELSE m[p]]
  BY <1>8 DEF ToMemory
<1> QED
  BY <1>1, <1>7, <1>9 DEF Delivered

-----------------------------------------------------------------------------
(* The inductive invariant.                                                *)

\* The guest asks for sectors that exist and that the registers reach.
Reachable(c) ==
  c.first + Total(c.table) <= Sectors /\ c.first + Total(c.table) <= Addressable(c.lba)

\* By the bus master: nothing moves before the start bit, and the interrupt
\* that the handler asks for comes only after it.
BusOrder(i, o) ==
  /\ ~o.heard
  /\ i.command = o.command.op
  /\ i.ended => i.started
  /\ i.started => o.done = Total(o.command.table)
  /\ ~i.started => /\ Count(i.count) = Total(o.command.table)
                   /\ Offset(i.at) = o.command.first

\* The disk wants the next words of the order.
Wanting(i, o) ==
  /\ i.command = o.command.op
  /\ i.drq /\ ~i.slave
  /\ o.done < Total(o.command.table)
  /\ i.taken = Chunk(o.command.op, Total(o.command.table) - o.done)
  /\ i.position \in 0 .. (Words * i.taken) - 1
  /\ i.at.lba = o.command.lba

\* Word by word from the disk: the sectors taken are in the buffer, and the
\* registers are ahead of them.
ReadOrder(i, o, d) ==
  /\ Wanting(i, o)
  /\ i.buffer = [k \in 1 .. i.taken |-> ReadSector(d, o.command.first + o.done + k - 1)]
  /\ i.count = Total(o.command.table) - o.done - i.taken
  /\ i.count # 0 => Offset(i.at) = o.command.first + o.done + i.taken

\* Word by word to the disk: the registers are at the sectors to come.
WriteOrder(i, o) ==
  \/ /\ Wanting(i, o)
     /\ Count(i.count) = Total(o.command.table) - o.done
     /\ Offset(i.at) = o.command.first + o.done
  \/ o.done = Total(o.command.table) /\ ~i.drq /\ ~o.heard

Orderly(i, o, d) ==
  /\ o.command = None => ~o.heard
  /\ (o.command # None /\ o.command.op \notin Moving) => ~o.heard /\ ~i.drq
  /\ (o.command # None /\ o.command.op \in Moving) =>
       /\ Reachable(o.command)
       /\ o.command.op \in Bus => BusOrder(i, o)
       /\ o.command.op \in Reads \cup Writes => 2 \notin DOMAIN o.command.table
       /\ o.command.op \in Reads => ReadOrder(i, o, d)
       /\ o.command.op \in Writes => WriteOrder(i, o)

IInv ==
  /\ TypeOK
  /\ drive \in Disk
  /\ order # None => Orderly(ide, order, drive)

LEMMA CommandsAre ==
  ASSUME NEW c \in Command
  PROVE  /\ c.op \in Moving =>
              /\ c.first \in Sector /\ c.first \in Nat /\ c.lba \in BOOLEAN /\ c.table \in Table
              /\ Total(c.table) \in 1 .. Most /\ Total(c.table) \in Nat
         /\ c.op \notin Moving => c.op \in {"plain", "translate", "refused"}
         /\ c # None
<1>1. c.op \in Moving => c.first \in Sector /\ c.lba \in BOOLEAN /\ c.table \in Table
  BY DEF Command, Moving, Bus, Reads, Writes
<1>2. c.op \notin Moving => c.op \in {"plain", "translate", "refused"}
  BY DEF Command
<1>3. c # None
  BY NoneAssumption
<1>4. \A s \in Sector : s \in Nat
  BY BlocksAre
<1>5. c.op \in Moving => Total(c.table) \in 1 .. Most
  BY <1>1, TablesAre
<1>6. \A n \in 1 .. Most : n \in Nat
  OBVIOUS
<1> QED
  BY <1>1, <1>2, <1>3, <1>4, <1>5, <1>6

\* The ways of an order exclude each other.
LEMMA OpsAre ==
  ASSUME NEW op
  PROVE  /\ op \in Reads => op \notin Writes /\ op \notin Bus /\ op \in Moving
         /\ op \in Writes => op \notin Reads /\ op \notin Bus /\ op \in Moving
         /\ op \in Bus => op \notin Reads /\ op \notin Writes /\ op \in Moving
         /\ op \in Moving => op \in Reads \/ op \in Writes \/ op \in Bus
         /\ op \in {"plain", "translate", "refused"} => op \notin Moving
  BY DEF Reads, Writes, Bus, Moving

LEMMA OrdersAre ==
  ASSUME NEW o \in Order
  PROVE  /\ o.command \in Command \cup {None} /\ o.heard \in BOOLEAN /\ o.done \in 0 .. Most
         /\ o # None
  BY NoneAssumption DEF Order

LEMMA InitOk == Init => IInv
<1> SUFFICES ASSUME Init
             PROVE  IInv
  OBVIOUS
<1>1. ide \in Controller
  <2>1. /\ 0 \in 0 .. Byte * Byte - 1 /\ 0 \in 0 .. 15 /\ 0 \in 0 .. Byte - 1
        /\ 0 \in 0 .. Most - 1 /\ 1 \in 1 .. Multiple
    BY SizesAre
  <2>2. [cylinder |-> 0, head |-> 0, number |-> 0, lba |-> FALSE] \in Registers
    BY <2>1 DEF Registers
  <2>3. 0 \in 0 .. Words * Multiple - 1
    BY <2>1, WordsAre
  <2> QED
    BY <2>1, <2>2, <2>3, NoBuffer DEF Init, Controller
<1>2. drive \in Disk
  <2>1. drive \in Image
    BY DEF Init, Image
  <2>2. \A b \in Block : drive.blocks[b] = None
    BY DEF Init
  <2> QED
    BY <2>1, <2>2 DEF Disk
<1> QED
  BY <1>1, <1>2 DEF Init, IInv, TypeOK, Disk

\* The registers are written and a command is issued.
Idle(i, op) ==
  [LowerIrq(i) EXCEPT !.command = IF op \in Moving THEN op ELSE "other", !.buffer = <<>>]

LEMMA IdleIs ==
  ASSUME NEW i \in Controller, NEW op
  PROVE  /\ Idle(i, op) \in Controller
         /\ Idle(i, op).at = i.at /\ Idle(i, op).count = i.count
         /\ Idle(i, op).slave = i.slave /\ Idle(i, op).started = i.started
         /\ Idle(i, op).ended = i.ended
         /\ op \in Moving => Idle(i, op).command = op
<1>1. PICK i1 : i1 = LowerIrq(i)
  OBVIOUS
<1>2. i1 \in Controller /\ Kept(i, i1) /\ i1.ended = i.ended
  BY <1>1, LowerIrqIs
<1>3. PICK x \in Moving \cup {"other"} : x = IF op \in Moving THEN op ELSE "other"
  OBVIOUS
<1>4. PICK idle : idle = [i1 EXCEPT !.command = x, !.buffer = <<>>]
  OBVIOUS
<1>5. /\ idle \in Controller /\ idle.command = x /\ idle.at = i1.at /\ idle.count = i1.count
      /\ idle.slave = i1.slave /\ idle.started = i1.started /\ idle.ended = i1.ended
  BY <1>2, <1>4, NoBuffer DEF Controller
<1>6. Idle(i, op) = idle
  BY <1>1, <1>3, <1>4 DEF Idle
<1> QED
  BY <1>2, <1>3, <1>5, <1>6 DEF Kept

\* What each way of a command does with what is idle.
LEMMA IssuedIs ==
  ASSUME NEW i \in Controller, NEW op, NEW d, NEW j, j = Issued(i, op, d)
  PROVE  /\ op \in Reads => j = ReadSectors(Idle(i, op), d)
         /\ op \in Writes => j = WriteSectors(Idle(i, op))
         /\ op \in Bus =>
              /\ j \in Controller /\ j.at = i.at /\ j.count = i.count /\ j.command = op
              /\ j.started = i.started /\ j.ended = i.ended
         /\ op \in {"plain", "translate", "refused"} => j \in Controller /\ ~j.drq
<1> DEFINE idle == Idle(i, op)
           a == ReadSectors(idle, d)
           b == WriteSectors(idle)
           c == [idle EXCEPT !.drq = TRUE]
           e == [idle EXCEPT !.drq = FALSE]
           f == [idle EXCEPT !.drq = FALSE, !.slave = TRUE]
           g == [idle EXCEPT !.busy = FALSE, !.drq = FALSE, !.position = 0]
<1>1. j = CASE op \in Reads -> a [] op \in Writes -> b [] op \in Bus -> c
            [] op = "plain" -> RaiseIrq(e) [] op = "translate" -> RaiseIrq(f)
            [] op = "refused" -> RaiseIrq(g)
  BY DEF Issued, Idle, Abort
<1>2. "plain" \notin Moving /\ "translate" \notin Moving /\ "refused" \notin Moving
  BY OpsAre
<1>3. idle \in Controller /\ 0 \in 0 .. Words * Multiple - 1
  BY IdleIs, WordsAre DEF Controller
<1> HIDE DEF idle
<1>4. c \in Controller /\ c.at = idle.at /\ c.count = idle.count /\ c.command = idle.command
        /\ c.started = idle.started /\ c.ended = idle.ended
  BY <1>3 DEF Controller
<1>5. e \in Controller /\ e.drq = FALSE
  BY <1>3 DEF Controller
<1>6. f \in Controller /\ f.drq = FALSE
  BY <1>3 DEF Controller
<1>7. g \in Controller /\ g.drq = FALSE
  BY <1>3 DEF Controller
<1> HIDE DEF a, b, c, e, f, g
<1>8. /\ op \in Reads => j = a
      /\ op \in Writes => j = b
      /\ op \in Bus => j = c
      /\ op = "plain" => j = RaiseIrq(e)
      /\ op = "translate" => j = RaiseIrq(f)
      /\ op = "refused" => j = RaiseIrq(g)
  BY <1>1, <1>2, OpsAre
<1>9. op \in {"plain", "translate", "refused"} => j \in Controller /\ ~j.drq
  BY <1>5, <1>6, <1>7, <1>8, RaiseIrqIs DEF Kept
<1>10. op \in Bus => /\ j \in Controller /\ j.at = i.at /\ j.count = i.count /\ j.command = op
                     /\ j.started = i.started /\ j.ended = i.ended
  BY <1>4, <1>8, IdleIs, OpsAre DEF idle
<1> QED
  BY <1>8, <1>9, <1>10 DEF a, b, idle

LEMMA ChosenIs ==
  ASSUME NEW i \in Controller, NEW c \in Command, c.op \in Moving, Reachable(c)
  PROVE  \E moving \in Controller :
           /\ moving = [[i EXCEPT !.slave = FALSE] EXCEPT
                          !.at = Located(c.first, c.lba, @), !.count = Total(c.table) % Most]
           /\ Offset(moving.at) = c.first /\ moving.at.lba = c.lba /\ ~moving.slave
           /\ Count(moving.count) = Total(c.table)
<1>1. /\ c.first \in Nat /\ c.lba \in BOOLEAN /\ Total(c.table) \in 1 .. Most
      /\ Total(c.table) \in Nat
  BY CommandsAre
<1>2. i.at \in Registers
  BY DEF Controller
<1>3. c.first < Addressable(c.lba)
  BY <1>1, SizesAre DEF Reachable, Addressable
<1>4. PICK r : r = Located(c.first, c.lba, i.at)
  OBVIOUS
<1>5. r \in Registers /\ r.lba = c.lba /\ Offset(r) = c.first
  BY <1>1, <1>2, <1>3, <1>4, LocatedTyped, LocatedIs
<1>6. PICK n : n = Total(c.table) % Most
  OBVIOUS
<1>7. n \in 0 .. Most - 1 /\ Count(n) = Total(c.table)
  BY <1>1, <1>6, CountBack
<1>8. PICK i1 : i1 = [i EXCEPT !.slave = FALSE]
  OBVIOUS
<1>9. i1 \in Controller /\ i1.slave = FALSE /\ i1.at = i.at
  BY <1>8 DEF Controller
<1>10. PICK moving : moving = [i1 EXCEPT !.at = r, !.count = n]
  OBVIOUS
<1>11. moving \in Controller /\ moving.at = r /\ moving.count = n /\ moving.slave = FALSE
  BY <1>5, <1>7, <1>9, <1>10 DEF Controller
<1>12. moving = [i1 EXCEPT !.at = Located(c.first, c.lba, @), !.count = Total(c.table) % Most]
  BY <1>4, <1>6, <1>9, <1>10
<1> QED
  BY <1>5, <1>7, <1>8, <1>11, <1>12

LEMMA IssueOk ==
  ASSUME IInv, NEW c \in Command, Issue(c)
  PROVE  IInv'
<1>1. PICK o : o = [command |-> c, heard |-> FALSE, done |-> 0]
  OBVIOUS
<1>2. o \in Order /\ o.command = c /\ ~o.heard /\ o.done = 0 /\ order' = o
  BY <1>1, SizesAre DEF Order, Issue
<1>3. drive' = drive /\ memory' = memory /\ ide \in Controller /\ drive \in Disk
        /\ drive \in Image /\ memory \in [Place -> Data]
  BY DEF Issue, IInv, TypeOK
<1>4. c # None
  BY CommandsAre
<1>5. SUFFICES ide' \in Controller /\ Orderly(ide', o, drive)
  BY <1>2, <1>3 DEF IInv, TypeOK
<1>6. CASE c.op \notin Moving
  <2>1. c.op \in {"plain", "translate", "refused"}
    BY <1>6, CommandsAre
  <2>2. PICK i1 : i1 = [ide EXCEPT !.slave = FALSE]
    OBVIOUS
  <2>3. i1 \in Controller
    BY <1>3, <2>2 DEF Controller
  <2>4. c.op \notin Bus /\ c.op \notin Reads \cup Writes
    BY <1>6, OpsAre
  <2>5. ide' = Issued(i1, c.op, drive)
    BY <2>2, <2>4 DEF Issue
  <2>7. ide' \in Controller /\ ~ide'.drq
    BY <2>1, <2>3, <2>5, IssuedIs
  <2> QED
    BY <1>2, <1>4, <1>6, <2>7 DEF Orderly
<1>7. CASE c.op \in Moving
  <2>1. /\ Reachable(c)
        /\ c.op \in Reads \cup Writes => 2 \notin DOMAIN c.table
    BY <1>7 DEF Issue, Reachable
  <2>2. PICK moving \in Controller :
          /\ moving = [[ide EXCEPT !.slave = FALSE] EXCEPT
                         !.at = Located(c.first, c.lba, @), !.count = Total(c.table) % Most]
          /\ Offset(moving.at) = c.first /\ moving.at.lba = c.lba /\ ~moving.slave
          /\ Count(moving.count) = Total(c.table)
    BY <1>3, <1>7, <2>1, ChosenIs
  <2>3. /\ c.first \in Nat /\ Total(c.table) \in Nat /\ Total(c.table) \in 1 .. Most
        /\ c.table \in Table
    BY <1>7, CommandsAre
  <2>4. CASE c.op \in Bus
    <3>1. c.op \notin Reads /\ c.op \notin Writes
      BY <2>4, OpsAre
    <3>2. PICK bus : bus = [moving EXCEPT !.started = FALSE, !.ended = FALSE]
      OBVIOUS
    <3>3. bus \in Controller /\ bus.at = moving.at /\ bus.count = moving.count
            /\ bus.started = FALSE /\ bus.ended = FALSE
      BY <3>2 DEF Controller
    <3>4. ide' = Issued(bus, c.op, drive)
      <4> DEFINE chosen == [ide EXCEPT !.slave = FALSE]
                 first  == [chosen EXCEPT !.at = Located(c.first, c.lba, @),
                                          !.count = Total(c.table) % Most]
                 begun  == [first EXCEPT !.started = FALSE, !.ended = FALSE]
      <4>1. ide' = Issued(CASE c.op \in Bus -> begun [] c.op \in Reads \cup Writes -> first
                            [] OTHER -> chosen, c.op, drive)
        BY DEF Issue
      <4>2. begun = bus
        BY <2>2, <3>2
      <4> HIDE DEF chosen, first, begun
      <4> QED
        BY <2>4, <3>1, <4>1, <4>2
    <3>5. /\ ide' \in Controller /\ ide'.at = bus.at /\ ide'.count = bus.count
          /\ ide'.command = c.op /\ ide'.started = bus.started /\ ide'.ended = bus.ended
      BY <2>4, <3>3, <3>4, IssuedIs
    <3>8. BusOrder(ide', o)
      BY <1>2, <2>2, <3>3, <3>5 DEF BusOrder
    <3> QED
      BY <1>2, <1>4, <1>7, <2>1, <3>1, <3>5, <3>8 DEF Orderly
  <2>5. CASE c.op \in Reads
    <3>1. c.op \notin Bus /\ c.op \notin Writes
      BY <2>5, OpsAre
    <3>2. ide' = Issued(moving, c.op, drive)
      BY <2>2, <2>5, <3>1 DEF Issue
    <3>3. PICK idle \in Controller :
            /\ idle = Idle(moving, c.op)
            /\ idle.at = moving.at /\ idle.count = moving.count /\ idle.slave = moving.slave
            /\ c.op \in Moving => idle.command = c.op
      BY IdleIs
    <3>4. ide' = ReadSectors(idle, drive)
      BY <2>5, <3>2, <3>3, IssuedIs
    <3>5. Fetched(idle, ide', drive)
      BY <1>3, <2>1, <2>2, <2>3, <3>3, <3>4, ReadSectorsIs DEF Reachable
    <3>6. ide'.taken \in 1 .. Multiple /\ 0 \in 0 .. (Words * ide'.taken) - 1
      BY <3>5, WordsAre DEF Fetched, Controller
    <3>7. o.command = c /\ o.done = 0 /\ Total(c.table) - 0 = Total(c.table)
            /\ c.first + 0 = c.first
      BY <1>2, <2>3
    <3>8. Wanting(ide', o)
      BY <1>7, <2>2, <2>3, <3>3, <3>5, <3>6, <3>7 DEF Wanting, Fetched
    <3>9. ReadOrder(ide', o, drive)
      BY <2>2, <3>3, <3>5, <3>7, <3>8 DEF ReadOrder, Fetched
    <3> QED
      BY <1>2, <1>4, <1>7, <2>1, <2>5, <3>1, <3>5, <3>9 DEF Orderly, Fetched
  <2>6. CASE c.op \in Writes
    <3>1. c.op \notin Bus /\ c.op \notin Reads
      BY <2>6, OpsAre
    <3>2. ide' = Issued(moving, c.op, drive)
      BY <2>2, <2>6, <3>1 DEF Issue
    <3>3. PICK idle \in Controller :
            /\ idle = Idle(moving, c.op)
            /\ idle.at = moving.at /\ idle.count = moving.count /\ idle.slave = moving.slave
            /\ c.op \in Moving => idle.command = c.op
      BY IdleIs
    <3>4. ide' = WriteSectors(idle)
      BY <2>6, <3>2, <3>3, IssuedIs
    <3>5. Wanted(idle, ide')
      BY <3>3, <3>4, WriteSectorsIs
    <3>6. ide'.taken \in 1 .. Multiple /\ 0 \in 0 .. (Words * ide'.taken) - 1
      BY <3>5, WordsAre DEF Wanted, Controller
    <3>7. o.command = c /\ o.done = 0 /\ Total(c.table) - 0 = Total(c.table)
            /\ c.first + 0 = c.first
      BY <1>2, <2>3
    <3>8. Wanting(ide', o)
      BY <1>7, <2>2, <2>3, <3>3, <3>5, <3>6, <3>7 DEF Wanting, Wanted
    <3>9. WriteOrder(ide', o)
      BY <2>2, <3>3, <3>5, <3>7, <3>8 DEF WriteOrder, Wanted
    <3> QED
      BY <1>2, <1>4, <1>7, <2>1, <2>6, <3>1, <3>5, <3>9 DEF Orderly, Wanted
  <2> QED
    BY <1>7, <2>4, <2>5, <2>6, OpsAre
<1> QED
  BY <1>6, <1>7

-----------------------------------------------------------------------------
(* What a step moves, as the property says it.                             *)

\* The sectors that a step of order o is for, counted from 0.
Now(o) ==
  IF o.command.op \in Bus THEN 0 .. Total(o.command.table) - 1
  ELSE o.done .. o.done + Chunk(o.command.op, Total(o.command.table) - o.done) - 1

LEMMA MovesRead ==
  ASSUME NEW o, o.command.table \in Table, o.command.op \in Reads \cup {"readDma"},
         Now(o) \subseteq 0 .. Total(o.command.table) - 1, NEW c, NEW m, NEW m2,
         m2 = Delivered(o.command.table, Now(o), o.command.first, c, m)
  PROVE  Moves(o, c, m, c, m2)
<1> DEFINE t == o.command.table
           place == [k \in 0 .. Total(t) - 1 |-> IF k < t[1].count THEN t[1].to + k
                                                 ELSE t[2].to + k - t[1].count]
           moved == [p \in Place |->
                       IF \E k \in Now(o) : place[k] = p
                       THEN c[o.command.first + (CHOOSE k \in Now(o) : place[k] = p)] ELSE m[p]]
<1>1. Moves(o, c, m, c, m2) <=> m2 = moved
  BY DEF Moves, Now
<1>2. \A k \in Now(o) : place[k] = Put(t, k)
  BY DEF Put
<1>3. \A j, k \in Now(o) : Put(t, j) = Put(t, k) => j = k
  BY TablesAre
<1>4. ASSUME NEW p \in Place
      PROVE  (IF \E k \in Now(o) : place[k] = p
              THEN c[o.command.first + (CHOOSE k \in Now(o) : place[k] = p)] ELSE m[p])
             = IF \E k \in Now(o) : Put(t, k) = p
               THEN c[o.command.first + (CHOOSE k \in Now(o) : Put(t, k) = p)] ELSE m[p]
  <2> HIDE DEF place, t
  <2>1. CASE \E k \in Now(o) : place[k] = p
    <3>1. PICK j \in Now(o) : j = (CHOOSE k \in Now(o) : place[k] = p) /\ place[j] = p
      BY <2>1
    <3>2. \E k \in Now(o) : Put(t, k) = p
      BY <1>2, <2>1
    <3>3. PICK k \in Now(o) : k = (CHOOSE z \in Now(o) : Put(t, z) = p) /\ Put(t, k) = p
      BY <3>2
    <3>4. j = k
      BY <1>2, <1>3, <3>1, <3>3
    <3> QED
      BY <2>1, <3>1, <3>2, <3>3, <3>4
  <2>2. CASE ~ \E k \in Now(o) : place[k] = p
    BY <1>2, <2>2
  <2> QED
    BY <2>1, <2>2
<1>5. m2 = moved
  <2> HIDE DEF place
  <2> QED
    BY <1>4 DEF Delivered, t
<1> QED
  BY <1>1, <1>5

LEMMA MovesWrite ==
  ASSUME NEW o, o.command.table \in Table, o.command.op \in Writes \cup {"writeDma"},
         Now(o) \subseteq 0 .. Total(o.command.table) - 1, NEW c, NEW m,
         NEW c2 \in [Sector -> Data],
         \A s \in Sector : c2[s] = IF s - o.command.first \in Now(o)
                                   THEN m[Put(o.command.table, s - o.command.first)] ELSE c[s]
  PROVE  Moves(o, c, m, c2, m)
<1> DEFINE t == o.command.table
           place == [k \in 0 .. Total(t) - 1 |-> IF k < t[1].count THEN t[1].to + k
                                                 ELSE t[2].to + k - t[1].count]
           moved == [s \in Sector |-> IF s - o.command.first \in Now(o)
                                      THEN m[place[s - o.command.first]] ELSE c[s]]
<1>1. o.command.op \notin Reads \cup {"readDma"}
  BY OpsAre DEF Bus, Reads, Writes
<1>2. Moves(o, c, m, c2, m) <=> c2 = moved
  BY <1>1 DEF Moves, Now
<1>3. \A k \in Now(o) : place[k] = Put(t, k)
  BY DEF Put
<1>4. c2 = moved
  <2> HIDE DEF place
  <2>1. \A s \in Sector : c2[s] = moved[s]
    BY <1>3 DEF t
  <2> QED
    BY <2>1
<1> QED
  BY <1>2, <1>4

LEMMA NowIs ==
  ASSUME NEW o, NEW n, n = Total(o.command.table), n \in Nat, o.done \in Nat
  PROVE  /\ o.command.op \in Bus => Now(o) = 0 .. n - 1
         /\ (o.command.op \notin Bus /\ o.done < n) =>
              /\ Now(o) = o.done .. o.done + Chunk(o.command.op, n - o.done) - 1
              /\ Chunk(o.command.op, n - o.done) \in 1 .. n - o.done
              /\ Now(o) \subseteq 0 .. n - 1
<1>1. ASSUME o.command.op \notin Bus, o.done < n
      PROVE  /\ Now(o) = o.done .. o.done + Chunk(o.command.op, n - o.done) - 1
             /\ Chunk(o.command.op, n - o.done) \in 1 .. n - o.done
             /\ Now(o) \subseteq 0 .. n - 1
  <2>1. n - o.done \in Nat \ {0}
    BY <1>1
  <2>2. PICK t : t = Chunk(o.command.op, n - o.done)
    OBVIOUS
  <2>3. t \in 1 .. Multiple /\ t <= n - o.done /\ Multiple \in Nat
    BY <2>1, <2>2, ChunkIs, SizesAre
  <2>4. Now(o) = o.done .. o.done + t - 1
    BY <1>1, <2>2 DEF Now
  <2>5. t \in 1 .. n - o.done /\ o.done .. o.done + t - 1 \subseteq 0 .. n - 1
    BY <2>1, <2>3
  <2> QED
    BY <2>2, <2>4, <2>5
<1> QED
  BY <1>1 DEF Now

-----------------------------------------------------------------------------
(* The steps.                                                              *)

\* What an order depends on.
Held(i, j) ==
  /\ j.at = i.at /\ j.count = i.count /\ j.slave = i.slave /\ j.command = i.command
  /\ j.drq = i.drq /\ j.position = i.position /\ j.taken = i.taken
  /\ j.buffer = i.buffer /\ j.started = i.started /\ j.ended = i.ended

LEMMA OrderlyHeld ==
  ASSUME NEW i, NEW j, NEW o, NEW d, Orderly(i, o, d), Held(i, j)
  PROVE  Orderly(j, o, d)
<1>1. BusOrder(i, o) => BusOrder(j, o)
  BY DEF Held, BusOrder
<1>2. Wanting(i, o) => Wanting(j, o)
  BY DEF Held, Wanting
<1>3. ReadOrder(i, o, d) => ReadOrder(j, o, d)
  BY <1>2 DEF Held, ReadOrder
<1>4. WriteOrder(i, o) => WriteOrder(j, o)
  BY <1>2 DEF Held, WriteOrder
<1>5. i.drq = j.drq
  BY DEF Held
<1> QED
  BY <1>1, <1>3, <1>4, <1>5 DEF Orderly

LEMMA ControlOk ==
  ASSUME IInv, NEW silent \in BOOLEAN, Control(silent)
  PROVE  IInv'
<1>1. ide \in Controller
  BY DEF IInv, TypeOK
<1>2. PICK i : i = [ide EXCEPT !.silent = silent]
  OBVIOUS
<1>3. i \in Controller /\ Held(ide, i)
  BY <1>1, <1>2 DEF Controller, Held
<1>4. ide' = UpdateIrq(ide, i)
  BY <1>2 DEF Control
<1>5. ide' \in Controller /\ Held(ide, ide')
  BY <1>1, <1>3, <1>4, UpdateIrqIs DEF Kept, Held
<1>6. drive' = drive /\ memory' = memory /\ order' = order
  BY DEF Control
<1>7. order # None => Orderly(ide', order, drive)
  BY <1>5, OrderlyHeld DEF IInv
<1> QED
  BY <1>5, <1>6, <1>7 DEF IInv, TypeOK

LEMMA GivenUp ==
  [command |-> None, heard |-> FALSE, done |-> 0] \in Order
BY SizesAre DEF Order

LEMMA SetResetOk ==
  ASSUME IInv, SetReset
  PROVE  IInv'
<1>1. ide' \in Controller
  BY DEF IInv, TypeOK, SetReset, Controller
<1>2. order' \in Order /\ order'.command = None /\ ~order'.heard
  BY GivenUp DEF SetReset
<1> QED
  BY <1>1, <1>2 DEF IInv, TypeOK, SetReset, Orderly

LEMMA ClearResetOk ==
  ASSUME IInv, ClearReset
  PROVE  IInv'
<1>1. ide \in Controller /\ ide.at \in Registers
  BY DEF IInv, TypeOK, Controller
<1>2. PICK cylinder : cylinder = IF ide.slave THEN Byte * Byte - 1 ELSE 0
  OBVIOUS
<1>3. cylinder \in 0 .. Byte * Byte - 1 /\ 1 \in 0 .. Byte - 1 /\ 1 % Most \in 0 .. Most - 1
  <2>1. 1 % Most \in 0 .. Most - 1
    BY SizesAre, Quotient
  <2> QED
    BY <1>2, <2>1, SizesAre
<1>4. PICK r : r = [ide.at EXCEPT !.number = 1, !.cylinder = cylinder]
  OBVIOUS
<1>5. r \in Registers
  BY <1>1, <1>3, <1>4 DEF Registers
<1>6. PICK n \in 0 .. Most - 1 : n = 1 % Most
  BY <1>3
<1>7. ide' = [ide EXCEPT !.busy = FALSE, !.resetting = FALSE, !.drq = FALSE,
                         !.slave = FALSE, !.count = n, !.at = r]
  BY <1>2, <1>4, <1>6 DEF ClearReset
<1>8. ide' \in Controller
  BY <1>1, <1>5, <1>6, <1>7 DEF Controller
<1> QED
  BY <1>8 DEF IInv, TypeOK, ClearReset

LEMMA ResetOk ==
  ASSUME IInv, Reset
  PROVE  IInv'
<1>1. ide' \in Controller
  BY DEF IInv, TypeOK, Reset, Controller
<1> QED
  BY <1>1 DEF IInv, TypeOK, Reset

\* Looked at: nothing of the order is disturbed.
LEMMA LookedIs ==
  ASSUME NEW i \in Controller, NEW j, j = Looked([i EXCEPT !.latched = FALSE])
  PROVE  j \in Controller /\ Held(i, j)
<1>1. PICK i1 : i1 = [i EXCEPT !.latched = FALSE]
  OBVIOUS
<1>2. i1 \in Controller /\ Held(i, i1)
  BY <1>1 DEF Controller, Held
<1>3. j = i1 \/ j = LowerIrq(i1)
  BY <1>1 DEF Looked
<1>4. LowerIrq(i1) \in Controller /\ Held(i1, LowerIrq(i1))
  BY <1>2, LowerIrqIs DEF Kept, Held
<1> QED
  BY <1>2, <1>3, <1>4 DEF Held

\* A handler that finds nothing to do, or the end, leaves the order as it should
\* be; one that finds words wanted may take them from now on.  Only what has
\* been moved whole ends an order to move.
LEMMA LookOk ==
  ASSUME IInv, Look
  PROVE  /\ IInv'
         /\ (order # None /\ order' = None /\ order.command.op \in Moving) =>
              order.done = Total(order.command.table)
<1>1. ide \in Controller /\ drive' = drive /\ memory' = memory
  BY DEF IInv, TypeOK, Look
<1>2. PICK i : i = Looked([ide EXCEPT !.latched = FALSE])
  OBVIOUS
<1>3. i \in Controller /\ Held(ide, i)
  BY <1>1, <1>2, LookedIs
<1>4. CASE order = None \/ order.command = None
  <2>1. ide' = i /\ order' = order
    BY <1>2, <1>4 DEF Look
  <2>2. order # None => Orderly(i, order, drive)
    BY <1>3, OrderlyHeld DEF IInv
  <2>3. IInv'
    BY <1>1, <1>3, <2>1, <2>2 DEF IInv, TypeOK
  <2> QED
    BY <2>1, <2>3
<1>5. CASE order # None /\ order.command # None
  <2>1. order \in Order /\ Orderly(ide, order, drive) /\ order.command \in Command
    BY <1>5, OrdersAre DEF IInv, TypeOK
  <2>2. Orderly(i, order, drive)
    BY <1>3, <2>1, OrderlyHeld
  <2>3. CASE order.command.op \in Bus
    <3>1. /\ ide' = IF ide.ended THEN [i EXCEPT !.started = FALSE] ELSE i
          /\ order' = IF ide.ended THEN None ELSE order
      BY <1>2, <1>5, <2>3 DEF Look
    <3>2. [i EXCEPT !.started = FALSE] \in Controller
      BY <1>3 DEF Controller
    <3>3. ide' \in Controller
      BY <1>3, <3>1, <3>2
    <3>4. order' # None => Orderly(ide', order', drive)
      BY <1>5, <2>2, <3>1
    <3>5. IInv'
      BY <1>1, <2>1, <3>1, <3>3, <3>4 DEF IInv, TypeOK
    <3>6. ide.ended => order.done = Total(order.command.table)
      BY <1>5, <2>1, <2>3, OpsAre DEF Orderly, BusOrder
    <3> QED
      BY <3>1, <3>5, <3>6
  <2>4. CASE order.command.op \notin Bus
    <3>1. /\ ide' = i
          /\ order' = IF ide.drq /\ ~ide.slave THEN [order EXCEPT !.heard = TRUE] ELSE None
      BY <1>2, <1>5, <2>4 DEF Look
    <3>2. CASE ide.drq /\ ~ide.slave
      <4>1. order' = [order EXCEPT !.heard = TRUE]
        BY <3>1, <3>2
      <4>2. order' \in Order /\ order'.heard = TRUE /\ order'.command = order.command
              /\ order'.done = order.done
        BY <2>1, <4>1 DEF Order
      <4>3. i.drq
        BY <1>3, <3>2 DEF Held
      <4>4. order.command.op \in Moving
        BY <1>5, <2>2, <4>3 DEF Orderly
      <4>5. Wanting(i, order) => Wanting(i, order')
        BY <4>2 DEF Wanting
      <4>6. ReadOrder(i, order, drive) => ReadOrder(i, order', drive)
        BY <4>2, <4>5 DEF ReadOrder
      <4>7. WriteOrder(i, order) => WriteOrder(i, order')
        BY <4>2, <4>3, <4>5 DEF WriteOrder
      <4>8. Orderly(i, order', drive)
        BY <1>5, <2>2, <2>4, <4>2, <4>4, <4>6, <4>7 DEF Orderly
      <4>9. IInv'
        BY <1>1, <1>3, <3>1, <4>2, <4>8 DEF IInv, TypeOK
      <4>10. order' # None
        BY <4>2, OrdersAre
      <4> QED
        BY <4>9, <4>10
    <3>3. CASE ~(ide.drq /\ ~ide.slave)
      <4>1. order' = None
        BY <3>1, <3>3
      <4>2. IInv'
        BY <1>1, <1>3, <3>1, <4>1 DEF IInv, TypeOK
      <4>3. order.command.op \in Moving => order.done = Total(order.command.table)
        BY <1>5, <2>1, <2>4, <3>3, OpsAre DEF Orderly, ReadOrder, WriteOrder, Wanting
      <4> QED
        BY <4>2, <4>3
    <3> QED
      BY <3>2, <3>3
  <2> QED
    BY <2>3, <2>4
<1> QED
  BY <1>4, <1>5

\* The start bit moves the whole of the order.
LEMMA StartOk ==
  ASSUME IInv, Start
  PROVE  IInv' /\ Moves(order, Contents(drive), memory, Contents(drive'), memory')
<1>1. /\ ide \in Controller /\ drive \in Disk /\ drive \in Image
      /\ memory \in [Place -> Data] /\ order \in Order
      /\ order.command \in Command /\ order.command # None
      /\ order.command.op \in Bus /\ ~ide.started
  <2>1. order # None /\ order.command # None
    BY DEF Start
  <2> QED
    BY <2>1, OrdersAre DEF IInv, TypeOK, Disk, Start
<1>2. PICK c \in Command : c = order.command
  BY <1>1
<1>3. PICK t, f, n : t = c.table /\ f = c.first /\ n = Total(t)
  OBVIOUS
<1>4. c.op \in Moving /\ c.op \notin Reads /\ c.op \notin Writes
  BY <1>1, <1>2, OpsAre
<1>5. t \in Table /\ f \in Nat /\ n \in 1 .. Most /\ n \in Nat
  BY <1>2, <1>3, <1>4, CommandsAre
<1>6. /\ f + n <= Sectors /\ ~order.heard /\ ide.command = c.op
      /\ Count(ide.count) = n /\ Offset(ide.at) = f
  <2>1. Orderly(ide, order, drive) /\ order # None
    BY <1>1, OrdersAre DEF IInv
  <2>2. BusOrder(ide, order) /\ Reachable(c)
    BY <1>1, <1>2, <1>4, <2>1 DEF Orderly
  <2> QED
    BY <1>1, <1>2, <1>3, <2>2 DEF BusOrder, Reachable
<1>7. PICK i : i = [ide EXCEPT !.started = TRUE]
  OBVIOUS
<1>8. i \in Controller /\ i.started = TRUE /\ i.command = c.op /\ i.at = ide.at
        /\ i.count = ide.count
  BY <1>1, <1>6, <1>7 DEF Controller
<1>9. PICK places : places = Visited(t, n)
  OBVIOUS
<1>10. /\ ide' = IF i.command \in Bus THEN BusEnd(i) ELSE i
       /\ memory' = IF i.command = "readDma" THEN ToMemory(i, places, drive, memory) ELSE memory
       /\ drive' = IF i.command = "writeDma" THEN FromMemory(i, places, drive, memory) ELSE drive
       /\ order' = [order EXCEPT !.done = n]
  BY <1>2, <1>3, <1>6, <1>7, <1>8, <1>9 DEF Start
<1>11. ide' = BusEnd(i)
  BY <1>1, <1>2, <1>8, <1>10
<1>12. ide' \in Controller /\ ide'.command = c.op /\ ide'.started = TRUE
  BY <1>8, <1>11, BusEndIs
<1>13. order' \in Order /\ order'.command = c /\ order'.heard = order.heard /\ order'.done = n
  <2>1. n \in 0 .. Most
    BY <1>5
  <2> QED
    BY <1>1, <1>2, <1>10, <2>1 DEF Order
<1>14. Orderly(ide', order', drive')
  <2>1. BusOrder(ide', order')
    BY <1>3, <1>6, <1>12, <1>13 DEF BusOrder
  <2>2. Reachable(c)
    BY <1>1, <1>2, <1>4, OrdersAre DEF IInv, Orderly
  <2> QED
    BY <1>1, <1>2, <1>4, <1>13, <2>1, <2>2 DEF Orderly
<1>15. Now(order) = 0 .. n - 1
  BY <1>1, <1>2, <1>3 DEF Now
<1>16. Offset(i.at) = f
  BY <1>6, <1>8
<1>17. CASE c.op = "readDma"
  <2>1. drive' = drive /\ memory' = ToMemory(i, Visited(t, n), drive, memory)
    BY <1>8, <1>9, <1>10, <1>17
  <2>2. memory' = Delivered(t, 0 .. n - 1, f, Contents(drive), memory)
    BY <1>1, <1>3, <1>5, <1>6, <1>16, <2>1, ToMemoryIs
  <2>3. memory' \in [Place -> Data]
    BY <1>1, <1>3, <1>5, <1>6, <2>2, ContentsTyped, DeliveredTyped
  <2>4. Moves(order, Contents(drive), memory, Contents(drive), memory')
    BY <1>2, <1>3, <1>5, <1>15, <1>17, <2>2, MovesRead
  <2> QED
    BY <1>1, <1>12, <1>13, <1>14, <2>1, <2>3, <2>4 DEF IInv, TypeOK
<1>18. CASE c.op = "writeDma"
  <2>1. memory' = memory /\ drive' = FromMemory(i, places, drive, memory)
    BY <1>8, <1>10, <1>18
  <2>2. places = [k \in 1 .. n |-> Put(t, k - 1)]
    BY <1>3, <1>5, <1>9, TablesAre
  <2>3. \A k \in 1 .. n : k - 1 \in 0 .. n - 1
    BY <1>5
  <2>4. places \in [1 .. n -> Place]
    BY <1>3, <1>5, <2>2, <2>3, TablesAre
  <2>5. /\ drive' \in Disk
        /\ \A s \in Sector : Contents(drive')[s] = After(drive, f, places, memory, n, s)
    <3>1. Written(drive, f, places, memory, n, FromMemory(i, places, drive, memory))
      BY <1>1, <1>5, <1>6, <1>16, <2>4, FromMemoryIs
    <3> QED
      BY <2>1, <3>1 DEF Written
  <2>6. Contents(drive') \in [Sector -> Data] /\ drive' \in Image
    BY <2>5, ContentsTyped DEF Disk
  <2>7. ASSUME NEW s \in Sector
        PROVE  Contents(drive')[s] = IF s - f \in 0 .. n - 1 THEN memory[Put(t, s - f)]
                                     ELSE Contents(drive)[s]
    <3>1. s - f \in 0 .. n - 1 => places[s - f + 1] = Put(t, s - f)
      <4>1. s - f \in 0 .. n - 1 => s - f + 1 \in 1 .. n /\ (s - f + 1) - 1 = s - f
        BY <1>5
      <4> QED
        BY <2>2, <4>1
    <3> QED
      BY <2>5, <3>1 DEF After
  <2>8. Moves(order, Contents(drive), memory, Contents(drive'), memory)
    BY <1>2, <1>3, <1>5, <1>15, <1>18, <2>6, <2>7, MovesWrite
  <2> QED
    BY <1>1, <1>12, <1>13, <1>14, <2>1, <2>5, <2>6, <2>8 DEF IInv, TypeOK
<1> QED
  BY <1>1, <1>2, <1>17, <1>18 DEF Bus

\* The words of an order that was heard.
LEMMA HeardIs ==
  ASSUME IInv, order # None, order.heard,
         NEW c, c = order.command, NEW t, t = c.table, NEW f, f = c.first,
         NEW n, n = Total(t)
  PROVE  /\ c \in Command /\ c # None /\ order \in Order
         /\ c.op \in Reads \cup Writes /\ c.op \in Moving /\ c.op \notin Bus
         /\ t \in Table /\ f \in Nat /\ n \in Nat /\ n \in 1 .. Most
         /\ 2 \notin DOMAIN t
         /\ Reachable(c) /\ f + n <= Sectors /\ f + n <= Addressable(c.lba)
         /\ Wanting(ide, order)
         /\ c.op \in Reads => ReadOrder(ide, order, drive)
         /\ c.op \in Writes => /\ Count(ide.count) = n - order.done
                               /\ Offset(ide.at) = f + order.done
         /\ order.done \in Nat /\ order.done < n
         /\ ide.taken \in 1 .. n - order.done /\ ide.taken = Chunk(c.op, n - order.done)
<1>1. order \in Order /\ Orderly(ide, order, drive)
  BY DEF IInv, TypeOK
<1>2. c \in Command /\ c # None
  BY <1>1, OrdersAre DEF Orderly
<1>3. c.op \in Moving
  BY <1>1, <1>2 DEF Orderly
<1>4. c.op \notin Bus
  BY <1>1, <1>2, <1>3 DEF Orderly, BusOrder
<1>5. c.op \in Reads \cup Writes
  BY <1>3, <1>4, OpsAre
<1>6. t \in Table /\ f \in Nat /\ n \in Nat /\ n \in 1 .. Most
  BY <1>2, <1>3, CommandsAre
<1>7. Reachable(c) /\ f + n <= Sectors /\ f + n <= Addressable(c.lba) /\ 2 \notin DOMAIN t
  BY <1>1, <1>2, <1>3, <1>5 DEF Orderly, Reachable
<1>8. c.op \in Reads => ReadOrder(ide, order, drive)
  BY <1>1, <1>2, <1>3 DEF Orderly
<1>9. c.op \in Writes => /\ Wanting(ide, order) /\ Count(ide.count) = n - order.done
                         /\ Offset(ide.at) = f + order.done
  BY <1>1, <1>2, <1>3 DEF Orderly, WriteOrder
<1>10. Wanting(ide, order)
  BY <1>5, <1>8, <1>9 DEF ReadOrder
<1>11. order.done \in Nat /\ order.done < n /\ ide.taken = Chunk(c.op, n - order.done)
  <2>1. order.done \in 0 .. Most
    BY <1>1, OrdersAre
  <2> QED
    BY <1>10, <2>1 DEF Wanting
<1>12. ide.taken \in 1 .. n - order.done
  <2>1. n - order.done \in Nat \ {0}
    BY <1>6, <1>11
  <2>2. ide.taken \in 1 .. Multiple /\ ide.taken <= n - order.done
    BY <1>11, <2>1, ChunkIs
  <2> QED
    BY <2>1, <2>2, SizesAre
<1> QED
  BY <1>1, <1>2, <1>3, <1>4, <1>5, <1>6, <1>7, <1>8, <1>9, <1>10, <1>11, <1>12

\* A word that is not the last of its chunk.
LEMMA WordOn ==
  ASSUME IInv, Word, ~LastWord
  PROVE  IInv' /\ UNCHANGED <<drive, memory, order>>
<1>1. order # None /\ order.heard
  BY DEF Word
<1>2. ide' = [ide EXCEPT !.position = @ + 1] /\ drive' = drive /\ memory' = memory
        /\ order' = order
  BY DEF Word
<1>3. Wanting(ide, order) /\ Orderly(ide, order, drive) /\ order.command # None
        /\ order.command.op \in Moving /\ order.command.op \notin Bus
  BY <1>1, HeardIs DEF IInv
<1>4. ide \in Controller /\ ide.taken \in 1 .. Multiple
  BY DEF IInv, TypeOK, Controller
<1>5. Words * ide.taken \in Nat
  BY <1>4, WordsAre
<1>6. ide.position \in 0 .. (Words * ide.taken) - 1
  BY <1>3 DEF Wanting
<1>7. ide.position # Words * ide.taken - 1
  BY DEF LastWord
<1>8. PICK p : p = ide.position + 1
  OBVIOUS
<1>9. p \in 0 .. (Words * ide.taken) - 1
  BY <1>5, <1>6, <1>7, <1>8
<1>10. p \in 0 .. Words * Multiple - 1
  BY <1>4, <1>9, WordsAre
<1>11. ide' = [ide EXCEPT !.position = p]
  BY <1>2, <1>8
<1>12. /\ ide' \in Controller /\ ide'.position = p /\ ide'.command = ide.command
       /\ ide'.drq = ide.drq /\ ide'.slave = ide.slave /\ ide'.taken = ide.taken
       /\ ide'.at = ide.at /\ ide'.count = ide.count /\ ide'.buffer = ide.buffer
  BY <1>4, <1>10, <1>11 DEF Controller
<1>13. Wanting(ide', order)
  BY <1>3, <1>9, <1>12 DEF Wanting
<1>14. ReadOrder(ide, order, drive) => ReadOrder(ide', order, drive)
  BY <1>12, <1>13 DEF ReadOrder
<1>15. WriteOrder(ide, order) => WriteOrder(ide', order)
  BY <1>12, <1>13 DEF WriteOrder
<1>16. Orderly(ide', order, drive)
  BY <1>3, <1>14, <1>15 DEF Orderly
<1> QED
  BY <1>2, <1>12, <1>16 DEF IInv, TypeOK

\* What the last word of a read leaves in memory: the buffer, each sector in its
\* place.
Emptied(buffer, places, m) ==
  [p \in Place |-> IF \E k \in DOMAIN places : places[k] = p
                   THEN buffer[CHOOSE k \in DOMAIN places : places[k] = p] ELSE m[p]]

\* N sectors in a row, in memory and in the buffer.
Row(p, N) == [k \in 1 .. N |-> p + k - 1]
Filled(buffer, N, c, f) == \A k \in 1 .. N : buffer[k] = c[f + k - 1]

\* The buffer has sectors e to e + N - 1 of an order of one entry, and these are
\* the places for them.
Chunked(t, f, e, N, now, buffer, places, c) ==
  /\ t \in Table /\ 2 \notin DOMAIN t
  /\ f \in Nat /\ e \in Nat /\ N \in Nat /\ e + N <= Total(t)
  /\ now = e .. e + N - 1
  /\ \E g : g = f + e /\ Filled(buffer, N, c, g)
  /\ \E b : b = t[1].to + e /\ places = Row(b, N)

LEMMA BufferDelivered ==
  ASSUME NEW t, NEW f, NEW e, NEW N, NEW now, NEW buffer, NEW places, NEW c,
         Chunked(t, f, e, N, now, buffer, places, c), NEW m
  PROVE  Emptied(buffer, places, m) = Delivered(t, now, f, c, m)
<1>0. PICK g, b : /\ t \in Table /\ 2 \notin DOMAIN t
                  /\ f \in Nat /\ e \in Nat /\ N \in Nat /\ e + N <= Total(t)
                  /\ now = e .. e + N - 1
                  /\ g = f + e /\ Filled(buffer, N, c, g)
                  /\ b = t[1].to + e /\ places = Row(b, N)
  BY DEF Chunked
<1>1. Total(t) \in Nat /\ t[1].to \in Nat
  <2>1. t[1] \in Entry
    <3>1. PICK n \in 1 .. 2 : t \in [1 .. n -> Entry]
      BY <1>0 DEF Table
    <3> QED
      BY <3>1
  <2> QED
    BY <1>0, <2>1, TablesAre, SizesAre DEF Entry, Place
<1>2. DOMAIN places = 1 .. N
  BY <1>0 DEF Row
<1>3. \A z \in 1 .. N : /\ e + z - 1 \in 0 .. Total(t) - 1 /\ e + z - 1 \in now
                        /\ f + (e + z - 1) = (f + e) + z - 1
                        /\ t[1].to + (e + z - 1) = (t[1].to + e) + z - 1
  <2>1. PICK a \in Nat, total \in Nat : a = t[1].to /\ total = Total(t)
    BY <1>1
  <2>2. e + N <= total /\ e \in Nat /\ N \in Nat /\ f \in Nat
    BY <1>0, <2>1
  <2>3. ASSUME NEW z \in 1 .. N
        PROVE  /\ e + z - 1 \in 0 .. total - 1 /\ e + z - 1 \in e .. e + N - 1
               /\ f + (e + z - 1) = (f + e) + z - 1
               /\ a + (e + z - 1) = (a + e) + z - 1
    BY <2>1, <2>2
  <2> QED
    BY <1>0, <2>1, <2>3
<1>4. \A z \in 1 .. N : places[z] = Put(t, e + z - 1)
  BY <1>0, <1>3, TablesAre DEF Row
<1>5. \A y \in now : /\ y - e + 1 \in 1 .. N /\ y \in 0 .. Total(t) - 1
                     /\ e + (y - e + 1) - 1 = y
  <2>1. PICK total \in Nat : total = Total(t) /\ e + N <= total /\ e \in Nat /\ N \in Nat
    BY <1>0, <1>1
  <2>2. \A y \in e .. e + N - 1 : /\ y - e + 1 \in 1 .. N /\ y \in 0 .. total - 1
                                  /\ e + (y - e + 1) - 1 = y
    BY <2>1
  <2> QED
    BY <1>0, <2>1, <2>2
<1>6. \A y \in now : places[y - e + 1] = Put(t, y)
  BY <1>4, <1>5
<1>7. \A x, y \in now : Put(t, x) = Put(t, y) => x = y
  BY <1>0, <1>5, TablesAre
<1>8. ASSUME NEW p \in Place
      PROVE  (IF \E k \in 1 .. N : places[k] = p
              THEN buffer[CHOOSE k \in 1 .. N : places[k] = p] ELSE m[p])
             = IF \E k \in now : Put(t, k) = p
               THEN c[f + (CHOOSE k \in now : Put(t, k) = p)] ELSE m[p]
  <2>1. CASE \E z \in 1 .. N : places[z] = p
    <3>1. PICK z \in 1 .. N : z = (CHOOSE k \in 1 .. N : places[k] = p) /\ places[z] = p
      BY <2>1
    <3>2. e + z - 1 \in now /\ Put(t, e + z - 1) = p
      BY <1>3, <1>4, <3>1
    <3>3. PICK y \in now : y = (CHOOSE k \in now : Put(t, k) = p) /\ Put(t, y) = p
      BY <3>2
    <3>4. y = e + z - 1
      BY <1>7, <3>2, <3>3
    <3>5. buffer[z] = c[f + y]
      BY <1>0, <1>3, <3>4 DEF Filled
    <3> QED
      BY <2>1, <3>1, <3>2, <3>3, <3>5
  <2>2. CASE ~ \E z \in 1 .. N : places[z] = p
    <3>1. ~ \E y \in now : Put(t, y) = p
      BY <1>5, <1>6, <2>2
    <3> QED
      BY <2>2, <3>1
  <2> QED
    BY <2>1, <2>2
<1>9. PICK x, y : x = Emptied(buffer, places, m) /\ y = Delivered(t, now, f, c, m)
  OBVIOUS
<1>10. x = [p \in Place |-> x[p]] /\ y = [p \in Place |-> y[p]]
  BY <1>9 DEF Emptied, Delivered
<1>11. ASSUME NEW p \in Place
       PROVE  x[p] = y[p]
  <2>1. x[p] = IF \E k \in 1 .. N : places[k] = p
               THEN buffer[CHOOSE k \in 1 .. N : places[k] = p] ELSE m[p]
    BY <1>2, <1>9 DEF Emptied
  <2>2. y[p] = IF \E k \in now : Put(t, k) = p
               THEN c[f + (CHOOSE k \in now : Put(t, k) = p)] ELSE m[p]
    BY <1>9 DEF Delivered
  <2> QED
    BY <1>8, <2>1, <2>2
<1> QED
  BY <1>9, <1>10, <1>11

\* The last word of a chunk read: its sectors are in memory, and the buffer has
\* the next ones when there are any.
LEMMA WordRead ==
  ASSUME IInv, Word, LastWord, order.command.op \in Reads
  PROVE  IInv' /\ Moves(order, Contents(drive), memory, Contents(drive'), memory')
<1>1. order # None /\ order.heard
  BY DEF Word
<1>2. PICK c, t, f, n : c = order.command /\ t = c.table /\ f = c.first /\ n = Total(t)
  OBVIOUS
<1>3. PICK e, k : e = order.done /\ k = ide.taken
  OBVIOUS
<1>4. /\ c \in Command /\ c # None /\ order \in Order
      /\ c.op \in Moving /\ c.op \notin Bus /\ c.op \notin Writes
      /\ t \in Table /\ f \in Nat /\ n \in Nat /\ n <= Most
      /\ 2 \notin DOMAIN t
      /\ Reachable(c) /\ f + n <= Sectors /\ f + n <= Addressable(c.lba)
      /\ ReadOrder(ide, order, drive) /\ Wanting(ide, order)
      /\ e \in Nat /\ e < n
      /\ k \in 1 .. n - e /\ k = Chunk(c.op, n - e)
  <2>1. c.op \notin Writes
    BY <1>2, OpsAre
  <2>2. n \in 1 .. Most /\ Most \in Nat
    BY <1>1, <1>2, HeardIs, SizesAre
  <2> QED
    BY <1>1, <1>2, <1>3, <2>1, <2>2, HeardIs
<1>5. ide \in Controller /\ drive \in Disk /\ drive \in Image /\ memory \in [Place -> Data]
  BY DEF IInv, TypeOK
<1>6. PICK places, b : b = t[1].to + e /\ places = Row(b, k)
  OBVIOUS
<1>7. PICK next : next = [order EXCEPT !.heard = FALSE, !.done = e + k]
  OBVIOUS
<1>8. /\ memory' = Emptied(ide.buffer, places, memory)
      /\ ide' = PioRead(ide, drive)
      /\ order' = IF next.done = n THEN None ELSE next
      /\ drive' = drive
  <2> DEFINE taken == [z \in 1 .. ide.taken |-> order.command.table[1].to + order.done + z - 1]
             after == [order EXCEPT !.heard = FALSE, !.done = @ + ide.taken]
  <2>1. /\ memory' = Emptied(ide.buffer, taken, memory)
        /\ ide' = PioRead(ide, drive)
        /\ order' = IF after.done = Total(order.command.table) THEN None ELSE after
        /\ drive' = drive
    BY DEF Word, Emptied
  <2>2. places = taken /\ next = after
    BY <1>2, <1>3, <1>6, <1>7 DEF Row
  <2> HIDE DEF taken, after
  <2> QED
    BY <1>2, <2>1, <2>2
<1>9. /\ next \in Order /\ next.command = c /\ next.heard = FALSE /\ next.done = e + k
      /\ e + k \in Nat /\ e + k <= n /\ k \in Nat /\ k >= 1
  <2>1. e + k \in 0 .. Most /\ e + k \in Nat /\ e + k <= n /\ k \in Nat /\ k >= 1
    BY <1>4, SizesAre
  <2> QED
    BY <1>2, <1>4, <1>7, <2>1 DEF Order
<1>10. /\ ide.command = c.op /\ ide.at.lba = c.lba /\ ide.count = n - e - k
       /\ ide.count # 0 => Offset(ide.at) = f + e + k
       /\ ide.buffer = [z \in 1 .. k |-> ReadSector(drive, f + e + z - 1)]
       /\ ide.drq /\ ~ide.slave
  BY <1>2, <1>3, <1>4 DEF ReadOrder, Wanting
<1>11. ide.count # 0 => Count(ide.count) = n - (e + k) /\ Offset(ide.at) = f + (e + k)
  BY <1>4, <1>9, <1>10 DEF Count
<1>12. ide.count # 0 => /\ Offset(ide.at) \in Nat
                        /\ Offset(ide.at) + Count(ide.count) <= Sectors
                        /\ Offset(ide.at) + Count(ide.count) <= Addressable(ide.at.lba)
  <2>1. f + (e + k) + (n - (e + k)) = f + n /\ f + (e + k) \in Nat
    BY <1>4, <1>9
  <2> QED
    BY <1>4, <1>10, <1>11, <2>1
<1>13. ide' \in Controller /\ (ide.count # 0 => Fetched(ide, ide', drive))
  BY <1>5, <1>8, <1>12, PioReadIs
<1>14. memory' = Delivered(t, e .. e + k - 1, f, Contents(drive), memory)
  <2>1. ASSUME NEW z \in 1 .. k
        PROVE  ide.buffer[z] = Contents(drive)[f + e + z - 1]
    <3>1. f + e + z - 1 \in Sector
      BY <1>4, <1>9, SizesAre DEF Sector
    <3> QED
      BY <1>5, <1>10, <3>1, ContentsTyped
  <2>2. PICK contents, buffer : contents = Contents(drive) /\ buffer = ide.buffer
    OBVIOUS
  <2>3. PICK g : g = f + e /\ Filled(buffer, k, contents, g)
    BY <2>1, <2>2 DEF Filled
  <2>4. Emptied(buffer, places, memory) = Delivered(t, e .. e + k - 1, f, contents, memory)
    <3>1. PICK now : now = e .. e + k - 1
      OBVIOUS
    <3>2. t \in Table /\ 2 \notin DOMAIN t /\ f \in Nat /\ e \in Nat /\ k \in Nat /\ e + k <= Total(t)
      BY <1>2, <1>4, <1>9
    <3>3. Chunked(t, f, e, k, now, buffer, places, contents)
      BY <1>6, <2>3, <3>1, <3>2 DEF Chunked
    <3>4. Emptied(buffer, places, memory) = Delivered(t, now, f, contents, memory)
      BY <3>3, BufferDelivered
    <3> QED
      BY <3>1, <3>4
  <2> QED
    BY <1>8, <2>2, <2>4
<1>15. Now(order) = e .. e + k - 1 /\ Now(order) \subseteq 0 .. n - 1
  BY <1>2, <1>3, <1>4, NowIs
<1>16. Moves(order, Contents(drive), memory, Contents(drive), memory')
  BY <1>2, <1>4, <1>14, <1>15, MovesRead
<1>17. memory' \in [Place -> Data]
  <2>1. e .. e + k - 1 \in SUBSET (0 .. n - 1)
    BY <1>15
  <2> QED
    BY <1>2, <1>4, <1>5, <1>14, <2>1, ContentsTyped, DeliveredTyped
<1>18. CASE e + k = n
  <2>1. order' = None
    BY <1>8, <1>9, <1>18
  <2> QED
    BY <1>5, <1>8, <1>13, <1>16, <1>17, <2>1 DEF IInv, TypeOK
<1>19. CASE e + k # n
  <2>1. order' = next /\ ide.count # 0
    BY <1>4, <1>8, <1>9, <1>10, <1>19
  <2>2. Fetched(ide, ide', drive) /\ Count(ide.count) = n - (e + k)
          /\ Offset(ide.at) = f + (e + k)
    BY <1>11, <1>13, <2>1
  <2>3. ide'.taken \in 1 .. Multiple /\ 0 \in 0 .. (Words * ide'.taken) - 1
    BY <1>13, WordsAre DEF Controller
  <2>4. Wanting(ide', next)
    BY <1>2, <1>4, <1>9, <1>10, <1>19, <2>2, <2>3 DEF Wanting, Fetched
  <2>5. ReadOrder(ide', next, drive)
    BY <1>2, <1>9, <2>2, <2>4 DEF ReadOrder, Fetched
  <2>6. Orderly(ide', next, drive)
    BY <1>2, <1>4, <1>9, <2>5 DEF Orderly
  <2> QED
    BY <1>5, <1>8, <1>9, <1>13, <1>16, <1>17, <2>1, <2>6 DEF IInv, TypeOK
<1> QED
  BY <1>18, <1>19

\* The last word of a chunk written: its sectors are on the disk.
LEMMA WordWritten ==
  ASSUME IInv, Word, LastWord, order.command.op \in Writes
  PROVE  IInv' /\ Moves(order, Contents(drive), memory, Contents(drive'), memory')
<1>1. order # None /\ order.heard
  BY DEF Word
<1>2. PICK c, t, f, n : c = order.command /\ t = c.table /\ f = c.first /\ n = Total(t)
  OBVIOUS
<1>3. PICK e, k : e = order.done /\ k = ide.taken
  OBVIOUS
<1>4. /\ c \in Command /\ c # None /\ order \in Order
      /\ c.op \in Moving /\ c.op \notin Bus /\ c.op \notin Reads
      /\ t \in Table /\ f \in Nat /\ n \in Nat /\ n <= Most
      /\ 2 \notin DOMAIN t
      /\ Reachable(c) /\ f + n <= Sectors /\ f + n <= Addressable(c.lba)
      /\ Wanting(ide, order) /\ Count(ide.count) = n - e /\ Offset(ide.at) = f + e
      /\ e \in Nat /\ e < n
      /\ k \in 1 .. n - e /\ k = Chunk(c.op, n - e)
  <2>1. c.op \notin Reads
    BY <1>2, OpsAre
  <2>2. n \in 1 .. Most /\ Most \in Nat
    BY <1>1, <1>2, HeardIs, SizesAre
  <2> QED
    BY <1>1, <1>2, <1>3, <2>1, <2>2, HeardIs
<1>5. ide \in Controller /\ drive \in Disk /\ drive \in Image /\ memory \in [Place -> Data]
  BY DEF IInv, TypeOK
<1>6. PICK places : places = [z \in 1 .. k |-> t[1].to + e + z - 1]
  OBVIOUS
<1>7. PICK next : next = [order EXCEPT !.heard = FALSE, !.done = e + k]
  OBVIOUS
<1>8. /\ drive' = FromMemory(ide, places, drive, memory)
      /\ ide' = PioWrite(ide)
      /\ order' = next
      /\ memory' = memory
  BY <1>2, <1>3, <1>4, <1>6, <1>7 DEF Word
<1>9. /\ next \in Order /\ next.command = c /\ next.heard = FALSE /\ next.done = e + k
      /\ e + k \in Nat /\ e + k <= n /\ k \in Nat /\ k >= 1
  <2>1. e + k \in 0 .. Most /\ e + k \in Nat /\ e + k <= n /\ k \in Nat /\ k >= 1
    BY <1>4, SizesAre
  <2> QED
    BY <1>2, <1>4, <1>7, <2>1 DEF Order
<1>10. ide.command = c.op /\ ide.at.lba = c.lba /\ ide.drq /\ ~ide.slave
  BY <1>2, <1>4 DEF Wanting
<1>11. /\ ide.taken <= Count(ide.count) /\ Offset(ide.at) \in Nat
       /\ Offset(ide.at) + Count(ide.count) <= Addressable(ide.at.lba)
  <2>1. f + e + (n - e) = f + n /\ f + e \in Nat
    BY <1>4
  <2> QED
    BY <1>3, <1>4, <1>10, <2>1
<1>12. PICK left : left = Count(ide.count) - ide.taken
  OBVIOUS
<1>13. left = n - (e + k)
  <2>1. left = (n - e) - k
    BY <1>3, <1>4, <1>12
  <2>2. n \in Nat /\ e \in Nat /\ k \in Nat
    BY <1>4, <1>9
  <2> QED
    BY <2>1, <2>2
<1>14. PICK j : j = PioWrite(ide)
  OBVIOUS
<1>15. /\ j \in Controller
       /\ left = 0 => ~j.drq
       /\ left # 0 => /\ j.command = ide.command /\ j.slave = ide.slave /\ j.drq
                      /\ j.position = 0 /\ j.taken = Chunk(ide.command, left)
                      /\ Count(j.count) = left /\ j.at.lba = ide.at.lba
                      /\ Offset(j.at) = Offset(ide.at) + ide.taken
  BY <1>5, <1>11, <1>12, <1>14, PioWriteIs
<1>16. places \in [1 .. k -> Place] /\ \A z \in 1 .. k : places[z] = Put(t, e + z - 1)
  <2>1. t[1].to \in Nat
    <3>1. PICK z \in 1 .. 2 : t \in [1 .. z -> Entry]
      BY <1>4 DEF Table
    <3>2. t[1] \in Entry
      BY <3>1
    <3> QED
      BY <3>2, SizesAre DEF Entry, Place
  <2>2. \A z \in 1 .. k : /\ e + z - 1 \in 0 .. n - 1
                          /\ t[1].to + (e + z - 1) = t[1].to + e + z - 1
    BY <1>4, <1>9, <2>1
  <2>3. \A z \in 1 .. k : places[z] = Put(t, e + z - 1) /\ Put(t, e + z - 1) \in Place
    BY <1>2, <1>4, <1>6, <2>2, TablesAre
  <2> QED
    BY <1>6, <2>3
<1>17. /\ drive' \in Disk
       /\ \A s \in Sector : Contents(drive')[s] = After(drive, f + e, places, memory, k, s)
  <2>1. f + e \in Nat /\ f + e + k <= Sectors
    BY <1>4, <1>9, SizesAre
  <2>2. PICK g : g = f + e
    OBVIOUS
  <2>3. Written(drive, g, places, memory, k, FromMemory(ide, places, drive, memory))
    <3>1. g \in Nat /\ g + k <= Sectors /\ Offset(ide.at) = g
      BY <1>4, <2>1, <2>2
    <3>2. k \in Nat /\ places \in [1 .. k -> Place]
      BY <1>9, <1>16
    <3>3. drive \in Disk /\ memory \in [Place -> Data]
      BY <1>5
    <3> QED
      BY <3>1, <3>2, <3>3, FromMemoryIs
  <2> QED
    BY <1>8, <2>2, <2>3 DEF Written
<1>18. Now(order) = e .. e + k - 1 /\ Now(order) \subseteq 0 .. n - 1
  BY <1>2, <1>3, <1>4, NowIs
<1>19. Contents(drive') \in [Sector -> Data] /\ drive' \in Image
  BY <1>17, ContentsTyped DEF Disk
<1>20. ASSUME NEW s \in Sector
       PROVE  Contents(drive')[s] = IF s - f \in Now(order) THEN memory[Put(t, s - f)]
                                    ELSE Contents(drive)[s]
  <2>1. s \in Int
    BY DEF Sector
  <2>2. /\ s - (f + e) \in 0 .. k - 1 <=> s - f \in Now(order)
        /\ s - f \in Now(order) => /\ s - (f + e) + 1 \in 1 .. k
                                   /\ e + (s - (f + e) + 1) - 1 = s - f
    <3>1. f \in Int /\ e \in Int /\ k \in Int
      BY <1>4, <1>9
    <3>2. PICK w : w = s - f
      OBVIOUS
    <3>3. w \in Int /\ s - (f + e) = w - e
      BY <2>1, <3>1, <3>2
    <3>4. w \in Now(order) <=> e <= w /\ w <= e + k - 1
      BY <1>18, <3>1, <3>3
    <3> QED
      BY <3>1, <3>2, <3>3, <3>4
  <2>3. s - f \in Now(order) => places[s - (f + e) + 1] = Put(t, s - f)
    BY <1>16, <2>2
  <2> QED
    BY <1>17, <2>2, <2>3 DEF After
<1>21. Moves(order, Contents(drive), memory, Contents(drive'), memory)
  BY <1>2, <1>4, <1>18, <1>19, <1>20, MovesWrite
<1>22. WriteOrder(ide', next)
  <2>1. CASE left = 0
    BY <1>2, <1>4, <1>8, <1>9, <1>13, <1>14, <1>15, <2>1 DEF WriteOrder
  <2>2. CASE left # 0
    <3>1. ide'.taken \in 1 .. Multiple /\ 0 \in 0 .. (Words * ide'.taken) - 1
      BY <1>8, <1>14, <1>15, WordsAre DEF Controller
    <3>2. e + k < n
      BY <1>4, <1>9, <1>13, <2>2
    <3>3. Wanting(ide', next)
      BY <1>2, <1>8, <1>9, <1>10, <1>13, <1>14, <1>15, <2>2, <3>1, <3>2 DEF Wanting
    <3>4. Offset(ide.at) + ide.taken = f + (e + k)
      BY <1>3, <1>4, <1>9
    <3> QED
      BY <1>2, <1>8, <1>9, <1>13, <1>14, <1>15, <2>2, <3>3, <3>4 DEF WriteOrder
  <2> QED
    BY <2>1, <2>2
<1>23. Orderly(ide', next, drive')
  BY <1>2, <1>4, <1>9, <1>22 DEF Orderly
<1> QED
  BY <1>8, <1>9, <1>14, <1>15, <1>5, <1>17, <1>19, <1>21, <1>23 DEF IInv, TypeOK

LEMMA WordOk ==
  ASSUME IInv, Word
  PROVE  IInv'
<1>1. order # None /\ order.heard
  BY DEF Word
<1>2. order.command.op \in Reads \cup Writes
  BY <1>1, HeardIs
<1> QED
  BY <1>2, WordOn, WordRead, WordWritten

LEMMA NextOk ==
  ASSUME IInv, [Next]_vars
  PROVE  IInv'
<1>1. CASE \E c \in Command : Issue(c)
  BY <1>1, IssueOk
<1>2. CASE Start
  BY <1>2, StartOk
<1>3. CASE Look
  BY <1>3, LookOk
<1>4. CASE Word
  BY <1>4, WordOk
<1>5. CASE \E silent \in BOOLEAN : Control(silent)
  BY <1>5, ControlOk
<1>6. CASE SetReset
  BY <1>6, SetResetOk
<1>7. CASE ClearReset
  BY <1>7, ClearResetOk
<1>8. CASE Reset
  BY <1>8, ResetOk
<1>9. CASE UNCHANGED vars
  BY <1>9 DEF vars, IInv, TypeOK
<1> QED
  BY <1>1, <1>2, <1>3, <1>4, <1>5, <1>6, <1>7, <1>8, <1>9 DEF Next

LEMMA ProgressMoves ==
  ASSUME IInv, Progress
  PROVE  Moves(order, Contents(drive), memory, Contents(drive'), memory')
<1>1. CASE Start
  BY <1>1, StartOk
<1>2. CASE Word /\ LastWord
  <2>1. order # None /\ order.heard
    BY <1>2 DEF Word
  <2>2. order.command.op \in Reads \cup Writes
    BY <2>1, HeardIs
  <2> QED
    BY <1>2, <2>2, WordRead, WordWritten
<1> QED
  BY <1>1, <1>2 DEF Progress

\* Every other step leaves both alone.
LEMMA ElseUnmoved ==
  ASSUME IInv, [Next]_vars, ~Progress
  PROVE  drive' = drive /\ memory' = memory
<1>1. CASE Start
  <2>1. Progress
    BY <1>1, OpsAre DEF Start, Progress
  <2> QED
    BY <2>1
<1>2. CASE Word /\ LastWord
  <2>1. order # None /\ order.heard
    BY <1>2 DEF Word
  <2>2. order.command # None /\ order.command.op \in Moving
    BY <2>1, HeardIs
  <2>3. Progress
    BY <1>2, <2>1, <2>2 DEF Progress
  <2> QED
    BY <2>3
<1>3. CASE Word /\ ~LastWord
  BY <1>3, WordOn
<1>4. CASE \E c \in Command : Issue(c)
  BY <1>4 DEF Issue
<1>5. CASE Look
  BY <1>5 DEF Look
<1>6. CASE \E silent \in BOOLEAN : Control(silent)
  BY <1>6 DEF Control
<1>7. CASE SetReset
  BY <1>7 DEF SetReset
<1>8. CASE ClearReset
  BY <1>8 DEF ClearReset
<1>9. CASE Reset
  BY <1>9 DEF Reset
<1>10. CASE UNCHANGED vars
  BY <1>10 DEF vars
<1> QED
  BY <1>1, <1>2, <1>3, <1>4, <1>5, <1>6, <1>7, <1>8, <1>9, <1>10 DEF Next

\* The guest is done with an order to move only when all of it has moved.
LEMMA EndsWhole ==
  ASSUME IInv, [Next]_vars, order # None, order' = None, ~Progress, ~Reset, ~ClearReset,
         order.command.op \in Moving
  PROVE  order.done = Total(order.command.table)
<1>1. CASE Start
  <2>1. Progress
    BY <1>1, OpsAre DEF Start, Progress
  <2> QED
    BY <2>1
<1>2. CASE Word
  <2>1. order # None /\ order.heard
    BY <1>2 DEF Word
  <2>2. order.command # None /\ order.command.op \in Moving
    BY <2>1, HeardIs
  <2>3. ~LastWord
    BY <1>2, <2>1, <2>2 DEF Progress
  <2> QED
    BY <1>2, <2>3, WordOn
<1>3. CASE \E c \in Command : Issue(c)
  BY <1>3 DEF Issue
<1>4. CASE Look
  BY <1>4, LookOk
<1>5. CASE \E silent \in BOOLEAN : Control(silent)
  BY <1>5 DEF Control
<1>6. CASE SetReset
  BY <1>6, GivenUp, NoneAssumption DEF SetReset
<1>7. CASE UNCHANGED vars
  BY <1>7 DEF vars
<1> QED
  BY <1>1, <1>2, <1>3, <1>4, <1>5, <1>6, <1>7 DEF Next

-----------------------------------------------------------------------------
(* The theorems.                                                           *)

\* The registers, the image, memory and the order are what they are declared to
\* be: no count, position, buffer or cylinder leaves its range.
THEOREM TypeCorrect == Spec => []TypeOK
<1>1. IInv /\ [Next]_vars => IInv'
  BY NextOk
<1>2. IInv => TypeOK
  BY DEF IInv
<1> QED
  BY <1>1, <1>2, InitOk, PTL DEF Spec

\* Memory and disk change only as the guest asked: an order moves the sectors it
\* names and no other, in the order of its table, and is done with when all of
\* them have moved.
THEOREM OnlyOrdersMove == Spec => SectorsMoved
<1> DEFINE Step ==
      /\ Progress => Moves(order, Contents(drive), memory, Contents(drive'), memory')
      /\ ~Progress => UNCHANGED <<Contents(drive), memory>>
      /\ (order # None /\ order' = None /\ ~Progress /\ ~Reset /\ ~ClearReset
            /\ order.command.op \in Moving) => order.done = Total(order.command.table)
<1>1. IInv /\ [Next]_vars => IInv'
  BY NextOk
<1>2. IInv /\ [Next]_vars => [Step]_vars
  <2>1. SUFFICES ASSUME IInv, [Next]_vars
                 PROVE  Step
    OBVIOUS
  <2>2. ~Progress => UNCHANGED <<Contents(drive), memory>>
    <3>1. ~Progress => drive' = drive /\ memory' = memory
      BY <2>1, ElseUnmoved
    <3> QED
      BY <3>1 DEF Contents, ReadSector
  <2> QED
    BY <2>1, <2>2, ProgressMoves, EndsWhole
<1>3. Spec => [][Step]_vars
  BY <1>1, <1>2, InitOk, PTL DEF Spec
<1> QED
  BY <1>3 DEF SectorsMoved

=============================================================================
