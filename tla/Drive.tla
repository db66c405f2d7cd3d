------------------------------- MODULE Drive -------------------------------
(***************************************************************************)
(* The image behind a disk (src/src/drive.c), as operators on its state.   *)
(* Unless the backing file may be modified, the first write to a block     *)
(* copies it and the file is left alone; a ramdisk behaves as a file that  *)
(* may be.  All drivers answer at once.  The size of an image is taken to  *)
(* be a multiple of a block's: a write to a shorter last block is fatal.   *)
(***************************************************************************)
EXTENDS Integers

CONSTANTS
  Sectors,     \* sectors of the image
  BlockSize,   \* sectors of a block: 512 in the code
  Data,        \* what a sector may hold
  None         \* no copy, no command

ASSUME DriveAssumption ==
  /\ Sectors \in Nat /\ BlockSize \in Nat \ {0}
  /\ Sectors % BlockSize = 0
  /\ None \notin [0 .. BlockSize - 1 -> Data]

Sector == 0 .. Sectors - 1
Block  == 0 .. (Sectors \div BlockSize) - 1

Image ==
  [file : [Sector -> Data],
   modifiable : BOOLEAN,                                    \* raw_file_access
   blocks : [Block -> [0 .. BlockSize - 1 -> Data] \cup {None}]]

\* drive_simple_fetch_cache, and the file where there is no copy.
ReadSector(d, s) ==
  IF d.blocks[s \div BlockSize] = None THEN d.file[s]
  ELSE d.blocks[s \div BlockSize][s % BlockSize]

Contents(d) == [s \in Sector |-> ReadSector(d, s)]

\* drive_simple_add_cache: the whole block that s is in.
AddCache(d, s) ==
  [d EXCEPT !.blocks[s \div BlockSize] =
     [k \in 0 .. BlockSize - 1 |-> d.file[BlockSize * (s \div BlockSize) + k]]]

\* Fault: a block is copied again by each write to it.
WriteSectorCopiesAgain(d, s, v) ==
  IF d.modifiable THEN [d EXCEPT !.file[s] = v]
  ELSE [AddCache(d, s) EXCEPT !.blocks[s \div BlockSize][s % BlockSize] = v]

WriteSector(d, s, v) ==
  IF d.modifiable THEN [d EXCEPT !.file[s] = v]
  ELSE LET cached == IF d.blocks[s \div BlockSize] = None THEN AddCache(d, s) ELSE d
       IN [cached EXCEPT !.blocks[s \div BlockSize][s % BlockSize] = v]
=============================================================================
