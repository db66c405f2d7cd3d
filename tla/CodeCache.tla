----------------------------- MODULE CodeCache -----------------------------
(***************************************************************************)
(* The code cache of src/src/cpu: trace.c keeps decoded runs of            *)
(* instructions (traces) in a table indexed by physical address, smc.c     *)
(* keeps a bit for every 128-byte chunk that holds code, and the write tag *)
(* of a translation (mmu.c) sends stores to a page with code to access.c,  *)
(* which throws the traces away that the store may have changed.           *)
(*                                                                         *)
(* An instruction takes one offset of its page and either falls through    *)
(* ("go") or ends its trace ("jump"); whatever its content it may also     *)
(* load, store, change a mapping, reload CR3 or start a device's transfer. *)
(* Left out: the state hash (one mode), permissions (Tlb) and instructions *)
(* that cross a page, which are decoded from memory each time.             *)
(***************************************************************************)
EXTENDS Integers, FiniteSets

CONSTANTS
  Frames,      \* the number of physical pages
  Ways,        \* trace_info tells Ways pages apart: 16 in the code
  Lin,         \* the linear pages the guest uses
  Maps,        \* bound: the page tables it uses
  PageSize,    \* the instructions of a page
  ChunkSize,   \* the instructions of a chunk
  MaxTrace,    \* the instructions of a trace: 31 in the code
  Room,        \* the traces the cache has room for
  Stored,      \* bound: what the physical places may come to hold
  Targets,     \* the offsets jumped to
  Entries,     \* what a device fills at once: where it starts, and the length
  None         \* no page, no trace, no translation

ASSUME CodeCacheAssumption ==
  /\ Frames \in Nat \ {0} /\ Ways \in Nat \ {0}
  /\ Stored \subseteq (0 .. Frames - 1) \X (0 .. PageSize - 1) \X {"go", "jump"}
  /\ Maps \subseteq [Lin -> (0 .. Frames - 1) \cup {None}]
  /\ Targets \subseteq 0 .. PageSize - 1
  /\ Entries \subseteq [frame : 0 .. Frames - 1, offset : 0 .. PageSize - 1,
                   length : Nat \ {0}]
  /\ PageSize \in Nat \ {0} /\ ChunkSize \in Nat \ {0} /\ MaxTrace \in Nat \ {0}
  /\ Room \in Nat
  /\ None \notin 0 .. Frames - 1

Frame   == 0 .. Frames - 1
Offset  == 0 .. PageSize - 1
Content == {"go", "jump"}
Chunk(o) == o \div ChunkSize
LastChunk == Chunk(PageSize - 1)
Way(f)  == f % Ways
Slot    == (0 .. Ways - 1) \X Offset

VARIABLES
  memory,   \* what each physical page holds
  map,      \* the guest's page tables: the physical page of a linear page
  pc,       \* the instruction to execute next
  traces,   \* trace_info: the trace kept at a slot
  marked,   \* smc_has_code: the chunks that hold code
  tlb,      \* the translations kept, with their write tag
  here,     \* last_phys_eip: where the page of the fetch is, until pc leaves it
  run       \* the trace being executed, and the slot it was found in

vars == <<memory, map, pc, traces, marked, tlb, here, run>>

Code  == UNION {[D -> Content] : D \in SUBSET Offset}
Trace == [frame : Frame, code : Code]
Entry == [frame : Frame, tagged : BOOLEAN]
Run   == [slot : Slot, trace : Trace]

ASSUME NoneAssumption == None \notin Trace \cup Entry \cup Run

TypeOK ==
  /\ memory \in [Frame -> [Offset -> Content]]
  /\ map \in [Lin -> Frame \cup {None}]
  /\ pc \in [lin : Lin, offset : Offset]
  /\ \A s \in Slot : traces[s] # None => traces[s].frame \in Frame
  /\ marked \subseteq Frame \X (0 .. LastChunk)
  /\ \A l \in Lin : tlb[l] = None \/ tlb[l] \in Entry
  /\ here \in Frame \cup {None}
  /\ run # None => run.slot \in Slot /\ run.trace.frame \in Frame

-----------------------------------------------------------------------------
(* Decoding.                                                               *)

\* What cpu_decode makes of memory from an offset on: up to the first jump,
\* the end of the page or the greatest length.
Decoded(f, o) ==
  [e \in {e \in Offset : /\ o <= e /\ e < o + MaxTrace
                         /\ \A d \in o .. e - 1 : memory[f][d] = "go"}
     |-> memory[f][e]]

\* Fault: only the chunk a trace starts in is marked.
CodeChunksFirst(f, o, code) == {<<f, Chunk(o)>>}

\* The chunks set_smc marks: from the trace's start to the byte behind its
\* end, which may be the first of the next page.
CodeChunks(f, o, code) ==
  {<<f, Chunk(e)>> : e \in DOMAIN code}
    \cup {IF e + 1 \in Offset THEN <<f, Chunk(e + 1)>> ELSE <<f + 1, 0>> :
            e \in {e \in DOMAIN code : e + 1 \notin DOMAIN code}}

\* Fault: the page behind the last one is marked as well.
ExistingUnchecked(chunks) == chunks

Existing(chunks) == {c \in chunks : c[1] \in Frame}

HasCode(f) == \E c \in 0 .. LastChunk : <<f, c>> \in marked

-----------------------------------------------------------------------------
(* Translations.                                                           *)

\* Fault: a translation made while the page holds code is not tagged.
WalkUntagged(l) == [frame |-> map[l], tagged |-> FALSE]

\* cpu_mmu_translate: the write tag is set when the page holds code.
Walk(l) == [frame |-> map[l], tagged |-> HasCode(map[l])]

\* The kept translations after l's is used: a miss walks the page tables, and
\* drops all the others first when the list of translations is full.
Translated(l, full) ==
  IF tlb[l] # None THEN tlb
  ELSE [k \in Lin |-> IF k = l THEN Walk(l) ELSE IF full THEN None ELSE tlb[k]]

\* The list may be full when a translation is added.
Fullness(l) == IF tlb[l] = None THEN BOOLEAN ELSE {FALSE}

-----------------------------------------------------------------------------
(* Fetching.                                                               *)

\* Traces that were thrown away take room until the cache is flushed, so it may
\* be full with fewer than these.
HasRoom == Cardinality({s \in Slot : traces[s] # None}) < Room

\* cpu_get_trace.  The page is looked up only when the fetch left the last one.
Fetch(full, flush) ==
  LET t     == IF here # None THEN tlb ELSE Translated(pc.lin, full)
      f     == IF here # None THEN here ELSE t[pc.lin].frame
      slot  == <<Way(f), pc.offset>>
      hit   == traces[slot] # None /\ traces[slot].frame = f
      code  == IF hit THEN traces[slot].code ELSE Decoded(f, pc.offset)
      trace == [frame |-> f, code |-> code]
      old   == IF flush THEN [s \in Slot |-> None] ELSE traces
  IN /\ run = None
     /\ run' = [slot |-> slot, trace |-> trace]
     /\ here' = f
     /\ IF hit THEN traces' = traces /\ marked' = marked /\ tlb' = t
        ELSE /\ flush \/ HasRoom
             /\ traces' = [old EXCEPT ![slot] = trace]
             /\ marked' = marked \cup Existing(CodeChunks(f, pc.offset, code))
             /\ tlb' = IF t[pc.lin] = None THEN t
                       ELSE [t EXCEPT ![pc.lin].tagged = TRUE]
     /\ UNCHANGED <<memory, map, pc>>

-----------------------------------------------------------------------------
(* Stores and transfers.                                                   *)

\* The slots of a page's traces that start at or before a chunk and in one that
\* is marked.
Killed(f, chunk) ==
  {s \in Slot : /\ Chunk(s[2]) <= chunk /\ <<f, Chunk(s[2])>> \in marked
                /\ traces[s] # None /\ traces[s].frame = f}

Without(slots) == [s \in Slot |-> IF s \in slots THEN None ELSE traces[s]]

\* Fault: a store into the running trace does not end it.
MeetsNever(f, o, slots) == FALSE

\* A store that meets the bytes of a trace it throws away, or the byte behind
\* them, ends the run.
Meets(f, o, slots) == \E s \in slots : \E e \in DOMAIN traces[s].code : o \in {e, e + 1}

EndOfTrace == IF pc.offset + 1 \in DOMAIN run.trace.code THEN run ELSE None

\* A store to offset o of a linear page: through the kept translation when it
\* is not tagged, else by way of access.c and cpu_smc_invalidate.
Store(l, o, c, full) ==
  LET t     == Translated(l, full)
      f     == t[l].frame
      slow  == t[l].tagged /\ <<f, Chunk(o)>> \in marked
      slots == IF slow THEN Killed(f, Chunk(o)) ELSE {}
      left  == IF slow THEN {m \in marked : m[1] # f \/ m[2] > Chunk(o)}
               ELSE marked
  IN /\ <<f, o, c>> \in Stored
     /\ memory' = [memory EXCEPT ![f][o] = c]
     /\ traces' = Without(slots)
     /\ marked' = left
     /\ tlb' = IF slow /\ \A m \in left : m[1] # f
               THEN [t EXCEPT ![l] = None] ELSE t
     /\ run' = IF Meets(f, o, slots) THEN None ELSE EndOfTrace

\* The places an entry covers.
Places(e) ==
  {p \in Frame \X Offset :
     LET n == (p[1] - e.frame) * PageSize + p[2] - e.offset
     IN  0 <= n /\ n < e.length}

\* The pages an IDE transfer catches: as many as the length makes when rounded
\* up, counted from the first; the last page of an entry that starts within a
\* page may be left out.
DiskCatches(e) == {f \in Frame : e.frame <= f /\ (f - e.frame) * PageSize < e.length}

\* The pages a floppy transfer catches: each it comes to, which the first is not.
FloppyCatches(e) == {p[1] : p \in Places(e)} \ {e.frame}

\* cpu_init_dma for each page: all the traces but those of its last chunk.
CaughtSlots(pages) ==
  UNION {{s \in Killed(f, LastChunk) : Chunk(s[2]) < LastChunk} : f \in pages}

\* A device fills places: each may hold something new.
Fills(places) ==
  \E new \in SUBSET {s \in Stored : <<s[1], s[2]>> \in places} :
    memory' = [f \in Frame |-> [o \in Offset |->
                 IF \E c \in Content : <<f, o, c>> \in new
                 THEN CHOOSE c \in Content : <<f, o, c>> \in new ELSE memory[f][o]]]

-----------------------------------------------------------------------------
(* Executing.                                                              *)

\* The instruction of the running trace that is due falls through or jumps
\* to where the page tables lead after it.
Advance(tables) ==
  /\ run # None
  /\ IF run.trace.code[pc.offset] = "go" /\ pc.offset + 1 \in Offset
     THEN pc' = [pc EXCEPT !.offset = @ + 1]
     ELSE pc' \in [lin : {l \in Lin : tables[l] # None}, offset : Targets]

Stays == here' = IF pc'.lin = pc.lin THEN here ELSE None

Plain ==
  /\ Advance(map) /\ Stays /\ run' = EndOfTrace
  /\ UNCHANGED <<memory, map, traces, marked, tlb>>

\* A load from a page that has no translation yet.
Loading(l, full) ==
  /\ Advance(map) /\ Stays /\ run' = EndOfTrace
  /\ map[l] # None /\ tlb[l] = None
  /\ tlb' = Translated(l, full)
  /\ UNCHANGED <<memory, map, traces, marked>>

Storing(l, o, c, full) ==
  /\ Advance(map) /\ Stays
  /\ map[l] # None
  /\ Store(l, o, c, full)
  /\ UNCHANGED map

\* The guest changes the mapping of a page and invalidates it (op_invlpg); the
\* fetch stays where it is.  The running page does not go away.
Remap(l, f) ==
  /\ map' = [map EXCEPT ![l] = f] /\ map' \in Maps
  /\ l = pc.lin => f # None
  /\ Advance(map') /\ Stays
  /\ tlb' = [tlb EXCEPT ![l] = None]
  /\ run' = EndOfTrace
  /\ UNCHANGED <<memory, traces, marked>>

\* A reload of CR3 drops every translation, the fetch's too, and stops.
ReloadCr3 ==
  /\ Advance(map)
  /\ tlb' = [l \in Lin |-> None] /\ here' = None /\ run' = None
  /\ UNCHANGED <<memory, map, traces, marked>>

\* The guest starts a transfer from an IDE disk, by a table of some entries.
\* Every entry catches a page, which ends the run (INTERNAL_CPU_LOOP_EXIT).
DiskTransfer(entries) ==
  /\ Advance(map) /\ Stays
  /\ Fills(UNION {Places(e) : e \in entries})
  /\ traces' = Without(CaughtSlots(UNION {DiskCatches(e) : e \in entries}))
  /\ run' = None
  /\ UNCHANGED <<map, marked, tlb>>

\* The guest starts a floppy transfer, upwards.
FloppyTransfer(e) ==
  /\ Advance(map) /\ Stays
  /\ Fills(Places(e))
  /\ traces' = Without(CaughtSlots(FloppyCatches(e)))
  /\ run' = IF FloppyCatches(e) = {} THEN EndOfTrace ELSE None
  /\ UNCHANGED <<map, marked, tlb>>

Init ==
  /\ memory \in [Frame -> [Offset -> {"go"}]]
  /\ map \in Maps
  /\ pc \in [lin : {l \in Lin : map[l] # None}, offset : {0}]
  /\ traces = [s \in Slot |-> None]
  /\ marked = {}
  /\ tlb = [l \in Lin |-> None]
  /\ here = None
  /\ run = None

Next ==
  \/ \E full \in Fullness(pc.lin), flush \in BOOLEAN : Fetch(full, flush)
  \/ Plain
  \/ \E l \in Lin, full \in BOOLEAN : Loading(l, full)
  \/ \E l \in Lin : \E full \in Fullness(l) :
       \E o \in {p[2] : p \in Stored}, c \in Content : Storing(l, o, c, full)
  \/ \E l \in Lin, f \in Frame \cup {None} : Remap(l, f)
  \/ ReloadCr3
  \/ \E entries \in SUBSET Entries \ {{}} : DiskTransfer(entries)
  \/ \E e \in Entries : FloppyTransfer(e)

Spec == Init /\ [][Next]_vars

-----------------------------------------------------------------------------
(* Properties.                                                             *)

\* The linear pages whose stores go straight to a page that a kept trace is of.
Blind ==
  {l \in Lin : /\ tlb[l] # None /\ ~tlb[l].tagged
               /\ \E s \in Slot : traces[s] # None /\ traces[s].frame = tlb[l].frame}

\* A translation comes to lead past kept traces only while a page is fetched
\* through another linear page of it: set_smc tags the fetching one alone, and
\* a translation made later is tagged (cpu_set_tlb_entry).
StoresAreSeen ==
  [][\A l \in Blind' \ Blind :
       run' # None /\ l # pc.lin /\ map[l] = run'.trace.frame]_vars

\* The traces that may be executed: those kept and the one that runs.
Executable ==
  ({traces[s] : s \in Slot} \cup (IF run = None THEN {} ELSE {run.trace})) \ {None}

\* The places where one of them is not what memory holds.
Unseen ==
  UNION {{<<t.frame, o>> : o \in {o \in DOMAIN t.code : t.code[o] # memory[t.frame][o]}} :
           t \in Executable}

\* A store has thrown the running trace away.
Modified == run # None /\ traces[run.slot] # run.trace

From == IF here # None THEN here ELSE map[pc.lin]

\* The places that a transfer writes and may miss: the last chunk of each page,
\* on a disk the last page of an entry that does not start with its first, and on
\* a floppy the whole first page.
DiskMisses(e) ==
  {p \in Places(e) : \/ Chunk(p[2]) = LastChunk
                     \/ e.offset # 0 /\ p[1] # e.frame /\ \A q \in Places(e) : q[1] <= p[1]}

FloppyMisses(e) == {p \in Places(e) : Chunk(p[2]) = LastChunk \/ p[1] = e.frame}

DiskMissing(entries) == [places |-> UNION {Places(e) : e \in entries},
                         missed |-> UNION {DiskMisses(e) : e \in entries}]
FloppyMissing(e)     == [places |-> Places(e), missed |-> FloppyMisses(e)]

Transfers == {DiskMissing(entries) : entries \in SUBSET Entries \ {{}}}
               \cup {FloppyMissing(e) : e \in Entries}

Written(p) == memory'[p[1]][p[2]] # memory[p[1]][p[2]]

\* An instruction goes stale only by being written, and then in three ways: by a
\* store through a translation that leads past it; by a second store into its own
\* page of a run whose trace the first has thrown away; by a transfer that does
\* not catch it.
StaleOnlyWhenMissed ==
  [][\A p \in Unseen' :
       \/ p \in Unseen /\ ~Written(p)
       \/ /\ Written(p)
          /\ \A l \in Lin, full \in BOOLEAN, c \in Content :
               Storing(l, p[2], c, full) => l \in Blind \/ (Modified /\ map[l] = here)
          /\ \A entries \in SUBSET Entries \ {{}} :
               DiskTransfer(entries) => p \in DiskMissing(entries).missed
          /\ \A e \in Entries : FloppyTransfer(e) => p \in FloppyMissing(e).missed]_vars

\* Whatever is cached, the guest sees a processor that reads each instruction
\* from memory when it executes it, a store of the instruction before included,
\* but for the places that Interpreter says may be stale.
Fresh == INSTANCE Interpreter WITH
           from <- From, modified <- Modified, blind <- Blind, unseen <- Unseen
ImplementsInterpreter == Fresh!Spec
=============================================================================
