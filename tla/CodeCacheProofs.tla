-------------------------- MODULE CodeCacheProofs --------------------------
(***************************************************************************)
(* Theorems about CodeCache, for any pages, ways, chunks, traces and       *)
(* transfers.                                                              *)
(*                                                                         *)
(* The invariant says what the caches have in common, and nothing of what  *)
(* memory holds: kept traces are marked, translations are the page tables' *)
(* and the trace that runs is of the page the fetch is in.  What goes      *)
(* stale is then followed step by step.                                    *)
(***************************************************************************)
EXTENDS CodeCache, TLAPS

\* The caches have the shape the tables of the code have.
Shapes ==
  /\ TypeOK
  /\ traces \in [Slot -> Trace \cup {None}]
  /\ tlb \in [Lin -> Entry \cup {None}]
  /\ run # None => run \in Run

\* A trace starts at its slot, and goes on as long as its instructions fall through.
Fits(s, code) ==
  /\ s[2] \in DOMAIN code
  /\ \A e \in DOMAIN code : s[2] <= e /\ (e + 1 \in DOMAIN code => code[e] = "go")

\* Every chunk a kept trace has instructions in is marked, so that a store to any
\* of them takes the slow path and finds the trace.
CodeIsMarked ==
  \A s \in Slot : traces[s] # None =>
    /\ Fits(s, traces[s].code)
    /\ \A e \in DOMAIN traces[s].code : <<traces[s].frame, Chunk(e)>> \in marked

\* A kept translation is the page tables', and the page that runs is mapped.
TlbTrue ==
  /\ \A l \in Lin : tlb[l] # None => tlb[l].frame = map[l]
  /\ map[pc.lin] # None

\* The trace that runs is of the page the fetch is in, and has the instruction due.
RunFits ==
  run # None =>
    /\ here = run.trace.frame
    /\ pc.offset \in DOMAIN run.trace.code
    /\ Fits(run.slot, run.trace.code)

Inv == Shapes /\ CodeIsMarked /\ TlbTrue /\ RunFits

\* No kept trace is of the page.
NoTraceOf(f) == \A s \in Slot : traces[s] # None => traces[s].frame # f

\* A list of translations that leads past no traces but those the kept one does.
Translations(t) ==
  /\ t \in [Lin -> Entry \cup {None}]
  /\ \A l \in Lin : t[l] # None =>
       /\ t[l].frame = map[l]
       /\ t[l] = tlb[l] \/ t[l].tagged \/ NoTraceOf(map[l])

-----------------------------------------------------------------------------
(* Chunks, ways and decoding.                                              *)

\* A chunk is a run of offsets.
LEMMA ChunkOrder ==
  ASSUME NEW a \in Nat, NEW b \in Nat, a <= b
  PROVE  Chunk(a) \in Nat /\ Chunk(b) \in Nat /\ Chunk(a) <= Chunk(b)
BY CodeCacheAssumption DEF Chunk

\* The offsets of a page are in its chunks.
LEMMA ChunkRange ==
  ASSUME NEW o \in Offset
  PROVE  Chunk(o) \in 0 .. LastChunk /\ LastChunk \in Nat
<1>1. o \in Nat /\ PageSize - 1 \in Nat /\ o <= PageSize - 1
  BY CodeCacheAssumption DEF Offset
<1>2. Chunk(o) \in Nat /\ Chunk(PageSize - 1) \in Nat /\ Chunk(o) <= Chunk(PageSize - 1)
  BY <1>1, ChunkOrder
<1> QED BY <1>2 DEF LastChunk

\* Every page has a way.
LEMMA WayRange ==
  ASSUME NEW f \in Frame
  PROVE  Way(f) \in 0 .. Ways - 1
BY CodeCacheAssumption DEF Way, Frame

\* What cpu_decode returns: the instructions from the first on, each the one
\* that memory holds, and one behind another only if it falls through.
LEMMA DecodedShape ==
  ASSUME TypeOK, NEW f \in Frame, NEW o \in Offset, NEW w
  PROVE  /\ Decoded(f, o) \in Code
         /\ Fits(<<w, o>>, Decoded(f, o))
         /\ \A e \in DOMAIN Decoded(f, o) : e \in Offset /\ Decoded(f, o)[e] = memory[f][e]
<1>1. PICK D : D = {e \in Offset : /\ o <= e /\ e < o + MaxTrace
                                   /\ \A d \in o .. e - 1 : memory[f][d] = "go"}
  OBVIOUS
<1>2. Decoded(f, o) = [e \in D |-> memory[f][e]]
  BY <1>1 DEF Decoded
<1>3. D \subseteq Offset /\ \A e \in D : o <= e
  BY <1>1
<1>4. \A e \in Offset : memory[f][e] \in Content
  BY DEF TypeOK
<1>5. Decoded(f, o) \in [D -> Content]
  BY <1>2, <1>3, <1>4
<1>6. Decoded(f, o) \in Code
  BY <1>3, <1>5 DEF Code
<1>7. o \in D
  BY <1>1, CodeCacheAssumption DEF Offset
<1>8. \A e \in D : e + 1 \in D => memory[f][e] = "go"
  <2> SUFFICES ASSUME NEW e \in D, e + 1 \in D PROVE memory[f][e] = "go"
    OBVIOUS
  <2>1. \A d \in o .. (e + 1) - 1 : memory[f][d] = "go"
    BY <1>1
  <2>2. e \in o .. (e + 1) - 1
    BY <1>3, CodeCacheAssumption DEF Offset
  <2> QED BY <2>1, <2>2
<1>9. <<w, o>>[2] = o
  OBVIOUS
<1> HIDE <1>1
<1> QED BY <1>2, <1>3, <1>6, <1>7, <1>8, <1>9 DEF Fits

-----------------------------------------------------------------------------
(* Translations.                                                           *)

\* The types of what actions change.
LEMMA Typed ==
  ASSUME Inv
  PROVE  /\ memory \in [Frame -> [Offset -> Content]]
         /\ map \in [Lin -> Frame \cup {None}]
         /\ pc \in [lin : Lin, offset : Offset]
         /\ traces \in [Slot -> Trace \cup {None}]
         /\ tlb \in [Lin -> Entry \cup {None}]
         /\ marked \subseteq Frame \X (0 .. LastChunk)
         /\ here \in Frame \cup {None}
         /\ run # None => run \in Run
         /\ map[pc.lin] \in Frame
         /\ None \notin Frame
BY CodeCacheAssumption DEF Inv, Shapes, TypeOK, TlbTrue, Frame

\* A list of such types is of the right shape.
LEMMA ShapesFrom ==
  ASSUME memory' \in [Frame -> [Offset -> Content]],
         map' \in [Lin -> Frame \cup {None}],
         pc' \in [lin : Lin, offset : Offset],
         traces' \in [Slot -> Trace \cup {None}],
         tlb' \in [Lin -> Entry \cup {None}],
         marked' \subseteq Frame \X (0 .. LastChunk),
         here' \in Frame \cup {None},
         run' # None => run' \in Run
  PROVE  Shapes'
<1>1. \A s \in Slot : traces'[s] # None => traces'[s].frame \in Frame
  BY DEF Trace
<1>2. \A l \in Lin : tlb'[l] = None \/ tlb'[l] \in Entry
  OBVIOUS
<1>3. run' # None => run'.slot \in Slot /\ run'.trace.frame \in Frame
  BY DEF Run, Trace
<1> QED BY <1>1, <1>2, <1>3 DEF Shapes, TypeOK

\* No trace of a page none of whose chunks are marked.
LEMMA NoCodeNoTrace ==
  ASSUME Inv, NEW f, ~HasCode(f)
  PROVE  NoTraceOf(f)
<1> SUFFICES ASSUME NEW s \in Slot, traces[s] # None, traces[s].frame = f
             PROVE  FALSE
  BY DEF NoTraceOf
<1>1. s[2] \in DOMAIN traces[s].code /\ s[2] \in Offset
  BY DEF Inv, CodeIsMarked, Fits, Slot
<1>2. <<f, Chunk(s[2])>> \in marked
  BY <1>1 DEF Inv, CodeIsMarked
<1> QED BY <1>1, <1>2, ChunkRange DEF HasCode

\* The kept translations lead past no more than they do, and cpu_mmu_translate
\* adds one that is tagged if the page has code.
LEMMA TranslatedGood ==
  ASSUME Inv, NEW l \in Lin, map[l] # None, NEW full \in BOOLEAN
  PROVE  /\ Translations(tlb)
         /\ Translations(Translated(l, full))
         /\ Translated(l, full)[l] # None
<1>1. Translations(tlb)
  BY Typed DEF Inv, TlbTrue, Translations
<1>2. CASE tlb[l] # None
  BY <1>1, <1>2 DEF Translated
<1>3. CASE tlb[l] = None
  <2>1. PICK t : t = Translated(l, full)
    OBVIOUS
  <2>2. t = [k \in Lin |-> IF k = l THEN Walk(l) ELSE IF full THEN None ELSE tlb[k]]
    BY <1>3, <2>1 DEF Translated
  <2>3. map[l] \in Frame
    BY Typed
  <2>4. Walk(l) \in Entry /\ Walk(l).frame = map[l] /\ Walk(l).tagged = HasCode(map[l])
    BY <2>3 DEF Walk, Entry, HasCode
  <2>5. Walk(l) # None
    BY <2>4, NoneAssumption
  <2>6. Walk(l).tagged \/ NoTraceOf(map[l])
    BY <2>4, NoCodeNoTrace
  <2>7. t \in [Lin -> Entry \cup {None}] /\ t[l] = Walk(l)
    BY <2>2, <2>4, Typed
  <2>8. \A k \in Lin : k # l /\ t[k] # None => t[k] = tlb[k]
    BY <2>2
  <2>9. Translations(t)
    BY <1>1, <2>4, <2>6, <2>7, <2>8 DEF Translations
  <2> QED BY <1>1, <2>1, <2>5, <2>7, <2>9
<1> QED BY <1>2, <1>3

-----------------------------------------------------------------------------
(* What executing an instruction leaves alone.                             *)

\* An instruction goes to a page that is mapped; if its trace goes on, to the
\* instruction behind it.
LEMMA Advanced ==
  ASSUME Inv, NEW tables \in [Lin -> Frame \cup {None}], Advance(tables),
         tables[pc.lin] # None
  PROVE  /\ run \in Run /\ run # None
         /\ pc' \in [lin : Lin, offset : Offset]
         /\ tables[pc'.lin] # None
         /\ EndOfTrace # None =>
              /\ EndOfTrace = run
              /\ run.trace.code[pc.offset] = "go"
              /\ pc.offset + 1 \in Offset
              /\ pc' = [pc EXCEPT !.offset = @ + 1]
              /\ pc'.lin = pc.lin /\ pc'.offset \in DOMAIN run.trace.code
<1>1. run \in Run /\ run # None /\ pc \in [lin : Lin, offset : Offset]
  BY Typed DEF Advance
<1>2. DOMAIN run.trace.code \subseteq Offset
  BY <1>1 DEF Run, Trace, Code
<1>3. Fits(run.slot, run.trace.code) /\ pc.offset \in DOMAIN run.trace.code
  BY <1>1 DEF Inv, RunFits
<1>4. CASE run.trace.code[pc.offset] = "go" /\ pc.offset + 1 \in Offset
  <2>1. pc' = [pc EXCEPT !.offset = @ + 1]
    BY <1>4 DEF Advance
  <2>2. pc' \in [lin : Lin, offset : Offset] /\ pc'.lin = pc.lin /\ pc'.offset = pc.offset + 1
    BY <1>1, <1>4, <2>1
  <2> QED BY <1>1, <1>4, <2>1, <2>2 DEF EndOfTrace
<1>5. CASE ~(run.trace.code[pc.offset] = "go" /\ pc.offset + 1 \in Offset)
  <2>1. pc' \in [lin : {l \in Lin : tables[l] # None}, offset : Targets]
    BY <1>5 DEF Advance
  <2>2. pc' \in [lin : Lin, offset : Offset] /\ tables[pc'.lin] # None
    BY <2>1, CodeCacheAssumption DEF Offset
  <2>3. pc.offset + 1 \notin DOMAIN run.trace.code
    BY <1>2, <1>3, <1>5 DEF Fits
  <2> QED BY <1>1, <2>2, <2>3 DEF EndOfTrace
<1> QED BY <1>4, <1>5

\* The trace that goes on running still fits.
LEMMA RunStaysFit ==
  ASSUME Inv, NEW tables \in [Lin -> Frame \cup {None}], Advance(tables),
         tables[pc.lin] # None, Stays, run' = None \/ run' = EndOfTrace
  PROVE  /\ RunFits' /\ (run' # None => run' \in Run)
         /\ here' \in Frame \cup {None}
<1>1. /\ here \in Frame \cup {None}
      /\ here' \in {here, None}
  BY Typed DEF Stays
<1>2. CASE run' = None
  BY <1>1, <1>2 DEF RunFits
<1>3. CASE run' # None
  <2>1. /\ run' = run /\ run \in Run
        /\ pc'.lin = pc.lin /\ pc'.offset \in DOMAIN run.trace.code
    BY <1>3, Advanced
  <2>2. here' = here
    BY <2>1 DEF Stays
  <2> QED BY <1>1, <1>3, <2>1, <2>2 DEF Inv, RunFits
<1> QED BY <1>2, <1>3

\* Traces are only thrown away.
LEMMA WithoutShape ==
  ASSUME Inv, NEW slots
  PROVE  /\ Without(slots) \in [Slot -> Trace \cup {None}]
         /\ \A s \in Slot : Without(slots)[s] # None => s \notin slots /\ Without(slots)[s] = traces[s]
BY Typed DEF Without

\* Executing keeps the invariant, when what is kept stays marked and true.
LEMMA ExecutingKeepsInv ==
  ASSUME Inv, NEW tables \in [Lin -> Frame \cup {None}], Advance(tables),
         tables[pc.lin] # None, map' = tables, Stays, run' = None \/ run' = EndOfTrace,
         memory' \in [Frame -> [Offset -> Content]],
         traces' \in [Slot -> Trace \cup {None}], CodeIsMarked', marked' \subseteq marked,
         tlb' \in [Lin -> Entry \cup {None}],
         \A l \in Lin : tlb'[l] # None => tlb'[l].frame = tables[l]
  PROVE  Inv'
<1>1. /\ RunFits' /\ (run' # None => run' \in Run) /\ here' \in Frame \cup {None}
  BY RunStaysFit
<1>2. pc' \in [lin : Lin, offset : Offset] /\ tables[pc'.lin] # None
  BY Advanced
<1>3. marked' \subseteq Frame \X (0 .. LastChunk)
  BY Typed
<1>4. Shapes'
  BY <1>1, <1>2, <1>3, ShapesFrom
<1>5. TlbTrue'
  BY <1>2 DEF TlbTrue
<1> QED BY <1>1, <1>4, <1>5 DEF Inv

\* With the same marks, what is kept of the traces stays marked.
LEMMA StillMarked ==
  ASSUME Inv, NEW slots, traces' = Without(slots), marked' = marked
  PROVE  CodeIsMarked'
<1> SUFFICES ASSUME NEW s \in Slot, traces'[s] # None
             PROVE  /\ Fits(s, traces'[s].code)
                    /\ \A e \in DOMAIN traces'[s].code : <<traces'[s].frame, Chunk(e)>> \in marked'
  BY DEF CodeIsMarked
<1>1. traces'[s] = traces[s]
  BY WithoutShape
<1> QED BY <1>1 DEF Inv, CodeIsMarked

\* Nothing is thrown away when there are no slots to clear.
LEMMA WithoutNothing ==
  ASSUME Inv
  PROVE  Without({}) = traces
BY Typed DEF Without

-----------------------------------------------------------------------------
(* The actions keep the invariant.                                         *)

\* Fetching marks the code it keeps and tags the translation it used.
LEMMA FetchKeepsInv ==
  ASSUME Inv, NEW full \in Fullness(pc.lin), NEW flush \in BOOLEAN, Fetch(full, flush)
  PROVE  /\ Inv'
         /\ From' = From /\ run' # None /\ run'.trace.frame = From /\ ~Modified'
         /\ \A l \in Blind' : l \in Blind \/ (l # pc.lin /\ map[l] = From)
         /\ Executable' \subseteq Executable \cup {run'.trace}
         /\ \A o \in DOMAIN run'.trace.code :
              run'.trace \in Executable \/ run'.trace.code[o] = memory[From][o]
<1> DEFINE t     == IF here # None THEN tlb ELSE Translated(pc.lin, full)
           f     == IF here # None THEN here ELSE t[pc.lin].frame
           slot  == <<Way(f), pc.offset>>
           hit   == traces[slot] # None /\ traces[slot].frame = f
           code  == IF hit THEN traces[slot].code ELSE Decoded(f, pc.offset)
           trace == [frame |-> f, code |-> code]
           old   == IF flush THEN [s \in Slot |-> None] ELSE traces
<1>1. /\ run = None /\ run' = [slot |-> slot, trace |-> trace] /\ here' = f
      /\ IF hit THEN traces' = traces /\ marked' = marked /\ tlb' = t
         ELSE /\ traces' = [old EXCEPT ![slot] = trace]
              /\ marked' = marked \cup Existing(CodeChunks(f, pc.offset, code))
              /\ tlb' = IF t[pc.lin] = None THEN t
                        ELSE [t EXCEPT ![pc.lin].tagged = TRUE]
      /\ UNCHANGED <<memory, map, pc>>
  BY DEF Fetch
<1>2. pc.lin \in Lin /\ pc.offset \in Offset /\ full \in BOOLEAN /\ map[pc.lin] # None
  BY Typed DEF Fullness, Inv, TlbTrue
<1>3. Translations(t) /\ (here = None => t[pc.lin] # None)
  BY <1>2, TranslatedGood
<1>4. f = From /\ f \in Frame
  BY <1>2, <1>3, Typed DEF From, Translations
<1>5. slot \in Slot /\ slot[2] = pc.offset
  BY <1>2, <1>4, WayRange DEF Slot
<1>6. code \in Code /\ Fits(slot, code)
  <2>1. CASE hit
    <3>1. traces[slot] \in Trace /\ Fits(slot, traces[slot].code)
      BY <1>5, <2>1, Typed DEF Inv, CodeIsMarked
    <3> QED BY <2>1, <3>1 DEF Trace
  <2>2. CASE ~hit
    <3>1. TypeOK
      BY DEF Inv, Shapes
    <3> QED BY <1>2, <1>4, <2>2, <3>1, DecodedShape
  <2> QED BY <2>1, <2>2
<1>7. trace \in Trace /\ trace.frame = f /\ trace.code = code
  BY <1>4, <1>6 DEF Trace
<1>8. hit => trace = traces[slot]
  BY <1>5, <1>7, Typed DEF Trace
<1>9. run' \in Run /\ run' # None /\ run'.slot = slot /\ run'.trace = trace
  <2>1. run' = [slot |-> slot, trace |-> trace] /\ slot \in Slot /\ trace \in Trace
    BY <1>1, <1>5, <1>7
  <2> HIDE DEF slot, trace
  <2>2. run' \in Run
    BY <2>1 DEF Run
  <2> QED BY <2>1, <2>2, NoneAssumption
<1>10. From' = From
  BY <1>1, <1>4, Typed DEF From
<1>11. DOMAIN code \subseteq Offset /\ pc.offset \in DOMAIN code
  BY <1>5, <1>6 DEF Code, Fits
<1> HIDE DEF t, code
<1>12. CASE hit
  <2>1. /\ traces' = traces /\ marked' = marked /\ tlb' = t
    BY <1>1, <1>12
  <2>2. Shapes'
    <3>1. t \in [Lin -> Entry \cup {None}]
      BY <1>3 DEF Translations
    <3> QED BY <1>1, <1>4, <1>9, <2>1, <3>1, Typed, ShapesFrom
  <2>3. CodeIsMarked' /\ TlbTrue'
    BY <1>1, <1>2, <1>3, <2>1 DEF Inv, CodeIsMarked, TlbTrue, Translations
  <2>4. RunFits'
    BY <1>1, <1>6, <1>7, <1>9, <1>11 DEF RunFits
  <2>5. Blind' \subseteq Blind
    BY <1>3, <2>1 DEF Blind, Translations, NoTraceOf
  <2>6. trace \in Executable
    BY <1>5, <1>7, <1>8, <1>12, NoneAssumption DEF Executable
  <2>7. Executable' \subseteq Executable \cup {trace}
    BY <1>9, <2>1 DEF Executable
  <2>8. ~Modified'
    BY <1>8, <1>9, <1>12, <2>1 DEF Modified
  <2> QED BY <1>4, <1>7, <1>9, <1>10, <2>2, <2>3, <2>4, <2>5, <2>6, <2>7, <2>8 DEF Inv
<1>13. CASE ~hit
  <2>1. /\ traces' = [old EXCEPT ![slot] = trace]
        /\ marked' = marked \cup Existing(CodeChunks(f, pc.offset, code))
        /\ tlb' = IF t[pc.lin] = None THEN t ELSE [t EXCEPT ![pc.lin].tagged = TRUE]
    BY <1>1, <1>13
  <2>2. /\ traces' \in [Slot -> Trace \cup {None}] /\ traces'[slot] = trace
        /\ \A s \in Slot : s # slot => traces'[s] \in {traces[s], None}
    <3>1. old \in [Slot -> Trace \cup {None}]
      BY Typed
    <3>2. \A s \in Slot : old[s] \in {traces[s], None}
      OBVIOUS
    <3> HIDE DEF old, slot, trace
    <3> QED BY <1>5, <1>7, <2>1, <3>1, <3>2
  <2>3. \A e \in DOMAIN code : <<f, Chunk(e)>> \in marked'
    BY <1>4, <2>1 DEF CodeChunks, Existing
  <2>4. marked' \subseteq Frame \X (0 .. LastChunk)
    <3>1. ASSUME NEW c \in Existing(CodeChunks(f, pc.offset, code))
          PROVE  c \in Frame \X (0 .. LastChunk)
      <4>1. 0 \in 0 .. LastChunk
        BY <1>2, ChunkRange
      <4>2. c[1] \in Frame /\ c \in CodeChunks(f, pc.offset, code)
        BY <3>1 DEF Existing
      <4>3. \A e \in DOMAIN code : Chunk(e) \in 0 .. LastChunk
        BY <1>11, ChunkRange
      <4>4. \A e \in DOMAIN code : e + 1 \in Offset => Chunk(e + 1) \in 0 .. LastChunk
        BY ChunkRange
      <4>5. c[2] \in 0 .. LastChunk /\ c = <<c[1], c[2]>>
        BY <4>1, <4>2, <4>3, <4>4 DEF CodeChunks
      <4> QED BY <4>2, <4>5
    <3> QED BY <2>1, <3>1, Typed
  <2>5. /\ tlb' \in [Lin -> Entry \cup {None}]
        /\ \A l \in Lin : tlb'[l] # None =>
             /\ t[l] # None /\ tlb'[l].frame = map[l]
             /\ l # pc.lin => tlb'[l] = t[l]
             /\ l = pc.lin => tlb'[l].tagged
    <3>1. t \in [Lin -> Entry \cup {None}] /\ \A l \in Lin : t[l] # None => t[l].frame = map[l]
      BY <1>3 DEF Translations
    <3>2. CASE t[pc.lin] = None
      BY <2>1, <3>1, <3>2
    <3>3. CASE t[pc.lin] # None
      <4>1. tlb' = [t EXCEPT ![pc.lin].tagged = TRUE] /\ t[pc.lin] \in Entry
        BY <1>2, <2>1, <3>1, <3>3
      <4>2. tlb'[pc.lin] = [t[pc.lin] EXCEPT !.tagged = TRUE] /\ \A l \in Lin : l # pc.lin => tlb'[l] = t[l]
        BY <1>2, <3>1, <4>1
      <4>3. tlb'[pc.lin] \in Entry /\ tlb'[pc.lin].tagged /\ tlb'[pc.lin].frame = t[pc.lin].frame
        <5>1. ASSUME NEW e \in Entry
              PROVE  LET tagged == [e EXCEPT !.tagged = TRUE]
                     IN  tagged \in Entry /\ tagged.tagged /\ tagged.frame = e.frame
          BY DEF Entry
        <5> QED BY <4>1, <4>2, <5>1
      <4>4. tlb' \in [Lin -> Entry \cup {None}]
        BY <1>2, <3>1, <4>1, <4>3
      <4> QED BY <1>2, <3>1, <3>3, <4>2, <4>3, <4>4
    <3> QED BY <3>2, <3>3
  <2>6. Shapes'
    BY <1>1, <1>4, <1>9, <2>2, <2>4, <2>5, Typed, ShapesFrom
  <2>7. CodeIsMarked'
    <3> SUFFICES ASSUME NEW s \in Slot, traces'[s] # None
                 PROVE  /\ Fits(s, traces'[s].code)
                        /\ \A e \in DOMAIN traces'[s].code :
                             <<traces'[s].frame, Chunk(e)>> \in marked'
      BY DEF CodeIsMarked
    <3>1. CASE s = slot
      BY <1>6, <1>7, <2>2, <2>3, <3>1
    <3>2. CASE s # slot
      <4>1. traces'[s] = traces[s] /\ marked \subseteq marked'
        BY <2>1, <2>2, <3>2
      <4> QED BY <4>1 DEF Inv, CodeIsMarked
    <3> QED BY <3>1, <3>2
  <2>8. TlbTrue' /\ RunFits'
    BY <1>1, <1>2, <1>6, <1>7, <1>9, <1>11, <2>5 DEF TlbTrue, RunFits
  <2>9. \A l \in Blind' : l \in Blind \/ (l # pc.lin /\ map[l] = From)
    <3> SUFFICES ASSUME NEW l \in Blind'
                 PROVE  l \in Blind \/ (l # pc.lin /\ map[l] = From)
      OBVIOUS
    <3>1. PICK s \in Slot : /\ l \in Lin /\ tlb'[l] # None /\ ~tlb'[l].tagged
                            /\ traces'[s] # None /\ traces'[s].frame = tlb'[l].frame
      BY DEF Blind
    <3>2. l # pc.lin /\ tlb'[l] = t[l] /\ t[l] # None /\ tlb'[l].frame = map[l]
      BY <2>5, <3>1
    <3>3. CASE s = slot
      BY <1>4, <1>7, <2>2, <3>1, <3>2, <3>3
    <3>4. CASE s # slot
      <4>1. traces[s] # None /\ traces[s].frame = map[l]
        BY <2>2, <3>1, <3>2, <3>4
      <4>2. t[l] = tlb[l]
        BY <1>3, <3>1, <3>2, <4>1 DEF Translations, NoTraceOf
      <4> QED BY <3>1, <3>2, <4>1, <4>2 DEF Blind
    <3> QED BY <3>3, <3>4
  <2>10. Executable' \subseteq Executable \cup {trace}
    BY <1>9, <2>2 DEF Executable
  <2>11. \A o \in DOMAIN code : code[o] = memory[From][o]
    <3>1. TypeOK /\ code = Decoded(f, pc.offset)
      BY <1>13 DEF Inv, Shapes, code
    <3> QED BY <1>2, <1>4, <3>1, DecodedShape
  <2>12. ~Modified'
    BY <1>9, <2>2 DEF Modified
  <2> QED BY <1>4, <1>7, <1>9, <1>10, <2>6, <2>7, <2>8, <2>9, <2>10, <2>11, <2>12 DEF Inv
<1> QED BY <1>12, <1>13

\* A kept trace that has the place is found through a translation of its page,
\* unless that is blind.
LEMMA TraceIsFound ==
  ASSUME Inv, NEW t, Translations(t), NEW l \in Lin, l \notin Blind, t[l] # None,
         NEW s \in Slot, traces[s] # None, traces[s].frame = map[l],
         NEW o \in DOMAIN traces[s].code
  PROVE  /\ t[l].tagged /\ <<map[l], Chunk(o)>> \in marked
         /\ s \in Killed(map[l], Chunk(o))
<1>1. t[l].frame = map[l] /\ t[l].tagged
  BY DEF Translations, NoTraceOf, Blind
<1>2. o \in Offset /\ s[2] \in DOMAIN traces[s].code /\ s[2] \in Offset /\ s[2] <= o
  <2>1. DOMAIN traces[s].code \subseteq Offset
    BY Typed DEF Trace, Code
  <2> QED BY <2>1 DEF Inv, CodeIsMarked, Fits
<1>3. <<map[l], Chunk(o)>> \in marked /\ <<map[l], Chunk(s[2])>> \in marked
  BY <1>2 DEF Inv, CodeIsMarked
<1>4. Chunk(s[2]) <= Chunk(o)
  BY <1>2, ChunkOrder DEF Offset
<1> QED BY <1>1, <1>3, <1>4 DEF Killed

\* A store throws away every kept trace that has the byte, or takes the way of a
\* blind translation; it ends the run if the trace was the running one.
LEMMA StoringKeepsInv ==
  ASSUME Inv, NEW l \in Lin, NEW o \in Offset, NEW c \in Content,
         NEW full \in BOOLEAN, Storing(l, o, c, full)
  PROVE  /\ Inv' /\ map[l] \in Frame
         /\ memory' = [memory EXCEPT ![map[l]][o] = c]
         /\ memory' \in [Frame -> [Offset -> Content]]
         /\ run' = None \/ run' = EndOfTrace
         /\ Blind' \subseteq Blind /\ Executable' \subseteq Executable
         /\ Modified' => Modified \/ map[l] = here
         /\ <<map[l], o>> \in Unseen' => l \in Blind \/ (Modified /\ map[l] = here)
<1> DEFINE t     == Translated(l, full)
           f     == t[l].frame
           slow  == t[l].tagged /\ <<f, Chunk(o)>> \in marked
           slots == IF slow THEN Killed(f, Chunk(o)) ELSE {}
           left  == IF slow THEN {m \in marked : m[1] # f \/ m[2] > Chunk(o)}
                    ELSE marked
<1>1. /\ Advance(map) /\ Stays /\ map' = map
      /\ memory' = [memory EXCEPT ![f][o] = c]
      /\ traces' = Without(slots) /\ marked' = left
      /\ tlb' = IF slow /\ \A m \in left : m[1] # f THEN [t EXCEPT ![l] = None] ELSE t
      /\ run' = IF Meets(f, o, slots) THEN None ELSE EndOfTrace
  BY DEF Storing, Store
<1>2. map[l] # None /\ map[pc.lin] # None
  BY DEF Storing, Inv, TlbTrue
<1>3. Translations(t) /\ t[l] # None
  BY <1>2, TranslatedGood
<1>4. f = map[l] /\ f \in Frame
  BY <1>2, <1>3, Typed DEF Translations
<1> HIDE DEF t
<1>5. memory' \in [Frame -> [Offset -> Content]]
  <2>1. memory \in [Frame -> [Offset -> Content]]
    BY Typed
  <2>2. memory' = [memory EXCEPT ![f] = [memory[f] EXCEPT ![o] = c]]
    BY <1>1
  <2>3. [memory[f] EXCEPT ![o] = c] \in [Offset -> Content]
    BY <1>4, <2>1
  <2> QED BY <1>4, <2>1, <2>2, <2>3
<1>6. /\ tlb' \in [Lin -> Entry \cup {None}]
      /\ \A k \in Lin : tlb'[k] # None => tlb'[k] = t[k] /\ tlb'[k].frame = map[k]
  BY <1>1, <1>3 DEF Translations
<1>7. \A s \in Slot : traces'[s] # None => s \notin slots /\ traces'[s] = traces[s]
  BY <1>1, WithoutShape
<1>8. CodeIsMarked'
  <2> SUFFICES ASSUME NEW s \in Slot, traces'[s] # None
               PROVE  /\ Fits(s, traces'[s].code)
                      /\ \A e \in DOMAIN traces'[s].code :
                           <<traces'[s].frame, Chunk(e)>> \in marked'
    BY DEF CodeIsMarked
  <2>1. s \notin slots /\ traces'[s] = traces[s] /\ Fits(s, traces[s].code)
    BY <1>7 DEF Inv, CodeIsMarked
  <2>2. \A e \in DOMAIN traces[s].code : <<traces[s].frame, Chunk(e)>> \in marked
    BY <2>1 DEF Inv, CodeIsMarked
  <2>3. CASE ~slow
    BY <1>1, <2>1, <2>2, <2>3
  <2>4. CASE slow /\ traces[s].frame # f
    BY <1>1, <2>1, <2>2, <2>4
  <2>5. CASE slow /\ traces[s].frame = f
    <3>1. s[2] \in DOMAIN traces[s].code
      BY <2>1 DEF Fits
    <3>2. ~(Chunk(s[2]) <= Chunk(o))
      BY <2>1, <2>2, <2>5, <3>1 DEF Killed
    <3> SUFFICES ASSUME NEW e \in DOMAIN traces[s].code
                 PROVE  <<f, Chunk(e)>> \in left
      BY <1>1, <2>1, <2>5
    <3>3. s[2] <= e /\ e \in Nat /\ s[2] \in Nat /\ o \in Nat
      BY <2>1, Typed DEF Fits, Trace, Code, Offset, Slot
    <3>4. Chunk(s[2]) <= Chunk(e) /\ Chunk(s[2]) \in Nat /\ Chunk(e) \in Nat /\ Chunk(o) \in Nat
      BY <3>3, ChunkOrder
    <3>5. Chunk(e) > Chunk(o)
      BY <3>2, <3>4
    <3> QED BY <2>2, <2>5, <3>5
  <2> QED BY <2>3, <2>4, <2>5
<1>9. run' = None \/ run' = EndOfTrace
  BY <1>1
<1>10. Inv'
  <2>1. traces' \in [Slot -> Trace \cup {None}] /\ marked' \subseteq marked
    BY <1>1, WithoutShape
  <2>2. map \in [Lin -> Frame \cup {None}]
    BY Typed
  <2> QED BY <1>1, <1>2, <1>5, <1>6, <1>8, <1>9, <2>1, <2>2, ExecutingKeepsInv
<1>11. Blind' \subseteq Blind
  BY <1>3, <1>6, <1>7 DEF Blind, Translations, NoTraceOf
<1>12. Executable' \subseteq Executable
  <2>1. run' # None => run' = run /\ run # None
    BY <1>1, <1>2, Typed, Advanced
  <2> QED BY <1>7, <2>1 DEF Executable
<1>13. run' # None => run' = run /\ run # None /\ here = run.trace.frame
  BY <1>1, <1>2, Typed, Advanced DEF Inv, RunFits
<1>14. run # None => run.slot \in Slot /\ run.trace # None
  BY Typed, NoneAssumption DEF Run
<1>15. Modified' => Modified \/ map[l] = here
  <2> SUFFICES ASSUME Modified', ~Modified PROVE map[l] = here
    OBVIOUS
  <2>1. run' = run /\ run # None /\ traces[run.slot] = run.trace /\ here = run.trace.frame
    BY <1>13 DEF Modified
  <2>2. traces'[run.slot] # traces[run.slot]
    BY <2>1 DEF Modified
  <2>3. run.slot \in slots
    BY <1>1, <1>14, <2>1, <2>2 DEF Without
  <2> QED BY <1>4, <2>1, <2>3 DEF Killed
<1>16. ASSUME <<map[l], o>> \in Unseen', l \notin Blind
       PROVE  Modified /\ map[l] = here
  <2>1. PICK x \in Executable' : x.frame = map[l] /\ o \in DOMAIN x.code
    BY <1>16 DEF Unseen
  <2>2. ASSUME NEW s \in Slot, traces[s] = x, x # None PROVE s \in slots
    BY <1>3, <1>4, <1>16, <2>1, <2>2, TraceIsFound
  <2>3. \A s \in Slot : traces'[s] # x \/ x = None
    BY <1>7, <2>2
  <2>4. x = run'.trace /\ run' # None
    BY <2>1, <2>3 DEF Executable
  <2>5. run' = run /\ run # None /\ here = map[l] /\ ~Meets(f, o, slots)
    BY <1>1, <1>13, <2>1, <2>4
  <2>6. traces[run.slot] # x
    BY <1>14, <2>1, <2>2, <2>4, <2>5 DEF Meets
  <2> QED BY <2>4, <2>5, <2>6 DEF Modified
<1> QED BY <1>1, <1>4, <1>5, <1>9, <1>10, <1>11, <1>12, <1>15, <1>16

\* Leaving traces alone, a step executes none that it did not and no more blindly.
LEMMA LeavesTraces ==
  ASSUME Inv, Inv', run' = None \/ run' = EndOfTrace, map[pc.lin] # None,
         run # None, traces' = traces, NEW t, Translations(t),
         \A l \in Lin : tlb'[l] # None => tlb'[l] = t[l]
  PROVE  Blind' \subseteq Blind /\ Executable' \subseteq Executable /\ (Modified' => Modified)
<1>1. Blind' \subseteq Blind
  BY DEF Blind, Translations, NoTraceOf
<1>2. run' # None => run' = run
  BY DEF EndOfTrace
<1> QED BY <1>1, <1>2 DEF Executable, Modified

LEMMA PlainKeepsInv ==
  ASSUME Inv, Plain
  PROVE  /\ Inv' /\ (run' = None \/ run' = EndOfTrace)
         /\ Blind' \subseteq Blind /\ Executable' \subseteq Executable /\ (Modified' => Modified)
<1>1. /\ Advance(map) /\ Stays /\ run' = EndOfTrace /\ run # None
      /\ UNCHANGED <<memory, map, traces, marked, tlb>>
  BY DEF Plain, Advance
<1>2. Inv'
  <2>1. CodeIsMarked' /\ map[pc.lin] # None /\ \A l \in Lin : tlb'[l] # None => tlb'[l].frame = map[l]
    BY <1>1 DEF Inv, CodeIsMarked, TlbTrue
  <2> QED BY <1>1, <2>1, Typed, ExecutingKeepsInv
<1>3. map[pc.lin] # None /\ Translations(tlb)
  BY Typed DEF Inv, TlbTrue, Translations
<1> QED BY <1>1, <1>2, <1>3, LeavesTraces

LEMMA LoadingKeepsInv ==
  ASSUME Inv, NEW l \in Lin, NEW full \in BOOLEAN, Loading(l, full)
  PROVE  /\ Inv' /\ (run' = None \/ run' = EndOfTrace)
         /\ Blind' \subseteq Blind /\ Executable' \subseteq Executable /\ (Modified' => Modified)
<1>1. /\ Advance(map) /\ Stays /\ run' = EndOfTrace /\ run # None /\ map[l] # None
      /\ tlb' = Translated(l, full)
      /\ UNCHANGED <<memory, map, traces, marked>>
  BY DEF Loading, Advance
<1>2. Translations(tlb') /\ map[pc.lin] # None
  BY <1>1, TranslatedGood DEF Inv, TlbTrue
<1>3. Inv'
  <2>1. CodeIsMarked'
    BY <1>1 DEF Inv, CodeIsMarked
  <2>2. tlb' \in [Lin -> Entry \cup {None}] /\ \A k \in Lin : tlb'[k] # None => tlb'[k].frame = map[k]
    BY <1>2 DEF Translations
  <2> QED BY <1>1, <1>2, <2>1, <2>2, Typed, ExecutingKeepsInv
<1> QED BY <1>1, <1>2, <1>3, LeavesTraces

\* A mapping that changes is invalidated, so that its page is not blind.
LEMMA RemapKeepsInv ==
  ASSUME Inv, NEW l \in Lin, NEW f \in Frame \cup {None}, Remap(l, f)
  PROVE  /\ Inv' /\ (run' = None \/ run' = EndOfTrace)
         /\ map' = [map EXCEPT ![l] = f] /\ map'[pc.lin] # None
         /\ map' \in [Lin -> Frame \cup {None}]
         /\ Blind' \subseteq Blind \ {l} /\ Executable' \subseteq Executable
         /\ Modified' => Modified
<1>1. /\ map' = [map EXCEPT ![l] = f] /\ map' \in Maps
      /\ l = pc.lin => f # None
      /\ Advance(map') /\ Stays /\ tlb' = [tlb EXCEPT ![l] = None]
      /\ run' = EndOfTrace /\ run # None
      /\ UNCHANGED <<memory, traces, marked>>
  BY DEF Remap, Advance
<1>2. /\ map \in [Lin -> Frame \cup {None}] /\ map[pc.lin] # None
      /\ tlb \in [Lin -> Entry \cup {None}] /\ pc.lin \in Lin
  BY Typed DEF Inv, TlbTrue
<1>3. map' \in [Lin -> Frame \cup {None}] /\ map'[pc.lin] # None
  BY <1>1, <1>2
<1>4. /\ tlb' \in [Lin -> Entry \cup {None}]
      /\ \A k \in Lin : tlb'[k] # None => k # l /\ tlb'[k] = tlb[k] /\ tlb'[k].frame = map'[k]
  BY <1>1, <1>2 DEF Inv, TlbTrue
<1>5. Inv'
  <2>1. CodeIsMarked'
    BY <1>1 DEF Inv, CodeIsMarked
  <2>2. /\ memory' \in [Frame -> [Offset -> Content]] /\ traces' \in [Slot -> Trace \cup {None}]
        /\ marked' \subseteq marked
    BY <1>1, Typed
  <2>3. PICK tables : tables = map'
    OBVIOUS
  <2> QED BY <1>1, <1>3, <1>4, <2>1, <2>2, <2>3, ExecutingKeepsInv
<1>6. Translations(tlb)
  BY <1>2 DEF Inv, TlbTrue, Translations
<1>7. Blind' \subseteq Blind /\ Executable' \subseteq Executable /\ (Modified' => Modified)
  BY <1>1, <1>2, <1>4, <1>5, <1>6, LeavesTraces
<1>8. l \notin Blind'
  BY <1>4 DEF Blind
<1> QED BY <1>1, <1>3, <1>5, <1>7, <1>8

LEMMA ReloadCr3KeepsInv ==
  ASSUME Inv, ReloadCr3
  PROVE  /\ Inv' /\ Blind' = {} /\ Executable' \subseteq Executable /\ ~Modified'
         /\ From' = map[pc'.lin]
<1>1. /\ Advance(map) /\ tlb' = [l \in Lin |-> None] /\ here' = None /\ run' = None
      /\ UNCHANGED <<memory, map, traces, marked>>
  BY DEF ReloadCr3
<1>2. pc' \in [lin : Lin, offset : Offset] /\ map[pc'.lin] # None
  BY <1>1, Typed, Advanced DEF Inv, TlbTrue
<1>3. Shapes'
  BY <1>1, <1>2, Typed, ShapesFrom
<1>4. CodeIsMarked' /\ TlbTrue' /\ RunFits'
  BY <1>1, <1>2 DEF Inv, CodeIsMarked, TlbTrue, RunFits
<1>5. Blind' = {} /\ Executable' \subseteq Executable
  BY <1>1 DEF Blind, Executable
<1> QED BY <1>1, <1>3, <1>4, <1>5 DEF Inv, Modified, From

-----------------------------------------------------------------------------
(* Transfers.                                                              *)

\* A device writes the places it fills and no others.
LEMMA FillsPlaces ==
  ASSUME Inv, NEW places, Fills(places)
  PROVE  /\ memory' \in [Frame -> [Offset -> Content]]
         /\ \A f \in Frame, o \in Offset :
              <<f, o>> \notin places => memory'[f][o] = memory[f][o]
<1>1. PICK new \in SUBSET {s \in Stored : <<s[1], s[2]>> \in places} :
        memory' = [f \in Frame |-> [o \in Offset |->
                     IF \E c \in Content : <<f, o, c>> \in new
                     THEN CHOOSE c \in Content : <<f, o, c>> \in new ELSE memory[f][o]]]
  BY DEF Fills
<1>2. memory \in [Frame -> [Offset -> Content]]
  BY Typed
<1>3. ASSUME NEW f \in Frame, NEW o \in Offset
      PROVE  /\ memory'[f][o] \in Content
             /\ <<f, o>> \notin places => memory'[f][o] = memory[f][o]
  <2>1. memory'[f][o] = IF \E c \in Content : <<f, o, c>> \in new
                        THEN CHOOSE c \in Content : <<f, o, c>> \in new ELSE memory[f][o]
    BY <1>1
  <2>2. CASE \E c \in Content : <<f, o, c>> \in new
    <3>1. memory'[f][o] \in Content /\ <<f, o, memory'[f][o]>> \in new
      BY <2>1, <2>2
    <3> QED BY <1>1, <3>1
  <2>3. CASE ~\E c \in Content : <<f, o, c>> \in new
    BY <1>2, <2>1, <2>3
  <2> QED BY <2>2, <2>3
<1>4. memory' \in [Frame -> [Offset -> Content]]
  BY <1>1, <1>3
<1> QED BY <1>3, <1>4

\* A place that an IDE transfer does not miss is in a page it catches.
LEMMA DiskCatchesPlaces ==
  ASSUME NEW e \in Entries, NEW p \in Places(e), p \notin DiskMisses(e)
  PROVE  Chunk(p[2]) # LastChunk /\ p[1] \in DiskCatches(e)
<1>1. /\ e.frame \in Nat /\ e.offset \in Nat /\ e.offset < PageSize /\ e.length \in Nat
      /\ e.length > 0 /\ PageSize \in Nat \ {0}
  BY CodeCacheAssumption DEF Offset
<1>2. /\ p[1] \in Frame /\ p[1] \in Nat /\ p[2] \in Nat /\ p[2] < PageSize
      /\ 0 <= (p[1] - e.frame) * PageSize + p[2] - e.offset
      /\ (p[1] - e.frame) * PageSize + p[2] - e.offset < e.length
  BY CodeCacheAssumption DEF Places, Frame, Offset
<1>3. Chunk(p[2]) # LastChunk
  BY DEF DiskMisses
<1>4. e.frame <= p[1]
  <2> SUFFICES ASSUME p[1] - e.frame <= -1 PROVE FALSE
    BY <1>1, <1>2
  <2>1. (p[1] - e.frame) * PageSize <= -PageSize
    <3>1. \A d \in Int, n \in Nat : d <= -1 => d * n <= -n
      OBVIOUS
    <3> QED BY <1>1, <1>2, <3>1
  <2> QED BY <1>1, <1>2, <2>1
<1>5. (p[1] - e.frame) * PageSize < e.length
  <2>1. CASE e.offset = 0 \/ p[1] = e.frame
    BY <1>1, <1>2, <2>1
  <2>2. CASE ~(e.offset = 0 \/ p[1] = e.frame)
    <3>1. PICK q \in Places(e) : ~(q[1] <= p[1])
      BY <2>2 DEF DiskMisses
    <3>2. /\ q[1] \in Nat /\ q[2] \in Nat
          /\ (q[1] - e.frame) * PageSize + q[2] - e.offset < e.length
      BY CodeCacheAssumption DEF Places, Frame, Offset
    <3>3. (p[1] - e.frame) * PageSize + PageSize <= (q[1] - e.frame) * PageSize
      <4>1. \A a, b \in Int, n \in Nat : a + 1 <= b => a * n + n <= b * n
        OBVIOUS
      <4> QED BY <1>1, <1>2, <3>1, <3>2, <4>1
    <3> QED BY <1>1, <1>2, <3>2, <3>3
  <2> QED BY <2>1, <2>2
<1> QED BY <1>2, <1>3, <1>4, <1>5 DEF DiskCatches

\* The traces of a page that is caught are thrown away, but for the last chunk.
LEMMA CaughtAreGone ==
  ASSUME Inv, NEW pages, traces' = Without(CaughtSlots(pages)),
         NEW s \in Slot, traces'[s] # None, traces'[s].frame \in pages,
         NEW o \in DOMAIN traces'[s].code
  PROVE  Chunk(o) = LastChunk
<1> SUFFICES ASSUME Chunk(o) # LastChunk PROVE FALSE
  OBVIOUS
<1>1. s \notin CaughtSlots(pages) /\ traces'[s] = traces[s]
  BY WithoutShape
<1>2. /\ o \in Offset /\ s[2] \in Offset /\ s[2] <= o
      /\ <<traces[s].frame, Chunk(s[2])>> \in marked
  <2>1. DOMAIN traces[s].code \subseteq Offset
    BY <1>1, Typed DEF Trace, Code
  <2> QED BY <1>1, <2>1 DEF Inv, CodeIsMarked, Fits
<1>3. /\ Chunk(s[2]) <= Chunk(o) /\ Chunk(s[2]) \in Nat
      /\ Chunk(o) \in 0 .. LastChunk /\ LastChunk \in Nat
  BY <1>2, ChunkOrder, ChunkRange DEF Offset
<1>4. Chunk(s[2]) < LastChunk
  BY <1>3
<1>5. s \in Killed(traces[s].frame, LastChunk)
  BY <1>1, <1>2, <1>3, <1>4 DEF Killed
<1> QED BY <1>1, <1>4, <1>5 DEF CaughtSlots

\* A transfer keeps the invariant: it only throws traces away.
LEMMA TransferKeepsInv ==
  ASSUME Inv, NEW places, NEW pages, Advance(map), Stays, Fills(places),
         traces' = Without(CaughtSlots(pages)), run' = None \/ run' = EndOfTrace,
         UNCHANGED <<map, marked, tlb>>
  PROVE  Inv' /\ Blind' \subseteq Blind /\ Executable' \subseteq Executable
<1>1. CodeIsMarked'
  BY StillMarked
<1>2. /\ map[pc.lin] # None /\ map \in [Lin -> Frame \cup {None}]
      /\ tlb' \in [Lin -> Entry \cup {None}] /\ marked' \subseteq marked
      /\ \A l \in Lin : tlb'[l] # None => tlb'[l].frame = map[l]
  BY Typed DEF Inv, TlbTrue
<1>3. Inv'
  BY <1>1, <1>2, FillsPlaces, WithoutShape, ExecutingKeepsInv
<1>4. \A s \in Slot : traces'[s] # None => traces'[s] = traces[s]
  BY WithoutShape
<1>5. Blind' \subseteq Blind
  BY <1>4 DEF Blind
<1>6. run' # None => run' = run /\ run # None
  BY <1>2, Advanced
<1>7. Executable' \subseteq Executable
  BY <1>4, <1>6 DEF Executable
<1> QED BY <1>3, <1>5, <1>7

LEMMA DiskKeepsInv ==
  ASSUME Inv, NEW entries \in SUBSET Entries, DiskTransfer(entries)
  PROVE  /\ Inv' /\ Blind' \subseteq Blind /\ Executable' \subseteq Executable
         /\ run' = None /\ ~Modified'
         /\ \A p \in Unseen' : p \in DiskMissing(entries).places => p \in DiskMissing(entries).missed
<1>1. /\ Advance(map) /\ Stays /\ Fills(UNION {Places(e) : e \in entries})
      /\ traces' = Without(CaughtSlots(UNION {DiskCatches(e) : e \in entries}))
      /\ run' = None /\ UNCHANGED <<map, marked, tlb>>
  BY DEF DiskTransfer
<1>2. Inv' /\ Blind' \subseteq Blind /\ Executable' \subseteq Executable /\ ~Modified'
  BY <1>1, TransferKeepsInv DEF Modified
<1>3. ASSUME NEW p \in Unseen', p \in UNION {Places(e) : e \in entries},
             p \notin UNION {DiskMisses(e) : e \in entries}
      PROVE  FALSE
  <2>1. PICK e \in entries : p \in Places(e) /\ p \notin DiskMisses(e)
    BY <1>3
  <2>2. Chunk(p[2]) # LastChunk /\ p[1] \in DiskCatches(e)
    BY <2>1, DiskCatchesPlaces
  <2>3. PICK x \in Executable' : p[1] = x.frame /\ p[2] \in DOMAIN x.code
    BY <1>3 DEF Unseen
  <2>4. PICK s \in Slot : x = traces'[s] /\ x # None
    BY <1>1, <2>3 DEF Executable
  <2> QED BY <1>1, <2>2, <2>3, <2>4, CaughtAreGone
<1> QED BY <1>1, <1>2, <1>3 DEF DiskMissing

LEMMA FloppyKeepsInv ==
  ASSUME Inv, NEW e \in Entries, FloppyTransfer(e)
  PROVE  /\ Inv' /\ Blind' \subseteq Blind /\ Executable' \subseteq Executable
         /\ (run' = None \/ run' = EndOfTrace) /\ (Modified' => Modified)
         /\ \A p \in Unseen' : p \in FloppyMissing(e).places => p \in FloppyMissing(e).missed
<1>1. /\ Advance(map) /\ Stays /\ Fills(Places(e))
      /\ traces' = Without(CaughtSlots(FloppyCatches(e)))
      /\ run' = IF FloppyCatches(e) = {} THEN EndOfTrace ELSE None
      /\ UNCHANGED <<map, marked, tlb>>
  BY DEF FloppyTransfer
<1>2. Inv' /\ Blind' \subseteq Blind /\ Executable' \subseteq Executable
  BY <1>1, TransferKeepsInv
<1>3. FloppyCatches(e) = {} => traces' = traces
  <2>1. CaughtSlots({}) = {}
    BY DEF CaughtSlots
  <2> QED BY <1>1, <2>1, WithoutNothing
<1>4. Modified' => Modified
  <2>1. run' # None => FloppyCatches(e) = {} /\ run' = run
    BY <1>1 DEF EndOfTrace
  <2> QED BY <1>3, <2>1 DEF Modified
<1>5. ASSUME NEW p \in Unseen', p \in Places(e), p \notin FloppyMisses(e)
      PROVE  FALSE
  <2>1. Chunk(p[2]) # LastChunk /\ p[1] \in FloppyCatches(e)
    BY <1>5 DEF FloppyMisses, FloppyCatches
  <2>2. PICK x \in Executable' : p[1] = x.frame /\ p[2] \in DOMAIN x.code
    BY <1>5 DEF Unseen
  <2>3. PICK s \in Slot : x = traces'[s] /\ x # None
    BY <1>1, <2>1, <2>2 DEF Executable
  <2> QED BY <1>1, <2>1, <2>2, <2>3, CaughtAreGone
<1> QED BY <1>1, <1>2, <1>4, <1>5 DEF FloppyMissing

-----------------------------------------------------------------------------
(* The invariant.                                                          *)

LEMMA InitInv == Init => Inv
<1> SUFFICES ASSUME Init PROVE Inv
  OBVIOUS
<1>1. memory \in [Frame -> [Offset -> Content]]
  BY DEF Init, Content
<1>2. map \in [Lin -> Frame \cup {None}]
  BY CodeCacheAssumption DEF Init, Frame
<1>3. 0 \in Offset
  BY CodeCacheAssumption DEF Offset
<1>4. pc \in [lin : Lin, offset : Offset] /\ map[pc.lin] # None
  BY <1>3 DEF Init
<1>5. Shapes
  BY <1>1, <1>2, <1>4 DEF Init, Shapes, TypeOK
<1>6. CodeIsMarked /\ TlbTrue /\ RunFits
  BY <1>4 DEF Init, CodeIsMarked, TlbTrue, RunFits
<1> QED BY <1>5, <1>6 DEF Inv

LEMMA StepInv == Inv /\ [Next]_vars => Inv'
<1> SUFFICES ASSUME Inv, [Next]_vars PROVE Inv'
  OBVIOUS
<1>1. ASSUME NEW full \in Fullness(pc.lin), NEW flush \in BOOLEAN, Fetch(full, flush)
      PROVE  Inv'
  BY <1>1, FetchKeepsInv
<1>2. CASE Plain
  BY <1>2, PlainKeepsInv
<1>3. ASSUME NEW l \in Lin, NEW full \in BOOLEAN, Loading(l, full) PROVE Inv'
  BY <1>3, LoadingKeepsInv
<1>4. ASSUME NEW l \in Lin, NEW full \in Fullness(l), NEW o \in {p[2] : p \in Stored},
             NEW c \in Content, Storing(l, o, c, full)
      PROVE  Inv'
  <2>1. o \in Offset
    BY CodeCacheAssumption DEF Offset
  <2>2. full \in BOOLEAN
    BY DEF Fullness
  <2> QED BY <1>4, <2>1, <2>2, StoringKeepsInv
<1>5. ASSUME NEW l \in Lin, NEW f \in Frame \cup {None}, Remap(l, f) PROVE Inv'
  BY <1>5, RemapKeepsInv
<1>6. CASE ReloadCr3
  BY <1>6, ReloadCr3KeepsInv
<1>7. ASSUME NEW entries \in SUBSET Entries \ {{}}, DiskTransfer(entries) PROVE Inv'
  BY <1>7, DiskKeepsInv
<1>8. ASSUME NEW e \in Entries, FloppyTransfer(e) PROVE Inv'
  BY <1>8, FloppyKeepsInv
<1>9. CASE UNCHANGED vars
  BY <1>9 DEF vars, Inv, Shapes, TypeOK, CodeIsMarked, TlbTrue, RunFits
<1> QED BY <1>1, <1>2, <1>3, <1>4, <1>5, <1>6, <1>7, <1>8, <1>9 DEF Next

\* The caches stay of their types: every marked chunk and every page kept exists.
THEOREM TypeCorrect == Spec => []TypeOK
<1>1. Inv => TypeOK
  BY DEF Inv, Shapes
<1> QED BY <1>1, InitInv, StepInv, PTL DEF Spec

-----------------------------------------------------------------------------
(* What goes stale, and when.                                              *)

\* Stale places exist.
LEMMA UnseenPlaces ==
  ASSUME Inv'
  PROVE  Unseen' \subseteq Frame \X Offset
<1> SUFFICES ASSUME NEW p \in Unseen' PROVE p \in Frame \X Offset
  OBVIOUS
<1>1. PICK x \in Executable' : \E o \in DOMAIN x.code : p = <<x.frame, o>>
  BY DEF Unseen
<1>2. traces' \in [Slot -> Trace \cup {None}] /\ (run' # None => run' \in Run)
  BY DEF Inv, Shapes
<1>3. x \in Trace
  BY <1>1, <1>2 DEF Executable, Run
<1> QED BY <1>1, <1>3 DEF Trace, Code

\* What was not written is as stale as it was, unless something else may be executed.
LEMMA StaysStale ==
  ASSUME Executable' \subseteq Executable, NEW p \in Unseen', ~Written(p)
  PROVE  p \in Unseen
<1>1. PICK x \in Executable' : \E o \in DOMAIN x.code :
        p = <<x.frame, o>> /\ x.code[o] # memory'[x.frame][o]
  BY DEF Unseen
<1>2. \E o \in DOMAIN x.code : p = <<x.frame, o>> /\ x.code[o] # memory[x.frame][o]
  BY <1>1 DEF Written
<1> QED BY <1>1, <1>2 DEF Unseen

\* Fetching decodes what memory holds.
LEMMA FetchSees ==
  ASSUME Inv, NEW full \in Fullness(pc.lin), NEW flush \in BOOLEAN, Fetch(full, flush)
  PROVE  Unseen' \subseteq Unseen
<1> SUFFICES ASSUME NEW p \in Unseen' PROVE p \in Unseen
  OBVIOUS
<1>1. PICK x \in Executable' : \E o \in DOMAIN x.code :
        p = <<x.frame, o>> /\ x.code[o] # memory'[x.frame][o]
  BY DEF Unseen
<1>2. memory' = memory
  BY DEF Fetch
<1>3. x \in Executable
  BY <1>1, <1>2, FetchKeepsInv
<1> QED BY <1>1, <1>2, <1>3 DEF Unseen

\* Every step but a fetch executes nothing that could not be executed before.
LEMMA UnwrittenStaysSeen ==
  ASSUME Inv, [Next]_vars, NEW p \in Unseen', ~Written(p)
  PROVE  p \in Unseen
<1>1. ASSUME NEW full \in Fullness(pc.lin), NEW flush \in BOOLEAN, Fetch(full, flush)
      PROVE  p \in Unseen
  BY <1>1, FetchSees
<1>2. CASE Plain
  BY <1>2, PlainKeepsInv, StaysStale
<1>3. ASSUME NEW l \in Lin, NEW full \in BOOLEAN, Loading(l, full) PROVE p \in Unseen
  BY <1>3, LoadingKeepsInv, StaysStale
<1>4. ASSUME NEW l \in Lin, NEW full \in Fullness(l), NEW o \in {q[2] : q \in Stored},
             NEW c \in Content, Storing(l, o, c, full)
      PROVE  p \in Unseen
  <2>1. o \in Offset /\ full \in BOOLEAN
    BY CodeCacheAssumption DEF Offset, Fullness
  <2> QED BY <1>4, <2>1, StoringKeepsInv, StaysStale
<1>5. ASSUME NEW l \in Lin, NEW f \in Frame \cup {None}, Remap(l, f) PROVE p \in Unseen
  BY <1>5, RemapKeepsInv, StaysStale
<1>6. CASE ReloadCr3
  BY <1>6, ReloadCr3KeepsInv, StaysStale
<1>7. ASSUME NEW entries \in SUBSET Entries \ {{}}, DiskTransfer(entries) PROVE p \in Unseen
  BY <1>7, DiskKeepsInv, StaysStale
<1>8. ASSUME NEW e \in Entries, FloppyTransfer(e) PROVE p \in Unseen
  BY <1>8, FloppyKeepsInv, StaysStale
<1>9. CASE UNCHANGED vars
  BY <1>9, StaysStale DEF vars, Executable
<1> QED BY <1>1, <1>2, <1>3, <1>4, <1>5, <1>6, <1>7, <1>8, <1>9 DEF Next

\* For any sizes and any guest, an instruction that is kept goes stale only when
\* it is written through a blind translation, by a run that has thrown its own
\* trace away, or at a place that a transfer misses.
THEOREM StaleStaysMissed == Spec => StaleOnlyWhenMissed
<1>1. ASSUME Inv, Inv', [Next]_vars, NEW p \in Unseen'
      PROVE  \/ p \in Unseen /\ ~Written(p)
             \/ /\ Written(p)
                /\ \A l \in Lin, full \in BOOLEAN, c \in Content :
                     Storing(l, p[2], c, full) => l \in Blind \/ (Modified /\ map[l] = here)
                /\ \A entries \in SUBSET Entries \ {{}} :
                     DiskTransfer(entries) => p \in DiskMissing(entries).missed
                /\ \A e \in Entries : FloppyTransfer(e) => p \in FloppyMissing(e).missed
  <2>1. CASE ~Written(p)
    BY <1>1, <2>1, UnwrittenStaysSeen
  <2>2. CASE Written(p)
    <3>1. p[1] \in Frame /\ p[2] \in Offset /\ p = <<p[1], p[2]>>
      BY <1>1, UnseenPlaces
    <3>2. ASSUME NEW l \in Lin, NEW full \in BOOLEAN, NEW c \in Content,
                 Storing(l, p[2], c, full)
          PROVE  l \in Blind \/ (Modified /\ map[l] = here)
      <4>1. PICK o \in Offset : o = p[2] /\ p = <<p[1], o>>
        BY <3>1
      <4>2. Storing(l, o, c, full)
        BY <3>2, <4>1
      <4>3. /\ memory' = [memory EXCEPT ![map[l]][o] = c] /\ map[l] \in Frame
            /\ <<map[l], o>> \in Unseen' => l \in Blind \/ (Modified /\ map[l] = here)
        BY <1>1, <4>2, StoringKeepsInv
      <4>4. p[1] = map[l]
        <5> SUFFICES ASSUME p[1] # map[l] PROVE FALSE
          OBVIOUS
        <5>1. memory'[p[1]] = memory[p[1]]
          BY <1>1, <3>1, <4>3, Typed
        <5> QED BY <2>2, <5>1 DEF Written
      <4> QED BY <1>1, <4>1, <4>3, <4>4
    <3>3. ASSUME NEW entries \in SUBSET Entries \ {{}}, DiskTransfer(entries)
          PROVE  p \in DiskMissing(entries).missed
      <4>1. p \in UNION {Places(e) : e \in entries}
        BY <1>1, <2>2, <3>1, <3>3, FillsPlaces DEF DiskTransfer, Written
      <4> QED BY <1>1, <3>3, <4>1, DiskKeepsInv DEF DiskMissing
    <3>4. ASSUME NEW e \in Entries, FloppyTransfer(e)
          PROVE  p \in FloppyMissing(e).missed
      <4>1. p \in Places(e)
        BY <1>1, <2>2, <3>1, <3>4, FillsPlaces DEF FloppyTransfer, Written
      <4> QED BY <1>1, <3>4, <4>1, FloppyKeepsInv DEF FloppyMissing
    <3> QED BY <2>2, <3>2, <3>3, <3>4
  <2> QED BY <2>1, <2>2
<1>2. Inv /\ Inv' /\ [Next]_vars =>
        [\A p \in Unseen' :
           \/ p \in Unseen /\ ~Written(p)
           \/ /\ Written(p)
              /\ \A l \in Lin, full \in BOOLEAN, c \in Content :
                   Storing(l, p[2], c, full) => l \in Blind \/ (Modified /\ map[l] = here)
              /\ \A entries \in SUBSET Entries \ {{}} :
                   DiskTransfer(entries) => p \in DiskMissing(entries).missed
              /\ \A e \in Entries : FloppyTransfer(e) => p \in FloppyMissing(e).missed]_vars
  BY <1>1
<1> QED BY <1>2, InitInv, StepInv, PTL DEF Spec, StaleOnlyWhenMissed

\* For any sizes and any guest, aliases included, a translation comes to lead past
\* kept traces only when its page is fetched through another linear page.
THEOREM StoresStaySeen == Spec => StoresAreSeen
<1>1. ASSUME Inv, [Next]_vars, NEW l \in Blind' \ Blind
      PROVE  run' # None /\ l # pc.lin /\ map[l] = run'.trace.frame
  <2>1. ASSUME NEW full \in Fullness(pc.lin), NEW flush \in BOOLEAN, Fetch(full, flush)
        PROVE  run' # None /\ l # pc.lin /\ map[l] = run'.trace.frame
    BY <1>1, <2>1, FetchKeepsInv
  <2>2. ASSUME NEW k \in Lin, NEW full \in Fullness(k), NEW o \in {p[2] : p \in Stored},
               NEW c \in Content, Storing(k, o, c, full)
        PROVE  FALSE
    <3>1. o \in Offset /\ full \in BOOLEAN
      BY CodeCacheAssumption DEF Offset, Fullness
    <3> QED BY <1>1, <2>2, <3>1, StoringKeepsInv
  <2>3. CASE Plain \/ ReloadCr3
    BY <1>1, <2>3, PlainKeepsInv, ReloadCr3KeepsInv
  <2>4. ASSUME NEW k \in Lin, NEW full \in BOOLEAN, Loading(k, full) PROVE FALSE
    BY <1>1, <2>4, LoadingKeepsInv
  <2>5. ASSUME NEW k \in Lin, NEW f \in Frame \cup {None}, Remap(k, f) PROVE FALSE
    BY <1>1, <2>5, RemapKeepsInv
  <2>6. ASSUME NEW entries \in SUBSET Entries \ {{}}, DiskTransfer(entries) PROVE FALSE
    BY <1>1, <2>6, DiskKeepsInv
  <2>7. ASSUME NEW e \in Entries, FloppyTransfer(e) PROVE FALSE
    BY <1>1, <2>7, FloppyKeepsInv
  <2>8. CASE UNCHANGED vars
    BY <1>1, <2>8 DEF vars, Blind
  <2> QED BY <1>1, <2>1, <2>2, <2>3, <2>4, <2>5, <2>6, <2>7, <2>8 DEF Next
<1>2. Inv /\ [Next]_vars =>
        [\A l \in Blind' \ Blind : run' # None /\ l # pc.lin /\ map[l] = run'.trace.frame]_vars
  BY <1>1
<1> QED BY <1>2, InitInv, StepInv, PTL DEF Spec, StoresAreSeen

-----------------------------------------------------------------------------
(* The interpreter.                                                        *)

\* The instruction executed is the one memory holds, or one that may be stale.
LEMMA ExecutesOne ==
  ASSUME Inv, NEW tables \in [Lin -> Frame \cup {None}], Advance(tables),
         tables[pc.lin] # None, map' = tables
  PROVE  \E c \in Fresh!Executed : Fresh!Goes(c) /\ (EndOfTrace # None => Fresh!Falls(c))
<1> DEFINE c == run.trace.code[pc.offset]
<1>1. /\ run # None /\ run \in Run /\ here = run.trace.frame /\ here \in Frame
      /\ pc.offset \in DOMAIN run.trace.code
  BY Typed DEF Advance, Inv, RunFits, Run, Trace
<1>2. From = here /\ run.trace \in Executable
  BY <1>1, Typed, NoneAssumption DEF From, Executable, Run
<1>3. c \in Content
  BY <1>1 DEF Run, Trace, Code
<1>4. c = memory[From][pc.offset] \/ <<From, pc.offset>> \in Unseen
  BY <1>1, <1>2 DEF Unseen
<1>5. c \in Fresh!Executed
  BY <1>3, <1>4 DEF Fresh!Executed, Fresh!Content, Content
<1>6. Fresh!Falls(c) <=> c = "go" /\ pc.offset + 1 \in Offset
  BY DEF Fresh!Falls, Fresh!Offset, Offset
<1>7. {l \in Lin : tables[l] # None} = {l \in Lin : map'[l] \in Frame}
  BY Typed
<1>8. Fresh!Goes(c)
  BY <1>1, <1>6, <1>7 DEF Fresh!Goes, Advance
<1>9. EndOfTrace # None => Fresh!Falls(c)
  BY <1>6, Advanced
<1> HIDE DEF c
<1> QED BY <1>5, <1>8, <1>9

\* A step that executes an instruction and does what the interpreter may.
LEMMA ExecuteImplements ==
  ASSUME Inv, NEW tables \in [Lin -> Frame \cup {None}], Advance(tables),
         tables[pc.lin] # None, map' = tables, Stays, run' = None \/ run' = EndOfTrace,
         \/ Fresh!Compute
         \/ \E l \in Lin, o \in Fresh!Offset : Fresh!Store(l, o)
         \/ \E l \in Lin, f \in Frame \cup {None} : Fresh!Remap(l, f)
         \/ \E t \in Transfers : Fresh!Transfer(t)
  PROVE  Fresh!Next
<1>1. PICK c \in Fresh!Executed : Fresh!Goes(c) /\ (EndOfTrace # None => Fresh!Falls(c))
  BY ExecutesOne
<1>2. Modified' => Fresh!Falls(c)
  BY <1>1 DEF Modified
<1>3. here # None /\ From = here
  BY Typed DEF Advance, Inv, RunFits, From, Run, Trace
<1>4. From' = IF pc'.lin = pc.lin THEN From ELSE map'[pc'.lin]
  BY <1>3 DEF Stays, From
<1> QED BY <1>1, <1>2, <1>4 DEF Fresh!Next, Fresh!Execute

\* A store and what a store may do.
LEMMA StoringImplements ==
  ASSUME Inv, Inv', NEW l \in Lin, NEW o \in Offset, NEW c \in Content,
         NEW full \in BOOLEAN, Storing(l, o, c, full)
  PROVE  Fresh!Next
<1>1. /\ map[l] \in Frame /\ memory' = [memory EXCEPT ![map[l]][o] = c]
      /\ memory' \in [Frame -> [Offset -> Content]]
      /\ run' = None \/ run' = EndOfTrace
      /\ Blind' \subseteq Blind /\ Executable' \subseteq Executable
      /\ Modified' => Modified \/ map[l] = here
      /\ <<map[l], o>> \in Unseen' => l \in Blind \/ (Modified /\ map[l] = here)
  BY StoringKeepsInv
<1>2. Advance(map) /\ Stays /\ map' = map /\ run # None
  BY DEF Storing, Advance
<1>3. From = here
  BY <1>2, Typed DEF Inv, RunFits, From, Run, Trace
<1>4. Unseen' \subseteq Frame \X Offset
  BY UnseenPlaces
<1>5. \A f \in Frame, q \in Offset : <<f, q>> \notin {<<map[l], o>>} => memory'[f][q] = memory[f][q]
  <2> SUFFICES ASSUME NEW f \in Frame, NEW q \in Offset, <<f, q>> # <<map[l], o>>
               PROVE  memory'[f][q] = memory[f][q]
    OBVIOUS
  <2>1. memory \in [Frame -> [Offset -> Content]]
    BY Typed
  <2> QED BY <1>1, <2>1
<1>6. ASSUME NEW p \in Unseen', p # <<map[l], o>>
      PROVE  p \in Unseen
  <2>1. p[1] \in Frame /\ p[2] \in Offset /\ p = <<p[1], p[2]>>
    BY <1>4
  <2>2. <<p[1], p[2]>> \notin {<<map[l], o>>}
    BY <1>6, <2>1
  <2>3. ~Written(p)
    BY <1>5, <2>1, <2>2 DEF Written
  <2> QED BY <1>1, <2>3, StaysStale
<1>7. Fresh!Store(l, o)
  BY <1>1, <1>2, <1>3, <1>5, <1>6
  DEF Fresh!Store, Fresh!Writes, Fresh!Offset, Fresh!Content, Offset, Content
<1>8. map \in [Lin -> Frame \cup {None}] /\ map[pc.lin] # None /\ o \in Fresh!Offset
  BY Typed DEF Offset, Fresh!Offset
<1> QED BY <1>1, <1>2, <1>7, <1>8, ExecuteImplements

\* A transfer and what a transfer may do.
LEMMA TransferImplements ==
  ASSUME Inv, Inv', NEW t \in Transfers, Advance(map), Stays, map' = map,
         run' = None \/ run' = EndOfTrace, Fills(t.places),
         Blind' \subseteq Blind, Executable' \subseteq Executable, Modified' => Modified,
         \A p \in Unseen' : p \in t.places => p \in t.missed
  PROVE  Fresh!Next
<1>1. /\ memory' \in [Frame -> [Offset -> Content]]
      /\ \A f \in Frame, o \in Offset : <<f, o>> \notin t.places => memory'[f][o] = memory[f][o]
  BY FillsPlaces
<1>2. Unseen' \subseteq Frame \X Offset
  BY UnseenPlaces
<1>3. ASSUME NEW p \in Unseen', p \notin t.places
      PROVE  p \in Unseen
  <2>1. ~Written(p)
    BY <1>1, <1>2, <1>3 DEF Written
  <2> QED BY <2>1, StaysStale
<1>4. Fresh!Transfer(t)
  BY <1>1, <1>3
  DEF Fresh!Transfer, Fresh!Writes, Fresh!Offset, Fresh!Content, Offset, Content
<1>5. map \in [Lin -> Frame \cup {None}] /\ map[pc.lin] # None
  BY Typed
<1> QED BY <1>4, <1>5, ExecuteImplements

LEMMA InitImplements ==
  ASSUME Init
  PROVE  Fresh!Init
<1>1. Inv
  BY InitInv
<1>2. From = map[pc.lin] /\ ~Modified /\ Blind = {}
  BY DEF Init, From, Modified, Blind
<1>3. Executable = {}
  BY DEF Init, Executable
<1>4. Unseen = {}
  BY <1>3 DEF Unseen
<1>5. /\ memory \in [Frame -> [Offset -> Content]] /\ map \in [Lin -> Frame \cup {None}]
      /\ pc \in [lin : Lin, offset : Offset] /\ map[pc.lin] \in Frame
  BY <1>1, Typed
<1>6. pc \in [lin : {l \in Lin : map[l] \in Frame}, offset : Offset]
  BY <1>5
<1>7. Modified \in BOOLEAN
  BY DEF Modified
<1> QED BY <1>2, <1>4, <1>5, <1>6, <1>7
        DEF Fresh!Init, Fresh!Offset, Fresh!Content, Offset, Content

LEMMA StepImplements ==
  ASSUME Inv, Inv', [Next]_vars
  PROVE  [Fresh!Next]_(Fresh!vars)
<1>1. /\ map \in [Lin -> Frame \cup {None}] /\ map[pc.lin] # None
  BY Typed
<1>2. \A p \in Unseen' : ~Written(p) => p \in Unseen
  BY UnwrittenStaysSeen
<1>3. memory' = memory => Unseen' \subseteq Unseen
  BY <1>2 DEF Written
<1>4. ASSUME NEW full \in Fullness(pc.lin), NEW flush \in BOOLEAN, Fetch(full, flush)
      PROVE  Fresh!Next
  <2>1. UNCHANGED <<memory, map, pc>>
    BY <1>4 DEF Fetch
  <2>2. /\ From' = From /\ ~Modified'
        /\ \A l \in Blind' : l \in Blind \/ (l # pc.lin /\ map[l] = From)
    BY <1>4, FetchKeepsInv
  <2>3. Blind' \subseteq Blind \cup {l \in Lin \ {pc.lin} : map[l] = From}
    BY <2>2 DEF Blind
  <2>4. Fresh!Enter
    BY <1>3, <2>1, <2>2, <2>3 DEF Fresh!Enter
  <2> QED BY <2>4 DEF Fresh!Next
<1>5. CASE Plain
  <2>1. Advance(map) /\ Stays /\ UNCHANGED <<memory, map>>
    BY <1>5 DEF Plain
  <2>2. Fresh!Compute
    BY <1>3, <1>5, <2>1, PlainKeepsInv DEF Fresh!Compute, Fresh!WritesNothing
  <2> QED BY <1>1, <1>5, <2>1, <2>2, PlainKeepsInv, ExecuteImplements
<1>6. ASSUME NEW l \in Lin, NEW full \in BOOLEAN, Loading(l, full) PROVE Fresh!Next
  <2>1. Advance(map) /\ Stays /\ UNCHANGED <<memory, map>>
    BY <1>6 DEF Loading
  <2>2. Fresh!Compute
    BY <1>3, <1>6, <2>1, LoadingKeepsInv DEF Fresh!Compute, Fresh!WritesNothing
  <2> QED BY <1>1, <1>6, <2>1, <2>2, LoadingKeepsInv, ExecuteImplements
<1>7. ASSUME NEW l \in Lin, NEW full \in Fullness(l), NEW o \in {p[2] : p \in Stored},
             NEW c \in Content, Storing(l, o, c, full)
      PROVE  Fresh!Next
  <2>1. o \in Offset /\ full \in BOOLEAN
    BY CodeCacheAssumption DEF Offset, Fullness
  <2> QED BY <1>7, <2>1, StoringImplements
<1>8. ASSUME NEW l \in Lin, NEW f \in Frame \cup {None}, Remap(l, f) PROVE Fresh!Next
  <2>1. Stays /\ UNCHANGED memory /\ Advance(map')
    BY <1>8 DEF Remap
  <2>2. /\ map' = [map EXCEPT ![l] = f] /\ Blind' \subseteq Blind \ {l} /\ (Modified' => Modified)
        /\ map'[pc.lin] # None /\ map' \in [Lin -> Frame \cup {None}]
        /\ (run' = None \/ run' = EndOfTrace)
    BY <1>8, RemapKeepsInv
  <2>3. Fresh!Remap(l, f)
    BY <1>3, <2>1, <2>2 DEF Fresh!Remap
  <2>4. PICK tables : tables = map'
    OBVIOUS
  <2> QED BY <2>1, <2>2, <2>3, <2>4, ExecuteImplements
<1>9. CASE ReloadCr3
  <2>1. Advance(map) /\ UNCHANGED <<memory, map>>
    BY <1>9 DEF ReloadCr3
  <2>2. Blind' = {} /\ ~Modified' /\ From' = map[pc'.lin]
    BY <1>9, ReloadCr3KeepsInv
  <2>3. \E c \in Fresh!Executed : Fresh!Goes(c)
    BY <1>1, <2>1, ExecutesOne
  <2>4. Fresh!Reload
    BY <1>3, <2>1, <2>2, <2>3 DEF Fresh!Reload, Fresh!WritesNothing
  <2> QED BY <2>4 DEF Fresh!Next
<1>10. ASSUME NEW entries \in SUBSET Entries \ {{}}, DiskTransfer(entries) PROVE Fresh!Next
  <2>1. /\ Advance(map) /\ Stays /\ map' = map
        /\ Fills(UNION {Places(e) : e \in entries})
    BY <1>10 DEF DiskTransfer
  <2>2. /\ DiskMissing(entries) \in Transfers
        /\ DiskMissing(entries).places = UNION {Places(e) : e \in entries}
    BY DEF DiskMissing, Transfers
  <2> QED BY <1>10, <2>1, <2>2, DiskKeepsInv, TransferImplements
<1>11. ASSUME NEW e \in Entries, FloppyTransfer(e) PROVE Fresh!Next
  <2>1. Advance(map) /\ Stays /\ map' = map /\ Fills(Places(e))
    BY <1>11 DEF FloppyTransfer
  <2>2. FloppyMissing(e) \in Transfers /\ FloppyMissing(e).places = Places(e)
    BY DEF FloppyMissing, Transfers
  <2> QED BY <1>11, <2>1, <2>2, FloppyKeepsInv, TransferImplements
<1>12. CASE UNCHANGED vars
  <2>1. /\ From' = From /\ Modified' = Modified /\ Blind' = Blind /\ Unseen' = Unseen
        /\ UNCHANGED <<memory, map, pc>>
    BY <1>12 DEF vars, From, Modified, Blind, Unseen, Executable
  <2> QED BY <2>1 DEF Fresh!vars
<1> QED BY <1>4, <1>5, <1>6, <1>7, <1>8, <1>9, <1>10, <1>11, <1>12 DEF Next

\* For any sizes and any guest, executing decoded traces through kept translations
\* is executing the instructions memory holds, but for what was written through a
\* blind page, by a run that had modified itself, or where a transfer misses.
THEOREM Implements == Spec => ImplementsInterpreter
<1>1. Init => Fresh!Init
  BY InitImplements
<1>2. Inv /\ Inv' /\ [Next]_vars => [Fresh!Next]_(Fresh!vars)
  BY StepImplements
<1> QED BY <1>1, <1>2, InitInv, StepInv, PTL DEF Spec, ImplementsInterpreter, Fresh!Spec

=============================================================================
