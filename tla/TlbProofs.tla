----------------------------- MODULE TlbProofs -----------------------------
(***************************************************************************)
(* Theorems about Tlb, for any pages, any page table entries and any       *)
(* length of the list.                                                     *)
(*                                                                         *)
(* NothingStale is not inductive: a flush drops what the list holds, so it *)
(* needs AllListed; and a load of CR3 that spares a global entry settles a *)
(* local invalidation the guest still owes, so that entry must have been   *)
(* right although one was owed: GlobalsRight.                              *)
(***************************************************************************)
EXTENDS Tlb, TLAPS

\* What NothingStale says of one kind of access to one page.
Right(l, k) ==
  /\ cpu.paging => Grants(page[l], k) /\ (k.write => page[l].dirty)
  /\ tlb[l].frame = Where(l)

EmptyLetsNothing == \A l \in Lin : tlb[l].frame = None => tlb[l].allowed = {}

\* A global entry is wrong only while the guest owes an invalidation that
\* reaches it.
GlobalsRight ==
  \A l \in Lin : \A k \in tlb[l].allowed :
    tlb[l].global /\ owed[l] # "global" =>
      /\ cpu.paging
      /\ page[l] # None
      /\ page[l].global
      /\ Right(l, k)

Inv ==
  TypeOK /\ AllListed /\ EmptyLetsNothing /\ NothingStale /\ GlobalsRight

-----------------------------------------------------------------------------
(* What the operations of the buffer do.                                   *)

\* A page entry of the guest's is absent or a record (the ASSUME of Tlb).
LEMMA PteTypes == Ptes \subseteq Pte \cup {None}
BY TlbAssumption DEF Pte

\* The page of an access is a physical page, whatever A20 is.
LEMMA WhereTyped ==
  ASSUME TypeOK, NEW l \in Lin, cpu.paging => page[l] # None
  PROVE  Where(l) \in Frame
<1>1. \A f \in Frame : Physical(f) \in Frame
  BY TlbAssumption DEF Physical
<1>2. CASE cpu.paging
  <2>1. page[l] \in Pte
    BY <1>2 DEF TypeOK
  <2> QED BY <1>1, <1>2, <2>1 DEF Where, Pte
<1>3. CASE ~cpu.paging
  BY <1>1, <1>3, TlbAssumption DEF Where
<1> QED BY <1>2, <1>3

\* cpu_mmu_tlb_flush leaves no entry: the list it walks holds them all.
LEMMA FlushEmpties ==
  ASSUME AllListed, TypeOK, EmptyLetsNothing
  PROVE  /\ Flushed(tlb) \in [Lin -> Entry]
         /\ \A l \in Lin : Flushed(tlb)[l].frame = None /\ Flushed(tlb)[l].allowed = {}
BY DEF AllListed, TypeOK, EmptyLetsNothing, Flushed, Empty, Entry, Kind

\* The same, as the step takes it.
LEMMA FlushAllEffect ==
  ASSUME AllListed, TypeOK, EmptyLetsNothing, FlushAll
  PROVE  /\ tlb' \in [Lin -> Entry]
         /\ used' \in Seq(Lin \cup {None}) /\ Len(used') <= Capacity
         /\ \A l \in Lin : tlb'[l].frame = None /\ tlb'[l].allowed = {}
<1>1. Len(<<>>) <= Capacity
  BY TlbAssumption
<1> QED BY <1>1, FlushEmpties DEF FlushAll

\* cpu_set_tlb_entry writes its own entry, keeps or drops the others, and
\* lists what it keeps.
LEMMA InstallEffect ==
  ASSUME TypeOK, AllListed, EmptyLetsNothing,
         NEW l \in Lin, NEW f \in Frame, NEW k \in Kind, NEW g \in BOOLEAN,
         Install(l, f, k, g)
  PROVE  /\ tlb' \in [Lin -> Entry]
         /\ used' \in Seq(Lin \cup {None}) /\ Len(used') <= Capacity
         /\ tlb'[l] = [frame |-> f, allowed |-> Allowed(k), global |-> g]
         /\ \A m \in Lin \ {l} :
              tlb'[m] = tlb[m] \/ (tlb'[m].frame = None /\ tlb'[m].allowed = {})
         /\ AllListed'
<1> DEFINE new == [frame |-> f, allowed |-> Allowed(k), global |-> g]
<1>1. new \in Entry
  BY DEF Entry, Allowed
<1>2. tlb \in [Lin -> Entry] /\ used \in Seq(Lin \cup {None}) /\ Len(used) <= Capacity
  BY DEF TypeOK
<1>3. CASE Len(used) >= Capacity
  <2>1. used' = Append(<<>>, l) /\ tlb' = [Flushed(tlb) EXCEPT ![l] = new]
    BY <1>3 DEF Install
  <2>2. used' = <<l>>
    BY <2>1
  <2>3. used' \in Seq(Lin \cup {None}) /\ Len(used') <= Capacity /\ used'[1] = l
    BY <2>2, TlbAssumption
  <2>4. tlb' \in [Lin -> Entry] /\ tlb'[l] = new
    BY <1>1, <2>1, FlushEmpties
  <2>5. \A m \in Lin \ {l} : tlb'[m].frame = None /\ tlb'[m].allowed = {}
    BY <2>1, FlushEmpties
  <2>6. AllListed'
    BY <2>2, <2>5 DEF AllListed, Listed
  <2> QED BY <2>3, <2>4, <2>5, <2>6
<1>4. CASE ~(Len(used) >= Capacity)
  <2>1. used' = Append(used, l) /\ tlb' = [tlb EXCEPT ![l] = new]
    BY <1>4 DEF Install
  <2>2. used' \in Seq(Lin \cup {None}) /\ Len(used') <= Capacity
    BY <1>2, <1>4, <2>1, TlbAssumption
  <2>3. /\ Len(used) + 1 \in DOMAIN used' /\ used'[Len(used) + 1] = l
        /\ \A i \in DOMAIN used : i \in DOMAIN used' /\ used'[i] = used[i]
    BY <1>2, <2>1
  <2>4. tlb' \in [Lin -> Entry] /\ tlb'[l] = new
    BY <1>1, <1>2, <2>1
  <2>5. \A m \in Lin \ {l} : tlb'[m] = tlb[m]
    BY <1>2, <2>1
  <2>6. AllListed'
    BY <2>3, <2>5 DEF AllListed, Listed
  <2> QED BY <2>2, <2>4, <2>5, <2>6
<1> QED BY <1>3, <1>4

\* cpu_mmu_tlb_flush_nonglobal keeps the global entries, with their places in
\* the list, and no other.
LEMMA NonGlobalEffect ==
  ASSUME TypeOK, AllListed, EmptyLetsNothing, NonGlobalFlushed
  PROVE  /\ tlb' \in [Lin -> Entry]
         /\ used' \in Seq(Lin \cup {None}) /\ Len(used') <= Capacity
         /\ \A m \in Lin : \/ tlb'[m] = tlb[m] /\ tlb[m].global
                           \/ tlb'[m].frame = None /\ tlb'[m].allowed = {}
         /\ AllListed'
<1>1. tlb \in [Lin -> Entry] /\ used \in Seq(Lin \cup {None}) /\ Len(used) <= Capacity
  BY DEF TypeOK
<1>2. tlb' \in [Lin -> Entry]
  BY <1>1 DEF NonGlobalFlushed, Empty, Entry
<1>3. DOMAIN used = 1 .. Len(used) /\ Len(used) \in Nat
  BY <1>1
<1>4. used' \in [1 .. Len(used) -> Lin \cup {None}]
  BY <1>1, <1>3 DEF NonGlobalFlushed
<1>5. used' \in Seq(Lin \cup {None}) /\ Len(used') = Len(used)
  BY <1>3, <1>4
<1>6. \A m \in Lin : \/ tlb'[m] = tlb[m] /\ tlb[m].global
                     \/ tlb'[m].frame = None /\ tlb'[m].allowed = {}
  BY DEF NonGlobalFlushed, Empty, AllListed, EmptyLetsNothing
<1>7. AllListed'
  <2> SUFFICES ASSUME NEW m \in Lin, tlb'[m].frame # None
               PROVE  \E i \in DOMAIN used' : used'[i] = m
    BY DEF AllListed, Listed
  <2>1. tlb'[m] = tlb[m] /\ tlb[m].global
    BY <1>6
  <2>2. PICK i \in DOMAIN used : used[i] = m
    BY <2>1 DEF AllListed, Listed
  <2>3. i \in DOMAIN used' /\ used'[i] = m
    BY <2>1, <2>2 DEF NonGlobalFlushed
  <2> QED BY <2>3
<1> QED BY <1>1, <1>2, <1>5, <1>6, <1>7

-----------------------------------------------------------------------------
(* The invariant.                                                          *)

\* A buffer without entries is right about everything.
LEMMA EmptyIsRight ==
  ASSUME \A l \in Lin : tlb[l].frame = None /\ tlb[l].allowed = {}
  PROVE  AllListed /\ EmptyLetsNothing /\ NothingStale /\ GlobalsRight
BY DEF AllListed, EmptyLetsNothing, NothingStale, GlobalsRight

\* The invariant holds at reset.
LEMMA InitInv == Init => Inv
<1> SUFFICES ASSUME Init PROVE Inv
  OBVIOUS
<1>1. TypeOK
  <2>1. page \in [Lin -> Pte \cup {None}]
    BY PteTypes DEF Init
  <2>2. tlb \in [Lin -> Entry]
    BY DEF Init, Empty, Entry
  <2>3. used \in Seq(Lin \cup {None}) /\ Len(used) <= Capacity
    BY TlbAssumption DEF Init
  <2> QED BY <2>1, <2>2, <2>3 DEF Init, TypeOK
<1>2. \A l \in Lin : tlb[l].frame = None /\ tlb[l].allowed = {}
  BY DEF Init, Empty
<1> QED BY <1>1, <1>2, EmptyIsRight DEF Inv

\* A step that flushes everything needs only to keep the types of the rest.
LEMMA FlushStep ==
  ASSUME Inv, FlushAll,
         page' \in [Lin -> Pte \cup {None}],
         cpu' \in [paging : BOOLEAN, wp : BOOLEAN, pge : BOOLEAN, a20 : BOOLEAN],
         owed' \in [Lin -> {"nothing", "local", "global"}]
  PROVE  Inv'
<1>1. /\ tlb' \in [Lin -> Entry]
      /\ used' \in Seq(Lin \cup {None}) /\ Len(used') <= Capacity
      /\ \A l \in Lin : tlb'[l].frame = None /\ tlb'[l].allowed = {}
  BY FlushAllEffect DEF Inv
<1>2. (AllListed /\ EmptyLetsNothing /\ NothingStale /\ GlobalsRight)'
  BY <1>1 DEF AllListed, EmptyLetsNothing, NothingStale, GlobalsRight
<1> QED BY <1>1, <1>2 DEF Inv, TypeOK

\* What the walk grants one access it grants every access that asks less.
LEMMA LesserGranted ==
  ASSUME NEW p, NEW k \in Kind, NEW j \in Allowed(k), Grants(p, k)
  PROVE  Grants(p, j)
BY DEF Grants, Allowed

\* An access without paging keeps the invariant.
LEMMA UnpagedStep ==
  ASSUME Inv, NEW l \in Lin, NEW k \in Kind, TranslateUnpaged(l, k)
  PROVE  Inv'
<1> DEFINE all == [user |-> TRUE, write |-> TRUE]
<1>1. Where(l) \in Frame
  BY WhereTyped DEF Inv, TranslateUnpaged
<1>2. all \in Kind /\ FALSE \in BOOLEAN
  BY DEF Kind
<1>3. Install(l, Where(l), all, FALSE) /\ UNCHANGED <<page, cpu, owed>> /\ ~cpu.paging
  BY DEF TranslateUnpaged
<1>4. /\ tlb' \in [Lin -> Entry]
      /\ used' \in Seq(Lin \cup {None}) /\ Len(used') <= Capacity
      /\ tlb'[l] = [frame |-> Where(l), allowed |-> Allowed(all), global |-> FALSE]
      /\ \A m \in Lin \ {l} :
           tlb'[m] = tlb[m] \/ (tlb'[m].frame = None /\ tlb'[m].allowed = {})
      /\ AllListed'
  BY <1>1, <1>2, <1>3, InstallEffect DEF Inv
<1>5. TypeOK'
  BY <1>3, <1>4 DEF Inv, TypeOK
<1>6. \A m \in Lin : Where(m)' = Where(m)
  BY <1>3 DEF Where, Physical
<1>7. EmptyLetsNothing'
  BY <1>1, <1>4, TlbAssumption DEF Inv, EmptyLetsNothing
<1>8. NothingStale'
  BY <1>3, <1>4, <1>6 DEF Inv, NothingStale, Grants
<1>9. GlobalsRight'
  BY <1>3, <1>4, <1>6 DEF Inv, GlobalsRight, Right, Grants
<1> QED BY <1>4, <1>5, <1>7, <1>8, <1>9 DEF Inv

\* An access through the tables keeps the invariant.
LEMMA PagedStep ==
  ASSUME Inv, NEW l \in Lin, NEW k \in Kind, TranslatePaged(l, k)
  PROVE  Inv'
<1> DEFINE p == page[l]
           q == page'[l]
<1>1. /\ Install(l, Where(l), k, p.global) /\ UNCHANGED <<cpu, owed>> /\ cpu.paging
      /\ page' = [page EXCEPT ![l].dirty = @ \/ k.write] /\ Grants(p, k)
  BY DEF TranslatePaged
<1>2. p # None /\ p \in Pte
  BY <1>1 DEF Grants, Inv, TypeOK
<1>3. Where(l) \in Frame
  BY <1>2, WhereTyped DEF Inv
<1>4. p.global \in BOOLEAN
  BY <1>2 DEF Pte
<1>5. /\ tlb' \in [Lin -> Entry]
      /\ used' \in Seq(Lin \cup {None}) /\ Len(used') <= Capacity
      /\ tlb'[l] = [frame |-> Where(l), allowed |-> Allowed(k), global |-> p.global]
      /\ \A m \in Lin \ {l} :
           tlb'[m] = tlb[m] \/ (tlb'[m].frame = None /\ tlb'[m].allowed = {})
      /\ AllListed'
  BY <1>1, <1>3, <1>4, InstallEffect DEF Inv
<1>6. q = [p EXCEPT !.dirty = p.dirty \/ k.write] /\ \A m \in Lin \ {l} : page'[m] = page[m]
  BY <1>1 DEF Inv, TypeOK
<1>7. q \in Pte
  BY <1>2, <1>6 DEF Pte, Kind
<1>8. /\ q.frame = p.frame /\ q.writable = p.writable /\ q.user = p.user
      /\ q.global = p.global /\ q.dirty = (p.dirty \/ k.write)
  BY <1>2, <1>6 DEF Pte
<1>9. q # None
  BY <1>7, TlbAssumption DEF Pte
<1>10. page' \in [Lin -> Pte \cup {None}]
  BY <1>1, <1>6, <1>7 DEF Inv, TypeOK
<1>11. TypeOK'
  BY <1>1, <1>5, <1>10 DEF Inv, TypeOK
<1>12. \A m \in Lin : Where(m)' = Where(m)
  BY <1>1, <1>6, <1>8 DEF Where, Physical
<1>13. EmptyLetsNothing'
  BY <1>3, <1>5, TlbAssumption DEF Inv, EmptyLetsNothing
<1>14. \A j \in Allowed(k) : Grants(q, j) /\ (j.write => q.dirty)
  <2>1. Grants(q, k) /\ (k.write => q.dirty)
    BY <1>1, <1>8, <1>9 DEF Grants
  <2> QED BY <2>1, LesserGranted DEF Allowed
<1>15. \A m \in Lin \ {l}, j \in Kind : Grants(page[m], j)' = Grants(page[m], j)
  BY <1>1, <1>6 DEF Grants
<1>16. \A j \in Kind : Grants(page[l], j)' = Grants(q, j)
  BY <1>1 DEF Grants
<1>17. \A j \in Allowed(k) : j \in Kind
  BY DEF Allowed
<1>18. \A j \in Allowed(k) : Right(l, j)'
  BY <1>5, <1>12, <1>14, <1>16, <1>17 DEF Right
<1>19. \A m \in Lin \ {l}, j \in Kind : tlb'[m] = tlb[m] => (Right(m, j)' = Right(m, j))
  BY <1>1, <1>6, <1>12, <1>15 DEF Right
<1>20. \A m \in Lin : tlb'[m].allowed \subseteq Kind
  BY <1>5 DEF Entry
<1>21. NothingStale'
  <2> SUFFICES ASSUME NEW m \in Lin, NEW j \in tlb'[m].allowed, owed'[m] = "nothing"
               PROVE  Right(m, j)'
    BY DEF NothingStale, Right
  <2>1. CASE m = l
    BY <1>5, <1>18, <2>1
  <2>2. CASE m # l
    <3>1. tlb'[m] = tlb[m] /\ j \in Kind
      BY <1>5, <1>20, <2>2
    <3>2. Right(m, j)
      BY <1>1, <3>1 DEF Inv, NothingStale, Right
    <3> QED BY <1>19, <2>2, <3>1, <3>2
  <2> QED BY <2>1, <2>2
<1>22. GlobalsRight'
  <2> SUFFICES ASSUME NEW m \in Lin, NEW j \in tlb'[m].allowed,
                      tlb'[m].global, owed'[m] # "global"
               PROVE  (cpu.paging /\ page[m] # None /\ page[m].global /\ Right(m, j))'
    BY DEF GlobalsRight
  <2>1. CASE m = l
    BY <1>1, <1>5, <1>8, <1>9, <1>18, <2>1
  <2>2. CASE m # l
    <3>1. tlb'[m] = tlb[m] /\ j \in Kind
      BY <1>5, <1>20, <2>2
    <3>2. page[m] # None /\ page[m].global /\ Right(m, j)
      BY <1>1, <3>1 DEF Inv, GlobalsRight
    <3> QED BY <1>1, <1>6, <1>19, <2>2, <3>1, <3>2
  <2> QED BY <2>1, <2>2
<1> QED BY <1>5, <1>11, <1>13, <1>21, <1>22 DEF Inv

\* The guest's write of a page table entry keeps the invariant: what it makes
\* wrong is owed.
LEMMA WritePteStep ==
  ASSUME Inv, NEW l \in Lin, NEW p \in Ptes, WritePte(l, p)
  PROVE  Inv'
<1>1. /\ page' = [page EXCEPT ![l] = p] /\ UNCHANGED <<cpu, tlb, used>>
      /\ owed' = [owed EXCEPT ![l] =
                    IF page[l] = None THEN @
                    ELSE IF page[l].global THEN "global"
                    ELSE IF @ = "nothing" THEN "local" ELSE @]
  BY DEF WritePte
<1>2. TypeOK'
  <2>1. page' \in [Lin -> Pte \cup {None}]
    BY <1>1, PteTypes DEF Inv, TypeOK
  <2>2. owed' \in [Lin -> {"nothing", "local", "global"}]
    BY <1>1 DEF Inv, TypeOK
  <2> QED BY <1>1, <2>1, <2>2 DEF Inv, TypeOK
<1>3. AllListed' /\ EmptyLetsNothing'
  BY <1>1 DEF Inv, AllListed, Listed, EmptyLetsNothing
<1>4. \A m \in Lin \ {l} : page'[m] = page[m] /\ owed'[m] = owed[m]
  BY <1>1 DEF Inv, TypeOK
<1>5. \A m \in Lin \ {l} : \A j \in tlb[m].allowed : Right(m, j)' = Right(m, j)
  BY <1>1, <1>4 DEF Right, Where, Physical, Grants
<1>6. owed'[l] = IF page[l] = None THEN owed[l]
                 ELSE IF page[l].global THEN "global"
                 ELSE IF owed[l] = "nothing" THEN "local" ELSE owed[l]
  BY <1>1 DEF Inv, TypeOK
<1>7. NothingStale'
  <2> SUFFICES ASSUME NEW m \in Lin, NEW j \in tlb[m].allowed, owed'[m] = "nothing"
               PROVE  Right(m, j)'
    BY <1>1 DEF NothingStale, Right
  <2>1. CASE m # l
    <3>1. Right(m, j)
      BY <1>4, <2>1 DEF Inv, NothingStale, Right
    <3> QED BY <1>5, <2>1, <3>1
  <2>2. CASE m = l
    <3>1. page[l] = None /\ owed[l] = "nothing"
      BY <1>6, <2>2
    <3>2. ~cpu.paging /\ tlb[l].frame = Where(l)
      BY <2>2, <3>1 DEF Inv, NothingStale, Grants
    <3> QED BY <1>1, <2>2, <3>2 DEF Right, Where, Physical
  <2> QED BY <2>1, <2>2
<1>8. GlobalsRight'
  <2> SUFFICES ASSUME NEW m \in Lin, NEW j \in tlb[m].allowed,
                      tlb[m].global, owed'[m] # "global"
               PROVE  (cpu.paging /\ page[m] # None /\ page[m].global /\ Right(m, j))'
    BY <1>1 DEF GlobalsRight
  <2>1. CASE m # l
    <3>1. cpu.paging /\ page[m] # None /\ page[m].global /\ Right(m, j)
      BY <1>4, <2>1 DEF Inv, GlobalsRight
    <3> QED BY <1>1, <1>4, <1>5, <2>1, <3>1
  <2>2. CASE m = l
    <3>1. owed[l] # "global"
      BY <1>6, <2>2
    <3>2. page[l] # None /\ page[l].global
      BY <2>2, <3>1 DEF Inv, GlobalsRight
    <3> QED BY <1>6, <2>2, <3>2
  <2> QED BY <2>1, <2>2
<1> QED BY <1>2, <1>3, <1>7, <1>8 DEF Inv

\* INVLPG empties the entry, so the page owes nothing.
LEMMA InvlpgStep ==
  ASSUME Inv, NEW l \in Lin, Invlpg(l)
  PROVE  Inv'
<1>1. /\ tlb' = [tlb EXCEPT ![l].frame = None, ![l].allowed = {}]
      /\ owed' = [owed EXCEPT ![l] = "nothing"] /\ UNCHANGED <<page, cpu, used>>
  BY DEF Invlpg, Invalidated
<1>2. tlb \in [Lin -> Entry] /\ tlb[l] \in Entry
  BY DEF Inv, TypeOK
<1>3. /\ tlb'[l] = [tlb[l] EXCEPT !.frame = None, !.allowed = {}]
      /\ \A m \in Lin \ {l} : tlb'[m] = tlb[m] /\ owed'[m] = owed[m]
  BY <1>1, <1>2 DEF Inv, TypeOK
<1>4. tlb'[l].frame = None /\ tlb'[l].allowed = {} /\ tlb'[l] \in Entry
  BY <1>2, <1>3 DEF Entry
<1>5. TypeOK'
  BY <1>1, <1>2, <1>3, <1>4 DEF Inv, TypeOK
<1>6. AllListed' /\ EmptyLetsNothing'
  BY <1>1, <1>3, <1>4 DEF Inv, AllListed, Listed, EmptyLetsNothing
<1>7. \A m \in Lin \ {l} : \A j \in tlb[m].allowed : Right(m, j)' = Right(m, j)
  BY <1>1, <1>3 DEF Right, Where, Physical, Grants
<1>8. NothingStale'
  <2> SUFFICES ASSUME NEW m \in Lin, NEW j \in tlb'[m].allowed, owed'[m] = "nothing"
               PROVE  Right(m, j)'
    BY DEF NothingStale, Right
  <2>1. m # l /\ j \in tlb[m].allowed /\ owed[m] = "nothing"
    BY <1>3, <1>4
  <2>2. Right(m, j)
    BY <2>1 DEF Inv, NothingStale, Right
  <2> QED BY <1>7, <2>1, <2>2
<1>9. GlobalsRight'
  <2> SUFFICES ASSUME NEW m \in Lin, NEW j \in tlb'[m].allowed,
                      tlb'[m].global, owed'[m] # "global"
               PROVE  (cpu.paging /\ page[m] # None /\ page[m].global /\ Right(m, j))'
    BY DEF GlobalsRight
  <2>1. m # l /\ j \in tlb[m].allowed /\ tlb[m].global /\ owed[m] # "global"
    BY <1>3, <1>4
  <2>2. cpu.paging /\ page[m] # None /\ page[m].global /\ Right(m, j)
    BY <2>1 DEF Inv, GlobalsRight
  <2> QED BY <1>1, <1>7, <2>1, <2>2
<1> QED BY <1>5, <1>6, <1>8, <1>9 DEF Inv

\* A load of CR3 keeps the invariant: it spares global entries only, which
\* were right, and the new tables agree with the old ones on their pages.
LEMMA LoadCr3Step ==
  ASSUME Inv, NEW tables \in [Lin -> Ptes], LoadCr3(tables)
  PROVE  Inv'
<1>1. /\ cpu.pge => \A l \in Lin : page[l] # None /\ page[l].global => tables[l] = page[l]
      /\ page' = tables
      /\ owed' = [l \in Lin |-> IF cpu.pge /\ owed[l] = "global" THEN "global" ELSE "nothing"]
      /\ UNCHANGED cpu
  BY DEF LoadCr3
<1>2. page' \in [Lin -> Pte \cup {None}]
  BY <1>1, PteTypes
<1>3. owed' \in [Lin -> {"nothing", "local", "global"}]
  BY <1>1
<1>4. cpu' \in [paging : BOOLEAN, wp : BOOLEAN, pge : BOOLEAN, a20 : BOOLEAN]
  BY <1>1 DEF Inv, TypeOK
<1>5. CASE ~cpu.pge
  <2>1. FlushAll
    BY <1>5 DEF LoadCr3
  <2> QED BY <1>2, <1>3, <1>4, <2>1, FlushStep
<1>6. CASE cpu.pge
  <2>1. /\ tlb' \in [Lin -> Entry]
        /\ used' \in Seq(Lin \cup {None}) /\ Len(used') <= Capacity
        /\ \A m \in Lin : \/ tlb'[m] = tlb[m] /\ tlb[m].global
                          \/ tlb'[m].frame = None /\ tlb'[m].allowed = {}
        /\ AllListed'
    BY <1>6, NonGlobalEffect DEF LoadCr3, Inv
  <2>2. TypeOK'
    BY <1>2, <1>3, <1>4, <2>1 DEF TypeOK
  <2>3. EmptyLetsNothing'
    BY <2>1 DEF Inv, EmptyLetsNothing
  <2>4. ASSUME NEW m \in Lin, NEW j \in tlb'[m].allowed, owed'[m] # "global"
        PROVE  (cpu.paging /\ page[m] # None /\ page[m].global /\ Right(m, j))'
    <3>1. tlb'[m] = tlb[m] /\ tlb[m].global /\ owed[m] # "global"
      BY <1>1, <1>6, <2>1, <2>4
    <3>2. cpu.paging /\ page[m] # None /\ page[m].global /\ Right(m, j)
      BY <3>1, <2>4 DEF Inv, GlobalsRight
    <3>3. page'[m] = page[m]
      BY <1>1, <1>6, <3>2
    <3> QED BY <1>1, <3>1, <3>2, <3>3 DEF Right, Where, Physical, Grants
  <2>5. NothingStale'
    BY <2>4 DEF NothingStale, Right
  <2>6. GlobalsRight'
    BY <2>4 DEF GlobalsRight
  <2> QED BY <2>1, <2>2, <2>3, <2>5, <2>6 DEF Inv
<1> QED BY <1>5, <1>6

\* Every step keeps the invariant.
LEMMA StepInv == Inv /\ [Next]_vars => Inv'
<1> SUFFICES ASSUME Inv, [Next]_vars PROVE Inv'
  OBVIOUS
<1>1. ASSUME NEW l \in Lin, NEW k \in Kind, TranslateUnpaged(l, k) PROVE Inv'
  BY <1>1, UnpagedStep
<1>2. ASSUME NEW l \in Lin, NEW k \in Kind, TranslatePaged(l, k) PROVE Inv'
  BY <1>2, PagedStep
<1>3. ASSUME NEW l \in Lin, NEW p \in Ptes, WritePte(l, p) PROVE Inv'
  BY <1>3, WritePteStep
<1>4. ASSUME NEW l \in Lin, Invlpg(l) PROVE Inv'
  BY <1>4, InvlpgStep
<1>5. ASSUME NEW tables \in [Lin -> Ptes], LoadCr3(tables) PROVE Inv'
  BY <1>5, LoadCr3Step
<1>6. ASSUME NEW c \in Modes, ChangeMode(c) PROVE Inv'
  <2>1. c \in [paging : BOOLEAN, wp : BOOLEAN, pge : BOOLEAN, a20 : BOOLEAN]
    BY DEF Modes, Inv, TypeOK
  <2>2. FlushAll /\ cpu' = c /\ page' = page /\ owed' = [l \in Lin |-> "nothing"]
    BY <1>6 DEF ChangeMode, Settled
  <2> QED BY <2>1, <2>2, FlushStep DEF Inv, TypeOK
<1>7. CASE WriteDr7
  <2>1. FlushAll /\ UNCHANGED <<page, cpu>> /\ owed' = [l \in Lin |-> "nothing"]
    BY <1>7 DEF WriteDr7, Settled
  <2> QED BY <2>1, FlushStep DEF Inv, TypeOK
<1>8. CASE UNCHANGED vars
  BY <1>8 DEF vars, Inv, TypeOK, AllListed, Listed, EmptyLetsNothing,
              NothingStale, GlobalsRight, Right, Where, Physical, Grants
<1> QED BY <1>1, <1>2, <1>3, <1>4, <1>5, <1>6, <1>7, <1>8 DEF Next

-----------------------------------------------------------------------------
(* The theorems.                                                           *)

\* The invariant holds in every state.
THEOREM Invariant == Spec => []Inv
BY InitInv, StepInv, PTL DEF Spec

\* tlb_entry_count stays within MAX_TLB_ENTRIES and the other variables in
\* their types, whatever is written and translated (mmu.c).
THEOREM TypeCorrect == Spec => []TypeOK
<1>1. Inv => TypeOK
  BY DEF Inv
<1> QED BY <1>1, Invariant, PTL

\* The list that a flush walks names every page with an entry (mmu.c), for
\* any number of pages and any length of the list.
THEOREM EveryEntryListed == Spec => []AllListed
<1>1. Inv => AllListed
  BY DEF Inv
<1> QED BY <1>1, Invariant, PTL

\* No access goes through an entry the page tables have turned against, once
\* the guest has invalidated what it changed (mmu.c, cpu_mmu_translate).
THEOREM BufferNeverStale == Spec => []NothingStale
<1>1. Inv => NothingStale
  BY DEF Inv
<1> QED BY <1>1, Invariant, PTL

=============================================================================
