-------------------------------- MODULE Tlb --------------------------------
(***************************************************************************)
(* The translation buffer of src/src/cpu/mmu.c: one entry per linear page, *)
(* with a tag for each kind of access that may use it, and a list of the   *)
(* pages that have one, which is all that a flush looks at.                *)
(*                                                                         *)
(* An access whose kind the tag allows changes nothing here and is no      *)
(* step.  A page table entry stands for what its directory entry and it    *)
(* allow together.  Left out: the accessed bit (it goes like the dirty     *)
(* one), NX, 4 MB pages, and the write tag for code (module CodeCache).    *)
(***************************************************************************)
EXTENDS Integers, Sequences

CONSTANTS
  Lin,         \* the linear pages
  Frame,       \* the physical pages, each of a megabyte of its own
  Capacity,    \* MAX_TLB_ENTRIES
  Ptes,        \* the page table entries the guest writes
  None         \* no page, no entry

ASSUME TlbAssumption ==
  /\ Frame \subseteq Nat /\ Lin \subseteq Frame /\ None \notin Frame
  /\ \A f \in Frame : f - (f % 2) \in Frame
  /\ Capacity \in Nat \ {0}
  /\ None \in Ptes
  /\ None \notin [frame : Frame, writable : BOOLEAN, user : BOOLEAN,
                  global : BOOLEAN, dirty : BOOLEAN]
  /\ \A p \in Ptes \ {None} :
       p \in [frame : Frame, writable : BOOLEAN, user : BOOLEAN,
              global : BOOLEAN, dirty : BOOLEAN]

VARIABLES
  page,    \* the guest's page tables
  cpu,     \* CR0.PG, CR0.WP, CR4.PGE and the A20 line
  tlb,     \* tlb, tlb_tags and tlb_attrs
  used,    \* tlb_entry_indexes up to tlb_entry_count
  owed     \* history: the invalidations the guest still owes

vars == <<page, cpu, tlb, used, owed>>

Kind  == [user : BOOLEAN, write : BOOLEAN]
Pte   == [frame : Frame, writable : BOOLEAN, user : BOOLEAN,
          global : BOOLEAN, dirty : BOOLEAN]
Entry == [frame : Frame \cup {None}, allowed : SUBSET Kind, global : BOOLEAN]

TypeOK ==
  /\ page \in [Lin -> Pte \cup {None}]
  /\ cpu \in [paging : BOOLEAN, wp : BOOLEAN, pge : BOOLEAN, a20 : BOOLEAN]
  /\ tlb \in [Lin -> Entry]
  /\ used \in Seq(Lin \cup {None}) /\ Len(used) <= Capacity
  /\ owed \in [Lin -> {"nothing", "local", "global"}]

-----------------------------------------------------------------------------
(* The walk.                                                               *)

\* What the guest's tables and the processor's mode allow.
Grants(p, k) ==
  /\ p # None
  /\ k.write => p.writable \/ (~k.user /\ ~cpu.wp)
  /\ k.user => p.user

\* A20 off clears the lowest bit of the megabyte.
Physical(f) == IF cpu.a20 THEN f ELSE f - (f % 2)

Where(l) == Physical(IF cpu.paging THEN page[l].frame ELSE l)

-----------------------------------------------------------------------------
(* The buffer.                                                             *)

Listed(l) == \E i \in DOMAIN used : used[i] = l

Empty == [frame |-> None, allowed |-> {}, global |-> FALSE]

\* cpu_mmu_tlb_flush: every page of the list, which is then empty.
Flushed(t) == [l \in Lin |-> IF Listed(l) THEN Empty ELSE t[l]]

\* Fault: the list is emptied although global pages keep their entries.
NonGlobalFlushedAndEmptied ==
  /\ tlb' = [l \in Lin |-> IF Listed(l) /\ ~tlb[l].global
                           THEN Empty ELSE tlb[l]]
  /\ used' = <<>>

\* cpu_mmu_tlb_flush_nonglobal: the list keeps its length and gets holes.
NonGlobalFlushed ==
  /\ tlb' = [l \in Lin |-> IF Listed(l) /\ ~tlb[l].global
                           THEN Empty ELSE tlb[l]]
  /\ used' = [i \in DOMAIN used |->
                IF used[i] # None /\ ~tlb[used[i]].global THEN None ELSE used[i]]

FlushAll == tlb' = Flushed(tlb) /\ used' = <<>>

\* cpu_mmu_tlb_invalidate: the entry goes, its place in the list stays.
Invalidated(l) ==
  [tlb EXCEPT ![l].frame = None, ![l].allowed = {}]

\* The accesses an entry is good for: those not more than what it was made for.
Allowed(k) == {j \in Kind : (j.user => k.user) /\ (j.write => k.write)}

\* Fault: the list is not looked at before a page is added.
InstallUnchecked(l, f, k, global) ==
  /\ used' = Append(used, l)
  /\ tlb' = [tlb EXCEPT ![l] = [frame |-> f, allowed |-> Allowed(k), global |-> global]]

\* cpu_set_tlb_entry.
Install(l, f, k, global) ==
  LET full == Len(used) >= Capacity
      base == IF full THEN Flushed(tlb) ELSE tlb
  IN /\ used' = Append(IF full THEN <<>> ELSE used, l)
     /\ tlb' = [base EXCEPT ![l] = [frame |-> f, allowed |-> Allowed(k),
                                    global |-> global]]

-----------------------------------------------------------------------------
(* The processor.                                                          *)

\* cpu_mmu_translate of an access that finds no entry good for it: with
\* paging off all is allowed.
TranslateUnpaged(l, k) ==
  /\ ~cpu.paging /\ k \notin tlb[l].allowed
  /\ Install(l, Where(l), [user |-> TRUE, write |-> TRUE], FALSE)
  /\ UNCHANGED <<page, cpu, owed>>

\* With paging on the tables are walked, and a write sets the dirty bit.  An
\* access they do not grant faults and changes nothing.
TranslatePaged(l, k) ==
  /\ cpu.paging /\ k \notin tlb[l].allowed
  /\ Grants(page[l], k)
  /\ page' = [page EXCEPT ![l].dirty = @ \/ k.write]
  /\ Install(l, Where(l), k, page[l].global)
  /\ UNCHANGED <<cpu, owed>>

-----------------------------------------------------------------------------
(* The guest.                                                              *)

\* The guest writes a page table entry.  Once the old one was global, only an
\* invalidation that reaches global pages will do.
WritePte(l, p) ==
  /\ p # page[l]
  /\ page' = [page EXCEPT ![l] = p]
  /\ owed' = [owed EXCEPT ![l] =
                IF page[l] = None THEN @
                ELSE IF page[l].global THEN "global"
                ELSE IF @ = "nothing" THEN "local" ELSE @]
  /\ UNCHANGED <<cpu, tlb, used>>

\* op_invlpg, a write of DR0 to DR3, and a store that leaves a page no code.
Invlpg(l) ==
  /\ tlb' = Invalidated(l)
  /\ owed' = [owed EXCEPT ![l] = "nothing"]
  /\ UNCHANGED <<page, cpu, used>>

Settled == owed' = [l \in Lin |-> "nothing"]

\* A load of CR3 brings other tables, which agree on the global pages if the
\* guest has turned those on.
LoadCr3(tables) ==
  /\ cpu.pge => \A l \in Lin : page[l] # None /\ page[l].global => tables[l] = page[l]
  /\ page' = tables
  /\ IF cpu.pge THEN NonGlobalFlushed ELSE FlushAll
  /\ owed' = [l \in Lin |-> IF cpu.pge /\ owed[l] = "global" THEN "global" ELSE "nothing"]
  /\ UNCHANGED cpu

\* Fault: a change of CR0.WP drops nothing.
ChangeModeKeepsWp(c) ==
  /\ c # cpu /\ cpu' = c
  /\ IF [c EXCEPT !.wp = cpu.wp] = cpu THEN UNCHANGED <<tlb, used, owed>>
     ELSE FlushAll /\ Settled
  /\ UNCHANGED page

\* cpu_prot_set_cr for CR0 and CR4, and cpu_set_a20, when they change a bit.
ChangeMode(c) ==
  /\ c # cpu /\ cpu' = c
  /\ FlushAll /\ Settled
  /\ UNCHANGED page

\* A write of DR7.
WriteDr7 == FlushAll /\ Settled /\ UNCHANGED <<page, cpu>>

Init ==
  /\ page \in [Lin -> Ptes]
  /\ cpu = [paging |-> FALSE, wp |-> FALSE, pge |-> FALSE, a20 |-> TRUE]
  /\ tlb = [l \in Lin |-> Empty]
  /\ used = <<>>
  /\ owed = [l \in Lin |-> "nothing"]

\* One register is written at a time.
Modes ==
  {[cpu EXCEPT !.paging = ~@], [cpu EXCEPT !.wp = ~@],
   [cpu EXCEPT !.pge = ~@], [cpu EXCEPT !.a20 = ~@]}

Next ==
  \/ \E l \in Lin, k \in Kind : TranslateUnpaged(l, k) \/ TranslatePaged(l, k)
  \/ \E l \in Lin, p \in Ptes : WritePte(l, p)
  \/ \E l \in Lin : Invlpg(l)
  \/ \E tables \in [Lin -> Ptes] : LoadCr3(tables)
  \/ \E c \in Modes : ChangeMode(c)
  \/ WriteDr7

Spec == Init /\ [][Next]_vars

-----------------------------------------------------------------------------
(* Properties.                                                             *)

\* A flush finds every entry there is, through holes, duplicates and a list
\* that fills up (it walks tlb_entry_indexes and looks nowhere else).
AllListed == \A l \in Lin : tlb[l].frame # None => Listed(l)

\* Unless the guest owes an invalidation for the page, whatever access its
\* entry lets through is one the walk would grant now, at the same place, and
\* a write has been noted in the dirty bit.
NothingStale ==
  \A l \in Lin : \A k \in tlb[l].allowed :
    owed[l] = "nothing" =>
      /\ cpu.paging => Grants(page[l], k) /\ (k.write => page[l].dirty)
      /\ tlb[l].frame = Where(l)
=============================================================================
