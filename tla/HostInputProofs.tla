-------------------------- MODULE HostInputProofs ---------------------------
(***************************************************************************)
(* Theorems about HostInput, for any keyboard, any number of places in a   *)
(* report, modifiers and buttons, and any screen.                          *)
(*                                                                         *)
(* The scan of a report is a recursive function over its positions.        *)
(* ScanIs says what it computes, ScanTyped that it stays in its type, both *)
(* by the least position that would be otherwise.                          *)
(***************************************************************************)
EXTENDS HostInput, FiniteSetTheorems, WellFoundedInduction, TLAPS

\* What the keyboard handler's loop works on.
Handler == [last : [Positions -> Keys \cup {None}], ev : [Slots -> Event]]

-----------------------------------------------------------------------------
(* Numbers, slots and events.                                              *)

\* A nonempty set of naturals has a least element, which Min chooses.
LEMMA MinIsLeast ==
  ASSUME NEW T \in SUBSET Nat, T # {}
  PROVE  Min(T) \in T /\ \A y \in T : Min(T) <= y
<1> DEFINE R == {ss \in Nat \X Nat : ss[1] < ss[2]}
<1>1. R = OpToRel(<, Nat)
  BY DEF OpToRel
<1>2. IsWellFoundedOn(R, Nat)
  BY <1>1, NatLessThanWellFounded
<1>3. \A x, y \in Nat : x < y => <<x, y>> \in R
  OBVIOUS
<1> HIDE DEF R
<1>4. PICK x \in T : \A y \in T : ~(<<y, x>> \in R)
  BY <1>2, WFMin
<1>5. \A y \in T : ~(y < x)
  BY <1>3, <1>4
<1>6. \E z \in T : \A y \in T : z <= y
  BY <1>5
<1> QED
  BY <1>6 DEF Min

LEMMA PositionsAre ==
  /\ NKeySlots \in Nat /\ NKeySlots > 0
  /\ Positions = 1 .. NKeySlots /\ Positions \subseteq Nat
  BY HostInputAssumption DEF Positions

\* The motion's slot, the positions' and the switches' are different ones.
LEMMA SlotsAre ==
  /\ MotionSlot \in Slots /\ MotionSlot \notin KeySlots /\ MotionSlot \notin Switches
  /\ KeySlots \subseteq Slots /\ Switches \subseteq Slots
  /\ KeySlots \cap Switches = {}
  /\ ModSlots \subseteq Switches /\ ButtonSlots \subseteq Switches
  /\ ModSlots \cap ButtonSlots = {}
  /\ Switches = ModSlots \cup ButtonSlots
  /\ \A i \in Positions : KeySlot(i) \in KeySlots
  /\ \A i, j \in Positions : KeySlot(i) = KeySlot(j) => i = j
  /\ Slots = 0 .. (NMods + NKeySlots + NButtons)
<1>1. /\ NKeySlots \in Nat /\ NKeySlots > 0 /\ NMods \in Nat /\ NButtons \in Nat
  BY HostInputAssumption
<1>2. KeySlots = (NMods + 1) .. (NMods + NKeySlots)
  <2>1. \A i \in Positions : KeySlot(i) \in (NMods + 1) .. (NMods + NKeySlots)
    BY <1>1 DEF Positions, KeySlot
  <2>2. ASSUME NEW s \in (NMods + 1) .. (NMods + NKeySlots)
        PROVE  s \in KeySlots
    <3>1. s - NMods \in Positions /\ KeySlot(s - NMods) = s
      BY <1>1 DEF Positions, KeySlot
    <3> QED
      BY <3>1 DEF KeySlots
  <2> QED
    BY <2>1, <2>2 DEF KeySlots
<1>3. \A i, j \in Positions : KeySlot(i) = KeySlot(j) => i = j
  BY <1>1 DEF Positions, KeySlot
<1>4. \A i \in Positions : KeySlot(i) \in KeySlots
  BY DEF KeySlots
<1>5. Slots = {0} \cup (NMods + 1) .. (NMods + NKeySlots) \cup 1 .. NMods
              \cup (NMods + NKeySlots + 1) .. (NMods + NKeySlots + NButtons)
  BY <1>2 DEF Slots, Switches, ModSlots, ButtonSlots, MotionSlot
<1>6. Slots = 0 .. (NMods + NKeySlots + NButtons)
  BY <1>1, <1>5
<1> QED
  BY <1>1, <1>2, <1>3, <1>4, <1>6
  DEF Slots, Switches, ModSlots, ButtonSlots, MotionSlot

\* The poll goes from a slot to a slot.
LEMMA NextSlotTyped ==
  ASSUME NEW s \in Slots
  PROVE  NextSlot(s) \in Slots
<1>1. PICK n \in Nat : n = NMods + NKeySlots + NButtons
  BY HostInputAssumption
<1>2. Slots = 0 .. n
  BY <1>1, SlotsAre
<1>3. n \in Slots /\ \A y \in Slots : n >= y
  BY <1>2
<1>4. \A x \in Slots : (\A y \in Slots : x >= y) => x = n
  BY <1>2
<1>5. LastSlot = n
  BY <1>3, <1>4 DEF LastSlot, Max
<1> QED
  BY <1>2, <1>5 DEF NextSlot, MotionSlot

\* The three types of an event and the lack of one.
LEMMA EventsAre ==
  /\ NoEvent \in Event
  /\ None # "down" /\ None # "up" /\ None # "move" /\ None \notin Keys
  /\ \A k \in Keys \cup {None} : /\ [type |-> "down", key |-> k] \in Event
                                 /\ [type |-> "up", key |-> k] \in Event
  BY HostInputAssumption DEF Event, NoEvent

-----------------------------------------------------------------------------
(* The scan of a report.                                                   *)

\* g is the scan of report r that begins with st.
Scans(r, st, g) ==
  g = [n \in 0 .. NKeySlots |-> IF n = 0 THEN st ELSE ScanPosition(r, g[n - 1], n)]

\* Two scans of the same report are the same.
LEMMA ScanUnique ==
  ASSUME NEW r, NEW st, NEW g, NEW h, Scans(r, st, g), Scans(r, st, h)
  PROVE  g[NKeySlots] = h[NKeySlots]
<1>1. PICK D : D = {n \in 0 .. NKeySlots : g[n] # h[n]}
  OBVIOUS
<1>2. D \in SUBSET Nat /\ NKeySlots \in 0 .. NKeySlots
  BY <1>1, PositionsAre
<1>3. g[0] = st /\ h[0] = st
  BY PositionsAre DEF Scans
<1>4. \A n \in 1 .. NKeySlots : /\ g[n] = ScanPosition(r, g[n - 1], n)
                                /\ h[n] = ScanPosition(r, h[n - 1], n)
  BY PositionsAre DEF Scans
<1>5. CASE D # {}
  <2>1. PICK m \in D : \A y \in D : m <= y
    BY <1>2, <1>5, MinIsLeast
  <2>2. m # 0 /\ m \in 0 .. NKeySlots
    BY <1>1, <1>3
  <2>3. m \in 1 .. NKeySlots /\ m - 1 \in 0 .. NKeySlots /\ m - 1 < m
    BY <2>2, PositionsAre
  <2>4. m - 1 \notin D
    BY <1>2, <2>1, <2>3
  <2>5. g[m - 1] = h[m - 1]
    BY <1>1, <2>3, <2>4
  <2> QED
    BY <1>1, <1>4, <2>3, <2>5
<1> QED
  BY <1>1, <1>2, <1>5

LEMMA ScanIs ==
  ASSUME NEW r, NEW st, NEW g, Scans(r, st, g)
  PROVE  ScanReport(r, st) = g[NKeySlots]
<1>1. PICK h : h = CHOOSE x : Scans(r, st, x)
  OBVIOUS
<1>2. Scans(r, st, h)
  BY <1>1
<1>3. ScanReport(r, st) = h[NKeySlots]
  BY <1>1 DEF ScanReport, Scans
<1> QED
  BY <1>2, <1>3, ScanUnique

\* FirstFree finds a place that is free, where there is one.
LEMMA FirstFreeIs ==
  ASSUME NEW l \in [Positions -> Keys \cup {None}], None \in Range(l)
  PROVE  FirstFree(l) \in Positions /\ l[FirstFree(l)] = None
<1>1. PICK T : T = {i \in Positions : l[i] = None}
  OBVIOUS
<1>2. T \in SUBSET Nat /\ T # {}
  BY <1>1, PositionsAre DEF Range
<1>3. Min(T) \in T
  BY <1>2, MinIsLeast
<1> QED
  BY <1>1, <1>3 DEF FirstFree

\* An event in a slot of a report, or one taken from the slots K, names a key.
Keyed(e, K) == \A s \in KeySlots : e[s].type # None \/ s \in K => e[s].key # None

KeyedHandler(K) == {h \in Handler : Keyed(h.ev, K)}

LEMMA PositionTyped ==
  ASSUME NEW r \in [Positions -> Keys \cup {None}], NEW K,
         NEW st \in KeyedHandler(K), NEW i \in Positions
  PROVE  ScanPosition(r, st, i) \in KeyedHandler(K)
<1>1. ASSUME NEW t \in KeyedHandler(K), NEW l \in [Positions -> Keys \cup {None}],
             NEW e \in Event, e.key # None
      PROVE  [t EXCEPT !.last = l, !.ev[KeySlot(i)] = e] \in KeyedHandler(K)
  <2>1. PICK f : f = [t.ev EXCEPT ![KeySlot(i)] = e]
    OBVIOUS
  <2>2. t.ev \in [Slots -> Event] /\ Keyed(t.ev, K)
    BY DEF KeyedHandler, Handler
  <2>3. f \in [Slots -> Event] /\ \A s \in KeySlots : f[s] = e \/ f[s] = t.ev[s]
    BY <2>1, <2>2, SlotsAre
  <2>4. Keyed(f, K)
    BY <1>1, <2>2, <2>3 DEF Keyed
  <2>5. PICK h : h = [t EXCEPT !.last = l, !.ev = f]
    OBVIOUS
  <2>6. h = [last |-> l, ev |-> f]
    BY <2>5 DEF KeyedHandler, Handler
  <2>7. [t EXCEPT !.last = l, !.ev[KeySlot(i)] = e] = h
    BY <2>1, <2>5 DEF KeyedHandler, Handler
  <2> QED
    BY <2>3, <2>4, <2>6, <2>7 DEF KeyedHandler, Handler
<1>2. PICK t : t = Appeared(r, st, i)
  OBVIOUS
<1>3. t \in KeyedHandler(K)
  <2>1. CASE r[i] = None \/ r[i] \in Range(st.last) \/ None \notin Range(st.last)
    BY <1>2, <2>1 DEF Appeared
  <2>2. CASE ~(r[i] = None \/ r[i] \in Range(st.last) \/ None \notin Range(st.last))
    <3>1. PICK f : f = FirstFree(st.last)
      OBVIOUS
    <3>2. st.last \in [Positions -> Keys \cup {None}] /\ r[i] \in Keys
      BY <2>2 DEF KeyedHandler, Handler
    <3>3. f \in Positions
      BY <2>2, <3>1, <3>2, FirstFreeIs
    <3>4. PICK l \in [Positions -> Keys \cup {None}] : l = [st.last EXCEPT ![f] = r[i]]
      BY <3>2, <3>3
    <3>5. PICK e \in Event : e.key # None /\ e = [type |-> "down", key |-> r[i]]
      BY <3>2, EventsAre
    <3>6. t = [st EXCEPT !.last = l, !.ev[KeySlot(i)] = e]
      BY <1>2, <2>2, <3>1, <3>4, <3>5 DEF Appeared, KeyedHandler, Handler
    <3> QED
      BY <1>1, <3>5, <3>6
  <2> QED
    BY <2>1, <2>2
<1>4. Disappeared(r, t, i) \in KeyedHandler(K)
  <2>1. CASE t.last[i] = None \/ t.last[i] \in Range(r)
    BY <1>3, <2>1 DEF Disappeared
  <2>2. CASE ~(t.last[i] = None \/ t.last[i] \in Range(r))
    <3>1. t.last \in [Positions -> Keys \cup {None}] /\ t.last[i] \in Keys
      BY <1>3, <2>2 DEF KeyedHandler, Handler
    <3>2. PICK l \in [Positions -> Keys \cup {None}] : l = [t.last EXCEPT ![i] = None]
      BY <3>1
    <3>3. PICK e \in Event : e.key # None /\ e = [type |-> "up", key |-> t.last[i]]
      BY <3>1, EventsAre
    <3>4. Disappeared(r, t, i) = [t EXCEPT !.last = l, !.ev[KeySlot(i)] = e]
      BY <1>3, <2>2, <3>2, <3>3 DEF Disappeared, KeyedHandler, Handler
    <3>5. [t EXCEPT !.last = l, !.ev[KeySlot(i)] = e] \in KeyedHandler(K)
      BY <1>1, <1>3, <3>3
    <3> QED
      BY <3>4, <3>5
  <2> QED
    BY <2>1, <2>2
<1> QED
  BY <1>2, <1>4 DEF ScanPosition

\* The first m positions can be scanned within H.
ScansTo(H, r, st, m) ==
  \E g \in [0 .. m -> H] :
    g[0] = st /\ \A n \in 1 .. m : g[n] = ScanPosition(r, g[n - 1], n)

\* A report leaves the handler in a set that no position takes it out of.
LEMMA ScanStays ==
  ASSUME NEW r, NEW H, NEW st \in H,
         \A h \in H, i \in Positions : ScanPosition(r, h, i) \in H
  PROVE  ScanReport(r, st) \in H
<1>1. ScansTo(H, r, st, 0)
  <2>1. PICK g : g = [n \in 0 .. 0 |-> st]
    OBVIOUS
  <2>2. g \in [0 .. 0 -> H] /\ g[0] = st
    BY <2>1
  <2>3. \A n \in 1 .. 0 : FALSE
    OBVIOUS
  <2> QED
    BY <2>2, <2>3 DEF ScansTo
<1>2. ASSUME NEW m \in Nat, m + 1 <= NKeySlots, ScansTo(H, r, st, m)
      PROVE  ScansTo(H, r, st, m + 1)
  <2>1. PICK g \in [0 .. m -> H] :
          g[0] = st /\ \A n \in 1 .. m : g[n] = ScanPosition(r, g[n - 1], n)
    BY <1>2 DEF ScansTo
  <2>2. PICK t : t = ScanPosition(r, g[m], m + 1)
    OBVIOUS
  <2>3. m \in 0 .. m /\ m + 1 \in Positions
    BY <1>2, PositionsAre
  <2>4. t \in H
    BY <2>1, <2>2, <2>3
  <2>5. PICK h : h = [n \in 0 .. m + 1 |-> IF n <= m THEN g[n] ELSE t]
    OBVIOUS
  <2>6. \A n \in 0 .. m + 1 : n <= m => n \in 0 .. m
    OBVIOUS
  <2>7. h \in [0 .. m + 1 -> H]
    BY <2>4, <2>5, <2>6
  <2>8. h[0] = st
    BY <2>1, <2>5
  <2>9. ASSUME NEW n \in 1 .. m + 1
        PROVE  h[n] = ScanPosition(r, h[n - 1], n)
    <3>1. n - 1 \in 0 .. m + 1 /\ n - 1 <= m /\ n \in 0 .. m + 1
      OBVIOUS
    <3>2. h[n - 1] = g[n - 1]
      BY <2>5, <3>1
    <3>3. CASE n <= m
      BY <2>1, <2>5, <3>1, <3>2, <3>3
    <3>4. CASE n = m + 1
      <4>1. n - 1 = m /\ ~(n <= m)
        BY <3>4
      <4> QED
        BY <2>2, <2>5, <3>1, <3>2, <3>4, <4>1
    <3> QED
      BY <3>3, <3>4
  <2> QED
    BY <2>7, <2>8, <2>9 DEF ScansTo
<1>3. ScansTo(H, r, st, NKeySlots)
  <2>1. PICK D : D = {m \in 0 .. NKeySlots : ~ScansTo(H, r, st, m)}
    OBVIOUS
  <2>2. D \in SUBSET Nat /\ NKeySlots \in 0 .. NKeySlots
    BY <2>1, PositionsAre
  <2>3. CASE D # {}
    <3>1. PICK m \in D : \A y \in D : m <= y
      BY <2>2, <2>3, MinIsLeast
    <3>2. m \in 0 .. NKeySlots /\ m # 0
      BY <1>1, <2>1
    <3>3. m - 1 \in 0 .. NKeySlots /\ m - 1 < m /\ m - 1 \in Nat /\ (m - 1) + 1 = m
          /\ m <= NKeySlots
      BY <3>2, PositionsAre
    <3>4. m - 1 \notin D
      BY <2>2, <3>1, <3>3
    <3>5. ScansTo(H, r, st, m - 1)
      BY <2>1, <3>3, <3>4
    <3>6. ScansTo(H, r, st, (m - 1) + 1)
      BY <1>2, <3>3, <3>5
    <3> QED
      BY <2>1, <3>3, <3>6
  <2> QED
    BY <2>1, <2>2, <2>3
<1>4. PICK g \in [0 .. NKeySlots -> H] :
        g[0] = st /\ \A n \in 1 .. NKeySlots : g[n] = ScanPosition(r, g[n - 1], n)
  BY <1>3 DEF ScansTo
<1>5. \A n \in 0 .. NKeySlots :
        g[n] = IF n = 0 THEN st ELSE ScanPosition(r, g[n - 1], n)
  <2>1. \A n \in 0 .. NKeySlots : n = 0 \/ n \in 1 .. NKeySlots
    BY PositionsAre
  <2> QED
    BY <1>4, <2>1
<1>6. Scans(r, st, g)
  BY <1>5 DEF Scans
<1>7. NKeySlots \in 0 .. NKeySlots
  BY PositionsAre
<1> QED
  BY <1>6, <1>7, ScanIs

\* A report, whatever it holds, leaves the handler in its type, and events that
\* name a key behind.
LEMMA ScanTyped ==
  ASSUME NEW r \in [Positions -> Keys \cup {None}], NEW K, NEW st \in KeyedHandler(K)
  PROVE  ScanReport(r, st) \in KeyedHandler(K)
  BY PositionTyped, ScanStays

-----------------------------------------------------------------------------
(* What one change does.                                                   *)

\* The handler remembers the keys S, each once.
Remembers(l, S) ==
  /\ l \in [Positions -> Keys \cup {None}]
  /\ KeysOf(l) = S
  /\ \A i, j \in Positions : l[i] = l[j] /\ l[i] # None => i = j

\* A report names its keys once each.
LEMMA ReportsRemember ==
  ASSUME NEW r \in Reports
  PROVE  Remembers(r, KeysOf(r))
  BY DEF Reports, Remembers

\* The keys of a list, place by place.
LEMMA KeysOfAre ==
  ASSUME NEW l \in [Positions -> Keys \cup {None}]
  PROVE  /\ KeysOf(l) \subseteq Keys
         /\ \A i \in Positions : l[i] = None \/ l[i] \in KeysOf(l)
         /\ \A k \in KeysOf(l) : k # None /\ \E i \in Positions : l[i] = k
         /\ \A k \in KeysOf(l) : k \in Range(l)
  BY DEF KeysOf, Range

\* The loop leaves a position alone whose key in the report is remembered, and
\* whose remembered key is in the report.
LEMMA PositionIdle ==
  ASSUME NEW r \in [Positions -> Keys \cup {None}], NEW st \in Handler, NEW i \in Positions,
         r[i] = None \/ r[i] \in KeysOf(st.last),
         st.last[i] = None \/ st.last[i] \in KeysOf(r)
  PROVE  ScanPosition(r, st, i) = st
<1>1. st.last \in [Positions -> Keys \cup {None}]
  BY DEF Handler
<1>2. r[i] = None \/ r[i] \in Range(st.last)
  BY <1>1, KeysOfAre
<1>3. Appeared(r, st, i) = st
  BY <1>2 DEF Appeared
<1>4. st.last[i] = None \/ st.last[i] \in Range(r)
  BY KeysOfAre
<1>5. Disappeared(r, st, i) = st
  BY <1>4 DEF Disappeared
<1> QED
  BY <1>3, <1>5 DEF ScanPosition

\* A scan of one change: nothing up to a position, and nothing behind it.
LEMMA ScanOfOneChange ==
  ASSUME NEW r \in [Positions -> Keys \cup {None}], NEW st, NEW u, NEW p \in Positions,
         \A i \in Positions : i < p => ScanPosition(r, st, i) = st,
         ScanPosition(r, st, p) = u,
         \A i \in Positions : i > p => ScanPosition(r, u, i) = u
  PROVE  ScanReport(r, st) = u
<1>1. PICK g : g = [n \in 0 .. NKeySlots |-> IF n < p THEN st ELSE u]
  OBVIOUS
<1>2. p \in Nat /\ p > 0 /\ p <= NKeySlots /\ NKeySlots \in Nat
  BY PositionsAre
<1>3. \A n \in 0 .. NKeySlots : g[n] = IF n < p THEN st ELSE u
  BY <1>1
<1>4. ASSUME NEW n \in 0 .. NKeySlots
      PROVE  g[n] = IF n = 0 THEN st ELSE ScanPosition(r, g[n - 1], n)
  <2>1. CASE n = 0
    BY <1>2, <1>3, <2>1
  <2>2. CASE n # 0
    <3>1. n \in Positions /\ n - 1 \in 0 .. NKeySlots /\ n \in Nat
      BY <1>2, <2>2, PositionsAre
    <3>2. CASE n < p
      <4>1. n - 1 < p
        BY <1>2, <3>1, <3>2
      <4>2. g[n] = st /\ g[n - 1] = st
        BY <1>3, <3>1, <3>2, <4>1
      <4> QED
        BY <2>2, <3>1, <3>2, <4>2
    <3>3. CASE n = p
      <4>1. n - 1 < p /\ ~(n < p)
        BY <1>2, <3>1, <3>3
      <4>2. g[n] = u /\ g[n - 1] = st
        BY <1>3, <3>1, <4>1
      <4> QED
        BY <2>2, <3>3, <4>2
    <3>4. CASE n > p
      <4>1. ~(n - 1 < p) /\ ~(n < p)
        BY <1>2, <3>1, <3>4
      <4>2. g[n] = u /\ g[n - 1] = u
        BY <1>3, <3>1, <4>1
      <4> QED
        BY <2>2, <3>1, <3>4, <4>2
    <3> QED
      BY <1>2, <3>1, <3>2, <3>3, <3>4
  <2> QED
    BY <2>1, <2>2
<1>5. Scans(r, st, g)
  <2>1. g = [n \in 0 .. NKeySlots |-> g[n]]
    BY <1>1
  <2> QED
    BY <1>4, <2>1 DEF Scans
<1>6. g[NKeySlots] = u
  BY <1>2, <1>3
<1> QED
  BY <1>5, <1>6, ScanIs

\* A report with the keys the handler remembers changes nothing.
LEMMA ScanNothing ==
  ASSUME NEW r \in [Positions -> Keys \cup {None}], NEW st \in Handler,
         KeysOf(st.last) = KeysOf(r)
  PROVE  ScanReport(r, st) = st
<1>1. st.last \in [Positions -> Keys \cup {None}]
  BY DEF Handler
<1>2. \A i \in Positions : ScanPosition(r, st, i) = st
  BY <1>1, KeysOfAre, PositionIdle
<1>3. 1 \in Positions
  BY PositionsAre
<1> QED
  BY <1>2, <1>3, ScanOfOneChange

\* A new key is remembered, and its keydown waits in the slot of its position.
LEMMA ScanAppears ==
  ASSUME NEW r \in Reports, NEW st \in Handler, NEW S, Remembers(st.last, S),
         NEW k \in Keys, k \notin S, KeysOf(r) = S \cup {k}, None \in Range(st.last)
  PROVE  \E p \in Positions :
           /\ ScanReport(r, st).ev =
                [st.ev EXCEPT ![KeySlot(p)] = [type |-> "down", key |-> k]]
           /\ Remembers(ScanReport(r, st).last, S \cup {k})
<1>1. /\ st.last \in [Positions -> Keys \cup {None}] /\ KeysOf(st.last) = S
      /\ r \in [Positions -> Keys \cup {None}]
  BY DEF Remembers, Reports
<1>2. PICK p \in Positions : r[p] = k
  BY <1>1, KeysOfAre
<1>3. PICK f : f = FirstFree(st.last)
  OBVIOUS
<1>4. f \in Positions /\ st.last[f] = None
  BY <1>1, <1>3, FirstFreeIs
<1>5. PICK l : l = [st.last EXCEPT ![f] = k]
  OBVIOUS
<1>6. PICK u : u = [last |-> l, ev |-> [st.ev EXCEPT ![KeySlot(p)] =
                                          [type |-> "down", key |-> k]]]
  OBVIOUS
<1>7. l \in [Positions -> Keys \cup {None}] /\ k # None
  BY <1>1, <1>5, EventsAre
<1>8. /\ l[f] = k /\ \A i \in Positions : i # f => l[i] = st.last[i]
  BY <1>1, <1>4, <1>5
<1>9. Remembers(l, S \cup {k})
  <2>1. KeysOf(l) = S \cup {k}
    <3>1. \A x \in KeysOf(l) : x \in S \cup {k}
      BY <1>1, <1>7, <1>8, KeysOfAre
    <3>2. k \in KeysOf(l)
      BY <1>4, <1>7, <1>8, KeysOfAre
    <3>3. ASSUME NEW x \in S PROVE x \in KeysOf(l)
      <4>1. PICK i \in Positions : st.last[i] = x
        BY <1>1, <3>3, KeysOfAre
      <4>2. x # None
        BY <1>1, <3>3, KeysOfAre
      <4>3. l[i] = x
        BY <1>4, <1>8, <4>1, <4>2
      <4> QED
        BY <1>7, <4>2, <4>3, KeysOfAre
    <3> QED
      BY <3>1, <3>2, <3>3
  <2>2. \A i \in Positions : st.last[i] # k
    BY <1>1, <1>7, KeysOfAre
  <2>3. \A i, j \in Positions : l[i] = l[j] /\ l[i] # None => i = j
    BY <1>8, <2>2 DEF Remembers
  <2> QED
    BY <1>7, <2>1, <2>3 DEF Remembers
<1>10. u \in Handler /\ u.last = l
  <2>1. [st.ev EXCEPT ![KeySlot(p)] = [type |-> "down", key |-> k]] \in [Slots -> Event]
    BY EventsAre DEF Handler
  <2> QED
    BY <1>6, <1>7, <2>1 DEF Handler
<1>11. ScanPosition(r, st, p) = u
  <2>1. ~(r[p] = None \/ r[p] \in Range(st.last) \/ None \notin Range(st.last))
    BY <1>1, <1>2, <1>7 DEF KeysOf
  <2>2. Appeared(r, st, p) =
          [st EXCEPT !.last[f] = r[p],
                     !.ev[KeySlot(p)] = [type |-> "down", key |-> r[p]]]
    BY <1>3, <2>1 DEF Appeared
  <2>3. Appeared(r, st, p) = u
    BY <1>2, <1>5, <1>6, <2>2 DEF Handler
  <2>4. u.last[p] = None \/ u.last[p] \in Range(r)
    BY <1>1, <1>7, <1>9, <1>10, KeysOfAre DEF Remembers
  <2>5. Disappeared(r, u, p) = u
    BY <2>4 DEF Disappeared
  <2> QED
    BY <2>3, <2>5 DEF ScanPosition
<1>12. ASSUME NEW i \in Positions, i < p
       PROVE  ScanPosition(r, st, i) = st
  <2>1. r[i] # k
    BY <1>2, <1>7, <1>12, PositionsAre DEF Reports
  <2>2. r[i] = None \/ r[i] \in KeysOf(st.last)
    BY <1>1, <2>1, KeysOfAre
  <2>3. st.last[i] = None \/ st.last[i] \in KeysOf(r)
    BY <1>1, KeysOfAre
  <2> QED
    BY <1>1, <2>2, <2>3, PositionIdle
<1>13. ASSUME NEW i \in Positions, i > p
       PROVE  ScanPosition(r, u, i) = u
  <2>1. KeysOf(u.last) = KeysOf(r)
    BY <1>9, <1>10 DEF Remembers
  <2>2. r[i] = None \/ r[i] \in KeysOf(u.last)
    BY <1>1, <2>1, KeysOfAre
  <2>3. u.last[i] = None \/ u.last[i] \in KeysOf(r)
    BY <1>7, <1>10, <2>1, KeysOfAre
  <2> QED
    BY <1>1, <1>10, <2>2, <2>3, PositionIdle
<1>14. ScanReport(r, st) = u
  BY <1>1, <1>11, <1>12, <1>13, ScanOfOneChange
<1> QED
  BY <1>6, <1>9, <1>10, <1>14

\* A key that is gone is forgotten, and its keyup waits in the slot of its place.
LEMMA ScanDisappears ==
  ASSUME NEW r \in [Positions -> Keys \cup {None}], NEW st \in Handler, NEW S,
         Remembers(st.last, S), NEW k \in S, KeysOf(r) = S \ {k}
  PROVE  \E p \in Positions :
           /\ ScanReport(r, st).ev =
                [st.ev EXCEPT ![KeySlot(p)] = [type |-> "up", key |-> k]]
           /\ Remembers(ScanReport(r, st).last, S \ {k})
<1>1. st.last \in [Positions -> Keys \cup {None}] /\ KeysOf(st.last) = S
  BY DEF Remembers
<1>2. PICK p \in Positions : st.last[p] = k
  BY <1>1, KeysOfAre
<1>3. k # None /\ k \in Keys
  BY <1>1, KeysOfAre
<1>4. PICK l : l = [st.last EXCEPT ![p] = None]
  OBVIOUS
<1>5. PICK u : u = [last |-> l, ev |-> [st.ev EXCEPT ![KeySlot(p)] =
                                          [type |-> "up", key |-> k]]]
  OBVIOUS
<1>6. /\ l \in [Positions -> Keys \cup {None}]
      /\ l[p] = None /\ \A i \in Positions : i # p => l[i] = st.last[i]
  BY <1>1, <1>4
<1>7. Remembers(l, S \ {k})
  <2>1. \A i \in Positions : i # p => st.last[i] # k
    BY <1>2, <1>3 DEF Remembers
  <2>2. KeysOf(l) = S \ {k}
    <3>1. \A x \in KeysOf(l) : x \in S \ {k}
      BY <1>1, <1>6, <2>1, KeysOfAre
    <3>2. ASSUME NEW x \in S, x # k PROVE x \in KeysOf(l)
      <4>1. PICK i \in Positions : st.last[i] = x
        BY <1>1, KeysOfAre
      <4>2. x # None
        BY <1>1, KeysOfAre
      <4>3. l[i] = x
        BY <1>2, <1>6, <3>2, <4>1
      <4> QED
        BY <1>6, <4>2, <4>3, KeysOfAre
    <3> QED
      BY <3>1, <3>2
  <2>3. \A i, j \in Positions : l[i] = l[j] /\ l[i] # None => i = j
    BY <1>6 DEF Remembers
  <2> QED
    BY <1>6, <2>2, <2>3 DEF Remembers
<1>8. u \in Handler /\ u.last = l
  <2>1. [st.ev EXCEPT ![KeySlot(p)] = [type |-> "up", key |-> k]] \in [Slots -> Event]
    BY <1>3, EventsAre DEF Handler
  <2> QED
    BY <1>5, <1>6, <2>1 DEF Handler
<1>9. ScanPosition(r, st, p) = u
  <2>1. r[p] = None \/ r[p] \in Range(st.last)
    BY <1>1, KeysOfAre
  <2>2. Appeared(r, st, p) = st
    BY <2>1 DEF Appeared
  <2>3. ~(st.last[p] = None \/ st.last[p] \in Range(r))
    BY <1>2, <1>3 DEF KeysOf
  <2>4. Disappeared(r, st, p) =
          [st EXCEPT !.last[p] = None,
                     !.ev[KeySlot(p)] = [type |-> "up", key |-> st.last[p]]]
    BY <2>3 DEF Disappeared
  <2>5. Disappeared(r, st, p) = u
    BY <1>2, <1>4, <1>5, <2>4 DEF Handler
  <2> QED
    BY <2>2, <2>5 DEF ScanPosition
<1>10. ASSUME NEW i \in Positions, i < p
       PROVE  ScanPosition(r, st, i) = st
  <2>1. st.last[i] # k
    BY <1>2, <1>3, <1>10, PositionsAre DEF Remembers
  <2>2. r[i] = None \/ r[i] \in KeysOf(st.last)
    BY <1>1, KeysOfAre
  <2>3. st.last[i] = None \/ st.last[i] \in KeysOf(r)
    BY <1>1, <2>1, KeysOfAre
  <2> QED
    BY <2>2, <2>3, PositionIdle
<1>11. ASSUME NEW i \in Positions, i > p
       PROVE  ScanPosition(r, u, i) = u
  <2>1. KeysOf(u.last) = KeysOf(r)
    BY <1>7, <1>8 DEF Remembers
  <2>2. r[i] = None \/ r[i] \in KeysOf(u.last)
    BY <2>1, KeysOfAre
  <2>3. u.last[i] = None \/ u.last[i] \in KeysOf(r)
    BY <1>6, <1>8, <2>1, KeysOfAre
  <2> QED
    BY <1>8, <2>2, <2>3, PositionIdle
<1>12. ScanReport(r, st) = u
  BY <1>9, <1>10, <1>11, ScanOfOneChange
<1> QED
  BY <1>5, <1>7, <1>8, <1>12

\* A list has no more keys than places.
LEMMA KeysAreFew ==
  ASSUME NEW l \in [Positions -> Keys \cup {None}]
  PROVE  IsFiniteSet(KeysOf(l)) /\ Cardinality(KeysOf(l)) <= NKeySlots
<1>1. IsFiniteSet(Positions) /\ Cardinality(Positions) = NKeySlots
  BY PositionsAre, FS_Interval
<1>2. PICK m : m = [k \in KeysOf(l) |-> CHOOSE i \in Positions : l[i] = k]
  OBVIOUS
<1>3. \A k \in KeysOf(l) : m[k] \in Positions /\ l[m[k]] = k
  BY <1>2, KeysOfAre
<1>4. m \in [KeysOf(l) -> Positions]
  BY <1>2, <1>3
<1>5. \A j, k \in KeysOf(l) : m[j] = m[k] => j = k
  BY <1>3
<1>6. m \in Injection(KeysOf(l), Positions)
  BY <1>4, <1>5 DEF Injection, IsInjective
<1> QED
  BY <1>1, <1>6, FS_Injection

\* Where a report has room for a new key, lastRawKeys has a free place.
LEMMA RoomToRemember ==
  ASSUME NEW r \in [Positions -> Keys \cup {None}], NEW l, NEW S, Remembers(l, S),
         NEW k \in Keys, k \notin S, KeysOf(r) = S \cup {k}
  PROVE  None \in Range(l)
<1>1. l \in [Positions -> Keys \cup {None}] /\ KeysOf(l) = S
  BY DEF Remembers
<1> SUFFICES ASSUME None \notin Range(l) PROVE FALSE
  OBVIOUS
<1>2. \A i \in Positions : l[i] # None
  BY <1>1 DEF Range
<1>3. l \in [Positions -> S]
  BY <1>1, <1>2, KeysOfAre
<1>4. l \in Injection(Positions, S)
  BY <1>1, <1>2, <1>3 DEF Remembers, Injection, IsInjective
<1>5. IsFiniteSet(S) /\ Cardinality(S) \in Nat
  BY <1>1, KeysAreFew, FS_CardinalityType
<1>6. Cardinality(Positions) <= Cardinality(S)
  BY <1>4, <1>5, FS_Injection
<1>7. Cardinality(Positions) = NKeySlots /\ NKeySlots \in Nat
  BY PositionsAre, FS_Interval
<1>8. Cardinality(S \cup {k}) = Cardinality(S) + 1
  BY <1>5, FS_AddElement
<1>9. Cardinality(S \cup {k}) <= NKeySlots
  BY KeysAreFew
<1> QED
  BY <1>5, <1>6, <1>7, <1>8, <1>9

\* Between two sets that differ in n elements.
LEMMA OneOrNone ==
  ASSUME NEW A, NEW B, IsFiniteSet(SymDiff(A, B))
  PROVE  /\ Cardinality(SymDiff(A, B)) \in Nat
         /\ Cardinality(SymDiff(A, B)) = 0 => B = A
         /\ Cardinality(SymDiff(A, B)) = 1 =>
              \E x : \/ x \notin A /\ B = A \cup {x}
                     \/ x \in A /\ B = A \ {x}
<1>1. PICK D : D = SymDiff(A, B)
  OBVIOUS
<1>2. D = (A \ B) \cup (B \ A) /\ IsFiniteSet(D)
  BY <1>1 DEF SymDiff
<1>3. Cardinality(D) \in Nat
  BY <1>2, FS_CardinalityType
<1>4. Cardinality(D) = 0 => D = {}
  BY <1>2, FS_EmptySet
<1>5. D = {} => B = A
  BY <1>2
<1>6. Cardinality(D) = 1 => \E x : D = {x}
  BY <1>2, FS_Singleton
<1>7. ASSUME NEW x, D = {x}
      PROVE  \/ x \notin A /\ B = A \cup {x}
             \/ x \in A /\ B = A \ {x}
  <2>1. \A y : (y \in A /\ y \notin B) \/ (y \in B /\ y \notin A) <=> y = x
    BY <1>2, <1>7
  <2> QED
    BY <2>1
<1> QED
  BY <1>1, <1>3, <1>4, <1>5, <1>6, <1>7

\* A patient report changes one switch or one key.
LEMMA OneChange ==
  ASSUME NEW now, held \subseteq Switches, now \subseteq Switches,
         raw \in [Positions -> Keys \cup {None}], NEW r \in Reports, Changes(now, r) = 1
  PROVE  \/ now = held /\ \E k \in Keys : \/ /\ k \notin KeysOf(raw)
                                            /\ KeysOf(r) = KeysOf(raw) \cup {k}
                                         \/ /\ k \in KeysOf(raw)
                                            /\ KeysOf(r) = KeysOf(raw) \ {k}
         \/ KeysOf(r) = KeysOf(raw)
<1>1. r \in [Positions -> Keys \cup {None}]
  BY DEF Reports
<1>2. IsFiniteSet(KeysOf(r)) /\ IsFiniteSet(KeysOf(raw))
  BY <1>1, KeysAreFew
<1>3. IsFiniteSet(SymDiff(KeysOf(raw), KeysOf(r)))
  <2>1. SymDiff(KeysOf(raw), KeysOf(r)) \in SUBSET (KeysOf(raw) \cup KeysOf(r))
    BY DEF SymDiff
  <2>2. IsFiniteSet(KeysOf(raw) \cup KeysOf(r))
    BY <1>2, FS_Union
  <2> QED
    BY <2>1, <2>2, FS_Subset
<1>4. IsFiniteSet(SymDiff(held, now))
  <2>1. IsFiniteSet(Slots)
    <3>1. NMods + NKeySlots + NButtons \in Int /\ 0 \in Int
      BY HostInputAssumption
    <3> QED
      BY <3>1, SlotsAre, FS_Interval
  <2>2. SymDiff(held, now) \in SUBSET Slots
    BY SlotsAre DEF SymDiff
  <2> QED
    BY <2>1, <2>2, FS_Subset
<1>5. PICK a \in Nat : a = Cardinality(SymDiff(held, now))
  BY <1>4, OneOrNone
<1>6. PICK b \in Nat : b = Cardinality(SymDiff(KeysOf(raw), KeysOf(r)))
  BY <1>3, OneOrNone
<1>7. a + b = 1
  BY <1>5, <1>6 DEF Changes
<1>8. CASE a = 0 /\ b = 1
  <2>1. now = held
    BY <1>4, <1>5, <1>8, OneOrNone
  <2>2. PICK k : \/ k \notin KeysOf(raw) /\ KeysOf(r) = KeysOf(raw) \cup {k}
                 \/ k \in KeysOf(raw) /\ KeysOf(r) = KeysOf(raw) \ {k}
    BY <1>3, <1>6, <1>8, OneOrNone
  <2>3. k \in Keys
    BY <1>1, <2>2, KeysOfAre
  <2> QED
    BY <2>1, <2>2, <2>3
<1>9. CASE b = 0
  BY <1>3, <1>6, <1>9, OneOrNone
<1> QED
  BY <1>7, <1>8, <1>9
-----------------------------------------------------------------------------
(* Type correctness, whatever the reports and however late the poll.       *)

\* The slot whose event the poll is copying.
Polled == IF poll.stage = "look" THEN {} ELSE {poll.at}

\* TypeOK is not inductive: that the guest is told of keys and not of None is
\* due to the slots, where an event that waits or is being copied names a key.
Typed ==
  /\ TypeOK
  /\ Keyed(ev, Polled)
  /\ poll.stage \in {"copied", "done"} /\ poll.at \in KeySlots => poll.got.key # None
  /\ poll.stage = "untyped" => poll.at = MotionSlot

\* A report or a button moves no event but those of the switches that changed.
LEMMA SwitchedIs ==
  ASSUME NEW e \in [Slots -> Event], held \subseteq Switches,
         NEW now, now \subseteq Switches
  PROVE  /\ Switched(e, now) \in [Slots -> Event]
         /\ \A s \in Slots : s \notin SymDiff(held, now) => Switched(e, now)[s] = e[s]
         /\ \A s \in now \ held : Switched(e, now)[s] = [type |-> "down", key |-> None]
         /\ \A s \in held \ now : Switched(e, now)[s] = [type |-> "up", key |-> None]
         /\ \A s \in KeySlots : Switched(e, now)[s] = e[s]
         /\ Switched(e, now)[MotionSlot] = e[MotionSlot]
<1>1. /\ [type |-> "down", key |-> None] \in Event
      /\ [type |-> "up", key |-> None] \in Event
  BY EventsAre
<1>2. \A s \in Slots : Switched(e, now)[s] =
        IF s \in now \ held THEN [type |-> "down", key |-> None]
        ELSE IF s \in held \ now THEN [type |-> "up", key |-> None] ELSE e[s]
  BY DEF Switched
<1>3. Switched(e, now) \in [Slots -> Event]
  BY <1>1 DEF Switched
<1>4. \A s \in Slots : s \notin SymDiff(held, now) => Switched(e, now)[s] = e[s]
  BY <1>2 DEF SymDiff
<1>5. \A s \in Slots : s \notin Switches => s \notin SymDiff(held, now)
  BY DEF SymDiff
<1>6. \A s \in KeySlots \cup {MotionSlot} : s \in Slots /\ s \notin Switches
  BY SlotsAre
<1>7. \A s \in Switches : s \in Slots
  BY SlotsAre
<1> QED
  BY <1>2, <1>3, <1>4, <1>5, <1>6, <1>7

\* The cursor stays on the screen.
LEMMA ScreenIs ==
  /\ Width \in Nat /\ 0 .. Width \subseteq Int
  /\ Centre \in 0 .. Width
  /\ \A x \in Int : Clamp(x) \in 0 .. Width
  BY HostInputAssumption DEF Centre, Clamp

LEMMA TypedInit ==
  ASSUME Init
  PROVE  Typed
<1>1. KeySlots \subseteq Slots /\ MotionSlot \in Slots
  BY SlotsAre
<1>2. ev \in [Slots -> Event] /\ Keyed(ev, Polled)
  BY <1>1, EventsAre DEF Init, Keyed, Polled, NoEvent, Looking
<1>3. poll \in [at : Slots, stage : Stages, got : Event, moved : Int]
  BY <1>1, EventsAre DEF Init, Looking, Stages
<1> QED
  BY <1>1, <1>2, <1>3, ScreenIs DEF Init, Typed, TypeOK, Looking

LEMMA TypedKeyReport ==
  ASSUME Typed, KeyReport
  PROVE  Typed'
<1>1. PICK m \in SUBSET ModSlots, r \in Reports :
        LET now == m \cup (held \cap ButtonSlots)
            st  == ScanReport(r, [last |-> last, ev |-> Switched(ev, now)])
        IN  /\ raw' = r /\ held' = now
            /\ last' = st.last /\ ev' = st.ev
            /\ UNCHANGED <<mouse, poll, guest>>
  BY DEF KeyReport
<1>2. PICK now : now = m \cup (held \cap ButtonSlots)
  OBVIOUS
<1>3. PICK h : h = [last |-> last, ev |-> Switched(ev, now)]
  OBVIOUS
<1>4. PICK st : st = ScanReport(r, h)
  OBVIOUS
<1>5. /\ raw' = r /\ held' = now /\ last' = st.last /\ ev' = st.ev
      /\ UNCHANGED <<mouse, poll, guest>>
  BY <1>1, <1>2, <1>3, <1>4
<1>6. now \subseteq Switches /\ held \subseteq Switches
  BY <1>2, SlotsAre DEF Typed, TypeOK
<1>7. h \in KeyedHandler(Polled)
  <2>1. ev \in [Slots -> Event] /\ last \in [Positions -> Keys \cup {None}]
    BY DEF Typed, TypeOK
  <2>2. /\ Switched(ev, now) \in [Slots -> Event]
        /\ \A s \in KeySlots : Switched(ev, now)[s] = ev[s]
    BY <1>6, <2>1, SwitchedIs
  <2>3. Keyed(Switched(ev, now), Polled)
    BY <2>2 DEF Typed, Keyed
  <2> QED
    BY <1>3, <2>1, <2>2, <2>3 DEF KeyedHandler, Handler
<1>8. r \in [Positions -> Keys \cup {None}]
  BY DEF Reports
<1>9. st \in KeyedHandler(Polled)
  BY <1>4, <1>7, <1>8, ScanTyped
<1>10. Polled' = Polled /\ poll' = poll
  BY <1>5 DEF Polled
<1> QED
  BY <1>5, <1>6, <1>8, <1>9, <1>10
  DEF Typed, TypeOK, KeyedHandler, Handler, mouse

LEMMA TypedMouse ==
  ASSUME Typed, \/ \E d \in Moves : MouseMove(d)
                \/ \E b \in ButtonSlots : MouseButton(b)
  PROVE  Typed'
<1>1. ev \in [Slots -> Event] /\ Keyed(ev, Polled)
  BY DEF Typed, TypeOK
<1>2. ASSUME ev' \in [Slots -> Event], poll' = poll, \A s \in KeySlots : ev'[s] = ev[s]
      PROVE  Polled' = Polled /\ Keyed(ev', Polled')
  <2>1. Polled' = Polled
    BY <1>2 DEF Polled
  <2> QED
    BY <1>1, <1>2, <2>1 DEF Keyed
<1>3. CASE \E d \in Moves : MouseMove(d)
  <2>1. PICK d \in Moves : MouseMove(d)
    BY <1>3
  <2>2. d \in Int /\ cursor \in Int /\ lastX \in Int /\ rel \in Int /\ owed \in Int
    BY HostInputAssumption, ScreenIs DEF Typed, TypeOK
  <2>3. PICK x \in 0 .. Width : x = Clamp(cursor + d)
    BY <2>2, ScreenIs
  <2>4. x \in Int
    BY ScreenIs
  <2>5. /\ rel' = rel + x - lastX /\ owed' \in {Pending(rel'), owed, owed + x - cursor}
        /\ lastX' \in {Centre, x} /\ cursor' \in {Centre, x} /\ jolted' \in BOOLEAN
    BY <2>1, <2>3 DEF MouseMove, Remembered
  <2>6. rel' \in Int /\ owed' \in Int /\ lastX' \in 0 .. Width /\ cursor' \in 0 .. Width
    <3>1. rel' \in Int /\ poll.moved \in Int
      BY <2>2, <2>4, <2>5 DEF Typed, TypeOK
    <3>2. Pending(rel') \in Int
      BY <3>1 DEF Pending
    <3> QED
      BY <2>2, <2>4, <2>5, <3>1, <3>2, ScreenIs
  <2>7. ev' = [ev EXCEPT ![MotionSlot] = [type |-> "move", key |-> ev[MotionSlot].key]]
    <3>1. ev' = [ev EXCEPT ![MotionSlot].type = "move"]
      BY <2>1 DEF MouseMove
    <3>2. \A e \in Event : [e EXCEPT !.type = "move"] = [type |-> "move", key |-> e.key]
      BY DEF Event
    <3>3. ev[MotionSlot] \in Event
      BY <1>1, SlotsAre
    <3> QED
      BY <3>1, <3>2, <3>3
  <2>8. [type |-> "move", key |-> ev[MotionSlot].key] \in Event
    BY <1>1, SlotsAre DEF Event
  <2>9. ev' \in [Slots -> Event] /\ \A s \in KeySlots : ev'[s] = ev[s]
    BY <1>1, <2>7, <2>8, SlotsAre
  <2>10. UNCHANGED <<keyboard, held, poll, guest>>
    BY <2>1 DEF MouseMove
  <2> QED
    BY <1>2, <2>5, <2>6, <2>9, <2>10 DEF Typed, TypeOK, keyboard
<1>4. CASE \E b \in ButtonSlots : MouseButton(b)
  <2>1. PICK b \in ButtonSlots : MouseButton(b)
    BY <1>4
  <2>2. PICK now : now = IF b \in held THEN held \ {b} ELSE held \cup {b}
    OBVIOUS
  <2>3. /\ held' = now /\ ev' = Switched(ev, now)
        /\ UNCHANGED <<keyboard, mouse, poll, guest>>
    BY <2>1, <2>2 DEF MouseButton
  <2>4. held \subseteq Switches /\ now \subseteq Switches
    BY <2>2, SlotsAre DEF Typed, TypeOK
  <2>5. ev' \in [Slots -> Event] /\ \A s \in KeySlots : ev'[s] = ev[s]
    BY <1>1, <2>3, <2>4, SwitchedIs
  <2> QED
    BY <1>2, <2>3, <2>4, <2>5 DEF Typed, TypeOK, keyboard, mouse
<1> QED
  BY <1>3, <1>4

LEMMA TypedConfigure ==
  ASSUME Typed, BeginConfigure \/ EndConfigure
  PROVE  Typed'
<1>1. /\ MotionSlot \in Slots /\ MotionSlot \notin KeySlots
      /\ Looking \in [at : Slots, stage : Stages, got : Event, moved : Int]
      /\ Keyed(ev, Polled)
  BY SlotsAre, EventsAre DEF Looking, Stages, Typed
<1>2. UNCHANGED <<keyboard, held, ev, rel, owed, guest>>
  BY DEF BeginConfigure, EndConfigure
<1>3. CASE BeginConfigure
  <2>1. /\ cursor' = Centre /\ jolted' = FALSE /\ lastX' = lastX
        /\ poll' = [Looking EXCEPT !.stage = "configure"]
    BY <1>3 DEF BeginConfigure
  <2>2. /\ poll' \in [at : Slots, stage : Stages, got : Event, moved : Int]
        /\ poll'.at = MotionSlot /\ poll'.stage = "configure"
    BY <1>1, <2>1 DEF Looking, Stages
  <2>3. Keyed(ev, Polled')
    BY <1>1, <2>2 DEF Keyed, Polled
  <2> QED
    BY <1>2, <2>1, <2>2, <2>3, ScreenIs DEF Typed, TypeOK, keyboard
<1>4. CASE EndConfigure
  <2>1. lastX' = Centre /\ poll' = Looking /\ UNCHANGED <<cursor, jolted>>
    BY <1>4 DEF EndConfigure
  <2>2. poll'.stage = "look"
    BY <2>1 DEF Looking
  <2>3. Keyed(ev, Polled')
    BY <1>1, <2>2 DEF Keyed, Polled
  <2> QED
    BY <1>1, <1>2, <2>1, <2>2, <2>3, ScreenIs DEF Typed, TypeOK, keyboard
<1> QED
  BY <1>3, <1>4

LEMMA TypedPoll ==
  ASSUME Typed, Poll
  PROVE  Typed'
<1>1. /\ ev \in [Slots -> Event] /\ Keyed(ev, Polled) /\ poll.at \in Slots
      /\ poll \in [at : Slots, stage : Stages, got : Event, moved : Int]
  BY DEF Typed, TypeOK
<1>2. CASE LookFurther
  <2>1. NextSlot(poll.at) \in Slots
    BY <1>1, NextSlotTyped
  <2>2. /\ poll' = [poll EXCEPT !.at = NextSlot(poll.at)] /\ poll.stage = "look"
        /\ UNCHANGED <<keyboard, held, mouse, ev, guest>>
    BY <1>2 DEF LookFurther
  <2>3. /\ poll'.stage = "look"
        /\ poll' \in [at : Slots, stage : Stages, got : Event, moved : Int]
    BY <1>1, <2>1, <2>2 DEF Stages
  <2>4. Polled' = {} /\ Polled = {}
    BY <2>2, <2>3 DEF Polled
  <2> QED
    BY <2>2, <2>3, <2>4 DEF Typed, TypeOK, keyboard, mouse
<1>3. CASE CopyType
  <2>1. PICK e \in Event : e = [type |-> ev[poll.at].type, key |-> poll.got.key]
    BY <1>1 DEF Event
  <2>2. /\ poll' = [poll EXCEPT !.stage = "type", !.got.type = ev[poll.at].type]
        /\ ev[poll.at].type # None
        /\ UNCHANGED <<keyboard, held, mouse, ev, guest>>
    BY <1>3 DEF CopyType
  <2>3. \A g \in Event : [g EXCEPT !.type = ev[poll.at].type] =
                           [type |-> ev[poll.at].type, key |-> g.key]
    BY DEF Event
  <2>4. poll' = [poll EXCEPT !.stage = "type", !.got = e]
    BY <1>1, <2>1, <2>2, <2>3
  <2>5. /\ poll'.stage = "type" /\ poll'.at = poll.at
        /\ poll' \in [at : Slots, stage : Stages, got : Event, moved : Int]
    BY <1>1, <2>4 DEF Stages
  <2>6. Polled' = {poll.at}
    BY <2>5 DEF Polled
  <2>7. Keyed(ev, {poll.at})
    BY <1>1, <2>2 DEF Keyed
  <2> QED
    BY <2>2, <2>5, <2>6, <2>7 DEF Typed, TypeOK, keyboard, mouse
<1>4. CASE CopyRest
  <2>1. PICK e \in Event : e = [type |-> poll.got.type, key |-> ev[poll.at].key]
    BY <1>1 DEF Event
  <2>2. /\ poll' = [poll EXCEPT !.stage = "copied", !.got.key = ev[poll.at].key,
                                !.moved = rel]
        /\ poll.stage = "type"
        /\ UNCHANGED <<keyboard, held, mouse, ev, guest>>
    BY <1>4 DEF CopyRest
  <2>3. \A g \in Event : [g EXCEPT !.key = ev[poll.at].key] =
                           [type |-> g.type, key |-> ev[poll.at].key]
    BY DEF Event
  <2>4. poll' = [poll EXCEPT !.stage = "copied", !.got = e, !.moved = rel]
    BY <1>1, <2>1, <2>2, <2>3
  <2>5. rel \in Int
    BY DEF Typed, TypeOK
  <2>6. /\ poll'.stage = "copied" /\ poll'.at = poll.at /\ poll'.got = e
        /\ poll' \in [at : Slots, stage : Stages, got : Event, moved : Int]
    BY <1>1, <2>4, <2>5 DEF Stages
  <2>7. Polled' = {poll.at} /\ Polled = {poll.at}
    BY <2>2, <2>6 DEF Polled
  <2>8. poll.at \in KeySlots => ev[poll.at].key # None
    BY <1>1, <2>7 DEF Keyed
  <2>9. poll.at \in KeySlots => e.key # None
    BY <2>1, <2>8
  <2> QED
    BY <1>1, <2>2, <2>6, <2>7, <2>9 DEF Typed, TypeOK, keyboard, mouse
<1>5. CASE ClearType
  <2>1. PICK s \in Slots : s = poll.at
    BY <1>1
  <2>2. /\ poll.stage = "copied" /\ ev' = [ev EXCEPT ![s].type = None]
        /\ poll' = [poll EXCEPT !.stage = IF s = MotionSlot THEN "untyped" ELSE "done"]
        /\ UNCHANGED <<keyboard, held, mouse, guest>>
    BY <1>5, <2>1 DEF ClearType, Cleared
  <2>3. PICK e \in Event : e = [type |-> None, key |-> ev[s].key]
    BY <1>1 DEF Event
  <2>4. ev' = [ev EXCEPT ![s] = e]
    <3>1. \A g \in Event : [g EXCEPT !.type = None] = [type |-> None, key |-> g.key]
      BY DEF Event
    <3> QED
      BY <1>1, <2>2, <2>3, <3>1
  <2>5. ev' \in [Slots -> Event] /\ \A k \in Slots : ev'[k].key = ev[k].key
    BY <1>1, <2>3, <2>4
  <2>6. /\ poll' \in [at : Slots, stage : Stages, got : Event, moved : Int]
        /\ poll'.at = s /\ poll'.stage \in {"untyped", "done"} /\ poll'.got = poll.got
    BY <1>1, <2>1, <2>2 DEF Stages
  <2>7. Polled' = {s} /\ Polled = {s}
    BY <2>1, <2>2, <2>6 DEF Polled
  <2>8. ASSUME NEW k \in KeySlots, ev'[k].type # None \/ k = s PROVE ev'[k].key # None
    <3>1. k \in Slots
      BY SlotsAre
    <3>2. ev[k].type # None \/ k = s
      BY <1>1, <2>4, <2>8, <3>1
    <3> QED
      BY <1>1, <2>5, <2>7, <3>1, <3>2 DEF Keyed
  <2>9. Keyed(ev', Polled')
    BY <2>7, <2>8 DEF Keyed
  <2>10. s \in KeySlots => poll.got.key # None
    BY <2>1, <2>2 DEF Typed
  <2> QED
    BY <2>2, <2>5, <2>6, <2>9, <2>10 DEF Typed, TypeOK, keyboard, mouse
<1>6. CASE ClearMotion
  <2>1. /\ poll.stage = "untyped" /\ rel' = 0 /\ poll' = [poll EXCEPT !.stage = "done"]
        /\ UNCHANGED <<keyboard, held, ev, cursor, lastX, owed, jolted, guest>>
    BY <1>6 DEF ClearMotion
  <2>2. /\ poll' \in [at : Slots, stage : Stages, got : Event, moved : Int]
        /\ poll'.at = poll.at /\ poll'.stage = "done"
    BY <1>1, <2>1 DEF Stages
  <2>3. Polled' = Polled
    BY <2>1, <2>2 DEF Polled
  <2>4. poll.at = MotionSlot /\ MotionSlot \notin KeySlots
    BY <2>1, SlotsAre DEF Typed
  <2> QED
    BY <1>1, <2>1, <2>2, <2>3, <2>4 DEF Typed, TypeOK, keyboard
<1>7. CASE Deliver
  <2>1. PICK s \in Slots : s = poll.at
    BY <1>1
  <2>2. /\ poll.stage = "done"
        /\ owed' = (IF s = MotionSlot THEN owed - poll.moved ELSE owed)
        /\ guest' = [keys |-> IF s \in KeySlots
                              THEN Told(guest.keys, poll.got.type, poll.got.key)
                              ELSE guest.keys,
                     switches |-> IF s \in Switches
                                  THEN Told(guest.switches, poll.got.type, s)
                                  ELSE guest.switches]
        /\ poll' = Looking /\ UNCHANGED <<keyboard, held, ev, rel, cursor, lastX, jolted>>
    BY <1>7, <2>1 DEF Deliver
  <2>3. /\ poll' \in [at : Slots, stage : Stages, got : Event, moved : Int]
        /\ poll'.stage = "look"
    BY <2>2, SlotsAre, EventsAre DEF Looking, Stages
  <2>4. Polled' = {} /\ Keyed(ev, {})
    BY <1>1, <2>3 DEF Polled, Keyed
  <2>5. guest' \in [keys : SUBSET Keys, switches : SUBSET Switches]
    <3>1. guest.keys \subseteq Keys /\ guest.switches \subseteq Switches
      BY DEF Typed, TypeOK
    <3>2. s \in KeySlots => poll.got.key \in Keys
      BY <1>1, <2>1, <2>2 DEF Typed, Event
    <3>3. /\ guest'.keys \subseteq Keys /\ guest'.switches \subseteq Switches
      BY <2>2, <3>1, <3>2 DEF Told
    <3> QED
      BY <2>2, <3>3
  <2>6. owed' \in Int
    BY <1>1, <2>2 DEF Typed, TypeOK
  <2> QED
    BY <2>2, <2>3, <2>4, <2>5, <2>6 DEF Typed, TypeOK, keyboard
<1> QED
  BY <1>2, <1>3, <1>4, <1>5, <1>6, <1>7 DEF Poll

LEMMA TypedNext ==
  ASSUME Typed, [Next]_vars
  PROVE  Typed'
<1>1. CASE UNCHANGED vars
  BY <1>1 DEF vars, keyboard, mouse, Typed, TypeOK, Polled
<1> QED
  BY <1>1, TypedKeyReport, TypedMouse, TypedConfigure, TypedPoll DEF Next

\* Whatever is typed and moved, in whatever order with the steps of the polls,
\* the slots, the memory of the handlers, the copy a poll makes and what the
\* guest was told keep their types: the cursor is on the screen, and a keydown
\* or keyup the guest gets is one of a key.
THEOREM TypeCorrect == Spec => []TypeOK
<1>1. Typed => TypeOK
  BY DEF Typed
<1> QED
  BY <1>1, TypedInit, TypedNext, PTL DEF Spec
-----------------------------------------------------------------------------
(* The motion of the mouse.                                                *)

\* MotionKept is not inductive: that EndConfigure notes where the cursor is when no
\* motion came is due to BeginConfigure.
Motion ==
  /\ MotionKept
  /\ poll.stage = "configure" /\ ~jolted => cursor = Centre

LEMMA MotionInit ==
  ASSUME Init
  PROVE  Motion
<1>1. rel = 0 /\ owed = 0 /\ lastX = cursor /\ poll.stage = "look"
  BY DEF Init, Looking
<1> QED
  BY <1>1 DEF Motion, MotionKept, Pending

LEMMA MotionNext ==
  ASSUME Typed, Motion, [Next]_vars
  PROVE  Motion'
<1>1. /\ owed = Pending(rel) /\ (~Misplaced => lastX = cursor)
      /\ cursor \in Int /\ lastX \in Int /\ rel \in Int /\ owed \in Int /\ poll.moved \in Int
      /\ jolted \in BOOLEAN
      /\ poll \in [at : Slots, stage : Stages, got : Event, moved : Int]
  BY ScreenIs DEF Motion, MotionKept, Typed, TypeOK
<1>2. ASSUME UNCHANGED <<mouse, poll>>
      PROVE  Motion'
  BY <1>2 DEF Motion, MotionKept, Pending, Misplaced, mouse
<1>3. CASE KeyReport \/ (\E b \in ButtonSlots : MouseButton(b)) \/ UNCHANGED vars
  BY <1>2, <1>3 DEF KeyReport, MouseButton, vars, mouse
<1>4. CASE \E d \in Moves : MouseMove(d)
  <2>1. PICK d \in Moves : MouseMove(d)
    BY <1>4
  <2>2. PICK x \in Int : x = Clamp(cursor + d)
    BY <1>1, HostInputAssumption, ScreenIs
  <2>3. /\ rel' = rel + x - lastX
        /\ owed' = IF Misplaced THEN Pending(rel') ELSE IF Erased THEN owed ELSE owed + x - cursor
        /\ poll' = poll /\ jolted' = (poll.stage = "configure")
    BY <2>1, <2>2 DEF MouseMove
  <2>4. lastX' = cursor'
    BY <2>1, <2>2 DEF MouseMove, Remembered
  <2>5. owed' = Pending(rel')
    <3>1. CASE Misplaced
      BY <2>3, <3>1
    <3>2. CASE ~Misplaced /\ Erased
      BY <1>1, <2>3, <3>2 DEF Pending, Erased
    <3>3. CASE ~Misplaced /\ ~Erased
      <4>1. rel' = rel + x - cursor /\ owed' = owed + x - cursor
        BY <1>1, <2>3, <3>3
      <4> QED
        BY <1>1, <2>2, <3>3, <4>1 DEF Pending, Erased, Stages
    <3> QED
      BY <3>1, <3>2, <3>3
  <2>6. Pending(rel)' = Pending(rel')
    BY <2>3 DEF Pending
  <2>7. poll'.stage = "configure" => jolted'
    BY <2>3
  <2> QED
    BY <2>4, <2>5, <2>6, <2>7 DEF Motion, MotionKept
<1>5. CASE BeginConfigure
  <2>1. /\ poll = Looking /\ poll' = [poll EXCEPT !.stage = "configure"]
        /\ cursor' = Centre /\ jolted' = FALSE /\ UNCHANGED <<rel, owed>>
    BY <1>5 DEF BeginConfigure
  <2>2. poll.stage = "look" /\ poll'.stage = "configure"
    BY <1>1, <2>1 DEF Looking
  <2>3. Misplaced'
    BY <2>1, <2>2 DEF Misplaced
  <2>4. owed' = Pending(rel)'
    BY <1>1, <2>1, <2>2 DEF Pending
  <2> QED
    BY <2>1, <2>3, <2>4 DEF Motion, MotionKept
<1>6. CASE EndConfigure
  <2>1. /\ poll.stage = "configure" /\ poll' = Looking /\ lastX' = Centre
        /\ UNCHANGED <<rel, cursor, owed, jolted>>
    BY <1>6 DEF EndConfigure
  <2>2. poll'.stage = "look"
    BY <2>1 DEF Looking
  <2>3. ~Misplaced' => ~jolted
    BY <2>1, <2>2 DEF Misplaced
  <2>4. ~Misplaced' => lastX' = cursor'
    BY <2>1, <2>3 DEF Motion
  <2>5. owed' = Pending(rel)'
    BY <1>1, <2>1, <2>2 DEF Pending
  <2> QED
    BY <2>2, <2>4, <2>5 DEF Motion, MotionKept
<1>7. CASE Poll
  <2>1. UNCHANGED <<cursor, lastX, jolted>>
    BY <1>7 DEF Poll, LookFurther, CopyType, CopyRest, ClearType, ClearMotion, Deliver, mouse
  <2>2. poll.stage # "configure" /\ poll'.stage # "configure"
    <3>1. CASE LookFurther \/ CopyType \/ CopyRest
      BY <1>1, <3>1 DEF LookFurther, CopyType, CopyRest
    <3>2. CASE ClearType
      BY <1>1, <3>2 DEF ClearType
    <3>3. CASE ClearMotion \/ Deliver
      BY <1>1, <3>3 DEF ClearMotion, Deliver, Looking
    <3> QED
      BY <1>7, <3>1, <3>2, <3>3 DEF Poll
  <2>3. ~Misplaced' => lastX' = cursor'
    BY <1>1, <2>1, <2>2 DEF Misplaced
  <2>4. CASE LookFurther \/ CopyType
    <3>1. /\ poll.stage = "look" /\ poll'.stage \in {"look", "type"}
          /\ UNCHANGED <<rel, owed>>
      BY <1>1, <2>4 DEF LookFurther, CopyType, mouse
    <3> QED
      BY <1>1, <2>2, <2>3, <3>1 DEF Motion, MotionKept, Pending
  <2>5. CASE CopyRest
    <3>1. /\ poll.stage = "type" /\ poll'.stage = "copied" /\ poll'.at = poll.at
          /\ poll'.moved = rel /\ UNCHANGED <<rel, owed>>
      BY <1>1, <2>5 DEF CopyRest, mouse
    <3> QED
      BY <1>1, <2>2, <2>3, <3>1 DEF Motion, MotionKept, Pending
  <2>6. CASE ClearType
    <3>1. /\ poll.stage = "copied" /\ poll'.at = poll.at /\ poll'.moved = poll.moved
          /\ poll'.stage = (IF poll.at = MotionSlot THEN "untyped" ELSE "done")
          /\ UNCHANGED <<rel, owed>>
      BY <1>1, <2>6 DEF ClearType, mouse
    <3> QED
      BY <1>1, <2>2, <2>3, <3>1 DEF Motion, MotionKept, Pending
  <2>7. CASE ClearMotion
    <3>1. /\ poll.stage = "untyped" /\ poll.at = MotionSlot /\ poll'.at = poll.at
          /\ poll'.stage = "done" /\ poll'.moved = poll.moved /\ rel' = 0 /\ owed' = owed
      BY <1>1, <2>7 DEF ClearMotion, Typed
    <3> QED
      BY <1>1, <2>2, <2>3, <3>1 DEF Motion, MotionKept, Pending
  <2>8. CASE Deliver
    <3>1. /\ poll.stage = "done" /\ poll'.stage = "look" /\ rel' = rel
          /\ owed' = (IF poll.at = MotionSlot THEN owed - poll.moved ELSE owed)
      BY <2>8 DEF Deliver, Looking
    <3> QED
      BY <1>1, <2>2, <2>3, <3>1 DEF Motion, MotionKept, Pending
  <2> QED
    BY <1>7, <2>4, <2>5, <2>6, <2>7, <2>8 DEF Poll
<1> QED
  BY <1>3, <1>4, <1>5, <1>6, <1>7 DEF Next

\* For any screen and any motions, however they fall between the steps of the polls
\* and of ConfigureMouse: the guest is sent all of the motion once, but for what
\* comes between the copy of the slot and its clears, and the handler knows where
\* the cursor is, but when motion came while the loop configured the mouse.
THEOREM MotionIsKept == Spec => []MotionKept
<1>1. Typed /\ Motion => MotionKept
  BY DEF Motion
<1>2. Init => Typed /\ Motion
  BY TypedInit, MotionInit
<1>3. Typed /\ Motion /\ [Next]_vars => Typed' /\ Motion'
  BY TypedNext, MotionNext
<1> QED
  BY <1>1, <1>2, <1>3, PTL DEF Spec
-----------------------------------------------------------------------------
(* What the guest is told, when reports come one change at a time.         *)

\* The events the guest was not told of yet: those in the slots, and the one whose
\* slot a poll has cleared.
Waiting ==
  [s \in Slots |-> IF poll.at = s /\ poll.stage = "done" THEN poll.got ELSE ev[s]]

\* A poll copies the event its slot holds, and no other comes into the slot meanwhile.
PollSees ==
  poll.at # MotionSlot =>
    /\ poll.stage = "type" => /\ ev[poll.at].type # None
                              /\ poll.got.type = ev[poll.at].type
    /\ poll.stage = "copied" => /\ ev[poll.at].type # None
                                /\ poll.got = ev[poll.at]
    /\ poll.stage = "done" => /\ ev[poll.at].type = None
                              /\ poll.got.type # None

\* The handler remembers the keys of the last report; an event that waits says
\* what the report says of its key; of a key no event waits about, the guest
\* was told.
KeysFollow ==
  /\ raw \in Reports /\ Remembers(last, KeysOf(raw))
  /\ \A s \in KeySlots :
       \/ Waiting[s].type = None
       \/ Waiting[s].type = "down" /\ Waiting[s].key \in KeysOf(raw)
       \/ Waiting[s].type = "up" /\ Waiting[s].key \notin KeysOf(raw)
  /\ \A k \in Keys : \/ \E s \in KeySlots : Waiting[s].type # None /\ Waiting[s].key = k
                     \/ k \in guest.keys <=> k \in KeysOf(raw)

\* The same of a modifier or a button and its slot.
SwitchesFollow ==
  \A s \in Switches :
    \/ Waiting[s].type = None /\ (s \in guest.switches <=> s \in held)
    \/ Waiting[s].type = "down" /\ s \in held
    \/ Waiting[s].type = "up" /\ s \notin held

Follows == PollSees /\ KeysFollow /\ SwitchesFollow

\* An event waits where its slot is, unless the poll has cleared that.
LEMMA WaitingIs ==
  /\ \A s \in Slots : poll.at # s \/ poll.stage # "done" => Waiting[s] = ev[s]
  /\ poll.at \in Slots /\ poll.stage = "done" => Waiting[poll.at] = poll.got
  BY DEF Waiting

\* What a handler does to the slots it does to what waits, but for that slot.
LEMMA WaitingThen ==
  ASSUME poll' = poll
  PROVE  \A s \in Slots :
           /\ ev'[s] = ev[s] => Waiting'[s] = Waiting[s]
           /\ poll.at # s \/ poll.stage # "done" => Waiting[s] = ev[s] /\ Waiting'[s] = ev'[s]
  BY DEF Waiting

\* An event that is being copied still waits in its slot, or in the copy: it is
\* in flight.
LEMMA FollowsIsEnough ==
  ASSUME Follows
  PROVE  GuestFollows
<1>1. \A s \in KeySlots \cup Switches : s \in Slots /\ s # MotionSlot
  BY SlotsAre
<1>2. ASSUME NEW k \in Keys, ~KeyInFlight(k)
      PROVE  k \in guest.keys <=> k \in KeysOf(raw)
  <2>1. ASSUME NEW s \in KeySlots, Waiting[s].type # None, Waiting[s].key = k
        PROVE  FALSE
    <3>1. CASE poll.at = s /\ poll.stage = "done"
      BY <1>1, <1>2, <2>1, <3>1, WaitingIs DEF KeyInFlight, InFlight
    <3>2. CASE ~(poll.at = s /\ poll.stage = "done")
      BY <1>1, <1>2, <2>1, <3>2, WaitingIs DEF KeyInFlight, InFlight
    <3> QED
      BY <3>1, <3>2
  <2> QED
    BY <2>1 DEF Follows, KeysFollow
<1>3. ASSUME NEW s \in Switches, ~InFlight(s)
      PROVE  s \in guest.switches <=> s \in held
  <2>1. Waiting[s] = ev[s] /\ ev[s].type = None
    BY <1>1, <1>3, WaitingIs DEF InFlight
  <2> QED
    BY <2>1, EventsAre DEF Follows, SwitchesFollow
<1> QED
  BY <1>2, <1>3 DEF GuestFollows

LEMMA FollowsInit ==
  ASSUME Init
  PROVE  Follows
<1>1. /\ \A i \in Positions : raw[i] = None /\ last[i] = None
      /\ raw \in [Positions -> Keys \cup {None}] /\ last \in [Positions -> Keys \cup {None}]
  BY DEF Init
<1>2. KeysOf(raw) = {} /\ KeysOf(last) = {}
  BY <1>1, KeysOfAre
<1>3. raw \in Reports /\ Remembers(last, KeysOf(raw))
  BY <1>1, <1>2 DEF Reports, Remembers
<1>4. guest.keys = {} /\ guest.switches = {} /\ held = {} /\ poll.stage = "look"
  BY DEF Init, Looking
<1>5. \A s \in Slots : Waiting[s].type = None
  BY <1>4, WaitingIs DEF Init, NoEvent
<1>6. PollSees
  BY <1>4 DEF PollSees
<1>7. KeysFollow
  BY <1>2, <1>3, <1>4, <1>5, SlotsAre DEF KeysFollow
<1>8. SwitchesFollow
  BY <1>4, <1>5, SlotsAre DEF SwitchesFollow
<1> QED
  BY <1>6, <1>7, <1>8 DEF Follows

\* The steps that leave a part of the invariant alone.
LEMMA PollSeesStill ==
  ASSUME PollSees, poll' = poll,
         poll.stage # "look" /\ poll.at # MotionSlot => ev'[poll.at] = ev[poll.at]
  PROVE  PollSees'
  BY DEF PollSees

LEMMA KeysFollowStill ==
  ASSUME KeysFollow, raw' \in Reports, Remembers(last', KeysOf(raw')),
         KeysOf(raw') = KeysOf(raw), guest'.keys = guest.keys,
         \A s \in KeySlots : Waiting'[s] = Waiting[s]
  PROVE  KeysFollow'
  BY DEF KeysFollow

LEMMA SwitchesFollowStill ==
  ASSUME SwitchesFollow, held' = held, guest'.switches = guest.switches,
         \A s \in Switches : Waiting'[s] = Waiting[s]
  PROVE  SwitchesFollow'
  BY DEF SwitchesFollow

\* A switch whose slot is empty changes: its event says how.
LEMMA SwitchChanges ==
  ASSUME Typed, SwitchesFollow, NEW now, now \subseteq Switches, held' = now,
         \A s \in Switches : s \in SymDiff(held, now) => ~(poll.at = s /\ poll.stage = "done"),
         ev' = Switched(ev, now), guest' = guest, poll' = poll
  PROVE  SwitchesFollow'
<1>1. held \subseteq Switches /\ ev \in [Slots -> Event]
  BY DEF Typed, TypeOK
<1>2. Switches \subseteq Slots
  BY SlotsAre
<1>3. \A s \in Switches : s \notin SymDiff(held, now) => Waiting'[s] = Waiting[s]
  <2>1. \A s \in Slots : s \notin SymDiff(held, now) => Switched(ev, now)[s] = ev[s]
    BY <1>1, SwitchedIs
  <2> QED
    BY <1>2, <2>1, WaitingThen
<1>4. \A s \in Switches : s \in SymDiff(held, now) => Waiting'[s] = ev'[s]
  BY <1>2, WaitingThen
<1>5. \A s \in now \ held : Waiting'[s].type = "down"
  <2>1. \A s \in now \ held : ev'[s].type = "down" /\ s \in Switches /\ s \in SymDiff(held, now)
    BY <1>1, SwitchedIs DEF SymDiff
  <2> QED
    BY <1>4, <2>1
<1>6. \A s \in held \ now : Waiting'[s].type = "up"
  <2>1. \A s \in held \ now : ev'[s].type = "up" /\ s \in Switches /\ s \in SymDiff(held, now)
    BY <1>1, SwitchedIs DEF SymDiff
  <2> QED
    BY <1>4, <2>1
<1> SUFFICES ASSUME NEW s \in Switches
             PROVE  \/ Waiting'[s].type = None /\ (s \in guest'.switches <=> s \in held')
                    \/ Waiting'[s].type = "down" /\ s \in held'
                    \/ Waiting'[s].type = "up" /\ s \notin held'
  BY DEF SwitchesFollow
<1>7. CASE s \in now \ held
  BY <1>5, <1>7
<1>8. CASE s \in held \ now
  BY <1>6, <1>8
<1>9. CASE s \notin SymDiff(held, now)
  <2>1. s \in now <=> s \in held
    BY <1>9 DEF SymDiff
  <2> QED
    BY <1>3, <1>9, <2>1 DEF SwitchesFollow
<1> QED
  BY <1>7, <1>8, <1>9 DEF SymDiff

\* A key is added or dropped when no slot holds an event of a key: its event
\* says which.
LEMMA KeyChanges ==
  ASSUME Typed, KeysFollow, raw' \in Reports, Remembers(last', KeysOf(raw')),
         guest' = guest, poll' = poll,
         \A s \in KeySlots : ev[s].type = None /\ (poll.at = s => poll.stage = "look"),
         NEW t \in KeySlots, NEW k \in Keys, NEW type \in {"down", "up"},
         ev' = [ev EXCEPT ![t] = [type |-> type, key |-> k]],
         type = "down" <=> k \in KeysOf(raw'),
         \A j \in Keys : j # k => (j \in KeysOf(raw') <=> j \in KeysOf(raw))
  PROVE  KeysFollow'
<1>1. ev \in [Slots -> Event] /\ t \in Slots /\ KeySlots \subseteq Slots
  BY SlotsAre DEF Typed, TypeOK
<1>2. \A s \in KeySlots : Waiting[s] = ev[s] /\ Waiting'[s] = ev'[s]
  BY <1>1, WaitingThen
<1>3. Waiting'[t].type = type /\ Waiting'[t].key = k
  BY <1>1, <1>2
<1>4. \A s \in KeySlots : s # t => Waiting'[s].type = None
  BY <1>1, <1>2
<1>5. type # None
  BY EventsAre
<1>6. \A s \in KeySlots :
        \/ Waiting'[s].type = None
        \/ Waiting'[s].type = "down" /\ Waiting'[s].key \in KeysOf(raw')
        \/ Waiting'[s].type = "up" /\ Waiting'[s].key \notin KeysOf(raw')
  BY <1>3, <1>4
<1>7. ASSUME NEW j \in Keys
      PROVE  \/ \E s \in KeySlots : Waiting'[s].type # None /\ Waiting'[s].key = j
             \/ j \in guest'.keys <=> j \in KeysOf(raw')
  <2>1. CASE j = k
    BY <1>3, <1>5, <2>1
  <2>2. CASE j # k
    BY <1>2, <2>2 DEF KeysFollow
  <2> QED
    BY <2>1, <2>2
<1> QED
  BY <1>6, <1>7 DEF KeysFollow
LEMMA FollowsKeyReport ==
  ASSUME Patient, Typed, Follows, KeyReport
  PROVE  Follows'
<1>1. PICK m \in SUBSET ModSlots, r \in Reports :
        LET now == m \cup (held \cap ButtonSlots)
            st  == ScanReport(r, [last |-> last, ev |-> Switched(ev, now)])
        IN  /\ Changes(now, r) = 1 /\ Waits(ModSlots \cup KeySlots)
            /\ raw' = r /\ held' = now
            /\ last' = st.last /\ ev' = st.ev
            /\ UNCHANGED <<mouse, poll, guest>>
  BY DEF KeyReport
<1>2. PICK now : now = m \cup (held \cap ButtonSlots)
  OBVIOUS
<1>3. PICK h : h = [last |-> last, ev |-> Switched(ev, now)]
  OBVIOUS
<1>4. PICK st : st = ScanReport(r, h)
  OBVIOUS
<1>5. /\ Changes(now, r) = 1 /\ Waits(ModSlots \cup KeySlots)
      /\ raw' = r /\ held' = now /\ last' = st.last /\ ev' = st.ev
      /\ poll' = poll /\ guest' = guest
  BY <1>1, <1>2, <1>3, <1>4
<1>6. /\ now \subseteq Switches /\ held \subseteq Switches
      /\ \A s \in Switches : s \in SymDiff(held, now) => s \in ModSlots
  BY <1>2, SlotsAre DEF Typed, TypeOK, SymDiff
<1>7. /\ ev \in [Slots -> Event] /\ Switched(ev, now) \in [Slots -> Event]
      /\ raw \in [Positions -> Keys \cup {None}] /\ last \in [Positions -> Keys \cup {None}]
      /\ r \in [Positions -> Keys \cup {None}]
  BY <1>6, SwitchedIs DEF Typed, TypeOK, Reports
<1>8. h \in Handler /\ h.last = last /\ h.ev = Switched(ev, now)
  BY <1>3, <1>7 DEF Handler
<1>9. /\ \A s \in ModSlots \cup KeySlots : ev[s].type = None
      /\ poll.stage # "look" => poll.at \notin ModSlots \cup KeySlots
  BY <1>5 DEF Waits
<1>10. KeysFollow /\ SwitchesFollow /\ PollSees /\ Remembers(last, KeysOf(raw))
       /\ raw \in Reports
  BY DEF Follows, KeysFollow
<1>11. poll.at \in Slots
  BY DEF Typed, TypeOK
<1>12. CASE KeysOf(r) = KeysOf(raw)
  <2>1. KeysOf(h.last) = KeysOf(r)
    BY <1>8, <1>10, <1>12 DEF Remembers
  <2>2. st = h
    BY <1>4, <1>7, <1>8, <2>1, ScanNothing
  <2>3. ev' = Switched(ev, now) /\ last' = last
    BY <1>5, <1>8, <2>2
  <2>4. \A s \in KeySlots : ev'[s] = ev[s]
    BY <1>6, <1>7, <2>3, SwitchedIs
  <2>5. KeysFollow'
    <3>1. \A s \in KeySlots : Waiting'[s] = Waiting[s]
      BY <1>5, <2>4, SlotsAre, WaitingThen
    <3> QED
      BY <1>5, <1>10, <1>12, <2>3, <3>1, KeysFollowStill
  <2>6. \A s \in Switches : s \in SymDiff(held, now) => ~(poll.at = s /\ poll.stage = "done")
    BY <1>6, <1>9
  <2>7. SwitchesFollow'
    BY <1>5, <1>6, <1>10, <2>3, <2>6, SwitchChanges
  <2>8. poll.stage # "look" => ev'[poll.at] = ev[poll.at]
    <3>1. SymDiff(held, now) \subseteq ModSlots
      BY <1>6 DEF SymDiff
    <3>2. \A s \in Slots : s \notin SymDiff(held, now) => ev'[s] = ev[s]
      BY <1>6, <1>7, <2>3, SwitchedIs
    <3> QED
      BY <1>9, <1>11, <3>1, <3>2
  <2>9. PollSees'
    BY <1>5, <1>10, <2>8, PollSeesStill
  <2> QED
    BY <2>5, <2>7, <2>9 DEF Follows
<1>13. ASSUME now = held, NEW k \in Keys, NEW type \in {"down", "up"}, NEW p \in Positions,
              st.ev = [h.ev EXCEPT ![KeySlot(p)] = [type |-> type, key |-> k]],
              Remembers(st.last, KeysOf(r)), type = "down" <=> k \in KeysOf(r),
              \A j \in Keys : j # k => (j \in KeysOf(r) <=> j \in KeysOf(raw))
       PROVE  Follows'
  <2>1. h.ev = ev
    <3>1. \A s \in Slots : s \notin SymDiff(held, now)
      BY <1>13 DEF SymDiff
    <3>2. \A s \in Slots : Switched(ev, now)[s] = ev[s]
      BY <1>6, <1>7, <3>1, SwitchedIs
    <3> QED
      BY <1>7, <1>8, <3>2
  <2>2. PICK t \in KeySlots : t = KeySlot(p)
    BY SlotsAre
  <2>3. ev' = [ev EXCEPT ![t] = [type |-> type, key |-> k]]
    BY <1>5, <1>13, <2>1, <2>2
  <2>4. KeysFollow'
    <3>1. \A s \in KeySlots : ev[s].type = None /\ (poll.at = s => poll.stage = "look")
      BY <1>9
    <3>2. raw' \in Reports /\ Remembers(last', KeysOf(raw')) /\ guest' = guest
      BY <1>5, <1>13
    <3>3. /\ type = "down" <=> k \in KeysOf(raw')
          /\ \A j \in Keys : j # k => (j \in KeysOf(raw') <=> j \in KeysOf(raw))
      BY <1>5, <1>13
    <3> QED
      BY <1>5, <1>10, <2>3, <3>1, <3>2, <3>3, KeyChanges
  <2>5. \A s \in Slots : s # t => ev'[s] = ev[s]
    BY <1>7, <2>3
  <2>6. SwitchesFollow'
    <3>1. \A s \in Switches : s \in Slots /\ s # t
      BY SlotsAre
    <3>2. \A s \in Switches : Waiting'[s] = Waiting[s]
      BY <1>5, <2>5, <3>1, WaitingThen
    <3> QED
      BY <1>5, <1>10, <1>13, <3>2, SwitchesFollowStill
  <2>7. poll.stage # "look" => ev'[poll.at] = ev[poll.at]
    BY <1>9, <1>11, <2>5
  <2>8. PollSees'
    BY <1>5, <1>10, <2>7, PollSeesStill
  <2> QED
    BY <2>4, <2>6, <2>8 DEF Follows
<1>14. ASSUME now = held, NEW k \in Keys, k \notin KeysOf(raw),
              KeysOf(r) = KeysOf(raw) \cup {k}
       PROVE  Follows'
  <2>1. PICK p \in Positions :
          /\ st.ev = [h.ev EXCEPT ![KeySlot(p)] = [type |-> "down", key |-> k]]
          /\ Remembers(st.last, KeysOf(raw) \cup {k})
    <3>1. None \in Range(last)
      BY <1>7, <1>10, <1>14, RoomToRemember
    <3>2. None \in Range(h.last) /\ Remembers(h.last, KeysOf(raw))
      BY <1>8, <1>10, <3>1
    <3>3. \E p \in Positions :
            /\ ScanReport(r, h).ev =
                 [h.ev EXCEPT ![KeySlot(p)] = [type |-> "down", key |-> k]]
            /\ Remembers(ScanReport(r, h).last, KeysOf(raw) \cup {k})
      BY <1>8, <1>14, <3>2, ScanAppears
    <3> QED
      BY <1>4, <3>3
  <2>2. "down" = "down" <=> k \in KeysOf(r)
    BY <1>14
  <2> QED
    BY <1>13, <1>14, <2>1, <2>2
<1>15. ASSUME now = held, NEW k \in KeysOf(raw), k \in Keys,
              KeysOf(r) = KeysOf(raw) \ {k}
       PROVE  Follows'
  <2>1. PICK p \in Positions :
          /\ st.ev = [h.ev EXCEPT ![KeySlot(p)] = [type |-> "up", key |-> k]]
          /\ Remembers(st.last, KeysOf(raw) \ {k})
    <3>1. Remembers(h.last, KeysOf(raw))
      BY <1>8, <1>10
    <3>2. \E p \in Positions :
            /\ ScanReport(r, h).ev =
                 [h.ev EXCEPT ![KeySlot(p)] = [type |-> "up", key |-> k]]
            /\ Remembers(ScanReport(r, h).last, KeysOf(raw) \ {k})
      BY <1>7, <1>8, <1>15, <3>1, ScanDisappears
    <3> QED
      BY <1>4, <3>2
  <2>2. "up" = "down" <=> k \in KeysOf(r)
    BY <1>15
  <2> QED
    BY <1>13, <1>15, <2>1, <2>2
<1> QED
  BY <1>5, <1>6, <1>7, <1>12, <1>14, <1>15, OneChange
LEMMA FollowsMouse ==
  ASSUME Patient, Typed, Follows,
         \/ \E d \in Moves : MouseMove(d)
         \/ \E b \in ButtonSlots : MouseButton(b)
         \/ BeginConfigure \/ EndConfigure \/ UNCHANGED vars
  PROVE  Follows'
<1>1. /\ ev \in [Slots -> Event] /\ poll.at \in Slots /\ held \subseteq Switches
      /\ PollSees /\ KeysFollow /\ SwitchesFollow
      /\ raw \in Reports /\ Remembers(last, KeysOf(raw))
  BY DEF Typed, TypeOK, Follows, KeysFollow
<1>2. \A s \in KeySlots \cup Switches : s \in Slots /\ s # MotionSlot
  BY SlotsAre
<1>3. ASSUME UNCHANGED <<raw, last, held, guest, poll>>, NEW e,
             ev' = [ev EXCEPT ![MotionSlot] = e]
      PROVE  Follows'
  <2>1. \A s \in Slots : s # MotionSlot => ev'[s] = ev[s]
    BY <1>1, <1>3
  <2>2. \A s \in KeySlots : Waiting'[s] = Waiting[s]
    BY <1>2, <1>3, <2>1, WaitingThen
  <2>3. \A s \in Switches : Waiting'[s] = Waiting[s]
    BY <1>2, <1>3, <2>1, WaitingThen
  <2>4. poll.at # MotionSlot => ev'[poll.at] = ev[poll.at]
    BY <1>1, <2>1
  <2>5. PollSees'
    BY <1>1, <1>3, <2>4, PollSeesStill
  <2>6. KeysFollow'
    BY <1>1, <1>3, <2>2, KeysFollowStill
  <2>7. SwitchesFollow'
    BY <1>1, <1>3, <2>3, SwitchesFollowStill
  <2> QED
    BY <2>5, <2>6, <2>7 DEF Follows
<1>4. CASE \E d \in Moves : MouseMove(d)
  <2>1. PICK d \in Moves : MouseMove(d)
    BY <1>4
  <2>2. /\ UNCHANGED <<raw, last, held, guest, poll>>
        /\ ev' = [ev EXCEPT ![MotionSlot].type = "move"]
    BY <2>1 DEF MouseMove, keyboard
  <2> QED
    BY <1>3, <2>2
<1>5. CASE \E b \in ButtonSlots : MouseButton(b)
  <2>1. PICK b \in ButtonSlots : MouseButton(b)
    BY <1>5
  <2>2. PICK now : now = IF b \in held THEN held \ {b} ELSE held \cup {b}
    OBVIOUS
  <2>3. /\ ev[b].type = None /\ (poll.at = b => poll.stage = "look")
        /\ held' = now /\ ev' = Switched(ev, now)
        /\ UNCHANGED <<raw, last, guest, poll>>
    BY <2>1, <2>2 DEF MouseButton, Waits, keyboard
  <2>4. b \in Switches /\ now \subseteq Switches /\ SymDiff(held, now) = {b}
    BY <1>1, <2>2, SlotsAre DEF SymDiff
  <2>5. \A s \in Slots : s # b => ev'[s] = ev[s]
    BY <1>1, <2>3, <2>4, SwitchedIs
  <2>6. \A s \in KeySlots : Waiting'[s] = Waiting[s]
    BY <2>3, <2>4, <2>5, SlotsAre, WaitingThen
  <2>7. PollSees'
    BY <1>1, <2>3, <2>5, PollSeesStill
  <2>8. KeysFollow'
    BY <1>1, <2>3, <2>6, KeysFollowStill
  <2>9. SwitchesFollow'
    BY <1>1, <2>3, <2>4, SwitchChanges
  <2> QED
    BY <2>7, <2>8, <2>9 DEF Follows
<1>6. CASE UNCHANGED vars
  <2>1. UNCHANGED <<raw, last, held, guest, poll, ev>>
    BY <1>6 DEF vars
  <2>2. \A s \in KeySlots \cup Switches : Waiting'[s] = Waiting[s]
    BY <1>2, <2>1, WaitingThen
  <2> QED
    BY <1>1, <2>1, <2>2, PollSeesStill, KeysFollowStill, SwitchesFollowStill DEF Follows
<1>7. CASE BeginConfigure \/ EndConfigure
  <2>1. /\ UNCHANGED <<raw, last, held, guest, ev>> /\ poll.stage # "done"
        /\ poll'.stage # "done" /\ poll'.at = MotionSlot
    BY <1>7 DEF BeginConfigure, EndConfigure, Looking, keyboard
  <2>2. \A s \in KeySlots \cup Switches : Waiting'[s] = Waiting[s]
    BY <1>2, <2>1 DEF Waiting
  <2>3. PollSees'
    BY <2>1 DEF PollSees
  <2> QED
    BY <1>1, <2>1, <2>2, <2>3, KeysFollowStill, SwitchesFollowStill DEF Follows
<1> QED
  BY <1>4, <1>5, <1>6, <1>7

\* The slot is polled: what was told of its key or switch is what it said.
LEMMA FollowsDeliver ==
  ASSUME Typed, Follows, Deliver
  PROVE  Follows'
<1>1. PICK s \in Slots : s = poll.at
  BY DEF Typed, TypeOK
<1>2. /\ poll.stage = "done" /\ poll'.stage = "look" /\ UNCHANGED <<raw, last, held, ev>>
      /\ poll.at # MotionSlot => ev[s].type = None /\ poll.got.type # None
  BY <1>1 DEF Deliver, Looking, keyboard, Follows, PollSees
<1>3. /\ guest'.keys = (IF s \in KeySlots THEN Told(guest.keys, Waiting[s].type, Waiting[s].key)
                        ELSE guest.keys)
      /\ guest'.switches = (IF s \in Switches THEN Told(guest.switches, Waiting[s].type, s)
                            ELSE guest.switches)
  <2>1. Waiting[s] = poll.got
    BY <1>1, <1>2, WaitingIs
  <2> QED
    BY <1>1, <2>1 DEF Deliver
<1>4. /\ s # MotionSlot => Waiting'[s].type = None
      /\ s # MotionSlot => Waiting[s].type # None
      /\ \A t \in Slots : t # s => Waiting'[t] = Waiting[t]
  BY <1>1, <1>2 DEF Waiting
<1>5. /\ \A t \in KeySlots : t \in Slots /\ t \notin Switches /\ t # MotionSlot
      /\ \A t \in Switches : t \in Slots /\ t # MotionSlot
      /\ None # "down" /\ None # "up"
  BY SlotsAre, EventsAre
<1>6. PollSees'
  BY <1>2 DEF PollSees
<1>7. KeysFollow'
  <2>1. raw' \in Reports /\ Remembers(last', KeysOf(raw')) /\ raw' = raw
    BY <1>2 DEF Follows, KeysFollow
  <2>2. \A t \in KeySlots :
          \/ Waiting'[t].type = None
          \/ Waiting'[t].type = "down" /\ Waiting'[t].key \in KeysOf(raw')
          \/ Waiting'[t].type = "up" /\ Waiting'[t].key \notin KeysOf(raw')
    BY <1>4, <1>5, <2>1 DEF Follows, KeysFollow
  <2>3. ASSUME NEW k \in Keys, \A t \in KeySlots : ~(Waiting'[t].type # None /\ Waiting'[t].key = k)
        PROVE  k \in guest'.keys <=> k \in KeysOf(raw')
    <3>1. \A t \in KeySlots : t # s => ~(Waiting[t].type # None /\ Waiting[t].key = k)
      BY <1>4, <1>5, <2>3
    <3>2. CASE s \in KeySlots /\ Waiting[s].key = k
      BY <1>3, <1>4, <1>5, <2>1, <3>2 DEF Follows, KeysFollow, Told
    <3>3. CASE ~(s \in KeySlots /\ Waiting[s].key = k)
      <4>1. k \in guest.keys <=> k \in KeysOf(raw)
        BY <3>1, <3>3 DEF Follows, KeysFollow
      <4>2. k \in guest'.keys <=> k \in guest.keys
        BY <1>3, <3>3 DEF Told
      <4> QED
        BY <2>1, <4>1, <4>2
    <3> QED
      BY <3>2, <3>3
  <2> QED
    BY <2>1, <2>2, <2>3 DEF KeysFollow
<1>8. SwitchesFollow'
  <2> SUFFICES ASSUME NEW t \in Switches
               PROVE  \/ Waiting'[t].type = None /\ (t \in guest'.switches <=> t \in held')
                      \/ Waiting'[t].type = "down" /\ t \in held'
                      \/ Waiting'[t].type = "up" /\ t \notin held'
    BY DEF SwitchesFollow
  <2>1. CASE t = s
    <3>1. t \in guest'.switches <=> t \in held
      BY <1>3, <1>4, <1>5, <2>1 DEF Follows, SwitchesFollow, Told
    <3> QED
      BY <1>2, <1>4, <1>5, <2>1, <3>1
  <2>2. CASE t # s
    <3>1. t \in guest'.switches <=> t \in guest.switches
      BY <1>3, <2>2 DEF Told
    <3> QED
      BY <1>2, <1>4, <1>5, <2>2, <3>1 DEF Follows, SwitchesFollow
  <2> QED
    BY <2>1, <2>2
<1> QED
  BY <1>6, <1>7, <1>8 DEF Follows

LEMMA FollowsPoll ==
  ASSUME Typed, Follows, Poll
  PROVE  Follows'
<1>1. /\ PollSees /\ KeysFollow /\ SwitchesFollow
      /\ raw \in Reports /\ Remembers(last, KeysOf(raw))
      /\ ev \in [Slots -> Event] /\ poll.at \in Slots
      /\ poll \in [at : Slots, stage : Stages, got : Event, moved : Int]
  BY DEF Follows, KeysFollow, Typed, TypeOK
<1>2. \A s \in KeySlots \cup Switches : s \in Slots /\ s # MotionSlot
  BY SlotsAre
<1>3. ASSUME UNCHANGED <<raw, last, held, guest>>,
             \A s \in KeySlots \cup Switches : Waiting'[s] = Waiting[s]
      PROVE  KeysFollow' /\ SwitchesFollow'
  BY <1>1, <1>3, KeysFollowStill, SwitchesFollowStill
<1>4. CASE LookFurther
  <2>1. /\ UNCHANGED <<raw, last, held, guest, ev>>
        /\ poll.stage = "look" /\ poll'.stage = "look"
    BY <1>1, <1>4 DEF LookFurther, keyboard
  <2>2. PollSees'
    BY <2>1 DEF PollSees
  <2>3. \A s \in KeySlots \cup Switches : Waiting'[s] = Waiting[s]
    BY <1>2, <2>1 DEF Waiting
  <2> QED
    BY <1>3, <2>1, <2>2, <2>3 DEF Follows
<1>5. CASE CopyType
  <2>1. /\ UNCHANGED <<raw, last, held, guest, ev>> /\ poll.stage = "look"
        /\ poll'.stage = "type" /\ poll'.at = poll.at
        /\ poll'.got.type = ev[poll.at].type /\ ev[poll.at].type # None
    BY <1>1, <1>5 DEF CopyType, keyboard, Event
  <2>2. PollSees'
    BY <2>1 DEF PollSees
  <2>3. \A s \in KeySlots \cup Switches : Waiting'[s] = Waiting[s]
    BY <1>2, <2>1 DEF Waiting
  <2> QED
    BY <1>3, <2>1, <2>2, <2>3 DEF Follows
<1>6. CASE CopyRest
  <2>1. /\ UNCHANGED <<raw, last, held, guest, ev>> /\ poll.stage = "type"
        /\ poll'.stage = "copied" /\ poll'.at = poll.at
        /\ poll'.got = [poll.got EXCEPT !.key = ev[poll.at].key]
    BY <1>1, <1>6 DEF CopyRest, keyboard
  <2>2. poll.at # MotionSlot => poll.got.type = ev[poll.at].type /\ ev[poll.at].type # None
    BY <1>1, <2>1 DEF PollSees
  <2>3. poll.got \in Event /\ ev[poll.at] \in Event
    BY <1>1
  <2>4. \A g, e \in Event : g.type = e.type => [g EXCEPT !.key = e.key] = e
    BY DEF Event
  <2>5. poll.at # MotionSlot => poll'.got = ev[poll.at]
    BY <2>1, <2>2, <2>3, <2>4
  <2>6. PollSees'
    BY <2>1, <2>2, <2>5 DEF PollSees
  <2>7. \A s \in KeySlots \cup Switches : Waiting'[s] = Waiting[s]
    BY <1>2, <2>1 DEF Waiting
  <2> QED
    BY <1>3, <2>1, <2>6, <2>7 DEF Follows
<1>7. CASE ClearType
  <2>1. /\ UNCHANGED <<raw, last, held, guest>> /\ poll.stage = "copied"
        /\ ev' = [ev EXCEPT ![poll.at].type = None]
        /\ poll'.at = poll.at /\ poll'.got = poll.got
        /\ poll'.stage = (IF poll.at = MotionSlot THEN "untyped" ELSE "done")
    BY <1>1, <1>7 DEF ClearType, Cleared, keyboard
  <2>2. poll.at # MotionSlot => ev[poll.at].type # None /\ poll.got = ev[poll.at]
    BY <1>1, <2>1 DEF PollSees
  <2>3. /\ ev'[poll.at].type = None
        /\ \A s \in Slots : s # poll.at => ev'[s] = ev[s]
    BY <1>1, <2>1
  <2>4. PollSees'
    BY <2>1, <2>2, <2>3 DEF PollSees
  <2>5. ASSUME NEW s \in KeySlots \cup Switches PROVE Waiting'[s] = Waiting[s]
    <3>1. CASE s = poll.at
      BY <1>2, <2>1, <2>2, <3>1 DEF Waiting
    <3>2. CASE s # poll.at
      BY <1>2, <2>1, <2>3, <3>2 DEF Waiting
    <3> QED
      BY <3>1, <3>2
  <2> QED
    BY <1>3, <2>1, <2>4, <2>5 DEF Follows
<1>8. CASE ClearMotion
  <2>1. /\ UNCHANGED <<raw, last, held, guest, ev>> /\ poll.at = MotionSlot
        /\ poll'.at = poll.at
    BY <1>1, <1>8 DEF ClearMotion, keyboard, Typed
  <2>2. PollSees'
    BY <2>1 DEF PollSees
  <2>3. \A s \in KeySlots \cup Switches : Waiting'[s] = Waiting[s]
    BY <1>2, <2>1 DEF Waiting
  <2> QED
    BY <1>3, <2>1, <2>2, <2>3 DEF Follows
<1> QED
  BY <1>4, <1>5, <1>6, <1>7, <1>8, FollowsDeliver DEF Poll

\* When the user changes one key, modifier or button at a time and not before
\* the last change was polled, the guest never keeps a key or a button down
\* that was let go, nor misses one that is held: what it was told last of each
\* is what the last report says, once no event about it is on its way.
THEOREM GuestFollowsUser == ASSUME Patient PROVE Spec => []GuestFollows
<1>1. Typed /\ Follows => GuestFollows
  BY FollowsIsEnough
<1>2. Init => Typed /\ Follows
  BY TypedInit, FollowsInit
<1>3. Typed /\ Follows /\ [Next]_vars => Typed' /\ Follows'
  <2> SUFFICES ASSUME Typed, Follows, [Next]_vars PROVE Typed' /\ Follows'
    OBVIOUS
  <2>1. Typed'
    BY TypedNext
  <2>2. Follows'
    BY FollowsKeyReport, FollowsMouse, FollowsPoll DEF Next
  <2> QED
    BY <2>1, <2>2
<1> QED
  BY <1>1, <1>2, <1>3, PTL DEF Spec

=============================================================================
