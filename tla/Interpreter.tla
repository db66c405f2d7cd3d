---------------------------- MODULE Interpreter ----------------------------
(***************************************************************************)
(* What the guest can rely on of its processor's instruction fetch: every  *)
(* instruction executed is the one memory holds, but at the places in      *)
(* "unseen".  A place enters "unseen" only when it is written              *)
(*                                                                         *)
(*   - through a linear page that is blind: another linear page of the     *)
(*     same physical page was run since this one was last invalidated;     *)
(*   - by the instructions of a page into that page itself, when one of    *)
(*     them has stored into it already and none has jumped since;          *)
(*   - by a device, at the places its transfer misses;                     *)
(*                                                                         *)
(* and it leaves when it is written in any other way.  CodeCache           *)
(* implements this: a guest that avoids the three never executes a stale   *)
(* instruction.                                                            *)
(***************************************************************************)
EXTENDS Integers

CONSTANTS
  Frame,      \* the physical pages
  Lin,        \* the linear pages
  PageSize,   \* the instructions of a page
  Targets,    \* the offsets jumped to
  Transfers,  \* transfers of a device: the places written, and those it misses
  None        \* no physical page

Offset  == 0 .. PageSize - 1
Content == {"go", "jump"}

VARIABLES
  memory,     \* what each physical page holds
  map,        \* the physical page of each linear page that has one
  pc,         \* the instruction to execute next
  from,       \* the physical page it comes from: where pc.lin was when entered
  modified,   \* the instructions since the last jump stored into that page
  blind,      \* the linear pages through which stores may go unseen
  unseen      \* the places where an older instruction may be executed

vars == <<memory, map, pc, from, modified, blind, unseen>>

Init ==
  /\ memory \in [Frame -> [Offset -> Content]]
  /\ map \in [Lin -> Frame \cup {None}]
  /\ pc \in [lin : {l \in Lin : map[l] \in Frame}, offset : Offset]
  /\ from = map[pc.lin]
  /\ modified = FALSE /\ blind = {} /\ unseen = {}

-----------------------------------------------------------------------------

\* Only these places change, and of them those in "missed" may go unseen.
Writes(places, missed) ==
  /\ UNCHANGED map
  /\ unseen' \subseteq (unseen \ places) \cup missed
  /\ \A f \in Frame, o \in Offset : <<f, o>> \notin places => memory'[f][o] = memory[f][o]
  /\ memory' \in [Frame -> [Offset -> Content]]

WritesNothing == UNCHANGED <<memory, map>> /\ unseen' \subseteq unseen

\* The instruction c falls through, or goes to any page there is.
Falls(c) == c = "go" /\ pc.offset + 1 \in Offset

Goes(c) ==
  IF Falls(c) THEN pc' = [pc EXCEPT !.offset = @ + 1]
  ELSE pc' \in [lin : {l \in Lin : map'[l] \in Frame}, offset : Targets]

Compute == WritesNothing /\ blind' \subseteq blind /\ (modified' => modified)

\* A store through the page tables.
Store(l, o) ==
  LET f      == map[l]
      missed == l \in blind \/ (f = from /\ modified)
  IN /\ f \in Frame
     /\ Writes({<<f, o>>}, IF missed THEN {<<f, o>>} ELSE {})
     /\ blind' \subseteq blind
     /\ modified' => modified \/ f = from

\* A mapping changes and is invalidated: stores through it are seen again.
Remap(l, f) ==
  /\ map' = [map EXCEPT ![l] = f]
  /\ UNCHANGED memory /\ unseen' \subseteq unseen
  /\ blind' \subseteq blind \ {l} /\ (modified' => modified)

\* A device fills memory.
Transfer(t) ==
  /\ Writes(t.places, t.missed)
  /\ blind' \subseteq blind /\ (modified' => modified)

\* The instruction executed is the one memory holds, where that is not unseen.
Executed ==
  {c \in Content : c = memory[from][pc.offset] \/ <<from, pc.offset>> \in unseen}

\* An instruction is executed.  A page that is left is looked up again; a jump
\* ends what was modified.
Execute ==
  /\ \E c \in Executed : Goes(c) /\ (modified' => Falls(c))
  /\ from' = IF pc'.lin = pc.lin THEN from ELSE map'[pc'.lin]
  /\ \/ Compute
     \/ \E l \in Lin, o \in Offset : Store(l, o)
     \/ \E l \in Lin, f \in Frame \cup {None} : Remap(l, f)
     \/ \E t \in Transfers : Transfer(t)

\* CR3 is reloaded: no page is blind, and the next instruction's is looked up.
Reload ==
  /\ \E c \in Executed : Goes(c)
  /\ WritesNothing
  /\ from' = map[pc'.lin] /\ blind' = {} /\ ~modified'

\* The page of the next instruction is about to run: its other linear pages may
\* go blind.  Older instructions may be forgotten.
Enter ==
  /\ blind' \subseteq blind \cup {l \in Lin \ {pc.lin} : map[l] = from}
  /\ unseen' \subseteq unseen
  /\ modified' => modified
  /\ UNCHANGED <<memory, map, pc, from>>

Next == Enter \/ Reload \/ Execute

Spec == Init /\ [][Next]_vars
=============================================================================
