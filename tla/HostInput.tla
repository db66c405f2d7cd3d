----------------------------- MODULE HostInput -----------------------------
(***************************************************************************)
(* The path of a USB keyboard and mouse to the guest: kernel.cpp, between  *)
(* the handlers Circle calls at interrupt time and SDL_PollEvent, which    *)
(* display_handle_events calls from the emulator's loop on the same core.  *)
(*                                                                         *)
(* The two share one event slot per modifier, per position of a keyboard   *)
(* report and per mouse button, and one for motion.  A handler runs to     *)
(* completion between any two steps of the loop: a poll reads a slot's     *)
(* type, copies the rest and clears it field by field, and a change of the *)
(* video mode moves the cursor before it notes where it is.                *)
(*                                                                         *)
(* Slots are numbered in the order the poll visits them.  Only one axis of *)
(* the mouse is modelled, and only the modifiers that have a scan code:    *)
(* send_keymod_scancode ignores the two KMOD_META.                         *)
(***************************************************************************)
EXTENDS Integers, FiniteSetsExt, Functions

CONSTANTS
  Keys,        \* the keys of the keyboard
  NKeySlots,   \* keys a report can hold: 6 in the code
  NMods,       \* modifiers with an event slot
  NButtons,    \* mouse buttons: 3 in the code
  Moves,       \* the distances the mouse moves at once
  Width,       \* the screen's width: the cursor stays in 0 .. Width
  MaxRel,      \* bound on the motion that accumulates in the slot
  Patient,     \* reports come one change at a time, each after the last was polled
  None

ASSUME HostInputAssumption ==
  /\ NKeySlots \in Nat \ {0} /\ NMods \in Nat /\ NButtons \in Nat
  /\ Moves \subseteq Int /\ Width \in Nat /\ MaxRel \in Nat
  /\ Patient \in BOOLEAN /\ None \notin Keys \cup {"down", "up", "move"}

Positions   == 1 .. NKeySlots
MotionSlot  == 0
ModSlots    == 1 .. NMods
KeySlot(i)  == NMods + i
KeySlots    == {KeySlot(i) : i \in Positions}
ButtonSlots == (NMods + NKeySlots + 1) .. (NMods + NKeySlots + NButtons)
Switches    == ModSlots \cup ButtonSlots
Slots       == {MotionSlot} \cup KeySlots \cup Switches
LastSlot    == Max(Slots)

VARIABLES
  raw,      \* the keyboard's last report, RawKeys
  held,     \* the modifiers (lc, ls, .., rw) and mouse buttons held, by their slots
  last,     \* lastRawKeys, the keys the handler remembers as held
  ev,       \* static_event, static_mod_event, static_mouse_button_event and the
            \* type of static_mouse_move_event
  rel,      \* motion_xrel of static_mouse_move_event
  cursor,   \* the position Circle keeps for the mouse
  lastX,    \* lastmousex
  owed,     \* history: the motion the guest is to be sent and has not been yet
  jolted,   \* history: motion came while the loop configured the mouse, none since
  poll,     \* the loop: the slot SDL_PollEvent looks at, and the copy it makes
  guest     \* the keys and switches the guest was told are down

vars == <<raw, held, last, ev, rel, cursor, lastX, owed, jolted, poll, guest>>
keyboard == <<raw, last>>
mouse == <<rel, cursor, lastX, owed, jolted>>

Event == [type : {None, "down", "up", "move"}, key : Keys \cup {None}]
NoEvent == [type |-> None, key |-> None]
Stages  == {"look", "type", "copied", "untyped", "done", "configure"}

TypeOK ==
  /\ raw \in [Positions -> Keys \cup {None}]
  /\ held \subseteq Switches
  /\ last \in [Positions -> Keys \cup {None}]
  /\ ev \in [Slots -> Event]
  /\ {rel, owed} \subseteq Int
  /\ {cursor, lastX} \subseteq 0 .. Width
  /\ jolted \in BOOLEAN
  /\ poll \in [at : Slots, stage : Stages, got : Event, moved : Int]
  /\ guest \in [keys : SUBSET Keys, switches : SUBSET Switches]

-----------------------------------------------------------------------------
(* The keyboard handler.                                                   *)

KeysOf(r) == Range(r) \ {None}

\* What a boot keyboard reports: its keys once each, packed at the front.
Reports ==
  {r \in [Positions -> Keys \cup {None}] :
     /\ \A i, j \in Positions : i # j /\ r[i] = r[j] => r[i] = None
     /\ \A i, j \in Positions : i < j /\ r[i] = None => r[j] = None}

\* The first place of lastRawKeys that remembers no key.
FirstFree(l) == Min({i \in Positions : l[i] = None})

\* The key reported at position i is new: it is remembered in the first place
\* that is free, and its keydown goes to the slot of i.
Appeared(r, st, i) ==
  IF r[i] = None \/ r[i] \in Range(st.last) \/ None \notin Range(st.last) THEN st
  ELSE [st EXCEPT !.last[FirstFree(st.last)] = r[i],
                  !.ev[KeySlot(i)] = [type |-> "down", key |-> r[i]]]

\* Fault: the place of the key that was released is not freed.
DisappearedNotFreed(r, st, i) ==
  IF st.last[i] = None \/ st.last[i] \in Range(r) THEN st
  ELSE [st EXCEPT !.ev[KeySlot(i)] = [type |-> "up", key |-> st.last[i]]]

\* The key remembered at place i is gone: its keyup goes to the slot of i too.
Disappeared(r, st, i) ==
  IF st.last[i] = None \/ st.last[i] \in Range(r) THEN st
  ELSE [st EXCEPT !.last[i] = None,
                  !.ev[KeySlot(i)] = [type |-> "up", key |-> st.last[i]]]

\* An iteration of KeyStatusHandlerRaw's loop, on st = [last, ev] ...
ScanPosition(r, st, i) == Disappeared(r, Appeared(r, st, i), i)

\* ... and the loop: scan[n] is what it has made of the first n positions.
ScanReport(r, st) ==
  LET scan[n \in 0 .. NKeySlots] ==
        IF n = 0 THEN st ELSE ScanPosition(r, scan[n - 1], n)
  IN  scan[NKeySlots]

\* A modifier or a button that changed goes to its own slot.
Switched(e, now) ==
  [s \in Slots |-> IF s \in now \ held THEN [type |-> "down", key |-> None]
                   ELSE IF s \in held \ now THEN [type |-> "up", key |-> None]
                   ELSE e[s]]

\* Reports that come one change at a time, and slowly enough to be polled.
Waits(slots) ==
  /\ \A s \in slots : ev[s].type = None
  /\ poll.at \in slots => poll.stage = "look"

Changes(now, r) ==
  Cardinality(SymDiff(held, now)) + Cardinality(SymDiff(KeysOf(raw), KeysOf(r)))

KeyReport ==
  \E m \in SUBSET ModSlots, r \in Reports :
    LET now == m \cup (held \cap ButtonSlots)
        st  == ScanReport(r, [last |-> last, ev |-> Switched(ev, now)])
    IN  /\ Changes(now, r) > 0
        /\ Patient => Changes(now, r) = 1 /\ Waits(ModSlots \cup KeySlots)
        /\ raw' = r /\ held' = now
        /\ last' = st.last /\ ev' = st.ev
        /\ UNCHANGED <<mouse, poll, guest>>

-----------------------------------------------------------------------------
(* The mouse handler.                                                      *)

Centre == Width \div 2

\* Fault: the cursor may leave the screen.
ClampLow(x) == IF x < 0 THEN 0 ELSE x

\* Circle keeps the cursor on the screen and reports where it is now.
Clamp(x) == IF x < 0 THEN 0 ELSE IF x > Width THEN Width ELSE x

Recentres == ev[MotionSlot].type = "move"

\* Fault: the handler recentres the cursor, not what it remembers of it.
RememberedWhenOffCentre(x) == x

\* lastmousex once the cursor came to x.
Remembered(x) == IF Recentres THEN Centre ELSE x

\* What the guest is sent of the motion, if the slot's distance comes to x: not
\* what was added after it was copied and before it is cleared (kernel.cpp 232-235).
Pending(x) ==
  IF poll.at # MotionSlot \/ poll.stage \in {"look", "type", "configure"} THEN x
  ELSE IF poll.stage = "done" THEN poll.moved + x ELSE poll.moved

\* lastmousex need not be where the cursor is: from the time ConfigureMouse moves
\* the cursor until it says so (880-883) or motion comes; if motion came, from
\* the end of ConfigureMouse until it comes again.
Misplaced == (poll.stage = "configure") # jolted

Erased == poll.at = MotionSlot /\ poll.stage \in {"copied", "untyped"}

\* Motion accumulates until it is polled; the cursor is put back in the
\* centre only by a motion that finds another one not polled yet.
MouseMove(d) ==
  LET x == Clamp(cursor + d)
  IN  /\ x # cursor
      /\ rel' = rel + x - lastX
      /\ rel' \in -MaxRel .. MaxRel
      /\ owed' = IF Misplaced THEN Pending(rel') ELSE IF Erased THEN owed ELSE owed + x - cursor
      /\ lastX' = Remembered(x)
      /\ cursor' = IF Recentres THEN Centre ELSE x
      /\ ev' = [ev EXCEPT ![MotionSlot].type = "move"]
      /\ jolted' = (poll.stage = "configure")
      /\ UNCHANGED <<keyboard, held, poll, guest>>

\* A button goes down or up.
MouseButton(b) ==
  LET now == IF b \in held THEN held \ {b} ELSE held \cup {b}
  IN  /\ Patient => Waits({b})
      /\ held' = now
      /\ ev' = Switched(ev, now)
      /\ UNCHANGED <<keyboard, mouse, poll, guest>>

-----------------------------------------------------------------------------
(* SDL_PollEvent, and the delivery of what it returns.                     *)

\* Fault: the loop over the key slots stops one short.
NextSlotSkipsLastKey(s) ==
  IF s = LastSlot THEN MotionSlot ELSE IF s + 1 = KeySlot(NKeySlots) THEN s + 2 ELSE s + 1

NextSlot(s) == IF s = LastSlot THEN MotionSlot ELSE s + 1

\* The slot is empty: go on to the next, or return SDL_FALSE and be called again.
LookFurther ==
  /\ poll.stage = "look" /\ ev[poll.at].type = None
  /\ poll' = [poll EXCEPT !.at = NextSlot(@)]
  /\ UNCHANGED <<keyboard, held, mouse, ev, guest>>

\* The slot is not empty: memcpy copies its type ...
CopyType ==
  /\ poll.stage = "look" /\ ev[poll.at].type # None
  /\ poll' = [poll EXCEPT !.stage = "type", !.got.type = ev[poll.at].type]
  /\ UNCHANGED <<keyboard, held, mouse, ev, guest>>

\* ... and the fields behind it.
CopyRest ==
  /\ poll.stage = "type"
  /\ poll' = [poll EXCEPT !.stage = "copied", !.got.key = ev[poll.at].key, !.moved = rel]
  /\ UNCHANGED <<keyboard, held, mouse, ev, guest>>

Looking == [at |-> MotionSlot, stage |-> "look", got |-> NoEvent, moved |-> 0]

Told(S, type, x) == IF type = "down" THEN S \cup {x} ELSE S \ {x}

Cleared(s) == [ev EXCEPT ![s].type = None]

\* The slot's type is cleared ...
ClearType ==
  /\ poll.stage = "copied"
  /\ ev' = Cleared(poll.at)
  /\ poll' = [poll EXCEPT !.stage = IF poll.at = MotionSlot THEN "untyped" ELSE "done"]
  /\ UNCHANGED <<keyboard, held, mouse, guest>>

\* ... and the distance, if it is the motion's.
ClearMotion ==
  /\ poll.stage = "untyped"
  /\ rel' = 0
  /\ poll' = [poll EXCEPT !.stage = "done"]
  /\ UNCHANGED <<keyboard, held, ev, cursor, lastX, owed, jolted, guest>>

\* display_handle_events passes the copy to kbd.c; the next poll starts from the
\* first slot.
Deliver ==
  LET s == poll.at
  IN  /\ poll.stage = "done"
      /\ owed' = IF s = MotionSlot THEN owed - poll.moved ELSE owed
      /\ guest' = [keys |-> IF s \in KeySlots
                            THEN Told(guest.keys, poll.got.type, poll.got.key)
                            ELSE guest.keys,
                   switches |-> IF s \in Switches
                                THEN Told(guest.switches, poll.got.type, s)
                                ELSE guest.switches]
      /\ poll' = Looking
      /\ UNCHANGED <<keyboard, held, ev, rel, cursor, lastX, jolted>>

-----------------------------------------------------------------------------
(* ConfigureMouse, when the loop calls it: for a new video mode            *)
(* (wrapResize), or for a mouse that was just plugged in.                  *)

\* SetCursor puts the cursor in the centre ...
BeginConfigure ==
  /\ poll = Looking
  /\ cursor' = Centre /\ jolted' = FALSE
  /\ poll' = [poll EXCEPT !.stage = "configure"]
  /\ UNCHANGED <<keyboard, held, ev, rel, lastX, owed, guest>>

\* ... and only then lastmousex is.
EndConfigure ==
  /\ poll.stage = "configure"
  /\ lastX' = Centre
  /\ poll' = Looking
  /\ UNCHANGED <<keyboard, held, ev, rel, cursor, owed, jolted, guest>>

-----------------------------------------------------------------------------

Init ==
  /\ raw = [i \in Positions |-> None] /\ last = raw
  /\ held = {}
  /\ ev = [s \in Slots |-> NoEvent]
  /\ rel = 0 /\ owed = 0 /\ jolted = FALSE
  /\ cursor = Centre /\ lastX = Centre
  /\ poll = Looking
  /\ guest = [keys |-> {}, switches |-> {}]

Poll == LookFurther \/ CopyType \/ CopyRest \/ ClearType \/ ClearMotion \/ Deliver

Next ==
  \/ KeyReport
  \/ \E d \in Moves : MouseMove(d)
  \/ \E b \in ButtonSlots : MouseButton(b)
  \/ BeginConfigure \/ EndConfigure
  \/ Poll

Spec == Init /\ [][Next]_vars

\* The emulator's loop calls display_handle_events once per frame, for ever,
\* however often the guest changes the video mode in between.
FairSpec == Spec /\ SF_vars(Poll) /\ WF_vars(EndConfigure)

-----------------------------------------------------------------------------
(* Properties.                                                             *)

\* Whether an event about key k, or about switch s, is on its way.
InFlight(s) ==
  ev[s].type # None \/ (poll.at = s /\ poll.stage \notin {"look", "configure"})
KeyInFlight(k) == \E s \in KeySlots : InFlight(s) /\ k \in {ev[s].key, poll.got.key}

\* The guest never keeps a key or a button down that the user has let go, or
\* misses one the user holds: what it was told last of each is what the last
\* report says, once no event about it is on its way.
GuestFollows ==
  /\ \A k \in Keys :
       ~KeyInFlight(k) => (k \in guest.keys <=> k \in KeysOf(raw))
  /\ \A s \in Switches :
       ~InFlight(s) => (s \in guest.switches <=> s \in held)

\* The guest is sent all the motion, once, wherever the cursor was put in between,
\* but for what comes between the copy of the slot and the clears; only the first
\* motion while the loop configures the mouse, and the first after such a one, are
\* measured from where the cursor is not.
MotionKept == owed = Pending(rel) /\ (~Misplaced => lastX = cursor)

\* A key that stays down reaches the guest, unless motion, which every poll
\* looks at first, never stops coming.
KeysArrive ==
  <>[](~InFlight(MotionSlot)) =>
    \A k \in Keys : k \in KeysOf(raw) ~> k \in guest.keys \/ k \notin KeysOf(raw)

\* What the handler says of a new key: "send keydown RawKeys[i]", and of the
\* other case "should never happen, we lost a keydown" (kernel.cpp:999 and
\* 1004): a key that a report adds has its keydown waiting when the handler
\* returns.
KeydownSent ==
  [][\A k \in KeysOf(raw') \ KeysOf(raw) :
       \E s \in KeySlots : ev'[s] = [type |-> "down", key |-> k]]_vars

=============================================================================
