# circle-halfix: models of the emulated machine's device logic

circle-halfix is the Halfix x86 PC emulator as a bare-metal Raspberry Pi
kernel: `src/main.cpp` and `src/kernel.cpp` are the kernel, built on the Circle
environment; `src/src/` is the emulated PC. This directory holds TLA+
models of the parts whose correctness depends on the order in which things happen,
the TLC configurations that check them, and theorems checked by TLAPS. Paths
below are relative to the repository; TLA+ names are in `code font`.

    tlc -workers 2 -config Pic_any.cfg MC_Pic     # any run: cfg and module from PROJECT.json
    tlapm IrqFabricProofs.tla                     # any proof module

## 1. The system

One core runs everything that matters here: an endless loop emulates CPU
instructions for as long as no device has a deadline, lets the devices run, and
once per frame polls the user's input and refreshes the screen. Device models are plain C
functions called from the CPU's port and memory accesses, from the loop, or
from each other; each runs to completion. The only preemption is by the USB
interrupt handlers of Circle, which call `kernel.cpp` between any two
instructions of that core. A second core renders the screen and a third makes
sound; both only read.

    USB keyboard, mouse --interrupt--> kernel.cpp slots --poll--> kbd.c --IRQ 1, 12--+
    pit.c --IRQ 0--+  cmos.c --IRQ 8--+  fdc.c --IRQ 6--+  ide.c --IRQ 14, 15--------+
                                                                                      v
                       pic_raise_irq / pic_lower_irq  ----> 8259 master and slave --+
                                     \---> ioapic.c ----> apic.c -------------------+--> INTR
                                                                                        |
                    cpu_run looks at INTR before each block: pic_get_interrupt <--------+

| Part | State it keeps | Operations | Talks to | Hard part, and what makes it right |
|---|---|---|---|---|
| 8259 pair, `hardware/pic.c` | per chip: irr, imr, isr, pin_state, priority_base, the announced line, the initialisation step | raise, lower, get_interrupt, port writes (ICW, OCW), reset | devices; CPU's INTR; slave pulses master's line 2 | A line is announced at one moment and accepted at a later one. *No equal or inferior interrupts a handler; nothing that may be served waits unannounced; all is served.* |
| Local APIC, `hardware/apic.c` | IRR, ISR, TMR, TPR, timer, `intr_line_state` | messages, EOI, TPR, get_interrupt, timer, reset | I/O APIC, CPU | It keeps its own copy of "INTR is up". *An acceptance finds a vector that nests; nothing waits.* |
| I/O APIC, `hardware/ioapic.c` | pin_state, irr, redirection table with Remote IRR | raise, lower, table writes, remote EOI | devices, local APIC | *A line whose Remote IRR blocks it has an EOI ahead.* |
| Wiring of both | none of its own | `pic_raise_irq`, `pic_get_interrupt` | all the above | Two owners of one wire. *Each owner's belief about INTR stays true; a guest of one kind never sees the other.* |
| Keyboard controller, `hardware/kbd.c` | two rings, output buffer, status, RAM, commands in progress, interrupt raised last | key, button, motion; port 0x60 and 0x64; reset | 8259 lines 1 and 12, host input | One byte and one interrupt at a time for two queues. *No byte is stuck or silent; handlers alone read all.* |
| Host input, `kernel.cpp`, `display.c` | one event slot per report position, modifier, button; motion; remembered keys | USB report handlers, `SDL_PollEvent` | kbd.c | Preemption, slots that overwrite. *The guest's idea of what is held is the user's.* |
| CPU interpreter, `cpu/` | registers, flags, cycle counter, interrupts_blocked, halt | run, interrupt, exceptions | all devices via ports | Data: the instruction set. *Accepts INTR when allowed; leaves HLT.* |
| MMU and TLB, `cpu/mmu.c`, `access.c` | TLB arrays, list of used entries | translate, invalidate, flush | CPU, code cache | *No entry outlives what invalidates it.* |
| Code cache, `cpu/smc.c`, `trace.c` | decoded traces, bitmap of code pages | decode, lookup, invalidate on write | MMU, CPU | *A trace executed is what memory holds, but where the code is known to miss a change.* |
| Machine loop, `pc.c`, `main.c` | next deadlines | `pc_execute`, `devices_get_next` | timers, CPU | *Time is counted once; every deadline is found.* |
| Timers, `pit.c`, `cmos.c`, `acpi.c` | counters, expiry, register C | `*_next`, ports | machine loop, 8259 | *No period is lost silently; register C and its line agree.* |
| DMA and floppy, `dma.c`, `fdc.c` | channels; command, result and status bytes, seek state | ports, transfers | each other, line 6 | The transfer happens when both the command and the channel are ready, in either order. *What moves is what the outstanding command asks; each command is announced.* |
| IDE and drives, `ide.c`, `drive.c` | task file, PIO buffer, packet state; copy-on-write blocks | ports, sector transfers | lines 14 and 15, image files | Registers left over from one command serve the next; the interrupt comes before it is known whether more follows. *A transfer moves the sectors asked, once each; each command ends.* |
| VGA, `vga.c` | planes, registers, dirty lines | ports, memory, render | core 1 | A picture; no control depends on it. |
| PCI, NE2000, I/O dispatch | tables | look-up | everything | Fixed at start. |
| FPU, SoftFloat, state files, ini, util, sound, PNG, zip, unused sources | - | - | - | Numeric, compiled out, start-up only or third-party. |

`PROJECT.json` has the same list with the status of each, and the hazards with
the line each bites at.

## 2. The modules

| Module | Models | Size of the state |
|---|---|---|
| `Pic` | `hardware/pic.c`, and the CPU's INTR line | one variable, `pic` |
| `Apic` | `hardware/apic.c` and `hardware/ioapic.c` | one variable, `apic` |
| `IrqFabric` | the functions of `pic.c` and `apic.c` that join both; EXTENDS both | `pic`, `apic`, `mode` |
| `Kbd` | `hardware/kbd.c`, its lines at the 8259 and the guest's handlers | `kbd`, `taken` |
| `MachineLoop` | `pc_execute`, `cpu_run` and its counters, the APIC's timer, the CMOS clock | `cpu`, `dev`, `stage`, `budget`; two history variables |
| `HostInput` | the input half of `kernel.cpp` and `display_handle_events` | eleven variables, two of them history |
| `Interpreter` | a processor that fetches every instruction from memory, but where it says it may not: what the guest can rely on | seven variables |
| `CodeCache` | `cpu/trace.c`, `smc.c`, the marking in `decoder.c`, the write tags of `mmu.c` and `access.c`; implements `Interpreter` | eight variables |
| `Tlb` | the translation buffer of `cpu/mmu.c` and what flushes it | `page`, `cpu`, `tlb`, `used`; a history variable |
| `Dma` | a channel of `hardware/dma.c`, as operators | - |
| `Fdc` | `hardware/fdc.c` over that channel; EXTENDS `Dma` | `fdc`, `dma`, `memory`, `disk`, `order` |
| `Drive` | an image of `drive.c` and its copied blocks, as operators | - |
| `Ide` | a channel of `hardware/ide.c` with a disk; EXTENDS `Drive` | `ide`, `drive`, `memory`, `order` |
| `KbdProofs`, `HostInputProofs`, `MachineLoopProofs`, `CodeCacheProofs`, `TlbProofs`, `FdcProofs`, `IdeProofs` | theorems about the module each is named after | - |
| `IrqFabricProofs` | theorems about `Pic`, about `Apic` and, resting on the lemmas of both, about `IrqFabric` | - |
| `MC_*` | constants for TLC | - |

How they are written. A function of the code is an operator from states to
states under a like name (`pic_internal_update` of the master is `UpdateMaster`,
`apic_send_highest_priority_interrupt` is `Send`); calls in the code are calls
of operators in the same order, so a handler with all it calls is one action.
Bytes whose bits are flags per line or per vector are sets. An operator whose comment
begins with "Fault:" is not part of the model: it is a plausible bug, put in
place of the definition behind it to see that a property notices.

**`Pic`.** `chip[c]` holds the registers of a controller; `highest` is
`highest_priority_irq_to_send`, kept between the announcement and the acceptance
as in the code, where most of the difficulty is. The rotated scan is
`Rank`: position of a line when `base` has the lowest priority. Actions: `Raise`,
`Lower`, `Pulse` (the timer's low-then-high) are the devices; `GetInterrupt`
is `cpu_run`; `Ocw1Write` ... `IcwWrite` are the port writes; `Reset` is the
machine's. Devices are split by whether they may take a request back
(`Withdrawing`), as much of what holds depends on that.
Left out, because no control depends on them: vector_offset, read_isr and the
read ports, elcr, irq_bus_value.

**`Apic`.** 256-bit registers are sets of vectors, `entry[l]` a redirection entry
with its Remote IRR bit. `UpdateIo` states `ioapic_update`'s loop in closed form: the set of
new vectors, their trigger mode decided by the first line that sends each, one
look for something to send (a second look changes nothing: `intr_line_state`
is then set). Left out: PPR, identifiers, destinations (one processor), errors,
polarity, the delivery modes ExtINT, SMI, NMI and INIT, guest writes to read-only
registers, byte accesses, and when the timer fires (its message is `Own`).
`Careful` is a promise of guest and device about a *level* line: it is not
reprogrammed while an interrupt of it is under way, nor lowered before the
interrupt is accepted.

**`IrqFabric`.** `pic.intr` is the CPU's one wire; `Joined` raises it when the
APIC sends, `AcknowledgeInterrupt` is `pic_get_interrupt`, `HearCascade` is the slave's pulse of line 2, which
goes through the public functions and so reaches the I/O APIC on the input of the
timer. `mode` is the guest's: it runs on the 8259s, then masks them and turns to
the APICs, and may reset the machine.

**`Kbd`.** Bytes are "packet" (of a mouse packet) or "plain". `RefillOutput`
keeps the code's peculiarity that a byte arriving behind an unread one rewrites
the status and the interrupt, not the byte. Commands that act alike are one
command. `Accept` and `Handle` are the guest's interrupt and its handler, which
reads one byte if the status shows one.

**`HostInput`.** A USB handler is one action: it runs to completion. What the loop does
on the same core is not: a poll looks at a slot, copies its type, copies the rest, clears the type,
clears the distance if it is the motion's, and delivers the copy; a change of video mode moves the cursor
(`BeginConfigure`) and later notes where it is (`EndConfigure`). A handler may come between any two of these.
One axis of the mouse is modelled. The scan
of a report, in which a key may appear and another disappear at each position,
is a function of the number of positions scanned, in the order of the code. `owed` and `jolted` are
history: the motion the guest is still to be sent, and whether motion came while the loop configured the mouse.

**`MachineLoop`.** The clock counts instructions; an instruction is an action,
told apart only by what it does to the counters: `Sti` and `LoadSs` cut the piece that runs
so that one more instruction goes without interrupts (`interrupt_guard`), `Popf` and `Kick` cut it
to look at INTR (`INTERNAL_CPU_LOOP_EXIT`), `SetTimer` ends the run, `Hlt` halts,
`Fault` takes no time. `Look` is `devices_get_next` with the start of `cpu_run`; `AcceptInterrupt` and
`GoOn` are the top of its loop; `After` is the rest of `pc_execute`, which moves a halted CPU
ahead. Times are relative to the last look at the devices, so there is no counter
that only grows, and no bound on time is needed. INTR is up when anything is latched: which
interrupt is served is the business of `Pic` and `Apic`. The PIT and the ACPI timer stand
still. A handler of an exception runs with interrupts disabled and does not fault itself.
`retired` and `shadow` are history: they only record what properties speak of.

**`CodeCache`** and **`Interpreter`.** An instruction takes one place of a page and
either falls through or ends its trace; it may also load, store, change a mapping, reload CR3 or start
a transfer. `traces` is `trace_info`, indexed by physical page modulo `Ways` and by offset,
so pages evict each other's traces; `marked` is `smc_has_code`; a translation has a
write tag, set when it is made for a page with code or when code is fetched and decoded
through it. `Fetch` is `cpu_get_trace` with decoding on a miss; `here` is the page it
looked up last, kept until the linear page is left, whatever is remapped meanwhile. `Storing` is an
instruction that stores, straight to memory through an untagged translation and by way of
`cpu_smc_invalidate` else. `DiskTransfer` is `ide_read_dma_handler` over a table of entries that start
anywhere, `FloppyTransfer` is `dma_run_transfers`; each throws away the traces of the pages it *catches*, which
are not all the pages it writes. `run` is the decoded trace the processor is in, which goes on executing old bytes unless
a store that met them, or a transfer, has ended it. The guest may lead several linear pages to one physical page.

The caches do not hide themselves from every guest: the code misses some stores and transfers (section 6).
So `Interpreter` is not a processor without a cache but one that says where an older instruction may be executed (`unseen`) and
how a place gets there: by a store through a `blind` linear page, whose physical page was entered by another
linear address; by a second store of a run into its own page; by a transfer, at the places it misses. The
refinement mapping is the identity on `memory`, `map` and `pc`, and computes the rest from the caches: `Blind`, `Unseen`,
`Modified`, `From`.

**`Tlb`.** `tlb[l]` is the entry of a linear page with the set of accesses its tag
lets through, `used` is `tlb_entry_indexes` with its holes. An access that the tag allows
is no step. `owed` is history: for a page whose table entry the guest rewrote it says which
invalidation would do, as the architecture leaves the buffer stale until then. One level of tables stands for the two.

**`Dma`** and **`Fdc`.** The channel's registers and transfers are operators, so that
`Fdc` can make one action of what the code does in one call: a command's last
byte, or the write that unmasks the channel, runs `dma_run_transfers`, which calls back into
`fdc_dma_complete`, which raises line 6. `Finish` sends the last byte, `Unmask` opens the channel;
either may come second. `order` is the driver: the command whose interrupt
it waits for.

**`Drive`** and **`Ide`.** An image is a file and the blocks copied from it. `Offset` and `Located` are
`ide_get_sector_offset` and `ide_set_sector_offset`, in both ways of addressing, with
registers of `Byte` values so that carries from one into the next happen. `Issue` writes the registers
and the command, `Start` the bus master's start bit, `Word` moves a word of the data port
and, with the last of a chunk, the sectors, `Look` is the handler (or a poll when the
guest forbids the line). `Multiple` sectors go to one interrupt in READ and WRITE MULTIPLE. `order` is the driver.

## 3. What the runs check

Every run that holds explores its whole state space, with deadlock checked.

| Run | Question | Instance | Result |
|---|---|---|---|
| `Pic_steady` | Is every request announced, served, and never spurious? | 4 lines a chip, 4 devices on both chips and both sides of the cascade, one pulsing, none withdraws; masks {} and {1} | holds |
| `Pic_any` | Does service nest whatever happens? | 4 lines, 3 devices that all withdraw, EOIs specific and not, ICWs, OCW3, resets | holds |
| `Apic_lines` | Does every acceptance find a vector, does nothing wait, does no level line die, is all served? | an edge line with two vectors, a level line, a self-interrupt, two classes, resets | holds |
| `Fabric_modes` | Do the two kinds of controller disturb each other on INTR? | 3 lines a chip, the timer and a level device of the slave, two vectors, resets | holds |
| `Kbd_bytes` | Is a byte ever stuck or silent? | ring of 4, at most 1 byte waiting when more is added, all commands | holds |
| `Loop_timers` | Is time counted right, does STI's shadow hold, does a halted CPU wake, does the clock tick on? | runs of 3, a second of 4, a one-shot timer of 1 or 3, periodic interrupts every 2 | holds |
| `CodeCache_smc` | When does the guest execute an instruction that memory no longer holds? | 2 linear pages that lead to 1 or 2 physical pages of one way, a full chunk and a short one each, 2 places stored to, traces of 3, transfers of a page's length that start with a page and within one | holds |
| `Tlb_flushes` | Does an entry outlive what invalidates it? | 2 pages, a list of 3, four page table entries one of them global, every mode bit | holds |
| `Fdc_driver` | Does the floppy move what was asked, and is each command announced? | a track of 2 sectors, memory for 2, 2 kinds of data, resets at any time | holds |
| `Ide_driver` | Does the disk move what was asked, and does each command end? | 2 sectors on 2 tracks in one block, 2 words a sector, 2 sectors to an interrupt, tables of 1 or 2 entries, both resets | holds |
| `HostInput_patient` | Does the guest follow the user? | 2 keys, 2 report positions, a modifier, a button, motion of -1 and 1 | holds |
| `HostInput_rollover` | Does every new key send its keydown? | the same, unrestricted reports, no motion | violated, see 6 |

### Properties

*8259s.* `NestedDelivery`: a line that goes into service outranks every line of
its chip in service. It relates a choice made by an earlier update to the state
at the acceptance. `AnnouncedOutranks` is the reason: the announcement that an
acceptance will act on stays good. `NoLostRequest`: a line that may be served is
announced, and it is the best one that is announced; for the slave the
announcement is a request on the master's cascade line, so this is about two chips
and the pulse between. `NoSpurious`: no acceptance finds its request gone.
`RequestsDrain`: when devices are quiet and the guest ends what it serves, both
chips run empty.

*APICs.* `NeverSpurious`: INTR raised means a vector that outranks everything in
service. `NothingWaits`: the converse, what may be served has raised INTR.
`RemoteEnds`: a line silenced by Remote IRR has its end ahead. `RequestsServed`:
everything requested is served.

*Wiring.* `SentIsHigh`: while the APIC believes INTR is up, it is. `PicAlone`:
before the guest turns to the APICs, the steps of the machine are steps of
`Pic` and of nothing else: the composition implements the abstract machine of the two 8259s. `FabricServes`:
each vector is served though the wire is shared.

*Keyboard controller.* `NothingStuck`: no byte waits behind an empty output
buffer and the status tells the truth. `NoSilentByte`: a byte shown whose device's
interrupt is enabled has that interrupt latched or in the guest's hands.
`AllRead`: handlers, one byte per interrupt, empty both queues.

*Machine loop.* `TimeKept`: the clock that devices and guest read, spread over four
counters that every cut moves, is the number of instructions run; and however often a
guest cuts its run, the devices are looked at when they asked for, but for one
instruction. `ShadowKept`: no interrupt comes between STI, or a load of SS, and the end
of the next instruction, also when the first ends a run. `IdleWakes`: a halted CPU with
a timer running goes on, though no instruction counts time. `RtcKeepsTicking`:
the edges of the CMOS clock never stop for a guest that goes on reading register C.

*Host input.* `GuestFollows`: with no event on its way, what the guest was told of
each key, modifier and button is what the user does. `MotionKept`: the guest is sent every distance
once, and `lastmousex` is where the cursor is, across recentrings, polls and changes of video mode and with motion between any of
their steps. It states what the code loses or misjudges, and that this is all: what is added between the copy of the slot
and its clears; and the first motion during a change of video mode, with the one after it.
`KeysArrive`: a key that is held reaches the guest, unless motion never stops.

*Code cache.* `StaleOnlyWhenMissed`: an instruction of a trace that is kept or runs differs from memory
only after a write at that place of one of three kinds, a store through a blind translation, a store of a run whose
trace an earlier store threw away, a transfer at a place it misses; every other store and transfer ends what it makes stale.
`StoresAreSeen`: a translation becomes blind only while its page is fetched through another linear page. `ImplementsInterpreter` is
what the guest sees of it: whatever is cached, evicted, flushed and remapped, each instruction executed is the one memory holds
at that moment, or one at a place that `Interpreter` lets be unseen.

*Translation buffer.* `AllListed`: the list a flush walks names every entry there is,
through holes, repetitions and the flush of a full list. `NothingStale`: what an entry lets
through is what the tables grant, unless the guest still owes the invalidation.

*Floppy.* `DataMoved`: memory and medium change only to carry out, whole, the command the guest
waits for, though the channel keeps requests and the controller keeps its last command.
`Answered`: each command ends, over a line that only a write of the DOR lowers.

*Disk.* `SectorsMoved`: memory and image change only as the outstanding command asks, each sector once and
in order, through words, chunks, tables, copied blocks and what aborted commands left.
`Completes`: each command is announced, though an interrupt that is still up hides the next.

### Bounds, and why they are enough

- *Lines.* The code treats all lines alike but for the cascade, line 2. Four
  lines on a chip give lines above and below it and rotation has somewhere to
  go; nested service needs two in service and a third that asks. The theorems
  of section 5 hold for every number of lines. `IrqFabric` has three, the least that
  includes the cascade, since `Pic` is checked with more.
- *Vectors.* Priority is compared by vector in service and by class against TPR:
  two vectors of one class and one of another tell all cases apart. `ClassSize`
  is 16 in the code, 4 in `Apic_lines`.
- *Ring.* The ring matters when empty, when it holds one and when it wraps; with
  four bytes and commands that add up to four bytes, wrapping is frequent.
  `MaxWaiting` bounds what waits when more is added, so that the queues are
  explored at every fill level and in every mixture.
- *Keys and slots.* A report position interacts with others through the memory
  of held keys only; two keys at two positions give the swaps and the freed
  places. A slot is read in the same three steps whatever its kind.
- *Runs.* A run of 3 is the least that STI cuts in two with something left; the
  deadlines are below, at and above it. `Forever` is any number above all times.
- *Traces and chunks.* A full chunk and a short one, the last, give a trace that starts in one chunk
  and ends in another, one that ends at a chunk's or the page's last byte, and a store before, in and
  behind it; a trace of the first chunk that a transfer catches and one of the last that it does not. Two physical pages of one
  way evict each other, and two linear pages may lead to one of them. `Stored` bounds the places whose content changes, `Maps` the page
  tables, `Entries` what a table of the disk may hold, `Room` the traces before a flush. The theorems hold for any.
- *Pages and the list.* Two pages and three places let the list fill, repeat a page
  and have holes at once. The theorems hold for every number of both.
- *Sectors.* Two sectors give a first, a last and a one-sector request, a track
  boundary, and a block of which one sector is written. With `Byte` = 2 the address registers
  carry; with `Most` = 2 the count 0 stands for a request that occurs. `MC_Ide` starts from one image and one memory: writes reach the others.
- *Motion.* The cursor has three places, two at an edge and one in the centre; `MaxRel` bounds
  motion not yet polled, and is a guard of the action.

### Preconditions

`Pic_steady`'s devices keep a request up until it is accepted and the guest does
not reprogram the chips: without that `NoLostRequest` is false (section 6). `HostInput_patient` has
one change per report, each after the last was polled and cleared:
without it events overwrite each other by design of the slots, and one that comes between the copy of its slot and the clear is
lost, so `GuestFollows` says nothing of either. Only keys, modifiers and buttons wait so; motion may come between any two steps, of the
copy of its own slot too. `Loop_timers` has the
one-shot timer (`Periodic` is FALSE): in periodic mode `TimeKept` fails, as a masked timer that is
late by one period answers 0 and the run counts down from 0. `Fabric_modes` has `Reinitialises` FALSE (section 6). `Apic_lines` is
`Careful`; only `RemoteEnds` needs it. `Kbd_bytes`'s guest reads a pending byte
before it enables an interrupt, as drivers do. `RequestsDrain`, `RequestsServed`
and `FabricServes` speak of a guest that returns to an empty ISR again and again.

The guests of `CodeCache`, `Fdc` and `Ide` are systems and drivers, and each restriction is a guard with a
comment. Each was taken away once to see what fails:

- `CodeCache`: the page that runs is not unmapped, though it may be mapped elsewhere. Everything else is free: aliases, stores
  into the running trace, INVLPG of the running page, transfers anywhere. What goes wrong then is in the
  properties and in `Interpreter`, not in a guard. Floppy transfers go upwards, as those of `Dma` do.
- `Fdc`: the channel is programmed before the command; a write of the DOR comes before the next command;
  a driver that gives up takes the channel's request back. Without one of the last two `DataMoved` fails.
- `Ide`: the sectors exist and the registers reach them; a table is as long as the request, has one entry or two, and these do
  not overlap (words go to one entry); the driver waits, or polls when it forbids the line.

## 4. Fairness

Each is fairness of something the code repeats unconditionally, and weak unless it says otherwise.

- `GetInterrupt`, `Accept` (of `Apic`), `CpuAccepts`: `cpu_run` looks at INTR before
  every block of instructions (`src/src/cpu/cpu.c`). It accepts when the guest has
  interrupts enabled; a guest that never enables them is outside the liveness
  properties, not outside the safety ones.
- `Poll` and `EndConfigure`: the main loop calls `display_handle_events` once per frame, and a `ConfigureMouse` that was begun
  returns. Fairness of `Poll` is strong: a change of video mode is no poll, but polls go on however often the guest
  changes the mode.
- `Next` of `MachineLoop`: the main loop calls `pc_execute` for ever and the CPU always
  has an instruction. Nothing is assumed of which.
- `Accept(n)`, `Handle(n)` of `Kbd`: the guest's driver takes its interrupts.
- `Unmask`, `Finish`, `Hear`, `Sense`, `ReadResult` of `Fdc`; `Start`, `Look`, `Word`, `ClearReset` of `Ide`: the
  driver goes on with a command it has begun. The device acts within the driver's steps and is not assumed to do more.

Devices, users and new commands of the guest are never assumed to act.

## 5. What is proved

TLAPS proves these for every value of the constants that satisfies the named assumptions of the
modules (`PicAssumption`, `ApicAssumption`, ...: that there are lines, that sizes are positive, that `None` is none of
the things it stands beside): any number of lines, devices, vectors, pages, chunks, sectors, any size of ring, list and trace, any
repertoire of guest commands. A column names what a theorem assumes beyond that; each
hypothesis is one a run satisfies, and without it the property is false (sections 3 and 6) or meant for
another guest.

| Theorem | States | Assuming |
|---|---|---|
| `IrqFabricProofs!TypeCorrect` | `Spec => []TypeOK` | |
| `IrqFabricProofs!AnnouncementsHold` | `Spec => []AnnouncedOutranks` | `FullyNested` |
| `IrqFabricProofs!NestedDeliveryHolds` | `Spec => NestedDelivery` | `FullyNested` |
| `IrqFabricProofs!NoRequestIsLost` | `Spec => []NoLostRequest` | `FullyNested`, `Patient`, `Settled` |
| `IrqFabricProofs!NothingIsSpurious` | `Spec => []NoSpurious` | `FullyNested`, `Patient`, `Settled` |
| `IrqFabricProofs!ApicTypeCorrect` | `ApicSpec => []ApicTypeOK` | |
| `IrqFabricProofs!NeverSpuriousHolds` | `ApicSpec => []NeverSpurious` | |
| `IrqFabricProofs!NothingWaitsHolds` | `ApicSpec => []NothingWaits` | |
| `IrqFabricProofs!EveryRemoteEnds` | `ApicSpec => []RemoteEnds` | `Careful`, `Unshared` |
| `IrqFabricProofs!SentStaysHigh` | `FabricSpec => []SentIsHigh` | `~Reinitialises` |
| `IrqFabricProofs!PicsAreAlone` | `FabricSpec => PicAlone` (refinement) | `LowersFreely` |
| `IrqFabricProofs!MachineNeverSpurious` | `FabricSpec => []NeverSpurious` | |
| `IrqFabricProofs!MachineNothingWaits` | `FabricSpec => [](Sendable(apic) => pic.intr)` | `~Reinitialises` |
| `IrqFabricProofs!MachineNests` | `FabricSpec => NestedDelivery` | `FullyNested` |
| `KbdProofs!TypeCorrect` | `Spec => []TypeOK` | |
| `KbdProofs!NothingIsStuck` | `Spec => []NothingStuck` | |
| `KbdProofs!NoByteIsSilent` | `Spec => []NoSilentByte` | `FlushesFirst` |
| `HostInputProofs!TypeCorrect` | `Spec => []TypeOK` | |
| `HostInputProofs!MotionIsKept` | `Spec => []MotionKept` | |
| `HostInputProofs!GuestFollowsUser` | `Spec => []GuestFollows` | `Patient` |
| `MachineLoopProofs!TypeCorrect` | `Spec => []TypeOK` | `~Periodic` |
| `MachineLoopProofs!TimeIsKept` | `Spec => []TimeKept` | `~Periodic` |
| `MachineLoopProofs!ShadowIsKept` | `Spec => ShadowKept` | `~Periodic` |
| `CodeCacheProofs!TypeCorrect` | `Spec => []TypeOK` | |
| `CodeCacheProofs!StaleStaysMissed` | `Spec => StaleOnlyWhenMissed` | |
| `CodeCacheProofs!StoresStaySeen` | `Spec => StoresAreSeen` | |
| `CodeCacheProofs!Implements` | `Spec => ImplementsInterpreter` (refinement) | |
| `TlbProofs!TypeCorrect` | `Spec => []TypeOK` | |
| `TlbProofs!EveryEntryListed` | `Spec => []AllListed` | |
| `TlbProofs!BufferNeverStale` | `Spec => []NothingStale` | |
| `FdcProofs!TypeCorrect` | `Spec => []TypeOK` | |
| `FdcProofs!OnlyCommandsMoveData` | `Spec => DataMoved` | |
| `IdeProofs!TypeCorrect` | `Spec => []TypeOK` | |
| `IdeProofs!OnlyOrdersMove` | `Spec => SectorsMoved` | |

Every inductive invariant below was first checked by TLC on the instance of its run.

**The 8259 argument.** `NestedDelivery` is not inductive: it depends on
`highest`, chosen earlier. The inductive invariant adds `Announced`: while INTR
is up, `highest` of the master outranks its ISR; while the master has its
cascade line requested, `highest` of the slave outranks the slave's. Each function of
`pic.c` has a lemma that it keeps this: an update chooses from `Deliverable`,
lowering and masking change neither `highest` nor ISR, an acceptance grows ISR but takes INTR (or the
cascade request) away, an EOI shrinks ISR. Rotation and special mask mode
change what "outranks" means after the choice was made, so the theorems assume the guest uses
neither (`FullyNested`); no guest the project is aimed at does. `TypeCorrect` needs that the priority
scan finds a line, so the proof carries the minimum of a set of naturals, by
well-foundedness.

`NoLostRequest` and `NoSpurious` need more of the world: devices keep a request up and pulse lines of the
master only (`Patient`), and nobody reinitialises the chips (`Settled`). `Steady` then says that a
chip announces the best of what it may deliver, if there is any; that the slave asks on the cascade line
exactly while it has something, and the master drives INTR exactly then. An acceptance of the
slave's line goes through both chips, so the two halves (`SlaveAsks`, `MasterAsks`) are established one after the
other: the lemmas of the two updates each assume the other half only.

**The APIC argument.** The invariant is `Sound`: type, `Nests` (what
`NeverSpurious` says of a state) and `Alert` (what `NothingWaits` says), with
`Vectored`: a line that is not masked has a vector the guest gave it. An
acceptance clears `intr_line_state` without looking for another request; that is
right only because it takes the highest vector (`MaxIsHighest`), behind which all the rest must wait.
`Vectored` is needed because a reset leaves vector 0 in the table, and only
the mask keeps it from being sent.

`RemoteEnds` rests on `tmr`, the trigger mode the local APIC keeps with a vector, which decides at the end whether
`ioapic_remote_eoi` hears of it. A message of an edge line with the same vector rewrites it, so the theorem is for
guests that give level lines vectors of their own (`Unshared`) and reprogram them only at rest (`Careful`).
`Ending` says that the table keeps to that (`Tabled`), that a vector requested or in service has its line's mode (`Known`),
and that a line whose Remote IRR is set has its vector requested or in service, or is up and masked (`Held`).

**The wiring's argument.** For `SentIsHigh` the lemmas go through the functions of `pic.c` once more: none
lowers INTR but ICW1 and an acceptance (`High`). An acceptance lowers it together with `apic.sent`. ICW1 does
not, so the guest may initialise an 8259 only while nothing can have been sent: until it turns to the APICs their table is as
reset left it, all masked (`Dormant`), and afterwards it does not (`~Reinitialises`). `PicAlone` is a refinement:
while `Dormant` holds each step of the machine is shown to be a step of `Pic` or a stutter. It needs `LowersFreely`, since the
wiring lets any device lower its line, `Pic` only those in `Withdrawing`.

The other way round no such refinement holds: a pulse of the timer is one step of the machine and two of the APICs, and
the slave's announcement two more. But each function of `apic.c` keeps `Sound` by a lemma, so any sequence of them does
(`LinesKeepFirm`, `StepFirm`), and `NeverSpurious` holds in the machine too. `MachineNothingWaits` joins both halves:
what may be served has been sent (`Alert`), and what was sent still shows on the wire (`SentIsHigh`).

`MachineNests` is `NestedDelivery` of the machine, in every mode and for a guest that initialises the 8259s when it likes. `Good`
is not inductive there: an APIC that sends raises INTR over 8259s whose announcement may be stale. But the APIC then
answers, and takes INTR down as it does, so the invariant (`Truthful`) asks `Good` of the 8259s as they are only while the APIC has
not sent, and otherwise of the same registers with INTR down. It is kept since no function of `pic.c` reads INTR (`LinesUnread`,
`WritesUnread`) and nothing but an acceptance clears `apic.sent` (`LinesLeaveSent`, `GuestLeavesSent`).

**The keyboard controller's argument.** A state is `Good` if it has its type, no ring is full, and status and
output buffer agree, with nothing queued behind an empty buffer; it is `Loud` if what the buffer shows has its interrupt latched
or accepted. Each function of `kbd.c` has a lemma that it keeps both. The handlers break them in between: a write
of the command byte enables an interrupt whose byte is already there, a read empties the buffer. The refill at the end of each mends
that, except for the byte already shown when its interrupt is enabled; `FlushesFirst` is the driver that has read
it before. `MaxWaiting` only bounds the run, the proof does not use it: the byte that would fill a ring makes head meet
tail, which empties it, as the code does, and both properties survive that.

**The host input's argument.** The scan of a report is a recursive function; what it computes is proved by the
least position that would be otherwise: two functions that satisfy its equation agree (`ScanUnique`), so it is whatever one
exhibits that does (`ScanIs`). `ScanStays` keeps it in any set no position leaves; `ScanOfOneChange` says that
a scan which does something at one position only does just that. `ScanAppears` and `ScanDisappears` are then what one new or
one dropped key does, and `RoomToRemember` counts: a report with room for a new key means a free place in `lastRawKeys`, so the
"should never happen" of `kernel.cpp:1004` does not. `Typed` adds to the type that an event which waits or is being copied
names a key. `Motion` adds to `MotionKept` that the cursor is in the centre while the loop configures the mouse and no motion has
come; it needs no `Patient`. `Follows` is the invariant behind `GuestFollows`: the handler remembers exactly the keys of the last report, an
event that waits says what the report says, a poll copies the event its slot holds, and of a key or switch with no event the guest was
told. An event waits in its slot or, once the poll has cleared that, in the copy (`Waiting`). `Patient` is what keeps a slot from being written while it is full or being copied; without it an overwritten event is lost
(section 6).

**The machine loop's argument.** Time is spread over `cycles`, `ctr`, `refill` and the offset, and every cut moves some
of it. `Counted` says that what was run, what runs and what is left for later add up to the run allowed,
and one instruction more only if the run began with interrupts blocked; `ClockBehind` keeps the clock's period in
the past, so that `devices_get_next` answers a time ahead; `ShadowBlocks` says that behind STI either the next
instruction is in the same piece or `interrupts_blocked` is set. In periodic mode a late
masked timer answers 0 and `TimeKept` is false, hence `~Periodic`.

**The code cache's argument.** The invariant says nothing of what memory holds, only what the caches have in common.
`CodeIsMarked`: a kept trace starts at its slot and each chunk it has instructions in is marked. `TlbTrue`: a translation is the page tables'.
`RunFits`: the trace that runs is of the page the fetch is in and has the instruction due.
What goes stale is then followed step by step. A store through a tagged translation, or one to a page without
traces, takes the slow path or meets nothing: it throws away every trace of the page that starts in the chunk or before it, so every one
that has the place stored to, since its chunk is marked (`TraceIsFound`). The trace that runs is ended if it was among them; if an
earlier store of the same run has thrown it away it is not, and that is the second exception. A transfer takes the
traces of each page it catches (`DiskCatchesPlaces`, `CaughtAreGone`); what it misses is computed from the entry, independently of what it
catches. A translation made for a page with a trace is tagged, because the page is marked (`TranslatedGood`), and a store untags only when
no chunk of the page is marked, so no trace is left (`NoCodeNoTrace`); only `Fetch` of a new trace can
leave another translation of the page untagged, which is `StoresAreSeen`.
`Implements` follows: every instruction executed is in the trace that runs, so it is the one memory holds or its place is unseen
(`ExecutesOne`), and each step changes `unseen`, `blind` and `modified` as `Interpreter` allows.

**The translation buffer's argument.** `NothingStale` alone is not inductive, for two
reasons. A flush drops only what the list holds: `AllListed`. And a load of CR3 settles what the guest owes
for every page but spares global entries, so these must have been right although a
local invalidation was owed: `GlobalsRight`, which only a rewrite of a global
entry may break. `Inv` joins them with the types and `EmptyLetsNothing`: an entry without a page lets nothing through.
Three lemmas say what the buffer's operations do (`InstallEffect`, `FlushAllEffect`, `NonGlobalEffect`); each
step of processor and guest has a lemma that rests on them. The interesting case of `InstallEffect` is the full list: the flush it
starts with empties every page only because all are listed.

**The floppy's argument.** A transfer happens when command and channel are both ready, by registers that any
command leaves behind, so `DataMoved` needs to know whose they are. `Announced`: a command not carried out yet is the one
the guest waits for, its interrupt is neither up nor heard, and nothing answers; so no sense comes in between and
overwrites the opcode by which `fdc_dma_complete` goes. `Requested`: while the channel's request is up, count, direction,
position and buffer are that command's (`Carries`). `TransferCarries` is the lemma: from such registers a transfer does
what the command says, whole, whether the last byte of the command or the write that unmasks the channel let it through.

**The disk's argument.** The controller does not keep a request: it keeps address registers, a count, a buffer and an opcode,
which commands, words and resets rewrite. `Orderly` says how these stand to what the driver waits for. A read is *ahead*
of the driver (`ReadOrder`): the buffer holds what the image has at the sectors to come, and the registers are behind them already,
as the next chunk is fetched before its predecessor is asked for. A write is *level* (`WriteOrder`): the registers name the sectors the
buffer is for, the count those left, 0 standing for `Most`. The bus master has begun nothing before its start bit, and everything after (`BusOrder`).
`Reachable` keeps what is left within what the registers can name, so that `ide_set_sector_offset` undoes
`ide_get_sector_offset` (`LocatedIs`, for both ways of addressing and every geometry). Under the buffer, an image is its file and its
copied blocks: a file that may be modified has no copies (`Disk`), or a write would go to the one and a read to the other. A write of several sectors is a
recursive function; what the image holds after it (`FromMemoryIs`) is proved by the least sector at which it would differ. That the places
the bus master visits are those the table names, none twice, is where tables that overlap are excluded.

**Only model-checked.** All liveness, since temporal reasoning under fairness is out of the prover's reach:
`RequestsDrain`, `RequestsServed`, `FabricServes`, `AllRead`, `KeysArrive`, `IdleWakes`, `RtcKeepsTicking`, `Answered`,
`Completes`. Every safety property that a run finds to hold is proved. `KeydownSent` is false (section 6).

## 6. What disagrees with its own documentation

A run shows this one:

- `HostInput_rollover`. `kernel.cpp:999` says a new key sends its keydown. When
  the same report drops the key remembered at that position, its keyup
  overwrites the keydown in the same iteration.

Met while modelling, and not among the runs. The models have each as the code has
it, or a guard leaves it out as section 3 says:

- `pic.c:13` says that INTR is raised when ISR is empty and an interrupt
  is not masked. An acceptance that turns out spurious has lowered INTR (line 245)
  and looks for nothing else: the other request waits for an unrelated call.
- `kbd.c:15` says no packet is sent before the last one was read. Button packets (line 597) are.
- `apic.c:154` trusts that INTR is still up once the APIC raised it. ICW1 to an 8259 lowers it
  (`pic.c:403`); the APIC then stays silent. `Reinitialises` = TRUE shows it.
- `apic.c:543` promises the ticks until the next interrupt, and `apic.c:582` says its early return is for
  when there are none. It is taken when a periodic interrupt was just sent, and the CPU runs
  past the next one. `Periodic` = TRUE shows it.
- `pc.c:464` moves a CPU that halts by the rest of its run *and* a whole new deadline, so every wake-up is late.
- `fdc.c:700`: `format_dma_pos` is never set back, so only the first track
  formatted after power-on is written. `DataMoved` asks for the first only.
- `drive.c:189`: a write to a last block shorter than the rest is fatal.
- `ide.c:1609` reduces `bytes_in_buffer` by what is left of `dma_bytes`, which is nothing: a table
  longer than the request moves more than asked.
- `ide.c:1588` says "Round up so that we catch every page". The length is rounded up, not the end: of an entry that does not start with
  a page the last page is not caught, and its traces stay. `DiskCatches` has it so.
- `dma.c:334` catches a page when the transfer comes to it, which for the first page it does not: its traces stay (`FloppyCatches`).
- `smc.c:93` looks at 31 of the 32 chunks of a page when a device writes to it (`CaughtSlots`).
- `decoder.c:3432` tags the linear address of the fetch. A translation of the same page by another address, made
  before, keeps sending stores past the trace (`Blind`).
- `smc.c:74` ends the run if a trace thrown away has the bytes stored to. A second store into the same run finds no trace any more, and the
  run goes on with old bytes (`Modified`).
- `opcodes.c:2728`: INVLPG of the running page leaves `last_phys_eip`, so the fetch goes on in the old page until it is left.
- `kernel.cpp:232-235`: motion that comes between the copy of the slot and the clears is erased. Between 233 and 234 it also sets
  the type again, so the next poll sends a motion of nothing.
- `kernel.cpp:880-884`: motion while the loop configures the mouse is measured from where the cursor was before, and the
  next one from where it is not (`Misplaced`).
- `kbd.c:13` says that a disabled keyboard's or mouse's interrupt is disabled as well. The line that would look (171) is commented
  out: only the command byte's interrupt bits count.

## 7. Not modelled, and why

The instruction set, the FPU and SoftFloat transform data and have no small state to explore;
with the vendored PNG and zip code they are most of the repository's lines.
VGA ends in a picture. NE2000 is built without a backend. Saved
states are compiled out. Configuration, files, sound and the vendored libraries
are sequential input and output. Plug and play of USB devices (`kernel.cpp:1025`) and the
return of drives that answer later (no driver of the build does) are left out.

Of modelled components: the packet commands of CD-ROMs, identification, 48-bit addresses and a second drive
of `ide.c`; the values of results, the count of senses after a reset and motors of `fdc.c`; auto-initialisation, descending
and 16-bit channels of `dma.c`; PAE, NX and large pages of `mmu.c`; instructions that cross a page, the
state hash of the code cache, and code that unmaps the page it runs in. The interval timer and the ACPI timer are in the plan.

## 8. Plan

1. Done: `Pic`, `HostInput`, `Kbd`, `Apic`, `IrqFabric`, `MachineLoop`; `Tlb`; `CodeCache` over
   `Interpreter`; `Fdc` over `Dma`; `Ide` over `Drive`; the theorems of section 5.
2. Models left: `pit.c` channel 0, which converts between two frequencies
   and answers the ticks elapsed where its comment (`pit.c:380`) says those to wait; the latch and flip-flop
   of its ports; packet commands of `ide.c`, whose buffer and byte counts are shared between the phases
   of a request; the rate and reset of the CMOS clock; `acpi.c`.
3. Proofs left: those that the models of point 2 will want. No property of `Pic` that the wiring keeps is without one;
   `NoLostRequest` and `NoSpurious` need patient devices, and those of the wiring lower their lines when they like.
