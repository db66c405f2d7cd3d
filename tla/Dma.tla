-------------------------------- MODULE Dma --------------------------------
(***************************************************************************)
(* A channel of the 8237 of src/src/hardware/dma.c, as operators on its    *)
(* registers.  What is at the other end of the channel belongs to the      *)
(* module that EXTENDS this one.  Addresses and counts are in units of     *)
(* what the device moves.  Left out: the flip-flop that splits a register  *)
(* into bytes, descending addresses, reloading, the registers without      *)
(* effect, and requests by software: the drivers of devices use none.      *)
(***************************************************************************)
EXTENDS Integers

CONSTANT Bank   \* the size of the bank an address stays in: 64K in the code

ASSUME DmaAssumption == Bank \in Nat \ {0}

Address == 0 .. Bank - 1

Channel ==
  [current : Address,      \* current_addr
   count : Address,        \* current_count: one less than the units
   toMemory : BOOLEAN,     \* mode
   request : BOOLEAN,      \* status
   masked : BOOLEAN]       \* mask

\* The k-th address of a transfer, which wraps in its bank.
Place(d, k) == (d.current + k) % Bank

\* dma_run_transfers acts on a channel that is requested and not masked.
Due(d) == d.request /\ ~d.masked

\* Memory after a transfer into it, and the device's buffer after one out of it.
IntoMemory(d, memory, buffer) ==
  [a \in Address |->
     IF \E k \in 0 .. d.count : a = Place(d, k)
     THEN buffer[CHOOSE k \in 0 .. d.count : a = Place(d, k)] ELSE memory[a]]

IntoBuffer(d, memory, buffer) ==
  [k \in Address |-> IF k <= d.count THEN memory[Place(d, k)] ELSE buffer[k]]

\* Fault: the request stays.
TransferredKeepsRequest(d) ==
  [d EXCEPT !.current = Place(d, d.count + 1), !.count = 0]

\* The registers after a transfer: the count ends at 0, not below it.
Transferred(d) ==
  [d EXCEPT !.current = Place(d, d.count + 1), !.count = 0, !.request = FALSE]

\* Writes of the address, count and mode registers.
Programmed(d, a, n, toMemory) ==
  [d EXCEPT !.current = a, !.count = n, !.toMemory = toMemory]

ResetChannel(d) == [d EXCEPT !.request = FALSE, !.masked = TRUE]

PowerOnChannel ==
  [current |-> 0, count |-> 0, toMemory |-> FALSE,
   request |-> FALSE, masked |-> TRUE]
=============================================================================
