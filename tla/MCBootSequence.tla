---------------------------- MODULE MCBootSequence ----------------------------
(* Machines of up to eight pages, of which two are always mapped: with and *)
(* without each protocol, with the stack below, between and above the      *)
(* memory in use, and with every amount of heap; a firmware that keeps     *)
(* still or not, with room for its map or not; addresses of eight  *)
(* binary digits: the TSS at every one of them, the entry points spread    *)
(* over all.                                                               *)
EXTENDS BootSequence

Memory(type, first, last) == [memory_type |-> type, first |-> first, last |-> last]

(* The image above the heap; the image at the bottom and the heap at the   *)
(* top; little memory.                                                     *)
Layouts(stack) ==
  LET firmware == Memory("BOOT_SERVICE_DATA", stack, stack)
  IN  { <<Memory("CONVENTIONAL_MEMORY", 0, 2), Memory("LOADED_CODE", 4, 4), firmware>>,
        <<firmware, Memory("LOADED_CODE", 0, 0), Memory("CONVENTIONAL_MEMORY", 5, 6)>>,
        <<firmware, Memory("CONVENTIONAL_MEMORY", 0, 0)>> }

EntryPoints(k) == [v \in Vectors |-> (37 * v + k) % 256]

Both == {"loaded_image", "graphics"}

Booted(protocols, fits, map, stack, blocks) ==
  [protocols |-> protocols, fits |-> fits, quiet |-> TRUE, room |-> TRUE, map |-> map, stack |-> stack,
   blocks |-> blocks, entry |-> EntryPoints(41), tss |-> 90]

Ample == Booted(Both, TRUE, CHOOSE m \in Layouts(3) : m[1].last = 2, 3, 12)

MCMachines ==
  { Booted(p, f, m, 3, b) : p \in SUBSET Both, f \in BOOLEAN, m \in Layouts(3),
                            b \in {0, 2, 3, 4, 5, 8, 9, 12} }
  \cup { Booted(Both, TRUE, m, 7, b) : m \in Layouts(7), b \in 0 .. 12 }
  \cup { Booted(Both, TRUE, m, 1, b) : m \in {n \in Layouts(1) : n[1].first = 1},
                                       b \in 0 .. 12 }
  \cup { [Ample EXCEPT !.tss = a, !.entry = EntryPoints(k)] :
            a \in Address, k \in {0} }
  \cup { [Ample EXCEPT !.quiet = q, !.room = r] : q \in BOOLEAN, r \in BOOLEAN }
  \cup { [Ample EXCEPT !.entry = EntryPoints(k)] : k \in {17, 170} }

=============================================================================
