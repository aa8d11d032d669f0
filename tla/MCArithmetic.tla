---------------------------- MODULE MCArithmetic ----------------------------
(***************************************************************************)
(* What computes and stores: the operators of bs_prim_ops.h, in every      *)
(* chain of them; the loader of a memory file; or the storage of the       *)
(* memories.                                                               *)
(***************************************************************************)
EXTENDS PrimOps

CONSTANTS
  MaxEntries,               \* bound: entries of a memory file
  MaxAddrBits, MaxLookup    \* of MemoryStore

VARIABLES
  which,
  memory, addr, rlist, times, entries, gaps, dups,
  addr_bits, level_bits, blocks, stored

(* Ranges of an address type that fills its integer, and of some that do   *)
(* not; one of them in the wrong order.                                    *)
Memory(bits, promoted, start, end) == [bits |-> bits, promoted |-> promoted, start |-> start, end |-> end]

Store == INSTANCE MemoryStore WITH
           Memories <- {Memory(2, TRUE, 0, 3), Memory(3, TRUE, 2, 5), Memory(3, FALSE, 1, 5), Memory(2, TRUE, 3, 1)}
memVars   == <<memory, addr, rlist, times, entries, gaps, dups>>
storeVars == <<addr_bits, level_bits, blocks, stored>>

MCInit ==
  /\ which \in {"primOps", "file", "storage"}
  /\ Init /\ Store!MemInit /\ Store!StoreInit
  /\ which = "primOps" \/ (sz = 1 /\ val = 0)
  /\ which = "file" \/ memory.end = 3
MCNext ==
  \/ which = "primOps" /\ Next /\ UNCHANGED <<which, memVars, storeVars>>
  \/ which = "file" /\ Store!MemNext /\ UNCHANGED <<which, vars, storeVars>>
  \/ which = "storage" /\ Store!StoreNext /\ UNCHANGED <<which, vars, memVars>>
MCSpec == MCInit /\ [][MCNext]_<<which, vars, memVars, storeVars>>

(* What MemoryStore says of a memory: gaps and duplicates are reported, and*)
(* its words do not collide (bs_range_tracker.h:32-130,                    *)
(* bs_prim_mod_bram.h:253-428).                                            *)
MemoriesLoad == Store!RangesReported /\ Store!BlocksTile
=============================================================================
