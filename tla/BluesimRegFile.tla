--------------------------- MODULE BluesimRegFile ---------------------------
(***************************************************************************)
(* Class MOD_RegFile of Bluesim/bs_prim_mod_regfile.h: a memory that is    *)
(* read in the middle of a cycle.  The rules of a cycle, one of which may  *)
(* write, come in any order; an upd may come before a sub.                 *)
(***************************************************************************)
EXTENDS Naturals

CONSTANTS Vals, Undet, lo_addr, hi_addr

VARIABLES
  words,                        \* lookup_value
  upd_now, upd_addr, upd_prev,  \* the last upd: whether it was in this cycle, ...
  arr, edge                     \* RegFile.v: the memory before the edge; the write of this cycle

rfVars == <<words, upd_now, upd_addr, upd_prev, arr, edge>>

Valid == lo_addr .. hi_addr
AddrOf == lo_addr - 1 .. hi_addr + 1     \* addresses, some of them out of bounds

NoWrite == [a \in {} |-> Undet]
At(a, d) == [x \in {a} |-> d]

RegFileInit ==
  /\ words = [a \in AddrOf |-> Undet] /\ arr = words
  /\ upd_now = FALSE /\ upd_addr = lo_addr /\ upd_prev = Undet
  /\ edge = NoWrite

METH_sub(a) ==
  CASE a \notin Valid -> Undet
    [] a \in Valid /\ a = upd_addr /\ upd_now -> upd_prev
    [] OTHER -> words[a]

(* upd has no check of the bounds: a word outside has a place of its own. *)
MutMETH_upd(a, d) ==
  /\ edge = NoWrite /\ edge' = At(a, d)
  /\ words' = [words EXCEPT ![a] = d]
  /\ upd_now' = TRUE /\ upd_addr' = a /\ upd_prev' = d
  /\ UNCHANGED arr
METH_upd(a, d) ==
  /\ edge = NoWrite /\ edge' = At(a, d)
  /\ words' = [words EXCEPT ![a] = d]
  /\ upd_now' = TRUE /\ upd_addr' = a /\ upd_prev' = words[a]
  /\ UNCHANGED arr

(* The clock edge of the Verilog, and the next cycle. *)
Cycle ==
  /\ arr' = [a \in AddrOf |-> IF a \in DOMAIN edge THEN edge[a] ELSE arr[a]]
  /\ edge' = NoWrite /\ upd_now' = FALSE
  /\ UNCHANGED <<words, upd_addr, upd_prev>>

(* The test bench, between cycles, through a BluespecProbe. *)
write_rf(a, d) ==
  /\ ~upd_now
  /\ words' = [words EXCEPT ![a] = d] /\ arr' = [arr EXCEPT ![a] = d]
  /\ UNCHANGED <<upd_now, upd_addr, upd_prev, edge>>

RegFileNext ==
  \/ \E a \in AddrOf, d \in Vals : METH_upd(a, d) \/ write_rf(a, d)
  \/ Cycle
RegFileSpec == RegFileInit /\ [][RegFileNext]_rfVars

(***************************************************************************)
(* At any time in a cycle every word reads as it was before the edge: what *)
(* an upd of this cycle wrote is not seen, and nothing else is hidden      *)
(* (bs_prim_mod_regfile.h:361-363).                                        *)
(***************************************************************************)
ReadsBeforeEdge == \A a \in AddrOf : METH_sub(a) = IF a \in Valid THEN arr[a] ELSE Undet
=============================================================================
