--------------------------- MODULE BluesimCounter ---------------------------
(***************************************************************************)
(* Class MOD_Counter of Bluesim/bs_prim_mod_counter.h.  The calls addA,    *)
(* addB and setC of a cycle come in any order and setF after them; together*)
(* they are to do what Counter.v does at one clock edge, and value shows   *)
(* the count from before it.                                               *)
(***************************************************************************)
EXTENDS Integers

CONSTANTS
  CounterBits,     \* width
  CounterReset,    \* reset_val
  CounterArgs      \* bound: the arguments of calls

VARIABLES
  val, saved_val, saved,     \* saved: saved_at is the current time
  arg, called, did,          \* a, b, c, f; their stamps are the current time; the did_ flags
  creset, csuppress,         \* in_reset, suppress_write
  step,                      \* rules, ticked, dumped: as far as the time slice has come
  cq, inputs,                \* history: q_state of the Verilog, the calls of the last edge
  cback, cshown              \* the instance backing and what a waveform viewer shows

counterVars == <<val, saved_val, saved, arg, called, did, creset, csuppress, step, cq, inputs, cback, cshown>>

Methods == {"addA", "addB", "setC", "setF"}
NoCall  == [m \in Methods |-> FALSE]
NotDumped == [m \in {} |-> 0]
mask_high_bits(x) == x % 2^CounterBits

CounterInit ==
  /\ val \in {CounterReset, 2^CounterBits - 1} /\ saved_val = 0 /\ saved = FALSE
  /\ arg = [m \in Methods |-> CounterReset] /\ called = NoCall /\ did = NoCall
  /\ creset = FALSE /\ csuppress = FALSE
  /\ step = "rules" /\ cq = val /\ inputs = NoCall /\ cback = NotDumped /\ cshown = NotDumped

METH_value == IF saved THEN saved_val ELSE val

(* A call saves the count first, stamps itself, and is void in reset. *)
Calls(m, x, new) ==
  /\ step = "rules" /\ ~csuppress /\ ~called[m] /\ ~called["setF"]
  /\ called' = [called EXCEPT ![m] = TRUE] /\ arg' = [arg EXCEPT ![m] = x]
  /\ saved' = TRUE /\ saved_val' = METH_value
  /\ val' = new
  /\ UNCHANGED <<did, creset, csuppress, step, cq, inputs, cback, cshown>>

Addend(m) == IF called[m] THEN arg[m] ELSE 0
MutSetC(x)   == Calls("setC", x, x)
METH_setC(x) == Calls("setC", x, mask_high_bits(x + Addend("addA") + Addend("addB")))
METH_addA(x) == Calls("addA", x, mask_high_bits(val + x))
METH_addB(x) == Calls("addB", x, mask_high_bits(val + x))
METH_setF(x) == Calls("setF", x, x)
(* The same counter as a register with increments. *)
METH_update(x) == METH_setC(x)

reset_counter(rst_in) ==
  /\ step = "ticked" /\ creset = rst_in /\ creset' = ~rst_in
  /\ csuppress' = (csuppress /\ ~rst_in)
  /\ UNCHANGED <<val, saved_val, saved, arg, called, did, step, cq, inputs, cback, cshown>>

(* The edge: after the rules the reset tick, if a reset is on. *)
VerilogCount ==
  IF creset THEN CounterReset
  ELSE IF called["setF"] THEN arg["setF"]
  ELSE mask_high_bits((IF called["setC"] THEN arg["setC"] ELSE cq) + Addend("addA") + Addend("addB"))
CounterEdge ==
  /\ step = "rules" /\ step' = "ticked"
  /\ cq' = VerilogCount /\ inputs' = called
  /\ IF creset THEN val' = CounterReset /\ csuppress' = TRUE ELSE UNCHANGED <<val, csuppress>>
  /\ UNCHANGED <<saved_val, saved, arg, called, did, creset, cback, cshown>>

(* A dump ends the time slice of an edge, or one of another clock.  Changes*)
(* of the inputs are looked for at the edge only.                          *)
Seen == [s \in Methods \cup {"count"} |-> IF s = "count" THEN <<val>> ELSE <<called[s], arg[s]>>]
MutLooked(changes) == IF changes THEN {"count"} \cup {m \in Methods : called[m]} ELSE DOMAIN Seen
Looked(changes) == IF changes /\ step = "rules" THEN {"count"} ELSE DOMAIN Seen

dump_counter(changes) ==
  /\ step = "ticked" \/ (step = "rules" /\ called = NoCall)
  /\ changes => cshown # NotDumped
  /\ LET new == Looked(changes) IN
     /\ cshown' = [s \in DOMAIN Seen |->
                    IF s \in new /\ (changes => Seen[s] # cback[s]) THEN Seen[s] ELSE cshown[s]]
     /\ cback' = [s \in DOMAIN Seen |-> IF s \in new THEN Seen[s] ELSE cback[s]]
     /\ did' = IF changes /\ step = "rules" THEN did ELSE called
     /\ inputs' = IF step = "rules" /\ ~changes THEN NoCall ELSE inputs
  /\ step' = "dumped"
  /\ UNCHANGED <<val, saved_val, saved, arg, called, creset, csuppress, cq>>

CounterAdvance ==
  /\ step = "dumped" \/ (step = "ticked" /\ cshown = NotDumped)
  /\ step' = "rules" /\ called' = NoCall /\ saved' = FALSE
  /\ UNCHANGED <<val, saved_val, arg, did, creset, csuppress, cq, inputs, cback, cshown>>

CounterNext ==
  \/ \E x \in CounterArgs : METH_addA(x) \/ METH_addB(x) \/ METH_update(x) \/ METH_setF(x)
  \/ \E b \in BOOLEAN : reset_counter(b) \/ dump_counter(b)
  \/ CounterEdge \/ CounterAdvance

CounterSpec == CounterInit /\ [][CounterNext]_counterVars

(* In whatever order addA, addB and setC come, with overflow and with reset*)
(* beginning and ending in any cycle, the cycle leaves the count of the    *)
(* clock edge of Counter.v; until the edge value is that of before.        *)
CounterIsCounter == IF step = "rules" THEN METH_value = cq ELSE val = cq

(* After a dump the viewer, who sees changes only, has the count and the   *)
(* calls of the last edge, although the flags are looked at then only.     *)
CounterWaveTrue ==
  step = "dumped" /\ cshown # NotDumped =>
    /\ cshown["count"] = <<cq>>
    /\ \A m \in Methods : cshown[m] = <<inputs[m], arg[m]>>
=============================================================================
