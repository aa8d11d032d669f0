--------------------------- MODULE BluesimClocks ---------------------------
(***************************************************************************)
(* The classes of Bluesim/bs_prim_mod_clockgen.h, bs_prim_mod_clockmux.h   *)
(* and bs_prim_mod_gatedclock.h that derive a clock from others.  They are *)
(* called at edges of their clocks and trigger edges of the one going out; *)
(* a gated clock is a clock with a gate beside it, where Verilog has their *)
(* conjunction.  In a time slice come the calls of the rules of CLK, before*)
(* the function of CLK, and in any order the functions of the others; then *)
(* a reset that changes.                                                   *)
(*                                                                         *)
(* The gate of a clock coming in changes when that clock falls.            *)
(***************************************************************************)
EXTENDS Integers

CONSTANTS
  ClockClasses,       \* the classes constructed
  None,               \* no call
  Gates,              \* initial gates of MakeClock and GatedClock
  Dividers,           \* width, lower and offset of ClockDivider; upper is all ones
  Stages              \* reset_delay of ClockSelect

VARIABLES
  kindOf, initGate, par,   \* class and arguments of the constructor
  ins,                     \* the clocks A (or CLK_IN) and B coming in, their gates GA, GB; RST
  c,                       \* fields of the class
  clkOut, rises,           \* external: value of the clock triggered, its positive edges in this slice
  rstOut, lastQueued,      \* what reset_fn was last called with; was queued with in this slice
  todo, args,              \* calls of this slice still to come, arguments of the rules'
  fresh, resetCame,        \* the inputs it has seen since reset; reset changed now
  vr, rose                 \* the Verilog registers, positive edges of CLK_OUT in this slice

clockVars == <<kindOf, initGate, par, ins, c, clkOut, rises, rstOut, lastQueued, todo, args, fresh, resetCame, vr, rose>>
fixed == <<kindOf, initGate, par>>

Inputs == {"A", "B"}
Muxes == {"ClockMux", "ClockSelect"}
upper == 2^par.width - 1
transition == 2^(par.width - 1)
Msb(cntr) == IF cntr >= transition THEN 1 ELSE 0
Start == 2^par.width - 1 - par.offset
Settled == todo = {}

(***************************************************************************)
(* The Verilog modules.  The gate is a latch, open while the clock is low. *)
(***************************************************************************)
GatedIn(i) == i.A * i.GA
CLK_OUT(r, i) ==
  CASE kindOf = "MakeClock"     -> r.cur * r.gate
    [] kindOf = "GatedClock"    -> GatedIn(i) * r.gate
    [] kindOf = "ClockInverter" -> (1 - GatedIn(i)) * r.gate
    [] kindOf = "ClockDivider"  -> Msb(r.cntr) * r.gate
    [] OTHER                    -> IF r.sel THEN GatedIn(i) ELSE i.B * i.GB

Latch(r, i) ==
  [r EXCEPT !.gate =
    CASE kindOf = "MakeClock"  -> IF r.cur = 0 THEN r.cond ELSE @
      [] kindOf = "GatedClock" -> IF GatedIn(i) = 0 THEN i.GA * r.cond ELSE @
      [] kindOf \in Muxes      -> IF r.sel THEN i.GA ELSE i.GB
      [] OTHER                 -> IF CLK_OUT(r, i) = 0 THEN i.GA ELSE @]

VerilogReset(r, i) ==
  Latch([r EXCEPT !.cur = 0, !.cond = initGate, !.cntr = Start, !.sel = FALSE, !.sel2 = FALSE,
                  !.hold = IF kindOf = "ClockSelect" THEN 0 ELSE @], i)

(* What a slice does: i are the inputs after it, a what the rules set.     *)
(* reset_hold is a shift register; hold is the number of ones in it.  The  *)
(* clock is about to rise only while no change of the selection is pending.*)
VerilogSlice(edges, i, a) ==
  LET flops ==
        IF i.RST = 0 THEN vr
        ELSE [vr EXCEPT
          !.cur  = IF kindOf = "MakeClock" /\ a.clk # None THEN a.clk ELSE @,
          !.cond = IF a.gate # None THEN a.gate ELSE @,
          !.cntr = IF kindOf = "ClockDivider" /\ i.A > ins.A THEN IF @ < upper THEN @ + 1 ELSE par.lower ELSE @,
          !.sel  = IF kindOf \in Muxes /\ a.clk # None THEN a.clk = 1 ELSE @,
          !.sel2 = IF kindOf = "ClockSelect" /\ "CLK" \in edges THEN vr.sel ELSE @]
      ticks == IF vr.sel THEN i.A > ins.A ELSE i.B > ins.B
  IN  Latch([flops EXCEPT !.hold =
               IF kindOf # "ClockSelect" THEN @
               ELSE IF i.RST = 0 \/ vr.sel # vr.sel2 \/ flops.sel # flops.sel2 THEN 0
               ELSE IF ticks /\ @ <= Stages THEN @ + 1 ELSE @], i)
(* reset_at_end_of_timeslice: the calls asked for come in the order asked. *)
Told == IF lastQueued = None THEN rstOut ELSE lastQueued
OUT_RST == IF vr.hold > Stages THEN 1 ELSE 0

Rose(r, i) == IF CLK_OUT(vr, ins) < CLK_OUT(r, i) THEN 1 ELSE 0

(***************************************************************************)
(* The constructors, and set_clk_0, which gives the kernel the value the   *)
(* clock going out has before its first edge.                              *)
(***************************************************************************)
ClocksInit ==
  /\ kindOf \in ClockClasses
  /\ initGate \in Gates /\ (kindOf \in {"MakeClock", "GatedClock"} \/ initGate = 1)
  /\ par \in Dividers /\ (kindOf = "ClockDivider" \/ par = CHOOSE p \in Dividers : TRUE)
  /\ ins = [A |-> 0, B |-> 0, GA |-> 1, GB |-> 1, RST |-> 1]
  /\ c = [cur |-> 0, old |-> 0, cond |-> initGate, in_reset |-> FALSE, clk_in_gate |-> 0,
          PORT |-> CASE kindOf = "MakeClock" -> initGate
                     [] kindOf \in {"GatedClock", "ClockDivider"} -> 0 [] OTHER -> 1,
          cntr |-> Start, select_out |-> FALSE, select_out2 |-> FALSE, written |-> FALSE,
          a |-> <<0, IF kindOf = "ClockSelect" THEN 1 ELSE 0>>, b |-> <<0, IF kindOf = "ClockSelect" THEN 1 ELSE 0>>,
          new_clk |-> 0, changed |-> FALSE, negedge |-> FALSE, hold |-> Stages + 1]
  /\ clkOut = (IF kindOf = "ClockDivider" THEN Msb(Start) ELSE 0)
  /\ rises = 0 /\ rstOut = 1 /\ lastQueued = None
  /\ todo = {} /\ args = [clk |-> None, gate |-> None]
  /\ fresh = (IF kindOf \in {"MakeClock", "ClockSelect"} THEN Inputs ELSE {}) /\ resetCame = FALSE
  /\ vr = Latch([cur |-> 0, cond |-> initGate, gate |-> 1, cntr |-> Start,
                 sel |-> FALSE, sel2 |-> FALSE, hold |-> Stages + 1], ins)
  /\ rose = 0

(***************************************************************************)
(* A slice: the clocks that have an edge, the gates afterwards, and what   *)
(* the rules of CLK set.  CLK_IN of a GatedClock does not rise where a rule*)
(* sets the gate: that is a race in hardware too.  Nor does the gate of a  *)
(* divider open while its counter is high: it would cut a pulse short.     *)
(***************************************************************************)
Clocks == CASE kindOf = "MakeClock" -> {"CLK"}
            [] kindOf = "GatedClock" -> {"CLK", "A"}
            [] kindOf \in Muxes -> {"CLK", "A", "B"}
            [] OTHER -> {"A"}
Arguments(edges) ==
  LET gates == IF kindOf \in {"MakeClock", "GatedClock"} THEN {0, 1, None} ELSE {None}
      clks  == IF kindOf \in {"MakeClock"} \cup Muxes THEN {0, 1, None} ELSE {None}
  IN  IF "CLK" \in edges THEN [clk : clks, gate : gates] ELSE [clk : {None}, gate : {None}]
GateMoves(edges, gate, clock) ==
  gate # ins[IF clock = "A" THEN "GA" ELSE "GB"] =>
    clock \in edges /\ ins[clock] = 1 /\ kindOf # "ClockSelect"

Slice(edges, ga, gb, a) ==
  LET i == [ins EXCEPT !.A = IF "A" \in edges THEN 1 - @ ELSE @,
                       !.B = IF "B" \in edges THEN 1 - @ ELSE @, !.GA = ga, !.GB = gb]
  IN
  /\ Settled /\ edges # {} /\ GateMoves(edges, ga, "A") /\ GateMoves(edges, gb, "B")
  /\ kindOf = "GatedClock" /\ a.gate # None => i.A <= ins.A
  /\ kindOf = "ClockDivider" /\ Msb(vr.cntr) = 1 /\ vr.gate = 0 => ga = ins.GA
  /\ ins' = i /\ args' = a /\ vr' = VerilogSlice(edges, i, a)
  /\ rose' = Rose(vr', i)
  /\ todo' = {e \in edges : kindOf = "ClockDivider" => i.A = 1}
                \cup {m \in {"clk", "gate"} : a[m] # None}
  /\ c' = [c EXCEPT !.written = FALSE, !.negedge = FALSE]
  /\ rises' = 0 /\ lastQueued' = None /\ resetCame' = FALSE
  /\ rstOut' = Told /\ UNCHANGED <<fixed, clkOut, fresh>>

(* A call of this slice. *)
Call(kinds, m) ==
  /\ kindOf \in kinds /\ m \in todo /\ todo' = todo \ {m}
  /\ m = "CLK" => todo \cap {"clk", "gate"} = {}
  /\ UNCHANGED <<fixed, ins, args, rstOut, resetCame, vr, rose>>
(* bk_trigger_clock_edge *)
Trigger(from, to) ==
  IF from = to THEN UNCHANGED <<clkOut, rises>> ELSE clkOut' = to /\ rises' = rises + to
NoTrigger == UNCHANGED <<clkOut, rises, lastQueued>>

(***************************************************************************)
(* MakeClock: the rules set the clock and the condition, clk brings them   *)
(* out.                                                                    *)
(***************************************************************************)
METH_setClockValue ==
  /\ Call({"MakeClock"}, "clk") /\ NoTrigger /\ UNCHANGED fresh
  /\ c' = IF c.in_reset THEN c ELSE [c EXCEPT !.cur = args.clk]
METH_make_setGateCond ==
  /\ Call({"MakeClock"}, "gate") /\ NoTrigger /\ UNCHANGED fresh
  /\ c' = IF c.in_reset THEN c ELSE [c EXCEPT !.cond = args.gate]
make_clk ==
  /\ Call({"MakeClock"}, "CLK") /\ UNCHANGED lastQueued
  /\ IF c.in_reset THEN UNCHANGED <<c, clkOut, rises, fresh>>
     ELSE LET now == IF c.old = 0 /\ c.cur = 1 /\ c.PORT = 0 THEN 0 ELSE c.cur
          IN  /\ Trigger(c.old, now) /\ fresh' = IF c.cur = 0 THEN Inputs ELSE fresh
              /\ c' = [c EXCEPT !.old = now, !.PORT = IF c.cur = 0 THEN c.cond ELSE @]

(***************************************************************************)
(* GatedClock: the latch follows the register and the clock.               *)
(***************************************************************************)
update_new_gate(f, low) == IF low THEN f.clk_in_gate * f.cond ELSE f.PORT

METH_gated_setGateCond ==
  /\ Call({"GatedClock"}, "gate") /\ NoTrigger /\ UNCHANGED fresh
  /\ c' = IF c.in_reset THEN c
          ELSE LET f == [c EXCEPT !.cond = args.gate]
               IN  [f EXCEPT !.PORT = update_new_gate(f, ins.A = 0)]
clk_in ==
  /\ Call({"GatedClock"}, "A") /\ NoTrigger /\ fresh' = IF ins.A = 0 THEN Inputs ELSE fresh
  /\ c' = LET f == [c EXCEPT !.clk_in_gate = ins.GA]
          IN  [f EXCEPT !.PORT = update_new_gate(f, ins.A = 0)]
gated_clk == Call({"GatedClock"}, "CLK") /\ NoTrigger /\ UNCHANGED <<c, fresh>>

(***************************************************************************)
(* ClockInverter and ClockDivider.                                         *)
(***************************************************************************)
inverter_clk ==
  LET new == IF GatedIn(ins) = 1 \/ c.PORT = 0 THEN 0 ELSE 1
  IN  /\ Call({"ClockInverter"}, "A") /\ Trigger(c.cur, new) /\ fresh' = Inputs
      /\ c' = [c EXCEPT !.cur = new, !.PORT = IF new = 0 THEN ins.GA ELSE @]
      /\ UNCHANGED lastQueued

METH_clockReady == c.cntr = transition - 1

divider_clk ==
  LET gate == IF c.cntr < transition THEN ins.GA ELSE c.PORT
      next == IF c.cntr = upper THEN par.lower ELSE c.cntr + 1
  IN  /\ Call({"ClockDivider"}, "A") /\ UNCHANGED lastQueued
      /\ IF c.in_reset THEN UNCHANGED <<c, clkOut, rises, fresh>>
         ELSE /\ IF gate = 0 THEN UNCHANGED <<clkOut, rises>>
                 ELSE Trigger(IF c.cntr = upper THEN 1 ELSE Msb(c.cntr), Msb(next))
              /\ c' = [c EXCEPT !.cntr = next,
                                !.PORT = IF c.cntr = upper /\ gate = 1 THEN ins.GA ELSE gate]
              /\ fresh' = IF next = transition /\ gate = 1 THEN Inputs ELSE fresh

(***************************************************************************)
(* ClockMux and ClockSelect.                                               *)
(***************************************************************************)
do_clock(f) ==
  LET chosen == IF f.select_out THEN f.a ELSE f.b
  IN  /\ Trigger(f.new_clk, chosen[1])
      /\ c' = [f EXCEPT !.new_clk = chosen[1], !.PORT = chosen[2]] /\ UNCHANGED lastQueued

(* An edge that comes with the end of a change still counts as during it.  *)
During(f, changes) == changes \/ f.negedge \/ f.changed
do_clock_and_reset(f) ==
  LET chosen  == IF f.select_out THEN f.a ELSE f.b
      changes == f.select_out # f.select_out2 \/ f.in_reset
      looks   == chosen[1] > f.new_clk \/ (changes /\ ~f.changed)
      hold    == CASE ~looks -> f.hold [] During(f, changes) -> 0
                   [] OTHER -> IF f.hold <= Stages THEN f.hold + 1 ELSE f.hold
  IN  /\ Trigger(f.new_clk, chosen[1])
      /\ c' = [f EXCEPT !.new_clk = chosen[1], !.PORT = chosen[2], !.changed = changes,
                        !.negedge = @ \/ (f.changed /\ ~changes), !.hold = hold]
      /\ lastQueued' = CASE looks /\ hold = 0 /\ f.hold > Stages -> 0
                         [] looks /\ hold > Stages -> 1
                         [] OTHER -> lastQueued
Clocked(f) == IF kindOf = "ClockMux" THEN do_clock(f) ELSE do_clock_and_reset(f)

aClk == Call(Muxes, "A") /\ fresh' = fresh \cup {"A"} /\ Clocked([c EXCEPT !.a = <<ins.A, ins.GA>>])
bClk == Call(Muxes, "B") /\ fresh' = fresh \cup {"B"} /\ Clocked([c EXCEPT !.b = <<ins.B, ins.GB>>])
METH_mux_select ==
  /\ Call({"ClockMux"}, "clk") /\ NoTrigger /\ UNCHANGED fresh
  /\ c' = [c EXCEPT !.select_out = (args.clk = 1)]
METH_select ==
  /\ Call({"ClockSelect"}, "clk") /\ UNCHANGED fresh
  /\ IF c.in_reset THEN UNCHANGED c /\ NoTrigger
     ELSE Clocked([c EXCEPT !.written = TRUE, !.select_out2 = c.select_out, !.select_out = (args.clk = 1)])
xclk ==
  /\ Call(Muxes, "CLK") /\ UNCHANGED fresh
  /\ CASE kindOf = "ClockMux" -> Clocked(c)
       [] kindOf = "ClockSelect" /\ ~c.in_reset /\ ~c.written -> Clocked([c EXCEPT !.select_out2 = c.select_out])
       [] OTHER -> UNCHANGED c /\ NoTrigger

(***************************************************************************)
(* A reset that begins or ends after the calls of a slice.  That of a      *)
(* ClockDivider begins while its gate is open.                             *)
(***************************************************************************)
make_reset(on) ==
  /\ kindOf = "MakeClock" /\ UNCHANGED <<clkOut, rises, lastQueued>>
  /\ fresh' = IF c.old = 0 THEN fresh ELSE {}
  /\ c' = IF on THEN [c EXCEPT !.in_reset = TRUE, !.cur = 0, !.PORT = initGate, !.cond = initGate]
                ELSE [c EXCEPT !.in_reset = FALSE]
gated_reset(on) ==
  /\ kindOf = "GatedClock" /\ UNCHANGED <<clkOut, rises, lastQueued, fresh>>
  /\ c' = IF ~on THEN [c EXCEPT !.in_reset = FALSE]
          ELSE LET f == [c EXCEPT !.in_reset = TRUE, !.cond = initGate]
               IN  [f EXCEPT !.PORT = update_new_gate(f, ins.A = 0)]
divider_reset(on) ==
  /\ kindOf = "ClockDivider" /\ UNCHANGED lastQueued /\ (on => ins.GA = 1 /\ vr.gate = 1)
  /\ IF on THEN /\ c' = [c EXCEPT !.in_reset = TRUE, !.cntr = Start, !.PORT = 0]
                /\ Trigger(Msb(c.cntr), Msb(Start)) /\ fresh' = {}
           ELSE c' = [c EXCEPT !.in_reset = FALSE] /\ UNCHANGED <<clkOut, rises, fresh>>
select_reset(on) ==
  /\ kindOf = "ClockSelect" /\ UNCHANGED fresh
  /\ LET f == [c EXCEPT !.in_reset = on]
     IN  Clocked(IF on THEN f ELSE [f EXCEPT !.select_out = FALSE, !.select_out2 = FALSE])

reset_RST(rst_in) ==
  /\ Settled /\ ~resetCame /\ resetCame' = TRUE
  /\ ins.RST # rst_in /\ ins' = [ins EXCEPT !.RST = rst_in]
  /\ \/ make_reset(rst_in = 0) \/ gated_reset(rst_in = 0)
     \/ divider_reset(rst_in = 0) \/ select_reset(rst_in = 0)
  /\ vr' = IF rst_in = 0 THEN VerilogReset(vr, ins) ELSE vr
  /\ rose' = rose + Rose(vr', ins)
  /\ UNCHANGED <<fixed, rstOut, todo, args>>

ClocksNext ==
  \/ \E edges \in SUBSET Clocks, ga, gb \in {0, 1} :
       \E a \in Arguments(edges) : Slice(edges, ga, gb, a)
  \/ METH_setClockValue \/ METH_make_setGateCond \/ make_clk
  \/ METH_gated_setGateCond \/ clk_in \/ gated_clk
  \/ inverter_clk \/ divider_clk
  \/ aClk \/ bClk \/ METH_mux_select \/ METH_select \/ xclk
  \/ \E rst_in \in {0, 1} : reset_RST(rst_in)

ClocksSpec == ClocksInit /\ [][ClocksNext]_clockVars

(***************************************************************************)
(* After each slice, out of reset and once the clocks coming in have had   *)
(* an edge, the clock triggered, with its gate, is CLK_OUT of the Verilog  *)
(* and the gate its CLK_GATE_OUT; the rules of that clock have run once for*)
(* each of its positive edges and for nothing else; and ClockSelect holds  *)
(* its reset as long (bs_prim_mod_clockgen.h:124-145,                      *)
(* bs_prim_mod_clockmux.h:124-163).  The edges of a multiplexer come from  *)
(* two clocks, and those within a slice may differ.                        *)
(***************************************************************************)
ClocksAgree ==
  Settled =>
    /\ fresh = Inputs /\ ins.RST = 1 =>
         /\ kindOf # "ClockDivider" \/ ins.A = 1 => c.PORT = vr.gate
         /\ kindOf \in {"MakeClock", "ClockInverter"} => clkOut = CLK_OUT(vr, ins)
         /\ kindOf = "ClockDivider" /\ ins.A = 1 => clkOut * c.PORT = CLK_OUT(vr, ins)
         /\ kindOf \in Muxes => clkOut * c.PORT = CLK_OUT(vr, ins)
         /\ kindOf \in {"MakeClock", "ClockInverter"} => rises = rose
    /\ kindOf = "ClockDivider" => rises = rose /\ METH_clockReady = (vr.cntr = transition - 1)
    /\ kindOf = "ClockSelect" => Told = OUT_RST
=============================================================================
