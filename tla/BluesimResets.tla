--------------------------- MODULE BluesimResets ---------------------------
(***************************************************************************)
(* The classes of Bluesim/bs_prim_mod_resets.h that make, synchronize and  *)
(* combine resets.  A reset is a function that is called with 0 when it is *)
(* asserted and with 1 when it is not any more.  In a time slice come the  *)
(* calls of the rules, the functions of the clocks that have an edge, in   *)
(* any order, then the calls asked for with reset_at_end_of_timeslice and  *)
(* the changes of the resets coming in.                                    *)
(***************************************************************************)
EXTENDS Naturals

CONSTANTS
  Generators,     \* the classes constructed
  Cycles,         \* reset_hold
  None,           \* no call of a rule
  AnyOrder,       \* the calls at the end of a slice come in any order
  MaxTicks        \* bound: requests of reset ticks under which resets begin

VARIABLES
  gen, rst_reset_value,  \* class and argument of the constructor
  sync,                  \* MOD_SyncReset, also within MOD_MakeReset
  make,                  \* MOD_MakeReset and MOD_MakeReset0
  mux,                   \* MOD_ResetMux and MOD_ResetEither
  told,                  \* what the reset function going out was last called with
  ticks,                 \* external: requests of reset ticks
  calls, arg,            \* calls of this slice still to come, the argument of the rule's
  queued,                \* calls to be made at the end of the slice
  changed,               \* the resets coming in that have changed in this slice
  v                      \* the Verilog: inputs and registers

resetVars == <<gen, rst_reset_value, sync, make, mux, told, ticks, calls, arg, queued, changed, v>>
class == <<gen, rst_reset_value>>

Makes   == {"MakeReset", "MakeResetA", "MakeReset0"}
Choices == {"ResetMux", "ResetEither"}
Async   == gen \in {"SyncResetA", "MakeResetA"}
Idle    == calls = {} /\ queued = {}

(* A multiplexer starts with both its resets asserted. *)
ResetsInit ==
  /\ gen \in Generators /\ rst_reset_value \in {0, 1} /\ (gen \in Makes \/ rst_reset_value = 1)
  /\ sync = [in_reset |-> FALSE, count |-> IF gen = "InitialReset" THEN Cycles ELSE 0, call_reset_fn |-> FALSE]
  /\ make = [rst |-> 1, old_rst |-> 1, written |-> FALSE, in_reset |-> FALSE]
  /\ LET in == IF gen = "ResetMux" THEN 0 ELSE 1
     IN  /\ mux = [select_out |-> FALSE, new_select_out |-> FALSE, A |-> in, B |-> in]
         /\ v = [RST |-> 1, rst |-> 1, sel |-> FALSE, A |-> in, B |-> in, hold |-> sync.count]
  /\ told = IF gen \in {"InitialReset", "ResetMux"} THEN 0 ELSE 1
  /\ ticks = CASE gen = "InitialReset" -> 1 [] gen = "ResetMux" -> 2 [] OTHER -> 0
  /\ calls = {} /\ arg = None /\ queued = {} /\ changed = {}

(***************************************************************************)
(* The Verilog modules.  hold is the number of zeros in reset_hold, which  *)
(* enter all at once and are shifted out at the top.                       *)
(***************************************************************************)
OUT_RST ==
  CASE gen \in {"SyncReset0", "MakeReset0"} -> v.rst
    [] gen = "ResetMux"    -> IF v.sel THEN v.A ELSE v.B
    [] gen = "ResetEither" -> v.A * v.B
    [] OTHER -> IF v.hold = 0 THEN 1 ELSE 0

(* What a low level of an asynchronous reset does at once. *)
Settle(regs) ==
  LET made == IF gen \in Makes /\ regs.RST = 0 THEN [regs EXCEPT !.rst = rst_reset_value] ELSE regs
  IN  IF Async /\ made.rst = 0 THEN [made EXCEPT !.hold = Cycles + 1] ELSE made

VerilogEdge(edges, a) ==
  Settle([v EXCEPT
    !.rst  = IF gen \in Makes /\ "CLK" \in edges THEN (IF a = "assert" THEN 0 ELSE 1) ELSE @,
    !.sel  = IF a \in {"A", "B"} THEN a = "A" ELSE @,
    !.hold = IF "DST" \notin edges THEN @
             ELSE IF v.rst = 0 THEN Cycles + 1 ELSE IF @ = 0 THEN 0 ELSE @ - 1])

(***************************************************************************)
(* External: an event of the kernel calls the function, then asks for      *)
(* reset ticks if the reset is asserted, and ends a request if it is not.  *)
(***************************************************************************)
Event(t, rst) == IF rst = 0 THEN t + 1 ELSE IF t = 0 THEN 0 ELSE t - 1
Queue(fn, rst) == [fn |-> fn, rst |-> rst]

(* A slice: the clocks that have an edge, and what a rule of CLK calls. *)
Arguments == IF gen \in Makes THEN {"assert"} ELSE IF gen = "ResetMux" THEN {"A", "B"} ELSE {}
Clocks == CASE gen \in {"MakeReset", "MakeResetA"} -> {"CLK", "DST"}
            [] gen \in {"MakeReset0", "ResetMux"}  -> {"CLK"}
            [] gen \in {"SyncReset0", "ResetEither"} -> {}
            [] OTHER -> {"DST"}

(* A pulse of the reset between two edges of DST that Verilog does not see,*)
(* while the reset going out is still asserted.                            *)
Unsampled == gen = "MakeReset" /\ sync.call_reset_fn /\ v.hold # 0

Slice(edges, a) ==
  /\ Idle /\ edges # {}
  /\ a # None => "CLK" \in edges /\ ticks < MaxTicks
  /\ Unsampled /\ "CLK" \in edges => a = "assert" \/ "DST" \in edges
  /\ calls' = edges \cup (IF a = None THEN {} ELSE {"rule"}) /\ arg' = a
  /\ make' = [make EXCEPT !.written = FALSE]
  /\ changed' = {} /\ v' = VerilogEdge(edges, a)
  /\ UNCHANGED <<class, sync, mux, told, ticks, queued>>

(***************************************************************************)
(* Calls of the rules, before the function of their clock.                 *)
(***************************************************************************)
METH_assertReset ==
  /\ gen \in Makes /\ "rule" \in calls /\ calls' = calls \ {"rule"}
  /\ make' = IF make.in_reset THEN make
             ELSE [make EXCEPT !.old_rst = make.rst, !.rst = 0, !.written = TRUE]
  /\ UNCHANGED <<class, sync, mux, told, ticks, arg, queued, changed, v>>
METH_select ==
  /\ gen = "ResetMux" /\ "rule" \in calls /\ calls' = calls \ {"rule"}
  /\ mux' = [mux EXCEPT !.new_select_out = (arg = "A")]
  /\ UNCHANGED <<class, sync, make, told, ticks, arg, queued, changed, v>>

(***************************************************************************)
(* Functions of the clocks.                                                *)
(***************************************************************************)
Ticks(clock) == clock \in calls /\ calls' = calls \ {clock}

(* rst falls when a rule has asserted it in this slice, else it rises. *)
clk ==
  LET next == IF make.written THEN make ELSE [make EXCEPT !.old_rst = make.rst, !.rst = 1]
  IN
  /\ gen \in Makes /\ "rule" \notin calls /\ Ticks("CLK")
  /\ IF make.in_reset THEN UNCHANGED <<make, queued>>
     ELSE /\ make' = next
          /\ queued' = queued \cup
               (IF next.rst = next.old_rst THEN {}
                ELSE {Queue(IF gen = "MakeReset0" THEN "out" ELSE "sync", next.rst)})
  /\ UNCHANGED <<class, sync, mux, told, ticks, arg, changed, v>>

MutSync_clk ==
  /\ gen \in {"SyncReset", "SyncResetA", "MakeReset", "MakeResetA"} /\ Ticks("DST")
  /\ sync' = [sync EXCEPT !.call_reset_fn = FALSE, !.count = IF @ > 0 THEN @ - 1 ELSE 0]
  /\ queued' = queued \cup
       (IF sync.in_reset THEN (IF sync.call_reset_fn THEN {Queue("out", 0)} ELSE {})
        ELSE IF sync.count = 1 THEN {Queue("out", 1)} ELSE {})
  /\ UNCHANGED <<class, make, mux, told, ticks, arg, changed, v>>
Sync_clk ==
  /\ gen \in {"SyncReset", "SyncResetA", "MakeReset", "MakeResetA"} /\ Ticks("DST")
  /\ sync' = [sync EXCEPT !.call_reset_fn = FALSE,
                          !.count = IF ~sync.in_reset /\ @ > 0 THEN @ - 1 ELSE @]
  /\ queued' = queued \cup
       (IF sync.in_reset THEN (IF sync.call_reset_fn THEN {Queue("out", 0)} ELSE {})
        ELSE IF sync.count = 1 THEN {Queue("out", 1)} ELSE {})
  /\ UNCHANGED <<class, make, mux, told, ticks, arg, changed, v>>

Initial_clk ==
  /\ gen = "InitialReset" /\ Ticks("DST")
  /\ sync' = [sync EXCEPT !.count = IF @ = 0 THEN 0 ELSE @ - 1]
  /\ queued' = queued \cup (IF sync.count = 1 THEN {Queue("out", 1)} ELSE {})
  /\ UNCHANGED <<class, make, mux, told, ticks, arg, changed, v>>

xclk ==
  /\ gen = "ResetMux" /\ "rule" \notin calls /\ Ticks("CLK")
  /\ queued' = queued \cup (IF mux.new_select_out # mux.select_out THEN {Queue("select", 0)} ELSE {})
  /\ UNCHANGED <<class, sync, make, mux, told, ticks, arg, changed, v>>

(***************************************************************************)
(* The end of the slice.  Unless AnyOrder, the reset going out is told     *)
(* first, and the resets coming in change last.                            *)
(***************************************************************************)
SyncAfter(rst_in) ==
  [sync EXCEPT !.in_reset = (rst_in = 0),
               !.count = IF rst_in = 0 THEN Cycles + 1 ELSE @,
               !.call_reset_fn = (@ \/ (rst_in = 0 /\ ~Async))]
Sync_reset_IN_RST(rst_in) ==
  /\ sync' = SyncAfter(rst_in)
  /\ told' = IF Async /\ rst_in = 0 THEN 0 ELSE told
start_reset_ticks(rst_in) == IF Async /\ rst_in = 0 THEN ticks + 1 ELSE ticks

do_select ==
  /\ mux' = [mux EXCEPT !.select_out = mux.new_select_out]
  /\ told' = IF mux.A # mux.B THEN (IF mux.new_select_out THEN mux.A ELSE mux.B) ELSE told
  /\ ticks' = Event(ticks, 0) /\ UNCHANGED sync

RunQueued(c) ==
  /\ calls = {} /\ queued' = queued \ {c}
  /\ AnyOrder \/ c.fn = "out" \/ \A d \in queued : d.fn # "out"
  /\ CASE c.fn = "out"  -> told' = c.rst /\ ticks' = Event(ticks, c.rst) /\ UNCHANGED <<sync, mux>>
       [] c.fn = "sync" -> Sync_reset_IN_RST(c.rst) /\ ticks' = Event(start_reset_ticks(c.rst), c.rst) /\ UNCHANGED mux
       [] c.fn = "select" -> do_select
  /\ UNCHANGED <<class, make, calls, arg, changed, v>>

(* A reset coming in changes; rst_in = 0 asserts it. *)
Comes(port, rst_in) ==
  /\ calls = {} /\ (AnyOrder \/ queued = {})
  /\ port \notin changed /\ changed' = changed \cup {port}
  /\ rst_in = 0 => ticks < MaxTicks
  /\ UNCHANGED <<class, calls, arg, queued>>

Sync_IN_RST(rst_in) ==
  /\ gen \in {"SyncReset", "SyncResetA"} /\ v.rst # rst_in /\ Comes("IN_RST", rst_in)
  /\ Sync_reset_IN_RST(rst_in) /\ ticks' = Event(start_reset_ticks(rst_in), rst_in)
  /\ v' = Settle([v EXCEPT !.rst = rst_in])
  /\ UNCHANGED <<make, mux>>

Sync0_IN_RST(rst_in) ==
  /\ gen = "SyncReset0" /\ v.rst # rst_in /\ Comes("IN_RST", rst_in)
  /\ told' = rst_in /\ sync' = [sync EXCEPT !.in_reset = (rst_in = 0)]
  /\ ticks' = Event(IF sync.in_reset = (rst_in = 0) THEN ticks ELSE Event(ticks, rst_in), rst_in)
  /\ v' = [v EXCEPT !.rst = rst_in]
  /\ UNCHANGED <<make, mux>>

reset_RST(rst_in) ==
  LET becomes == IF rst_in = 0 THEN rst_reset_value ELSE make.rst IN
  /\ gen \in Makes /\ v.RST # rst_in /\ Comes("RST", rst_in)
  /\ Unsampled => becomes = make.rst
  /\ make' = [make EXCEPT !.in_reset = (rst_in = 0), !.rst = becomes,
                          !.old_rst = IF rst_in = 0 THEN make.rst ELSE @]
  /\ CASE becomes = make.rst -> ticks' = Event(ticks, rst_in) /\ UNCHANGED <<sync, told>>
       [] becomes # make.rst /\ gen = "MakeReset0" ->
            told' = becomes /\ ticks' = Event(ticks, rst_in) /\ UNCHANGED sync
       [] OTHER -> Sync_reset_IN_RST(becomes) /\ ticks' = Event(start_reset_ticks(becomes), rst_in)
  /\ v' = Settle([v EXCEPT !.RST = rst_in])
  /\ UNCHANGED mux

Mux_reset(port, rst_in) ==
  /\ gen = "ResetMux" /\ v[port] # rst_in /\ Comes(port, rst_in)
  /\ mux' = [mux EXCEPT ![port] = rst_in]
  /\ told' = IF mux.select_out = (port = "A") THEN rst_in ELSE told
  /\ ticks' = Event(ticks, rst_in)
  /\ v' = [v EXCEPT ![port] = rst_in]
  /\ UNCHANGED <<sync, make>>

MutEither_reset(port, rst_in) ==
  /\ gen = "ResetEither" /\ v[port] # rst_in /\ Comes(port, rst_in)
  /\ mux' = [mux EXCEPT ![port] = rst_in] /\ told' = rst_in
  /\ ticks' = Event(ticks, rst_in)
  /\ v' = [v EXCEPT ![port] = rst_in]
  /\ UNCHANGED <<sync, make>>
Either_reset(port, rst_in) ==
  /\ gen = "ResetEither" /\ v[port] # rst_in /\ Comes(port, rst_in)
  /\ mux' = [mux EXCEPT ![port] = rst_in]
  /\ told' = IF rst_in # mux[port] /\ mux[IF port = "A" THEN "B" ELSE "A"] # 0 THEN rst_in ELSE told
  /\ ticks' = Event(ticks, rst_in)
  /\ v' = [v EXCEPT ![port] = rst_in]
  /\ UNCHANGED <<sync, make>>

ResetsNext ==
  \/ \E edges \in SUBSET Clocks, a \in Arguments \cup {None} : Slice(edges, a)
  \/ (* a slice without an edge of these clocks *)
     Idle /\ changed # {} /\ Clocks = {} /\ changed' = {}
     /\ UNCHANGED <<class, sync, make, mux, told, ticks, calls, arg, queued, v>>
  \/ METH_assertReset \/ METH_select
  \/ clk \/ Sync_clk \/ Initial_clk \/ xclk
  \/ \E c \in queued : RunQueued(c)
  \/ \E rst_in \in {0, 1} :
       \/ Sync_IN_RST(rst_in) \/ Sync0_IN_RST(rst_in) \/ reset_RST(rst_in)
       \/ \E port \in {"A", "B"} : Mux_reset(port, rst_in) \/ Either_reset(port, rst_in)

ResetsSpec == ResetsInit /\ [][ResetsNext]_resetVars

(***************************************************************************)
(* After each slice the reset going out has been told what OUT_RST of the  *)
(* Verilog module is, whatever the order of the clock functions and of the *)
(* calls of the rules: no reset is lost, cut short or left on              *)
(* (bs_prim_mod_resets.h:27-32).                                           *)
(***************************************************************************)
ResetsAgree == Idle => told = OUT_RST

(***************************************************************************)
(* "When any reset condition is asserted, all primitives with reset tick   *)
(* methods have those methods called" (bs_prim_mod_resets.h:23-25): while  *)
(* the reset going out is asserted, reset ticks are requested.             *)
(***************************************************************************)
TicksWhileReset == Idle /\ told = 0 => ticks > 0
=============================================================================
