----------------------------- MODULE BluesimReg -----------------------------
(***************************************************************************)
(* The register classes of Bluesim/bs_prim_mod_reg.h: MOD_Reg as a plain   *)
(* and as a clock-crossing register, MOD_RegAligned, MOD_ConfigReg,        *)
(* MOD_RegTwo and MOD_CReg.  A Verilog register takes its inputs at a      *)
(* clock edge and all its readers see the value from before the edge.  In  *)
(* Bluesim the rules of a cycle write it one after the other, at one       *)
(* simulation time; then come the tick functions of the clock edge, resets *)
(* and the waveform dump, still at that time.                              *)
(*                                                                         *)
(* A time stamp that is compared with the current time only is the Boolean *)
(* "stamped at the current time".                                          *)
(***************************************************************************)
EXTENDS Integers

CONSTANTS
  Values,          \* contents of a register
  None,            \* no value; also the x of the waveform
  reset_value,     \* constructor argument
  RegClasses,      \* the classes constructed
  RegResets,       \* the reset_types constructed
  RegPorts,        \* number of ports of a CReg, 5 in the code
  LateInReset      \* rules write a RegAligned after a tick with the reset asserted

VARIABLES
  cls, reset_type,             \* class and constructor argument
  value,                       \* the field value
  old,                         \* prev_value, old_value, or next_value of RegAligned
  written,                     \* written_at or written is the current time
  a_at, tick_at,               \* these stamps of RegTwo and RegAligned are the current time
  in_reset, suppress_write,
  rec,                         \* CReg: value_rec, read_val[0], did_write, did_write_rec, write_val
  phase,                       \* rules, then ticked, settled after a reset, dumped
  wrote,                       \* history: the value written by each port in this cycle
  q, was,                      \* history: the Verilog register, now and before the cycle's edge
  back, shown                  \* the instance backing and what a waveform viewer shows

state == <<value, old, written, a_at, tick_at, rec>>
reset == <<in_reset, suppress_write>>
wave  == <<back, shown>>
regVars == <<cls, reset_type, state, reset, phase, wrote, q, was, wave>>

Ports == 0 .. RegPorts - 1
Async == reset_type = "ASYNC_RESET_REG"
Suppressed == Async /\ suppress_write
NoWrite == [i \in Ports |-> None]

RegInit ==
  /\ cls \in RegClasses /\ reset_type \in RegResets
  /\ value \in Values /\ old = value /\ q = value /\ was = value
  /\ written = FALSE /\ a_at = FALSE /\ tick_at = FALSE
  /\ in_reset = FALSE /\ suppress_write = FALSE
  /\ rec = [value |-> value, read |-> value, did |-> [i \in Ports |-> FALSE],
            en |-> [i \in Ports |-> FALSE], val |-> [i \in Ports |-> value]]
  /\ phase = "rules" /\ wrote = NoWrite
  /\ back = None /\ shown = None

(***************************************************************************)
(* Reads.  In the schedule of outputs that follows an edge, combo, a       *)
(* crossing register shows its new value.                                  *)
(***************************************************************************)
METH_read == value
METH_crossed(combo) == IF written /\ ~combo THEN old ELSE value
METH_config_read == IF written THEN old ELSE value
METH_get == IF written THEN old ELSE value
METH_port_read(i) == value

(***************************************************************************)
(* Writes.  METH__write, of a crossing register, comes once in a cycle;    *)
(* the ports of a CReg are scheduled in sequence.                          *)
(***************************************************************************)
Writes(class, i, x) ==
  /\ cls = class /\ phase = "rules"
  /\ wrote' = [wrote EXCEPT ![i] = IF Suppressed THEN @ ELSE x]
  /\ UNCHANGED <<cls, reset_type, reset, tick_at, phase, q, was, wave>>
SaveOld == old' = (IF written THEN old ELSE value) /\ written' = TRUE

METH_write(x) ==
  /\ Writes("Reg", 0, x)
  /\ value' = IF Suppressed THEN value ELSE x
  /\ UNCHANGED <<old, written, a_at, rec>>
METH__write(x) ==
  /\ wrote[0] = None /\ Writes("CrossingReg", 0, x)
  /\ IF Suppressed THEN UNCHANGED <<value, old, written>>
                   ELSE old' = value /\ value' = x /\ written' = TRUE
  /\ UNCHANGED <<a_at, rec>>
METH_config_write(x) ==
  /\ Writes("ConfigReg", 0, x)
  /\ IF Suppressed THEN UNCHANGED <<value, old, written>> ELSE SaveOld /\ value' = x
  /\ UNCHANGED <<a_at, rec>>
METH_setA(x) ==
  /\ wrote[0] = None /\ Writes("RegTwo", 0, x)
  /\ IF Suppressed THEN UNCHANGED <<value, old, written, a_at>>
                   ELSE SaveOld /\ a_at' = TRUE /\ value' = x
  /\ UNCHANGED rec
MutSetB(x) ==
  /\ wrote[1] = None /\ Writes("RegTwo", 1, x)
  /\ IF Suppressed THEN UNCHANGED <<value, old, written>> ELSE SaveOld /\ value' = x
  /\ UNCHANGED <<a_at, rec>>
METH_setB(x) ==
  /\ wrote[1] = None /\ Writes("RegTwo", 1, x)
  /\ IF Suppressed THEN UNCHANGED <<value, old, written>>
                   ELSE SaveOld /\ value' = IF a_at THEN value ELSE x
  /\ UNCHANGED <<a_at, rec>>
METH_port_write(i, x) ==
  /\ \A j \in i .. RegPorts - 1 : wrote[j] = None
  /\ Writes("CReg", i, x)
  /\ IF Suppressed THEN UNCHANGED <<value, rec>>
                   ELSE value' = x /\ rec' = [rec EXCEPT !.did[i] = TRUE, !.val[i] = x]
  /\ UNCHANGED <<old, written, a_at>>

(* Both sides of a RegAligned have a clock edge at this time: the rules    *)
(* that write it run before its tick or after it.                          *)
METH_aligned_write(x) ==
  /\ cls = "RegAligned" /\ phase \in {"rules", "ticked"} /\ wrote[0] = None
  /\ phase = "rules" \/ ~in_reset \/ Async \/ LateInReset
  /\ wrote' = [wrote EXCEPT ![0] = IF Suppressed THEN @ ELSE x]
  /\ q' = IF phase = "ticked" /\ ~in_reset THEN x ELSE q
  /\ IF Suppressed THEN UNCHANGED <<value, old, written>>
     ELSE /\ old' = x
          /\ IF tick_at THEN value' = x /\ written' = TRUE ELSE UNCHANGED <<value, written>>
  /\ UNCHANGED <<cls, reset_type, reset, a_at, tick_at, rec, phase, was, wave>>

(* The test bench's access, through a BluespecProbe, between two cycles.   *)
write_reg(addr, x) ==
  /\ cls \notin {"CReg", "RegAligned"} /\ phase = "rules" /\ wrote = NoWrite /\ ~in_reset
  /\ addr = 1 /\ value' = x /\ q' = x
  /\ UNCHANGED <<cls, reset_type, old, written, a_at, tick_at, rec, reset, phase, wrote, was, wave>>

(***************************************************************************)
(* The edge: the clk or realClock function, then, when any register has    *)
(* asked for reset ticks, rst_tick.  In Verilog reset wins, RegTwo prefers *)
(* port A, and the last port of a CReg wins.                               *)
(***************************************************************************)
LastBelow(i, base) ==
  IF \A j \in 0 .. i - 1 : wrote[j] = None THEN base
  ELSE wrote[CHOOSE j \in 0 .. i - 1 : wrote[j] # None /\ \A k \in j + 1 .. i - 1 : wrote[k] = None]
VerilogNext == IF cls = "RegTwo" /\ wrote[0] # None THEN wrote[0] ELSE LastBelow(RegPorts, q)

realClock == IF cls = "RegAligned" /\ ~Suppressed THEN old ELSE value
clk == [rec EXCEPT !.read = rec.value, !.value = value, !.en = rec.did, !.did = [i \in Ports |-> FALSE]]

(* The fields that rst_tick sets besides value. *)
ResetFields ==
  /\ old' = CASE cls \in {"RegAligned", "ConfigReg"} -> reset_value
              [] cls = "CrossingReg" -> value
              [] OTHER -> old
  /\ written' = (written \/ cls = "CrossingReg")
  /\ suppress_write' = TRUE

Edge(gate, ticks) ==
  /\ phase = "rules" /\ phase' = "ticked"
  /\ ~gate => wrote = NoWrite
  /\ in_reset /\ ~Async => ticks
  /\ was' = q /\ tick_at' = (cls = "RegAligned")
  /\ q' = IF in_reset /\ (gate \/ Async) THEN reset_value ELSE VerilogNext
  /\ IF ticks /\ in_reset /\ gate
       THEN /\ value' = reset_value /\ rec' = [clk EXCEPT !.value = reset_value]
            /\ ResetFields
       ELSE value' = realClock /\ rec' = clk /\ UNCHANGED <<old, written, suppress_write>>
  /\ UNCHANGED <<cls, reset_type, a_at, in_reset, wrote, wave>>

(* reset_RST, called at the end of the time slice. *)
reset_RST(rst_in) ==
  /\ reset_type # "NO_RESET_REG" /\ phase = "ticked" /\ in_reset = rst_in
  /\ phase' = "settled" /\ in_reset' = ~rst_in
  /\ IF ~rst_in /\ Async
       THEN /\ value' = reset_value /\ q' = reset_value /\ rec' = [rec EXCEPT !.value = reset_value]
            /\ suppress_write' = TRUE
            /\ old' = IF cls \in {"RegAligned", "ConfigReg"} THEN reset_value ELSE old
       ELSE suppress_write' = (suppress_write /\ ~rst_in) /\ UNCHANGED <<value, old, rec, q>>
  /\ UNCHANGED <<cls, reset_type, written, a_at, tick_at, wrote, was, wave>>

(***************************************************************************)
(* The waveform.  A signal is written when it differs from the instance    *)
(* backing; the Q_OUT of a CReg port is computed from the recorded writes. *)
(***************************************************************************)
QOut(i) ==
  IF \A j \in 0 .. i - 1 : ~rec.en[j] THEN rec.read
  ELSE rec.val[CHOOSE j \in 0 .. i - 1 : rec.en[j] /\ \A k \in j + 1 .. i - 1 : ~rec.en[k]]
Signals ==
  CASE cls = "CReg" -> [i \in Ports |-> <<QOut(i), rec.en[i], rec.val[i]>>]
    [] cls = "RegAligned" -> [i \in {0, 1} |-> IF i = 0 THEN <<value, written, old>> ELSE <<~in_reset>>]
    [] OTHER -> [i \in {0} |-> <<value>>]

(* What a dump copies to the backing. *)
MutBacked(dt) == IF dt = "VCD_DUMP_RESTART" THEN Signals ELSE back
Backed(dt) ==
  CASE cls = "RegAligned" -> [Signals EXCEPT ![1] = <<TRUE>>]
    [] cls \in {"ConfigReg", "RegTwo"} /\ dt = "VCD_DUMP_XS" -> back
    [] OTHER -> Signals

dump_VCD(dt) ==
  /\ phase \in {"ticked", "settled"} /\ phase' = "dumped"
  /\ dt = "VCD_DUMP_CHANGES" => shown # None
  /\ shown' = CASE dt = "VCD_DUMP_XS" -> None
                [] dt = "VCD_DUMP_CHANGES" ->
                     [i \in DOMAIN Signals |-> IF Signals[i] # back[i] THEN Signals[i] ELSE shown[i]]
                [] OTHER -> Signals
  /\ back' = Backed(dt)
  /\ UNCHANGED <<cls, reset_type, state, reset, wrote, q, was>>

(* The simulation goes on to the next edge, with or without a dump. *)
Advance ==
  /\ phase = "dumped" \/ (phase # "rules" /\ shown = None)
  /\ phase' = "rules" /\ wrote' = NoWrite
  /\ written' = FALSE /\ a_at' = FALSE /\ tick_at' = FALSE
  /\ UNCHANGED <<cls, reset_type, value, old, rec, reset, q, was, wave>>

RegNext ==
  \/ \E x \in Values :
       \/ METH_write(x) \/ METH__write(x) \/ METH_config_write(x) \/ METH_setA(x) \/ METH_setB(x)
       \/ METH_aligned_write(x) \/ write_reg(1, x)
       \/ \E i \in Ports : METH_port_write(i, x)
  \/ \E gate, ticks \in BOOLEAN : Edge(gate, ticks)
  \/ \E rst_in \in BOOLEAN : reset_RST(rst_in)
  \/ \E dt \in {"VCD_DUMP_XS", "VCD_DUMP_CHANGES", "VCD_DUMP_RESTART"} : dump_VCD(dt)
  \/ Advance

RegSpec == RegInit /\ [][RegNext]_regVars

(***************************************************************************)
(* Properties.                                                             *)
(***************************************************************************)

(* Whatever the order of the calls at one time, and of calls, ticks, resets*)
(* and test bench writes, the cycle leaves the value that one clock edge   *)
(* leaves in the Verilog register.                                         *)
RegEdgeComposes == phase # "rules" => value = q

(* The reads that are to return the value from before the edge do so after *)
(* any of the writes; a port of a CReg sees the writes of the ports before *)
(* it.  A crossing register keeps the old value for the other domain until *)
(* the time slice ends, but shows the new one to the outputs.              *)
RegReadsSteady ==
  /\ phase = "rules" =>
       /\ cls = "ConfigReg" => METH_config_read = q
       /\ cls = "RegTwo" => METH_get = q
       /\ cls = "CrossingReg" => METH_crossed(FALSE) = q
       /\ \A i \in Ports : cls = "CReg" /\ (\A j \in i .. RegPorts - 1 : wrote[j] = None) =>
            METH_port_read(i) = LastBelow(i, q)
  /\ phase # "rules" /\ cls = "CrossingReg" =>
       /\ METH_crossed(TRUE) = q
       /\ phase = "ticked" /\ ~in_reset /\ wrote[0] # None => METH_crossed(FALSE) = was

(* After a dump the viewer, who sees changes only, has the register as the *)
(* hardware would show it: for a CReg, what each port read and wrote at    *)
(* this edge.  (RST of a RegAligned is not right: see the README.)         *)
RegWaveTrue ==
  phase = "dumped" /\ shown # None =>
    IF cls = "CReg"
      THEN \A i \in Ports : /\ shown[i][1] = LastBelow(i, was) /\ shown[i][2] = (wrote[i] # None)
                            /\ wrote[i] # None => shown[i][3] = wrote[i]
      ELSE shown[0][1] = q
=============================================================================
