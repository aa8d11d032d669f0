--------------------------- MODULE BluesimSyncReg ---------------------------
(***************************************************************************)
(* Class MOD_SyncReg of Bluesim, and in it MOD_SyncHandshake.  A time      *)
(* slice has an edge of either clock or of both; the rules of the source   *)
(* come before its clock function, everything else in any order; then      *)
(* a reset that begins or ends in the slice, then the waveform dump.       *)
(***************************************************************************)
EXTENDS Naturals

CONSTANTS
  DelayReturn, InitVal,    \* delayreturn and init of the handshake
  MaxSends,                \* bound: writes since the last reset
  Data, reset_value,       \* contents, and constructor argument
  None, X                  \* no write; the x of the waveform

VARIABLES
  sync, sDataSyncIn, dD_OUT,
  stage,                   \* slice, settled, dumped
  edges, w,                \* the domains whose edge has come in this slice; the value written in it
  last,                    \* history: the Verilog registers and counters when the slice began
  back, shown              \* the instance backing and what a waveform viewer shows

syncRegVars == <<sync, sDataSyncIn, dD_OUT, stage, edges, w, last, back, shown>>

H == INSTANCE HandshakeClass

Hardware(sent, seen, dEdges) ==
  [rst |-> sync.in_reset, regs |-> H!HandshakeSignals(sync), sent |-> sent, seen |-> seen,
   sDataSyncIn |-> H!probe(sDataSyncIn), dD_OUT |-> dD_OUT, dEdges |-> dEdges]

(* What the waveform shows; sDataSyncIn is left out. *)
Signals == [f \in DOMAIN H!HandshakeSignals(sync) \cup {"dD_OUT"} |->
              IF f = "dD_OUT" THEN dD_OUT ELSE H!HandshakeSignals(sync)[f]]

SyncRegInit ==
  /\ sync = H!NewHandshake(InitVal) /\ sDataSyncIn = H!NewSyncVar(reset_value) /\ dD_OUT = reset_value
  /\ stage = "slice" /\ edges = {} /\ w = None
  /\ last = Hardware(0, 0, 0)
  /\ back = [Signals EXCEPT !.sRST = 1] /\ shown = X

METH_read == dD_OUT
METH_RDY_write == H!METH_RDY_send(sync)

METH_write(x) ==
  /\ stage = "slice" /\ "src" \notin edges /\ w = None /\ METH_RDY_write /\ last.sent < MaxSends
  /\ w' = x /\ sDataSyncIn' = H!write(sDataSyncIn, x) /\ sync' = H!METH_send(sync)
  /\ UNCHANGED <<dD_OUT, stage, edges, last, back, shown>>

clk_src ==
  /\ stage = "slice" /\ "src" \notin edges /\ edges' = edges \cup {"src"}
  /\ sync' = H!clk_src(sync, DelayReturn)
  /\ UNCHANGED <<sDataSyncIn, dD_OUT, stage, w, last, back, shown>>

Mutclk_dst ==
  /\ stage = "slice" /\ "dst" \notin edges /\ edges' = edges \cup {"dst"}
  /\ dD_OUT' = H!read(sDataSyncIn)
  /\ sync' = H!clk_dst(sync)
  /\ UNCHANGED <<sDataSyncIn, stage, w, last, back, shown>>
clk_dst ==
  /\ stage = "slice" /\ "dst" \notin edges /\ edges' = edges \cup {"dst"}
  /\ dD_OUT' = IF H!METH_pulse(sync) THEN H!read(sDataSyncIn) ELSE dD_OUT
  /\ sync' = H!clk_dst(sync)
  /\ UNCHANGED <<sDataSyncIn, stage, w, last, back, shown>>

(* A rule that has written is followed by the edge of its clock. *)
SliceComplete == w # None => "src" \in edges

reset_sRST(asserted) ==
  /\ stage = "slice" /\ SliceComplete /\ stage' = "settled" /\ sync.in_reset # asserted
  /\ sync' = H!reset_sRST(sync, asserted, InitVal)
  /\ sDataSyncIn' = IF asserted THEN H!force(sDataSyncIn, reset_value) ELSE sDataSyncIn
  /\ dD_OUT' = IF asserted THEN reset_value ELSE dD_OUT
  /\ UNCHANGED <<edges, w, last, back, shown>>

(* A signal is written when it differs from backing. *)
MutDump(dt) ==
  /\ stage # "dumped" /\ SliceComplete /\ stage' = "dumped" /\ (dt = "VCD_DUMP_CHANGES" => shown # X)
  /\ shown' = CASE dt = "VCD_DUMP_XS" -> X
                [] dt = "VCD_DUMP_CHANGES" ->
                     [f \in DOMAIN Signals |-> IF Signals[f] # back[f] THEN Signals[f] ELSE shown[f]]
                [] OTHER -> Signals
  /\ back' = [f \in DOMAIN Signals |->
                IF f \in H!HandshakeBacked(dt) \ {"sEN"} \/ (f = "dD_OUT" /\ dt # "VCD_DUMP_XS") THEN Signals[f] ELSE back[f]]
  /\ UNCHANGED <<sync, sDataSyncIn, dD_OUT, edges, w, last>>
dump_VCD(dt) ==
  /\ stage # "dumped" /\ SliceComplete /\ stage' = "dumped" /\ (dt = "VCD_DUMP_CHANGES" => shown # X)
  /\ shown' = CASE dt = "VCD_DUMP_XS" -> X
                [] dt = "VCD_DUMP_CHANGES" ->
                     [f \in DOMAIN Signals |-> IF Signals[f] # back[f] THEN Signals[f] ELSE shown[f]]
                [] OTHER -> Signals
  /\ back' = [f \in DOMAIN Signals |->
                IF f \in H!HandshakeBacked(dt) \/ (f = "dD_OUT" /\ dt # "VCD_DUMP_XS") THEN Signals[f] ELSE back[f]]
  /\ UNCHANGED <<sync, sDataSyncIn, dD_OUT, edges, w, last>>

NextSlice ==
  /\ stage = "dumped" \/ (shown = X /\ SliceComplete)
  /\ stage' = "slice" /\ edges' = {} /\ w' = None
  /\ sync' = H!LaterHandshake(sync) /\ sDataSyncIn' = H!Later(sDataSyncIn)
  /\ last' = IF last.rst \/ sync.in_reset THEN Hardware(0, 0, 0)
             ELSE Hardware(last.sent + H!Flag(w # None),
                           last.seen + H!Flag("dst" \in edges /\ last.regs.dSyncReg2 # last.regs.dLastState),
                           IF "dst" \notin edges THEN IF w # None THEN 0 ELSE last.dEdges
                           ELSE IF w # None THEN 1 ELSE IF last.dEdges < 3 THEN last.dEdges + 1 ELSE 3)
  /\ UNCHANGED <<dD_OUT, back, shown>>

SyncRegNext ==
  \/ \E x \in Data : METH_write(x)
  \/ clk_src
  \/ clk_dst
  \/ \E asserted \in BOOLEAN : reset_sRST(asserted)
  \/ \E dt \in {"VCD_DUMP_XS", "VCD_DUMP_CHANGES", "VCD_DUMP_RESTART"} : dump_VCD(dt)
  \/ NextSlice

SyncRegSpec == SyncRegInit /\ [][SyncRegNext]_syncRegVars

(***************************************************************************)
(* Slice by slice the class does what Verilog/SyncHandshake.v does, and    *)
(* the register what SyncRegister.v does, whichever clock function comes   *)
(* first: with SyncRegister they implement the mailbox.                    *)
(***************************************************************************)
Handshake == INSTANCE SyncHandshake
  WITH rst <- last.rst, sToggleReg <- last.regs.sToggleReg,
       sSyncReg1 <- last.regs.sSyncReg1, sSyncReg2 <- last.regs.sSyncReg2,
       dSyncReg1 <- last.regs.dSyncReg1, dSyncReg2 <- last.regs.dSyncReg2,
       dLastState <- last.regs.dLastState, sent <- last.sent, seen <- last.seen
HandshakeRefined == Handshake!Spec

Register == INSTANCE SyncRegister
  WITH rst <- last.rst, sToggleReg <- last.regs.sToggleReg,
       sSyncReg1 <- last.regs.sSyncReg1, sSyncReg2 <- last.regs.sSyncReg2,
       dSyncReg1 <- last.regs.dSyncReg1, dSyncReg2 <- last.regs.dSyncReg2,
       dLastState <- last.regs.dLastState, sent <- last.sent, seen <- last.seen,
       InitData <- reset_value, sDataSyncIn <- last.sDataSyncIn, dD_OUT <- last.dD_OUT,
       dEdges <- last.dEdges
RegisterRefined == Register!RegSpec

(* The field sRDY, set at the source's edges only, is the wire sRDY of the *)
(* Verilog; after a dump the viewer, who sees changes only, has every      *)
(* register, sEN and dPulse of the hardware.  (Not so sRST: see the        *)
(* README.)                                                                *)
HandshakeTrue ==
  /\ stage = "slice" /\ edges = {} /\ ~last.rst => METH_RDY_write = Handshake!sRDY
  /\ stage = "dumped" /\ shown # X =>
       /\ \A f \in DOMAIN Signals \ {"sRST", "sEN"} : shown[f] = Signals[f]
       /\ "src" \in edges => shown["sEN"] = H!Flag(w # None)
       /\ shown["dPulse"] = H!Flag(shown["dSyncReg2"] # shown["dLastState"])
=============================================================================
