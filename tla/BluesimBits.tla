---------------------------- MODULE BluesimBits ----------------------------
(***************************************************************************)
(* Classes MOD_Sync2, MOD_Sync15, MOD_Sync1 and MOD_SyncPulse of Bluesim.  *)
(* Within a time slice the rule that sends and the clock function of the   *)
(* destination are called in any order; a reset comes at the end of the    *)
(* slice, then the waveform dump.                                          *)
(***************************************************************************)
EXTENDS Naturals, SyncVar

CONSTANTS
  BitClasses,     \* the Verilog modules whose classes are constructed
  reset_value,    \* constructor argument of the bits
  X               \* the x of the waveform

VARIABLES
  bclass,                         \* class
  bits,                           \* dSyncReg1, dSyncReg2, dSyncPulse and sSyncReg
  in_reset,
  stage,                          \* slice, settled, dumped
  called,                         \* a send has come in this slice
  dCLK, ticked,                   \* level of dCLK; its edge has come in this slice
  last,                           \* history: the flops and the reset when the slice began
  back, shown                     \* the instance backing and what a waveform viewer shows

frame    == <<stage, called, dCLK, ticked>>
bitsWave == <<back, shown>>
bluesimBitsVars == <<bclass, bits, in_reset, frame, last, bitsWave>>

ResetOf(c) == IF c = "SyncPulse" THEN 0 ELSE reset_value
Flops(r, b) == [rst |-> r, s |-> probe(b.sSyncReg), d1 |-> b.dSyncReg1, d2 |-> b.dSyncReg2, dp |-> b.dSyncPulse]
AllAt(x) == [dSyncReg1 |-> x, dSyncReg2 |-> x, dSyncPulse |-> x, sSyncReg |-> NewSyncVar(x)]

(* The simulation starts with the reset asserted. *)
BluesimBitsInit ==
  /\ bclass \in BitClasses /\ in_reset = TRUE
  /\ bits = AllAt(ResetOf(bclass)) /\ last = Flops(TRUE, bits)
  /\ stage = "slice" /\ called = FALSE /\ dCLK = FALSE /\ ticked = FALSE
  /\ back = AllAt(0) /\ shown = X

METH_send(x) ==
  /\ stage = "slice" /\ ~called /\ called' = TRUE
  /\ bits' = IF in_reset THEN bits
             ELSE [bits EXCEPT !.sSyncReg =
                     write(@, IF bclass = "SyncPulse" THEN (IF read(@) = 0 THEN 1 ELSE 0) ELSE x)]
  /\ UNCHANGED <<bclass, in_reset, stage, dCLK, ticked, last, bitsWave>>

Mutclk_dst(b, clock_value) ==
  IF bclass = "SyncBit15" /\ ~clock_value THEN [b EXCEPT !.dSyncReg1 = probe(b.sSyncReg)]
  ELSE [b EXCEPT !.dSyncReg1 = probe(b.sSyncReg), !.dSyncReg2 = b.dSyncReg1, !.dSyncPulse = b.dSyncReg2]
clk_dst(b, clock_value) ==
  CASE bclass = "SyncBit1"  -> [b EXCEPT !.dSyncReg1 = read(b.sSyncReg)]
    [] bclass = "SyncBit"   -> [b EXCEPT !.dSyncReg1 = read(b.sSyncReg), !.dSyncReg2 = b.dSyncReg1]
    [] bclass = "SyncBit15" -> IF clock_value THEN [b EXCEPT !.dSyncReg2 = b.dSyncReg1]
                               ELSE [b EXCEPT !.dSyncReg1 = read(b.sSyncReg)]
    [] bclass = "SyncPulse" -> [b EXCEPT !.dSyncReg1 = read(b.sSyncReg), !.dSyncReg2 = b.dSyncReg1,
                                         !.dSyncPulse = b.dSyncReg2]

(* Both edges call Sync15, the rising one the others. *)
DstEdge(gate) ==
  /\ stage = "slice" /\ ~ticked /\ ticked' = TRUE /\ dCLK' = ~dCLK
  /\ bits' = IF gate /\ (bclass = "SyncBit15" \/ ~dCLK) THEN clk_dst(bits, ~dCLK) ELSE bits
  /\ UNCHANGED <<bclass, in_reset, stage, called, last, bitsWave>>

(* The reset of this slice, if it changes. *)
reset_sRST(asserted) ==
  /\ stage = "slice" /\ stage' = "settled" /\ in_reset' = asserted
  /\ bits' = IF asserted THEN [AllAt(ResetOf(bclass)) EXCEPT !.sSyncReg = force(bits.sSyncReg, ResetOf(bclass))]
                         ELSE bits
  /\ UNCHANGED <<bclass, called, dCLK, ticked, last, bitsWave>>

(* Written when different from backing, whose sSyncReg keeps its stamp. *)
Signals(b) == [f \in DOMAIN b |-> IF f = "sSyncReg" THEN read(b[f]) ELSE b[f]]
MutDump(changes) ==
  /\ stage # "dumped" /\ stage' = "dumped" /\ (changes => shown # X)
  /\ shown' = [f \in DOMAIN bits |-> IF ~changes \/ Signals(bits)[f] # Signals(back)[f]
                                       THEN Signals(bits)[f] ELSE shown[f]]
  /\ back' = IF changes THEN back ELSE bits
  /\ UNCHANGED <<bclass, bits, in_reset, called, dCLK, ticked, last>>
dump_VCD(changes) ==
  LET differs == {f \in DOMAIN bits : ~changes \/ Signals(bits)[f] # Signals(back)[f]} IN
  /\ stage # "dumped" /\ stage' = "dumped" /\ (changes => shown # X)
  /\ shown' = [f \in DOMAIN bits |-> IF f \in differs THEN Signals(bits)[f] ELSE shown[f]]
  /\ back' = [f \in DOMAIN bits |-> IF f \in differs THEN bits[f] ELSE back[f]]
  /\ UNCHANGED <<bclass, bits, in_reset, called, dCLK, ticked, last>>
dump_XS == /\ stage # "dumped" /\ stage' = "dumped" /\ shown' = X
           /\ UNCHANGED <<bclass, bits, in_reset, called, dCLK, ticked, last, back>>

NextSlice ==
  /\ stage = "dumped" \/ shown = X
  /\ stage' = "slice" /\ called' = FALSE /\ ticked' = FALSE
  /\ bits' = [bits EXCEPT !.sSyncReg = Later(@)] /\ back' = [back EXCEPT !.sSyncReg = Later(@)]
  /\ last' = Flops(in_reset, bits)
  /\ UNCHANGED <<bclass, in_reset, dCLK, shown>>

BluesimBitsNext ==
  \/ \E x \in {0, 1} : METH_send(x)
  \/ \E gate \in BOOLEAN : DstEdge(gate)
  \/ \E asserted \in BOOLEAN : in_reset # asserted /\ reset_sRST(asserted)
  \/ \E changes \in BOOLEAN : dump_VCD(changes)
  \/ dump_XS
  \/ NextSlice

BluesimBitsSpec == BluesimBitsInit /\ [][BluesimBitsNext]_bluesimBitsVars

(***************************************************************************)
(* Slice by slice each class does what its Verilog module does, whichever  *)
(* of the calls comes first: "and see the previous value.  This mimics the *)
(* Verilog behavior of a non-blocking write" (synchronizers.h:10-12).      *)
(***************************************************************************)
Verilog == INSTANCE SyncBits
  WITH BitKinds <- BitClasses, init <- reset_value, bitKind <- bclass, sRST <- last.rst,
       sSyncReg <- last.s, dSyncReg1 <- last.d1, dSyncReg2 <- last.d2, dSyncPulse <- last.dp
BitsRefined == Verilog!BitsSpec

(* After a dump the viewer, who sees changes only, has the destination     *)
(* flops as they are.  (Not so sSyncReg: see the README.)                  *)
BitsWaveTrue ==
  stage = "dumped" /\ shown # X =>
    \A f \in {"dSyncReg1", "dSyncReg2", "dSyncPulse"} : shown[f] = bits[f]
=============================================================================
