--------------------------- MODULE MCBluesimSync ---------------------------
(***************************************************************************)
(* The classes by which Bluesim simulates the crossings between clock      *)
(* domains, the resets and the clocks, one of them per behaviour, against  *)
(* the Verilog modules.  Variables that the class chosen does not have are *)
(* None.  The clocks use those of the resets and of the frame.             *)
(***************************************************************************)
EXTENDS FIFOPointers

CONSTANTS Zero, X, MaxSends, MaxLead

(* One of the words crossed is the value in reset.                         *)
ASSUME WordAssumption == Zero \in Data /\ MaxSends \in Nat

(* The code of the pointers, for TLC.                                      *)
GrayWords == [n \in Positions |-> GrayWord(Width, n)]

VARIABLES
  which,
  stage, edges, w, last, back, shown,               \* the frame of every class
  bclass, bits, in_reset, called, dCLK, ticked,     \* of BluesimBits
  sync, sDataSyncIn, dD_OUT,                        \* of BluesimSyncReg
  f, deq, clr, settled, lead,                       \* of BluesimSyncFIFO
  gen, rst_reset_value, rsync, make, mux, told, ticks, calls, arg, queued, changed, v   \* of BluesimResets

bitsVars == <<bclass, bits, in_reset, called, dCLK, ticked>>
regVars  == <<sync, sDataSyncIn, dD_OUT>>
fifoVars == <<f, deq, clr, settled, lead>>
resetVars == <<gen, rst_reset_value, rsync, make, mux, told, ticks, calls, arg, queued, changed, v>>
crossVars == <<stage, edges, w, last, back, shown, bitsVars, regVars, fifoVars>>
allVars   == <<which, crossVars, resetVars>>

Bits      == INSTANCE BluesimBits WITH BitClasses <- {"SyncBit", "SyncBit1", "SyncBit15", "SyncPulse"},
                                       reset_value <- 1
Early     == INSTANCE BluesimSyncReg WITH Data <- {Zero}, DelayReturn <- FALSE, InitVal <- 1, reset_value <- Zero
Register  == INSTANCE BluesimSyncReg WITH DelayReturn <- TRUE, InitVal <- 0, reset_value <- Zero
OnePlace  == INSTANCE BluesimSyncFIFO WITH Depth <- 1, hasClear <- FALSE, ShortReset <- FALSE
Places    == INSTANCE BluesimSyncFIFO WITH hasClear <- FALSE, ShortReset <- FALSE
Clearing  == INSTANCE BluesimSyncFIFO WITH hasClear <- TRUE, ShortReset <- FALSE

Resets    == INSTANCE BluesimResets WITH
               sync <- rsync, Cycles <- 2, AnyOrder <- FALSE, MaxTicks <- 6,
               Generators <- {"SyncReset", "SyncResetA", "SyncReset0", "InitialReset", "MakeReset",
                              "MakeResetA", "MakeReset0", "ResetMux", "ResetEither"}

Ratio(width, lower, offset) == [width |-> width, lower |-> lower, offset |-> offset]
Clocks    == INSTANCE BluesimClocks WITH
               kindOf <- gen, initGate <- rst_reset_value, par <- rsync, ins <- make, c <- mux, clkOut <- told,
               rises <- ticks, todo <- calls, args <- arg, lastQueued <- queued, resetCame <- changed, vr <- v,
               rstOut <- w, fresh <- edges, rose <- last,
               ClockClasses <- {"MakeClock", "GatedClock", "ClockInverter", "ClockDivider",
                                "ClockMux", "ClockSelect"},
               Gates <- {0, 1}, Stages <- 2,
               Dividers <- {Ratio(1, 0, 0), Ratio(1, 0, 1), Ratio(2, 0, 3), Ratio(2, 1, 0), Ratio(2, 1, 2),
                            Ratio(3, 3, 1)}

NoBits == bclass = None /\ bits = None /\ in_reset = None /\ called = None /\ dCLK = None /\ ticked = None
NoReg  == sync = None /\ sDataSyncIn = None /\ dD_OUT = None
NoFIFO == f = None /\ deq = None /\ clr = None /\ settled = None /\ lead = None
NoWave == stage = None /\ back = None /\ shown = None

NoResets ==
  /\ gen = None /\ rst_reset_value = None /\ rsync = None /\ make = None /\ mux = None /\ told = None
  /\ ticks = None /\ calls = None /\ arg = None /\ queued = None /\ changed = None /\ v = None
NoCross == NoWave /\ NoBits /\ NoReg /\ NoFIFO

MCInit ==
  \/ which = "Resets" /\ Resets!ResetsInit /\ NoCross /\ edges = None /\ w = None /\ last = None
  \/ which = "Clocks" /\ Clocks!ClocksInit /\ NoCross
  \/ /\ NoResets
     /\ \/ which = "Bits" /\ Bits!BluesimBitsInit /\ edges = None /\ w = None /\ NoReg /\ NoFIFO
        \/ which = "Early" /\ Early!SyncRegInit /\ NoBits /\ NoFIFO
        \/ which = "Register" /\ Register!SyncRegInit /\ NoBits /\ NoFIFO
        \/ /\ \/ which = "OnePlace" /\ OnePlace!FIFOInit
              \/ which = "Places" /\ Places!FIFOInit
              \/ which = "Clearing" /\ Clearing!FIFOInit
           /\ NoWave /\ NoBits /\ NoReg

Crossing ==
  \/ which = "Bits" /\ Bits!BluesimBitsNext /\ UNCHANGED <<edges, w, regVars, fifoVars>>
  \/ which = "Early" /\ Early!SyncRegNext /\ UNCHANGED <<bitsVars, fifoVars>>
  \/ which = "Register" /\ Register!SyncRegNext /\ UNCHANGED <<bitsVars, fifoVars>>
  \/ which = "OnePlace" /\ OnePlace!FIFONext /\ UNCHANGED <<stage, back, shown, bitsVars, regVars>>
  \/ which = "Places" /\ Places!FIFONext /\ UNCHANGED <<stage, back, shown, bitsVars, regVars>>
  \/ which = "Clearing" /\ Clearing!FIFONext /\ UNCHANGED <<stage, back, shown, bitsVars, regVars>>
MCNext ==
  \/ Crossing /\ UNCHANGED <<which, resetVars>>
  \/ which = "Resets" /\ Resets!ResetsNext /\ UNCHANGED <<which, crossVars>>
  \/ which = "Clocks" /\ Clocks!ClocksNext /\ UNCHANGED <<which, stage, back, shown, bitsVars, regVars, fifoVars>>

MCSpec == MCInit /\ [][MCNext]_allVars

(* With clears that the destination asks for. *)
DstClearMCSpec ==
  /\ which = "Clearing" /\ MCInit
  /\ [][Clearing!DstClearNext /\ UNCHANGED <<which, stage, back, shown, bitsVars, regVars, resetVars>>]_allVars

(***************************************************************************)
(* Slice by slice every class does what its Verilog module does, whatever  *)
(* the order of the calls: SyncBit, SyncBit1, SyncBit15 and SyncPulse      *)
(* (bs_prim_mod_synchronizers.h:67-455), ...                               *)
(***************************************************************************)
BitsRefined ==
  /\ which = "Bits" => Bits!Verilog!BitsInit
  /\ [][which = "Bits" => [Bits!Verilog!BitsNext]_(Bits!Verilog!bitVars)]_allVars

(* ... SyncHandshake with and without delayreturn, and SyncRegister        *)
(* (bs_prim_mod_synchronizers.h:458-824), ...                              *)
RegisterRefined ==
  /\ which = "Early" => Early!Handshake!Init
  /\ [][which = "Early" => [Early!Handshake!Next]_(Early!Handshake!vars)]_allVars
  /\ which = "Register" => Register!Register!RegInit
  /\ [][which = "Register" => [Register!Register!RegNext]_(Register!Register!regVars)]_allVars

(* ... and SyncFIFO, with several places and with one                      *)
(* (bs_prim_mod_synchronizers.h:845-1123).                                 *)
OnePlaceRefined ==
  /\ which = "OnePlace" => OnePlace!OnePlace!Init
  /\ [][which = "OnePlace" => [OnePlace!OnePlace!Next]_(OnePlace!OnePlace!vars)]_allVars
DeepRefined ==
  /\ which = "Places" => Places!Deep!Init
  /\ [][which = "Places" => [Places!Deep!Next]_(Places!Deep!vars)]_allVars

(* With clears asked for by the source, the FIFO holds what was enqueued   *)
(* since (bs_prim_mod_synchronizers.h:998-1041).                           *)
ClearedHoldsQueue == which = "Clearing" => Clearing!ClearedHoldsQueue

(* After each slice the clocks and resets that are made, gated, divided,   *)
(* selected or synchronized are what the Verilog module has, whatever the  *)
(* order of the calls (bs_prim_mod_resets.h:27-32,                         *)
(* bs_prim_mod_clockgen.h:124-145, bs_prim_mod_clockmux.h:124-163,         *)
(* bs_prim_mod_gatedclock.h:32-37).                                        *)
GeneratorsAgree ==
  /\ which = "Resets" => Resets!ResetsAgree
  /\ which = "Clocks" => Clocks!ClocksAgree

(* The waveforms show what the hardware does, although only changes        *)
(* against a copy of the object are written; and the field sRDY is the     *)
(* wire sRDY.                                                              *)
WaveTrue ==
  /\ which = "Bits" => Bits!BitsWaveTrue
  /\ which = "Early" => Early!HandshakeTrue
  /\ which = "Register" => Register!HandshakeTrue

(* "true when non-empty and not in reset" (bs_prim_mod_synchronizers.h:909)*)
ShownIsHeld == which = "Clearing" => Clearing!ShownIsHeld
=============================================================================
