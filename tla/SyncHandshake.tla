--------------------------- MODULE SyncHandshake ---------------------------
(***************************************************************************)
(* The pulse synchronizer with return handshake of Verilog/SyncHandshake.v *)
(* (and of its simulation twin, class MOD_SyncHandshake).  A source        *)
(* register toggles for every pulse; the toggle travels through two        *)
(* destination flops, is compared with a third, and an acknowledgement     *)
(* travels back through two source flops.                                  *)
(*                                                                         *)
(* The two clocks have no relation: a step of the system is an edge of     *)
(* either clock or of both.  When both edges coincide, a register read     *)
(* across the domain boundary may yield its value before or after the      *)
(* edge: the simulators take the former, hardware either.                  *)
(***************************************************************************)
EXTENDS Naturals

CONSTANTS
  DelayReturn,  \* parameter delayreturn: acknowledge after the pulse, not with it
  InitVal,      \* parameter init: the reset value of the toggle
  MaxSends      \* bound of the model: pulses sent since the last reset

ASSUME HandshakeAssumption ==
  /\ DelayReturn \in BOOLEAN
  /\ InitVal \in {0, 1}
  /\ MaxSends \in Nat

VARIABLES
  rst,                           \* the asynchronous reset sRST is asserted
  sToggleReg, sSyncReg1, sSyncReg2,   \* source flops
  dSyncReg1, dSyncReg2, dLastState,   \* destination flops
  sent,      \* history: pulses accepted from sEN since the last reset
  seen       \* history: destination edges since then that sampled dPulse high

sRegs == <<sToggleReg, sSyncReg1, sSyncReg2>>
dRegs == <<dSyncReg1, dSyncReg2, dLastState>>
vars  == <<rst, sRegs, dRegs, sent, seen>>

(* Operators named Mut... are mistakes one could make in the definition     *)
(* that follows them; the mutation runs put them in its place.             *)
MutFlip(b) == b + 1
Flip(b) == 1 - b

(***************************************************************************)
(* Outputs and internal wires.                                             *)
(***************************************************************************)
dPulse   == dSyncReg2 # dLastState
sRDY     == sSyncReg2 = sToggleReg

MutAckOneFlop == dSyncReg1
ackValue == IF DelayReturn THEN dLastState ELSE dSyncReg2

(***************************************************************************)
(* The source always block outside reset.  ack is the value the first      *)
(* return flop captures from the destination domain.                       *)
(***************************************************************************)
MutSrcSetsToggle(en, ack) ==
  sSyncReg1' = ack /\ sSyncReg2' = sSyncReg1 /\ sToggleReg' = IF en THEN 1 ELSE sToggleReg
MutSrcNoSecondFlop(en, ack) ==
  /\ sSyncReg1' = ack /\ UNCHANGED sSyncReg2
  /\ sToggleReg' = IF en THEN Flip(sToggleReg) ELSE sToggleReg

SrcEdge(en, ack) ==
  /\ sSyncReg1'  = ack
  /\ sSyncReg2'  = sSyncReg1
  /\ sToggleReg' = IF en THEN Flip(sToggleReg) ELSE sToggleReg

(***************************************************************************)
(* The destination always block outside reset; toggle is what the first    *)
(* flop captures from the source domain.                                   *)
(***************************************************************************)
MutDstForgetsLast(toggle) ==
  dSyncReg1' = toggle /\ dSyncReg2' = dSyncReg1 /\ dLastState' = dSyncReg1
MutDstOneFlop(toggle) ==
  dSyncReg1' = toggle /\ dSyncReg2' = toggle /\ dLastState' = dSyncReg2

DstEdge(toggle) ==
  /\ dSyncReg1'  = toggle
  /\ dSyncReg2'  = dSyncReg1
  /\ dLastState' = dSyncReg2

(* The reset branches of both always blocks. *)
ResetRegs ==
  /\ sSyncReg1'  = Flip(InitVal)
  /\ sSyncReg2'  = Flip(InitVal)
  /\ sToggleReg' = InitVal
  /\ dSyncReg1'  = InitVal
  /\ dSyncReg2'  = InitVal
  /\ dLastState' = InitVal

Init ==
  /\ rst = TRUE
  /\ sToggleReg = InitVal
  /\ sSyncReg1 = Flip(InitVal) /\ sSyncReg2 = Flip(InitVal)
  /\ dSyncReg1 = InitVal /\ dSyncReg2 = InitVal /\ dLastState = InitVal
  /\ sent = 0 /\ seen = 0

(***************************************************************************)
(* The caller raises sEN only while sRDY is high (METH_send is guarded by  *)
(* METH_RDY_send).                                                         *)
(***************************************************************************)
CanSend == sRDY /\ sent < MaxSends

CountSend(en)  == sent' = IF en THEN sent + 1 ELSE sent
CountPulse     == seen' = IF dPulse THEN seen + 1 ELSE seen

(* A rising edge of the source clock alone. *)
SrcTick(en) ==
  /\ ~rst
  /\ en => CanSend
  /\ SrcEdge(en, ackValue)
  /\ CountSend(en)
  /\ UNCHANGED <<rst, dRegs, seen>>

(* A rising edge of the destination clock alone. *)
DstTick ==
  /\ ~rst
  /\ DstEdge(sToggleReg)
  /\ CountPulse
  /\ UNCHANGED <<rst, sRegs, sent>>

(* Coincident edges: each crossing captures the old or the new value. *)
BothTick(en) ==
  /\ ~rst
  /\ en => CanSend
  /\ \E toggle \in {sToggleReg, IF en THEN Flip(sToggleReg) ELSE sToggleReg} :
       DstEdge(toggle)
  /\ \E ack \in {ackValue, IF DelayReturn THEN dSyncReg2 ELSE dSyncReg1} :
       SrcEdge(en, ack)
  /\ CountSend(en)
  /\ CountPulse
  /\ UNCHANGED rst

(* sRST is asynchronous: it takes effect between any two edges. *)
AssertReset ==
  /\ rst' = TRUE
  /\ ResetRegs
  /\ sent' = 0 /\ seen' = 0

ReleaseReset ==
  /\ rst
  /\ rst' = FALSE
  /\ UNCHANGED <<sRegs, dRegs, sent, seen>>

Next ==
  \/ \E en \in BOOLEAN : SrcTick(en)
  \/ DstTick
  \/ \E en \in BOOLEAN : BothTick(en)
  \/ AssertReset
  \/ ReleaseReset

(***************************************************************************)
(* Both clocks keep running: each has infinitely many edges.  Nothing      *)
(* obliges the source to send or the environment to reset.                 *)
(***************************************************************************)
SrcClock == \E en \in BOOLEAN : SrcTick(en) \/ BothTick(en)
DstClock == DstTick \/ \E en \in BOOLEAN : BothTick(en)

Spec     == Init /\ [][Next]_vars
FairSpec == Spec /\ WF_vars(SrcClock) /\ WF_vars(DstClock)

-----------------------------------------------------------------------------
(* The flops hold bits, the history counters naturals. *)
TypeOK ==
  /\ rst \in BOOLEAN
  /\ sToggleReg \in {0, 1} /\ sSyncReg1 \in {0, 1} /\ sSyncReg2 \in {0, 1}
  /\ dSyncReg1 \in {0, 1} /\ dSyncReg2 \in {0, 1} /\ dLastState \in {0, 1}
  /\ sent \in 0 .. MaxSends
  /\ seen \in Nat

(***************************************************************************)
(* No pulse is lost, doubled or invented.  The destination never samples   *)
(* more pulses than were sent, and when the source may send again the last *)
(* one has been sampled or, without DelayReturn, is visible on dPulse (the *)
(* promise in the comment of MOD_SyncHandshake): two pulses are under way  *)
(* only while the older is visible.                                        *)
(***************************************************************************)
PulseExactlyOnce ==
  /\ seen <= sent
  /\ sent # seen => sent = seen + 1 \/ (~DelayReturn /\ dPulse /\ sent = seen + 2)
  /\ sRDY => sent = seen \/ (~DelayReturn /\ dPulse /\ sent = seen + 1)

(***************************************************************************)
(* The inductive strengthening.  Outside reset the flops form a ring       *)
(* through which one wave travels: at most one link of the ring carries a  *)
(* change, and the number of changes between the toggle and dLastState is  *)
(* the number of pulses still to be sampled.  Without DelayReturn the ring *)
(* closes at dSyncReg2, and dLastState may trail it by one edge more.      *)
(***************************************************************************)
Differ(a, b) == IF a = b THEN 0 ELSE 1

InFlight == Differ(sToggleReg, dSyncReg1) + Differ(dSyncReg1, dSyncReg2)
              + Differ(dSyncReg2, dLastState)

OneWave ==
  /\ sToggleReg # dSyncReg1 => dSyncReg1 = dSyncReg2 /\ ackValue = dSyncReg2
                                 /\ sSyncReg1 = ackValue /\ sSyncReg2 = ackValue
  /\ dSyncReg1 # dSyncReg2  => dLastState = dSyncReg2
                                 /\ sSyncReg1 = dSyncReg2 /\ sSyncReg2 = dSyncReg2
  /\ dSyncReg2 # ackValue   => sSyncReg1 = ackValue /\ sSyncReg2 = ackValue
  /\ ackValue # sSyncReg1   => sSyncReg2 = sSyncReg1

IInv ==
  /\ TypeOK
  /\ OneWave
  /\ sent = seen + InFlight

(* Every accepted pulse is sampled, unless a reset wipes it out. *)
PulseArrives == \A n \in 1 .. MaxSends : sent >= n ~> (seen >= n \/ rst)

(* After reset and after every pulse, the source gets ready (again). *)
ReadyReturns == ~rst ~> (sRDY \/ rst)
=============================================================================
