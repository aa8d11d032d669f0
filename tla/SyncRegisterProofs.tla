------------------------- MODULE SyncRegisterProofs -------------------------
(***************************************************************************)
(* The handshake loses, doubles and invents no pulse, for either value of  *)
(* DelayReturn and InitVal and any number of pulses, whatever the clocks.  *)
(* The synchronized register implements the mailbox, and captures only     *)
(* settled data, for every set of values and any relation of the clocks.   *)
(***************************************************************************)
EXTENDS SyncRegister, TLAPS

-----------------------------------------------------------------------------
(* The handshake.                                                          *)

(* Out of reset the ring carries no wave, and the counters agree. *)
LEMMA InitIInv == Init => IInv
BY HandshakeAssumption
   DEF Init, IInv, TypeOK, OneWave, InFlight, Differ, Flip, ackValue

(* An edge of the source clock alone moves the acknowledgement, and may    *)
(* start a wave where the previous one has ended.                          *)
LEMMA SrcTickIInv ==
  ASSUME IInv, NEW en \in BOOLEAN, SrcTick(en)
  PROVE  IInv'
<1>1. TypeOK'
  BY HandshakeAssumption
     DEF IInv, TypeOK, SrcTick, SrcEdge, CanSend, CountSend, Flip, ackValue, dRegs
<1>2. OneWave' /\ (sent = seen + InFlight)'
  BY HandshakeAssumption
     DEF IInv, TypeOK, OneWave, InFlight, Differ, SrcTick, SrcEdge, CanSend,
         CountSend, Flip, ackValue, sRDY, dRegs
<1>3. QED
  BY <1>1, <1>2 DEF IInv

(* An edge of the destination clock alone moves the wave one flop on. *)
LEMMA DstTickIInv ==
  ASSUME IInv, DstTick
  PROVE  IInv'
<1>1. TypeOK'
  BY DEF IInv, TypeOK, DstTick, DstEdge, CountPulse, sRegs
<1>2. OneWave' /\ (sent = seen + InFlight)'
  BY HandshakeAssumption
     DEF IInv, TypeOK, OneWave, InFlight, Differ, DstTick, DstEdge, CountPulse,
         dPulse, ackValue, sRegs
<1>3. QED
  BY <1>1, <1>2 DEF IInv

(* Coincident edges, whatever value each crossing captures. *)
LEMMA BothTickIInv ==
  ASSUME IInv, NEW en \in BOOLEAN, BothTick(en)
  PROVE  IInv'
<1>1. PICK toggle \in {sToggleReg, IF en THEN Flip(sToggleReg) ELSE sToggleReg} :
        DstEdge(toggle)
  BY DEF BothTick
<1>2. PICK ack \in {ackValue, IF DelayReturn THEN dSyncReg2 ELSE dSyncReg1} :
        SrcEdge(en, ack)
  BY DEF BothTick
<1>3. TypeOK'
  BY HandshakeAssumption, <1>1, <1>2
     DEF IInv, TypeOK, BothTick, DstEdge, SrcEdge, CanSend, CountSend, CountPulse,
         Flip, ackValue
<1>4. OneWave' /\ (sent = seen + InFlight)'
  BY HandshakeAssumption, <1>1, <1>2
     DEF IInv, TypeOK, OneWave, InFlight, Differ, BothTick, DstEdge, SrcEdge,
         CanSend, CountSend, CountPulse, Flip, ackValue, dPulse, sRDY
<1>5. QED
  BY <1>3, <1>4 DEF IInv

(* Asserting the reset empties the ring; releasing it moves no flop. *)
LEMMA ResetIInv ==
  ASSUME IInv, AssertReset \/ ReleaseReset
  PROVE  IInv'
<1>1. CASE AssertReset
  BY <1>1, HandshakeAssumption
     DEF AssertReset, ResetRegs, IInv, TypeOK, OneWave, InFlight, Differ, Flip, ackValue
<1>2. CASE ReleaseReset
  BY <1>2
     DEF ReleaseReset, IInv, TypeOK, OneWave, InFlight, Differ, ackValue, sRegs, dRegs
<1>3. QED
  BY <1>1, <1>2

(* IInv is inductive. *)
LEMMA NextIInv == IInv /\ [Next]_vars => IInv'
<1> SUFFICES ASSUME IInv, [Next]_vars
             PROVE  IInv'
  OBVIOUS
<1>1. CASE \E en \in BOOLEAN : SrcTick(en)
  BY <1>1, SrcTickIInv
<1>2. CASE DstTick
  BY <1>2, DstTickIInv
<1>3. CASE \E en \in BOOLEAN : BothTick(en)
  BY <1>3, BothTickIInv
<1>4. CASE AssertReset \/ ReleaseReset
  BY <1>4, ResetIInv
<1>5. CASE UNCHANGED vars
  BY <1>5 DEF vars, sRegs, dRegs, IInv, TypeOK, OneWave, InFlight, Differ, ackValue
<1>6. QED
  BY <1>1, <1>2, <1>3, <1>4, <1>5 DEF Next

(* One wave in the ring at a time means one pulse under way at a time. *)
LEMMA IInvExact == IInv => PulseExactlyOnce
BY HandshakeAssumption
   DEF IInv, TypeOK, OneWave, InFlight, Differ, PulseExactlyOnce, sRDY, dPulse, ackValue

(* The flops stay bits and the counters in range, for all parameters. *)
THEOREM HandshakeTypes == Spec => []TypeOK
<1>1. IInv => TypeOK
  BY DEF IInv
<1>2. QED
  BY InitIInv, NextIInv, <1>1, PTL DEF Spec

(* Every pulse crosses exactly once (Verilog/SyncHandshake.v:47-89). *)
THEOREM HandshakeExact == Spec => []PulseExactlyOnce
BY InitIInv, NextIInv, IInvExact, PTL DEF Spec

-----------------------------------------------------------------------------
(* The register.                                                           *)

(* Forgetting the data, the register takes the steps of its handshake. *)
LEMMA RegStepsHandshake == RegNext => Next
BY DEF RegNext, Next, RegSrcTick, RegDstTick, RegBothTick, RegAssertReset, RegReleaseReset

(* The registers are loaded with the reset value. *)
LEMMA InitRegIInv == RegInit => RegIInv
<1> SUFFICES ASSUME RegInit PROVE RegIInv
  OBVIOUS
<1>1. IInv /\ TypeOK
  BY InitIInv DEF RegInit, IInv
<1>2. QED
  BY <1>1, RegisterAssumption DEF RegInit, Init, RegIInv, RegTypeOK, EdgeCap

(* RegIInv is inductive. *)
LEMMA NextRegIInv == RegIInv /\ [RegNext]_regVars => RegIInv'
<1> SUFFICES ASSUME RegIInv, [RegNext]_regVars
             PROVE  RegIInv'
  OBVIOUS
<1>1. IInv' /\ TypeOK'
  <2>1. [Next]_vars
    BY RegStepsHandshake DEF regVars
  <2>2. QED
    BY <2>1, NextIInv DEF RegIInv, IInv
<1>2. CASE \E w \in Data \cup {None} : RegSrcTick(w)
  <2>1. PICK w \in Data \cup {None} : RegSrcTick(w)
    BY <1>2
  <2>2. UNCHANGED <<dSyncReg1, dSyncReg2, dLastState>>
    BY <2>1 DEF RegSrcTick, SrcTick, dRegs
  <2>3. CASE w = None
    BY <1>1, <2>1, <2>2, <2>3 DEF RegSrcTick, RegIInv, RegTypeOK
  <2>4. CASE w # None
    (* A write finds the ring at rest. *)
    <3>1. sRDY
      BY <2>1, <2>4 DEF RegSrcTick, SrcTick, CanSend
    <3>2. dSyncReg1 = dSyncReg2 /\ dSyncReg2 = dLastState
      BY <3>1, RegisterAssumption DEF RegIInv, IInv, TypeOK, OneWave, sRDY, ackValue
    <3>3. QED
      BY <1>1, <2>1, <2>2, <2>4, <3>2 DEF RegSrcTick, RegIInv, RegTypeOK, EdgeCap
  <2>5. QED
    BY <2>3, <2>4
<1>3. CASE RegDstTick
  BY <1>1, <1>3 DEF RegDstTick, DstTick, DstEdge, RegIInv, RegTypeOK, TypeOK, CountEdge, EdgeCap
<1>4. CASE \E w \in Data \cup {None} : RegBothTick(w)
  <2>1. PICK w \in Data \cup {None} : RegBothTick(w)
    BY <1>4
  <2>2. dSyncReg2' = dSyncReg1 /\ dLastState' = dSyncReg2
    BY <2>1 DEF RegBothTick, BothTick, DstEdge
  <2>3. dD_OUT' \in Data
    BY <2>1 DEF RegBothTick, RegIInv, RegTypeOK
  <2>4. CASE w = None
    BY <1>1, <2>1, <2>2, <2>3, <2>4
       DEF RegBothTick, RegIInv, RegTypeOK, CountEdge, EdgeCap
  <2>5. CASE w # None
    <3>1. sRDY
      BY <2>1, <2>5 DEF RegBothTick, BothTick, CanSend
    <3>2. dSyncReg1 = dSyncReg2 /\ dSyncReg2 = dLastState
      BY <3>1, RegisterAssumption DEF RegIInv, IInv, TypeOK, OneWave, sRDY, ackValue
    <3>3. QED
      BY <1>1, <2>1, <2>2, <2>3, <2>5, <3>2 DEF RegBothTick, RegIInv, RegTypeOK, EdgeCap
  <2>6. QED
    BY <2>4, <2>5
<1>5. CASE RegAssertReset
  BY <1>1, <1>5, RegisterAssumption
     DEF RegAssertReset, AssertReset, ResetRegs, RegIInv, RegTypeOK, EdgeCap
<1>6. CASE RegReleaseReset \/ UNCHANGED regVars
  BY <1>1, <1>6 DEF RegReleaseReset, ReleaseReset, RegIInv, RegTypeOK, regVars, vars, dRegs
<1>7. QED
  BY <1>2, <1>3, <1>4, <1>5, <1>6 DEF RegNext

(* A pulse is visible only when the source is not ready to write again. *)
LEMMA PulseBlocksWrite == RegIInv => DataSettled
BY RegisterAssumption
   DEF RegIInv, IInv, TypeOK, OneWave, InFlight, Differ, DataSettled, dPulse, sRDY, ackValue

(* Two destination edges separate a write from the load it causes, and the *)
(* source cannot write at the load (SyncRegister.v:71-86).                 *)
THEOREM RegisterSettled == RegSpec => []DataSettled
BY InitRegIInv, NextRegIInv, PulseBlocksWrite, PTL DEF RegSpec

(* The registers keep their types. *)
THEOREM RegisterTypes == RegSpec => []RegTypeOK
<1>1. RegIInv => RegTypeOK
  BY DEF RegIInv
<1>2. QED
  BY InitRegIInv, NextRegIInv, <1>1, PTL DEF RegSpec

(* Every step of the register is a step of the mailbox or a stutter. *)
LEMMA MailboxStep ==
  ASSUME RegIInv, [RegNext]_regVars
  PROVE  [Mailbox!Next]_<<IF sent = seen THEN None ELSE sDataSyncIn, dD_OUT>>
<1> DEFINE slot == IF sent = seen THEN None ELSE sDataSyncIn
<1> USE DEF Mailbox!Next, Mailbox!Put, Mailbox!Take, Mailbox!Reset
<1>1. /\ sDataSyncIn \in Data /\ None \notin Data
      /\ sent \in Nat /\ seen \in Nat
      /\ sRDY => sent = seen /\ ~dPulse
      /\ dPulse => sent = seen + 1
  BY RegisterAssumption, HandshakeAssumption
     DEF RegIInv, RegTypeOK, IInv, TypeOK, OneWave, InFlight, Differ, dPulse, sRDY, ackValue
<1>2. CASE \E w \in Data \cup {None} : RegSrcTick(w)
  BY <1>1, <1>2 DEF RegSrcTick, SrcTick, CanSend, CountSend
<1>3. CASE RegDstTick
  BY <1>1, <1>3 DEF RegDstTick, DstTick, CountPulse, sRegs
<1>4. CASE \E w \in Data \cup {None} : RegBothTick(w)
  BY <1>1, <1>4 DEF RegBothTick, BothTick, CanSend, CountSend, CountPulse
<1>5. CASE RegAssertReset
  BY <1>5 DEF RegAssertReset, AssertReset
<1>6. CASE RegReleaseReset \/ UNCHANGED regVars
  BY <1>6 DEF RegReleaseReset, ReleaseReset, regVars, vars
<1>7. QED
  BY <1>2, <1>3, <1>4, <1>5, <1>6 DEF RegNext

(* The register implements the mailbox: each value written is loaded once, *)
(* whole and in order, or wiped out by a reset (SyncRegister.v:48-86).     *)
THEOREM RegisterImplementsMailbox == RegSpec => Mailbox!Spec
<1>1. RegInit => Mailbox!Init
  BY DEF RegInit, Init, Mailbox!Init
<1>2. QED
  BY <1>1, InitRegIInv, NextRegIInv, MailboxStep, PTL DEF RegSpec, Mailbox!Spec
=============================================================================
