---------------------------- MODULE SyncRegister ----------------------------
(***************************************************************************)
(* The synchronized register of Verilog/SyncRegister.v: the handshake of   *)
(* SyncHandshake, with delayreturn = 1 and init = 0, decides when the      *)
(* destination copies a register of the source domain.  The data itself    *)
(* crosses without synchronizer flops, so that it must not change while    *)
(* the destination captures it.                                            *)
(***************************************************************************)
EXTENDS SyncHandshake

CONSTANTS
  Data,      \* the values of the register
  InitData,  \* parameter init of SyncRegister
  None       \* no write at this edge

ASSUME RegisterAssumption ==
  /\ DelayReturn = TRUE /\ InitVal = 0
  /\ InitData \in Data
  /\ None \notin Data

VARIABLES
  sDataSyncIn,   \* source register
  dD_OUT,        \* destination register
  dEdges         \* history: destination edges since sDataSyncIn was written,
                 \* up to EdgeCap

regVars == <<vars, sDataSyncIn, dD_OUT, dEdges>>

EdgeCap == 3     \* bound of the history counter dEdges

RegInit ==
  /\ Init
  /\ sDataSyncIn = InitData
  /\ dD_OUT = InitData
  /\ dEdges = 0

CountEdge == IF dEdges < EdgeCap THEN dEdges + 1 ELSE dEdges

(* Source edge; w is the value written through sEN and sD_IN, or None. *)
RegSrcTick(w) ==
  /\ SrcTick(w # None)
  /\ sDataSyncIn' = IF w # None THEN w ELSE sDataSyncIn
  /\ dEdges' = IF w # None THEN 0 ELSE dEdges
  /\ UNCHANGED dD_OUT

MutDstLoadsAlways ==
  /\ DstTick
  /\ dD_OUT' = sDataSyncIn
  /\ dEdges' = CountEdge
  /\ UNCHANGED sDataSyncIn

(* Destination edge: dPulse loads the output register. *)
RegDstTick ==
  /\ DstTick
  /\ dD_OUT' = IF dPulse THEN sDataSyncIn ELSE dD_OUT
  /\ dEdges' = CountEdge
  /\ UNCHANGED sDataSyncIn

(***************************************************************************)
(* Coincident edges.  A source register that changes at the very edge that *)
(* captures it is captured torn: the load then yields any value.           *)
(***************************************************************************)
RegBothTick(w) ==
  /\ BothTick(w # None)
  /\ sDataSyncIn' = IF w # None THEN w ELSE sDataSyncIn
  /\ dD_OUT' \in IF ~dPulse THEN {dD_OUT}
                 ELSE IF w = None THEN {sDataSyncIn} ELSE Data
  /\ dEdges' = IF w # None THEN 1 ELSE CountEdge

RegAssertReset ==
  /\ AssertReset
  /\ sDataSyncIn' = InitData
  /\ dD_OUT' = InitData
  /\ dEdges' = 0

RegReleaseReset == ReleaseReset /\ UNCHANGED <<sDataSyncIn, dD_OUT, dEdges>>

RegNext ==
  \/ \E w \in Data \cup {None} : RegSrcTick(w)
  \/ RegDstTick
  \/ \E w \in Data \cup {None} : RegBothTick(w)
  \/ RegAssertReset
  \/ RegReleaseReset

(* Both clocks keep running, as in SyncHandshake. *)
RegSrcClock == \E w \in Data \cup {None} : RegSrcTick(w) \/ RegBothTick(w)
RegDstClock == RegDstTick \/ \E w \in Data \cup {None} : RegBothTick(w)

RegSpec     == RegInit /\ [][RegNext]_regVars
RegFairSpec == RegSpec /\ WF_regVars(RegSrcClock) /\ WF_regVars(RegDstClock)

-----------------------------------------------------------------------------
(* The registers hold values of the type of the interface. *)
RegTypeOK ==
  /\ TypeOK
  /\ sDataSyncIn \in Data
  /\ dD_OUT \in Data
  /\ dEdges \in 0 .. EdgeCap

(***************************************************************************)
(* "Setup and hold time are assured since at least 2 dClks occurred since  *)
(* sDataSyncIn have been written" (SyncRegister.v:72-73): at the edge that *)
(* loads dD_OUT, two destination edges have passed since the write, and    *)
(* the source cannot write at that edge.                                   *)
(***************************************************************************)
DataSettled == dPulse => dEdges >= 2 /\ ~sRDY

(***************************************************************************)
(* The mailbox this register implements: the slot is full while a pulse is *)
(* under way, and its content is the source register.                      *)
(***************************************************************************)
Mailbox == INSTANCE SyncMailbox
  WITH slot <- IF sent = seen THEN None ELSE sDataSyncIn, out <- dD_OUT

(* Each value written is loaded once, whole and in order, unless a reset   *)
(* clears it: the register implements the mailbox, fairness included.      *)
MailboxRefined == Mailbox!FairSpec

(***************************************************************************)
(* The inductive strengthening: the wave of the handshake and the number   *)
(* of destination edges since the write advance together.                  *)
(***************************************************************************)
RegIInv ==
  /\ RegTypeOK
  /\ IInv
  /\ dSyncReg1 # dSyncReg2  => dEdges >= 1
  /\ dSyncReg2 # dLastState => dEdges >= 2
=============================================================================
