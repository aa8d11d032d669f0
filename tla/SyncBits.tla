------------------------------ MODULE SyncBits ------------------------------
(***************************************************************************)
(* The one-way synchronizers of Verilog/: SyncBit.v, SyncBit1.v and        *)
(* SyncBit15.v carry a level across clock domains, SyncPulse.v a pulse.    *)
(* Simulated, coincident edges are one step in which every crossing flop   *)
(* captures the value from before it.                                      *)
(***************************************************************************)
EXTENDS Naturals

CONSTANTS
  BitKinds,      \* the modules instantiated
  init           \* parameter init of the bits; a pulse synchronizer has 0

VARIABLES
  bitKind,
  sRST,                                        \* the asynchronous reset is asserted
  sSyncReg, dSyncReg1, dSyncReg2, dSyncPulse   \* the flops; those a module lacks stay put

bitVars == <<bitKind, sRST, sSyncReg, dSyncReg1, dSyncReg2, dSyncPulse>>

ResetBit(k) == IF k = "SyncPulse" THEN 0 ELSE init

BitsInit ==
  /\ bitKind \in BitKinds /\ sRST = TRUE
  /\ sSyncReg = ResetBit(bitKind) /\ dSyncReg1 = ResetBit(bitKind)
  /\ dSyncReg2 = ResetBit(bitKind) /\ dSyncPulse = ResetBit(bitKind)

(* The source block: d is sD_IN; a pulse flips the flop. *)
SrcBlock(sEN, d) ==
  sSyncReg' = IF ~sEN THEN sSyncReg ELSE IF bitKind = "SyncPulse" THEN 1 - sSyncReg ELSE d

(* The destination blocks; SyncBit15 samples at the falling edge of dCLK.  *)
DstBlocks(dst) ==
  /\ dSyncReg1' = IF dst = (IF bitKind = "SyncBit15" THEN "negedge" ELSE "posedge")
                    THEN sSyncReg ELSE dSyncReg1
  /\ dSyncReg2' = IF dst = "posedge" /\ bitKind # "SyncBit1" THEN dSyncReg1 ELSE dSyncReg2
  /\ dSyncPulse' = IF dst = "posedge" /\ bitKind = "SyncPulse" THEN dSyncReg2 ELSE dSyncPulse

(* One or both clocks have an edge. *)
Edges(sEN, d, dst) ==
  /\ ~sRST
  /\ SrcBlock(sEN, d) /\ DstBlocks(dst)
  /\ UNCHANGED <<bitKind, sRST>>

AssertReset ==
  /\ sRST' = TRUE
  /\ sSyncReg' = ResetBit(bitKind) /\ dSyncReg1' = ResetBit(bitKind)
  /\ dSyncReg2' = ResetBit(bitKind) /\ dSyncPulse' = ResetBit(bitKind)
  /\ UNCHANGED bitKind

ReleaseReset == sRST /\ sRST' = FALSE /\ UNCHANGED <<bitKind, sSyncReg, dSyncReg1, dSyncReg2, dSyncPulse>>

BitsNext ==
  \/ \E sEN \in BOOLEAN, d \in {0, 1}, dst \in {"none", "posedge", "negedge"} : Edges(sEN, d, dst)
  \/ AssertReset
  \/ ReleaseReset

BitsSpec == BitsInit /\ [][BitsNext]_bitVars
=============================================================================
