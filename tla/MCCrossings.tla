---------------------------- MODULE MCCrossings ----------------------------
(***************************************************************************)
(* What is small and between two clocks, one of it per behaviour:          *)
(* SyncFIFO1, SyncHandshake without DelayReturn, the probes that report    *)
(* triggers and values, between the probed clock and that of their link,   *)
(* or the logic analyser.                                                  *)
(***************************************************************************)
EXTENDS SyncFIFO1

CONSTANTS
  MaxSends,               \* bound: pulses sent since the last reset
  Values, NoValue, ProbeWords, InitiallyEnabled, NumWords, CountMax,   \* of SerialProbes
  MemSize, RunLenMax, TriggerToDump       \* of ProbeCapture

ASSUME CrossingsAssumption ==
  /\ MaxSends \in Nat
  /\ NumWords \in Nat \ {0} /\ ProbeWords \in Nat \ {0} /\ InitiallyEnabled \in BOOLEAN
  /\ MemSize \in Nat \ {0, 1} /\ RunLenMax \in Nat \ {0} /\ TriggerToDump \in Nat

VARIABLES
  which,
  hsRst, sToggleReg, hsSync1, hsSync2, dSync1, dSync2, dLastState, sent, seen,
  triggerToggle, tEnabled, enableCount, tSending, sendDisable, wordCount, tUp, sentToggle, waiting, cut,
  probeData, probeChanged, vEnabled, forced, sendOnce, sentOne,
  vSending, remaining, captured, captureChanged, vUp, fresh, mode, reported, crossed,
  AorB, mSending, mUp, last,
  probed, flipped, regs, ring, memdata, samples, since, lastTick, changes, blurred, dumped

hsVars == <<hsRst, sToggleReg, hsSync1, hsSync2, dSync1, dSync2, dLastState, sent, seen>>

Handshake == INSTANCE SyncHandshake
  WITH rst <- hsRst, sSyncReg1 <- hsSync1, sSyncReg2 <- hsSync2,
       dSyncReg1 <- dSync1, dSyncReg2 <- dSync2, DelayReturn <- FALSE, InitVal <- 0

Serial == INSTANCE SerialProbes

Analyser == INSTANCE ProbeCapture
  WITH Probed <- Values, NoSample <- NoValue, probeData <- probed, probeChanged <- flipped, memory <- ring,
       sent <- dumped

serialVars == <<triggerToggle, tEnabled, enableCount, tSending, sendDisable, wordCount, tUp,
                sentToggle, waiting, cut,
                probeData, probeChanged, vEnabled, forced, sendOnce, sentOne,
                vSending, remaining, captured, captureChanged, vUp, fresh, mode, reported, crossed,
                AorB, mSending, mUp, last>>
ringVars == <<probed, flipped, regs, ring, memdata, samples, since, lastTick, changes, blurred, dumped>>
allVars == <<which, vars, hsVars, serialVars, ringVars>>

MCInit ==
  /\ which \in {"SyncFIFO1", "SyncHandshake", "SerialProbes", "ProbeCapture"}
  /\ Init /\ Handshake!Init /\ Serial!SerialInit /\ Analyser!CaptureInit
  /\ which = "SerialProbes" \/ probeData = CHOOSE v \in Values : TRUE

MCNext ==
  \/ which = "SyncFIFO1" /\ Next /\ UNCHANGED <<hsVars, serialVars, ringVars>>
  \/ which = "SyncHandshake" /\ Handshake!Next /\ UNCHANGED <<vars, serialVars, ringVars>>
  \/ which = "SerialProbes" /\ Serial!SerialNext /\ UNCHANGED <<vars, hsVars, ringVars>>
  \/ which = "ProbeCapture" /\ Analyser!CaptureNext /\ UNCHANGED <<vars, hsVars, serialVars>>

(* Both clocks of the FIFO keep running, as in FairSpec. *)
MCSpec ==
  /\ MCInit /\ [][MCNext /\ UNCHANGED which]_allVars
  /\ WF_allVars(which = "SyncFIFO1" /\ SrcClock /\ UNCHANGED <<which, hsVars, serialVars, ringVars>>)
  /\ WF_allVars(which = "SyncFIFO1" /\ DstClock /\ UNCHANGED <<which, hsVars, serialVars, ringVars>>)

(***************************************************************************)
(* The handshake that acknowledges before the pulse is sampled neither     *)
(* loses nor doubles a pulse (SyncHandshake.v:47-49).                      *)
(***************************************************************************)
EarlyPulseExactlyOnce == Handshake!PulseExactlyOnce

(***************************************************************************)
(* What SerialProbes says of the reports of triggers and values            *)
(* (ProbeTrigger.v:97-164, ProbeValue.v:85-139, ProbeMux.v:73-102).        *)
(***************************************************************************)
ReportsTrue == Serial!ReportsTrue

(***************************************************************************)
(* The samples tell the probed value, and a dump is the last of them       *)
(* (ProbeCapture.v:131-273).                                               *)
(***************************************************************************)
CaptureExact == Analyser!DumpExact /\ Analyser!SamplesTrue
=============================================================================
