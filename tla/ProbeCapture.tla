---------------------------- MODULE ProbeCapture ----------------------------
(***************************************************************************)
(* The logic analyser of Verilog/ProbeCapture.v.  While enabled it writes  *)
(* samples of a probed value into a ring: one whenever the value differs   *)
(* from the one sampled last, with the time since that sample.  A trigger  *)
(* stops it after TriggerToDump ticks; it then sends the newest samples,   *)
(* newest first, as words of 32 bits behind a header.                      *)
(*                                                                         *)
(* A step is an edge of UCLK, with or without one of the probed clock CLK: *)
(* their edges are aligned.  The memory is BRAM1 of Verilog/BRAM1.v.       *)
(***************************************************************************)
EXTENDS Naturals, Sequences

CONSTANTS
  Probed,          \* the values probed
  NoSample,        \* no value, not in Probed
  MemSize,         \* places of the ring, two at least
  ProbeWords,      \* words of a sample, one at least
  RunLenMax,       \* the largest word of RunLenWidth bits, one at least
  TriggerToDump    \* ticks from the trigger to the dump

VARIABLES
  probeData, probeChanged,  \* of CLK; probeChanged is a toggle
  regs,                     \* the registers of UCLK
  memory, memdata,          \* the ring and its output
  \* history:
  samples,   \* the samples of this collection, newest first, as many as are kept
  since,     \* ticks since the newest
  lastTick,  \* the value at the last tick of this collection
  changes,   \* changes of the value since that tick, up to 2
  blurred,   \* the value changed twice between ticks, and no sample came since
  sent       \* words of the dump acknowledged, the header included

captureVars == <<probeData, probeChanged, regs, memory, memdata,
                 samples, since, lastTick, changes, blurred, sent>>

(* A word: one of a sample, or the header with the number of words behind it. *)
Word(s, i) == [sample |-> s, n |-> i]
Header(n)  == Word([value |-> NoSample, time |-> 0], n)

ResetRegs(r) ==
  [r EXCEPT !.enabled = FALSE, !.capstate = "COLLECTING", !.memAddr = 0,
            !.sampleCount = 1, !.ctimer = RunLenMax, !.ttimer = 0]

memin           == [value |-> probeData, time |-> regs.ctimer]
saveNow         == probeChanged # regs.captureChanged \/ regs.ctimer = RunLenMax
incrSampleCount == IF regs.sampleCount # MemSize - 1 THEN regs.sampleCount + 1 ELSE regs.sampleCount
nextPlace       == (regs.memAddr + 1) % MemSize

Collecting == regs.capstate = "COLLECTING" /\ regs.enabled
Triggered  == regs.capstate = "TRIGGERED"
Dumping    == regs.capstate = "DUMPING"
SampleDone == regs.remaining = 0

(* The memory is written at a tick, and read when a sample has been sent.  *)
memWrite(CTIMER) == CTIMER /\ ((Collecting /\ saveNow) \/ (Triggered /\ (regs.ttimer = 0 \/ saveNow)))
memRead(ACK)     == Dumping /\ ACK /\ SampleDone /\ regs.sampleCount # 0

-----------------------------------------------------------------------------
(* The combinational block, state by state: the next registers. *)
Saving == [regs EXCEPT !.memAddr = nextPlace, !.captureChanged = probeChanged]
Timing == IF saveNow THEN [Saving EXCEPT !.ctimer = 0, !.sampleCount = incrSampleCount]
          ELSE [regs EXCEPT !.ctimer = @ + 1]

Collect(CTIMER, trigger) ==
  [(IF CTIMER THEN Timing ELSE regs) EXCEPT !.capstate = IF trigger THEN "TRIGGERED" ELSE @]

RunOut ==
  IF regs.ttimer # 0 THEN [Timing EXCEPT !.ttimer = @ - 1]
  ELSE [Saving EXCEPT !.ctimer = RunLenMax, !.remaining = 0, !.capstate = "DUMPING",
                      !.dataOut = Header(ProbeWords * regs.sampleCount), !.ttimer = TriggerToDump]

MutDump ==
  IF SampleDone /\ regs.sampleCount # 0
  THEN [regs EXCEPT !.sampleCount = @ - 1, !.remaining = ProbeWords - 1, !.dataOut = Word(memdata, 1)]
  ELSE IF ~SampleDone THEN [regs EXCEPT !.dataOut.n = @ + 1, !.remaining = @ - 1]
  ELSE [regs EXCEPT !.capstate = "COLLECTING", !.sampleCount = 1, !.ctimer = RunLenMax]

Dump ==
  IF SampleDone /\ regs.sampleCount # 0
  THEN [regs EXCEPT !.sampleCount = @ - 1, !.remaining = ProbeWords - 1, !.dataOut = Word(memdata, 1),
                    !.memAddr = (@ + MemSize - 1) % MemSize]
  ELSE IF ~SampleDone THEN [regs EXCEPT !.dataOut.n = @ + 1, !.remaining = @ - 1]
  ELSE [regs EXCEPT !.capstate = "COLLECTING", !.sampleCount = 1, !.ctimer = RunLenMax]

(* The collection starts afresh while the probe is not enabled. *)
Restart(r) ==
  IF ~regs.enabled /\ regs.capstate = "COLLECTING"
  THEN [r EXCEPT !.sampleCount = 1, !.ctimer = RunLenMax] ELSE r

Command(r, cmd) ==
  [r EXCEPT !.enabled = cmd = "ENABLED" \/ (@ /\ cmd # "DISABLED")]

combo(cmd, CTIMER, TRIGGER, ACK) ==
  Restart(Command(
    CASE Collecting           -> Collect(CTIMER, (CTIMER /\ TRIGGER) \/ cmd = "TRIGGERED")
      [] Triggered /\ CTIMER  -> RunOut
      [] Dumping /\ ACK       -> Dump
      [] OTHER                -> regs,
    cmd))

-----------------------------------------------------------------------------
(* The edges.  The memory obeys the block during reset too. *)
UClk(URST, cmd, CTIMER, TRIGGER, ACK) ==
  LET next == combo(cmd, CTIMER, TRIGGER, ACK)
  IN  /\ regs' = IF URST THEN ResetRegs(next) ELSE next
      /\ memory'  = IF memWrite(CTIMER) THEN [memory EXCEPT ![next.memAddr] = memin] ELSE memory
      /\ memdata' = IF memWrite(CTIMER) THEN memin
                    ELSE IF memRead(ACK) THEN memory[next.memAddr] ELSE memdata

(* PROBEIN is NoSample at an edge without CLK or without PROBEEN. *)
Changes(PROBEIN) == PROBEIN # NoSample /\ regs.enabled /\ probeData # PROBEIN
Clk(PROBEIN) ==
  /\ probeData'    = IF Changes(PROBEIN) THEN PROBEIN ELSE probeData
  /\ probeChanged' = (probeChanged # Changes(PROBEIN))

(***************************************************************************)
(* What the samples of a collection are, and when they are due, from the   *)
(* inputs: the value at the tick, and the ticks since the one before (of   *)
(* the first, and of one after RunLenMax ticks, RunLenMax).                *)
(***************************************************************************)
Active  == Collecting \/ Triggered
Sample  == [value |-> probeData, time |-> IF samples = <<>> THEN RunLenMax ELSE since]
Keep(s) == SubSeq(s, 1, IF Len(s) < MemSize THEN Len(s) ELSE MemSize - 1)

Record(CTIMER, ACK, PROBEIN) ==
  LET over == ~Dumping' /\ (Dumping \/ ~Active')
      tick == CTIMER /\ Active
      more == IF Changes(PROBEIN) THEN 1 ELSE 0
  IN  /\ samples' = IF over THEN <<>> ELSE IF memWrite(CTIMER) THEN Keep(<<Sample>> \o samples) ELSE samples
      /\ since'   = IF over \/ memWrite(CTIMER) THEN 0
                    ELSE IF tick /\ samples # <<>> THEN since + 1 ELSE since
      /\ lastTick' = IF ~Active' THEN NoSample ELSE IF tick THEN probeData ELSE lastTick
      /\ changes' = IF ~Active' THEN 0 ELSE IF tick THEN more
                    ELSE IF changes + more > 2 THEN 2 ELSE changes + more
      /\ blurred' = (Active' /\ ~memWrite(CTIMER) /\ (blurred \/ (tick /\ changes = 2)))
      /\ sent'    = IF Dumping' THEN (IF Dumping /\ ACK THEN sent + 1 ELSE sent) ELSE 0

CaptureInit ==
  /\ probeData = (CHOOSE v \in Probed : TRUE) /\ probeChanged = FALSE
  /\ regs = [enabled |-> FALSE, capstate |-> "COLLECTING", memAddr |-> 0, sampleCount |-> 1,
             ctimer |-> RunLenMax, ttimer |-> 0, captureChanged |-> FALSE, remaining |-> 0,
             dataOut |-> Header(0)]
  /\ memdata = [value |-> NoSample, time |-> 0] /\ memory = [a \in 0 .. MemSize - 1 |-> memdata]
  /\ samples = <<>> /\ since = 0 /\ lastTick = NoSample /\ changes = 0 /\ blurred = FALSE /\ sent = 0

(* Inputs that the state does not look at are left out, and the output     *)
(* DELAY, Dumping, stops the probed clock.                                 *)
LookedAt(URST, cmd, CTIMER, TRIGGER, PROBEIN) ==
  /\ TRIGGER => CTIMER
  /\ cmd = "TRIGGERED" => Collecting
  /\ cmd = "ENABLED" => ~regs.enabled
  /\ cmd = "DISABLED" => regs.enabled
  /\ PROBEIN # NoSample => Changes(PROBEIN) /\ ~Dumping
  /\ URST => cmd = "NONE" /\ ~TRIGGER

CaptureNext ==
  \E URST \in BOOLEAN, CTIMER \in {FALSE, Active}, TRIGGER \in {FALSE, Collecting}, ACK \in {FALSE, Dumping},
     PROBEIN \in Probed \cup {NoSample}, cmd \in {"NONE", "ENABLED", "DISABLED", "TRIGGERED"} :
    /\ LookedAt(URST, cmd, CTIMER, TRIGGER, PROBEIN)
    /\ UClk(URST, cmd, CTIMER, TRIGGER, ACK)
    /\ Clk(PROBEIN)
    /\ Record(CTIMER, ACK, PROBEIN)

-----------------------------------------------------------------------------
(***************************************************************************)
(* A dump is a header and as many words as it announces: those of the last *)
(* samples, newest first, whatever part of the ring they lie in and        *)
(* whatever was there before (ProbeCapture.v:211-258).                     *)
(***************************************************************************)
DumpExact ==
  LET due == ProbeWords * Len(samples)
  IN  Dumping =>
        /\ sent + regs.remaining + ProbeWords * regs.sampleCount = due
        /\ regs.dataOut = IF sent = 0 THEN Header(due)
                          ELSE Word(samples[((sent - 1) \div ProbeWords) + 1], ((sent - 1) % ProbeWords) + 1)

(***************************************************************************)
(* The samples tell the value at every tick of the collection: the newest  *)
(* is the value at the last one, unless the value has changed twice within *)
(* a tick, which the toggle does not tell from not at all                  *)
(* (ProbeCapture.v:131-136,176,193-238).                                   *)
(***************************************************************************)
SamplesTrue ==
  Active /\ samples # <<>> /\ ~blurred => samples[1].value = lastTick
=============================================================================
