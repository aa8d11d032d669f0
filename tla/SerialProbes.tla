---------------------------- MODULE SerialProbes ----------------------------
(***************************************************************************)
(* A trigger and a value probe behind a multiplexer, as a design with      *)
(* serial probes has them: Verilog/ProbeTrigger.v, ProbeValue.v and        *)
(* ProbeMux.v, and their composition.  Commands come down to both probes,  *)
(* words go up through the multiplexer, and its DELAY stops the probed     *)
(* clock CLK.                                                              *)
(***************************************************************************)
EXTENDS Naturals

CONSTANTS
  NumWords,             \* parameter of the trigger, one at least
  CountMax,             \* the largest enableCount, a word of 8 bits
  Values,               \* of PROBEIN
  NoValue,              \* no value, not in Values
  ProbeWords,           \* words of a value, one at least
  InitiallyEnabled      \* parameter, Boolean

VARIABLES
  \* the trigger:
  triggerToggle,                          \* of CLK
  tEnabled, enableCount,                  \* of UCLK, by commands
  tSending, sendDisable, wordCount, tUp,  \* the report; tUp is DATAUP
  sentToggle,
  \* history:
  waiting,     \* TRIGGER came while enabled and is not yet reported
  cut,         \* the probe was disabled in the midst of the report under way
  \* the value probe:
  probeData, probeChanged,                 \* of CLK; probeChanged is a toggle
  vEnabled, forced, sendOnce, sentOne,     \* of UCLK, by commands
  vSending, remaining, captured, captureChanged, vUp,  \* the report; vUp is DATAUP
  fresh,       \* history: a new value came while listening, between reports
  mode,        \* history: the last command
  reported,    \* history: a report has started since
  crossed,     \* history: a report started at the edge of that command
  \* the multiplexer:
  AorB,         \* TRUE: B
  mSending,     \* DATAVALID
  mUp,          \* DATAUP
  last          \* history: the last word that was taken

-----------------------------------------------------------------------------
(* The trigger: while enabled it reports each TRIGGER by the words header, *)
(* the NumWords ids of the probes to capture, and, when the count of its   *)
(* enablings runs out, its own disabling.                                  *)
triggerVars == <<triggerToggle, tEnabled, enableCount, tSending, sendDisable, wordCount, tUp,
                 sentToggle, waiting, cut>>

(* The words of a report by their places; the last is "disabled". *)
TriggerWord(n) == [probe |-> "Trigger", n |-> n]
DisabledWord   == TriggerWord(NumWords + 1)

triggered     == triggerToggle # sentToggle
tDelay        == tEnabled /\ triggered
wordCountZero == wordCount = 0
Reports       == ~tSending /\ tDelay     \* a report starts

TriggerInit ==
  /\ triggerToggle = FALSE /\ sentToggle = FALSE
  /\ tEnabled = FALSE /\ enableCount = 0 /\ tSending = FALSE /\ sendDisable = FALSE
  /\ wordCount = 0 /\ tUp = TriggerWord(0) /\ waiting = FALSE /\ cut = FALSE

(* What the report does at an edge of UCLK, word by word.                  *)
Ship(ACK) ==
  \/ /\ Reports
     /\ tUp' = TriggerWord(0) /\ tSending' = TRUE /\ wordCount' = NumWords
  \/ /\ tSending /\ ACK /\ ~wordCountZero
     /\ tUp' = TriggerWord(NumWords - wordCount + 1)
     /\ wordCount' = wordCount - 1 /\ UNCHANGED tSending
  \/ /\ tSending /\ ACK /\ wordCountZero /\ sendDisable
     /\ tUp' = DisabledWord /\ UNCHANGED <<tSending, wordCount>>
  \/ /\ tSending /\ ACK /\ wordCountZero /\ ~sendDisable
     /\ tSending' = FALSE /\ UNCHANGED <<tUp, wordCount>>
  \/ /\ ~Reports /\ ~(tSending /\ ACK)
     /\ UNCHANGED <<tUp, tSending, wordCount>>

RememberDisable(ACK) ==
  sendDisable' = IF ~ACK THEN sendDisable ELSE ~wordCountZero /\ enableCount = 1

(* The toggle is given back with the last word, or if nobody listens. *)
GiveBack == triggered /\ (~tEnabled \/ (tSending /\ wordCountZero))

TriggerCommand(cmd) ==
  /\ enableCount' = CASE cmd = "DISABLED"  -> 0
                      [] cmd = "TRIGGERED" -> (enableCount + CountMax) % (CountMax + 1)
                      [] cmd = "ENABLED"   -> IF enableCount # CountMax THEN enableCount + 1 ELSE CountMax
                      [] OTHER             -> enableCount
  /\ tEnabled' = CASE cmd = "DISABLED"  -> FALSE
                   [] cmd = "TRIGGERED" -> enableCount # 1
                   [] cmd = "ENABLED"   -> TRUE
                   [] OTHER             -> tEnabled

TriggerUClk(URST, cmd, ACK) ==
  IF URST
  THEN /\ tEnabled' = FALSE /\ enableCount' = 0 /\ tSending' = FALSE
       /\ sendDisable' = FALSE /\ wordCount' = 0 /\ UNCHANGED <<tUp, sentToggle>>
  ELSE /\ Ship(ACK) /\ RememberDisable(ACK) /\ TriggerCommand(cmd)
       /\ sentToggle' = (sentToggle # GiveBack)

TriggerClk(TRIGGER) == triggerToggle' = (triggerToggle # TRIGGER)

TriggerRecord(URST, TRIGGER) ==
  /\ waiting' = (~URST /\ tEnabled /\ ((TRIGGER /\ ~cut) \/ (waiting /\ ~Reports)))
  /\ cut' = (tSending' /\ (cut \/ ~tEnabled'))

TriggerEdge(URST, cmd, ACK, TRIGGER) ==
  TriggerUClk(URST, cmd, ACK) /\ TriggerClk(TRIGGER) /\ TriggerRecord(URST, TRIGGER)

(***************************************************************************)
(* A trigger is not forgotten before it is reported, unless the probe is   *)
(* disabled, however slowly the words before it go up.  (After a disabling *)
(* in the midst of a report a trigger may come too early, and is lost with *)
(* the last word of that report.)  (ProbeTrigger.v:107-112,134-136)        *)
(***************************************************************************)
NoTriggerLost == waiting /\ tEnabled => triggered

-----------------------------------------------------------------------------
(* The value probe: while enabled it reports each new value of PROBEIN, or *)
(* one value only, by a header and ProbeWords words.                       *)
valueVars == <<probeData, probeChanged, vEnabled, forced, sendOnce, sentOne,
               vSending, remaining, captured, captureChanged, vUp,
               fresh, mode, reported, crossed>>

(* The words of a report by their places, with the value of which they are. *)
ValueWord(n, v) == [probe |-> "Value", n |-> n, value |-> v]

newData   == probeChanged # captureChanged
vDelay    == vEnabled /\ newData
Listening == vEnabled # sentOne
Starts    == Listening /\ ~vSending /\ (newData \/ forced)

ValueInit ==
  /\ probeData \in Values /\ probeChanged = FALSE /\ captureChanged = FALSE
  /\ vEnabled = InitiallyEnabled /\ forced = FALSE /\ sendOnce = FALSE /\ sentOne = FALSE
  /\ vSending = FALSE /\ remaining = 0 /\ captured = probeData /\ vUp = ValueWord(0, NoValue)
  /\ fresh = FALSE /\ mode = IF InitiallyEnabled THEN "ENABLE" ELSE "DISABLED"
  /\ reported = FALSE /\ crossed = FALSE

(* A command of its own sets the mode; any but these two disables. *)
Commanded(cmd) ==
  IF cmd = "NONE"
  THEN forced' = FALSE /\ UNCHANGED <<vEnabled, sendOnce>>
  ELSE /\ vEnabled' = (cmd = "ENABLE" \/ cmd = "SENDONCE")
       /\ forced'   = (cmd = "ENABLE")
       /\ sendOnce' = (cmd = "SENDONCE")

(* The FSM; its assignment to sentOne overrides the command's. *)
Start ==
  /\ Starts
  /\ remaining' = ProbeWords /\ captured' = probeData
  /\ vUp' = ValueWord(0, NoValue) /\ vSending' = TRUE
  /\ UNCHANGED captureChanged
NextWord(ACK) ==
  /\ ~Starts /\ ACK /\ vSending /\ remaining # 0
  /\ remaining' = remaining - 1
  /\ vUp' = ValueWord(ProbeWords - remaining + 1, captured)
  /\ UNCHANGED <<vSending, captured, captureChanged>>
Finish(ACK) ==
  /\ ~Starts /\ ACK /\ vSending /\ remaining = 0
  /\ vSending' = FALSE /\ captureChanged' = probeChanged
  /\ UNCHANGED <<remaining, captured, vUp>>
Rest(ACK) ==
  /\ ~Starts /\ ~(ACK /\ vSending)
  /\ UNCHANGED <<remaining, captured, vUp, vSending, captureChanged>>

SentOne(cmd) ==
  sentOne' = IF Starts THEN sendOnce ELSE cmd = "NONE" /\ sentOne

ValueUClk(URST, cmd, ACK) ==
  IF URST
  THEN /\ vEnabled' = InitiallyEnabled /\ forced' = FALSE /\ remaining' = 0 /\ vSending' = FALSE
       /\ sendOnce' = FALSE /\ sentOne' = FALSE /\ UNCHANGED <<captured, captureChanged, vUp>>
  ELSE /\ Commanded(cmd) /\ SentOne(cmd)
       /\ Start \/ NextWord(ACK) \/ Finish(ACK) \/ Rest(ACK)

(* PROBEIN is NoValue at an edge without CLK or without PROBEEN. *)
IsNew(PROBEIN) == PROBEIN # NoValue /\ PROBEIN # probeData
ValueClk(PROBEIN) ==
  /\ probeData'    = IF IsNew(PROBEIN) THEN PROBEIN ELSE probeData
  /\ probeChanged' = (probeChanged # IsNew(PROBEIN))

ValueRecord(URST, cmd, PROBEIN) ==
  /\ fresh' = (~URST /\ cmd = "NONE" /\ ~vSending' /\ Listening /\ (fresh \/ IsNew(PROBEIN)))
  /\ mode'  = IF URST THEN (IF InitiallyEnabled THEN "ENABLE" ELSE "DISABLED")
              ELSE IF cmd = "NONE" THEN mode ELSE cmd
  /\ reported' = (~URST /\ cmd = "NONE" /\ (reported \/ Starts))
  /\ crossed'  = (~URST /\ IF cmd = "NONE" THEN crossed ELSE Starts)

ValueEdge(URST, cmd, ACK, PROBEIN) ==
  ValueUClk(URST, cmd, ACK) /\ ValueClk(PROBEIN) /\ ValueRecord(URST, cmd, PROBEIN)

(***************************************************************************)
(* A new value that comes between reports is reported: it stays marked as  *)
(* new until a report of it starts (ProbeValue.v:107-122).                 *)
(***************************************************************************)
NoValueLost == fresh /\ Listening => newData

(***************************************************************************)
(* The probe listens when the last command told it to: always, for one     *)
(* report, or not at all; a command at the very edge at which a report     *)
(* starts may leave it otherwise (ProbeValue.v:95-122).                    *)
(***************************************************************************)
ListensAsCommanded ==
  ~crossed => Listening = (mode = "ENABLE" \/ (mode = "SENDONCE" /\ ~reported))

-----------------------------------------------------------------------------
(* The multiplexer looks at one side, A or B, passes its words on while    *)
(* there are any, and turns to the other side when it has words and this   *)
(* one has none.                                                           *)
muxVars == <<AorB, mSending, mUp>>

free == ~mSending
MuxInit(w) == AorB = FALSE /\ mSending = FALSE /\ mUp = w

(* The acknowledgement of the side that is looked at; a word is taken by   *)
(* it whether there is one or not.                                         *)
ACKA(ACK) == (ACK \/ free) /\ ~AorB
ACKB(ACK) == (ACK \/ free) /\ AorB

MutMuxEdge(URST, ACK, validA, upA, validB, upB) ==
  LET takeA == validA
      takeB == validB /\ ~validA
  IN  IF URST THEN mSending' = FALSE /\ AorB' = FALSE /\ UNCHANGED mUp
      ELSE IF ~(ACK \/ free) THEN UNCHANGED muxVars
      ELSE /\ mSending' = (takeA \/ takeB)
           /\ mUp'  = IF takeA THEN upA ELSE IF takeB THEN upB ELSE mUp
           /\ AorB' = (validB /\ ~validA)

MuxEdge(URST, ACK, validA, upA, validB, upB) ==
  LET takeA == validA /\ ~AorB
      takeB == validB /\ AorB
      flip  == IF AorB THEN validA /\ ~validB ELSE validB /\ ~validA
  IN  IF URST THEN mSending' = FALSE /\ AorB' = FALSE /\ UNCHANGED mUp
      ELSE IF ~(ACK \/ free) THEN UNCHANGED muxVars
      ELSE /\ mSending' = (takeA \/ takeB)
           /\ mUp'  = IF takeA THEN upA ELSE IF takeB THEN upB ELSE mUp
           /\ AorB' = (AorB # flip)

-----------------------------------------------------------------------------
(* The composition. *)
serialVars == <<triggerVars, valueVars, muxVars, last>>

DELAY == tDelay \/ vDelay \/ mSending

SerialInit ==
  /\ TriggerInit /\ ValueInit /\ MuxInit(TriggerWord(0))
  /\ last = TriggerWord(NumWords)

(* A command names its probe; of other probes it is no command at all. *)
NoCommand == [trigger |-> "NONE", value |-> "NONE"]
Commands  == [trigger : {"NONE", "ENABLED", "DISABLED", "TRIGGERED"}, value : {"NONE"}]
               \cup [trigger : {"NONE"}, value : {"ENABLE", "DISABLED", "SENDONCE"}]

(* What an edge of CLK brings, or the absence of one; a PROBEIN that is no *)
(* new value is as good as none.                                           *)
NoClk == [TRIGGER |-> FALSE, PROBEIN |-> NoValue]
Clks  == IF DELAY THEN {NoClk} ELSE [TRIGGER : BOOLEAN, PROBEIN : (Values \ {probeData}) \cup {NoValue}]

Edge(URST, ACK, cmd, clk) ==
  /\ TriggerEdge(URST, cmd.trigger, ACKA(ACK), clk.TRIGGER)
  /\ ValueEdge(URST, cmd.value, ACKB(ACK), clk.PROBEIN)
  /\ MuxEdge(URST, ACK, tSending, tUp, vSending, vUp)
  /\ last' = IF URST THEN TriggerWord(NumWords) ELSE IF ACK THEN mUp ELSE last

SerialNext ==
  \E clk \in Clks, ACK \in {FALSE, mSending} :
    \/ Edge(TRUE, ACK, NoCommand, clk)
    \/ \E cmd \in Commands : Edge(FALSE, ACK, cmd, clk)

(* The words of one report, in order; a report follows another when whole. *)
Header(w) == w.n = 0
Follows(v, w) ==
  IF v.probe = "Trigger"
  THEN IF v.n < NumWords THEN w = TriggerWord(v.n + 1) ELSE Header(w) \/ (v.n = NumWords /\ w = DisabledWord)
  ELSE IF v.n = ProbeWords THEN Header(w)
  ELSE w.probe = "Value" /\ w.n = v.n + 1 /\ (v.n > 0 => w.value = v.value)

(***************************************************************************)
(* The reports of both probes go up whole and one after the other, however *)
(* the triggers, values, commands and acknowledgements fall                *)
(* (ProbeMux.v:73-102, ProbeTrigger.v:107-131, ProbeValue.v:107-122).      *)
(***************************************************************************)
ReportsWhole == mSending => Follows(last, mUp)

ReportsTrue == ReportsWhole /\ NoTriggerLost /\ NoValueLost /\ ListensAsCommanded
=============================================================================
