---------------------------- MODULE BluesimWire ----------------------------
(***************************************************************************)
(* Classes MOD_Wire (RWire, and with no data RWire0) and MOD_Probe of      *)
(* Bluesim.  A wire carries a value within one cycle; its class keeps it   *)
(* in fields that outlive the cycle, and the clock tick must take the      *)
(* validity back, while the waveform still shows the cycle that ended.     *)
(***************************************************************************)
CONSTANTS
  Data,          \* values
  NoData         \* no value; also the x of the waveform

VARIABLES
  kind,                  \* "Wire", "PulseWire" (bits = 0) or "Probe"
  content,               \* the field value
  isValid, sent,         \* isValid; written
  stage,                 \* rules, ticked, dumped
  set, lastSet,          \* history: the value set in this cycle, and in the one that ended last
  probed,                \* history: the value that the probe was given last
  wireBack, wireShown    \* the instance backing and what a waveform viewer shows

wireVars == <<kind, content, isValid, sent, stage, set, lastSet, probed, wireBack, wireShown>>

Kinds == {"Wire", "PulseWire", "Probe"}

WireInit ==
  /\ kind \in Kinds /\ content \in Data /\ isValid = FALSE /\ sent = FALSE
  /\ stage = "rules" /\ set = NoData /\ lastSet = NoData /\ probed = content
  /\ wireBack = [on |-> FALSE, content |-> NoData, sent |-> FALSE] /\ wireShown = NoData

METH_whas == isValid
METH_wget == content

METH_wset(x) ==
  /\ kind # "Probe" /\ stage = "rules" /\ set = NoData
  /\ content' = x /\ isValid' = TRUE /\ set' = x
  /\ UNCHANGED <<kind, sent, stage, lastSet, probed, wireBack, wireShown>>
METH_probe_write(x) ==
  /\ kind = "Probe" /\ stage = "rules" /\ set = NoData
  /\ content' = x /\ set' = x /\ probed' = x
  /\ UNCHANGED <<kind, isValid, sent, stage, lastSet, wireBack, wireShown>>

Mutclk ==
  /\ stage = "rules" /\ stage' = "ticked" /\ sent' = isValid /\ lastSet' = set
  /\ UNCHANGED <<kind, content, isValid, set, probed, wireBack, wireShown>>
clk ==
  /\ stage = "rules" /\ stage' = "ticked" /\ lastSet' = set
  /\ IF kind = "Probe" THEN UNCHANGED <<isValid, sent>> ELSE sent' = isValid /\ isValid' = FALSE
  /\ UNCHANGED <<kind, content, set, probed, wireBack, wireShown>>

(* Shown after a write of the signal. *)
Level(x, on) ==
  CASE kind = "Wire" -> IF on THEN x ELSE NoData
    [] kind = "PulseWire" -> on
    [] kind = "Probe" -> x

(* A dump at an edge of this clock, or at one of another clock. *)
dump_VCD_wire(dt) ==
  /\ stage = "ticked" \/ (stage = "rules" /\ set = NoData)
  /\ dt = "VCD_DUMP_CHANGES" => wireBack.on
  /\ stage' = "dumped"
  /\ IF dt = "VCD_DUMP_XS"
       THEN wireShown' = NoData /\ wireBack' = [wireBack EXCEPT !.on = FALSE]
     ELSE IF \/ dt # "VCD_DUMP_CHANGES"
             \/ kind = "Probe" /\ wireBack.content # content
             \/ kind # "Probe" /\ (\/ sent # wireBack.sent
                                   \/ sent /\ wireBack.sent /\ content # wireBack.content)
       THEN /\ wireShown' = Level(content, sent)
            /\ wireBack' = [on |-> TRUE, content |-> content, sent |-> sent]
     ELSE UNCHANGED <<wireShown, wireBack>>
  /\ UNCHANGED <<kind, content, isValid, sent, set, lastSet, probed>>

WireAdvance ==
  /\ stage = "dumped" \/ (stage = "ticked" /\ ~wireBack.on)
  /\ stage' = "rules" /\ set' = NoData
  /\ UNCHANGED <<kind, content, isValid, sent, lastSet, probed, wireBack, wireShown>>

WireNext ==
  \/ \E x \in Data : METH_wset(x) \/ METH_probe_write(x)
  \/ clk
  \/ \E dt \in {"VCD_DUMP_XS", "VCD_DUMP_CHANGES", "VCD_DUMP_RESTART"} : dump_VCD_wire(dt)
  \/ WireAdvance

WireSpec == WireInit /\ [][WireNext]_wireVars

(* A wire has a value exactly in the cycle in which it is set, and that    *)
(* one, as RWire.v; and the viewer has the value of the last cycle, or x   *)
(* when it was not set, a pulse wire as a bit, a probe its last value.     *)
WireCarries ==
  /\ stage = "rules" /\ kind # "Probe" =>
       METH_whas = (set # NoData) /\ (METH_whas => METH_wget = set)
  /\ stage = "dumped" /\ wireBack.on =>
       wireShown = CASE kind = "Wire" -> lastSet
                     [] kind = "PulseWire" -> (lastSet # NoData)
                     [] kind = "Probe" -> probed
=============================================================================
