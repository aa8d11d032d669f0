---------------------------- MODULE BluesimBRAM ----------------------------
(***************************************************************************)
(* Class MOD_BRAM of Bluesim/bs_prim_mod_bram.h: a memory with one or two  *)
(* ports, each with a clock.  A rule puts a request to a port; the clock   *)
(* function of the port carries it out.  In a time slice in which both     *)
(* ports have an edge, puts and clock functions come in any order but the  *)
(* put of a port before its clock function.                                *)
(***************************************************************************)
EXTENDS Naturals

CONSTANTS
  Vals, Undet,     \* contents of a chunk of a word; the undetermined pattern
  None,            \* no request; the x of the waveform
  Shapes           \* the memories constructed: words, num_wens, dual_port, pipelined, proxy

VARIABLES
  shape,                       \* arguments of the constructor
  mem,                         \* the words in the storage blocks
  upd,                         \* upd_at (is now), upd_addr, upd_wens, upd_val of each port
  written, prev,               \* written_at is now, and upd_prev, of each port
  out, out2,                   \* out_reg and, if pipelined, out_reg2 of each port
  calls, reqs,                 \* calls of this slice still to come; the requests of this slice
  due,                         \* the waveform of this slice: "none", or due at a "posedge" or "other"
  RAM, RAM0, DO, DO2,          \* the Verilog, and its memory when the slice began
  backing, shown               \* the instance backing and what a waveform viewer shows

object   == <<mem, upd, written, prev, out, out2>>
verilog  == <<RAM, RAM0, DO, DO2>>
bramVars == <<shape, object, calls, reqs, due, verilog, backing, shown>>

Ports  == IF shape.dual_port THEN {"A", "B"} ELSE {"A"}
Chunks == 0 .. shape.num_wens - 1
Words  == 0 .. shape.words - 1     \* lo_addr to hi_addr
Word(c) == [i \in Chunks |-> c]
Other(p) == IF p = "A" THEN "B" ELSE "A"
Idle == calls = {}

(* What a write leaves: the enabled chunks of new, the others of old. *)
Blend(old, wens, new) == [i \in Chunks |-> IF i \in wens THEN new[i] ELSE old[i]]

NoPut == [at |-> FALSE, addr |-> 0, wens |-> {}, val |-> Word(Undet)]

BRAMInit ==
  /\ shape \in Shapes
  /\ mem = [a \in Words |-> Word(Undet)] /\ RAM = mem /\ RAM0 = mem
  /\ upd = [p \in Ports |-> NoPut] /\ written = [p \in Ports |-> FALSE]
  /\ prev = [p \in Ports |-> Word(Undet)]
  /\ out = prev /\ out2 = prev /\ DO = prev /\ DO2 = prev
  /\ calls = {} /\ reqs = [p \in Ports |-> None] /\ due = "none"
  /\ backing = None /\ shown = None

(***************************************************************************)
(* Requests: reads and writes of any word, and of an address out of range. *)
(* Chunks that are not enabled, and what a read has for data, have a value *)
(* of their own.                                                           *)
(***************************************************************************)
Junk == CHOOSE x \in Vals : TRUE
Requests ==
  {[addr |-> a, wens |-> w, val |-> [i \in Chunks |-> IF i \in w /\ a \in Words THEN d[i] ELSE Junk]] :
     a \in Words \cup {shape.words}, w \in SUBSET Chunks, d \in [Chunks -> Vals]}

(* A slice begins: the clocks with an edge, and the requests of the rules. *)
(* Only the waveform, dumped for a memory of one port, reads an older put. *)
Slice(edges, rs) ==
  /\ Idle /\ (due = "none" \/ shown = None) /\ edges # {}
  /\ calls' = {<<"clk", p>> : p \in edges} \cup {<<"put", p>> : p \in {x \in edges : rs[x] # None}}
  /\ reqs' = [p \in Ports |-> IF p \in edges THEN rs[p] ELSE None]
  /\ upd' = [p \in Ports |-> IF shape.dual_port THEN NoPut ELSE [upd[p] EXCEPT !.at = FALSE]]
  /\ written' = [p \in Ports |-> FALSE] /\ prev' = [p \in Ports |-> Word(Undet)]
  /\ due' = "posedge" /\ RAM0' = RAM
  /\ UNCHANGED <<shape, mem, out, out2, RAM, DO, DO2, backing, shown>>

METH_put(p) ==
  /\ <<"put", p>> \in calls /\ calls' = calls \ {<<"put", p>>}
  /\ upd' = [upd EXCEPT ![p] = [at |-> TRUE, addr |-> reqs[p].addr, wens |-> reqs[p].wens, val |-> reqs[p].val]]
  /\ UNCHANGED <<shape, mem, written, prev, out, out2, reqs, due, verilog, backing, shown>>

METH_read(p) == IF shape.pipelined THEN out2[p] ELSE out[p]

(***************************************************************************)
(* The clock function.  A write of the other port at this time may have    *)
(* been carried out already: then its upd_prev is the word before both.    *)
(***************************************************************************)
MutPrevious(p) == mem[upd[p].addr]
Previous(p) ==
  IF shape.dual_port /\ written[Other(p)] /\ upd[p].addr = upd[Other(p)].addr
    THEN prev[Other(p)] ELSE mem[upd[p].addr]

clk(p) ==
  LET u == upd[p]
      inRange == u.addr \in Words
      isWrite == u.wens # {}
  IN
  /\ out2' = [out2 EXCEPT ![p] = IF shape.pipelined THEN out[p] ELSE @]
  /\ out' = [out EXCEPT ![p] = IF ~u.at THEN @ ELSE IF ~inRange THEN Word(Undet)
                               ELSE Blend(Previous(p), u.wens, u.val)]
  /\ IF u.at /\ inRange /\ isWrite
       THEN /\ written' = [written EXCEPT ![p] = TRUE]
            /\ prev' = [prev EXCEPT ![p] = Previous(p)]
            /\ mem' = [mem EXCEPT ![u.addr] = Blend(@, u.wens, u.val)]
       ELSE UNCHANGED <<written, prev, mem>>

(***************************************************************************)
(* The clock edge of BRAM1BE and BRAM2BE: each chunk is written first, all *)
(* reads are of the memory before the edge.  Which of two writes of one    *)
(* chunk stays is open: here that of the later clock function.             *)
(***************************************************************************)
VerilogEdge(p) ==
  LET r == reqs[p] IN
  /\ DO2' = [DO2 EXCEPT ![p] = IF shape.pipelined THEN DO[p] ELSE @]
  /\ DO' = [DO EXCEPT ![p] = IF r = None THEN @ ELSE IF r.addr \notin Words THEN Word(Undet)
                             ELSE Blend(RAM0[r.addr], r.wens, r.val)]
  /\ RAM' = IF r = None \/ r.addr \notin Words THEN RAM
            ELSE [RAM EXCEPT ![r.addr] = Blend(@, r.wens, r.val)]

ClockEdge(p) ==
  /\ <<"clk", p>> \in calls /\ <<"put", p>> \notin calls /\ calls' = calls \ {<<"clk", p>>}
  /\ clk(p) /\ VerilogEdge(p)
  /\ UNCHANGED <<shape, upd, reqs, due, RAM0, backing, shown>>

(* An immediate put: of a memory file or, through a BluespecProbe, of the  *)
(* test bench.  An address out of range has a word of its own.             *)
write_bram(addr, data) ==
  /\ shape.proxy /\ Idle /\ (due = "none" \/ shown = None)
  /\ mem' = IF addr \in Words THEN [mem EXCEPT ![addr] = data] ELSE mem
  /\ RAM' = mem'
  /\ UNCHANGED <<shape, upd, written, prev, out, out2, calls, reqs, due, RAM0, DO, DO2, backing, shown>>

(***************************************************************************)
(* The waveform of a port, of which changes are written after its own edge *)
(* only.                                                                   *)
(***************************************************************************)
Wens == IF upd["A"].at THEN upd["A"].wens ELSE {}
Signals == [EN |-> upd["A"].at, WE |-> upd["A"].wens, ADDR |-> upd["A"].addr, DI |-> upd["A"].val,
            DO |-> METH_read("A")]
MutChanged(s) == Signals[s] # backing[s]
Changed(s) == \/ Signals[s] # backing[s]
              \/ s = "WE" /\ (Wens # {}) # (backing.EN /\ backing.WE # {})
dump_VCD(dt) ==
  /\ Idle /\ due # "none" /\ due' = "none" /\ ~shape.dual_port
  /\ dt = "VCD_DUMP_CHANGES" => shown # None
  /\ shown' = CASE dt = "VCD_DUMP_XS" -> None
                [] dt = "VCD_DUMP_RESTART" -> Signals
                [] OTHER -> [s \in DOMAIN Signals |->
                     IF due = "other" \/ ~Changed(s) THEN shown[s] ELSE IF s = "WE" THEN Wens ELSE Signals[s]]
  /\ backing' = CASE backing # None /\ (dt = "VCD_DUMP_XS" \/ (dt = "VCD_DUMP_CHANGES" /\ due = "other")) ->
                       [Signals EXCEPT !.EN = backing.EN]
                  [] OTHER -> Signals
  /\ UNCHANGED <<shape, object, calls, reqs, verilog>>
(* A slice in which another clock has its edge. *)
OtherEdge ==
  /\ Idle /\ due = "none" /\ shown # None
  /\ upd' = [upd EXCEPT !["A"].at = FALSE] /\ due' = "other"
  /\ UNCHANGED <<shape, mem, written, prev, out, out2, calls, reqs, verilog, backing, shown>>

BRAMNext ==
  \/ \E edges \in SUBSET Ports : \E rs \in [edges -> Requests \cup {None}] : Slice(edges, rs)
  \/ \E p \in Ports : METH_put(p) \/ ClockEdge(p)
  \/ \E a \in Words \cup {shape.words}, d \in [Chunks -> Vals] : write_bram(a, d)
  \/ \E dt \in {"VCD_DUMP_XS", "VCD_DUMP_CHANGES", "VCD_DUMP_RESTART"} : dump_VCD(dt)
  \/ OtherEdge

BRAMSpec == BRAMInit /\ [][BRAMNext]_bramVars

(***************************************************************************)
(* "we must take care to faithfully reproduce the write-first memory       *)
(* semantics no matter what order the methods are called in" (bs_prim_mod_ *)
(* bram.h:431-434): after the slice the memory and both outputs are those  *)
(* of the clock edges, for whole words and single chunks, and whatever the *)
(* test bench has written before.                                          *)
(***************************************************************************)
MemoryIsEdge == Idle => mem = RAM /\ out = DO /\ (shape.pipelined => out2 = DO2)

(* After a dump the viewer, who sees changes only, has the request of the  *)
(* last edge and the output.                                               *)
BRAMWaveTrue ==
  due = "none" /\ shown # None =>
    /\ shown.DO = METH_read("A")
    /\ upd["A"].at => /\ shown.EN /\ shown.WE = reqs["A"].wens
                      /\ shown.ADDR = reqs["A"].addr /\ shown.DI = reqs["A"].val
=============================================================================
