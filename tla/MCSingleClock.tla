--------------------------- MODULE MCSingleClock ---------------------------
(***************************************************************************)
(* What lives within one clock domain, one of it per behaviour: the FIFOs  *)
(* of Verilog/, and the classes by which Bluesim simulates FIFOs,          *)
(* registers, counters, wires and memories.  Which one it is is chosen at  *)
(* the start, the others stay as they are.                                 *)
(***************************************************************************)
EXTENDS SizedFIFO

CONSTANTS
  size, Types, guard,                                                     \* of ModFifo
  Values, reset_value, RegClasses, RegResets, RegPorts, LateInReset,      \* of BluesimReg
  CounterBits, CounterReset, CounterArgs,                                 \* of BluesimCounter
  Undet, Shapes, lo_addr, hi_addr                                         \* of the memories

ASSUME FifoAssumption == size \in Nat \ {0} /\ guard \in BOOLEAN
(* The arguments of a counter are as wide as the counter. *)
ASSUME CounterAssumption ==
  /\ CounterBits \in Nat /\ CounterReset \in 0 .. 2^CounterBits - 1
  /\ CounterArgs \subseteq 0 .. 2^CounterBits - 1
ASSUME RegAssumption == reset_value \in Values /\ None \notin Values /\ RegPorts \in Nat \ {0, 1}

VARIABLES
  which,
  oneEmpty, oneData, oneQueue,
  count0, not_empty, not_full, queue0,
  twoFull, twoEmpty, twoData0, twoData1, twoQueue,
  type, data, fst, elems, saved_elems, enq_at, deq_at, clear_at,
  fifoReset, suppress_writes, fifoQueue, deqd, enqd, clrd, warned,
  cls, reset_type, value, old, written, a_at, tick_at, in_reset, suppress_write,
  rec, phase, wrote, q, was, back, shown,
  val, saved_val, saved, arg, called, did, creset, csuppress, step, cq, inputs, cback, cshown,
  kind, content, isValid, sent, stage, set, lastSet, probed, wireBack, wireShown,
  shape, mem, upd, memWritten, prev, out, out2, calls, reqs, due, RAM, RAM0, DO, DO2, memBack, memShown,
  words, upd_now, upd_addr, upd_prev, rfArr, edge

One == INSTANCE FIFO1 WITH empty_reg <- oneEmpty, D_OUT <- oneData, queue <- oneQueue
Two == INSTANCE FIFO2 WITH full_reg <- twoFull, empty_reg <- twoEmpty,
                           data0_reg <- twoData0, data1_reg <- twoData1, queue <- twoQueue
Zero == INSTANCE SizedFIFO0 WITH Token <- CHOOSE x \in Data : TRUE, truedepth <- p2depth,
                                 count <- count0, queue <- queue0
Fifo == INSTANCE ModFifo WITH in_reset <- fifoReset, queue <- fifoQueue
Reg  == INSTANCE BluesimReg
Cntr == INSTANCE BluesimCounter
Wire == INSTANCE BluesimWire WITH NoData <- None
Memory(hi, num_wens, dual_port, pipelined, proxy) ==
  [words |-> hi, num_wens |-> num_wens, dual_port |-> dual_port, pipelined |-> pipelined, proxy |-> proxy]
MCShapes == {Memory(2, 1, TRUE, FALSE, TRUE), Memory(1, 2, TRUE, FALSE, FALSE), Memory(1, 1, FALSE, TRUE, TRUE)}
BRAM == INSTANCE BluesimBRAM WITH
          Vals <- Values, written <- memWritten, backing <- memBack, shown <- memShown
RegFile == INSTANCE BluesimRegFile WITH Vals <- Values, arr <- rfArr

oneVars == <<oneEmpty, oneData, oneQueue>>
twoVars == <<twoFull, twoEmpty, twoData0, twoData1, twoQueue>>
zeroVars == <<count0, not_empty, not_full, queue0>>
verilogVars == <<vars, oneVars, twoVars, zeroVars>>
modVars  == <<type, data, fst, elems, saved_elems, enq_at, deq_at, clear_at,
              fifoReset, suppress_writes, fifoQueue, deqd, enqd, clrd, warned>>
regVars  == <<cls, reset_type, value, old, written, a_at, tick_at, in_reset, suppress_write,
              rec, phase, wrote, q, was, back, shown>>
cntrVars == <<val, saved_val, saved, arg, called, did, creset, csuppress, step, cq, inputs, cback, cshown>>
wireVars == <<kind, content, isValid, sent, stage, set, lastSet, probed, wireBack, wireShown>>
bramVars == <<shape, mem, upd, memWritten, prev, out, out2, calls, reqs, due,
              RAM, RAM0, DO, DO2, memBack, memShown>>
fileVars == <<words, upd_now, upd_addr, upd_prev, rfArr, edge>>
bluesimVars == <<modVars, regVars, cntrVars, wireVars, bramVars, fileVars>>
allVars == <<which, verilogVars, bluesimVars>>

(* What is not chosen starts in one of its states. *)
MCInit ==
  /\ which \in {"SizedFIFO", "SizedFIFO0", "FIFO1", "FIFO2", "MOD_Fifo", "MOD_Reg", "MOD_Counter",
               "MOD_Wire", "MOD_BRAM", "MOD_RegFile"}
  /\ Init /\ One!Init /\ Two!Init /\ Zero!Init /\ Fifo!Init /\ Reg!RegInit /\ Cntr!CounterInit /\ Wire!WireInit
  /\ BRAM!BRAMInit /\ RegFile!RegFileInit
  /\ which = "MOD_Fifo" \/ type = "FIFO_SIMPLE"
  /\ which = "MOD_Reg" \/ (cls = "Reg" /\ reset_type = "NO_RESET_REG" /\ value = reset_value)
  /\ which = "MOD_Counter" \/ val = CounterReset
  /\ which = "MOD_Wire" \/ (kind = "Probe" /\ content = CHOOSE x \in Data : TRUE)
  /\ which = "MOD_BRAM" \/ shape.words = 2

MCNext ==
  \/ /\ which = "SizedFIFO" /\ Next /\ UNCHANGED <<oneVars, twoVars, zeroVars, bluesimVars>>
  \/ /\ which = "SizedFIFO0" /\ Zero!Next /\ UNCHANGED <<vars, oneVars, twoVars, bluesimVars>>
  \/ /\ which = "FIFO1" /\ One!Next /\ UNCHANGED <<vars, twoVars, zeroVars, bluesimVars>>
  \/ /\ which = "FIFO2" /\ Two!Next /\ UNCHANGED <<vars, oneVars, zeroVars, bluesimVars>>
  \/ /\ which = "MOD_Fifo" /\ Fifo!Next
     /\ UNCHANGED <<verilogVars, regVars, cntrVars, wireVars, bramVars, fileVars>>
  \/ /\ which = "MOD_Reg" /\ Reg!RegNext
     /\ UNCHANGED <<verilogVars, modVars, cntrVars, wireVars, bramVars, fileVars>>
  \/ /\ which = "MOD_Counter" /\ Cntr!CounterNext
     /\ UNCHANGED <<verilogVars, modVars, regVars, wireVars, bramVars, fileVars>>
  \/ /\ which = "MOD_Wire" /\ Wire!WireNext
     /\ UNCHANGED <<verilogVars, modVars, regVars, cntrVars, bramVars, fileVars>>
  \/ /\ which = "MOD_BRAM" /\ BRAM!BRAMNext
     /\ UNCHANGED <<verilogVars, modVars, regVars, cntrVars, wireVars, fileVars>>
  \/ /\ which = "MOD_RegFile" /\ RegFile!RegFileNext
     /\ UNCHANGED <<verilogVars, modVars, regVars, cntrVars, wireVars, bramVars>>

MCSpec == MCInit /\ [][MCNext /\ UNCHANGED which]_allVars

(* The FIFOs of one and of two places, and those of elements without bits,   *)
(* hold their queues too (FIFO1.v:73-109, FIFO2.v:81-126, SizedFIFO0.v:58-89). *)
SmallHoldQueue == One!HoldsQueue /\ Two!HoldsQueue /\ Zero!HoldsQueue

(* What ModFifo says of MOD_Fifo: each cycle leaves what the clock edge    *)
(* leaves (bs_prim_mod_fifo.h:118-283), ...                                *)
CyclesCompose == Fifo!CyclesCompose
(* ... and what the rules of a cycle read of FIFOs and registers keeps the *)
(* value that it should, though calls change them between the reads; a     *)
(* call that the conditions allow is not warned of                         *)
(* (bs_prim_mod_fifo.h:90-137, bs_prim_mod_reg.h:523-543).                 *)
AnswersSteady ==
  /\ Fifo!ConditionsSteady /\ Fifo!FirstSteady /\ Fifo!LegalNeverWarned
  /\ Reg!RegReadsSteady

(* What BluesimReg says of the registers: the calls of a cycle, the ticks  *)
(* and the resets leave the value of the Verilog (bs_prim_mod_reg.h).      *)
RegEdgeComposes == Reg!RegEdgeComposes

(* What BluesimCounter says of MOD_Counter (bs_prim_mod_counter.h:40-157). *)
CounterIsCounter == Cntr!CounterIsCounter

(* What BluesimWire says of wires and probes (bs_prim_mod_wire.h:61-122).  *)
WireCarries == Wire!WireCarries

(* What BluesimBRAM and BluesimRegFile say of the memories: they hold and  *)
(* answer what those of the Verilog do (bs_prim_mod_bram.h:431-434,        *)
(* bs_prim_mod_regfile.h:361-363).                                         *)
MemoryIsEdge == BRAM!MemoryIsEdge /\ RegFile!ReadsBeforeEdge

(* The waveforms of registers, counters and memories show what the         *)
(* hardware does, although only changes against a copy are written.        *)
WaveTrue == Reg!RegWaveTrue /\ Cntr!CounterWaveTrue /\ BRAM!BRAMWaveTrue
=============================================================================
