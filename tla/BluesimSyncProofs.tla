-------------------------- MODULE BluesimSyncProofs --------------------------
(***************************************************************************)
(* The classes by which Bluesim simulates bits, pulses, handshakes,        *)
(* registers and FIFOs of one place between clock domains do, slice by     *)
(* slice, what the Verilog modules do at their edges, for any words, any   *)
(* number of pulses and any order of the calls in a slice; and the         *)
(* waveforms of all but the FIFO show it.                                  *)
(***************************************************************************)
EXTENDS MCBluesimSync, FIFOPointersProofs

(* The handshake class alone (Early) and in a register (Register) is one   *)
(* class with other arguments: delayreturn, init and the words.            *)
SyncReg(d, i, D) == INSTANCE BluesimSyncReg
                      WITH DelayReturn <- d, InitVal <- i, Data <- D, reset_value <- Zero

(* A SyncVar.                                                              *)
VarOf(S) == [value : S, prev_value : S, written_at : BOOLEAN]

(* A variable with one value throughout, not written, or written.          *)
Still(x, val) == x.value = val /\ x.prev_value = val
Unwritten(x, val) == x.value = val /\ ~x.written_at
Rewritten(x, val, old) == x.value = val /\ x.prev_value = old /\ x.written_at

-----------------------------------------------------------------------------
(* Bits and pulses.                                                        *)

(* The classes, and what their objects and registers are records of.       *)
BitClasses == {"SyncBit", "SyncBit1", "SyncBit15", "SyncPulse"}
BitFlops   == {"dSyncReg1", "dSyncReg2", "dSyncPulse"}
BitFields  == BitFlops \cup {"sSyncReg"}
FieldsOf   == [dSyncReg1 : {0, 1}, dSyncReg2 : {0, 1}, dSyncPulse : {0, 1}, sSyncReg : VarOf({0, 1})]
FlopsOf    == [rst : BOOLEAN, s : {0, 1}, d1 : {0, 1}, d2 : {0, 1}, dp : {0, 1}]

(* The value of every flop in reset.                                       *)
BitReset == Bits!ResetOf(bclass)

BitsTypes ==
  /\ bclass \in BitClasses /\ in_reset \in BOOLEAN
  /\ bits \in FieldsOf /\ last \in FlopsOf
  /\ called \in BOOLEAN /\ ticked \in BOOLEAN /\ dCLK \in BOOLEAN
  /\ stage \in {"slice", "settled", "dumped"}

(* In reset, or just out of it, the fields have their reset values.        *)
BitsAtReset ==
  /\ bits.dSyncReg1 = BitReset /\ bits.dSyncReg2 = BitReset /\ bits.dSyncPulse = BitReset
  /\ bits.sSyncReg.value = BitReset /\ bits.sSyncReg.prev_value = BitReset
LastAtReset == last.s = BitReset /\ last.d1 = BitReset /\ last.d2 = BitReset /\ last.dp = BitReset

(* What the calls of a slice have done so far: a send, and an edge.        *)
Sent ==
  /\ bits.sSyncReg.written_at = called
  /\ IF called THEN /\ bits.sSyncReg.prev_value = last.s
                    /\ bclass = "SyncPulse" => bits.sSyncReg.value = 1 - last.s
               ELSE bits.sSyncReg.value = last.s
Sampled(dst) ==
  /\ bits.dSyncReg1 = IF dst = (IF bclass = "SyncBit15" THEN "negedge" ELSE "posedge") THEN last.s ELSE last.d1
  /\ bits.dSyncReg2 = IF dst = "posedge" /\ bclass # "SyncBit1" THEN last.d1 ELSE last.d2
  /\ bits.dSyncPulse = IF dst = "posedge" /\ bclass = "SyncPulse" THEN last.d2 ELSE last.dp

(* The invariant: the fields are the registers of when the slice began,    *)
(* moved by the calls that have come; or all at reset.                     *)
BitsInv ==
  /\ BitsTypes
  /\ stage = "slice" => in_reset = last.rst
  /\ last.rst => LastAtReset
  /\ last.rst \/ in_reset => BitsAtReset
  /\ ~last.rst /\ ~in_reset => Sent /\ IF ticked THEN \E dst \in {"none", "posedge", "negedge"} : Sampled(dst)
                                                 ELSE Sampled("none")

(* Viewer and copy agree; after a dump the viewer has the object.          *)
BitsWaveInv ==
  /\ DOMAIN back = BitFields
  /\ shown # X => \A g \in BitFlops : shown[g] = back[g]
  /\ stage = "dumped" /\ shown # X => \A g \in BitFlops : shown[g] = bits[g]

(* After the reset with which a simulation begins.                         *)
LEMMA BitsStart == Bits!BluesimBitsInit => BitsInv /\ BitsWaveInv /\ Bits!Verilog!BitsInit
<1> SUFFICES ASSUME Bits!BluesimBitsInit PROVE BitsInv /\ BitsWaveInv /\ Bits!Verilog!BitsInit
  OBVIOUS
<1> DEFINE r == BitReset
<1>1. bclass \in BitClasses /\ in_reset = TRUE /\ stage = "slice" /\ called = FALSE /\ dCLK = FALSE /\ ticked = FALSE
      /\ shown = X
  BY DEF Bits!BluesimBitsInit, BitClasses
<1>2. r \in {0, 1}
  BY DEF BitReset, Bits!ResetOf
<1>3. bits = [dSyncReg1 |-> r, dSyncReg2 |-> r, dSyncPulse |-> r,
              sSyncReg |-> [value |-> r, prev_value |-> r, written_at |-> FALSE]]
  BY DEF Bits!BluesimBitsInit, Bits!AllAt, Bits!NewSyncVar, BitReset
<1>5. DOMAIN back = BitFields
  BY DEF Bits!BluesimBitsInit, Bits!AllAt, BitFields, BitFlops
<1>0. last = Bits!Flops(TRUE, bits)
  BY DEF Bits!BluesimBitsInit
<1> HIDE DEF r
<1>4. last = [rst |-> TRUE, s |-> r, d1 |-> r, d2 |-> r, dp |-> r]
  BY <1>0, <1>3 DEF Bits!Flops, Bits!probe
<1>6. BitsInv
  BY <1>1, <1>2, <1>3, <1>4 DEF BitsInv, BitsTypes, FieldsOf, FlopsOf, VarOf, BitsAtReset, LastAtReset, r
<1>7. Bits!Verilog!BitsInit
  BY <1>1, <1>4 DEF Bits!Verilog!BitsInit, Bits!Verilog!ResetBit, r, BitReset, Bits!ResetOf, BitClasses
<1>8. QED
  BY <1>1, <1>5, <1>6, <1>7 DEF BitsWaveInv

(* A pulse flips what the flop was when the slice began: it has not been   *)
(* written before.                                                         *)
LEMMA SendKeeps == ASSUME BitsInv, NEW x \in {0, 1}, Bits!METH_send(x) PROVE BitsInv'
<1> DEFINE s == bits.sSyncReg
           y == IF bclass = "SyncPulse" THEN (IF Bits!read(s) = 0 THEN 1 ELSE 0) ELSE x
<1>1. /\ stage = "slice" /\ ~called /\ called' = TRUE /\ stage' = stage /\ in_reset' = in_reset
      /\ bclass' = bclass /\ last' = last /\ dCLK' = dCLK /\ ticked' = ticked
      /\ in_reset => bits' = bits
      /\ ~in_reset => bits' = [bits EXCEPT !.sSyncReg = Bits!write(s, y)]
  BY DEF Bits!METH_send
<1>2. BitReset' = BitReset
  BY <1>1 DEF BitReset, Bits!ResetOf
<1>3. CASE in_reset
  BY <1>1, <1>2, <1>3 DEF BitsInv, BitsTypes, BitsAtReset, LastAtReset
<1>4. CASE ~in_reset
  <2>1. s \in VarOf({0, 1}) /\ y \in {0, 1} /\ (bclass = "SyncPulse" => y = 1 - s.value) /\ s.value = last.s
        /\ last.rst = FALSE
    BY <1>1, <1>4 DEF BitsInv, BitsTypes, FieldsOf, VarOf, Bits!read, Sent, FlopsOf
  <2> HIDE DEF y
  <2>2. bits' = [dSyncReg1 |-> bits.dSyncReg1, dSyncReg2 |-> bits.dSyncReg2, dSyncPulse |-> bits.dSyncPulse,
                 sSyncReg |-> [value |-> y, prev_value |-> s.value, written_at |-> TRUE]]
    BY <1>1, <1>4 DEF Bits!write, BitsInv, BitsTypes, FieldsOf
  <2>3. BitsTypes'
    BY <1>1, <2>1, <2>2 DEF BitsInv, BitsTypes, FieldsOf, VarOf
  <2>4. Sent'
    BY <1>1, <2>1, <2>2 DEF Sent
  <2>5. \A dst \in {"none", "posedge", "negedge"} : Sampled(dst) => Sampled(dst)'
    BY <1>1, <2>2 DEF Sampled
  <2>6. QED
    BY <1>1, <1>2, <1>4, <2>1, <2>3, <2>4, <2>5 DEF BitsInv, LastAtReset
<1>5. QED
  BY <1>3, <1>4

(* The destination reads the value of before, sent already or not.         *)
LEMMA DstEdgeKeeps == ASSUME BitsInv, NEW gate \in BOOLEAN, Bits!DstEdge(gate) PROVE BitsInv'
<1>1. /\ stage = "slice" /\ ~ticked /\ ticked' = TRUE /\ stage' = stage /\ in_reset' = in_reset
      /\ bclass' = bclass /\ last' = last /\ dCLK' = ~dCLK /\ called' = called
      /\ bits' = IF gate /\ (bclass = "SyncBit15" \/ ~dCLK) THEN Bits!clk_dst(bits, ~dCLK) ELSE bits
  BY DEF Bits!DstEdge
<1>2. BitReset' = BitReset /\ BitsTypes /\ in_reset = last.rst
  BY <1>1 DEF BitReset, Bits!ResetOf, BitsInv
<1>3. CASE bits' = bits
  BY <1>1, <1>2, <1>3 DEF BitsInv, BitsTypes, BitsAtReset, LastAtReset, Sent, Sampled
<1>4. CASE gate /\ (bclass = "SyncBit15" \/ ~dCLK)
  <2> DEFINE at  == Bits!read(bits.sSyncReg)
             dst == IF dCLK THEN "negedge" ELSE "posedge"
             d1 == IF dst = (IF bclass = "SyncBit15" THEN "negedge" ELSE "posedge") THEN at ELSE bits.dSyncReg1
             d2 == IF dst = "posedge" /\ bclass # "SyncBit1" THEN bits.dSyncReg1 ELSE bits.dSyncReg2
             dp == IF dst = "posedge" /\ bclass = "SyncPulse" THEN bits.dSyncReg2 ELSE bits.dSyncPulse
  <2>1. at \in {0, 1} /\ (~in_reset => at = last.s) /\ (in_reset => at = BitReset)
    BY <1>2 DEF BitsInv, BitsTypes, FieldsOf, VarOf, Bits!read, Sent, BitsAtReset, FlopsOf
  <2>2. bits' = [dSyncReg1 |-> d1, dSyncReg2 |-> d2, dSyncPulse |-> dp, sSyncReg |-> bits.sSyncReg]
    <3>1. bits' = Bits!clk_dst(bits, ~dCLK) /\ bits \in FieldsOf /\ bclass \in BitClasses /\ dCLK \in BOOLEAN
      BY <1>1, <1>2, <1>4 DEF BitsTypes
    <3> HIDE DEF at
    <3>2. CASE bclass = "SyncBit1"
      BY <3>1, <3>2, <1>4 DEF Bits!clk_dst, FieldsOf, at
    <3>3. CASE bclass = "SyncBit"
      BY <3>1, <3>3, <1>4 DEF Bits!clk_dst, FieldsOf, at
    <3>4. CASE bclass = "SyncBit15"
      BY <3>1, <3>4, <1>4 DEF Bits!clk_dst, FieldsOf, at
    <3>5. CASE bclass = "SyncPulse"
      BY <3>1, <3>5, <1>4 DEF Bits!clk_dst, FieldsOf, at
    <3>6. QED
      BY <3>1, <3>2, <3>3, <3>4, <3>5 DEF BitClasses
  <2> HIDE DEF at
  <2>3. BitsTypes'
    BY <1>1, <1>2, <2>1, <2>2 DEF BitsTypes, FieldsOf
  <2>4. CASE in_reset
    <3>1. BitsAtReset'
      BY <1>1, <1>2, <2>1, <2>2, <2>4 DEF BitsAtReset, BitsInv
    <3>2. QED
      BY <1>1, <1>2, <2>3, <2>4, <3>1 DEF BitsInv, LastAtReset
  <2>5. CASE ~in_reset
    <3>1. Sampled("none") /\ Sent
      BY <1>1, <1>2, <2>5 DEF BitsInv
    <3>2. PICK e \in {"none", "posedge", "negedge"} : e = dst
      OBVIOUS
    <3>3. Sampled(e)'
      BY <1>1, <2>1, <2>2, <2>5, <3>1, <3>2 DEF Sampled
    <3>4. Sent'
      BY <1>1, <2>2, <3>1 DEF Sent
    <3>5. QED
      BY <1>1, <1>2, <2>3, <2>5, <3>3, <3>4 DEF BitsInv
  <2>6. QED
    BY <2>4, <2>5
<1>5. QED
  BY <1>1, <1>3, <1>4

(* A reset that comes has every field at its value; one that goes, none.   *)
LEMMA ResetKeeps == ASSUME BitsInv, NEW asserted \in BOOLEAN, in_reset # asserted,
  Bits!reset_sRST(asserted) PROVE BitsInv'
<1> DEFINE r == BitReset
<1>1. /\ stage = "slice" /\ stage' = "settled" /\ in_reset' = asserted
      /\ bclass' = bclass /\ last' = last /\ dCLK' = dCLK /\ called' = called /\ ticked' = ticked
      /\ ~asserted => bits' = bits
      /\ asserted => bits' = [Bits!AllAt(r) EXCEPT !.sSyncReg = Bits!force(bits.sSyncReg, r)]
  BY DEF Bits!reset_sRST, BitReset
<1>2. BitReset' = BitReset /\ BitsTypes /\ in_reset = last.rst /\ r \in {0, 1}
  BY <1>1 DEF BitReset, Bits!ResetOf, BitsInv
<1>3. CASE ~asserted
  BY <1>1, <1>2, <1>3 DEF BitsInv, BitsTypes, BitsAtReset, LastAtReset
<1>4. CASE asserted
  <2> HIDE DEF r
  <2>1. bits' = [dSyncReg1 |-> r, dSyncReg2 |-> r, dSyncPulse |-> r,
                 sSyncReg |-> [value |-> r, prev_value |-> r, written_at |-> bits.sSyncReg.written_at]]
    BY <1>1, <1>2, <1>4 DEF Bits!AllAt, Bits!force, BitsTypes, FieldsOf, VarOf
  <2>2. BitsTypes'
    BY <1>1, <1>2, <2>1 DEF BitsTypes, FieldsOf, VarOf
  <2>3. BitsAtReset'
    BY <1>2, <2>1 DEF BitsAtReset, r
  <2>4. QED
    BY <1>1, <1>2, <1>4, <2>2, <2>3 DEF BitsInv, LastAtReset
<1>5. QED
  BY <1>3, <1>4

(* The next slice: the registers of the Verilog take one step. *)
LEMMA NextBitKeeps ==
  ASSUME BitsInv, Bits!NextSlice
  PROVE  BitsInv' /\ [Bits!Verilog!BitsNext]_(Bits!Verilog!bitVars)
<1> DEFINE s == bits.sSyncReg
<1>1. /\ stage' = "slice" /\ called' = FALSE /\ ticked' = FALSE
      /\ bclass' = bclass /\ in_reset' = in_reset /\ dCLK' = dCLK
      /\ bits' = [bits EXCEPT !.sSyncReg = Bits!Later(@)]
      /\ last' = Bits!Flops(in_reset, bits)
  BY DEF Bits!NextSlice
<1>2. BitReset' = BitReset /\ BitsTypes
  BY <1>1 DEF BitReset, Bits!ResetOf, BitsInv
<1>3. /\ s \in VarOf({0, 1}) /\ bits \in FieldsOf
      /\ bits.dSyncReg1 \in {0, 1} /\ bits.dSyncReg2 \in {0, 1} /\ bits.dSyncPulse \in {0, 1}
      /\ s.value \in {0, 1} /\ s.prev_value \in {0, 1}
      /\ in_reset \in BOOLEAN /\ last.rst \in BOOLEAN /\ called \in BOOLEAN
  BY <1>2 DEF BitsTypes, FieldsOf, VarOf, FlopsOf
<1>4. bits' = [dSyncReg1 |-> bits.dSyncReg1, dSyncReg2 |-> bits.dSyncReg2, dSyncPulse |-> bits.dSyncPulse,
               sSyncReg |-> [value |-> s.value, prev_value |-> s.prev_value, written_at |-> FALSE]]
  BY <1>1, <1>3 DEF Bits!Later, FieldsOf, VarOf
<1>5. last' = [rst |-> in_reset, s |-> s.value, d1 |-> bits.dSyncReg1, d2 |-> bits.dSyncReg2,
               dp |-> bits.dSyncPulse]
  BY <1>1 DEF Bits!Flops, Bits!probe
<1>6. BitsTypes'
  <2>1. bits' \in FieldsOf
    BY <1>3, <1>4 DEF FieldsOf, VarOf
  <2>2. last' \in FlopsOf
    BY <1>3, <1>5 DEF FlopsOf
  <2>3. QED
    BY <1>1, <1>2, <2>1, <2>2 DEF BitsTypes
<1>7. in_reset => BitsAtReset' /\ LastAtReset'
  BY <1>2, <1>4, <1>5 DEF BitsInv, BitsAtReset, LastAtReset
<1>8. Sent' /\ Sampled("none")'
  <2>1. bits.sSyncReg.written_at' = FALSE /\ bits.sSyncReg.value' = s.value /\ last.s' = s.value
    BY <1>4, <1>5
  <2>2. Sent'
    BY <1>1, <2>1 DEF Sent
  <2>3. Sampled("none")'
    BY <1>4, <1>5 DEF Sampled
  <2>4. QED
    BY <2>2, <2>3
<1>9. BitsInv'
  BY <1>1, <1>5, <1>6, <1>7, <1>8 DEF BitsInv
<1>10. CASE in_reset
  <2>1. Bits!Verilog!AssertReset
    BY <1>1, <1>2, <1>5, <1>7, <1>10 DEF Bits!Verilog!AssertReset, Bits!Verilog!ResetBit,
      LastAtReset, BitReset, Bits!ResetOf
  <2>2. QED
    BY <1>9, <2>1 DEF Bits!Verilog!BitsNext
<1>11. CASE ~in_reset /\ last.rst
  <2>1. Bits!Verilog!ReleaseReset
    BY <1>1, <1>2, <1>5, <1>11 DEF Bits!Verilog!ReleaseReset, BitsInv, BitsAtReset, LastAtReset
  <2>2. QED
    BY <1>9, <2>1 DEF Bits!Verilog!BitsNext
<1>12. CASE ~in_reset /\ ~last.rst
  <2>1. Sent /\ \E dst \in {"none", "posedge", "negedge"} : Sampled(dst)
    BY <1>12, <1>2 DEF BitsInv, BitsTypes
  <2>2. PICK dst \in {"none", "posedge", "negedge"} : Sampled(dst)
    BY <2>1
  <2>3. Bits!Verilog!SrcBlock(called, s.value)
    BY <1>5, <2>1 DEF Bits!Verilog!SrcBlock, Sent
  <2>4. Bits!Verilog!DstBlocks(dst)
    BY <1>5, <2>2 DEF Bits!Verilog!DstBlocks, Sampled
  <2>5. Bits!Verilog!Edges(called, s.value, dst)
    <3>1. last.rst' = last.rst
      BY <1>3, <1>5, <1>12
    <3>2. QED
      BY <1>1, <1>12, <2>3, <2>4, <3>1 DEF Bits!Verilog!Edges
  <2>6. called \in BOOLEAN /\ s.value \in {0, 1}
    BY <1>2, <1>3 DEF BitsTypes, VarOf
  <2>7. QED
    BY <1>9, <2>5, <2>6 DEF Bits!Verilog!BitsNext
<1>13. QED
  BY <1>10, <1>11, <1>12

(* A dump leaves the object alone.                                         *)
LEMMA DumpKeeps ==
  ASSUME BitsInv, \/ \E changes \in BOOLEAN : Bits!dump_VCD(changes)
                  \/ Bits!dump_XS
  PROVE  BitsInv'
<1>1. /\ stage' = "dumped" /\ called' = called /\ ticked' = ticked
      /\ bclass' = bclass /\ in_reset' = in_reset /\ dCLK' = dCLK /\ bits' = bits /\ last' = last
  BY DEF Bits!dump_VCD, Bits!dump_XS
<1>2. BitReset' = BitReset
  BY <1>1 DEF BitReset, Bits!ResetOf
<1>3. QED
  BY <1>1, <1>2 DEF BitsInv, BitsTypes, BitsAtReset, LastAtReset, Sent, Sampled

(* A dump writes what differs and copies it, so viewer and copy agree.     *)
LEMMA DumpShows ==
  ASSUME BitsInv, BitsWaveInv, NEW changes \in BOOLEAN, Bits!dump_VCD(changes)
  PROVE  BitsWaveInv'
<1>1. /\ stage' = "dumped" /\ bits' = bits /\ (changes => shown # X)
      /\ DOMAIN bits = BitFields
  BY DEF Bits!dump_VCD, BitsInv, BitsTypes, FieldsOf, BitFields, BitFlops
<1>2. PICK differs : /\ \A g \in BitFlops : g \in differs <=> ~changes \/ bits[g] # back[g]
                     /\ shown' = [g \in BitFields |-> IF g \in differs THEN Bits!Signals(bits)[g] ELSE shown[g]]
                     /\ back' = [g \in BitFields |-> IF g \in differs THEN bits[g] ELSE back[g]]
  <2> DEFINE D == {g \in BitFields : ~changes \/ Bits!Signals(bits)[g] # Bits!Signals(back)[g]}
  <2>1. \A g \in BitFlops : Bits!Signals(bits)[g] = bits[g] /\ Bits!Signals(back)[g] = back[g] /\ g \in BitFields
    BY <1>1 DEF Bits!Signals, BitFields, BitFlops, BitsWaveInv
  <2>2. \A g \in BitFlops : g \in D <=> ~changes \/ bits[g] # back[g]
    BY <2>1
  <2>3. /\ shown' = [g \in BitFields |-> IF g \in D THEN Bits!Signals(bits)[g] ELSE shown[g]]
        /\ back' = [g \in BitFields |-> IF g \in D THEN bits[g] ELSE back[g]]
    BY <1>1 DEF Bits!dump_VCD
  <2> HIDE DEF D
  <2>4. QED
    BY <2>2, <2>3
<1>3. \A g \in BitFlops : Bits!Signals(bits)[g] = bits[g] /\ g \in BitFields
  BY <1>1 DEF Bits!Signals, BitFields, BitFlops
<1>4. DOMAIN back' = BitFields
  BY <1>2
<1>5. ASSUME NEW g \in BitFlops
      PROVE  shown'[g] = bits[g] /\ back'[g] = bits[g]
  <2>1. CASE g \in differs
    BY <1>2, <1>3, <2>1
  <2>2. CASE g \notin differs
    BY <1>1, <1>2, <1>3, <2>2 DEF BitsWaveInv
  <2>3. QED
    BY <2>1, <2>2
<1>6. QED
  BY <1>1, <1>4, <1>5 DEF BitsWaveInv

(* Nothing but a dump writes to the viewer.                                *)
LEMMA WaveKeeps ==
  ASSUME BitsInv, BitsWaveInv, Bits!BluesimBitsNext
  PROVE  BitsWaveInv'
<1>1. CASE \E x \in {0, 1} : Bits!METH_send(x)
  BY <1>1 DEF Bits!METH_send, Bits!bitsWave, BitsWaveInv
<1>2. CASE \E gate \in BOOLEAN : Bits!DstEdge(gate)
  BY <1>2 DEF Bits!DstEdge, Bits!bitsWave, BitsWaveInv
<1>3. CASE \E asserted \in BOOLEAN : in_reset # asserted /\ Bits!reset_sRST(asserted)
  BY <1>3 DEF Bits!reset_sRST, Bits!bitsWave, BitsWaveInv
<1>4. CASE \E changes \in BOOLEAN : Bits!dump_VCD(changes)
  BY <1>4, DumpShows
<1>5. CASE Bits!dump_XS
  BY <1>5 DEF Bits!dump_XS, BitsWaveInv
<1>6. CASE Bits!NextSlice
  <2>1. stage' = "slice" /\ shown' = shown /\ back' = [back EXCEPT !.sSyncReg = Bits!Later(@)]
    BY <1>6 DEF Bits!NextSlice
  <2>2. DOMAIN back' = BitFields /\ \A g \in BitFlops : back'[g] = back[g]
    BY <2>1 DEF BitsWaveInv, BitFields, BitFlops
  <2>3. QED
    BY <2>1, <2>2 DEF BitsWaveInv
<1>7. QED
  BY <1>1, <1>2, <1>3, <1>4, <1>5, <1>6 DEF Bits!BluesimBitsNext

(* Each step of the class is a step of the registers, or none.             *)
LEMMA BitsStep ==
  ASSUME BitsInv, BitsWaveInv, Bits!BluesimBitsNext
  PROVE  BitsInv' /\ BitsWaveInv' /\ [Bits!Verilog!BitsNext]_(Bits!Verilog!bitVars)
<1>1. CASE Bits!NextSlice
  BY <1>1, NextBitKeeps, WaveKeeps
<1>2. CASE ~Bits!NextSlice
  <2>1. BitsInv'
    BY <1>2, SendKeeps, DstEdgeKeeps, ResetKeeps, DumpKeeps DEF Bits!BluesimBitsNext
  <2>2. last' = last /\ bclass' = bclass
    BY <1>2 DEF Bits!BluesimBitsNext, Bits!METH_send, Bits!DstEdge, Bits!reset_sRST, Bits!dump_VCD,
      Bits!dump_XS
  <2>3. UNCHANGED Bits!Verilog!bitVars
    BY <2>2 DEF Bits!Verilog!bitVars
  <2>4. QED
    BY <2>1, <2>3, WaveKeeps
<1>3. QED
  BY <1>1, <1>2

(* In a behaviour of one class, the other classes stand still.             *)
LEMMA BitsAlone ==
  ASSUME which = "Bits", [MCNext]_allVars
  PROVE  /\ which' = which
         /\ Bits!BluesimBitsNext \/ UNCHANGED Bits!bluesimBitsVars
<1>1. CASE UNCHANGED allVars
  BY <1>1 DEF allVars, crossVars, bitsVars, Bits!bluesimBitsVars, Bits!frame, Bits!bitsWave
<1>2. CASE MCNext
  BY <1>2 DEF MCNext, Crossing
<1>3. QED
  BY <1>1, <1>2

(* Steps of nobody.                                                        *)
LEMMA BitsUnmoved ==
  ASSUME BitsInv, BitsWaveInv, UNCHANGED Bits!bluesimBitsVars
  PROVE  BitsInv' /\ BitsWaveInv' /\ UNCHANGED Bits!Verilog!bitVars
<1>1. UNCHANGED <<bclass, bits, in_reset, stage, called, dCLK, ticked, last, back, shown>>
  BY DEF Bits!bluesimBitsVars, Bits!frame, Bits!bitsWave
<1>2. BitReset' = BitReset /\ UNCHANGED Bits!Verilog!bitVars
  BY <1>1 DEF BitReset, Bits!ResetOf, Bits!Verilog!bitVars
<1>3. QED
  BY <1>1, <1>2 DEF BitsInv, BitsWaveInv, BitsTypes, BitsAtReset, LastAtReset, Sent, Sampled

(* In a behaviour of these classes.                                        *)
WhichBits == which = "Bits" => BitsInv /\ BitsWaveInv

(* The invariant of a behaviour of this class.                             *)
LEMMA BitsInvariant == MCSpec => []WhichBits
<1>1. MCInit => WhichBits
  BY BitsStart DEF MCInit, WhichBits
<1>2. WhichBits /\ [MCNext]_allVars => WhichBits'
  <2> SUFFICES ASSUME WhichBits, [MCNext]_allVars, which' = "Bits"
               PROVE  BitsInv' /\ BitsWaveInv'
    BY DEF WhichBits
  <2>1. which = "Bits"
    BY DEF MCNext, allVars
  <2>2. QED
    BY <2>1, BitsAlone, BitsStep, BitsUnmoved DEF WhichBits
<1>3. QED
  BY <1>1, <1>2, PTL DEF MCSpec

(* MOD_SyncBit, MOD_SyncBit1, MOD_SyncBit15 and MOD_SyncPulse do, slice by *)
(* slice, what SyncBit.v, SyncBit1.v, SyncBit15.v and SyncPulse.v do,      *)
(* whatever the order of the calls (bs_prim_mod_synchronizers.h:67-455).   *)
THEOREM BitsAreVerilog == MCSpec => BitsRefined
<1>1. MCInit => (which = "Bits" => Bits!Verilog!BitsInit)
  BY BitsStart DEF MCInit
<1>2. WhichBits /\ [MCNext]_allVars => [which = "Bits" => [Bits!Verilog!BitsNext]_(Bits!Verilog!bitVars)]_allVars
  BY BitsAlone, BitsStep, BitsUnmoved DEF WhichBits
<1>3. QED
  BY BitsInvariant, <1>1, <1>2, PTL DEF MCSpec, BitsRefined

-----------------------------------------------------------------------------
(* The handshake and the register.                                         *)

(* The fields of the object, and what a slice begins with.                 *)
HandshakeFields ==
  [dSyncReg1 : {0, 1}, dSyncReg2 : VarOf({0, 1}), dLastState : VarOf({0, 1}), sToggleReg : VarOf({0, 1}),
   sSyncReg1 : {0, 1}, sSyncReg2 : {0, 1}, sRDY : BOOLEAN, en : BOOLEAN, did_send : BOOLEAN,
   pulsing : BOOLEAN, in_reset : BOOLEAN]
HandshakeRegs ==
  [dSyncReg1 : {0, 1}, dSyncReg2 : {0, 1}, dLastState : {0, 1}, sToggleReg : {0, 1}, sSyncReg1 : {0, 1},
   sSyncReg2 : {0, 1}, sRDY : {0, 1}, sEN : {0, 1}, sRST : {0, 1}, dPulse : {0, 1}]

RegTypes(D) ==
  /\ sync \in HandshakeFields /\ sDataSyncIn \in VarOf(D) /\ dD_OUT \in D
  /\ stage \in {"slice", "settled", "dumped"} /\ edges \subseteq {"src", "dst"} /\ w \in D \cup {None}
  /\ last \in [rst : BOOLEAN, regs : HandshakeRegs, sent : Nat, seen : Nat, sDataSyncIn : D, dD_OUT : D,
               dEdges : 0 .. 3]

(* One wave in the ring of the Verilog registers, as in SyncHandshake.     *)
OneWaveIn(d, r) ==
  LET ack == IF d THEN r.dLastState ELSE r.dSyncReg2 IN
  /\ r.sToggleReg # r.dSyncReg1 => /\ r.dSyncReg1 = r.dSyncReg2 /\ ack = r.dSyncReg2
                                   /\ r.sSyncReg1 = ack /\ r.sSyncReg2 = ack
  /\ r.dSyncReg1 # r.dSyncReg2 => /\ r.dLastState = r.dSyncReg2
                                  /\ r.sSyncReg1 = r.dSyncReg2 /\ r.sSyncReg2 = r.dSyncReg2
  /\ r.dSyncReg2 # ack => r.sSyncReg1 = ack /\ r.sSyncReg2 = ack
  /\ ack # r.sSyncReg1 => r.sSyncReg2 = r.sSyncReg1

(* In reset.                                                               *)
SyncAtReset(i) ==
  /\ sync.dSyncReg1 = i /\ sync.sSyncReg1 = 1 - i /\ sync.sSyncReg2 = 1 - i
  /\ Still(sync.dSyncReg2, i) /\ Still(sync.dLastState, i) /\ Still(sync.sToggleReg, i)
  /\ Still(sDataSyncIn, Zero) /\ dD_OUT = Zero
SyncRegsAtReset(i) ==
  /\ last.regs.dSyncReg1 = i /\ last.regs.dSyncReg2 = i /\ last.regs.dLastState = i
  /\ last.regs.sToggleReg = i /\ last.regs.sSyncReg1 = 1 - i /\ last.regs.sSyncReg2 = 1 - i
  /\ last.sDataSyncIn = Zero /\ last.dD_OUT = Zero
  /\ last.sent = 0 /\ last.seen = 0 /\ last.dEdges = 0

(* What the calls of a slice have done so far.                             *)
DataMoved == IF w # None THEN Rewritten(sDataSyncIn, w, last.sDataSyncIn) ELSE Unwritten(sDataSyncIn, last.sDataSyncIn)
SyncSrcMoved(d) ==
  LET r == last.regs IN
  /\ IF "src" \in edges
       THEN sync.sSyncReg1 = (IF d THEN r.dLastState ELSE r.dSyncReg2) /\ sync.sSyncReg2 = r.sSyncReg1
       ELSE sync.sSyncReg1 = r.sSyncReg1 /\ sync.sSyncReg2 = r.sSyncReg2
  /\ IF "src" \in edges /\ w # None THEN Rewritten(sync.sToggleReg, 1 - r.sToggleReg, r.sToggleReg)
                                    ELSE Unwritten(sync.sToggleReg, r.sToggleReg)
SyncDstMoved ==
  LET r == last.regs IN
  IF "dst" \in edges
    THEN /\ sync.dSyncReg1 = r.sToggleReg
         /\ Rewritten(sync.dSyncReg2, r.dSyncReg1, r.dSyncReg2)
         /\ Rewritten(sync.dLastState, r.dSyncReg2, r.dLastState)
         /\ dD_OUT = IF r.dSyncReg2 # r.dLastState THEN last.sDataSyncIn ELSE last.dD_OUT
    ELSE /\ sync.dSyncReg1 = r.dSyncReg1
         /\ Unwritten(sync.dSyncReg2, r.dSyncReg2) /\ Unwritten(sync.dLastState, r.dLastState)
         /\ dD_OUT = last.dD_OUT

(* A write, and what it has left for the edge of its clock to do.          *)
Inputs ==
  /\ sync.en <=> w # None /\ "src" \notin edges
  /\ "src" \in edges => (sync.did_send <=> w # None)
  /\ stage # "slice" => (w # None => "src" \in edges)
  /\ w # None => ~last.rst /\ last.regs.sSyncReg2 = last.regs.sToggleReg /\ last.sent < MaxSends

(* sRDY and dPulse, which are fields here and wires there.                 *)
Outputs ==
  /\ sync.sRDY <=> sync.sSyncReg2 = sync.sToggleReg.value
  /\ sync.pulsing <=> sync.dSyncReg2.value # sync.dLastState.value

(* The invariant, as for bits: moved by the calls, or all at reset; and    *)
(* one wave in the ring, which the field sRDY relies on.                   *)
RegInv(d, i, D) ==
  /\ RegTypes(D)
  /\ stage = "slice" => (sync.in_reset <=> last.rst)
  /\ last.rst => SyncRegsAtReset(i)
  /\ last.rst \/ sync.in_reset => SyncAtReset(i)
  /\ ~last.rst /\ ~sync.in_reset => DataMoved /\ SyncSrcMoved(d) /\ SyncDstMoved
  /\ OneWaveIn(d, last.regs)
  /\ Inputs /\ Outputs

(* Viewer and copy agree on all but sRST, which is never copied.           *)
SignalNames == {"dSyncReg1", "dSyncReg2", "dLastState", "sToggleReg", "sSyncReg1", "sSyncReg2", "sRDY", "sEN",
                "dPulse", "sRST", "dD_OUT"}
RegWave(sig) ==
  /\ shown # X => \A g \in SignalNames \ {"sRST"} : shown[g] = back[g]
  /\ stage = "dumped" /\ shown # X => \A g \in SignalNames \ {"sRST"} : shown[g] = sig[g]

(* After the reset with which a simulation begins.                         *)
LEMMA RegStart ==
  ASSUME NEW d \in BOOLEAN, NEW i \in {0, 1}, NEW D, Zero \in D, None \notin D, SyncReg(d, i, D)!SyncRegInit
  PROVE  RegInv(d, i, D) /\ RegWave(SyncReg(d, i, D)!Signals)
<1>1. /\ sync = [dSyncReg1 |-> i, dSyncReg2 |-> [value |-> i, prev_value |-> i, written_at |-> FALSE],
                 dLastState |-> [value |-> i, prev_value |-> i, written_at |-> FALSE],
                 sToggleReg |-> [value |-> i, prev_value |-> i, written_at |-> FALSE],
                 sSyncReg1 |-> 1 - i, sSyncReg2 |-> 1 - i, sRDY |-> FALSE, en |-> FALSE,
                 did_send |-> FALSE, pulsing |-> FALSE, in_reset |-> TRUE]
      /\ sDataSyncIn = [value |-> Zero, prev_value |-> Zero, written_at |-> FALSE] /\ dD_OUT = Zero
      /\ stage = "slice" /\ edges = {} /\ w = None /\ shown = X
  BY DEF SyncReg!SyncRegInit, SyncReg!H!NewHandshake, SyncReg!H!NewSyncVar
<1>2. last = SyncReg(d, i, D)!Hardware(0, 0, 0)
  BY DEF SyncReg!SyncRegInit
<1>3. last = [rst |-> TRUE, regs |-> SyncReg(d, i, D)!H!HandshakeSignals(sync), sent |-> 0, seen |-> 0,
              sDataSyncIn |-> Zero, dD_OUT |-> Zero, dEdges |-> 0]
  BY <1>1, <1>2 DEF SyncReg!Hardware, SyncReg!H!probe
<1>4. last.regs = [dSyncReg1 |-> i, dSyncReg2 |-> i, dLastState |-> i, sToggleReg |-> i, sSyncReg1 |-> 1 - i,
                   sSyncReg2 |-> 1 - i, sRDY |-> 0, sEN |-> 0, sRST |-> 0, dPulse |-> 0]
  BY <1>1, <1>3 DEF SyncReg!H!HandshakeSignals, SyncReg!H!probe, SyncReg!H!Flag
<1>5. last.regs \in HandshakeRegs /\ OneWaveIn(d, last.regs)
  BY <1>4 DEF HandshakeRegs, OneWaveIn
<1>6. RegTypes(D)
  <2>1. sync \in HandshakeFields
    BY <1>1 DEF HandshakeFields, VarOf
  <2>2. sDataSyncIn \in VarOf(D)
    BY <1>1 DEF VarOf
  <2>3. QED
    BY <1>1, <1>3, <1>5, <2>1, <2>2 DEF RegTypes
<1>7. SyncAtReset(i) /\ SyncRegsAtReset(i)
  BY <1>1, <1>3, <1>4 DEF SyncAtReset, SyncRegsAtReset, Still
<1>8. Inputs /\ Outputs /\ (sync.in_reset <=> last.rst) /\ last.rst
  BY <1>1, <1>3 DEF Inputs, Outputs
<1>9. QED
  BY <1>1, <1>5, <1>6, <1>7, <1>8 DEF RegInv, RegWave

(* A write comes before the edge of its clock, when the ring is at rest.   *)
LEMMA WriteKeeps ==
  ASSUME NEW d \in BOOLEAN, NEW i \in {0, 1}, NEW D, Zero \in D, None \notin D, RegInv(d, i, D),
    NEW x \in D, SyncReg(d, i, D)!METH_write(x)
  PROVE  RegInv(d, i, D)'
<1>1. /\ stage = "slice" /\ "src" \notin edges /\ w = None /\ ~sync.in_reset /\ sync.sRDY /\ last.sent < MaxSends
      /\ w' = x /\ dD_OUT' = dD_OUT /\ stage' = stage /\ edges' = edges /\ last' = last
      /\ sDataSyncIn' = [value |-> x, prev_value |-> sDataSyncIn.value, written_at |-> TRUE]
      /\ sync' = [sync EXCEPT !.en = TRUE]
  BY DEF SyncReg!METH_write, SyncReg!METH_RDY_write, SyncReg!H!METH_RDY_send, SyncReg!H!METH_send,
    SyncReg!H!write
<1>2. sync \in HandshakeFields /\ sDataSyncIn \in VarOf(D) /\ ~last.rst
  BY <1>1 DEF RegInv, RegTypes
<1>3. /\ sync' \in HandshakeFields /\ sync'.en
      /\ \A g \in DOMAIN sync \ {"en"} : sync'[g] = sync[g]
  BY <1>1, <1>2 DEF HandshakeFields
<1>4. /\ sync'.dSyncReg1 = sync.dSyncReg1 /\ sync'.dSyncReg2 = sync.dSyncReg2
      /\ sync'.dLastState = sync.dLastState /\ sync'.sToggleReg = sync.sToggleReg
      /\ sync'.sSyncReg1 = sync.sSyncReg1 /\ sync'.sSyncReg2 = sync.sSyncReg2
      /\ sync'.sRDY = sync.sRDY /\ sync'.pulsing = sync.pulsing /\ sync'.in_reset = sync.in_reset
  BY <1>1, <1>2 DEF HandshakeFields
<1>5. DataMoved /\ SyncSrcMoved(d) /\ SyncDstMoved
  BY <1>1, <1>2 DEF RegInv
<1>6. RegTypes(D)'
  BY <1>1, <1>2, <1>3 DEF RegInv, RegTypes, VarOf
<1>7. DataMoved' /\ SyncSrcMoved(d)' /\ SyncDstMoved'
  BY <1>1, <1>4, <1>5 DEF DataMoved, SyncSrcMoved, SyncDstMoved, Rewritten, Unwritten
<1>8. last.regs.sSyncReg2 = last.regs.sToggleReg
  BY <1>1, <1>5 DEF RegInv, Outputs, SyncSrcMoved, Unwritten
<1>9. Inputs' /\ Outputs'
  BY <1>1, <1>2, <1>3, <1>4, <1>8 DEF RegInv, Inputs, Outputs
<1>10. QED
  BY <1>1, <1>2, <1>4, <1>6, <1>7, <1>9 DEF RegInv

(* The clock function of the source reads from the destination what was    *)
(* there before the slice, whether the destination's has been called or    *)
(* not; and its field sRDY can trust the first return flop, for a pulse is *)
(* sent only when no wave is in the ring.                                  *)
LEMMA SrcKeeps ==
  ASSUME NEW d \in BOOLEAN, NEW i \in {0, 1}, NEW D, Zero \in D, None \notin D, RegInv(d, i, D),
    SyncReg(d, i, D)!clk_src
  PROVE  RegInv(d, i, D)'
<1> DEFINE r   == last.regs
           tog == SyncReg(d, i, D)!H!read(sync.sToggleReg)
           ack == SyncReg(d, i, D)!H!read(IF d THEN sync.dLastState ELSE sync.dSyncReg2)
           new == IF sync.en THEN [value |-> 1 - tog, prev_value |-> sync.sToggleReg.value, written_at |-> TRUE]
                             ELSE sync.sToggleReg
           rdy == ~sync.en /\ (IF sync.in_reset THEN sync.sSyncReg2 ELSE sync.sSyncReg1) = tog
<1>1. /\ stage = "slice" /\ "src" \notin edges /\ edges' = edges \cup {"src"}
      /\ w' = w /\ dD_OUT' = dD_OUT /\ stage' = stage /\ last' = last /\ sDataSyncIn' = sDataSyncIn
  BY DEF SyncReg!clk_src
<1>2. /\ sync \in HandshakeFields /\ sDataSyncIn \in VarOf(D) /\ (sync.in_reset <=> last.rst)
      /\ sync.sToggleReg \in VarOf({0, 1}) /\ sync.dLastState \in VarOf({0, 1})
      /\ sync.dSyncReg2 \in VarOf({0, 1}) /\ sync.en \in BOOLEAN /\ r \in HandshakeRegs
      /\ (sync.en <=> w # None) /\ OneWaveIn(d, r)
  BY <1>1 DEF RegInv, RegTypes, HandshakeFields, Inputs
<1>3. sync' = [sync EXCEPT !.sSyncReg1 = IF sync.in_reset THEN @ ELSE ack,
                           !.sSyncReg2 = IF sync.in_reset THEN @ ELSE sync.sSyncReg1,
                           !.sToggleReg = new, !.sRDY = rdy, !.did_send = sync.en, !.en = FALSE]
  BY DEF SyncReg!clk_src, SyncReg!H!clk_src, SyncReg!H!write
<1>4. tog \in {0, 1} /\ ack \in {0, 1} /\ new \in VarOf({0, 1}) /\ rdy \in BOOLEAN
  <2>1. tog \in {0, 1}
    BY <1>2 DEF VarOf, SyncReg!H!read
  <2>2. ack \in {0, 1}
    BY <1>2 DEF VarOf, SyncReg!H!read
  <2> HIDE DEF tog
  <2>3. new \in VarOf({0, 1})
    BY <1>2, <2>1 DEF VarOf
  <2>4. QED
    BY <2>1, <2>2, <2>3
<1> HIDE DEF tog, ack, new, rdy
<1>5. /\ sync' \in HandshakeFields
      /\ sync'.dSyncReg1 = sync.dSyncReg1 /\ sync'.dSyncReg2 = sync.dSyncReg2
      /\ sync'.dLastState = sync.dLastState /\ sync'.sToggleReg = new
      /\ sync'.sSyncReg1 = (IF sync.in_reset THEN sync.sSyncReg1 ELSE ack)
      /\ sync'.sSyncReg2 = (IF sync.in_reset THEN sync.sSyncReg2 ELSE sync.sSyncReg1)
      /\ sync'.sRDY = rdy /\ sync'.pulsing = sync.pulsing /\ sync'.in_reset = sync.in_reset
      /\ sync'.did_send = sync.en /\ sync'.en = FALSE
  BY <1>2, <1>3, <1>4 DEF HandshakeFields
<1>6. RegTypes(D)'
  BY <1>1, <1>5 DEF RegInv, RegTypes
<1>7. Inputs'
  BY <1>1, <1>2, <1>5 DEF RegInv, Inputs
<1>8. CASE last.rst
  <2>1. SyncAtReset(i) /\ w = None /\ sync.en = FALSE
    BY <1>2, <1>8 DEF RegInv, Inputs
  <2>2. tog = i
    BY <1>2, <2>1 DEF tog, SyncAtReset, Rewritten, Unwritten, Still, VarOf, SyncReg!H!read
  <2>3. SyncAtReset(i)'
    BY <1>1, <1>2, <1>5, <1>8, <2>1 DEF SyncAtReset, new
  <2>4. rdy = FALSE
    BY <1>2, <1>8, <2>1, <2>2 DEF rdy, SyncAtReset
  <2>5. Outputs'
    BY <1>1, <1>2, <1>5, <2>1, <2>3, <2>4 DEF RegInv, Outputs, SyncAtReset, Still
  <2>6. QED
    BY <1>1, <1>2, <1>5, <1>6, <1>7, <1>8, <2>3, <2>5 DEF RegInv, SyncRegsAtReset
<1>9. CASE ~last.rst
  <2>1. DataMoved /\ SyncSrcMoved(d) /\ SyncDstMoved
    BY <1>2, <1>9 DEF RegInv
  <2>2. tog = r.sToggleReg /\ sync.sToggleReg.value = r.sToggleReg /\ sync.sSyncReg1 = r.sSyncReg1
    BY <1>1, <1>2, <2>1 DEF tog, SyncSrcMoved, Unwritten, Rewritten, Still, VarOf, SyncReg!H!read
  <2>3. ack = IF d THEN r.dLastState ELSE r.dSyncReg2
    BY <1>2, <2>1 DEF ack, SyncDstMoved, Rewritten, Unwritten, Still, VarOf, SyncReg!H!read
  <2>4. SyncSrcMoved(d)'
    BY <1>1, <1>2, <1>5, <1>9, <2>1, <2>2, <2>3 DEF SyncSrcMoved, new, Rewritten, Unwritten
  <2>5. DataMoved' /\ SyncDstMoved'
    BY <1>1, <1>5, <2>1 DEF DataMoved, SyncDstMoved, Rewritten, Unwritten
  <2>6. sync.en => r.sSyncReg1 = r.sToggleReg
    BY <1>2 DEF OneWaveIn, RegInv, Inputs
  <2>7. rdy <=> sync'.sSyncReg2 = new.value
    BY <1>2, <1>5, <1>9, <2>2, <2>6 DEF rdy, new, HandshakeRegs
  <2>8. Outputs'
    BY <1>2, <1>5, <2>7 DEF RegInv, Outputs
  <2>9. QED
    BY <1>1, <1>2, <1>5, <1>6, <1>7, <1>9, <2>4, <2>5, <2>8 DEF RegInv
<1>10. QED
  BY <1>8, <1>9

(* The clock function of the destination, likewise.                        *)
LEMMA DstKeeps ==
  ASSUME NEW d \in BOOLEAN, NEW i \in {0, 1}, NEW D, Zero \in D, None \notin D, RegInv(d, i, D),
    SyncReg(d, i, D)!clk_dst
  PROVE  RegInv(d, i, D)'
<1> DEFINE r    == last.regs
           tog  == SyncReg(d, i, D)!H!read(sync.sToggleReg)
           reg2 == SyncReg(d, i, D)!H!read(sync.dSyncReg2)
           past == SyncReg(d, i, D)!H!read(sync.dLastState)
           data == SyncReg(d, i, D)!H!read(sDataSyncIn)
           new2 == [value |-> sync.dSyncReg1, prev_value |-> sync.dSyncReg2.value, written_at |-> TRUE]
           newL == [value |-> reg2, prev_value |-> sync.dLastState.value, written_at |-> TRUE]
<1>1. /\ stage = "slice" /\ "dst" \notin edges /\ edges' = edges \cup {"dst"}
      /\ w' = w /\ stage' = stage /\ last' = last /\ sDataSyncIn' = sDataSyncIn
      /\ dD_OUT' = IF reg2 # past THEN data ELSE dD_OUT
  BY DEF SyncReg!clk_dst, SyncReg!H!METH_pulse
<1>2. /\ sync \in HandshakeFields /\ sDataSyncIn \in VarOf(D) /\ (sync.in_reset <=> last.rst)
      /\ sync.sToggleReg \in VarOf({0, 1}) /\ sync.dLastState \in VarOf({0, 1})
      /\ sync.dSyncReg2 \in VarOf({0, 1}) /\ sync.dSyncReg1 \in {0, 1}
      /\ OneWaveIn(d, r) /\ dD_OUT \in D
  BY <1>1 DEF RegInv, RegTypes, HandshakeFields
<1>3. sync' = [sync EXCEPT !.dLastState = newL, !.dSyncReg2 = new2, !.dSyncReg1 = tog,
                           !.pulsing = (reg2 # sync.dSyncReg1)]
  BY DEF SyncReg!clk_dst, SyncReg!H!clk_dst, SyncReg!H!write
<1>4. tog \in {0, 1} /\ reg2 \in {0, 1} /\ data \in D
  BY <1>2 DEF VarOf, SyncReg!H!read
<1> HIDE DEF tog, reg2, past, data
<1>5. new2 \in VarOf({0, 1}) /\ newL \in VarOf({0, 1})
  BY <1>2, <1>4 DEF VarOf
<1>6. /\ Rewritten(new2, sync.dSyncReg1, sync.dSyncReg2.value)
      /\ Rewritten(newL, reg2, sync.dLastState.value)
  BY DEF Rewritten
<1> HIDE DEF new2, newL
<1>7. /\ sync' \in HandshakeFields
      /\ sync'.dSyncReg1 = tog /\ sync'.dSyncReg2 = new2
      /\ sync'.dLastState = newL /\ sync'.sToggleReg = sync.sToggleReg
      /\ sync'.sSyncReg1 = sync.sSyncReg1 /\ sync'.sSyncReg2 = sync.sSyncReg2
      /\ sync'.sRDY = sync.sRDY /\ sync'.in_reset = sync.in_reset
      /\ (sync'.pulsing <=> reg2 # sync.dSyncReg1)
      /\ sync'.did_send = sync.did_send /\ sync'.en = sync.en
  BY <1>2, <1>3, <1>4, <1>5 DEF HandshakeFields
<1>8. RegTypes(D)'
  BY <1>1, <1>2, <1>4, <1>7 DEF RegInv, RegTypes
<1>9. Inputs' /\ Outputs'
  BY <1>1, <1>6, <1>7 DEF RegInv, Inputs, Outputs, Rewritten
<1>10. CASE last.rst
  <2>1. SyncAtReset(i)
    BY <1>10 DEF RegInv
  <2>2. tog = i /\ reg2 = i /\ past = i
    BY <1>2, <2>1 DEF tog, reg2, past, SyncAtReset, Rewritten, Unwritten, Still, VarOf, SyncReg!H!read
  <2>3. SyncAtReset(i)'
    BY <1>1, <1>6, <1>7, <2>1, <2>2 DEF SyncAtReset, Still, Rewritten
  <2>4. QED
    BY <1>1, <1>2, <1>7, <1>8, <1>9, <1>10, <2>3 DEF RegInv, SyncRegsAtReset
<1>11. CASE ~last.rst
  <2>1. DataMoved /\ SyncSrcMoved(d) /\ SyncDstMoved
    BY <1>2, <1>11 DEF RegInv
  <2>2. tog = r.sToggleReg /\ reg2 = r.dSyncReg2 /\ past = r.dLastState /\ data = last.sDataSyncIn
    <3>1. tog = r.sToggleReg
      BY <1>2, <2>1 DEF tog, SyncSrcMoved, Rewritten, Unwritten, Still, VarOf, SyncReg!H!read
    <3>2. reg2 = r.dSyncReg2 /\ past = r.dLastState
      BY <1>1, <1>2, <2>1 DEF reg2, past, SyncDstMoved, Rewritten, Unwritten, Still, VarOf, SyncReg!H!read
    <3>3. data = last.sDataSyncIn
      BY <1>2, <2>1 DEF data, DataMoved, Rewritten, Unwritten, Still, VarOf, SyncReg!H!read
    <3>4. QED
      BY <3>1, <3>2, <3>3
  <2>3. /\ sync.dSyncReg1 = r.dSyncReg1 /\ sync.dSyncReg2.value = r.dSyncReg2
        /\ sync.dLastState.value = r.dLastState /\ dD_OUT = last.dD_OUT
    BY <1>1, <2>1 DEF SyncDstMoved, Unwritten
  <2>4. SyncDstMoved'
    BY <1>1, <1>6, <1>7, <2>2, <2>3 DEF SyncDstMoved
  <2>5. DataMoved' /\ SyncSrcMoved(d)'
    BY <1>1, <1>7, <2>1 DEF DataMoved, SyncSrcMoved, Rewritten, Unwritten
  <2>6. QED
    BY <1>1, <1>2, <1>7, <1>8, <1>9, <1>11, <2>4, <2>5 DEF RegInv
<1>12. QED
  BY <1>10, <1>11

(* A reset at the end of a slice.                                          *)
LEMMA SyncResetKeeps ==
  ASSUME NEW d \in BOOLEAN, NEW i \in {0, 1}, NEW D, Zero \in D, None \notin D, RegInv(d, i, D),
         NEW asserted \in BOOLEAN, SyncReg(d, i, D)!reset_sRST(asserted)
  PROVE  RegInv(d, i, D)'
<1>1. /\ stage = "slice" /\ stage' = "settled" /\ (sync.in_reset # asserted)
      /\ (w # None => "src" \in edges)
      /\ edges' = edges /\ w' = w /\ last' = last
      /\ sync' = SyncReg(d, i, D)!H!reset_sRST(sync, asserted, i)
      /\ sDataSyncIn' = (IF asserted THEN [sDataSyncIn EXCEPT !.value = Zero, !.prev_value = Zero] ELSE sDataSyncIn)
      /\ dD_OUT' = (IF asserted THEN Zero ELSE dD_OUT)
  BY DEF SyncReg!reset_sRST, SyncReg!SliceComplete, SyncReg!H!force
<1>2. /\ sync \in HandshakeFields /\ sDataSyncIn \in VarOf(D) /\ (sync.in_reset <=> last.rst)
      /\ sync.sToggleReg \in VarOf({0, 1}) /\ sync.dLastState \in VarOf({0, 1})
      /\ sync.dSyncReg2 \in VarOf({0, 1}) /\ sync.did_send \in BOOLEAN /\ sync.in_reset \in BOOLEAN
      /\ last.rst \in BOOLEAN
  BY <1>1 DEF RegInv, RegTypes, HandshakeFields
<1>3. CASE ~asserted
  <2>1. sync' = [sync EXCEPT !.in_reset = FALSE] /\ sync.in_reset /\ last.rst
    BY <1>1, <1>2, <1>3 DEF SyncReg!H!reset_sRST
  <2>2. /\ sync' \in HandshakeFields /\ ~sync'.in_reset
        /\ sync'.dSyncReg1 = sync.dSyncReg1 /\ sync'.dSyncReg2 = sync.dSyncReg2
        /\ sync'.dLastState = sync.dLastState /\ sync'.sToggleReg = sync.sToggleReg
        /\ sync'.sSyncReg1 = sync.sSyncReg1 /\ sync'.sSyncReg2 = sync.sSyncReg2
        /\ sync'.sRDY = sync.sRDY /\ sync'.pulsing = sync.pulsing /\ sync'.en = sync.en
        /\ sync'.did_send = sync.did_send
    BY <1>2, <2>1 DEF HandshakeFields
  <2>3. RegTypes(D)'
    BY <1>1, <1>3, <2>2 DEF RegInv, RegTypes
  <2>4. SyncAtReset(i)' /\ SyncRegsAtReset(i)'
    BY <1>1, <1>3, <2>1, <2>2 DEF RegInv, SyncAtReset, SyncRegsAtReset
  <2>5. Inputs' /\ Outputs'
    BY <1>1, <2>1, <2>2 DEF RegInv, Inputs, Outputs
  <2>6. QED
    BY <1>1, <2>1, <2>3, <2>4, <2>5 DEF RegInv
<1>4. CASE asserted
  <2> DEFINE Forced(x) == [x EXCEPT !.value = i, !.prev_value = i]
  <2>1. ~last.rst /\ ~sync.in_reset
    BY <1>1, <1>2, <1>4
  <2>2. sync' = [dSyncReg1 |-> i, dSyncReg2 |-> Forced(sync.dSyncReg2),
    dLastState |-> Forced(sync.dLastState),
                 sToggleReg |-> Forced(sync.sToggleReg), sSyncReg1 |-> 1 - i, sSyncReg2 |-> 1 - i,
                 sRDY |-> FALSE, en |-> FALSE, did_send |-> sync.did_send, pulsing |-> FALSE,
                   in_reset |-> TRUE]
    BY <1>1, <1>4 DEF SyncReg!H!reset_sRST, SyncReg!H!NewHandshake, SyncReg!H!NewSyncVar, SyncReg!H!force
  <2>3. ASSUME NEW x \in VarOf({0, 1})
        PROVE  Forced(x) \in VarOf({0, 1}) /\ Still(Forced(x), i)
    BY DEF VarOf, Still
  <2>4. sDataSyncIn' \in VarOf(D) /\ Still(sDataSyncIn', Zero) /\ dD_OUT' = Zero
    BY <1>1, <1>2, <1>4 DEF VarOf, Still
  <2> HIDE DEF Forced
  <2>5. sync' \in HandshakeFields
    BY <1>2, <2>2, <2>3 DEF HandshakeFields
  <2>6. RegTypes(D)'
    BY <1>1, <2>4, <2>5 DEF RegInv, RegTypes
  <2>7. SyncAtReset(i)'
    BY <1>2, <2>2, <2>3, <2>4 DEF SyncAtReset
  <2>8. Outputs'
    BY <1>2, <2>2, <2>3 DEF Outputs, Still
  <2>9. Inputs' /\ sync'.in_reset
    BY <1>1, <1>2, <2>2 DEF RegInv, Inputs
  <2>10. QED
    BY <1>1, <2>1, <2>6, <2>7, <2>8, <2>9 DEF RegInv
<1>5. QED
  BY <1>3, <1>4

(* A dump leaves the object alone.                                         *)
LEMMA SyncDumpKeeps ==
  ASSUME NEW d \in BOOLEAN, NEW i \in {0, 1}, NEW D, Zero \in D, None \notin D, RegInv(d, i, D),
    NEW dt, SyncReg(d, i, D)!dump_VCD(dt)
  PROVE  RegInv(d, i, D)'
<1>1. /\ stage' = "dumped" /\ stage # "dumped" /\ (w # None => "src" \in edges)
      /\ sync' = sync /\ sDataSyncIn' = sDataSyncIn /\ dD_OUT' = dD_OUT /\ edges' = edges /\ w' = w /\ last' = last
  BY DEF SyncReg!dump_VCD, SyncReg!SliceComplete
<1>2. QED
  BY <1>1 DEF RegInv, RegTypes, SyncRegsAtReset, SyncAtReset, DataMoved, SyncSrcMoved, SyncDstMoved, Inputs, Outputs

(* One more edge of either clock, or of both, leaves one wave in the ring. *)
LEMMA WaveMoves ==
  ASSUME NEW d \in BOOLEAN, NEW r \in HandshakeRegs, OneWaveIn(d, r), NEW q \in HandshakeRegs,
         NEW src \in BOOLEAN, NEW dst \in BOOLEAN, NEW en \in BOOLEAN,
         en => src /\ r.sSyncReg2 = r.sToggleReg,
         IF src THEN q.sSyncReg1 = (IF d THEN r.dLastState ELSE r.dSyncReg2) /\ q.sSyncReg2 = r.sSyncReg1
                ELSE q.sSyncReg1 = r.sSyncReg1 /\ q.sSyncReg2 = r.sSyncReg2,
         q.sToggleReg = IF en THEN 1 - r.sToggleReg ELSE r.sToggleReg,
         IF dst THEN q.dSyncReg1 = r.sToggleReg /\ q.dSyncReg2 = r.dSyncReg1 /\ q.dLastState = r.dSyncReg2
                ELSE q.dSyncReg1 = r.dSyncReg1 /\ q.dSyncReg2 = r.dSyncReg2 /\ q.dLastState = r.dLastState
  PROVE  OneWaveIn(d, q)
<1>1. /\ r.dSyncReg1 \in {0, 1} /\ r.dSyncReg2 \in {0, 1} /\ r.dLastState \in {0, 1} /\ r.sToggleReg \in {0, 1}
      /\ r.sSyncReg1 \in {0, 1} /\ r.sSyncReg2 \in {0, 1}
  BY DEF HandshakeRegs
<1>2. CASE d
  BY <1>1, <1>2 DEF OneWaveIn
<1>3. CASE ~d
  BY <1>1, <1>3 DEF OneWaveIn
<1>4. QED
  BY <1>2, <1>3

(* What NextSlice does, field by field. *)
SliceFacts(d) ==
  /\ stage' = "slice" /\ edges' = {} /\ w' = None /\ dD_OUT' = dD_OUT
  /\ (w # None => "src" \in edges)
  /\ sync' \in HandshakeFields /\ last'.regs \in HandshakeRegs
  /\ sync'.dSyncReg1 = sync.dSyncReg1 /\ sync'.sSyncReg1 = sync.sSyncReg1 /\ sync'.sSyncReg2 = sync.sSyncReg2
  /\ sync'.sRDY = sync.sRDY /\ sync'.en = sync.en /\ sync'.did_send = sync.did_send
  /\ sync'.pulsing = sync.pulsing /\ sync'.in_reset = sync.in_reset
  /\ sync'.dSyncReg2.value = sync.dSyncReg2.value /\ ~sync'.dSyncReg2.written_at
  /\ sync'.dLastState.value = sync.dLastState.value /\ ~sync'.dLastState.written_at
  /\ sync'.sToggleReg.value = sync.sToggleReg.value /\ ~sync'.sToggleReg.written_at
  /\ sync'.dSyncReg2.prev_value = sync.dSyncReg2.prev_value
  /\ sync'.dLastState.prev_value = sync.dLastState.prev_value
  /\ sync'.sToggleReg.prev_value = sync.sToggleReg.prev_value
  /\ sDataSyncIn'.value = sDataSyncIn.value /\ ~sDataSyncIn'.written_at
  /\ sDataSyncIn'.prev_value = sDataSyncIn.prev_value
  /\ last'.rst = sync.in_reset /\ last'.dD_OUT = dD_OUT /\ last'.sDataSyncIn = sDataSyncIn.value
  /\ last'.regs.dSyncReg1 = sync.dSyncReg1 /\ last'.regs.dSyncReg2 = sync.dSyncReg2.value
  /\ last'.regs.dLastState = sync.dLastState.value /\ last'.regs.sToggleReg = sync.sToggleReg.value
  /\ last'.regs.sSyncReg1 = sync.sSyncReg1 /\ last'.regs.sSyncReg2 = sync.sSyncReg2
  /\ IF last.rst \/ sync.in_reset
       THEN last'.sent = 0 /\ last'.seen = 0 /\ last'.dEdges = 0
       ELSE /\ last'.sent = last.sent + (IF w # None THEN 1 ELSE 0)
            /\ last'.seen = last.seen + (IF "dst" \in edges /\ last.regs.dSyncReg2 # last.regs.dLastState THEN 1 ELSE 0)
            /\ last'.dEdges = IF "dst" \notin edges THEN IF w # None THEN 0 ELSE last.dEdges
                              ELSE IF w # None THEN 1 ELSE IF last.dEdges < 3 THEN last.dEdges + 1 ELSE 3

(* They follow from the object and the registers being records.            *)
LEMMA SliceTaken ==
  ASSUME NEW d \in BOOLEAN, NEW i \in {0, 1}, NEW D, Zero \in D, None \notin D, RegInv(d, i, D),
    SyncReg(d, i, D)!NextSlice
  PROVE  SliceFacts(d) /\ RegTypes(D)'
<1> DEFINE Calm(x) == [x EXCEPT !.written_at = FALSE]
           se == last.sent + SyncReg(d, i, D)!H!Flag(w # None)
           sn == last.seen + SyncReg(d, i, D)!H!Flag("dst" \in edges /\ last.regs.dSyncReg2 # last.regs.dLastState)
           de == IF "dst" \notin edges THEN IF w # None THEN 0 ELSE last.dEdges
                 ELSE IF w # None THEN 1 ELSE IF last.dEdges < 3 THEN last.dEdges + 1 ELSE 3
           sg == SyncReg(d, i, D)!H!HandshakeSignals(sync)
           zero == last.rst \/ sync.in_reset
           new == [rst |-> sync.in_reset, regs |-> sg, sent |-> IF zero THEN 0 ELSE se, seen |-> IF zero THEN 0 ELSE sn,
                   sDataSyncIn |-> sDataSyncIn.value, dD_OUT |-> dD_OUT, dEdges |-> IF zero THEN 0 ELSE de]
<1>1. /\ stage' = "slice" /\ edges' = {} /\ w' = None /\ dD_OUT' = dD_OUT
      /\ (w # None => "src" \in edges)
      /\ sDataSyncIn' = Calm(sDataSyncIn)
      /\ sync' = [sync EXCEPT !.dSyncReg2 = Calm(@), !.dLastState = Calm(@), !.sToggleReg = Calm(@)]
  BY DEF SyncReg!NextSlice, SyncReg!SliceComplete, SyncReg!H!LaterHandshake, SyncReg!H!Later, RegInv, Inputs
<1>2. last' = IF zero THEN SyncReg(d, i, D)!Hardware(0, 0, 0) ELSE SyncReg(d, i, D)!Hardware(se, sn, de)
  BY DEF SyncReg!NextSlice
<1> HIDE DEF se, sn, de, sg, zero
<1>3. last' = new
  <2>1. CASE zero
    BY <1>2, <2>1 DEF SyncReg!Hardware, SyncReg!H!probe, sg
  <2>2. CASE ~zero
    BY <1>2, <2>2 DEF SyncReg!Hardware, SyncReg!H!probe, sg
  <2>3. QED
    BY <2>1, <2>2
<1>4. /\ sync \in HandshakeFields /\ sDataSyncIn \in VarOf(D)
      /\ sync.sToggleReg \in VarOf({0, 1}) /\ sync.dLastState \in VarOf({0, 1})
      /\ sync.dSyncReg2 \in VarOf({0, 1}) /\ sync.in_reset \in BOOLEAN
      /\ last.sent \in Nat /\ last.seen \in Nat /\ last.dEdges \in 0 .. 3 /\ dD_OUT \in D
  BY DEF RegInv, RegTypes, HandshakeFields
<1>5. ASSUME NEW S, NEW x \in VarOf(S)
      PROVE  /\ Calm(x) \in VarOf(S) /\ Calm(x).value = x.value /\ Calm(x).prev_value = x.prev_value
             /\ ~Calm(x).written_at
  BY DEF VarOf
<1>6. sg \in HandshakeRegs
  BY <1>4 DEF sg, SyncReg!H!HandshakeSignals, SyncReg!H!probe, SyncReg!H!Flag, HandshakeRegs,
    HandshakeFields, VarOf
<1>7. /\ sg.dSyncReg1 = sync.dSyncReg1 /\ sg.dSyncReg2 = sync.dSyncReg2.value
      /\ sg.dLastState = sync.dLastState.value /\ sg.sToggleReg = sync.sToggleReg.value
      /\ sg.sSyncReg1 = sync.sSyncReg1 /\ sg.sSyncReg2 = sync.sSyncReg2
  BY DEF sg, SyncReg!H!HandshakeSignals, SyncReg!H!probe
<1>8. /\ se = last.sent + (IF w # None THEN 1 ELSE 0) /\ se \in Nat
      /\ sn = last.seen + (IF "dst" \in edges /\ last.regs.dSyncReg2 # last.regs.dLastState THEN 1 ELSE 0)
      /\ sn \in Nat
      /\ de = IF "dst" \notin edges THEN IF w # None THEN 0 ELSE last.dEdges
              ELSE IF w # None THEN 1 ELSE IF last.dEdges < 3 THEN last.dEdges + 1 ELSE 3
      /\ de \in 0 .. 3
  BY <1>4 DEF se, sn, de, SyncReg!H!Flag
<1> DEFINE c2 == Calm(sync.dSyncReg2)
           cl == Calm(sync.dLastState)
           ct == Calm(sync.sToggleReg)
<1>9. /\ c2 \in VarOf({0, 1}) /\ c2.value = sync.dSyncReg2.value /\ c2.prev_value = sync.dSyncReg2.prev_value
      /\ ~c2.written_at
      /\ cl \in VarOf({0, 1}) /\ cl.value = sync.dLastState.value /\ cl.prev_value = sync.dLastState.prev_value
      /\ ~cl.written_at
      /\ ct \in VarOf({0, 1}) /\ ct.value = sync.sToggleReg.value /\ ct.prev_value = sync.sToggleReg.prev_value
      /\ ~ct.written_at
  BY <1>4, <1>5
<1>10. sync' = [sync EXCEPT !.dSyncReg2 = c2, !.dLastState = cl, !.sToggleReg = ct]
  BY <1>1, <1>4 DEF HandshakeFields
<1> HIDE DEF c2, cl, ct
<1>11. /\ sync' \in HandshakeFields
       /\ sync'.dSyncReg1 = sync.dSyncReg1 /\ sync'.sSyncReg1 = sync.sSyncReg1 /\ sync'.sSyncReg2 = sync.sSyncReg2
       /\ sync'.sRDY = sync.sRDY /\ sync'.en = sync.en /\ sync'.did_send = sync.did_send
       /\ sync'.pulsing = sync.pulsing /\ sync'.in_reset = sync.in_reset
       /\ sync'.dSyncReg2 = c2 /\ sync'.dLastState = cl /\ sync'.sToggleReg = ct
  BY <1>4, <1>9, <1>10 DEF HandshakeFields
<1>12. /\ sDataSyncIn' \in VarOf(D) /\ sDataSyncIn'.value = sDataSyncIn.value
       /\ sDataSyncIn'.prev_value = sDataSyncIn.prev_value /\ ~sDataSyncIn'.written_at
       /\ sDataSyncIn.value \in D
  BY <1>1, <1>4, <1>5 DEF VarOf
<1> HIDE DEF Calm
<1>13. SliceFacts(d)
  <2>1. /\ last'.rst = sync.in_reset /\ last'.dD_OUT = dD_OUT /\ last'.sDataSyncIn = sDataSyncIn.value
        /\ last'.regs = sg /\ last'.sent = (IF zero THEN 0 ELSE se) /\ last'.seen = (IF zero THEN 0 ELSE sn)
        /\ last'.dEdges = (IF zero THEN 0 ELSE de)
    BY <1>3
  <2>2. QED
    BY <1>1, <1>6, <1>7, <1>8, <1>9, <1>11, <1>12, <2>1 DEF SliceFacts, zero
<1>14. RegTypes(D)'
  BY <1>1, <1>3, <1>4, <1>6, <1>8, <1>11, <1>12 DEF RegTypes
<1>15. QED
  BY <1>13, <1>14

(* The registers of the slice that is over are those of the next.          *)
LEMMA SliceKeeps ==
  ASSUME NEW d \in BOOLEAN, NEW i \in {0, 1}, NEW D, Zero \in D, None \notin D, RegInv(d, i, D),
    SyncReg(d, i, D)!NextSlice
  PROVE  RegInv(d, i, D)'
<1>1. SliceFacts(d) /\ RegTypes(D)' /\ RegTypes(D)
  BY SliceTaken DEF RegInv
<1>2. (last.rst <=> last.rst = TRUE) /\ last.rst \in BOOLEAN /\ sync.in_reset \in BOOLEAN /\ last.regs \in HandshakeRegs
  BY <1>1 DEF RegTypes, HandshakeFields
<1>3. Outputs'
  BY <1>1 DEF SliceFacts, RegInv, Outputs
<1>4. sync.en = FALSE /\ sync'.en = FALSE
  BY <1>1 DEF SliceFacts, RegInv, Inputs, RegTypes, HandshakeFields
<1>5. Inputs'
  BY <1>1, <1>4 DEF SliceFacts, Inputs
<1>6. CASE sync.in_reset
  <2>1. SyncAtReset(i)
    BY <1>6 DEF RegInv
  <2>2. SyncAtReset(i)' /\ SyncRegsAtReset(i)'
    BY <1>1, <1>6, <2>1 DEF SliceFacts, SyncAtReset, SyncRegsAtReset, Still
  <2>3. OneWaveIn(d, last'.regs)
    BY <2>2 DEF SyncRegsAtReset, OneWaveIn
  <2>4. QED
    BY <1>1, <1>3, <1>5, <1>6, <2>2, <2>3 DEF RegInv, SliceFacts
<1>7. CASE ~sync.in_reset
  <2>1. DataMoved' /\ SyncSrcMoved(d)' /\ SyncDstMoved'
    <3>1. DataMoved'
      BY <1>1 DEF SliceFacts, DataMoved, Unwritten
    <3>2. SyncSrcMoved(d)'
      BY <1>1 DEF SliceFacts, SyncSrcMoved, Unwritten
    <3>3. SyncDstMoved'
      BY <1>1 DEF SliceFacts, SyncDstMoved, Unwritten
    <3>4. QED
      BY <3>1, <3>2, <3>3
  <2>2. OneWaveIn(d, last'.regs)
    <3>1. CASE last.rst
      <4>1. SyncAtReset(i)
        BY <3>1 DEF RegInv
      <4>2. QED
        BY <1>1, <4>1 DEF SliceFacts, SyncAtReset, Still, OneWaveIn
    <3>2. CASE ~last.rst
      <4> DEFINE q == last'.regs
      <4>1. DataMoved /\ SyncSrcMoved(d) /\ SyncDstMoved /\ OneWaveIn(d, last.regs)
        BY <1>7, <3>2 DEF RegInv
      <4>2. /\ q \in HandshakeRegs
            /\ IF "src" \in edges
                 THEN q.sSyncReg1 = (IF d THEN last.regs.dLastState ELSE last.regs.dSyncReg2) /\ q.sSyncReg2 = last.regs.sSyncReg1
                 ELSE q.sSyncReg1 = last.regs.sSyncReg1 /\ q.sSyncReg2 = last.regs.sSyncReg2
            /\ q.sToggleReg = IF w # None THEN 1 - last.regs.sToggleReg ELSE last.regs.sToggleReg
        BY <1>1, <4>1 DEF SliceFacts, SyncSrcMoved, Rewritten, Unwritten
      <4>3. IF "dst" \in edges
              THEN q.dSyncReg1 = last.regs.sToggleReg /\ q.dSyncReg2 = last.regs.dSyncReg1 /\ q.dLastState = last.regs.dSyncReg2
              ELSE q.dSyncReg1 = last.regs.dSyncReg1 /\ q.dSyncReg2 = last.regs.dSyncReg2 /\ q.dLastState = last.regs.dLastState
        BY <1>1, <4>1 DEF SliceFacts, SyncDstMoved, Rewritten, Unwritten
      <4>4. w # None => "src" \in edges /\ last.regs.sSyncReg2 = last.regs.sToggleReg
        BY <1>1 DEF SliceFacts, RegInv, Inputs
      <4> HIDE DEF q
      <4>5. OneWaveIn(d, q)
        <5> DEFINE src == "src" \in edges
                   dst == "dst" \in edges
                   en  == w # None
                   r   == last.regs
        <5>1. /\ src \in BOOLEAN /\ dst \in BOOLEAN /\ en \in BOOLEAN
              /\ r \in HandshakeRegs /\ OneWaveIn(d, r)
          BY <1>2, <4>1
        <5>2. /\ q \in HandshakeRegs
              /\ IF src THEN q.sSyncReg1 = (IF d THEN r.dLastState ELSE r.dSyncReg2) /\ q.sSyncReg2 = r.sSyncReg1
                        ELSE q.sSyncReg1 = r.sSyncReg1 /\ q.sSyncReg2 = r.sSyncReg2
              /\ q.sToggleReg = IF en THEN 1 - r.sToggleReg ELSE r.sToggleReg
          BY <4>2
        <5>3. IF dst THEN q.dSyncReg1 = r.sToggleReg /\ q.dSyncReg2 = r.dSyncReg1 /\ q.dLastState = r.dSyncReg2
                     ELSE q.dSyncReg1 = r.dSyncReg1 /\ q.dSyncReg2 = r.dSyncReg2 /\ q.dLastState = r.dLastState
          BY <4>3
        <5>4. en => src /\ r.sSyncReg2 = r.sToggleReg
          BY <4>4
        <5> HIDE DEF src, dst, en, r
        <5>5. QED
          BY <5>1, <5>2, <5>3, <5>4, WaveMoves
      <4>6. QED
        BY <4>5 DEF q
    <3>3. QED
      BY <3>1, <3>2, <1>2
  <2>3. last'.rst = FALSE /\ sync'.in_reset = FALSE
    BY <1>1, <1>2, <1>7 DEF SliceFacts
  <2>4. QED
    BY <1>1, <1>3, <1>5, <2>1, <2>2, <2>3 DEF RegInv
<1>8. QED
  BY <1>6, <1>7

(* A slice is one step of the Verilog register, or none if nothing came.   *)
LEMMA SliceIsStep ==
  ASSUME NEW d \in BOOLEAN, NEW i \in {0, 1}, NEW D, Zero \in D, None \notin D, RegInv(d, i, D),
    SyncReg(d, i, D)!NextSlice
  PROVE  [SyncReg(d, i, D)!Register!RegNext]_(SyncReg(d, i, D)!Register!regVars)
<1> DEFINE r == last.regs
           q == last'.regs
           src == "src" \in edges
           dst == "dst" \in edges
           en == w # None
<1>1. SliceFacts(d) /\ RegTypes(D)
  BY SliceTaken DEF RegInv
<1>2. last.rst \in BOOLEAN /\ sync.in_reset \in BOOLEAN /\ last'.rst = sync.in_reset /\ w \in D \cup {None}
      /\ r \in HandshakeRegs /\ last.sent \in Nat /\ last.seen \in Nat /\ last.dEdges \in 0 .. 3
  BY <1>1 DEF SliceFacts, RegTypes, HandshakeFields
<1>3. CASE sync.in_reset
  <2>1. SyncRegsAtReset(i)'
    <3>1. SyncAtReset(i)
      BY <1>3 DEF RegInv
    <3>2. QED
      BY <1>1, <1>3, <3>1 DEF SliceFacts, SyncAtReset, SyncRegsAtReset, Still
  <2>2. SyncReg(d, i, D)!Register!RegAssertReset
    BY <1>2, <1>3, <2>1 DEF SyncRegsAtReset, SyncReg!Register!RegAssertReset, SyncReg!Register!AssertReset,
       SyncReg!Register!ResetRegs, SyncReg!Register!Flip
  <2>3. QED
    BY <2>2 DEF SyncReg!Register!RegNext
<1>4. CASE ~sync.in_reset /\ last.rst
  <2>1. SyncRegsAtReset(i) /\ SyncAtReset(i)
    BY <1>4 DEF RegInv
  <2>2. /\ q.sToggleReg = r.sToggleReg /\ q.sSyncReg1 = r.sSyncReg1 /\ q.sSyncReg2 = r.sSyncReg2
        /\ q.dSyncReg1 = r.dSyncReg1 /\ q.dSyncReg2 = r.dSyncReg2 /\ q.dLastState = r.dLastState
        /\ last'.sent = last.sent /\ last'.seen = last.seen /\ last'.dEdges = last.dEdges
        /\ last'.sDataSyncIn = last.sDataSyncIn /\ last'.dD_OUT = last.dD_OUT /\ last'.rst = FALSE
    BY <1>1, <1>2, <1>4, <2>1 DEF SliceFacts, SyncAtReset, SyncRegsAtReset, Still
  <2>3. SyncReg(d, i, D)!Register!RegReleaseReset
    BY <1>4, <2>2 DEF SyncReg!Register!RegReleaseReset, SyncReg!Register!ReleaseReset, SyncReg!Register!sRegs,
       SyncReg!Register!dRegs
  <2>4. QED
    BY <2>3 DEF SyncReg!Register!RegNext
<1>5. CASE ~sync.in_reset /\ ~last.rst
  <2>1. DataMoved /\ SyncSrcMoved(d) /\ SyncDstMoved
    BY <1>5 DEF RegInv
  <2>2. /\ en => src /\ r.sSyncReg2 = r.sToggleReg /\ last.sent < MaxSends
        /\ last'.rst = last.rst /\ last.rst = FALSE
    BY <1>1, <1>2, <1>5 DEF SliceFacts, RegInv, Inputs
  <2>3. /\ last'.sent = IF en THEN last.sent + 1 ELSE last.sent
        /\ last'.seen = IF dst /\ r.dSyncReg2 # r.dLastState THEN last.seen + 1 ELSE last.seen
        /\ last'.dEdges = IF ~dst THEN IF en THEN 0 ELSE last.dEdges
                          ELSE IF en THEN 1 ELSE IF last.dEdges < 3 THEN last.dEdges + 1 ELSE last.dEdges
    BY <1>1, <1>2, <1>5 DEF SliceFacts
  <2>4. /\ q.sSyncReg1 = IF src THEN (IF d THEN r.dLastState ELSE r.dSyncReg2) ELSE r.sSyncReg1
        /\ q.sSyncReg2 = IF src THEN r.sSyncReg1 ELSE r.sSyncReg2
        /\ q.sToggleReg = IF en THEN 1 - r.sToggleReg ELSE r.sToggleReg
    BY <1>1, <2>1, <2>2 DEF SliceFacts, SyncSrcMoved, Rewritten, Unwritten
  <2>5. last'.sDataSyncIn = IF en THEN w ELSE last.sDataSyncIn
    BY <1>1, <2>1 DEF SliceFacts, DataMoved, Rewritten, Unwritten
  <2>6. /\ q.dSyncReg1 = IF dst THEN r.sToggleReg ELSE r.dSyncReg1
        /\ q.dSyncReg2 = IF dst THEN r.dSyncReg1 ELSE r.dSyncReg2
        /\ q.dLastState = IF dst THEN r.dSyncReg2 ELSE r.dLastState
        /\ last'.dD_OUT = IF dst /\ r.dSyncReg2 # r.dLastState THEN last.sDataSyncIn ELSE last.dD_OUT
    BY <1>1, <2>1 DEF SliceFacts, SyncDstMoved, Rewritten, Unwritten
  <2>7. r.dSyncReg2 # r.dLastState /\ en => last.sDataSyncIn \in D
    BY <1>1 DEF RegTypes
  <2>8. CASE src /\ ~dst
    <3>1. SyncReg(d, i, D)!Register!SrcTick(en)
      BY <2>2, <2>3, <2>4, <2>6, <2>8 DEF SyncReg!Register!SrcTick, SyncReg!Register!CanSend,
        SyncReg!Register!sRDY,
         SyncReg!Register!SrcEdge, SyncReg!Register!ackValue, SyncReg!Register!CountSend,
           SyncReg!Register!Flip,
         SyncReg!Register!dRegs
    <3>2. SyncReg(d, i, D)!Register!RegSrcTick(w)
      BY <2>3, <2>5, <2>6, <2>8, <3>1 DEF SyncReg!Register!RegSrcTick
    <3>3. QED
      BY <1>2, <3>2 DEF SyncReg!Register!RegNext
  <2>9. CASE ~src /\ dst
    <3>1. SyncReg(d, i, D)!Register!DstTick
      BY <2>2, <2>3, <2>4, <2>6, <2>9 DEF SyncReg!Register!DstTick, SyncReg!Register!DstEdge,
        SyncReg!Register!dPulse,
         SyncReg!Register!CountPulse, SyncReg!Register!sRegs
    <3>2. SyncReg(d, i, D)!Register!RegDstTick
      BY <2>2, <2>3, <2>5, <2>6, <2>9, <3>1 DEF SyncReg!Register!RegDstTick, SyncReg!Register!dPulse,
         SyncReg!Register!CountEdge, SyncReg!Register!EdgeCap
    <3>3. QED
      BY <3>2 DEF SyncReg!Register!RegNext
  <2>10. CASE src /\ dst
    <3>1. SyncReg(d, i, D)!Register!BothTick(en)
      <4>1. SyncReg(d, i, D)!Register!DstEdge(r.sToggleReg)
        BY <2>6, <2>10 DEF SyncReg!Register!DstEdge
      <4>2. SyncReg(d, i, D)!Register!SrcEdge(en, SyncReg(d, i, D)!Register!ackValue)
        BY <2>4, <2>10 DEF SyncReg!Register!SrcEdge, SyncReg!Register!ackValue, SyncReg!Register!Flip
      <4>3. QED
        BY <2>2, <2>3, <2>10, <4>1, <4>2 DEF SyncReg!Register!BothTick, SyncReg!Register!CanSend,
          SyncReg!Register!sRDY,
           SyncReg!Register!CountSend, SyncReg!Register!CountPulse, SyncReg!Register!dPulse
    <3>2. SyncReg(d, i, D)!Register!RegBothTick(w)
      BY <2>3, <2>5, <2>6, <2>7, <2>10, <3>1 DEF SyncReg!Register!RegBothTick, SyncReg!Register!dPulse,
         SyncReg!Register!CountEdge, SyncReg!Register!EdgeCap
    <3>3. QED
      BY <1>2, <3>2 DEF SyncReg!Register!RegNext
  <2>11. CASE ~src /\ ~dst
    <3>1. UNCHANGED SyncReg(d, i, D)!Register!regVars
      BY <2>2, <2>3, <2>4, <2>5, <2>6, <2>11 DEF SyncReg!Register!regVars, SyncReg!Register!vars,
         SyncReg!Register!sRegs, SyncReg!Register!dRegs
    <3>2. QED
      BY <3>1
  <2>12. QED
    BY <2>8, <2>9, <2>10, <2>11
<1>6. QED
  BY <1>2, <1>3, <1>4, <1>5

(* The handshake within it. *)
LEMMA RegisterIsHandshake ==
  ASSUME NEW d \in BOOLEAN, NEW i \in {0, 1}, NEW D, Zero \in D, None \notin D, [SyncReg(d, i,
    D)!Register!RegNext]_(SyncReg(d, i, D)!Register!regVars)
  PROVE  [SyncReg(d, i, D)!Handshake!Next]_(SyncReg(d, i, D)!Handshake!vars)
<1>1. ASSUME NEW en \in BOOLEAN, SyncReg(d, i, D)!Register!SrcTick(en)
      PROVE  SyncReg(d, i, D)!Handshake!SrcTick(en)
  BY <1>1 DEF SyncReg!Register!SrcTick, SyncReg!Register!CanSend, SyncReg!Register!sRDY,
         SyncReg!Register!SrcEdge, SyncReg!Register!ackValue, SyncReg!Register!CountSend,
           SyncReg!Register!Flip,
         SyncReg!Register!dRegs, SyncReg!Handshake!SrcTick, SyncReg!Handshake!CanSend, SyncReg!Handshake!sRDY,
         SyncReg!Handshake!SrcEdge, SyncReg!Handshake!ackValue, SyncReg!Handshake!CountSend,
           SyncReg!Handshake!Flip,
         SyncReg!Handshake!dRegs
<1>2. SyncReg(d, i, D)!Register!DstTick => SyncReg(d, i, D)!Handshake!DstTick
  BY DEF SyncReg!Register!DstTick, SyncReg!Register!DstEdge, SyncReg!Register!dPulse,
         SyncReg!Register!CountPulse, SyncReg!Register!sRegs, SyncReg!Handshake!DstTick,
           SyncReg!Handshake!DstEdge,
         SyncReg!Handshake!dPulse, SyncReg!Handshake!CountPulse, SyncReg!Handshake!sRegs
<1>3. ASSUME NEW en \in BOOLEAN, SyncReg(d, i, D)!Register!BothTick(en)
      PROVE  SyncReg(d, i, D)!Handshake!BothTick(en)
  BY <1>3 DEF SyncReg!Register!BothTick, SyncReg!Register!CanSend, SyncReg!Register!sRDY,
    SyncReg!Register!ackValue,
           SyncReg!Register!CountSend, SyncReg!Register!CountPulse, SyncReg!Register!dPulse,
             SyncReg!Register!Flip,
           SyncReg!Register!SrcEdge, SyncReg!Register!DstEdge,
           SyncReg!Handshake!BothTick, SyncReg!Handshake!CanSend, SyncReg!Handshake!sRDY,
             SyncReg!Handshake!ackValue,
           SyncReg!Handshake!CountSend, SyncReg!Handshake!CountPulse, SyncReg!Handshake!dPulse,
             SyncReg!Handshake!Flip,
           SyncReg!Handshake!SrcEdge, SyncReg!Handshake!DstEdge
<1>4. SyncReg(d, i, D)!Register!AssertReset => SyncReg(d, i, D)!Handshake!AssertReset
  BY DEF SyncReg!Register!AssertReset, SyncReg!Register!ResetRegs, SyncReg!Register!Flip,
         SyncReg!Handshake!AssertReset, SyncReg!Handshake!ResetRegs, SyncReg!Handshake!Flip
<1>5. SyncReg(d, i, D)!Register!ReleaseReset => SyncReg(d, i, D)!Handshake!ReleaseReset
  BY DEF SyncReg!Register!ReleaseReset, SyncReg!Register!sRegs, SyncReg!Register!dRegs,
         SyncReg!Handshake!ReleaseReset, SyncReg!Handshake!sRegs, SyncReg!Handshake!dRegs
<1>6. UNCHANGED SyncReg(d, i, D)!Register!regVars => UNCHANGED SyncReg(d, i, D)!Handshake!vars
  BY DEF SyncReg!Register!regVars, SyncReg!Register!vars, SyncReg!Register!sRegs, SyncReg!Register!dRegs,
         SyncReg!Handshake!vars, SyncReg!Handshake!sRegs, SyncReg!Handshake!dRegs
<1>7. ASSUME NEW x, SyncReg(d, i, D)!Register!RegSrcTick(x) \/ SyncReg(d, i, D)!Register!RegBothTick(x)
      PROVE  \E en \in BOOLEAN : SyncReg(d, i, D)!Handshake!SrcTick(en) \/ SyncReg(d, i,
        D)!Handshake!BothTick(en)
  <2>1. (x # None) \in BOOLEAN
    OBVIOUS
  <2>2. SyncReg(d, i, D)!Register!SrcTick(x # None) \/ SyncReg(d, i, D)!Register!BothTick(x # None)
    BY <1>7 DEF SyncReg!Register!RegSrcTick, SyncReg!Register!RegBothTick
  <2>3. QED
    BY <1>1, <1>3, <2>1, <2>2
<1>8. QED
  BY <1>2, <1>4, <1>5, <1>6, <1>7 DEF SyncReg!Register!RegNext, SyncReg!Register!RegDstTick,
     SyncReg!Register!RegAssertReset, SyncReg!Register!RegReleaseReset, SyncReg!Handshake!Next

(* The handshake alone, and the one in the register, are that class.       *)
LEMMA EarlyInit == Early!SyncRegInit => SyncReg(FALSE, 1, {Zero})!SyncRegInit
BY Zenon DEF Early!SyncRegInit, Early!Hardware, Early!Signals, Early!H!NewSyncVar, Early!H!NewHandshake,
         Early!H!HandshakeSignals, Early!H!probe, Early!H!Flag, SyncReg!SyncRegInit, SyncReg!Hardware,
         SyncReg!Signals, SyncReg!H!NewSyncVar, SyncReg!H!NewHandshake, SyncReg!H!HandshakeSignals,
         SyncReg!H!probe, SyncReg!H!Flag

LEMMA EarlyNext == Early!SyncRegNext => SyncReg(FALSE, 1, {Zero})!SyncRegNext
<1>1. ASSUME NEW x, Early!METH_write(x)
      PROVE  SyncReg(FALSE, 1, {Zero})!METH_write(x)
  BY <1>1, Zenon DEF Early!METH_write, Early!METH_RDY_write, Early!H!write, Early!H!METH_send,
    Early!H!METH_RDY_send,
         SyncReg!METH_write, SyncReg!METH_RDY_write, SyncReg!H!write, SyncReg!H!METH_send,
         SyncReg!H!METH_RDY_send
<1>2. Early!clk_src => SyncReg(FALSE, 1, {Zero})!clk_src
  BY Zenon DEF Early!clk_src, Early!H!clk_src, Early!H!write, Early!H!read, SyncReg!clk_src,
    SyncReg!H!clk_src,
         SyncReg!H!write, SyncReg!H!read
<1>3. Early!clk_dst => SyncReg(FALSE, 1, {Zero})!clk_dst
  BY Zenon DEF Early!clk_dst, Early!H!clk_dst, Early!H!METH_pulse, Early!H!write, Early!H!read,
    SyncReg!clk_dst,
         SyncReg!H!clk_dst, SyncReg!H!METH_pulse, SyncReg!H!write, SyncReg!H!read
<1>4. ASSUME NEW asserted, Early!reset_sRST(asserted)
      PROVE  SyncReg(FALSE, 1, {Zero})!reset_sRST(asserted)
  BY <1>4, Zenon DEF Early!reset_sRST, Early!SliceComplete, Early!H!reset_sRST,
    Early!H!NewHandshake, Early!H!NewSyncVar,
         Early!H!force, SyncReg!reset_sRST, SyncReg!SliceComplete, SyncReg!H!reset_sRST,
           SyncReg!H!NewHandshake,
         SyncReg!H!NewSyncVar, SyncReg!H!force
<1>5. ASSUME NEW dt, Early!dump_VCD(dt)
      PROVE  SyncReg(FALSE, 1, {Zero})!dump_VCD(dt)
  BY <1>5, Zenon DEF Early!dump_VCD, Early!SliceComplete, Early!Signals, Early!H!HandshakeSignals,
    Early!H!HandshakeBacked,
         Early!H!probe, Early!H!Flag, SyncReg!dump_VCD, SyncReg!SliceComplete, SyncReg!Signals,
         SyncReg!H!HandshakeSignals, SyncReg!H!HandshakeBacked, SyncReg!H!probe, SyncReg!H!Flag
<1>6. Early!NextSlice => SyncReg(FALSE, 1, {Zero})!NextSlice
  BY Zenon DEF Early!NextSlice, Early!SliceComplete, Early!Hardware, Early!H!LaterHandshake, Early!H!Later,
         Early!H!HandshakeSignals, Early!H!probe, Early!H!Flag, SyncReg!NextSlice, SyncReg!SliceComplete,
         SyncReg!Hardware, SyncReg!H!LaterHandshake, SyncReg!H!Later, SyncReg!H!HandshakeSignals,
         SyncReg!H!probe, SyncReg!H!Flag
<1>7. QED
  BY <1>1, <1>2, <1>3, <1>4, <1>5, <1>6 DEF Early!SyncRegNext, SyncReg!SyncRegNext

LEMMA RegisterInit == Register!SyncRegInit => SyncReg(TRUE, 0, Data)!SyncRegInit
BY Zenon DEF Register!SyncRegInit, Register!Hardware, Register!Signals, Register!H!NewSyncVar,
         Register!H!NewHandshake, Register!H!HandshakeSignals, Register!H!probe, Register!H!Flag,
         SyncReg!SyncRegInit, SyncReg!Hardware, SyncReg!Signals, SyncReg!H!NewSyncVar, SyncReg!H!NewHandshake,
         SyncReg!H!HandshakeSignals, SyncReg!H!probe, SyncReg!H!Flag

LEMMA RegisterNext == Register!SyncRegNext => SyncReg(TRUE, 0, Data)!SyncRegNext
<1>1. ASSUME NEW x, Register!METH_write(x)
      PROVE  SyncReg(TRUE, 0, Data)!METH_write(x)
  BY <1>1, Zenon DEF Register!METH_write, Register!METH_RDY_write, Register!H!write, Register!H!METH_send,
         Register!H!METH_RDY_send, SyncReg!METH_write, SyncReg!METH_RDY_write, SyncReg!H!write,
         SyncReg!H!METH_send, SyncReg!H!METH_RDY_send
<1>2. Register!clk_src => SyncReg(TRUE, 0, Data)!clk_src
  BY Zenon DEF Register!clk_src, Register!H!clk_src, Register!H!write, Register!H!read, SyncReg!clk_src,
         SyncReg!H!clk_src, SyncReg!H!write, SyncReg!H!read
<1>3. Register!clk_dst => SyncReg(TRUE, 0, Data)!clk_dst
  BY Zenon DEF Register!clk_dst, Register!H!clk_dst, Register!H!METH_pulse, Register!H!write, Register!H!read,
         SyncReg!clk_dst, SyncReg!H!clk_dst, SyncReg!H!METH_pulse, SyncReg!H!write, SyncReg!H!read
<1>4. ASSUME NEW asserted, Register!reset_sRST(asserted)
      PROVE  SyncReg(TRUE, 0, Data)!reset_sRST(asserted)
  BY <1>4, Zenon DEF Register!reset_sRST, Register!SliceComplete, Register!H!reset_sRST,
    Register!H!NewHandshake,
         Register!H!NewSyncVar, Register!H!force, SyncReg!reset_sRST, SyncReg!SliceComplete,
         SyncReg!H!reset_sRST, SyncReg!H!NewHandshake, SyncReg!H!NewSyncVar, SyncReg!H!force
<1>5. ASSUME NEW dt, Register!dump_VCD(dt)
      PROVE  SyncReg(TRUE, 0, Data)!dump_VCD(dt)
  BY <1>5, Zenon DEF Register!dump_VCD, Register!SliceComplete, Register!Signals, Register!H!HandshakeSignals,
         Register!H!HandshakeBacked, Register!H!probe, Register!H!Flag, SyncReg!dump_VCD,
           SyncReg!SliceComplete,
         SyncReg!Signals, SyncReg!H!HandshakeSignals, SyncReg!H!HandshakeBacked, SyncReg!H!probe,
         SyncReg!H!Flag
<1>6. Register!NextSlice => SyncReg(TRUE, 0, Data)!NextSlice
  BY Zenon DEF Register!NextSlice, Register!SliceComplete, Register!Hardware, Register!H!LaterHandshake,
         Register!H!Later, Register!H!HandshakeSignals, Register!H!probe, Register!H!Flag, SyncReg!NextSlice,
         SyncReg!SliceComplete, SyncReg!Hardware, SyncReg!H!LaterHandshake, SyncReg!H!Later,
         SyncReg!H!HandshakeSignals, SyncReg!H!probe, SyncReg!H!Flag
<1>7. QED
  BY <1>1, <1>2, <1>3, <1>4, <1>5, <1>6 DEF Register!SyncRegNext, SyncReg!SyncRegNext

(* The two readings of the instances are one. *)
LEMMA EarlyVerilog ==
  /\ SyncReg(FALSE, 1, {Zero})!Handshake!Init => Early!Handshake!Init
  /\ [SyncReg(FALSE, 1, {Zero})!Handshake!Next]_(SyncReg(FALSE, 1, {Zero})!Handshake!vars) => [Early!Handshake!Next]_(Early!Handshake!vars)
<1>1. SyncReg(FALSE, 1, {Zero})!Handshake!Init => Early!Handshake!Init
  BY Zenon DEF SyncReg!Handshake!Init, Early!Handshake!Init, SyncReg!Handshake!Flip, Early!Handshake!Flip
<1>2. ASSUME NEW en, SyncReg(FALSE, 1, {Zero})!Handshake!SrcTick(en)
      PROVE  Early!Handshake!SrcTick(en)
  BY <1>2, Zenon DEF SyncReg!Handshake!SrcTick, Early!Handshake!SrcTick, SyncReg!Handshake!CanSend,
    Early!Handshake!CanSend,
         SyncReg!Handshake!sRDY, Early!Handshake!sRDY, SyncReg!Handshake!SrcEdge, Early!Handshake!SrcEdge,
         SyncReg!Handshake!ackValue, Early!Handshake!ackValue, SyncReg!Handshake!CountSend,
         Early!Handshake!CountSend, SyncReg!Handshake!Flip, Early!Handshake!Flip, SyncReg!Handshake!dRegs,
         Early!Handshake!dRegs
<1>3. SyncReg(FALSE, 1, {Zero})!Handshake!DstTick => Early!Handshake!DstTick
  BY Zenon DEF SyncReg!Handshake!DstTick, Early!Handshake!DstTick, SyncReg!Handshake!DstEdge,
    Early!Handshake!DstEdge,
         SyncReg!Handshake!dPulse, Early!Handshake!dPulse, SyncReg!Handshake!CountPulse,
         Early!Handshake!CountPulse, SyncReg!Handshake!sRegs, Early!Handshake!sRegs
<1>4. ASSUME NEW en, SyncReg(FALSE, 1, {Zero})!Handshake!BothTick(en)
      PROVE  Early!Handshake!BothTick(en)
  BY <1>4, Zenon DEF SyncReg!Handshake!BothTick, Early!Handshake!BothTick, SyncReg!Handshake!CanSend,
         Early!Handshake!CanSend, SyncReg!Handshake!sRDY, Early!Handshake!sRDY, SyncReg!Handshake!ackValue,
         Early!Handshake!ackValue, SyncReg!Handshake!CountSend, Early!Handshake!CountSend,
         SyncReg!Handshake!CountPulse, Early!Handshake!CountPulse, SyncReg!Handshake!dPulse,
         Early!Handshake!dPulse, SyncReg!Handshake!Flip, Early!Handshake!Flip, SyncReg!Handshake!SrcEdge,
         Early!Handshake!SrcEdge, SyncReg!Handshake!DstEdge, Early!Handshake!DstEdge
<1>5. SyncReg(FALSE, 1, {Zero})!Handshake!AssertReset => Early!Handshake!AssertReset
  BY Zenon DEF SyncReg!Handshake!AssertReset, Early!Handshake!AssertReset, SyncReg!Handshake!ResetRegs,
         Early!Handshake!ResetRegs, SyncReg!Handshake!Flip, Early!Handshake!Flip
<1>6. SyncReg(FALSE, 1, {Zero})!Handshake!ReleaseReset => Early!Handshake!ReleaseReset
  BY Zenon DEF SyncReg!Handshake!ReleaseReset, Early!Handshake!ReleaseReset, SyncReg!Handshake!sRegs,
         Early!Handshake!sRegs, SyncReg!Handshake!dRegs, Early!Handshake!dRegs
<1>7. UNCHANGED SyncReg(FALSE, 1, {Zero})!Handshake!vars => UNCHANGED Early!Handshake!vars
  BY Zenon DEF SyncReg!Handshake!sRegs, Early!Handshake!sRegs, SyncReg!Handshake!dRegs, Early!Handshake!dRegs,
         SyncReg!Handshake!vars, Early!Handshake!vars
<1>8. QED
  BY <1>1, <1>2, <1>3, <1>4, <1>5, <1>6, <1>7 DEF SyncReg!Handshake!Next, Early!Handshake!Next

LEMMA RegisterVerilog ==
  /\ SyncReg(TRUE, 0, Data)!Register!RegInit => Register!Register!RegInit
  /\ [SyncReg(TRUE, 0, Data)!Register!RegNext]_(SyncReg(TRUE, 0, Data)!Register!regVars) => [Register!Register!RegNext]_(Register!Register!regVars)
<1>1. SyncReg(TRUE, 0, Data)!Register!RegInit => Register!Register!RegInit
  BY Zenon DEF SyncReg!Register!RegInit, Register!Register!RegInit, SyncReg!Register!Init,
    Register!Register!Init,
         SyncReg!Register!Flip, Register!Register!Flip
<1>2. ASSUME NEW x, SyncReg(TRUE, 0, Data)!Register!RegSrcTick(x)
      PROVE  Register!Register!RegSrcTick(x)
  BY <1>2, Zenon DEF SyncReg!Register!RegSrcTick, Register!Register!RegSrcTick, SyncReg!Register!SrcTick,
         Register!Register!SrcTick, SyncReg!Register!CanSend, Register!Register!CanSend,
           SyncReg!Register!sRDY,
         Register!Register!sRDY, SyncReg!Register!SrcEdge, Register!Register!SrcEdge,
           SyncReg!Register!ackValue,
         Register!Register!ackValue, SyncReg!Register!CountSend, Register!Register!CountSend,
         SyncReg!Register!Flip, Register!Register!Flip, SyncReg!Register!dRegs, Register!Register!dRegs
<1>3. SyncReg(TRUE, 0, Data)!Register!RegDstTick => Register!Register!RegDstTick
  BY Zenon DEF SyncReg!Register!RegDstTick, Register!Register!RegDstTick, SyncReg!Register!CountEdge,
         Register!Register!CountEdge, SyncReg!Register!EdgeCap, Register!Register!EdgeCap,
         SyncReg!Register!DstTick, Register!Register!DstTick, SyncReg!Register!DstEdge,
         Register!Register!DstEdge, SyncReg!Register!dPulse, Register!Register!dPulse,
         SyncReg!Register!CountPulse, Register!Register!CountPulse, SyncReg!Register!sRegs,
         Register!Register!sRegs
<1>4. ASSUME NEW x, SyncReg(TRUE, 0, Data)!Register!RegBothTick(x)
      PROVE  Register!Register!RegBothTick(x)
  BY <1>4, Zenon DEF SyncReg!Register!RegBothTick, Register!Register!RegBothTick, SyncReg!Register!CountEdge,
         Register!Register!CountEdge, SyncReg!Register!EdgeCap, Register!Register!EdgeCap,
         SyncReg!Register!BothTick, Register!Register!BothTick, SyncReg!Register!CanSend,
         Register!Register!CanSend, SyncReg!Register!sRDY, Register!Register!sRDY, SyncReg!Register!ackValue,
         Register!Register!ackValue, SyncReg!Register!CountSend, Register!Register!CountSend,
         SyncReg!Register!CountPulse, Register!Register!CountPulse, SyncReg!Register!dPulse,
         Register!Register!dPulse, SyncReg!Register!Flip, Register!Register!Flip, SyncReg!Register!SrcEdge,
         Register!Register!SrcEdge, SyncReg!Register!DstEdge, Register!Register!DstEdge
<1>5. SyncReg(TRUE, 0, Data)!Register!RegAssertReset => Register!Register!RegAssertReset
  BY Zenon DEF SyncReg!Register!RegAssertReset, Register!Register!RegAssertReset,
    SyncReg!Register!AssertReset,
         Register!Register!AssertReset, SyncReg!Register!ResetRegs, Register!Register!ResetRegs,
         SyncReg!Register!Flip, Register!Register!Flip
<1>6. SyncReg(TRUE, 0, Data)!Register!RegReleaseReset => Register!Register!RegReleaseReset
  BY Zenon DEF SyncReg!Register!RegReleaseReset, Register!Register!RegReleaseReset,
    SyncReg!Register!ReleaseReset,
         Register!Register!ReleaseReset, SyncReg!Register!sRegs, Register!Register!sRegs,
         SyncReg!Register!dRegs, Register!Register!dRegs
<1>7. UNCHANGED SyncReg(TRUE, 0, Data)!Register!regVars => UNCHANGED Register!Register!regVars
  BY Zenon DEF SyncReg!Register!regVars, Register!Register!regVars, SyncReg!Register!sRegs,
    Register!Register!sRegs,
         SyncReg!Register!dRegs, Register!Register!dRegs, SyncReg!Register!vars, Register!Register!vars
<1>8. QED
  BY <1>1, <1>2, <1>3, <1>4, <1>5, <1>6, <1>7 DEF SyncReg!Register!RegNext, Register!Register!RegNext

(* Registers in reset.                                                     *)
LEMMA StartIsVerilog ==
  ASSUME NEW d \in BOOLEAN, NEW i \in {0, 1}, NEW D, Zero \in D, None \notin D, SyncReg(d, i, D)!SyncRegInit
  PROVE  SyncReg(d, i, D)!Handshake!Init /\ SyncReg(d, i, D)!Register!RegInit
<1>1. SyncRegsAtReset(i) /\ last.rst = TRUE
  BY RegStart DEF RegInv, SyncReg!SyncRegInit, SyncReg!H!NewHandshake, SyncReg!Hardware
<1>2. QED
  BY <1>1 DEF SyncRegsAtReset, SyncReg!Handshake!Init, SyncReg!Handshake!Flip, SyncReg!Register!RegInit,
     SyncReg!Register!Init, SyncReg!Register!Flip

(* A dump writes what differs and copies it: viewer and copy agree, except *)
(* on sRST, which is never copied.                                         *)
LEMMA RegDumpShows ==
  ASSUME NEW d \in BOOLEAN, NEW i \in {0, 1}, NEW D, Zero \in D, None \notin D,
    RegWave(SyncReg(d, i, D)!Signals),
         NEW dt \in {"VCD_DUMP_XS", "VCD_DUMP_CHANGES", "VCD_DUMP_RESTART"}, SyncReg(d, i, D)!dump_VCD(dt)
  PROVE  RegWave(SyncReg(d, i, D)!Signals)'
<1> DEFINE sig == SyncReg(d, i, D)!Signals
           F == SignalNames \ {"sRST"}
<1>1. DOMAIN sig = SignalNames
  BY DEF SyncReg!Signals, SyncReg!H!HandshakeSignals, SignalNames
<1>2. sig' = sig
  BY DEF SyncReg!dump_VCD, SyncReg!Signals, SyncReg!H!HandshakeSignals, SyncReg!H!probe, SyncReg!H!Flag
<1>3. /\ dt = "VCD_DUMP_CHANGES" => shown # X
      /\ shown' = CASE dt = "VCD_DUMP_XS" -> X
                     [] dt = "VCD_DUMP_CHANGES" -> [g \in SignalNames |-> IF sig[g] # back[g] THEN sig[g] ELSE shown[g]]
                     [] OTHER -> sig
      /\ back' = [g \in SignalNames |->
                    IF g \in SyncReg(d, i, D)!H!HandshakeBacked(dt) \/ (g = "dD_OUT" /\ dt # "VCD_DUMP_XS")
                      THEN sig[g] ELSE back[g]]
  BY <1>1 DEF SyncReg!dump_VCD
<1> HIDE DEF sig
<1>4. CASE dt = "VCD_DUMP_XS"
  BY <1>3, <1>4 DEF RegWave
<1>5. CASE dt # "VCD_DUMP_XS"
  <2>1. \A g \in F : g \in SignalNames /\ (g \in SyncReg(d, i, D)!H!HandshakeBacked(dt) \/ g = "dD_OUT")
    BY <1>5 DEF SyncReg!H!HandshakeBacked, SignalNames
  <2>2. \A g \in F : back'[g] = sig[g]
    BY <1>3, <1>5, <2>1
  <2>3. \A g \in F : shown'[g] = sig[g]
    <3>1. CASE dt = "VCD_DUMP_CHANGES"
      <4>1. shown' = [g \in SignalNames |-> IF sig[g] # back[g] THEN sig[g] ELSE shown[g]]
        BY <1>3, <3>1
      <4>2. \A g \in F : shown[g] = back[g]
        BY <1>3, <3>1 DEF RegWave
      <4>3. QED
        BY <4>1, <4>2, <2>1
    <3>2. CASE dt # "VCD_DUMP_CHANGES"
      BY <1>3, <1>5, <3>2
    <3>3. QED
      BY <3>1, <3>2
  <2>4. QED
    BY <1>2, <2>2, <2>3 DEF RegWave, sig
<1>6. QED
  BY <1>4, <1>5

(* Nothing but a dump writes to the viewer.                                *)
LEMMA RegWaveKeeps ==
  ASSUME NEW d \in BOOLEAN, NEW i \in {0, 1}, NEW D, Zero \in D, None \notin D, RegInv(d, i, D),
    RegWave(SyncReg(d, i, D)!Signals), SyncReg(d, i, D)!SyncRegNext
  PROVE  RegWave(SyncReg(d, i, D)!Signals)'
<1>1. CASE \E dt \in {"VCD_DUMP_XS", "VCD_DUMP_CHANGES", "VCD_DUMP_RESTART"} : SyncReg(d, i, D)!dump_VCD(dt)
  BY <1>1, RegDumpShows
<1>2. CASE ~ \E dt \in {"VCD_DUMP_XS", "VCD_DUMP_CHANGES", "VCD_DUMP_RESTART"} : SyncReg(d, i, D)!dump_VCD(dt)
  <2>1. shown' = shown /\ back' = back /\ stage' \in {"slice", "settled"}
    BY <1>2 DEF SyncReg!SyncRegNext, SyncReg!METH_write, SyncReg!clk_src, SyncReg!clk_dst, SyncReg!reset_sRST,
       SyncReg!NextSlice
  <2>2. QED
    BY <2>1 DEF RegWave
<1>3. QED
  BY <1>1, <1>2

(* Each step of the class is a step of the registers, or none.             *)
LEMMA RegStep ==
  ASSUME NEW d \in BOOLEAN, NEW i \in {0, 1}, NEW D, Zero \in D, None \notin D, RegInv(d, i, D),
    RegWave(SyncReg(d, i, D)!Signals), SyncReg(d, i, D)!SyncRegNext
  PROVE  /\ RegInv(d, i, D)' /\ RegWave(SyncReg(d, i, D)!Signals)'
         /\ [SyncReg(d, i, D)!Register!RegNext]_(SyncReg(d, i, D)!Register!regVars)
<1>1. CASE SyncReg(d, i, D)!NextSlice
  BY <1>1, SliceKeeps, SliceIsStep, RegWaveKeeps
<1>2. CASE ~SyncReg(d, i, D)!NextSlice
  <2>1. RegInv(d, i, D)'
    BY <1>2, WriteKeeps, SrcKeeps, DstKeeps, SyncResetKeeps, SyncDumpKeeps DEF SyncReg!SyncRegNext
  <2>2. last' = last
    BY <1>2 DEF SyncReg!SyncRegNext, SyncReg!METH_write, SyncReg!clk_src, SyncReg!clk_dst, SyncReg!reset_sRST,
       SyncReg!dump_VCD
  <2>3. UNCHANGED SyncReg(d, i, D)!Register!regVars
    BY <2>2 DEF SyncReg!Register!regVars, SyncReg!Register!vars, SyncReg!Register!sRegs,
      SyncReg!Register!dRegs
  <2>4. QED
    BY <2>1, <2>3, RegWaveKeeps
<1>3. QED
  BY <1>1, <1>2

(* Steps of nobody.                                                        *)
LEMMA RegUnmoved ==
  ASSUME NEW d \in BOOLEAN, NEW i \in {0, 1}, NEW D, Zero \in D, None \notin D, RegInv(d, i, D),
    RegWave(SyncReg(d, i, D)!Signals),
         UNCHANGED <<sync, sDataSyncIn, dD_OUT, stage, edges, w, last, back, shown>>
  PROVE  /\ RegInv(d, i, D)' /\ RegWave(SyncReg(d, i, D)!Signals)'
         /\ UNCHANGED SyncReg(d, i, D)!Register!regVars
<1>1. RegInv(d, i, D)'
  BY DEF RegInv, RegTypes, SyncRegsAtReset, SyncAtReset, DataMoved, SyncSrcMoved, SyncDstMoved, Inputs, Outputs
<1>2. SyncReg(d, i, D)!Signals' = SyncReg(d, i, D)!Signals
  BY DEF SyncReg!Signals, SyncReg!H!HandshakeSignals, SyncReg!H!probe, SyncReg!H!Flag
<1>3. RegWave(SyncReg(d, i, D)!Signals)'
  BY <1>2 DEF RegWave
<1>4. QED
  BY <1>1, <1>3 DEF SyncReg!Register!regVars, SyncReg!Register!vars, SyncReg!Register!sRegs,
    SyncReg!Register!dRegs

(* In a behaviour of either.                                               *)
RegAt(d, i, D) == RegInv(d, i, D) /\ RegWave(SyncReg(d, i, D)!Signals)
WhichReg ==
  /\ which = "Early" => RegAt(FALSE, 1, {Zero})
  /\ which = "Register" => RegAt(TRUE, 0, Data)

(* A behaviour of either, among those of the other classes.                *)
LEMMA EarlyInvariant ==
  ASSUME which = "Early", WhichReg, [MCNext]_allVars
  PROVE  RegAt(FALSE, 1, {Zero})' /\ [Early!Handshake!Next]_(Early!Handshake!vars)
<1>1. FALSE \in BOOLEAN /\ 1 \in {0, 1} /\ Zero \in {Zero} /\ None \notin {Zero}
  BY WordAssumption, ElementAssumption
<1>2. Early!SyncRegNext \/ UNCHANGED <<sync, sDataSyncIn, dD_OUT, stage, edges, w, last, back, shown>>
  BY DEF MCNext, Crossing, allVars, crossVars, regVars
<1>3. CASE Early!SyncRegNext
  <2>1. SyncReg(FALSE, 1, {Zero})!SyncRegNext
    BY <1>3, EarlyNext
  <2>2. /\ RegAt(FALSE, 1, {Zero})'
        /\ [SyncReg(FALSE, 1, {Zero})!Register!RegNext]_(SyncReg(FALSE, 1, {Zero})!Register!regVars)
    BY <1>1, <2>1, RegStep DEF WhichReg, RegAt
  <2>3. QED
    BY <1>1, <2>2, RegisterIsHandshake, EarlyVerilog
<1>4. CASE UNCHANGED <<sync, sDataSyncIn, dD_OUT, stage, edges, w, last, back, shown>>
  <2>1. /\ RegAt(FALSE, 1, {Zero})'
        /\ [SyncReg(FALSE, 1, {Zero})!Register!RegNext]_(SyncReg(FALSE, 1, {Zero})!Register!regVars)
    BY <1>1, <1>4, RegUnmoved DEF WhichReg, RegAt
  <2>2. QED
    BY <1>1, <2>1, RegisterIsHandshake, EarlyVerilog
<1>5. QED
  BY <1>2, <1>3, <1>4

LEMMA RegisterInvariant ==
  ASSUME which = "Register", WhichReg, [MCNext]_allVars
  PROVE  RegAt(TRUE, 0, Data)' /\ [Register!Register!RegNext]_(Register!Register!regVars)
<1>1. TRUE \in BOOLEAN /\ 0 \in {0, 1} /\ Zero \in Data /\ None \notin Data
  BY WordAssumption, ElementAssumption
<1>2. Register!SyncRegNext \/ UNCHANGED <<sync, sDataSyncIn, dD_OUT, stage, edges, w, last, back, shown>>
  BY DEF MCNext, Crossing, allVars, crossVars, regVars
<1>3. CASE Register!SyncRegNext
  <2>1. SyncReg(TRUE, 0, Data)!SyncRegNext
    BY <1>3, RegisterNext
  <2>2. /\ RegAt(TRUE, 0, Data)'
        /\ [SyncReg(TRUE, 0, Data)!Register!RegNext]_(SyncReg(TRUE, 0, Data)!Register!regVars)
    BY <1>1, <2>1, RegStep DEF WhichReg, RegAt
  <2>3. QED
    BY <2>2, RegisterVerilog
<1>4. CASE UNCHANGED <<sync, sDataSyncIn, dD_OUT, stage, edges, w, last, back, shown>>
  <2>1. /\ RegAt(TRUE, 0, Data)'
        /\ [SyncReg(TRUE, 0, Data)!Register!RegNext]_(SyncReg(TRUE, 0, Data)!Register!regVars)
    BY <1>1, <1>4, RegUnmoved DEF WhichReg, RegAt
  <2>2. QED
    BY <2>1, RegisterVerilog
<1>5. QED
  BY <1>2, <1>3, <1>4

(* Both begin as their Verilog modules do.                                 *)
LEMMA RegStarts ==
  MCInit => /\ WhichReg
            /\ which = "Early" => Early!Handshake!Init
            /\ which = "Register" => Register!Register!RegInit
<1>1. ASSUME MCInit, which = "Early"
      PROVE  RegAt(FALSE, 1, {Zero}) /\ Early!Handshake!Init
  <2>1. SyncReg(FALSE, 1, {Zero})!SyncRegInit /\ FALSE \in BOOLEAN /\ 1 \in {0, 1} /\ None \notin {Zero}
    BY <1>1, EarlyInit, WordAssumption, ElementAssumption DEF MCInit
  <2>2. QED
    BY <2>1, RegStart, StartIsVerilog, EarlyVerilog DEF RegAt
<1>2. ASSUME MCInit, which = "Register"
      PROVE  RegAt(TRUE, 0, Data) /\ Register!Register!RegInit
  <2>1. SyncReg(TRUE, 0, Data)!SyncRegInit /\ TRUE \in BOOLEAN /\ 0 \in {0, 1}
    BY <1>2, RegisterInit DEF MCInit
  <2>2. QED
    BY <2>1, WordAssumption, ElementAssumption, RegStart, StartIsVerilog, RegisterVerilog DEF RegAt
<1>3. QED
  BY <1>1, <1>2 DEF WhichReg

LEMMA RegInvariant == MCSpec => []WhichReg
<1>1. MCInit => WhichReg
  BY RegStarts
<1>2. WhichReg /\ [MCNext]_allVars => WhichReg'
  <2>1. ASSUME [MCNext]_allVars
        PROVE  which' = which
    BY <2>1 DEF MCNext, allVars
  <2>2. QED
    BY <2>1, EarlyInvariant, RegisterInvariant DEF WhichReg
<1>3. QED
  BY <1>1, <1>2, PTL DEF MCSpec

(* MOD_SyncHandshake without delayreturn, and MOD_SyncReg with it, do slice *)
(* by slice what SyncHandshake.v and SyncRegister.v do, whatever the order  *)
(* of the calls (bs_prim_mod_synchronizers.h:458-824).                      *)
THEOREM RegistersAreVerilog == MCSpec => RegisterRefined
<1>1. MCInit => /\ which = "Early" => Early!Handshake!Init
                /\ which = "Register" => Register!Register!RegInit
  BY RegStarts
<1>2. WhichReg /\ [MCNext]_allVars =>
        [which = "Early" => [Early!Handshake!Next]_(Early!Handshake!vars)]_allVars
  BY EarlyInvariant
<1>3. WhichReg /\ [MCNext]_allVars =>
        [which = "Register" => [Register!Register!RegNext]_(Register!Register!regVars)]_allVars
  BY RegisterInvariant
<1>4. QED
  BY RegInvariant, <1>1, <1>2, <1>3, PTL DEF MCSpec, RegisterRefined

(* The field sRDY is the wire, and the viewer sees the hardware.            *)
LEMMA RegShowsTrue ==
  ASSUME NEW d \in BOOLEAN, NEW i \in {0, 1}, NEW D, Zero \in D, None \notin D, RegAt(d, i, D)
  PROVE  SyncReg(d, i, D)!HandshakeTrue
<1> DEFINE sig == SyncReg(d, i, D)!Signals
<1>1. sync.in_reset \in BOOLEAN /\ sync.sRDY \in BOOLEAN /\ RegInv(d, i, D)
  BY DEF RegAt, RegInv, RegTypes, HandshakeFields
<1>2. ASSUME stage = "slice", edges = {}, ~last.rst
      PROVE  SyncReg(d, i, D)!METH_RDY_write = SyncReg(d, i, D)!Handshake!sRDY
  <2>1. ~sync.in_reset /\ SyncSrcMoved(d) /\ Outputs
    BY <1>1, <1>2 DEF RegInv
  <2>2. sync.sSyncReg2 = last.regs.sSyncReg2 /\ sync.sToggleReg.value = last.regs.sToggleReg
    BY <1>2, <2>1 DEF SyncSrcMoved, Unwritten
  <2>3. SyncReg(d, i, D)!METH_RDY_write <=> sync.sSyncReg2 = sync.sToggleReg.value
    BY <1>1, <2>1 DEF SyncReg!METH_RDY_write, SyncReg!H!METH_RDY_send, Outputs
  <2>4. SyncReg(d, i, D)!METH_RDY_write \in BOOLEAN /\ SyncReg(d, i, D)!Handshake!sRDY \in BOOLEAN
    BY <1>1 DEF SyncReg!METH_RDY_write, SyncReg!H!METH_RDY_send, SyncReg!Handshake!sRDY
  <2>5. QED
    BY <2>2, <2>3, <2>4 DEF SyncReg!Handshake!sRDY
<1>3. ASSUME stage = "dumped", shown # X
      PROVE  /\ \A g \in DOMAIN sig \ {"sRST", "sEN"} : shown[g] = sig[g]
             /\ "src" \in edges => shown["sEN"] = SyncReg(d, i, D)!H!Flag(w # None)
             /\ shown["dPulse"] = SyncReg(d, i, D)!H!Flag(shown["dSyncReg2"] # shown["dLastState"])
  <2>1. DOMAIN sig = SignalNames
    BY DEF SyncReg!Signals, SyncReg!H!HandshakeSignals, SignalNames
  <2>2. \A g \in SignalNames \ {"sRST"} : shown[g] = sig[g]
    BY <1>3 DEF RegAt, RegWave
  <2>3. /\ sig["sEN"] = SyncReg(d, i, D)!H!Flag(sync.did_send)
        /\ sig["dPulse"] = SyncReg(d, i, D)!H!Flag(sync.pulsing)
        /\ sig["dSyncReg2"] = sync.dSyncReg2.value /\ sig["dLastState"] = sync.dLastState.value
    BY DEF SyncReg!Signals, SyncReg!H!HandshakeSignals, SyncReg!H!probe
  <2> HIDE DEF sig
  <2>4. "src" \in edges => (sync.did_send <=> w # None)
    BY <1>1 DEF RegInv, Inputs
  <2>5. sync.pulsing <=> sync.dSyncReg2.value # sync.dLastState.value
    BY <1>1 DEF RegInv, Outputs
  <2>6. /\ "sEN" \in SignalNames \ {"sRST"} /\ "dPulse" \in SignalNames \ {"sRST"}
        /\ "dSyncReg2" \in SignalNames \ {"sRST"} /\ "dLastState" \in SignalNames \ {"sRST"}
    BY DEF SignalNames
  <2>7. "src" \in edges => shown["sEN"] = SyncReg(d, i, D)!H!Flag(w # None)
    BY <2>2, <2>3, <2>4, <2>6 DEF SyncReg!H!Flag
  <2>8. shown["dPulse"] = SyncReg(d, i, D)!H!Flag(shown["dSyncReg2"] # shown["dLastState"])
    BY <2>2, <2>3, <2>5, <2>6 DEF SyncReg!H!Flag
  <2>9. QED
    BY <2>1, <2>2, <2>7, <2>8
<1>4. QED
  BY <1>2, <1>3 DEF SyncReg!HandshakeTrue

(* The same of either class.                                               *)
LEMMA EarlyTrue == SyncReg(FALSE, 1, {Zero})!HandshakeTrue => Early!HandshakeTrue
BY Zenon DEF Early!HandshakeTrue, SyncReg!HandshakeTrue, Early!METH_RDY_write, SyncReg!METH_RDY_write,
   Early!Handshake!sRDY, SyncReg!Handshake!sRDY, Early!Signals, SyncReg!Signals, Early!H!METH_RDY_send,
   SyncReg!H!METH_RDY_send, Early!H!HandshakeSignals, SyncReg!H!HandshakeSignals, Early!H!probe,
   SyncReg!H!probe, Early!H!Flag, SyncReg!H!Flag

LEMMA RegisterTrue == SyncReg(TRUE, 0, Data)!HandshakeTrue => Register!HandshakeTrue
BY Zenon DEF Register!HandshakeTrue, SyncReg!HandshakeTrue, Register!METH_RDY_write, SyncReg!METH_RDY_write,
   Register!Handshake!sRDY, SyncReg!Handshake!sRDY, Register!Signals, SyncReg!Signals,
   Register!H!METH_RDY_send, SyncReg!H!METH_RDY_send, Register!H!HandshakeSignals,
   SyncReg!H!HandshakeSignals, Register!H!probe, SyncReg!H!probe, Register!H!Flag, SyncReg!H!Flag

-----------------------------------------------------------------------------
(* What the viewer of a waveform sees is what the hardware does, although  *)
(* only changes against a copy are written (bs_prim_mod_synchronizers.h:   *)
(* 143-455, 561-688), and the field sRDY is the wire sRDY of the Verilog.  *)
THEOREM SyncWavesShow == MCSpec => []WaveTrue
<1>1. WhichBits /\ WhichReg => WaveTrue
  <2> SUFFICES ASSUME WhichBits, WhichReg
               PROVE  WaveTrue
    OBVIOUS
  <2>1. which = "Bits" => Bits!BitsWaveTrue
    BY DEF WhichBits, BitsWaveInv, BitFlops, Bits!BitsWaveTrue
  <2>2. which = "Early" => Early!HandshakeTrue
    <3>1. which = "Early" => SyncReg(FALSE, 1, {Zero})!HandshakeTrue
      BY WordAssumption, ElementAssumption, RegShowsTrue DEF WhichReg
    <3>2. QED
      BY <3>1, EarlyTrue
  <2>3. which = "Register" => Register!HandshakeTrue
    <3>1. which = "Register" => SyncReg(TRUE, 0, Data)!HandshakeTrue
      BY WordAssumption, ElementAssumption, RegShowsTrue DEF WhichReg
    <3>2. QED
      BY <3>1, RegisterTrue
  <2>4. QED
    BY <2>1, <2>2, <2>3 DEF WaveTrue
<1>2. QED
  BY BitsInvariant, RegInvariant, <1>1, PTL

-----------------------------------------------------------------------------
(* The fields of the object of a FIFO.                                     *)
FieldNames ==
  {"data", "dDoutReg", "src_lo", "src_hi", "dst_lo", "dst_hi", "dSyncReg1", "sSyncReg1", "src_hi_plus_1",
   "dst_lo_plus_1", "sCountReg", "dCountReg", "not_empty", "not_full", "in_reset", "s_reset", "d_reset",
   "did_enq", "did_deq", "did_sclear", "did_dclear", "sClrSync", "dClrSync"}

(* The registers of the Verilog when the slice began.                      *)
R == last.regs

(* All fields but those moved are as they were.                            *)
Kept(moved) == DOMAIN f' = FieldNames /\ \A x \in FieldNames \ moved : f'[x] = f[x]

(* In reset, and just out of it.                                           *)
AtReset(g) ==
  /\ g.src_lo = 0 /\ g.dst_hi = 0 /\ g.dSyncReg1 = 0 /\ g.sSyncReg1 = 0 /\ g.s_reset /\ g.d_reset
FieldsAtReset == AtReset(f) /\ Still(f.src_hi, 0) /\ Still(f.dst_lo, 0) /\ ~f.did_enq /\ ~f.did_deq
NoCalls == w = None /\ ~deq

(* What a side's calls leave of the other side's fields.                   *)
SrcSame ==
  /\ f'.src_lo = f.src_lo /\ f'.src_hi = f.src_hi /\ f'.sSyncReg1 = f.sSyncReg1
  /\ f'.src_hi_plus_1 = f.src_hi_plus_1 /\ f'.not_full = f.not_full /\ f'.s_reset = f.s_reset
  /\ f'.did_enq = f.did_enq
DstSame ==
  /\ f'.dst_lo = f.dst_lo /\ f'.dst_hi = f.dst_hi /\ f'.dSyncReg1 = f.dSyncReg1
  /\ f'.dst_lo_plus_1 = f.dst_lo_plus_1 /\ f'.not_empty = f.not_empty /\ f'.d_reset = f.d_reset
  /\ f'.did_deq = f.did_deq /\ f'.dDoutReg = f.dDoutReg

(* A slice out of reset that is complete.                                  *)
Active == ~settled /\ ~f.in_reset /\ (w # None => "src" \in edges) /\ (deq => "dst" \in edges)

(* One place: the pointers are toggles.                                    *)
Toggles == {0, 1}

OneTyped(g) ==
  /\ g.src_lo \in Toggles /\ g.dst_hi \in Toggles /\ g.dSyncReg1 \in Toggles /\ g.sSyncReg1 \in Toggles
  /\ g.not_full \in BOOLEAN /\ g.in_reset \in BOOLEAN /\ g.s_reset \in BOOLEAN /\ g.d_reset \in BOOLEAN

OneTypes ==
  /\ DOMAIN f = FieldNames /\ OneTyped(f) /\ f.did_enq \in BOOLEAN /\ f.did_deq \in BOOLEAN
  /\ f.src_hi \in VarOf(Toggles) /\ f.dst_lo \in VarOf(Toggles)
  /\ OneTyped(R) /\ R.src_hi \in Toggles /\ R.dst_lo \in Toggles
  /\ edges \subseteq {"src", "dst"} /\ w \in Elements /\ deq \in BOOLEAN /\ clr = FALSE /\ settled \in BOOLEAN
  /\ last.word \in Data /\ last.dEdges \in 0 .. 2 /\ last.notFull \in BOOLEAN /\ last.notEmpty \in BOOLEAN

(* The flags shown compare the toggles, out of reset.                      *)
OneFlags ==
  /\ (last.notFull <=> ~R.s_reset /\ R.src_hi = R.src_lo)
  /\ (last.notEmpty <=> ~R.d_reset /\ R.dst_hi # R.dst_lo)
  /\ ~R.s_reset => (R.not_full <=> R.src_hi = R.src_lo)
  /\ f.src_hi_plus_1 = 1 - f.src_hi.value /\ f.dst_lo_plus_1 = 1 - f.dst_lo.value

(* What the calls of a slice out of reset have done so far.                *)
OneSrcMoved ==
  /\ w # None => last.notFull
  /\ IF "src" \in edges
       THEN /\ ~f.s_reset /\ ~f.did_enq /\ f.src_lo = R.sSyncReg1 /\ f.sSyncReg1 = R.dst_lo
            /\ (f.not_full <=> f.src_hi.value = R.sSyncReg1)
            /\ IF w # None THEN Rewritten(f.src_hi, 1 - R.src_hi, R.src_hi) ELSE Unwritten(f.src_hi, R.src_hi)
       ELSE /\ f.s_reset = R.s_reset /\ (f.did_enq <=> w # None) /\ f.not_full = R.not_full
            /\ f.src_lo = R.src_lo /\ f.sSyncReg1 = R.sSyncReg1 /\ Unwritten(f.src_hi, R.src_hi)

OneDstMoved ==
  /\ deq => last.notEmpty
  /\ IF "dst" \in edges
       THEN /\ ~f.d_reset /\ ~f.did_deq /\ f.dst_hi = R.dSyncReg1 /\ f.dSyncReg1 = R.src_hi
            /\ IF deq THEN Rewritten(f.dst_lo, 1 - R.dst_lo, R.dst_lo) ELSE Unwritten(f.dst_lo, R.dst_lo)
       ELSE /\ f.d_reset = R.d_reset /\ f.did_deq = deq
            /\ f.dst_hi = R.dst_hi /\ f.dSyncReg1 = R.dSyncReg1 /\ Unwritten(f.dst_lo, R.dst_lo)

(* Around the ring of toggles at most one link carries a change, from e to *)
(* its copies a1 and a2, to d, and to its copies b1 and b2.                *)
Wave(e, a1, a2, d, b1, b2) ==
  /\ e # a1  => a1 = a2 /\ a2 = d /\ d = b1 /\ b1 = b2
  /\ a1 # a2 => a2 = d /\ d = b1 /\ b1 = b2
  /\ a2 # d  => d = b1 /\ b1 = b2
  /\ d # b1  => b1 = b2

OneWave ==
  /\ Wave(R.src_hi, R.dSyncReg1, R.dst_hi, R.dst_lo, R.sSyncReg1, R.src_lo)
  /\ R.s_reset => R.src_hi = 0 /\ R.dSyncReg1 = 0 /\ R.dst_hi = 0 /\ R.dst_lo = 0 /\ R.sSyncReg1 = 0 /\ R.src_lo = 0
  /\ last.queue = IF R.src_hi = R.dst_lo THEN <<>> ELSE <<last.word>>

OneRegsAtReset == AtReset(R) /\ R.src_hi = 0 /\ R.dst_lo = 0 /\ last.word = Zero /\ last.dEdges = 0

OneInv ==
  /\ OneTypes /\ OneFlags /\ OneWave
  /\ IF settled THEN f.in_reset # R.in_reset /\ edges = {} ELSE f.in_reset = R.in_reset
  /\ settled \/ f.in_reset => NoCalls /\ FieldsAtReset
  /\ R.in_reset => OneRegsAtReset
  /\ ~settled /\ ~f.in_reset => OneSrcMoved /\ OneDstMoved

LEMMA OneNames == \A p \in Toggles : OnePlace!Succ(p) = 1 - p
BY DEF OnePlace!Succ, Toggles

LEMMA OneSrcStays ==
  ASSUME OneSrcMoved, SrcSame, UNCHANGED <<w, last>>, "src" \in edges' <=> "src" \in edges
  PROVE  OneSrcMoved'
BY DEF OneSrcMoved, SrcSame, R, Unwritten, Rewritten

LEMMA OneDstStays ==
  ASSUME OneDstMoved, f'.dst_lo = f.dst_lo, f'.dst_hi = f.dst_hi, f'.dSyncReg1 = f.dSyncReg1,
         f'.d_reset = f.d_reset, f'.did_deq = f.did_deq,
         UNCHANGED <<deq, last>>, "dst" \in edges' <=> "dst" \in edges
  PROVE  OneDstMoved'
BY DEF OneDstMoved, R, Unwritten, Rewritten

(* An enqueue.                                                             *)
LEMMA OneEnqKeeps ==
  ASSUME OneInv, ~settled, settled' = settled, NEW x \in Data, OnePlace!METH_enq(x)
  PROVE  OneInv'
<1>1. /\ "src" \notin edges /\ ~f.s_reset /\ f.not_full /\ ~f.did_enq
      /\ w' = x /\ UNCHANGED <<edges, deq, clr, last>>
      /\ f'.did_enq = TRUE /\ Kept({"data", "dDoutReg", "did_enq"})
  BY DEF OneInv, OneTypes, OnePlace!METH_enq, OnePlace!METH_notFull, FieldNames, Kept
<1>2. ~f.in_reset /\ OneSrcMoved /\ OneDstMoved /\ ~R.in_reset
  BY <1>1 DEF OneInv, FieldsAtReset, AtReset
<1>3. w = None /\ last.notFull
  BY <1>1, <1>2 DEF OneSrcMoved, OneInv, OneFlags
<1>4. /\ f'.src_lo = f.src_lo /\ f'.src_hi = f.src_hi /\ f'.sSyncReg1 = f.sSyncReg1
      /\ f'.src_hi_plus_1 = f.src_hi_plus_1 /\ f'.not_full = f.not_full /\ f'.s_reset = f.s_reset
      /\ f'.dst_lo = f.dst_lo /\ f'.dst_hi = f.dst_hi /\ f'.dSyncReg1 = f.dSyncReg1
      /\ f'.dst_lo_plus_1 = f.dst_lo_plus_1 /\ f'.d_reset = f.d_reset /\ f'.did_deq = f.did_deq
      /\ f'.in_reset = f.in_reset /\ DOMAIN f' = FieldNames
  BY <1>1 DEF Kept, FieldNames
<1>5. OneDstMoved'
  BY <1>1, <1>2, <1>4, OneDstStays
<1>6. OneSrcMoved'
  BY <1>1, <1>2, <1>3, <1>4, ElementAssumption DEF OneSrcMoved, Unwritten, R
<1>7. OneTypes'
  BY <1>1, <1>4 DEF OneInv, OneTypes, OneTyped, R, Elements
<1>8. OneFlags' /\ OneWave'
  BY <1>1, <1>4 DEF OneInv, OneFlags, OneWave, R
<1>9. QED
  BY <1>1, <1>2, <1>4, <1>5, <1>6, <1>7, <1>8 DEF OneInv, R

(* A dequeue.                                                              *)
LEMMA OneDeqKeeps ==
  ASSUME OneInv, ~settled, settled' = settled, OnePlace!METH_deq
  PROVE  OneInv'
<1>1. /\ "dst" \notin edges /\ ~f.d_reset /\ f.dst_hi # f.dst_lo.value /\ ~f.did_deq
      /\ deq' = TRUE /\ UNCHANGED <<edges, w, clr, last>>
      /\ f'.did_deq = TRUE /\ Kept({"did_deq"})
  BY DEF OneInv, OneTypes, OnePlace!METH_deq, OnePlace!METH_notEmpty, OnePlace!H!probe, FieldNames, Kept
<1>2. ~f.in_reset /\ OneSrcMoved /\ OneDstMoved /\ ~R.in_reset
  BY <1>1 DEF OneInv, FieldsAtReset, AtReset
<1>3. /\ f'.dst_lo = f.dst_lo /\ f'.dst_hi = f.dst_hi /\ f'.dSyncReg1 = f.dSyncReg1
      /\ f'.dst_lo_plus_1 = f.dst_lo_plus_1 /\ f'.d_reset = f.d_reset
      /\ f'.in_reset = f.in_reset /\ DOMAIN f' = FieldNames /\ SrcSame
  BY <1>1 DEF Kept, FieldNames, SrcSame
<1>4. OneSrcMoved'
  BY <1>1, <1>2, <1>3, OneSrcStays
<1>5. last.notEmpty
  BY <1>1, <1>2 DEF OneDstMoved, Unwritten, OneInv, OneFlags
<1>6. OneDstMoved'
  BY <1>1, <1>2, <1>3, <1>5 DEF OneDstMoved, Unwritten, R
<1>7. OneTypes'
  BY <1>1, <1>3 DEF OneInv, OneTypes, OneTyped, SrcSame, R
<1>8. OneFlags' /\ OneWave'
  BY <1>1, <1>3 DEF OneInv, OneFlags, OneWave, SrcSame, R
<1>9. QED
  BY <1>1, <1>2, <1>3, <1>4, <1>6, <1>7, <1>8 DEF OneInv, R

(* The edge of the source.                                                 *)
LEMMA OneSrcClkFacts ==
  ASSUME DOMAIN f = FieldNames, f.in_reset \in BOOLEAN, f.did_enq \in BOOLEAN, OnePlace!clk_src
  PROVE  /\ "src" \notin edges /\ edges' = edges \cup {"src"} /\ UNCHANGED <<w, deq, last>>
         /\ clr' = (clr \/ FALSE) /\ f'.s_reset = f.in_reset /\ f'.did_enq = FALSE
         /\ f'.src_lo = f.sSyncReg1 /\ f'.sSyncReg1 = OnePlace!H!read(f.dst_lo)
         /\ f'.src_hi = IF f.in_reset THEN OnePlace!H!force(f.src_hi, 0)
                        ELSE IF f.did_enq THEN OnePlace!H!write(f.src_hi, f.src_hi_plus_1) ELSE f.src_hi
         /\ f'.src_hi_plus_1 = IF f.in_reset THEN OnePlace!Succ(0)
                               ELSE IF f.did_enq THEN OnePlace!Succ(f.src_hi_plus_1) ELSE f.src_hi_plus_1
         /\ f'.not_full \in BOOLEAN
         /\ f'.not_full <=> f'.src_hi.value = f.sSyncReg1
         /\ Kept({"s_reset", "did_sclear", "did_enq", "src_hi", "src_hi_plus_1", "not_full", "sCountReg",
                  "src_lo", "sSyncReg1", "sClrSync", "dClrSync"})
<1> DEFINE held == f.in_reset \/ OnePlace!sClearing
           hi   == CASE held -> OnePlace!H!force(f.src_hi, 0)
                     [] ~held /\ f.did_enq -> OnePlace!H!write(f.src_hi, f.src_hi_plus_1)
                     [] OTHER -> f.src_hi
           plus == IF held THEN OnePlace!Succ(0) ELSE IF f.did_enq THEN OnePlace!Succ(f.src_hi_plus_1) ELSE f.src_hi_plus_1
           full == OnePlace!Room(OnePlace!H!probe(hi), held)
           cnt  == CASE 1 = 1 -> OnePlace!H!Flag(~OnePlace!Room(OnePlace!H!probe(hi), held)) [] 1 # 1 /\ held -> 0
                     [] OTHER -> OnePlace!Behind(OnePlace!H!probe(hi), f.src_lo)
           ss == OnePlace!H!clk_src(f.sClrSync, FALSE)
           ds == OnePlace!H!clk_dst(f.dClrSync)
<1>1. /\ "src" \notin edges /\ edges' = edges \cup {"src"} /\ UNCHANGED <<w, deq, last>>
      /\ clr' = (clr \/ OnePlace!sClearing)
      /\ f' = [f EXCEPT !.s_reset = f.in_reset, !.did_sclear = FALSE, !.did_enq = FALSE, !.src_hi = hi,
                        !.src_hi_plus_1 = plus, !.not_full = full, !.sCountReg = cnt,
                        !.src_lo = f.sSyncReg1, !.sSyncReg1 = OnePlace!H!read(f.dst_lo),
                        !.sClrSync = ss, !.dClrSync = ds]
  BY DEF OnePlace!clk_src
<1>2. OnePlace!sClearing = FALSE
  BY DEF OnePlace!sClearing
<1>3. hi = IF f.in_reset THEN OnePlace!H!force(f.src_hi, 0)
           ELSE IF f.did_enq THEN OnePlace!H!write(f.src_hi, f.src_hi_plus_1) ELSE f.src_hi
  BY <1>2
<1>4. plus = IF f.in_reset THEN OnePlace!Succ(0) ELSE IF f.did_enq THEN OnePlace!Succ(f.src_hi_plus_1) ELSE f.src_hi_plus_1
  BY <1>2
<1>5. full \in BOOLEAN /\ (full <=> hi.value = f.sSyncReg1)
  BY DEF OnePlace!Room, OnePlace!H!probe
<1> HIDE DEF hi, plus, full, cnt, ss, ds, held
<1>6. /\ f'.s_reset = f.in_reset /\ f'.did_enq = FALSE /\ f'.src_hi = hi /\ f'.src_hi_plus_1 = plus
      /\ f'.not_full = full /\ f'.src_lo = f.sSyncReg1 /\ f'.sSyncReg1 = OnePlace!H!read(f.dst_lo)
  BY <1>1 DEF FieldNames
<1>7. Kept({"s_reset", "did_sclear", "did_enq", "src_hi", "src_hi_plus_1", "not_full", "sCountReg",
            "src_lo", "sSyncReg1", "sClrSync", "dClrSync"})
  BY <1>1 DEF FieldNames, Kept
<1>8. QED
  BY <1>1, <1>2, <1>3, <1>4, <1>5, <1>6, <1>7

(* A clock function in reset forces its toggle, out of reset writes it.    *)
LEMMA OneForced ==
  ASSUME NEW x \in VarOf(Toggles), NEW y, y = OnePlace!H!force(x, 0)
  PROVE  y = [value |-> 0, prev_value |-> 0, written_at |-> x.written_at] /\ y \in VarOf(Toggles)
<1>1. y = [value |-> 0, prev_value |-> 0, written_at |-> x.written_at]
  BY DEF OnePlace!H!force, VarOf
<1>2. QED
  BY <1>1 DEF VarOf, Toggles

LEMMA OneWritten ==
  ASSUME NEW x \in VarOf(Toggles), NEW y, y = OnePlace!H!write(x, 1 - x.value)
  PROVE  y = [value |-> 1 - x.value, prev_value |-> x.value, written_at |-> TRUE] /\ y \in VarOf(Toggles)
<1>1. y = [value |-> 1 - x.value, prev_value |-> x.value, written_at |-> TRUE]
  BY DEF OnePlace!H!write
<1>2. 1 - x.value \in Toggles /\ x.value \in Toggles
  BY DEF VarOf, Toggles
<1>3. [value |-> 1 - x.value, prev_value |-> x.value, written_at |-> TRUE] \in VarOf(Toggles)
  BY <1>2 DEF VarOf
<1>4. QED
  BY <1>1, <1>3

LEMMA OneSrcClkKeeps ==
  ASSUME OneInv, ~settled, settled' = settled, OnePlace!clk_src
  PROVE  OneInv'
<1> DEFINE s == f.src_hi
<1>1. /\ DOMAIN f = FieldNames /\ f.in_reset \in BOOLEAN /\ f.did_enq \in BOOLEAN /\ s \in VarOf(Toggles)
      /\ f.dst_lo \in VarOf(Toggles) /\ R.in_reset = f.in_reset /\ s.value \in Toggles
      /\ f.src_hi_plus_1 = 1 - s.value /\ clr = FALSE
  BY DEF OneInv, OneTypes, OneTyped, VarOf, OneFlags
<1>2. /\ "src" \notin edges /\ edges' = edges \cup {"src"} /\ UNCHANGED <<w, deq, last>>
      /\ clr' = FALSE /\ f'.s_reset = f.in_reset /\ f'.did_enq = FALSE
      /\ f'.src_lo = f.sSyncReg1 /\ f'.sSyncReg1 = OnePlace!H!read(f.dst_lo)
      /\ f'.src_hi = IF f.in_reset THEN OnePlace!H!force(s, 0)
                     ELSE IF f.did_enq THEN OnePlace!H!write(s, 1 - s.value) ELSE s
      /\ f'.src_hi_plus_1 = IF f.in_reset THEN OnePlace!Succ(0)
                            ELSE IF f.did_enq THEN OnePlace!Succ(1 - s.value) ELSE 1 - s.value
      /\ f'.not_full \in BOOLEAN
      /\ f'.not_full <=> f'.src_hi.value = f.sSyncReg1
      /\ Kept({"s_reset", "did_sclear", "did_enq", "src_hi", "src_hi_plus_1", "not_full", "sCountReg",
               "src_lo", "sSyncReg1", "sClrSync", "dClrSync"})
  BY <1>1, OneSrcClkFacts
<1>3. /\ f'.dst_lo = f.dst_lo /\ f'.dst_hi = f.dst_hi /\ f'.dSyncReg1 = f.dSyncReg1
      /\ f'.dst_lo_plus_1 = f.dst_lo_plus_1 /\ f'.d_reset = f.d_reset /\ f'.did_deq = f.did_deq
      /\ f'.in_reset = f.in_reset /\ DOMAIN f' = FieldNames
  BY <1>2 DEF Kept, FieldNames
<1>4. /\ OnePlace!H!read(f.dst_lo) \in Toggles /\ f.sSyncReg1 \in Toggles
      /\ OnePlace!Succ(0) = 1 /\ OnePlace!Succ(1 - s.value) = s.value
  <2>1. 1 - s.value \in Toggles /\ 1 - (1 - s.value) = s.value /\ 0 \in Toggles /\ 1 - 0 = 1
    BY <1>1 DEF Toggles
  <2>2. OnePlace!Succ(0) = 1 /\ OnePlace!Succ(1 - s.value) = s.value
    BY <2>1, OneNames
  <2>3. QED
    BY <1>1, <2>2 DEF OnePlace!H!read, VarOf, OneInv, OneTypes, OneTyped
<1>5. UNCHANGED R /\ ("dst" \in edges' <=> "dst" \in edges) /\ "src" \in edges' /\ edges' \subseteq {"src", "dst"}
  BY <1>2 DEF R, OneInv, OneTypes
<1>6. ASSUME f'.src_hi \in VarOf(Toggles)
      PROVE  OneTypes'
  BY <1>2, <1>3, <1>4, <1>5, <1>6 DEF OneInv, OneTypes, OneTyped, R
<1>7. ASSUME f'.src_hi_plus_1 = 1 - f'.src_hi.value
      PROVE  OneFlags' /\ OneWave'
  BY <1>2, <1>3, <1>7 DEF OneInv, OneFlags, OneWave, R
<1>8. CASE f.in_reset
  <2>1. f'.src_hi = [value |-> 0, prev_value |-> 0, written_at |-> s.written_at] /\ f'.src_hi \in VarOf(Toggles)
    BY <1>1, <1>2, <1>8, OneForced
  <2>2. OnePlace!H!read(f.dst_lo) = 0 /\ FieldsAtReset /\ NoCalls /\ f.in_reset = TRUE
    BY <1>1, <1>8 DEF OneInv, FieldsAtReset, Still, OnePlace!H!read
  <2>3. FieldsAtReset' /\ NoCalls'
    BY <1>2, <1>3, <2>1, <2>2 DEF FieldsAtReset, AtReset, Still, NoCalls
  <2>4. f'.src_hi_plus_1 = 1 - f'.src_hi.value
    BY <1>2, <1>4, <1>8, <2>1
  <2>5. OneTypes' /\ OneFlags' /\ OneWave'
    BY <1>6, <1>7, <2>1, <2>4
  <2>6. QED
    BY <1>1, <1>2, <1>3, <1>5, <1>8, <2>3, <2>5 DEF OneInv, OneRegsAtReset, AtReset, R
<1>9. CASE ~f.in_reset
  <2>1. OneSrcMoved /\ OneDstMoved
    BY <1>9 DEF OneInv
  <2>2. /\ (f.did_enq <=> w # None) /\ f.sSyncReg1 = R.sSyncReg1 /\ s.value = R.src_hi /\ ~s.written_at
        /\ w # None => last.notFull
    BY <1>2, <2>1 DEF OneSrcMoved, Unwritten
  <2>3. OnePlace!H!read(f.dst_lo) = R.dst_lo
    BY <2>1 DEF OneDstMoved, Unwritten, Rewritten, OnePlace!H!read
  <2>4. /\ f.did_enq => /\ f'.src_hi = [value |-> 1 - s.value, prev_value |-> s.value, written_at |-> TRUE]
                        /\ f'.src_hi \in VarOf(Toggles)
        /\ ~f.did_enq => f'.src_hi = s
    BY <1>1, <1>2, <1>9, OneWritten
  <2>5. f'.src_hi \in VarOf(Toggles) /\ f'.src_hi_plus_1 = 1 - f'.src_hi.value
    <3>1. CASE f.did_enq
      <4>1. 1 - (1 - s.value) = s.value
        BY <1>1 DEF Toggles
      <4>2. f'.src_hi.value = 1 - s.value
        BY <2>4, <3>1
      <4>3. QED
        BY <1>2, <1>4, <1>9, <2>4, <3>1, <4>1, <4>2
    <3>2. CASE ~f.did_enq
      BY <1>1, <1>2, <1>9, <2>4, <3>2
    <3>3. QED
      BY <3>1, <3>2
  <2>6. OneSrcMoved'
    <3>1. IF w # None THEN Rewritten(f'.src_hi, 1 - R.src_hi, R.src_hi) ELSE Unwritten(f'.src_hi, R.src_hi)
      BY <2>2, <2>4 DEF Rewritten, Unwritten
    <3>2. f'.s_reset = FALSE /\ f'.did_enq = FALSE /\ f'.src_lo = R.sSyncReg1 /\ f'.sSyncReg1 = R.dst_lo
      BY <1>1, <1>2, <1>9, <2>2, <2>3
    <3>3. f'.not_full <=> f'.src_hi.value = R.sSyncReg1
      BY <1>2, <2>2
    <3>4. QED
      BY <1>2, <1>5, <2>2, <3>1, <3>2, <3>3 DEF OneSrcMoved, R
  <2>7. OneDstMoved'
    BY <1>2, <1>3, <1>5, <2>1, OneDstStays
  <2>8. OneTypes' /\ OneFlags' /\ OneWave'
    BY <1>6, <1>7, <2>5
  <2>9. QED
    BY <1>1, <1>2, <1>3, <1>5, <1>9, <2>6, <2>7, <2>8 DEF OneInv, R
<1>10. QED
  BY <1>1, <1>8, <1>9

(* The edge of the destination.                                            *)
LEMMA OneDstClkFacts ==
  ASSUME DOMAIN f = FieldNames, f.in_reset \in BOOLEAN, OnePlace!clk_dst, NEW lo, lo = OnePlace!H!read(f.dst_lo),
         NEW fetch \in BOOLEAN, fetch <=> ~f.in_reset /\ f.dst_hi # lo /\ f.did_deq
  PROVE  /\ "dst" \notin edges /\ edges' = edges \cup {"dst"} /\ UNCHANGED <<w, deq, clr, last>>
         /\ f'.d_reset = f.in_reset /\ f'.did_deq = FALSE
         /\ f'.dst_hi = f.dSyncReg1 /\ f'.dSyncReg1 = OnePlace!H!read(f.src_hi)
         /\ f'.dst_lo = IF f.in_reset THEN OnePlace!H!force(f.dst_lo, 0)
                        ELSE IF fetch THEN OnePlace!H!write(f.dst_lo, f.dst_lo_plus_1) ELSE f.dst_lo
         /\ f'.dst_lo_plus_1 = IF f.in_reset THEN OnePlace!Succ(0)
                               ELSE IF fetch THEN OnePlace!Succ(f.dst_lo_plus_1) ELSE f.dst_lo_plus_1
         /\ Kept({"d_reset", "did_dclear", "did_deq", "dst_lo", "dst_lo_plus_1", "not_empty", "dDoutReg", "dCountReg",
                  "dst_hi", "dSyncReg1", "sClrSync", "dClrSync"})
<1> DEFINE held   == f.in_reset \/ OnePlace!dClearing
           some   == f.dst_hi # OnePlace!H!read(f.dst_lo)
           take   == ~held /\ some /\ (f.did_deq \/ (1 # 1 /\ ~f.not_empty))
           newLo  == CASE held -> OnePlace!H!force(f.dst_lo, 0) [] take -> OnePlace!H!write(f.dst_lo, f.dst_lo_plus_1)
                       [] OTHER -> f.dst_lo
           loaded == CASE 1 = 1 -> OnePlace!H!probe(newLo) = f.dSyncReg1 [] 1 # 1 /\ held -> FALSE
                       [] OTHER -> take \/ (f.not_empty /\ ~f.did_deq)
           plus   == IF held THEN OnePlace!Succ(0) ELSE IF take THEN OnePlace!Succ(f.dst_lo_plus_1) ELSE f.dst_lo_plus_1
           out    == IF take /\ 1 # 1 THEN f.data[OnePlace!Addr(OnePlace!H!read(f.dst_lo))] ELSE f.dDoutReg
           cnt    == CASE 1 = 1 -> OnePlace!H!Flag(loaded) [] 1 # 1 /\ held -> 0
                       [] OTHER -> OnePlace!Behind(f.dst_hi, OnePlace!H!read(f.dst_lo))
           ss == OnePlace!H!clk_dst(f.sClrSync)
           ds == OnePlace!H!clk_src(f.dClrSync, FALSE)
<1>1. /\ "dst" \notin edges /\ edges' = edges \cup {"dst"} /\ UNCHANGED <<w, deq, clr, last>>
      /\ f' = [f EXCEPT !.d_reset = f.in_reset, !.did_dclear = FALSE, !.did_deq = FALSE, !.dst_lo = newLo,
                        !.dst_lo_plus_1 = plus, !.not_empty = loaded, !.dDoutReg = out, !.dCountReg = cnt,
                        !.dst_hi = f.dSyncReg1, !.dSyncReg1 = OnePlace!H!read(f.src_hi),
                        !.sClrSync = ss, !.dClrSync = ds]
  BY DEF OnePlace!clk_dst
<1>2. held = f.in_reset
  BY DEF OnePlace!dClearing
<1>3. take <=> fetch
  BY <1>2
<1>4. newLo = IF f.in_reset THEN OnePlace!H!force(f.dst_lo, 0)
              ELSE IF fetch THEN OnePlace!H!write(f.dst_lo, f.dst_lo_plus_1) ELSE f.dst_lo
  BY <1>2, <1>3
<1>5. plus = IF f.in_reset THEN OnePlace!Succ(0) ELSE IF fetch THEN OnePlace!Succ(f.dst_lo_plus_1) ELSE f.dst_lo_plus_1
  BY <1>2, <1>3
<1> HIDE DEF held, some, take, newLo, loaded, plus, out, cnt, ss, ds
<1>6. /\ f'.d_reset = f.in_reset /\ f'.did_deq = FALSE /\ f'.dst_lo = newLo /\ f'.dst_lo_plus_1 = plus
      /\ f'.dst_hi = f.dSyncReg1 /\ f'.dSyncReg1 = OnePlace!H!read(f.src_hi)
  BY <1>1 DEF FieldNames
<1>7. Kept({"d_reset", "did_dclear", "did_deq", "dst_lo", "dst_lo_plus_1", "not_empty", "dDoutReg", "dCountReg",
            "dst_hi", "dSyncReg1", "sClrSync", "dClrSync"})
  BY <1>1 DEF FieldNames, Kept
<1>8. QED
  BY <1>1, <1>4, <1>5, <1>6, <1>7

LEMMA OneDstClkKeeps ==
  ASSUME OneInv, ~settled, settled' = settled, OnePlace!clk_dst
  PROVE  OneInv'
<1> DEFINE s == f.dst_lo
           lo == OnePlace!H!read(f.dst_lo)
           fetch == ~f.in_reset /\ f.dst_hi # lo /\ f.did_deq
<1>1. /\ DOMAIN f = FieldNames /\ f.in_reset \in BOOLEAN /\ f.did_deq \in BOOLEAN /\ s \in VarOf(Toggles)
      /\ f.src_hi \in VarOf(Toggles) /\ R.in_reset = f.in_reset /\ s.value \in Toggles
      /\ f.dst_lo_plus_1 = 1 - s.value /\ fetch \in BOOLEAN
  BY DEF OneInv, OneTypes, OneTyped, VarOf, OneFlags
<1>2. /\ "dst" \notin edges /\ edges' = edges \cup {"dst"} /\ UNCHANGED <<w, deq, clr, last>>
      /\ f'.d_reset = f.in_reset /\ f'.did_deq = FALSE
      /\ f'.dst_hi = f.dSyncReg1 /\ f'.dSyncReg1 = OnePlace!H!read(f.src_hi)
      /\ f'.dst_lo = IF f.in_reset THEN OnePlace!H!force(s, 0)
                     ELSE IF fetch THEN OnePlace!H!write(s, 1 - s.value) ELSE s
      /\ f'.dst_lo_plus_1 = IF f.in_reset THEN OnePlace!Succ(0)
                            ELSE IF fetch THEN OnePlace!Succ(1 - s.value) ELSE 1 - s.value
      /\ Kept({"d_reset", "did_dclear", "did_deq", "dst_lo", "dst_lo_plus_1", "not_empty", "dDoutReg", "dCountReg",
               "dst_hi", "dSyncReg1", "sClrSync", "dClrSync"})
  BY <1>1, OneDstClkFacts
<1>3. SrcSame /\ f'.in_reset = f.in_reset /\ DOMAIN f' = FieldNames
  BY <1>2 DEF Kept, FieldNames, SrcSame
<1>4. /\ OnePlace!H!read(f.src_hi) \in Toggles /\ f.dSyncReg1 \in Toggles
      /\ OnePlace!Succ(0) = 1 /\ OnePlace!Succ(1 - s.value) = s.value
  <2>1. 1 - s.value \in Toggles /\ 1 - (1 - s.value) = s.value /\ 0 \in Toggles /\ 1 - 0 = 1
    BY <1>1 DEF Toggles
  <2>2. OnePlace!Succ(0) = 1 /\ OnePlace!Succ(1 - s.value) = s.value
    BY <2>1, OneNames
  <2>3. QED
    BY <1>1, <2>2 DEF OnePlace!H!read, VarOf, OneInv, OneTypes, OneTyped
<1>5. UNCHANGED R /\ ("src" \in edges' <=> "src" \in edges) /\ "dst" \in edges' /\ edges' \subseteq {"src", "dst"}
  BY <1>2 DEF R, OneInv, OneTypes
<1>6. ASSUME f'.dst_lo \in VarOf(Toggles)
      PROVE  OneTypes'
  BY <1>1, <1>2, <1>3, <1>4, <1>5, <1>6 DEF OneInv, OneTypes, OneTyped, SrcSame, R
<1>7. ASSUME f'.dst_lo_plus_1 = 1 - f'.dst_lo.value
      PROVE  OneFlags' /\ OneWave'
  BY <1>2, <1>3, <1>7 DEF OneInv, OneFlags, OneWave, SrcSame, R
<1>8. CASE f.in_reset
  <2>1. f'.dst_lo = [value |-> 0, prev_value |-> 0, written_at |-> s.written_at] /\ f'.dst_lo \in VarOf(Toggles)
    BY <1>1, <1>2, <1>8, OneForced
  <2>2. OnePlace!H!read(f.src_hi) = 0 /\ FieldsAtReset /\ NoCalls /\ f.in_reset = TRUE
    BY <1>1, <1>8 DEF OneInv, FieldsAtReset, Still, OnePlace!H!read
  <2>3. FieldsAtReset' /\ NoCalls'
    BY <1>2, <1>3, <2>1, <2>2 DEF FieldsAtReset, AtReset, Still, NoCalls, SrcSame
  <2>4. f'.dst_lo_plus_1 = 1 - f'.dst_lo.value
    BY <1>2, <1>4, <1>8, <2>1
  <2>5. OneTypes' /\ OneFlags' /\ OneWave'
    BY <1>6, <1>7, <2>1, <2>4
  <2>6. QED
    BY <1>1, <1>2, <1>3, <1>5, <1>8, <2>3, <2>5 DEF OneInv, OneRegsAtReset, AtReset, R
<1>9. CASE ~f.in_reset
  <2>1. OneSrcMoved /\ OneDstMoved
    BY <1>9 DEF OneInv
  <2>2. /\ f.did_deq = deq /\ f.dst_hi = R.dst_hi /\ f.dSyncReg1 = R.dSyncReg1 /\ s.value = R.dst_lo /\ ~s.written_at
        /\ deq => last.notEmpty
    BY <1>2, <2>1 DEF OneDstMoved, Unwritten
  <2>3. OnePlace!H!read(f.src_hi) = R.src_hi /\ lo = R.dst_lo
    BY <2>1, <2>2 DEF OneSrcMoved, Unwritten, Rewritten, OnePlace!H!read
  <2>4. fetch <=> deq
    BY <1>1, <1>9, <2>2, <2>3 DEF OneInv, OneFlags
  <2> HIDE DEF fetch
  <2>5. /\ deq => /\ f'.dst_lo = [value |-> 1 - s.value, prev_value |-> s.value, written_at |-> TRUE]
                  /\ f'.dst_lo \in VarOf(Toggles)
        /\ ~deq => f'.dst_lo = s
    BY <1>1, <1>2, <1>9, <2>4, OneWritten
  <2>6. f'.dst_lo \in VarOf(Toggles) /\ f'.dst_lo_plus_1 = 1 - f'.dst_lo.value
    <3>1. CASE deq
      <4>1. 1 - (1 - s.value) = s.value
        BY <1>1 DEF Toggles
      <4>2. f'.dst_lo.value = 1 - s.value
        BY <2>5, <3>1
      <4>3. QED
        BY <1>2, <1>4, <1>9, <2>4, <2>5, <3>1, <4>1, <4>2
    <3>2. CASE ~deq
      BY <1>1, <1>2, <1>9, <2>4, <2>5, <3>2
    <3>3. QED
      BY <3>1, <3>2
  <2>7. OneDstMoved'
    <3>1. IF deq THEN Rewritten(f'.dst_lo, 1 - R.dst_lo, R.dst_lo) ELSE Unwritten(f'.dst_lo, R.dst_lo)
      BY <2>2, <2>5 DEF Rewritten, Unwritten
    <3>2. f'.d_reset = FALSE /\ f'.did_deq = FALSE /\ f'.dst_hi = R.dSyncReg1 /\ f'.dSyncReg1 = R.src_hi
      BY <1>1, <1>2, <1>9, <2>2, <2>3
    <3>3. QED
      BY <1>2, <1>5, <2>2, <3>1, <3>2 DEF OneDstMoved, R
  <2>8. OneSrcMoved'
    BY <1>2, <1>3, <1>5, <2>1, OneSrcStays
  <2>9. OneTypes' /\ OneFlags' /\ OneWave'
    BY <1>6, <1>7, <2>6
  <2>10. QED
    BY <1>1, <1>2, <1>3, <1>5, <1>9, <2>7, <2>8, <2>9 DEF OneInv, R
<1>10. QED
  BY <1>1, <1>8, <1>9

(* What the slice leaves.                                                  *)
OneSnapped ==
  /\ R'.src_lo = f.src_lo /\ R'.dst_hi = f.dst_hi /\ R'.dSyncReg1 = f.dSyncReg1 /\ R'.sSyncReg1 = f.sSyncReg1
  /\ R'.src_hi_plus_1 = f.src_hi_plus_1 /\ R'.dst_lo_plus_1 = f.dst_lo_plus_1 /\ R'.not_full = f.not_full
  /\ R'.in_reset = f.in_reset /\ R'.s_reset = f.s_reset /\ R'.d_reset = f.d_reset
  /\ R'.src_hi = f.src_hi.value /\ R'.dst_lo = f.dst_lo.value
  /\ last'.notFull \in BOOLEAN /\ last'.notEmpty \in BOOLEAN
  /\ (last'.notFull <=> ~f.s_reset /\ f.not_full)
  /\ (last'.notEmpty <=> ~f.d_reset /\ f.dst_hi # f.dst_lo.value)
  /\ f.in_reset => last'.queue = <<>> /\ last'.word = Zero /\ last'.dEdges = 0
  /\ ~f.in_reset => /\ last'.queue = After(last.queue, FALSE, deq /\ last.queue # <<>>, w)
                    /\ last'.word = IF w # None THEN w ELSE last.word
                    /\ last'.dEdges = IF w # None THEN IF "dst" \in edges THEN 1 ELSE 0
                                      ELSE IF "dst" \in edges /\ last.dEdges < 2 THEN last.dEdges + 1 ELSE last.dEdges

LEMMA OneSettledFacts ==
  ASSUME OneTypes, last' = OnePlace!Settled
  PROVE  OneSnapped
<1>1. DOMAIN f = FieldNames /\ f.in_reset \in BOOLEAN /\ clr = FALSE
  BY DEF OneTypes, OneTyped
<1> DEFINE regs == [f EXCEPT !.src_hi = OnePlace!H!probe(@), !.dst_lo = OnePlace!H!probe(@)]
<1>2. /\ last'.regs = regs /\ last'.notFull = OnePlace!METH_notFull /\ last'.notEmpty = OnePlace!METH_notEmpty
      /\ f.in_reset => last'.queue = <<>> /\ last'.word = Zero /\ last'.dEdges = 0
      /\ ~f.in_reset => /\ last'.queue = OnePlace!After(last.queue, clr, deq /\ last.queue # <<>>, w)
                        /\ last'.word = IF w # None THEN w ELSE last.word
                        /\ last'.dEdges = OnePlace!DstEdges
  BY DEF OnePlace!Settled, OnePlace!Snapshot
<1>3. /\ regs.src_lo = f.src_lo /\ regs.dst_hi = f.dst_hi
      /\ regs.dSyncReg1 = f.dSyncReg1 /\ regs.sSyncReg1 = f.sSyncReg1 /\ regs.src_hi_plus_1 = f.src_hi_plus_1
      /\ regs.dst_lo_plus_1 = f.dst_lo_plus_1 /\ regs.not_full = f.not_full
      /\ regs.in_reset = f.in_reset /\ regs.s_reset = f.s_reset /\ regs.d_reset = f.d_reset
      /\ regs.src_hi = f.src_hi.value /\ regs.dst_lo = f.dst_lo.value
  BY <1>1 DEF FieldNames, OnePlace!H!probe
<1> HIDE DEF regs
<1>4. R' = regs
  BY <1>2 DEF R
<1>5. /\ last'.notFull \in BOOLEAN /\ last'.notEmpty \in BOOLEAN
      /\ (last'.notFull <=> ~f.s_reset /\ f.not_full)
      /\ (last'.notEmpty <=> ~f.d_reset /\ f.dst_hi # f.dst_lo.value)
  BY <1>2 DEF OnePlace!METH_notFull, OnePlace!METH_notEmpty, OnePlace!H!probe
<1>6. ~f.in_reset => last'.queue = After(last.queue, FALSE, deq /\ last.queue # <<>>, w)
  BY <1>1, <1>2 DEF OnePlace!After, After
<1>7. OnePlace!DstEdges = IF w # None THEN IF "dst" \in edges THEN 1 ELSE 0
                          ELSE IF "dst" \in edges /\ last.dEdges < 2 THEN last.dEdges + 1 ELSE last.dEdges
  BY DEF OnePlace!DstEdges, OnePlace!H!Flag
<1>8. QED
  BY <1>2, <1>3, <1>4, <1>5, <1>6, <1>7 DEF OneSnapped

(* The wave after the edges of an active slice, and the queue.             *)
LEMMA OneTick ==
  ASSUME OneInv, Active
  PROVE  /\ Wave(f.src_hi.value, f.dSyncReg1, f.dst_hi, f.dst_lo.value, f.sSyncReg1, f.src_lo)
         /\ f.s_reset => /\ f.src_hi.value = 0 /\ f.dSyncReg1 = 0 /\ f.dst_hi = 0 /\ f.dst_lo.value = 0
                         /\ f.sSyncReg1 = 0 /\ f.src_lo = 0
         /\ deq => R.src_hi # R.dst_lo /\ last.queue = <<last.word>> /\ w = None
         /\ w # None => R.src_hi = R.dst_lo /\ last.queue = <<>>
         /\ f.src_hi.value = IF w # None THEN 1 - R.src_hi ELSE R.src_hi
         /\ f.dst_lo.value = IF deq THEN 1 - R.dst_lo ELSE R.dst_lo
<1> DEFINE e == R.src_hi  a1 == R.dSyncReg1  a2 == R.dst_hi  d == R.dst_lo  b1 == R.sSyncReg1  b2 == R.src_lo
           e1 == f.src_hi.value  d1 == f.dst_lo.value  x1 == f.dSyncReg1  x2 == f.dst_hi  y1 == f.sSyncReg1
           y2 == f.src_lo  src == "src" \in edges  dst == "dst" \in edges  enq == w # None
<1>1. /\ e \in Toggles /\ a1 \in Toggles /\ a2 \in Toggles /\ d \in Toggles /\ b1 \in Toggles /\ b2 \in Toggles
      /\ deq \in BOOLEAN /\ enq \in BOOLEAN /\ src \in BOOLEAN /\ dst \in BOOLEAN
  BY DEF OneInv, OneTypes, OneTyped
<1>2. /\ Wave(e, a1, a2, d, b1, b2)
      /\ R.s_reset => e = 0 /\ a1 = 0 /\ a2 = 0 /\ d = 0 /\ b1 = 0 /\ b2 = 0
      /\ last.queue = IF e = d THEN <<>> ELSE <<last.word>>
      /\ OneSrcMoved /\ OneDstMoved
      /\ (enq => src) /\ (deq => dst)
  BY DEF OneInv, OneWave, Active
<1>3. /\ enq => ~R.s_reset /\ e = b2
      /\ deq => a2 # d
  BY <1>2 DEF OneSrcMoved, OneDstMoved, OneInv, OneFlags
<1>4. /\ e1 = IF enq THEN 1 - e ELSE e
      /\ y1 = IF src THEN d ELSE b1
      /\ y2 = IF src THEN b1 ELSE b2
      /\ f.s_reset => ~src /\ R.s_reset
  BY <1>2 DEF OneSrcMoved, Rewritten, Unwritten
<1>5. /\ d1 = IF deq THEN 1 - d ELSE d
      /\ x1 = IF dst THEN e ELSE a1
      /\ x2 = IF dst THEN a1 ELSE a2
  BY <1>2 DEF OneDstMoved, Rewritten, Unwritten
<1> HIDE DEF e, a1, a2, d, b1, b2, e1, d1, x1, x2, y1, y2, src, dst, enq
<1>6. ~(enq /\ deq) /\ (enq => e = d /\ a1 = e /\ a2 = e /\ b1 = e) /\ (deq => e # d /\ a1 = e /\ a2 = e /\ b1 = d /\ b2 = d)
  BY <1>1, <1>2, <1>3 DEF Wave, Toggles
<1>7. Wave(e1, x1, x2, d1, y1, y2)
  <2>1. CASE enq
    <3>1. e1 # e /\ x1 = e /\ x2 = e /\ d1 = e /\ y1 = e /\ y2 = e
      BY <1>1, <1>2, <1>3, <1>4, <1>5, <1>6, <2>1 DEF Toggles
    <3>2. QED
      BY <3>1 DEF Wave
  <2>2. CASE deq
    <3>1. e1 = e /\ x1 = e /\ x2 = e /\ d1 = e /\ y1 = d /\ y2 = d
      BY <1>1, <1>2, <1>4, <1>5, <1>6, <2>2 DEF Toggles
    <3>2. QED
      BY <3>1 DEF Wave
  <2>3. CASE ~enq /\ ~deq
    BY <1>1, <1>2, <1>4, <1>5, <2>3 DEF Wave, Toggles
  <2>4. QED
    BY <1>1, <2>1, <2>2, <2>3
<1>8. f.s_reset => e1 = 0 /\ x1 = 0 /\ x2 = 0 /\ d1 = 0 /\ y1 = 0 /\ y2 = 0
  BY <1>2, <1>3, <1>4, <1>5
<1>9. QED
  BY <1>2, <1>4, <1>5, <1>6, <1>7, <1>8 DEF e, a1, a2, d, b1, b2, e1, d1, x1, x2, y1, y2, enq

(* A slice out of reset is a tick.                                         *)
LEMMA OneActiveSlice ==
  ASSUME OneInv, Active, OneSnapped
  PROVE  [OnePlace!OnePlace!Next]_(OnePlace!OnePlace!vars)
<1>1. /\ R.in_reset = FALSE /\ R'.in_reset = FALSE /\ deq \in BOOLEAN /\ w \in Data \cup {None}
      /\ OneSrcMoved /\ OneDstMoved /\ (w # None => "src" \in edges) /\ (deq => "dst" \in edges)
  BY DEF OneInv, OneTypes, OneTyped, Active, OneSnapped, Elements
<1>2. /\ R.src_hi \in Toggles /\ R.dSyncReg1 \in Toggles /\ R.dst_hi \in Toggles /\ R.dst_lo \in Toggles
      /\ R.sSyncReg1 \in Toggles /\ R.src_lo \in Toggles
  BY DEF OneInv, OneTypes, OneTyped
<1>3. /\ deq => last.queue # <<>>
      /\ R'.src_hi = IF w # None THEN 1 - R.src_hi ELSE R.src_hi
      /\ R'.dst_lo = IF deq THEN 1 - R.dst_lo ELSE R.dst_lo
  <2>1. deq => last.queue = <<last.word>>
    BY OneTick
  <2>2. <<last.word>> # <<>>
    OBVIOUS
  <2>3. QED
    BY <2>1, <2>2, OneTick DEF OneSnapped
<1>4. /\ last'.queue = After(last.queue, FALSE, deq, w)
      /\ last'.word = IF w # None THEN w ELSE last.word
      /\ last'.dEdges = IF w # None THEN IF "dst" \in edges THEN 1 ELSE 0
                        ELSE IF "dst" \in edges /\ last.dEdges < 2 THEN last.dEdges + 1 ELSE last.dEdges
  <2>1. (deq /\ last.queue # <<>>) = deq
    BY <1>1, <1>3
  <2>2. QED
    BY <2>1 DEF OneSnapped, Active
<1>5. /\ w # None => ~R.s_reset /\ R.src_hi = R.src_lo
      /\ deq => R.dst_hi # R.dst_lo
  BY <1>1 DEF OneSrcMoved, OneDstMoved, OneInv, OneFlags
<1>6. /\ OnePlace!OnePlace!Enqueues(w) = (w # None)
      /\ OnePlace!OnePlace!Dequeues(deq) = deq
  <2>1. w # None => ((R.src_hi = 1) <=> (R.s_reset \/ R.src_lo = 1))
    BY <1>5
  <2>2. deq => ~((R.dst_hi = 1) <=> (R.dst_lo = 1))
    BY <1>2, <1>5 DEF Toggles
  <2>3. QED
    BY <1>1, <2>1, <2>2 DEF OnePlace!OnePlace!Enqueues, OnePlace!OnePlace!Dequeues, OnePlace!OnePlace!sFULL_N,
       OnePlace!OnePlace!dEMPTY_N, R
<1>7. OnePlace!OnePlace!Accepted(w) = w
  BY <1>6 DEF OnePlace!OnePlace!Accepted
<1> DEFINE enqT == R.src_hi = 1  deqT == R.dst_lo = 1
<1>8. /\ (R'.src_hi = 1) = (enqT # (w # None)) /\ (R'.dst_lo = 1) = (deqT # deq)
  BY <1>1, <1>2, <1>3 DEF Toggles
<1>9. ASSUME "src" \in edges
      PROVE  OnePlace!OnePlace!SrcEdge(w, deqT)
  <2>1. R'.s_reset = f.s_reset /\ ~f.s_reset /\ R'.src_lo = R.sSyncReg1 /\ R'.sSyncReg1 = R.dst_lo
    BY <1>1, <1>9 DEF OneSrcMoved, OneSnapped
  <2>2. (R'.s_reset \/ R'.src_lo = 1) = (R.sSyncReg1 = 1)
    BY <2>1
  <2>3. (R'.sSyncReg1 = 1) = deqT
    BY <2>1
  <2>4. QED
    BY <1>4, <1>6, <1>8, <2>2, <2>3 DEF OnePlace!OnePlace!SrcEdge, R
<1>10. ASSUME "src" \notin edges
       PROVE  w = None /\ UNCHANGED OnePlace!OnePlace!sRegs
  <2>1. w = None
    BY <1>1, <1>10
  <2>2. (R'.s_reset <=> R.s_reset) /\ R'.src_lo = R.src_lo /\ R'.sSyncReg1 = R.sSyncReg1 /\ R'.src_hi = R.src_hi
        /\ last'.word = last.word
    BY <1>1, <1>3, <1>4, <1>10, <2>1 DEF OneSrcMoved, OneSnapped
  <2>3. (R'.s_reset \/ R'.src_lo = 1) = (R.s_reset \/ R.src_lo = 1)
    BY <2>2
  <2>4. QED
    BY <2>1, <2>2, <2>3 DEF OnePlace!OnePlace!sRegs, R
<1>11. ASSUME "dst" \in edges
       PROVE  OnePlace!OnePlace!DstEdge(deq, enqT)
  <2>1. R'.dst_hi = R.dSyncReg1 /\ R'.dSyncReg1 = R.src_hi
    BY <1>1, <1>11 DEF OneDstMoved, OneSnapped
  <2>2. QED
    BY <1>6, <1>8, <2>1 DEF OnePlace!OnePlace!DstEdge, R
<1>12. ASSUME "dst" \notin edges
       PROVE  ~deq /\ UNCHANGED OnePlace!OnePlace!dRegs
  <2>1. ~deq
    BY <1>1, <1>12
  <2>2. R'.dst_hi = R.dst_hi /\ R'.dSyncReg1 = R.dSyncReg1 /\ R'.dst_lo = R.dst_lo
    BY <1>1, <1>3, <1>12, <2>1 DEF OneDstMoved, OneSnapped
  <2>3. QED
    BY <2>1, <2>2 DEF OnePlace!OnePlace!dRegs, R
<1>13. /\ OnePlace!OnePlace!CountEdge = IF last.dEdges < 2 THEN last.dEdges + 1 ELSE last.dEdges
       /\ last'.queue = OnePlace!OnePlace!After(last.queue, FALSE, deq, w)
  BY <1>4 DEF OnePlace!OnePlace!CountEdge, OnePlace!OnePlace!EdgeCap, OnePlace!OnePlace!After, After
<1>14. CASE "src" \in edges /\ "dst" \in edges
  <2>1. last'.dEdges = IF OnePlace!OnePlace!Enqueues(w) THEN 1 ELSE OnePlace!OnePlace!CountEdge
    BY <1>4, <1>6, <1>13, <1>14
  <2>2. OnePlace!OnePlace!BothTick(w, deq)
    BY <1>1, <1>6, <1>7, <1>9, <1>11, <1>13, <1>14, <2>1 DEF OnePlace!OnePlace!BothTick, R
  <2>3. QED
    BY <1>1, <2>2 DEF OnePlace!OnePlace!Next, OnePlace!OnePlace!Inputs
<1>15. CASE "src" \in edges /\ "dst" \notin edges
  <2>1. last'.dEdges = IF OnePlace!OnePlace!Enqueues(w) THEN 0 ELSE last.dEdges
    BY <1>4, <1>6, <1>15
  <2>2. deq = FALSE /\ UNCHANGED OnePlace!OnePlace!dRegs
    BY <1>1, <1>12, <1>15
  <2>3. OnePlace!OnePlace!SrcTick(w)
    BY <1>1, <1>6, <1>7, <1>9, <1>13, <1>15, <2>1, <2>2 DEF OnePlace!OnePlace!SrcTick, R
  <2>4. QED
    BY <1>1, <2>3 DEF OnePlace!OnePlace!Next, OnePlace!OnePlace!Inputs
<1>16. CASE "src" \notin edges /\ "dst" \in edges
  <2>1. w = None /\ UNCHANGED OnePlace!OnePlace!sRegs
    BY <1>10, <1>16
  <2>2. last'.dEdges = OnePlace!OnePlace!CountEdge
    BY <1>4, <1>13, <1>16, <2>1
  <2>3. OnePlace!OnePlace!DstTick(deq)
    BY <1>1, <1>6, <1>11, <1>13, <1>16, <2>1, <2>2 DEF OnePlace!OnePlace!DstTick, R
  <2>4. QED
    BY <1>1, <2>3 DEF OnePlace!OnePlace!Next
<1>17. CASE "src" \notin edges /\ "dst" \notin edges
  <2>1. w = None /\ ~deq /\ UNCHANGED OnePlace!OnePlace!sRegs /\ UNCHANGED OnePlace!OnePlace!dRegs
    BY <1>10, <1>12, <1>17
  <2>2. last'.queue = last.queue /\ last'.dEdges = last.dEdges
    BY <1>4, <1>17, <2>1 DEF After
  <2>3. QED
    BY <1>1, <2>1, <2>2 DEF OnePlace!OnePlace!vars, R
<1>18. QED
  BY <1>14, <1>15, <1>16, <1>17

(* A slice in reset, or into or out of it.                                 *)
LEMMA OneResetSlice ==
  ASSUME OneInv, OneSnapped, settled \/ f.in_reset
  PROVE  [OnePlace!OnePlace!Next]_(OnePlace!OnePlace!vars)
<1>1. /\ FieldsAtReset /\ NoCalls /\ f.in_reset \in BOOLEAN /\ R.in_reset \in BOOLEAN /\ last.word \in Data
  BY DEF OneInv, OneTypes, OneTyped
<1>2. /\ R'.src_hi = 0 /\ R'.dst_lo = 0 /\ R'.src_lo = 0 /\ R'.dst_hi = 0 /\ R'.dSyncReg1 = 0 /\ R'.sSyncReg1 = 0
      /\ R'.in_reset = f.in_reset /\ R'.s_reset
  BY <1>1 DEF OneSnapped, FieldsAtReset, AtReset, Still
<1>3. (R'.s_reset \/ R'.src_lo = 1) = TRUE
  BY <1>2
<1>4. CASE f.in_reset
  <2>1. last'.queue = <<>> /\ last'.word = Zero /\ last'.dEdges = 0 /\ R'.in_reset = TRUE
    BY <1>1, <1>2, <1>4 DEF OneSnapped
  <2>2. OnePlace!OnePlace!AssertReset
    BY <1>2, <1>3, <2>1 DEF OnePlace!OnePlace!AssertReset, R
  <2>3. QED
    BY <2>2 DEF OnePlace!OnePlace!Next
<1>5. CASE ~f.in_reset
  <2>1. OneRegsAtReset /\ R.in_reset /\ edges = {}
    BY <1>1, <1>5 DEF OneInv
  <2>2. last.queue = <<>>
    BY <2>1 DEF OneInv, OneWave, OneRegsAtReset
  <2>3. last'.queue = last.queue /\ last'.word = last.word /\ last'.dEdges = last.dEdges
    BY <1>1, <1>5, <2>1, <2>2 DEF OneSnapped, NoCalls, After
  <2>4. (R.s_reset \/ R.src_lo = 1) = TRUE
    BY <2>1 DEF OneRegsAtReset, AtReset
  <2>5. /\ R.src_hi = 0 /\ R.dst_lo = 0 /\ R.dst_hi = 0 /\ R.dSyncReg1 = 0 /\ R.sSyncReg1 = 0
        /\ R'.in_reset = FALSE
    BY <1>1, <1>2, <1>5, <2>1 DEF OneRegsAtReset, AtReset
  <2>6. OnePlace!OnePlace!ReleaseReset
    BY <1>2, <1>3, <2>1, <2>3, <2>4, <2>5 DEF OnePlace!OnePlace!ReleaseReset, OnePlace!OnePlace!sRegs,
       OnePlace!OnePlace!dRegs, R
  <2>7. QED
    BY <2>6 DEF OnePlace!OnePlace!Next
<1>6. QED
  BY <1>1, <1>4, <1>5

(* What the end of any slice leaves of the history.                        *)
LEMMA OneSettles ==
  ASSUME OneInv, OnePlace!SliceComplete, last' = OnePlace!Settled
  PROVE  /\ OneSnapped /\ OneWave' /\ OneTyped(R') /\ last'.word \in Data /\ last'.dEdges \in 0 .. 2
         /\ R'.src_hi \in Toggles /\ R'.dst_lo \in Toggles
         /\ f.in_reset => OneRegsAtReset'
         /\ (~R'.s_reset => (R'.not_full <=> R'.src_hi = R'.src_lo))
         /\ [OnePlace!OnePlace!Next]_(OnePlace!OnePlace!vars)
<1>1. OneSnapped
  BY OneSettledFacts DEF OneInv
<1>2. /\ f.in_reset \in BOOLEAN /\ settled \in BOOLEAN /\ deq \in BOOLEAN /\ w \in Elements
      /\ OneTyped(f) /\ f.src_hi.value \in Toggles /\ f.dst_lo.value \in Toggles
      /\ last.word \in Data /\ last.dEdges \in 0 .. 2
  BY DEF OneInv, OneTypes, OneTyped, VarOf
<1>3. OneTyped(R') /\ R'.src_hi \in Toggles /\ R'.dst_lo \in Toggles
  BY <1>1, <1>2 DEF OneSnapped, OneTyped
<1>4. last'.word \in Data
  BY <1>1, <1>2, WordAssumption DEF OneSnapped, Elements
<1>5. last'.dEdges \in 0 .. 2
  <2>1. last'.dEdges \in {0, 1, last.dEdges} \/ (last.dEdges < 2 /\ last'.dEdges = last.dEdges + 1)
    BY <1>1, <1>2 DEF OneSnapped
  <2>2. QED
    BY <1>2, <2>1
<1>6. CASE settled \/ f.in_reset
  <2>1. FieldsAtReset /\ NoCalls /\ [OnePlace!OnePlace!Next]_(OnePlace!OnePlace!vars)
    BY <1>1, <1>6, OneResetSlice DEF OneInv
  <2>2. last'.queue = <<>>
    <3>1. CASE f.in_reset
      BY <1>1, <3>1 DEF OneSnapped
    <3>2. CASE ~f.in_reset
      <4>1. OneRegsAtReset
        BY <1>2, <1>6, <3>2 DEF OneInv, OneTypes, OneTyped
      <4>2. last.queue = <<>>
        BY <4>1 DEF OneInv, OneWave, OneRegsAtReset
      <4>3. QED
        BY <1>1, <2>1, <3>2, <4>2 DEF OneSnapped, NoCalls, After
    <3>3. QED
      BY <3>1, <3>2
  <2>3. /\ R'.src_hi = 0 /\ R'.dst_lo = 0 /\ R'.src_lo = 0 /\ R'.dst_hi = 0 /\ R'.dSyncReg1 = 0
        /\ R'.sSyncReg1 = 0 /\ R'.s_reset /\ R'.d_reset
        /\ f.in_reset => last'.word = Zero /\ last'.dEdges = 0
    BY <1>1, <2>1 DEF OneSnapped, FieldsAtReset, AtReset, Still
  <2>4. f.in_reset => OneRegsAtReset'
    BY <2>3 DEF OneRegsAtReset, AtReset, R
  <2>5. OneWave'
    BY <2>2, <2>3 DEF OneWave, Wave, R
  <2>6. QED
    BY <1>1, <1>3, <1>4, <1>5, <2>1, <2>3, <2>4, <2>5
<1>7. CASE ~(settled \/ f.in_reset)
  <2>1. Active
    BY <1>7 DEF Active, OnePlace!SliceComplete
  <2>2. /\ Wave(f.src_hi.value, f.dSyncReg1, f.dst_hi, f.dst_lo.value, f.sSyncReg1, f.src_lo)
        /\ f.s_reset => /\ f.src_hi.value = 0 /\ f.dSyncReg1 = 0 /\ f.dst_hi = 0 /\ f.dst_lo.value = 0
                        /\ f.sSyncReg1 = 0 /\ f.src_lo = 0
        /\ deq => R.src_hi # R.dst_lo /\ last.queue = <<last.word>> /\ w = None
        /\ w # None => R.src_hi = R.dst_lo /\ last.queue = <<>>
        /\ f.src_hi.value = IF w # None THEN 1 - R.src_hi ELSE R.src_hi
        /\ f.dst_lo.value = IF deq THEN 1 - R.dst_lo ELSE R.dst_lo
    BY <2>1, OneTick
  <2>3. /\ R.src_hi \in Toggles /\ R.dst_lo \in Toggles
        /\ last.queue = IF R.src_hi = R.dst_lo THEN <<>> ELSE <<last.word>>
    BY DEF OneInv, OneTypes, OneWave
  <2>4. last'.queue = IF f.src_hi.value = f.dst_lo.value THEN <<>> ELSE <<last'.word>>
    <3>1. last'.queue = After(last.queue, FALSE, deq /\ last.queue # <<>>, w)
          /\ last'.word = IF w # None THEN w ELSE last.word
      BY <1>1, <1>7 DEF OneSnapped
    <3>2. CASE w # None
      <4>1. ~deq /\ last.queue = <<>> /\ f.src_hi.value # f.dst_lo.value
        BY <2>2, <2>3, <3>2 DEF Toggles
      <4>2. Append(<<>>, w) = <<w>>
        OBVIOUS
      <4>3. QED
        BY <3>1, <3>2, <4>1, <4>2 DEF After
    <3>3. CASE w = None /\ deq
      <4>1. last.queue = <<last.word>> /\ f.src_hi.value = f.dst_lo.value
        BY <2>2, <2>3, <3>3 DEF Toggles
      <4>2. Tail(<<last.word>>) = <<>> /\ <<last.word>> # <<>>
        OBVIOUS
      <4>3. QED
        BY <3>1, <3>3, <4>1, <4>2 DEF After
    <3>4. CASE w = None /\ ~deq
      BY <2>2, <2>3, <3>1, <3>4 DEF After
    <3>5. QED
      BY <3>2, <3>3, <3>4
  <2>5. OneWave'
    BY <1>1, <2>2, <2>4 DEF OneWave, OneSnapped, R
  <2>6. ~R'.s_reset => (R'.not_full <=> R'.src_hi = R'.src_lo)
    BY <1>1, <2>1 DEF OneSnapped, OneInv, OneSrcMoved, OneFlags, Active, Unwritten
  <2>7. [OnePlace!OnePlace!Next]_(OnePlace!OnePlace!vars)
    BY <1>1, <2>1, OneActiveSlice
  <2>8. QED
    BY <1>1, <1>3, <1>4, <1>5, <1>7, <2>5, <2>6, <2>7
<1>8. QED
  BY <1>6, <1>7

(* A new slice begins with the registers of the old.                       *)
LEMMA OneNextSliceKeeps ==
  ASSUME OneInv, OnePlace!NextSlice
  PROVE  OneInv' /\ [OnePlace!OnePlace!Next]_(OnePlace!OnePlace!vars)
<1> DEFINE hi == OnePlace!H!Later(f.src_hi)  lo == OnePlace!H!Later(f.dst_lo)
           sc == OnePlace!H!LaterHandshake(f.sClrSync)  dc == OnePlace!H!LaterHandshake(f.dClrSync)
<1>1. /\ OnePlace!SliceComplete /\ last' = OnePlace!Settled /\ settled' = FALSE /\ edges' = {} /\ w' = None
      /\ deq' = FALSE /\ clr' = FALSE
      /\ f' = [f EXCEPT !.src_hi = hi, !.dst_lo = lo, !.sClrSync = sc, !.dClrSync = dc]
  BY DEF OnePlace!NextSlice, OnePlace!NewSlice
<1>2. /\ DOMAIN f = FieldNames /\ OneTyped(f) /\ f.did_enq \in BOOLEAN /\ f.did_deq \in BOOLEAN
      /\ f.src_hi \in VarOf(Toggles) /\ f.dst_lo \in VarOf(Toggles) /\ f.in_reset \in BOOLEAN
  BY DEF OneInv, OneTypes, OneTyped
<1>3. /\ hi = [value |-> f.src_hi.value, prev_value |-> f.src_hi.prev_value, written_at |-> FALSE]
      /\ lo = [value |-> f.dst_lo.value, prev_value |-> f.dst_lo.prev_value, written_at |-> FALSE]
  <2>1. ASSUME NEW x \in VarOf(Toggles), NEW y, y = OnePlace!H!Later(x)
        PROVE  y = [value |-> x.value, prev_value |-> x.prev_value, written_at |-> FALSE]
    BY <2>1 DEF OnePlace!H!Later, VarOf
  <2>2. QED
    BY <1>2, <2>1
<1> HIDE DEF hi, lo, sc, dc
<1>4. f'.src_hi = hi /\ f'.dst_lo = lo /\ Kept({"src_hi", "dst_lo", "sClrSync", "dClrSync"})
  BY <1>1, <1>2 DEF FieldNames, Kept
<1>5. /\ f'.src_lo = f.src_lo /\ f'.dst_hi = f.dst_hi
      /\ f'.dSyncReg1 = f.dSyncReg1 /\ f'.sSyncReg1 = f.sSyncReg1 /\ f'.src_hi_plus_1 = f.src_hi_plus_1
      /\ f'.dst_lo_plus_1 = f.dst_lo_plus_1 /\ f'.not_full = f.not_full
      /\ f'.in_reset = f.in_reset /\ f'.s_reset = f.s_reset /\ f'.d_reset = f.d_reset
      /\ f'.did_enq = f.did_enq /\ f'.did_deq = f.did_deq /\ DOMAIN f' = FieldNames
  BY <1>4 DEF Kept, FieldNames
<1>6. /\ OneSnapped /\ OneWave' /\ OneTyped(R') /\ last'.word \in Data /\ last'.dEdges \in 0 .. 2
      /\ R'.src_hi \in Toggles /\ R'.dst_lo \in Toggles
      /\ f.in_reset => OneRegsAtReset'
      /\ (~R'.s_reset => (R'.not_full <=> R'.src_hi = R'.src_lo))
      /\ [OnePlace!OnePlace!Next]_(OnePlace!OnePlace!vars)
  BY <1>1, OneSettles
<1>7. OneTypes'
  <2>1. hi \in VarOf(Toggles) /\ lo \in VarOf(Toggles)
    BY <1>2, <1>3 DEF VarOf
  <2>2. OneTyped(f)'
    BY <1>2, <1>5 DEF OneTyped
  <2>3. OneTyped(R)'
    BY <1>6 DEF R
  <2>4. last'.notFull \in BOOLEAN /\ last'.notEmpty \in BOOLEAN
    BY <1>6 DEF OneSnapped
  <2>5. QED
    BY <1>1, <1>2, <1>4, <1>5, <1>6, <2>1, <2>2, <2>3, <2>4 DEF OneTypes, R, Elements
<1>8. f'.src_hi.value = f.src_hi.value /\ f'.dst_lo.value = f.dst_lo.value /\ ~f'.src_hi.written_at /\ ~f'.dst_lo.written_at
  BY <1>3, <1>4
<1>9. OneFlags'
  BY <1>5, <1>6, <1>8 DEF OneFlags, OneSnapped, R, OneInv
<1>10. ASSUME settled \/ f.in_reset
       PROVE  ~f.did_enq /\ ~f.did_deq
  BY <1>10 DEF OneInv, FieldsAtReset
<1>11. ASSUME ~settled, ~f.in_reset
       PROVE  ~f.did_enq /\ ~f.did_deq
  BY <1>1, <1>11 DEF OneInv, OneSrcMoved, OneDstMoved, OnePlace!SliceComplete
<1>12. ~f.did_enq /\ ~f.did_deq
  BY <1>10, <1>11
<1>13. CASE f.in_reset
  <2>1. FieldsAtReset
    BY <1>13 DEF OneInv
  <2>2. FieldsAtReset'
    BY <1>3, <1>4, <1>5, <2>1 DEF FieldsAtReset, AtReset, Still
  <2>3. NoCalls' /\ f'.in_reset = R'.in_reset
    BY <1>1, <1>5, <1>6 DEF NoCalls, OneSnapped
  <2>4. QED
    BY <1>1, <1>5, <1>6, <1>7, <1>9, <1>13, <2>2, <2>3 DEF OneInv, R
<1>14. CASE ~f.in_reset
  <2>1. f'.in_reset = R'.in_reset /\ ~R'.in_reset
    BY <1>5, <1>6, <1>14 DEF OneSnapped
  <2>2. OneSrcMoved'
    BY <1>1, <1>2, <1>5, <1>6, <1>8, <1>12 DEF OneSrcMoved, OneSnapped, R, Unwritten
  <2>3. OneDstMoved'
    BY <1>1, <1>2, <1>5, <1>6, <1>8, <1>12 DEF OneDstMoved, OneSnapped, R, Unwritten
  <2>4. QED
    BY <1>1, <1>5, <1>6, <1>7, <1>9, <1>14, <2>1, <2>2, <2>3 DEF OneInv, R
<1>15. QED
  BY <1>2, <1>6, <1>13, <1>14

(* A reset that begins or ends.                                            *)
LEMMA OneResetKeeps ==
  ASSUME OneInv, NEW asserted \in BOOLEAN, OnePlace!reset_sRST(asserted)
  PROVE  OneInv' /\ [OnePlace!OnePlace!Next]_(OnePlace!OnePlace!vars)
<1>1. /\ ~settled /\ OnePlace!SliceComplete /\ settled' = TRUE /\ f.in_reset # asserted
      /\ f' = IF asserted THEN OnePlace!AssertedFields
              ELSE [f EXCEPT !.in_reset = FALSE, !.sClrSync = OnePlace!H!reset_sRST(@, FALSE, 0),
                             !.dClrSync = OnePlace!H!reset_sRST(@, FALSE, 0)]
      /\ last' = OnePlace!Settled /\ edges' = {} /\ w' = None /\ deq' = FALSE /\ clr' = FALSE
  BY DEF OnePlace!reset_sRST, OnePlace!NewSlice
<1>2. /\ DOMAIN f = FieldNames /\ OneTyped(f) /\ f.src_hi \in VarOf(Toggles) /\ f.dst_lo \in VarOf(Toggles)
      /\ f.in_reset \in BOOLEAN /\ f.did_enq \in BOOLEAN /\ f.did_deq \in BOOLEAN
      /\ f.in_reset = R.in_reset
  BY <1>1 DEF OneInv, OneTypes, OneTyped
<1>3. /\ OneSnapped /\ OneWave' /\ OneTyped(R') /\ last'.word \in Data /\ last'.dEdges \in 0 .. 2
      /\ R'.src_hi \in Toggles /\ R'.dst_lo \in Toggles
      /\ f.in_reset => OneRegsAtReset'
      /\ (~R'.s_reset => (R'.not_full <=> R'.src_hi = R'.src_lo))
      /\ [OnePlace!OnePlace!Next]_(OnePlace!OnePlace!vars)
  BY <1>1, OneSettles
<1>4. /\ DOMAIN f' = FieldNames /\ f'.not_full = f.not_full /\ f'.in_reset = asserted
      /\ f'.src_hi_plus_1 = 1 - f'.src_hi.value /\ f'.dst_lo_plus_1 = 1 - f'.dst_lo.value
      /\ f'.src_hi \in VarOf(Toggles) /\ f'.dst_lo \in VarOf(Toggles)
      /\ f'.did_enq = FALSE /\ f'.did_deq = FALSE /\ f'.s_reset = TRUE /\ f'.d_reset = TRUE
      /\ FieldsAtReset'
  <2>1. CASE asserted
    <3> DEFINE hi == OnePlace!H!force(f.src_hi, 0)  lo == OnePlace!H!force(f.dst_lo, 0)
               sc == OnePlace!H!reset_sRST(f.sClrSync, TRUE, 0)  dc == OnePlace!H!reset_sRST(f.dClrSync, TRUE, 0)
    <3>1. f' = [f EXCEPT !.in_reset = TRUE, !.src_lo = 0, !.dst_hi = 0, !.src_hi = hi, !.dst_lo = lo,
                         !.src_hi_plus_1 = OnePlace!Succ(0), !.dst_lo_plus_1 = OnePlace!Succ(0),
                         !.dSyncReg1 = 0, !.sSyncReg1 = 0, !.sCountReg = 0, !.dCountReg = 0,
                         !.s_reset = TRUE, !.d_reset = TRUE, !.did_enq = FALSE, !.did_deq = FALSE,
                         !.did_sclear = FALSE, !.did_dclear = FALSE, !.sClrSync = sc, !.dClrSync = dc]
      BY <1>1, <2>1 DEF OnePlace!AssertedFields
    <3>2. /\ hi = [value |-> 0, prev_value |-> 0, written_at |-> f.src_hi.written_at] /\ hi \in VarOf(Toggles)
          /\ lo = [value |-> 0, prev_value |-> 0, written_at |-> f.dst_lo.written_at] /\ lo \in VarOf(Toggles)
      BY <1>2, OneForced
    <3>3. OnePlace!Succ(0) = 1
      BY OneNames DEF Toggles
    <3> HIDE DEF hi, lo, sc, dc
    <3>4. /\ DOMAIN f' = FieldNames /\ f'.not_full = f.not_full /\ f'.in_reset = TRUE
          /\ f'.src_hi = hi /\ f'.dst_lo = lo /\ f'.src_hi_plus_1 = 1 /\ f'.dst_lo_plus_1 = 1
          /\ f'.src_lo = 0 /\ f'.dst_hi = 0 /\ f'.dSyncReg1 = 0 /\ f'.sSyncReg1 = 0
          /\ f'.did_enq = FALSE /\ f'.did_deq = FALSE /\ f'.s_reset = TRUE /\ f'.d_reset = TRUE
      BY <1>2, <3>1, <3>3 DEF FieldNames
    <3>5. FieldsAtReset'
      BY <3>2, <3>4 DEF FieldsAtReset, AtReset, Still
    <3>6. hi.value = 0 /\ lo.value = 0 /\ asserted = TRUE
      BY <2>1, <3>2
    <3>7. f'.src_hi_plus_1 = 1 - f'.src_hi.value /\ f'.dst_lo_plus_1 = 1 - f'.dst_lo.value
      BY <3>4, <3>6
    <3>8. f'.src_hi \in VarOf(Toggles) /\ f'.dst_lo \in VarOf(Toggles)
      BY <3>2, <3>4
    <3>9. f'.in_reset = asserted
      BY <3>4, <3>6
    <3>10. QED
      BY <3>4, <3>5, <3>7, <3>8, <3>9, Zenon
  <2>2. CASE ~asserted
    <3> DEFINE sc == OnePlace!H!reset_sRST(f.sClrSync, FALSE, 0)  dc == OnePlace!H!reset_sRST(f.dClrSync, FALSE, 0)
    <3>1. f' = [f EXCEPT !.in_reset = FALSE, !.sClrSync = sc, !.dClrSync = dc]
      BY <1>1, <2>2
    <3> HIDE DEF sc, dc
    <3>2. f'.in_reset = FALSE /\ Kept({"in_reset", "sClrSync", "dClrSync"})
      BY <1>2, <3>1 DEF FieldNames, Kept
    <3>3. f.in_reset /\ FieldsAtReset
      BY <1>1, <1>2, <2>2 DEF OneInv
    <3>4. /\ DOMAIN f' = FieldNames /\ f'.not_full = f.not_full
          /\ f'.src_hi = f.src_hi /\ f'.dst_lo = f.dst_lo
          /\ f'.src_hi_plus_1 = f.src_hi_plus_1 /\ f'.dst_lo_plus_1 = f.dst_lo_plus_1
          /\ f'.src_lo = f.src_lo /\ f'.dst_hi = f.dst_hi /\ f'.dSyncReg1 = f.dSyncReg1 /\ f'.sSyncReg1 = f.sSyncReg1
          /\ f'.did_enq = f.did_enq /\ f'.did_deq = f.did_deq /\ f'.s_reset = f.s_reset /\ f'.d_reset = f.d_reset
      BY <3>2 DEF Kept, FieldNames
    <3>5. FieldsAtReset'
      BY <3>3, <3>4 DEF FieldsAtReset, AtReset, Still
    <3>6. f.did_enq = FALSE /\ f.did_deq = FALSE /\ f.s_reset = TRUE /\ f.d_reset = TRUE
      BY <1>2, <3>3 DEF FieldsAtReset, AtReset, OneTyped
    <3>7. f'.in_reset = asserted
      BY <2>2, <3>2
    <3>8. f.src_hi_plus_1 = 1 - f.src_hi.value /\ f.dst_lo_plus_1 = 1 - f.dst_lo.value
      BY DEF OneInv, OneFlags
    <3>9. f'.src_hi_plus_1 = 1 - f'.src_hi.value /\ f'.dst_lo_plus_1 = 1 - f'.dst_lo.value
      BY <3>4, <3>8
    <3>10. f'.src_hi \in VarOf(Toggles) /\ f'.dst_lo \in VarOf(Toggles)
      BY <1>2, <3>4
    <3>11. f'.did_enq = FALSE /\ f'.did_deq = FALSE /\ f'.s_reset = TRUE /\ f'.d_reset = TRUE
      BY <3>4, <3>6
    <3>12. DOMAIN f' = FieldNames /\ f'.not_full = f.not_full
      BY <3>4
    <3>13. QED
      BY <3>5, <3>7, <3>9, <3>10, <3>11, <3>12, Zenon
  <2>3. QED
    BY <2>1, <2>2
<1>5. OneTypes'
  <2>1. OneTyped(f)'
    BY <1>2, <1>4 DEF OneTyped, FieldsAtReset, AtReset, Toggles
  <2>2. OneTyped(R)'
    BY <1>3 DEF R
  <2>3. last'.notFull \in BOOLEAN /\ last'.notEmpty \in BOOLEAN
    BY <1>3 DEF OneSnapped
  <2>4. QED
    BY <1>1, <1>3, <1>4, <2>1, <2>2, <2>3 DEF OneTypes, R, Elements
<1>6. OneFlags'
  BY <1>1, <1>3, <1>4 DEF OneFlags, OneSnapped, R, OneInv
<1>7. f'.in_reset # R'.in_reset /\ (R'.in_reset => f.in_reset)
  BY <1>1, <1>3, <1>4 DEF OneSnapped
<1>8. QED
  BY <1>1, <1>3, <1>4, <1>5, <1>6, <1>7 DEF OneInv, NoCalls, R

(* Every step.                                                             *)
LEMMA OneCallsAside ==
  ASSUME last' = last
  PROVE  UNCHANGED OnePlace!OnePlace!vars
BY DEF OnePlace!OnePlace!vars, OnePlace!OnePlace!sRegs, OnePlace!OnePlace!dRegs

LEMMA OneStep ==
  ASSUME OneInv, OnePlace!FIFONext
  PROVE  OneInv' /\ [OnePlace!OnePlace!Next]_(OnePlace!OnePlace!vars)
<1>1. CASE \E asserted \in BOOLEAN : OnePlace!reset_sRST(asserted)
  BY <1>1, OneResetKeeps
<1>2. CASE OnePlace!NextSlice
  BY <1>2, OneNextSliceKeeps
<1>3. CASE ~settled /\ OnePlace!Calls /\ UNCHANGED <<settled, lead>>
  <2>1. CASE \E x \in Data : OnePlace!METH_enq(x)
    BY <1>3, <2>1, OneEnqKeeps, OneCallsAside DEF OnePlace!METH_enq
  <2>2. CASE OnePlace!METH_deq
    BY <1>3, <2>2, OneDeqKeeps, OneCallsAside DEF OnePlace!METH_deq
  <2>3. CASE OnePlace!METH_sClear
    BY <2>3 DEF OnePlace!METH_sClear
  <2>4. CASE OnePlace!clk_src
    BY <1>3, <2>4, OneSrcClkKeeps, OneCallsAside DEF OnePlace!clk_src
  <2>5. CASE OnePlace!clk_dst
    BY <1>3, <2>5, OneDstClkKeeps, OneCallsAside DEF OnePlace!clk_dst
  <2>6. QED
    BY <1>3, <2>1, <2>2, <2>3, <2>4, <2>5 DEF OnePlace!Calls
<1>4. QED
  BY <1>1, <1>2, <1>3 DEF OnePlace!FIFONext

LEMMA OneStart ==
  ASSUME OnePlace!FIFOInit
  PROVE  OneInv /\ OnePlace!OnePlace!Init
<1> DEFINE z == OnePlace!H!NewSyncVar(0)
           zero == OnePlace!H!NewHandshake(0)
           mem == [a \in 0 .. 1 - 1 |-> None]
           g == [data |-> mem, dDoutReg |-> None,
                 src_lo |-> 0, src_hi |-> z, dst_lo |-> z, dst_hi |-> 0,
                 dSyncReg1 |-> 0, sSyncReg1 |-> 0, src_hi_plus_1 |-> OnePlace!Succ(0), dst_lo_plus_1 |-> OnePlace!Succ(0),
                 sCountReg |-> 0, dCountReg |-> 0, not_empty |-> FALSE, not_full |-> TRUE,
                 in_reset |-> TRUE, s_reset |-> TRUE, d_reset |-> TRUE,
                 did_enq |-> FALSE, did_deq |-> FALSE, did_sclear |-> FALSE, did_dclear |-> FALSE,
                 sClrSync |-> zero, dClrSync |-> zero]
           regs == [f EXCEPT !.src_hi = OnePlace!H!probe(@), !.dst_lo = OnePlace!H!probe(@)]
<1>1. f = g /\ edges = {} /\ w = None /\ deq = FALSE /\ clr = FALSE /\ settled = FALSE
  BY Zenon DEF OnePlace!FIFOInit
<1>2. /\ R = regs /\ last.notFull = OnePlace!METH_notFull /\ last.notEmpty = OnePlace!METH_notEmpty
      /\ last.queue = <<>> /\ last.word = Zero /\ last.dEdges = 0
  BY DEF OnePlace!FIFOInit, OnePlace!Snapshot, R
<1>3. z.value = 0 /\ z.prev_value = 0 /\ z \in VarOf(Toggles)
  BY DEF OnePlace!H!NewSyncVar, VarOf, Toggles
<1>4. OnePlace!Succ(0) = 1
  BY OneNames DEF Toggles
<1> HIDE DEF z, zero, mem, regs
<1>5. /\ DOMAIN f = FieldNames
      /\ f.src_lo = 0 /\ f.src_hi = z /\ f.dst_lo = z /\ f.dst_hi = 0
      /\ f.dSyncReg1 = 0 /\ f.sSyncReg1 = 0 /\ f.src_hi_plus_1 = 1 /\ f.dst_lo_plus_1 = 1 /\ f.not_full = TRUE
      /\ f.in_reset = TRUE /\ f.s_reset = TRUE /\ f.d_reset = TRUE
      /\ f.did_enq = FALSE /\ f.did_deq = FALSE
  BY <1>1, <1>4 DEF FieldNames
<1> HIDE DEF g
<1>6. /\ R.src_lo = 0 /\ R.src_hi = 0 /\ R.dst_lo = 0 /\ R.dst_hi = 0
      /\ R.dSyncReg1 = 0 /\ R.sSyncReg1 = 0 /\ R.not_full = TRUE
      /\ R.in_reset = TRUE /\ R.s_reset = TRUE /\ R.d_reset = TRUE
  BY <1>2, <1>3, <1>5 DEF FieldNames, OnePlace!H!probe, regs
<1>7. last.notFull = FALSE /\ last.notEmpty = FALSE
  BY <1>2, <1>5 DEF OnePlace!METH_notFull, OnePlace!METH_notEmpty
<1>8. OneTyped(f) /\ OneTyped(R)
  BY <1>5, <1>6 DEF OneTyped, Toggles
<1>9. OneTypes
  <2>1. f.src_hi \in VarOf(Toggles) /\ f.dst_lo \in VarOf(Toggles) /\ R.src_hi \in Toggles /\ R.dst_lo \in Toggles
    BY <1>3, <1>5, <1>6 DEF Toggles
  <2>2. /\ edges \subseteq {"src", "dst"} /\ w \in Elements /\ deq \in BOOLEAN /\ clr = FALSE /\ settled \in BOOLEAN
    BY <1>1 DEF Elements
  <2>3. last.word \in Data /\ last.dEdges \in 0 .. 2
    BY <1>2, WordAssumption
  <2>4. /\ f.did_enq \in BOOLEAN /\ f.did_deq \in BOOLEAN
        /\ last.notFull \in BOOLEAN /\ last.notEmpty \in BOOLEAN
    BY <1>5, <1>7
  <2>5. QED
    BY <1>5, <1>8, <2>1, <2>2, <2>3, <2>4 DEF OneTypes
<1>10. OneFlags
  BY <1>3, <1>5, <1>6, <1>7 DEF OneFlags
<1>11. OneWave
  BY <1>2, <1>6 DEF OneWave, Wave
<1>12. FieldsAtReset /\ OneRegsAtReset /\ NoCalls
  BY <1>1, <1>2, <1>3, <1>5, <1>6 DEF FieldsAtReset, OneRegsAtReset, AtReset, Still, NoCalls
<1>13. OneInv
  BY <1>1, <1>5, <1>6, <1>9, <1>10, <1>11, <1>12 DEF OneInv
<1>14. OnePlace!OnePlace!Init
  BY <1>2, <1>6 DEF OnePlace!OnePlace!Init, R
<1>15. QED
  BY <1>13, <1>14

(* In a behaviour of the class, among those of the others.                 *)
WhichOne == which = "OnePlace" => OneInv

LEMMA OneAlone ==
  ASSUME which = "OnePlace", WhichOne, [MCNext]_allVars
  PROVE  OneInv' /\ [OnePlace!OnePlace!Next]_(OnePlace!OnePlace!vars)
<1>1. OnePlace!FIFONext \/ UNCHANGED <<f, edges, w, deq, clr, settled, last>>
  BY DEF MCNext, Crossing, allVars, crossVars, fifoVars
<1>2. CASE OnePlace!FIFONext
  BY <1>2, OneStep DEF WhichOne
<1>3. CASE UNCHANGED <<f, edges, w, deq, clr, settled, last>>
  BY <1>3, OneCallsAside DEF WhichOne, OneInv, OneTypes, OneFlags, OneWave, FieldsAtReset, OneRegsAtReset, AtReset,
     NoCalls, OneSrcMoved, OneDstMoved, OneTyped, R, Still
<1>4. QED
  BY <1>1, <1>2, <1>3

(* With one place it does what SyncFIFO1.v does: the flag s_reset stands   *)
(* for the toggle that starts at 1 (bs_prim_mod_synchronizers.h:845-1123). *)
THEOREM OnePlaceIsVerilog == MCSpec => OnePlaceRefined
<1>1. MCInit => WhichOne /\ (which = "OnePlace" => OnePlace!OnePlace!Init)
  BY OneStart DEF MCInit, WhichOne
<1>2. WhichOne /\ [MCNext]_allVars => WhichOne'
  <2>1. ASSUME [MCNext]_allVars
        PROVE  which' = which
    BY <2>1 DEF MCNext, allVars
  <2>2. QED
    BY <2>1, OneAlone DEF WhichOne
<1>3. WhichOne /\ [MCNext]_allVars =>
        [which = "OnePlace" => [OnePlace!OnePlace!Next]_(OnePlace!OnePlace!vars)]_allVars
  BY OneAlone
<1>4. QED
  BY <1>1, <1>2, <1>3, PTL DEF MCSpec, OnePlaceRefined
=============================================================================
