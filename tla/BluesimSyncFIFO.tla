--------------------------- MODULE BluesimSyncFIFO ---------------------------
(***************************************************************************)
(* Class MOD_SyncFIFO of Bluesim: the twin of Verilog/SyncFIFO.v, for      *)
(* depth 1 of SyncFIFO1.v, and with hasClear of SyncFIFOLevel.v.  In a     *)
(* time slice the rules of a side come before its clock function, what     *)
(* the sides do in any order; then a reset may begin or end.  A clock      *)
(* function whose gate is off returns at once: it is no edge here.         *)
(***************************************************************************)
EXTENDS FIFOPointers, Integers

CONSTANTS
  hasClear,       \* constructor argument
  ShortReset,     \* a reset may end before the destination has had an edge
  MaxLead,        \* with clears: edges of one clock between two of the other, at most
  Zero            \* word of a one-place FIFO in reset

VARIABLES
  f,                        \* the fields of the object
  edges, w, deq, clr,       \* this slice: edges, value enqueued, dequeue, clear under way
  settled,                  \* the slice has come to the reset
  lead,                     \* the edges in a row of the source, or minus those of the destination
  last                      \* history: the registers of the Verilog, and the queue the calls amount to

fifoVars == <<f, edges, w, deq, clr, settled, lead, last>>

H == INSTANCE HandshakeClass

MutNotEmpty == ~f.d_reset /\ f.not_empty

METH_notEmpty == ~f.d_reset /\ (IF Depth # 1 THEN f.not_empty ELSE f.dst_hi # H!probe(f.dst_lo))
METH_notFull  == ~f.s_reset /\ f.not_full

Snapshot(queue, word, dEdges) ==
  [regs |-> [f EXCEPT !.src_hi = H!probe(@), !.dst_lo = H!probe(@)],
   notFull |-> METH_notFull, notEmpty |-> METH_notEmpty, queue |-> queue, word |-> word, dEdges |-> dEdges]

(* After the reset with which a simulation begins. *)
FIFOInit ==
  /\ f = [data |-> [a \in 0 .. Depth - 1 |-> None], dDoutReg |-> None,
          src_lo |-> 0, src_hi |-> H!NewSyncVar(0), dst_lo |-> H!NewSyncVar(0), dst_hi |-> 0,
          dSyncReg1 |-> 0, sSyncReg1 |-> 0, src_hi_plus_1 |-> Succ(0), dst_lo_plus_1 |-> Succ(0),
          sCountReg |-> 0, dCountReg |-> 0, not_empty |-> FALSE, not_full |-> TRUE,
          in_reset |-> TRUE, s_reset |-> TRUE, d_reset |-> TRUE,
          did_enq |-> FALSE, did_deq |-> FALSE, did_sclear |-> FALSE, did_dclear |-> FALSE,
          sClrSync |-> H!NewHandshake(0), dClrSync |-> H!NewHandshake(0)]
  /\ edges = {} /\ w = None /\ deq = FALSE /\ clr = FALSE /\ settled = FALSE /\ lead = 0
  /\ last = Snapshot(<<>>, Zero, 0)

(***************************************************************************)
(* The methods.                                                            *)
(***************************************************************************)
METH_enq(x) ==
  /\ "src" \notin edges /\ METH_notFull /\ ~f.did_enq
  /\ f' = [f EXCEPT !.dDoutReg = IF Depth = 1 THEN x ELSE @,
                    !.data[Addr(H!read(f.src_hi))] = x, !.did_enq = TRUE]
  /\ w' = x /\ UNCHANGED <<edges, deq, clr, last>>
METH_deq ==
  /\ "dst" \notin edges /\ METH_notEmpty /\ ~f.did_deq
  /\ f' = [f EXCEPT !.did_deq = TRUE]
  /\ deq' = TRUE /\ UNCHANGED <<edges, w, clr, last>>
METH_sClear ==
  /\ hasClear /\ "src" \notin edges /\ H!METH_RDY_send(f.sClrSync) /\ ~f.did_sclear
  /\ f' = [f EXCEPT !.did_sclear = TRUE, !.sClrSync = H!METH_send(@)]
  /\ clr' = TRUE /\ UNCHANGED <<edges, w, deq, last>>
METH_dClear ==
  /\ hasClear /\ "dst" \notin edges /\ H!METH_RDY_send(f.dClrSync) /\ ~f.did_dclear
  /\ f' = [f EXCEPT !.did_dclear = TRUE, !.dClrSync = H!METH_send(@)]
  /\ clr' = TRUE /\ UNCHANGED <<edges, w, deq, last>>

(***************************************************************************)
(* The clock functions.  A side is held at zero in reset, and as long as a *)
(* clear of its own is under way or one of the other side arrives.         *)
(***************************************************************************)
sClearing == hasClear /\ (f.did_sclear \/ ~H!METH_RDY_send(f.sClrSync) \/ H!METH_pulse(f.dClrSync))
MutdClearing == hasClear /\ (f.did_dclear \/ ~H!METH_RDY_send(f.dClrSync))
dClearing == hasClear /\ (f.did_dclear \/ ~H!METH_RDY_send(f.dClrSync) \/ H!METH_pulse(f.sClrSync))

(* A one-place FIFO is asked after the synchronizer has moved. *)
MutRoom(hi, held) == IF Depth = 1 THEN hi = f.sSyncReg1 ELSE ~held /\ Opposite(hi) # f.sSyncReg1
Room(hi, held) == IF Depth = 1 THEN hi = f.sSyncReg1 ELSE ~held /\ Opposite(hi) # f.src_lo

clk_src ==
  LET held == f.in_reset \/ sClearing
      hi   == CASE held -> H!force(f.src_hi, 0)
                [] ~held /\ f.did_enq -> H!write(f.src_hi, f.src_hi_plus_1)
                [] OTHER -> f.src_hi
  IN
  /\ "src" \notin edges /\ edges' = edges \cup {"src"}
  /\ f' = [f EXCEPT !.s_reset = f.in_reset, !.did_sclear = FALSE, !.did_enq = FALSE, !.src_hi = hi,
                    !.src_hi_plus_1 = IF held THEN Succ(0) ELSE IF f.did_enq THEN Succ(@) ELSE @,
                    !.not_full = Room(H!probe(hi), held),
                    !.sCountReg = CASE Depth = 1 -> H!Flag(~Room(H!probe(hi), held)) [] Depth # 1 /\ held -> 0
                                    [] OTHER -> Behind(H!probe(hi), f.src_lo),
                    !.src_lo = f.sSyncReg1, !.sSyncReg1 = H!read(f.dst_lo),
                    !.sClrSync = H!clk_src(@, FALSE), !.dClrSync = H!clk_dst(@)]
  /\ clr' = (clr \/ sClearing) /\ UNCHANGED <<w, deq, last>>

(* The element at the true pointer is fetched into the head register. *)
clk_dst ==
  LET held   == f.in_reset \/ dClearing
      lo     == H!read(f.dst_lo)
      some   == f.dst_hi # lo
      fetch  == ~held /\ some /\ (f.did_deq \/ (Depth # 1 /\ ~f.not_empty))
      newLo  == CASE held -> H!force(f.dst_lo, 0) [] fetch -> H!write(f.dst_lo, f.dst_lo_plus_1)
                  [] OTHER -> f.dst_lo
      loaded == CASE Depth = 1 -> H!probe(newLo) = f.dSyncReg1 [] Depth # 1 /\ held -> FALSE
                  [] OTHER -> fetch \/ (f.not_empty /\ ~f.did_deq)
  IN
  /\ "dst" \notin edges /\ edges' = edges \cup {"dst"}
  /\ f' = [f EXCEPT !.d_reset = f.in_reset, !.did_dclear = FALSE, !.did_deq = FALSE, !.dst_lo = newLo,
                    !.dst_lo_plus_1 = IF held THEN Succ(0) ELSE IF fetch THEN Succ(@) ELSE @,
                    !.not_empty = loaded,
                    !.dDoutReg = IF fetch /\ Depth # 1 THEN f.data[Addr(lo)] ELSE @,
                    !.dCountReg = CASE Depth = 1 -> H!Flag(loaded) [] Depth # 1 /\ held -> 0
                                    [] OTHER -> Behind(f.dst_hi, lo),
                    !.dst_hi = f.dSyncReg1, !.dSyncReg1 = H!read(f.src_hi),
                    !.sClrSync = H!clk_dst(@), !.dClrSync = H!clk_src(@, FALSE)]
  /\ UNCHANGED <<w, deq, clr, last>>

(***************************************************************************)
(* The end of a slice.  A rule that has called is followed by the edge of  *)
(* its clock.  What a taker takes before a clear reaches it is no longer   *)
(* in the queue.                                                           *)
(***************************************************************************)
SliceComplete == (w # None \/ f.did_sclear => "src" \in edges) /\ (deq \/ f.did_dclear => "dst" \in edges)
DstEdges == IF w # None THEN H!Flag("dst" \in edges)
            ELSE IF "dst" \in edges /\ last.dEdges < 2 THEN last.dEdges + 1 ELSE last.dEdges
Settled == IF f.in_reset THEN Snapshot(<<>>, Zero, 0)
           ELSE Snapshot(After(last.queue, clr, deq /\ last.queue # <<>>, w),
                         IF w # None THEN w ELSE last.word, DstEdges)
NewSlice ==
  /\ edges' = {} /\ w' = None /\ deq' = FALSE /\ clr' = FALSE
  /\ lead' = CASE ~hasClear \/ edges = {"src", "dst"} -> 0
               [] hasClear /\ edges = {"src"} -> IF lead < 0 THEN 1 ELSE lead + 1
               [] hasClear /\ edges = {"dst"} -> IF lead > 0 THEN -1 ELSE lead - 1
               [] OTHER -> lead
  /\ lead' \in -MaxLead .. MaxLead

(* Neither not_full and not_empty nor the words are reset. *)
AssertedFields ==
  [f EXCEPT !.in_reset = TRUE, !.src_lo = 0, !.dst_hi = 0, !.src_hi = H!force(@, 0), !.dst_lo = H!force(@, 0),
            !.src_hi_plus_1 = Succ(0), !.dst_lo_plus_1 = Succ(0), !.dSyncReg1 = 0, !.sSyncReg1 = 0,
            !.sCountReg = 0, !.dCountReg = 0, !.s_reset = TRUE, !.d_reset = TRUE,
            !.did_enq = FALSE, !.did_deq = FALSE, !.did_sclear = FALSE, !.did_dclear = FALSE,
            !.sClrSync = H!reset_sRST(@, TRUE, 0), !.dClrSync = H!reset_sRST(@, TRUE, 0)]
reset_sRST(asserted) ==
  /\ ~settled /\ SliceComplete /\ settled' = TRUE /\ f.in_reset # asserted
  /\ asserted \/ ShortReset \/ Depth = 1 \/ ~f.not_empty
  /\ f' = IF asserted THEN AssertedFields
          ELSE [f EXCEPT !.in_reset = FALSE, !.sClrSync = H!reset_sRST(@, FALSE, 0),
                         !.dClrSync = H!reset_sRST(@, FALSE, 0)]
  /\ last' = Settled /\ NewSlice

NextSlice ==
  /\ SliceComplete /\ settled' = FALSE
  /\ f' = [f EXCEPT !.src_hi = H!Later(@), !.dst_lo = H!Later(@),
                    !.sClrSync = H!LaterHandshake(@), !.dClrSync = H!LaterHandshake(@)]
  /\ last' = Settled /\ NewSlice

Calls ==
  \/ \E x \in Data : METH_enq(x)
  \/ METH_deq \/ METH_sClear
  \/ clk_src \/ clk_dst
FIFONext ==
  \/ ~settled /\ Calls /\ UNCHANGED <<settled, lead>>
  \/ \E asserted \in BOOLEAN : reset_sRST(asserted)
  \/ NextSlice

FIFOSpec == FIFOInit /\ [][FIFONext]_fifoVars

(* The destination asks for clears too. *)
DstClearNext == FIFONext \/ (~settled /\ METH_dClear /\ UNCHANGED <<settled, lead>>)
DstClearSpec == FIFOInit /\ [][DstClearNext]_fifoVars

(***************************************************************************)
(* Slice by slice the class does what the Verilog modules do, whatever the *)
(* order of the calls: its binary pointers stand for the Gray counters.    *)
(* For depth 1 the pointers are toggles, and the flag s_reset stands for   *)
(* the toggle that starts at 1.                                            *)
(***************************************************************************)
Deep == INSTANCE SyncFIFO
  WITH rst <- last.regs.in_reset, fifoMem <- last.regs.data, queue <- last.queue,
       sGEnqPtr <- last.regs.src_hi, sGEnqPtr1 <- last.regs.src_hi_plus_1, sNotFullReg <- last.notFull,
       sSyncReg1 <- Code[last.regs.sSyncReg1], sDeqPtr <- Code[last.regs.src_lo],
       dGDeqPtr <- last.regs.dst_lo, dGDeqPtr1 <- last.regs.dst_lo_plus_1, dNotEmptyReg <- last.notEmpty,
       dDoutReg <- last.regs.dDoutReg, dSyncReg1 <- Code[last.regs.dSyncReg1], dEnqPtr <- Code[last.regs.dst_hi]
DeepRefined == Deep!Spec

OnePlace == INSTANCE SyncFIFO1
  WITH rst <- last.regs.in_reset, syncFIFO1Data <- last.word, queue <- last.queue, dEdges <- last.dEdges,
       sEnqToggle <- last.regs.src_hi = 1, sDeqToggle <- last.regs.s_reset \/ last.regs.src_lo = 1,
       sSyncReg1 <- last.regs.sSyncReg1 = 1, dEnqToggle <- last.regs.dst_hi = 1,
       dDeqToggle <- last.regs.dst_lo = 1, dSyncReg1 <- last.regs.dSyncReg1 = 1
OnePlaceRefined == OnePlace!Spec

(* The elements between the true pointers, and the one in the head register. *)
Contents == ContentsOf(last.regs.data, last.regs.src_hi, last.regs.dst_lo, last.notEmpty, last.regs.dDoutReg)

(* Between slices, no clear asked for or on its way. *)
NoClear ==
  /\ edges = {} /\ w = None /\ ~deq /\ ~settled /\ ~f.did_sclear /\ ~f.did_dclear
  /\ H!METH_RDY_send(f.sClrSync) /\ H!METH_RDY_send(f.dClrSync)

(* With clears asked for by the source: whenever none is on its way,       *)
(* exactly the elements enqueued since the last one and not yet dequeued   *)
(* are in the FIFO, whatever was crossing when the clear came.             *)
ClearedHoldsQueue == NoClear => Contents = last.queue

(* The comment in METH_notEmpty says "true when non-empty and not in       *)
(* reset".  With clears asked for by the destination an element of before  *)
(* the clear is shown after it: the handshakes answer before the other     *)
(* side has cleared, where SyncFIFOLevel.v has them wait.                  *)
ShownIsHeld == NoClear /\ METH_notEmpty => last.queue # <<>>
=============================================================================
