--------------------------- MODULE BluesimFIFOProofs ---------------------------
(***************************************************************************)
(* The class by which Bluesim simulates the FIFOs of several places        *)
(* between clock domains does, slice by slice, what the Verilog module     *)
(* does at its edges, for every depth, any words and any order of the      *)
(* calls in a slice; cleared by its source, it holds what was enqueued     *)
(* since.                                                                  *)
(***************************************************************************)
EXTENDS BluesimSyncProofs, Integers

-----------------------------------------------------------------------------
(* Several places.                                                         *)

(* The fields of the object, and what a slice begins with.                 *)
Typed(g) ==
  /\ g.data \in Memory /\ g.dDoutReg \in Elements
  /\ g.src_lo \in Positions /\ g.dst_hi \in Positions /\ g.dSyncReg1 \in Positions /\ g.sSyncReg1 \in Positions
  /\ g.not_empty \in BOOLEAN /\ g.not_full \in BOOLEAN
  /\ g.in_reset \in BOOLEAN /\ g.s_reset \in BOOLEAN /\ g.d_reset \in BOOLEAN

PlacesTypes ==
  /\ DOMAIN f = FieldNames /\ Typed(f) /\ f.did_enq \in BOOLEAN /\ f.did_deq \in BOOLEAN
  /\ f.src_hi \in VarOf(Positions) /\ f.dst_lo \in VarOf(Positions)
  /\ Typed(R) /\ R.src_hi \in Positions /\ R.dst_lo \in Positions
  /\ edges \subseteq {"src", "dst"} /\ w \in Elements /\ deq \in BOOLEAN /\ clr = FALSE /\ settled \in BOOLEAN
  /\ last.queue \in Seq(Data) /\ last.notFull \in BOOLEAN /\ last.notEmpty \in BOOLEAN

(* The flags shown are the fields out of reset, the look-aheads one step   *)
(* ahead; the head register is empty until the destination has left reset. *)
Flags ==
  /\ (last.notFull <=> ~R.s_reset /\ R.not_full) /\ (last.notEmpty <=> ~R.d_reset /\ R.not_empty)
  /\ R.src_hi_plus_1 = Succ(R.src_hi) /\ R.dst_lo_plus_1 = Succ(R.dst_lo)
  /\ f.src_hi_plus_1 = Succ(f.src_hi.value) /\ f.dst_lo_plus_1 = Succ(f.dst_lo.value)
  /\ ~R.in_reset /\ R.d_reset => ~R.not_empty
  /\ ~f.in_reset /\ f.d_reset => ~f.not_empty

RegsAtReset   == AtReset(R) /\ R.src_hi = 0 /\ R.dst_lo = 0 /\ last.queue = <<>>

(* What the calls of a slice out of reset have done so far.                *)
SrcMoved ==
  /\ w # None => last.notFull
  /\ f.data = IF w # None THEN [R.data EXCEPT ![Addr(R.src_hi)] = w] ELSE R.data
  /\ IF "src" \in edges
       THEN /\ ~f.s_reset /\ ~f.did_enq /\ f.src_lo = R.sSyncReg1 /\ f.sSyncReg1 = R.dst_lo
            /\ (f.not_full <=> Opposite(f.src_hi.value) # R.src_lo)
            /\ IF w # None THEN Rewritten(f.src_hi, Succ(R.src_hi), R.src_hi) ELSE Unwritten(f.src_hi, R.src_hi)
       ELSE /\ f.s_reset = R.s_reset /\ (f.did_enq <=> w # None) /\ f.not_full = R.not_full
            /\ f.src_lo = R.src_lo /\ f.sSyncReg1 = R.sSyncReg1 /\ Unwritten(f.src_hi, R.src_hi)

Fetches == R.dst_hi # R.dst_lo /\ (deq \/ ~R.not_empty)
DstMoved ==
  /\ deq => last.notEmpty
  /\ IF "dst" \in edges
       THEN /\ ~f.d_reset /\ ~f.did_deq /\ f.dst_hi = R.dSyncReg1 /\ f.dSyncReg1 = R.src_hi
            /\ (f.not_empty <=> Fetches \/ (R.not_empty /\ ~deq))
            /\ f.dDoutReg = IF Fetches THEN R.data[Addr(R.dst_lo)] ELSE R.dDoutReg
            /\ IF Fetches THEN Rewritten(f.dst_lo, Succ(R.dst_lo), R.dst_lo) ELSE Unwritten(f.dst_lo, R.dst_lo)
       ELSE /\ f.d_reset = R.d_reset /\ f.did_deq = deq /\ f.not_empty = R.not_empty
            /\ f.dDoutReg = R.dDoutReg
            /\ f.dst_hi = R.dst_hi /\ f.dSyncReg1 = R.dSyncReg1 /\ Unwritten(f.dst_lo, R.dst_lo)

(* The pointers and their copies are in order, and the queue is as long as *)
(* they say.                                                               *)
InOrder ==
  /\ Ordered(R.src_hi, R.dSyncReg1, R.dst_hi, R.dst_lo, R.sSyncReg1, R.src_lo)
  /\ last.notFull => Behind(R.src_hi, R.src_lo) < Depth
  /\ Len(last.queue) = Behind(R.src_hi, R.dst_lo) + Bit(last.notEmpty)

(* The invariant: the fields are the registers of when the slice began,    *)
(* moved by the calls that have come; or all at reset.                     *)
PlacesInv ==
  /\ PlacesTypes /\ Flags /\ InOrder
  /\ IF settled THEN f.in_reset # R.in_reset /\ edges = {} ELSE f.in_reset = R.in_reset
  /\ settled \/ f.in_reset =>
       NoCalls /\ FieldsAtReset /\ f.data = R.data /\ f.dDoutReg = R.dDoutReg
  /\ R.in_reset => RegsAtReset
  /\ ~settled /\ ~f.in_reset => SrcMoved /\ DstMoved

-----------------------------------------------------------------------------
(* The names of the class are those of the pointers.                       *)
LEMMA PlacesNames ==
  \A p : /\ Places!Succ(p) = Succ(p) /\ Places!Opposite(p) = Opposite(p) /\ Places!Addr(p) = Addr(p)
BY DEF Places!Succ, Places!Opposite, Places!Addr, Succ, Opposite, Addr

LEMMA SrcStays ==
  ASSUME SrcMoved, SrcSame, f'.data = f.data, UNCHANGED <<w, last>>, "src" \in edges' <=> "src" \in edges
  PROVE  SrcMoved'
BY DEF SrcMoved, SrcSame, R, Unwritten, Rewritten, Opposite, Succ, Addr

LEMMA DstStays ==
  ASSUME DstMoved, DstSame, UNCHANGED <<deq, last>>, "dst" \in edges' <=> "dst" \in edges
  PROVE  DstMoved'
BY DEF DstMoved, DstSame, R, Fetches, Unwritten, Rewritten, Succ, Addr

(* An enqueue.                                                             *)
LEMMA EnqFacts ==
  ASSUME Depth # 1, DOMAIN f = FieldNames, NEW x, Places!METH_enq(x)
  PROVE  /\ "src" \notin edges /\ ~f.s_reset /\ f.not_full /\ ~f.did_enq
         /\ w' = x /\ UNCHANGED <<edges, deq, clr, last>>
         /\ f'.data = [f.data EXCEPT ![Addr(Places!H!read(f.src_hi))] = x] /\ f'.did_enq = TRUE
         /\ f'.dDoutReg = f.dDoutReg /\ Kept({"data", "dDoutReg", "did_enq"})
BY PlacesNames DEF Places!METH_enq, Places!METH_notFull, FieldNames, Kept

LEMMA EnqKeeps ==
  ASSUME Depth # 1, PlacesInv, ~settled, settled' = settled, NEW x \in Data, Places!METH_enq(x)
  PROVE  PlacesInv'
<1>1. /\ "src" \notin edges /\ ~f.s_reset /\ f.not_full /\ ~f.did_enq
      /\ w' = x /\ UNCHANGED <<edges, deq, clr, last>>
      /\ f'.data = [f.data EXCEPT ![Addr(Places!H!read(f.src_hi))] = x] /\ f'.did_enq = TRUE
      /\ f'.dDoutReg = f.dDoutReg /\ Kept({"data", "dDoutReg", "did_enq"})
  BY EnqFacts DEF PlacesInv, PlacesTypes
<1>2. ~f.in_reset /\ SrcMoved /\ DstMoved /\ ~R.in_reset
  BY <1>1 DEF PlacesInv, FieldsAtReset, AtReset
<1>3. /\ w = None /\ last.notFull /\ f.src_hi.value = R.src_hi /\ f.data = R.data /\ R.s_reset = f.s_reset
      /\ Places!H!read(f.src_hi) = R.src_hi
  BY <1>1, <1>2 DEF SrcMoved, Unwritten, Places!H!read, PlacesInv, Flags
<1>4. /\ f'.src_lo = f.src_lo /\ f'.src_hi = f.src_hi /\ f'.sSyncReg1 = f.sSyncReg1
      /\ f'.src_hi_plus_1 = f.src_hi_plus_1 /\ f'.not_full = f.not_full /\ f'.s_reset = f.s_reset
      /\ f'.in_reset = f.in_reset /\ DOMAIN f' = FieldNames /\ DstSame
  BY <1>1 DEF Kept, FieldNames, DstSame
<1>5. DstMoved'
  BY <1>1, <1>2, <1>4, DstStays
<1>6. SrcMoved'
  BY <1>1, <1>2, <1>3, <1>4, ElementAssumption DEF SrcMoved, Unwritten, R
<1>7. PlacesTypes'
  <2>1. f'.data \in Memory
    BY <1>1, <1>3, PositionTypes DEF PlacesInv, PlacesTypes, Typed, Memory, Elements
  <2>2. QED
    <3>1. Typed(f)'
      BY <1>1, <1>4, <2>1 DEF PlacesInv, PlacesTypes, Typed, DstSame
    <3>2. w' \in Elements /\ UNCHANGED R
      BY <1>1 DEF Elements, R
    <3>3. QED
      BY <1>1, <1>4, <3>1, <3>2 DEF PlacesInv, PlacesTypes, DstSame
<1>8. Flags' /\ InOrder'
  BY <1>1, <1>4 DEF PlacesInv, Flags, InOrder, DstSame, R
<1>9. QED
  BY <1>1, <1>2, <1>4, <1>5, <1>6, <1>7, <1>8 DEF PlacesInv, R

(* A dequeue.                                                              *)
LEMMA DeqKeeps ==
  ASSUME Depth # 1, PlacesInv, ~settled, settled' = settled, Places!METH_deq
  PROVE  PlacesInv'
<1>1. /\ "dst" \notin edges /\ ~f.d_reset /\ f.not_empty /\ ~f.did_deq
      /\ deq' = TRUE /\ UNCHANGED <<edges, w, clr, last>>
      /\ f'.did_deq = TRUE /\ Kept({"did_deq"})
  BY DEF Places!METH_deq, Places!METH_notEmpty, FieldNames, Kept, PlacesInv, PlacesTypes
<1>2. ~f.in_reset /\ SrcMoved /\ DstMoved /\ ~R.in_reset
  BY <1>1 DEF PlacesInv, FieldsAtReset, AtReset
<1>3. /\ f'.dst_lo = f.dst_lo /\ f'.dst_hi = f.dst_hi /\ f'.dSyncReg1 = f.dSyncReg1 /\ f'.data = f.data
      /\ f'.dst_lo_plus_1 = f.dst_lo_plus_1 /\ f'.not_empty = f.not_empty /\ f'.d_reset = f.d_reset
      /\ f'.dDoutReg = f.dDoutReg /\ f'.in_reset = f.in_reset /\ DOMAIN f' = FieldNames /\ SrcSame
  BY <1>1 DEF Kept, FieldNames, SrcSame
<1>4. SrcMoved'
  BY <1>1, <1>2, <1>3, SrcStays
<1>5. DstMoved'
  BY <1>1, <1>2, <1>3 DEF DstMoved, Unwritten, R, PlacesInv, Flags
<1>6. PlacesTypes'
  BY <1>1, <1>3 DEF PlacesInv, PlacesTypes, Typed, SrcSame, R
<1>7. Flags' /\ InOrder'
  BY <1>1, <1>3 DEF PlacesInv, Flags, InOrder, SrcSame, R
<1>8. QED
  BY <1>1, <1>2, <1>3, <1>4, <1>5, <1>6, <1>7 DEF PlacesInv, R

(* The edge of the source.                                                 *)
LEMMA SrcClkFacts ==
  ASSUME Depth # 1, DOMAIN f = FieldNames, f.in_reset \in BOOLEAN, f.did_enq \in BOOLEAN, Places!clk_src
  PROVE  /\ "src" \notin edges /\ edges' = edges \cup {"src"} /\ UNCHANGED <<w, deq, last>>
         /\ clr' = (clr \/ FALSE) /\ f'.s_reset = f.in_reset /\ f'.did_enq = FALSE
         /\ f'.src_lo = f.sSyncReg1 /\ f'.sSyncReg1 = Places!H!read(f.dst_lo)
         /\ f.in_reset => /\ f'.src_hi = Places!H!force(f.src_hi, 0) /\ f'.src_hi_plus_1 = Succ(0)
                          /\ f'.not_full = FALSE
         /\ ~f.in_reset => /\ f'.src_hi = IF f.did_enq THEN Places!H!write(f.src_hi, f.src_hi_plus_1)
                                          ELSE f.src_hi
                           /\ f'.src_hi_plus_1 = IF f.did_enq THEN Succ(f.src_hi_plus_1) ELSE f.src_hi_plus_1
                           /\ f'.not_full \in BOOLEAN
                           /\ f'.not_full <=> Opposite(f'.src_hi.value) # f.src_lo
         /\ Kept({"s_reset", "did_sclear", "did_enq", "src_hi", "src_hi_plus_1", "not_full", "sCountReg",
                  "src_lo", "sSyncReg1", "sClrSync", "dClrSync"})
<1> DEFINE held == f.in_reset \/ Places!sClearing
           hi   == CASE held -> Places!H!force(f.src_hi, 0)
                     [] ~held /\ f.did_enq -> Places!H!write(f.src_hi, f.src_hi_plus_1)
                     [] OTHER -> f.src_hi
           plus == IF held THEN Places!Succ(0) ELSE IF f.did_enq THEN Places!Succ(f.src_hi_plus_1) ELSE f.src_hi_plus_1
           full == Places!Room(Places!H!probe(hi), held)
           cnt  == CASE Depth = 1 -> Places!H!Flag(~Places!Room(Places!H!probe(hi), held)) [] Depth # 1 /\ held -> 0
                     [] OTHER -> Places!Behind(Places!H!probe(hi), f.src_lo)
           ss == Places!H!clk_src(f.sClrSync, FALSE)
           ds == Places!H!clk_dst(f.dClrSync)
<1>1. /\ "src" \notin edges /\ edges' = edges \cup {"src"} /\ UNCHANGED <<w, deq, last>>
      /\ clr' = (clr \/ Places!sClearing)
      /\ f' = [f EXCEPT !.s_reset = f.in_reset, !.did_sclear = FALSE, !.did_enq = FALSE, !.src_hi = hi,
                        !.src_hi_plus_1 = plus, !.not_full = full, !.sCountReg = cnt,
                        !.src_lo = f.sSyncReg1, !.sSyncReg1 = Places!H!read(f.dst_lo),
                        !.sClrSync = ss, !.dClrSync = ds]
  BY DEF Places!clk_src
<1>2. Places!sClearing = FALSE
  BY DEF Places!sClearing
<1>3. hi = IF f.in_reset THEN Places!H!force(f.src_hi, 0)
           ELSE IF f.did_enq THEN Places!H!write(f.src_hi, f.src_hi_plus_1) ELSE f.src_hi
  BY <1>2
<1>4. plus = IF f.in_reset THEN Succ(0) ELSE IF f.did_enq THEN Succ(f.src_hi_plus_1) ELSE f.src_hi_plus_1
  BY <1>2, PlacesNames
<1>5. full \in BOOLEAN /\ (f.in_reset => full = FALSE) /\ (~f.in_reset => (full <=> Opposite(hi.value) # f.src_lo))
  BY <1>2, PlacesNames DEF Places!Room, Places!H!probe
<1> HIDE DEF hi, plus, full, cnt, ss, ds, held
<1>6. /\ f'.s_reset = f.in_reset /\ f'.did_enq = FALSE /\ f'.src_hi = hi /\ f'.src_hi_plus_1 = plus
      /\ f'.not_full = full /\ f'.src_lo = f.sSyncReg1 /\ f'.sSyncReg1 = Places!H!read(f.dst_lo)
  BY <1>1 DEF FieldNames
<1>7. Kept({"s_reset", "did_sclear", "did_enq", "src_hi", "src_hi_plus_1", "not_full", "sCountReg",
            "src_lo", "sSyncReg1", "sClrSync", "dClrSync"})
  BY <1>1 DEF FieldNames, Kept
<1>8. QED
  BY <1>1, <1>2, <1>3, <1>4, <1>5, <1>6, <1>7

LEMMA SrcClkKeeps ==
  ASSUME Depth # 1, PlacesInv, ~settled, settled' = settled, Places!clk_src
  PROVE  PlacesInv'
<1> DEFINE s == f.src_hi
<1>1. /\ DOMAIN f = FieldNames /\ f.in_reset \in BOOLEAN /\ f.did_enq \in BOOLEAN /\ s \in VarOf(Positions)
      /\ f.dst_lo \in VarOf(Positions) /\ R.in_reset = f.in_reset
  BY DEF PlacesInv, PlacesTypes, Typed
<1>2. /\ "src" \notin edges /\ edges' = edges \cup {"src"} /\ UNCHANGED <<w, deq, last>>
      /\ clr' = FALSE /\ f'.s_reset = f.in_reset /\ f'.did_enq = FALSE
      /\ f'.src_lo = f.sSyncReg1 /\ f'.sSyncReg1 = Places!H!read(f.dst_lo)
      /\ f.in_reset => /\ f'.src_hi = Places!H!force(s, 0) /\ f'.src_hi_plus_1 = Succ(0)
                       /\ f'.not_full = FALSE
      /\ ~f.in_reset => /\ f'.src_hi = IF f.did_enq THEN Places!H!write(s, f.src_hi_plus_1) ELSE s
                        /\ f'.src_hi_plus_1 = IF f.did_enq THEN Succ(f.src_hi_plus_1) ELSE f.src_hi_plus_1
                        /\ f'.not_full \in BOOLEAN
                        /\ f'.not_full <=> Opposite(f'.src_hi.value) # f.src_lo
      /\ Kept({"s_reset", "did_sclear", "did_enq", "src_hi", "src_hi_plus_1", "not_full", "sCountReg",
               "src_lo", "sSyncReg1", "sClrSync", "dClrSync"})
  BY <1>1, SrcClkFacts DEF PlacesInv, PlacesTypes
<1>3. /\ f'.data = f.data /\ f'.in_reset = f.in_reset /\ DstSame /\ DOMAIN f' = FieldNames
  BY <1>2 DEF Kept, FieldNames, DstSame
<1>4. Places!H!read(f.dst_lo) \in Positions
  BY <1>1 DEF Places!H!read, VarOf
<1>5. f.sSyncReg1 \in Positions /\ f.src_hi_plus_1 = Succ(s.value)
  BY DEF PlacesInv, PlacesTypes, Typed, Flags
<1>6. UNCHANGED R /\ "dst" \in edges' <=> "dst" \in edges
  BY <1>2 DEF R
<1>7. ASSUME f'.src_hi \in VarOf(Positions), f'.not_full \in BOOLEAN
      PROVE  PlacesTypes'
  BY <1>2, <1>3, <1>4, <1>5, <1>7 DEF PlacesInv, PlacesTypes, Typed, DstSame, R
<1>8. ASSUME f'.src_hi_plus_1 = Succ(f'.src_hi.value)
      PROVE  Flags' /\ InOrder'
  BY <1>2, <1>3, <1>8 DEF PlacesInv, Flags, InOrder, DstSame, R
<1>9. CASE f.in_reset
  <2>1. f'.src_hi = [value |-> 0, prev_value |-> 0, written_at |-> s.written_at]
    BY <1>1, <1>2, <1>9 DEF Places!H!force, VarOf
  <2>2. Places!H!read(f.dst_lo) = 0 /\ FieldsAtReset /\ NoCalls
    BY <1>9 DEF PlacesInv, FieldsAtReset, Still, Places!H!read
  <2>3. FieldsAtReset' /\ NoCalls'
    BY <1>2, <1>3, <1>9, <2>1, <2>2 DEF FieldsAtReset, AtReset, Still, NoCalls, DstSame
  <2>4. f'.src_hi \in VarOf(Positions) /\ f'.src_hi_plus_1 = Succ(f'.src_hi.value)
    BY <1>1, <1>2, <1>9, <2>1, PositionTypes DEF VarOf
  <2>5. PlacesTypes' /\ Flags' /\ InOrder'
    BY <1>2, <1>7, <1>8, <1>9, <2>4
  <2>6. QED
    BY <1>1, <1>2, <1>3, <1>6, <1>9, <2>3, <2>5 DEF PlacesInv, DstSame, RegsAtReset, AtReset, R
<1>10. CASE ~f.in_reset
  <2>1. SrcMoved /\ DstMoved
    BY <1>10 DEF PlacesInv
  <2>2. /\ (f.did_enq <=> w # None) /\ f.not_full = R.not_full /\ f.src_lo = R.src_lo /\ f.sSyncReg1 = R.sSyncReg1
        /\ s.value = R.src_hi /\ ~s.written_at
    BY <1>2, <2>1 DEF SrcMoved, Unwritten
  <2>3. Places!H!read(f.dst_lo) = R.dst_lo
    BY <2>1 DEF DstMoved, Unwritten, Rewritten, Places!H!read
  <2>4. /\ w # None => f'.src_hi = [value |-> Succ(R.src_hi), prev_value |-> R.src_hi, written_at |-> TRUE]
        /\ w = None => f'.src_hi = s
    BY <1>2, <1>5, <1>10, <2>2 DEF Places!H!write
  <2>5. f'.src_hi \in VarOf(Positions)
    <3>1. R.src_hi \in Positions /\ Succ(R.src_hi) \in Positions
      BY PositionTypes DEF PlacesInv, PlacesTypes
    <3>2. [value |-> Succ(R.src_hi), prev_value |-> R.src_hi, written_at |-> TRUE] \in VarOf(Positions)
      BY <3>1 DEF VarOf
    <3>3. QED
      BY <1>1, <2>4, <3>2
  <2>6. f'.src_hi_plus_1 = Succ(f'.src_hi.value)
    BY <1>2, <1>5, <1>10, <2>2, <2>4
  <2>7. SrcMoved'
    <3>1. w' = w /\ last' = last /\ "src" \in edges' /\ f'.data = f.data
      BY <1>2, <1>3
    <3>2. f'.s_reset = FALSE /\ f'.did_enq = FALSE /\ f'.src_lo = R.sSyncReg1 /\ f'.sSyncReg1 = R.dst_lo
      BY <1>2, <1>10, <2>2, <2>3
    <3>3. f'.not_full <=> Opposite(f'.src_hi.value) # R.src_lo
      BY <1>2, <1>10, <2>2
    <3>4. IF w # None THEN Rewritten(f'.src_hi, Succ(R.src_hi), R.src_hi) ELSE Unwritten(f'.src_hi, R.src_hi)
      BY <2>2, <2>4 DEF Rewritten, Unwritten
    <3>5. QED
      BY <2>1, <3>1, <3>2, <3>3, <3>4, <1>6 DEF SrcMoved, R
  <2>8. DstMoved'
    BY <1>2, <1>3, <1>6, <2>1, DstStays
  <2>9. PlacesTypes' /\ Flags' /\ InOrder'
    BY <1>2, <1>7, <1>8, <1>10, <2>5, <2>6
  <2>10. QED
    BY <1>1, <1>2, <1>3, <1>6, <1>10, <2>7, <2>8, <2>9 DEF PlacesInv, R
<1>11. QED
  BY <1>1, <1>9, <1>10

(* The edge of the destination.                                            *)
LEMMA DstClkFacts ==
  ASSUME Depth # 1, DOMAIN f = FieldNames, f.in_reset \in BOOLEAN, f.did_deq \in BOOLEAN, f.not_empty \in BOOLEAN,
         Places!clk_dst, NEW lo, lo = Places!H!read(f.dst_lo),
         NEW fetch \in BOOLEAN, fetch <=> ~f.in_reset /\ f.dst_hi # lo /\ (f.did_deq \/ ~f.not_empty)
  PROVE  /\ "dst" \notin edges /\ edges' = edges \cup {"dst"} /\ UNCHANGED <<w, deq, clr, last>>
         /\ f'.d_reset = f.in_reset /\ f'.did_deq = FALSE
         /\ f'.dst_hi = f.dSyncReg1 /\ f'.dSyncReg1 = Places!H!read(f.src_hi)
         /\ f'.dst_lo = IF f.in_reset THEN Places!H!force(f.dst_lo, 0)
                        ELSE IF fetch THEN Places!H!write(f.dst_lo, f.dst_lo_plus_1) ELSE f.dst_lo
         /\ f'.dst_lo_plus_1 = IF f.in_reset THEN Succ(0) ELSE IF fetch THEN Succ(f.dst_lo_plus_1) ELSE f.dst_lo_plus_1
         /\ f'.not_empty \in BOOLEAN
         /\ f'.not_empty <=> ~f.in_reset /\ (fetch \/ (f.not_empty /\ ~f.did_deq))
         /\ f'.dDoutReg = IF fetch THEN f.data[Addr(lo)] ELSE f.dDoutReg
         /\ Kept({"d_reset", "did_dclear", "did_deq", "dst_lo", "dst_lo_plus_1", "not_empty", "dDoutReg", "dCountReg",
                  "dst_hi", "dSyncReg1", "sClrSync", "dClrSync"})
<1> DEFINE held   == f.in_reset \/ Places!dClearing
           some   == f.dst_hi # Places!H!read(f.dst_lo)
           fetch1 == ~held /\ some /\ (f.did_deq \/ (Depth # 1 /\ ~f.not_empty))
           newLo  == CASE held -> Places!H!force(f.dst_lo, 0)
                       [] fetch1 -> Places!H!write(f.dst_lo, f.dst_lo_plus_1)
                       [] OTHER -> f.dst_lo
           loaded == CASE Depth = 1 -> Places!H!probe(newLo) = f.dSyncReg1 [] Depth # 1 /\ held -> FALSE
                       [] OTHER -> fetch1 \/ (f.not_empty /\ ~f.did_deq)
           plus == IF held THEN Places!Succ(0) ELSE IF fetch1 THEN Places!Succ(f.dst_lo_plus_1) ELSE f.dst_lo_plus_1
           out == IF fetch1 /\ Depth # 1 THEN f.data[Places!Addr(Places!H!read(f.dst_lo))] ELSE f.dDoutReg
           cnt == CASE Depth = 1 -> Places!H!Flag(loaded) [] Depth # 1 /\ held -> 0
                    [] OTHER -> Places!Behind(f.dst_hi, Places!H!read(f.dst_lo))
           ss == Places!H!clk_dst(f.sClrSync)
           ds == Places!H!clk_src(f.dClrSync, FALSE)
<1>1. /\ "dst" \notin edges /\ edges' = edges \cup {"dst"} /\ UNCHANGED <<w, deq, clr, last>>
      /\ f' = [f EXCEPT !.d_reset = f.in_reset, !.did_dclear = FALSE, !.did_deq = FALSE, !.dst_lo = newLo,
                        !.dst_lo_plus_1 = plus, !.not_empty = loaded, !.dDoutReg = out, !.dCountReg = cnt,
                        !.dst_hi = f.dSyncReg1, !.dSyncReg1 = Places!H!read(f.src_hi),
                        !.sClrSync = ss, !.dClrSync = ds]
  BY DEF Places!clk_dst
<1>2. Places!dClearing = FALSE
  BY DEF Places!dClearing
<1>3. fetch1 <=> fetch
  BY <1>2
<1>4. newLo = IF f.in_reset THEN Places!H!force(f.dst_lo, 0)
              ELSE IF fetch THEN Places!H!write(f.dst_lo, f.dst_lo_plus_1) ELSE f.dst_lo
  BY <1>2, <1>3
<1>5. plus = IF f.in_reset THEN Succ(0) ELSE IF fetch THEN Succ(f.dst_lo_plus_1) ELSE f.dst_lo_plus_1
  BY <1>2, <1>3, PlacesNames
<1>6. loaded \in BOOLEAN /\ (loaded <=> ~f.in_reset /\ (fetch \/ (f.not_empty /\ ~f.did_deq)))
  BY <1>2, <1>3
<1>7. out = IF fetch THEN f.data[Addr(lo)] ELSE f.dDoutReg
  BY <1>3, PlacesNames
<1> HIDE DEF newLo, plus, loaded, out, cnt, ss, ds, held, fetch1, some
<1>8. /\ f'.d_reset = f.in_reset /\ f'.did_deq = FALSE /\ f'.dst_lo = newLo /\ f'.dst_lo_plus_1 = plus
      /\ f'.not_empty = loaded /\ f'.dDoutReg = out /\ f'.dst_hi = f.dSyncReg1
      /\ f'.dSyncReg1 = Places!H!read(f.src_hi)
  BY <1>1 DEF FieldNames
<1>9. Kept({"d_reset", "did_dclear", "did_deq", "dst_lo", "dst_lo_plus_1", "not_empty", "dDoutReg", "dCountReg",
            "dst_hi", "dSyncReg1", "sClrSync", "dClrSync"})
  BY <1>1 DEF FieldNames, Kept
<1>10. QED
  BY <1>1, <1>4, <1>5, <1>6, <1>7, <1>8, <1>9

(* The word fetched is not the one being written: an enqueue that is       *)
(* allowed is less than Depth ahead of the pointer of the dequeues.        *)
LEMMA FetchedApart ==
  ASSUME InOrder, last.notFull, R.dst_hi # R.dst_lo, PlacesTypes
  PROVE  Addr(R.src_hi) # Addr(R.dst_lo)
<1>1. /\ R.src_hi \in Positions /\ R.dSyncReg1 \in Positions /\ R.dst_hi \in Positions /\ R.dst_lo \in Positions
      /\ R.sSyncReg1 \in Positions /\ R.src_lo \in Positions
  BY DEF PlacesTypes, Typed
<1>2. /\ Ordered(R.src_hi, R.dSyncReg1, R.dst_hi, R.dst_lo, R.sSyncReg1, R.src_lo)
      /\ Behind(R.src_hi, R.src_lo) < Depth
  BY DEF InOrder
<1>3. \A e, a1, a2, d, b1, b2 \in Positions :
        Ordered(e, a1, a2, d, b1, b2) /\ Behind(e, b2) < Depth /\ a2 # d => Addr(e) # Addr(d)
  BY DepthAssumption DEF Ordered, Behind, Positions, Addr
<1>4. QED
  BY <1>1, <1>2, <1>3

LEMMA DstClkKeeps ==
  ASSUME Depth # 1, PlacesInv, ~settled, settled' = settled, Places!clk_dst
  PROVE  PlacesInv'
<1> DEFINE s  == f.dst_lo
           lo == Places!H!read(s)
<1>1. /\ DOMAIN f = FieldNames /\ f.in_reset \in BOOLEAN /\ f.did_deq \in BOOLEAN /\ f.not_empty \in BOOLEAN
      /\ s \in VarOf(Positions) /\ f.src_hi \in VarOf(Positions) /\ R.in_reset = f.in_reset
      /\ lo \in Positions
  BY DEF PlacesInv, PlacesTypes, Typed, VarOf, Places!H!read
<1>2. PICK fetch \in BOOLEAN : fetch <=> ~f.in_reset /\ f.dst_hi # lo /\ (f.did_deq \/ ~f.not_empty)
  OBVIOUS
<1>3. /\ "dst" \notin edges /\ edges' = edges \cup {"dst"} /\ UNCHANGED <<w, deq, clr, last>>
      /\ f'.d_reset = f.in_reset /\ f'.did_deq = FALSE
      /\ f'.dst_hi = f.dSyncReg1 /\ f'.dSyncReg1 = Places!H!read(f.src_hi)
      /\ f'.dst_lo = IF f.in_reset THEN Places!H!force(s, 0)
                     ELSE IF fetch THEN Places!H!write(s, f.dst_lo_plus_1) ELSE s
      /\ f'.dst_lo_plus_1 = IF f.in_reset THEN Succ(0) ELSE IF fetch THEN Succ(f.dst_lo_plus_1) ELSE f.dst_lo_plus_1
      /\ f'.not_empty \in BOOLEAN
      /\ f'.not_empty <=> ~f.in_reset /\ (fetch \/ (f.not_empty /\ ~f.did_deq))
      /\ f'.dDoutReg = IF fetch THEN f.data[Addr(lo)] ELSE f.dDoutReg
      /\ Kept({"d_reset", "did_dclear", "did_deq", "dst_lo", "dst_lo_plus_1", "not_empty", "dDoutReg", "dCountReg",
               "dst_hi", "dSyncReg1", "sClrSync", "dClrSync"})
  BY <1>1, <1>2, DstClkFacts
<1>4. /\ f'.data = f.data /\ f'.in_reset = f.in_reset /\ SrcSame /\ DOMAIN f' = FieldNames
  BY <1>3 DEF Kept, FieldNames, SrcSame
<1>5. /\ Places!H!read(f.src_hi) \in Positions /\ f.dSyncReg1 \in Positions /\ f.dst_lo_plus_1 = Succ(s.value)
      /\ f'.dDoutReg \in Elements
  <2>1. f.data \in Memory /\ f.dDoutReg \in Elements /\ Addr(lo) \in 0 .. Depth - 1
    BY <1>1, PositionTypes DEF PlacesInv, PlacesTypes, Typed
  <2>2. f'.dDoutReg \in Elements
    BY <1>3, <2>1 DEF Memory
  <2>3. QED
    BY <1>1, <2>2 DEF Places!H!read, VarOf, PlacesInv, PlacesTypes, Typed, Flags
<1>6. UNCHANGED R /\ ("src" \in edges' <=> "src" \in edges)
  BY <1>3 DEF R
<1>7. ASSUME f'.dst_lo \in VarOf(Positions)
      PROVE  PlacesTypes'
  BY <1>3, <1>4, <1>5, <1>7 DEF PlacesInv, PlacesTypes, Typed, SrcSame, R
<1>8. ASSUME f'.dst_lo_plus_1 = Succ(f'.dst_lo.value)
      PROVE  Flags' /\ InOrder'
  BY <1>3, <1>4, <1>8 DEF PlacesInv, Flags, InOrder, SrcSame, R
<1>9. CASE f.in_reset
  <2>1. f'.dst_lo = [value |-> 0, prev_value |-> 0, written_at |-> s.written_at]
    BY <1>1, <1>3, <1>9 DEF Places!H!force, VarOf
  <2>2. Places!H!read(f.src_hi) = 0 /\ FieldsAtReset /\ NoCalls /\ ~fetch
    BY <1>2, <1>9 DEF PlacesInv, FieldsAtReset, Still, Places!H!read
  <2>3. FieldsAtReset' /\ NoCalls'
    BY <1>3, <1>4, <1>9, <2>1, <2>2 DEF FieldsAtReset, AtReset, Still, NoCalls, SrcSame
  <2>4. f'.dst_lo \in VarOf(Positions) /\ f'.dst_lo_plus_1 = Succ(f'.dst_lo.value)
    BY <1>1, <1>3, <1>9, <2>1, PositionTypes DEF VarOf
  <2>5. PlacesTypes' /\ Flags' /\ InOrder'
    BY <1>3, <1>7, <1>8, <1>9, <2>4
  <2>6. QED
    BY <1>1, <1>3, <1>4, <1>6, <1>9, <2>2, <2>3, <2>5 DEF PlacesInv, SrcSame, RegsAtReset, AtReset, R
<1>10. CASE ~f.in_reset
  <2>1. SrcMoved /\ DstMoved
    BY <1>10 DEF PlacesInv
  <2>2. /\ (f.did_deq <=> deq) /\ f.not_empty = R.not_empty /\ f.dst_hi = R.dst_hi /\ f.dSyncReg1 = R.dSyncReg1
        /\ s.value = R.dst_lo /\ ~s.written_at /\ f.dDoutReg = R.dDoutReg
    BY <1>3, <2>1 DEF DstMoved, Unwritten
  <2>3. Places!H!read(f.src_hi) = R.src_hi /\ lo = R.dst_lo
    BY <2>1, <2>2 DEF SrcMoved, Unwritten, Rewritten, Places!H!read
  <2> HIDE DEF lo
  <2>4. fetch <=> Fetches
    BY <1>2, <1>10, <2>2, <2>3 DEF Fetches
  <2>5. /\ fetch => f'.dst_lo = [value |-> Succ(R.dst_lo), prev_value |-> R.dst_lo, written_at |-> TRUE]
        /\ ~fetch => f'.dst_lo = s
    BY <1>3, <1>5, <1>10, <2>2 DEF Places!H!write
  <2>6. f'.dst_lo \in VarOf(Positions)
    <3>1. R.dst_lo \in Positions /\ Succ(R.dst_lo) \in Positions
      BY PositionTypes DEF PlacesInv, PlacesTypes
    <3>2. [value |-> Succ(R.dst_lo), prev_value |-> R.dst_lo, written_at |-> TRUE] \in VarOf(Positions)
      BY <3>1 DEF VarOf
    <3>3. QED
      BY <1>1, <2>5, <3>2
  <2>7. f'.dst_lo_plus_1 = Succ(f'.dst_lo.value)
    BY <1>3, <1>5, <1>10, <2>2, <2>5
  <2>8. fetch => f.data[Addr(R.dst_lo)] = R.data[Addr(R.dst_lo)]
    <3>1. Addr(R.src_hi) \in 0 .. Depth - 1 /\ Addr(R.dst_lo) \in 0 .. Depth - 1 /\ R.data \in Memory
      BY PositionTypes DEF PlacesInv, PlacesTypes, Typed
    <3>2. fetch /\ w # None => Addr(R.src_hi) # Addr(R.dst_lo)
      BY <2>1, <2>4, FetchedApart DEF SrcMoved, Fetches, PlacesInv
    <3>3. QED
      BY <2>1, <3>1, <3>2 DEF SrcMoved, Memory
  <2>9. DstMoved'
    <3>1. deq' = deq /\ last' = last /\ "dst" \in edges' /\ Fetches' = Fetches
      BY <1>3, <1>6 DEF Fetches
    <3>2. f'.d_reset = FALSE /\ f'.did_deq = FALSE /\ f'.dst_hi = R.dSyncReg1 /\ f'.dSyncReg1 = R.src_hi
      BY <1>3, <1>10, <2>2, <2>3
    <3>3. f'.not_empty <=> Fetches \/ (R.not_empty /\ ~deq)
      BY <1>3, <1>10, <2>2, <2>4
    <3>4. IF Fetches THEN Rewritten(f'.dst_lo, Succ(R.dst_lo), R.dst_lo) ELSE Unwritten(f'.dst_lo, R.dst_lo)
      BY <2>2, <2>4, <2>5 DEF Rewritten, Unwritten
    <3>5. f'.dDoutReg = IF Fetches THEN R.data[Addr(R.dst_lo)] ELSE R.dDoutReg
      BY <1>3, <2>2, <2>3, <2>4, <2>8
    <3>6. QED
      BY <2>1, <3>1, <3>2, <3>3, <3>4, <3>5, <1>6 DEF DstMoved, R
  <2>10. SrcMoved'
    BY <1>3, <1>4, <1>6, <2>1, SrcStays
  <2>11. PlacesTypes' /\ Flags' /\ InOrder'
    BY <1>3, <1>7, <1>8, <1>10, <2>6, <2>7
  <2>12. QED
    BY <1>1, <1>3, <1>4, <1>6, <1>10, <2>9, <2>10, <2>11 DEF PlacesInv, R
<1>11. QED
  BY <1>1, <1>9, <1>10

-----------------------------------------------------------------------------
(* The end of a slice.                                                     *)

(* The destination's part of it, which fetches or not.                     *)
LEMMA DstPart ==
  ASSUME NEW e \in Positions, NEW a1 \in Positions, NEW a2 \in Positions,
         NEW d \in Positions, NEW b1 \in Positions, NEW b2 \in Positions,
         Ordered(e, a1, a2, d, b1, b2), NEW fetch \in BOOLEAN, fetch => a2 # d,
         NEW d1, d1 = IF fetch THEN Succ(d) ELSE d
  PROVE  /\ d1 \in Positions /\ Ordered(e, e, a1, d1, b1, b2)
         /\ Behind(e, d1) = IF fetch THEN Behind(e, d) - 1 ELSE Behind(e, d)
<1>1. CASE fetch
  <2>1. a2 # d /\ d1 = Succ(d)
    BY <1>1
  <2>2. Ordered(e, e, a1, Succ(d), b1, b2) /\ Behind(e, Succ(d)) = Behind(e, d) - 1
    BY <2>1, OrderedFetch
  <2>3. Succ(d) \in Positions
    BY PositionTypes
  <2>4. QED
    BY <1>1, <2>1, <2>2, <2>3
<1>2. CASE ~fetch
  BY <1>2, OrderedWait
<1>3. QED
  BY <1>1, <1>2

(* What the slice leaves: its registers are the fields.                    *)
Snapped ==
  /\ R'.data = f.data /\ R'.dDoutReg = f.dDoutReg /\ R'.src_lo = f.src_lo /\ R'.dst_hi = f.dst_hi
  /\ R'.dSyncReg1 = f.dSyncReg1 /\ R'.sSyncReg1 = f.sSyncReg1 /\ R'.src_hi_plus_1 = f.src_hi_plus_1
  /\ R'.dst_lo_plus_1 = f.dst_lo_plus_1 /\ R'.not_empty = f.not_empty /\ R'.not_full = f.not_full
  /\ R'.in_reset = f.in_reset /\ R'.s_reset = f.s_reset /\ R'.d_reset = f.d_reset
  /\ R'.src_hi = f.src_hi.value /\ R'.dst_lo = f.dst_lo.value
  /\ last'.notFull \in BOOLEAN /\ last'.notEmpty \in BOOLEAN
  /\ (last'.notFull <=> ~f.s_reset /\ f.not_full) /\ (last'.notEmpty <=> ~f.d_reset /\ f.not_empty)
  /\ f.in_reset => last'.queue = <<>>
  /\ ~f.in_reset => last'.queue = After(last.queue, FALSE, deq /\ last.queue # <<>>, w)

LEMMA SettledFacts ==
  ASSUME Depth # 1, PlacesTypes, last' = Places!Settled
  PROVE  Snapped
<1>1. DOMAIN f = FieldNames /\ f.in_reset \in BOOLEAN /\ clr = FALSE
  BY DEF PlacesTypes, Typed
<1> DEFINE regs == [f EXCEPT !.src_hi = Places!H!probe(@), !.dst_lo = Places!H!probe(@)]
<1>2. /\ last'.regs = regs /\ last'.notFull = Places!METH_notFull /\ last'.notEmpty = Places!METH_notEmpty
      /\ f.in_reset => last'.queue = <<>>
      /\ ~f.in_reset => last'.queue = Places!After(last.queue, clr, deq /\ last.queue # <<>>, w)
  BY DEF Places!Settled, Places!Snapshot
<1>3. /\ regs.data = f.data /\ regs.dDoutReg = f.dDoutReg /\ regs.src_lo = f.src_lo /\ regs.dst_hi = f.dst_hi
      /\ regs.dSyncReg1 = f.dSyncReg1 /\ regs.sSyncReg1 = f.sSyncReg1 /\ regs.src_hi_plus_1 = f.src_hi_plus_1
      /\ regs.dst_lo_plus_1 = f.dst_lo_plus_1 /\ regs.not_empty = f.not_empty /\ regs.not_full = f.not_full
      /\ regs.in_reset = f.in_reset /\ regs.s_reset = f.s_reset /\ regs.d_reset = f.d_reset
      /\ regs.src_hi = f.src_hi.value /\ regs.dst_lo = f.dst_lo.value
  BY <1>1 DEF FieldNames, Places!H!probe
<1> HIDE DEF regs
<1>4. R' = regs
  BY <1>2 DEF R
<1>5. /\ last'.notFull \in BOOLEAN /\ last'.notEmpty \in BOOLEAN
      /\ (last'.notFull <=> ~f.s_reset /\ f.not_full) /\ (last'.notEmpty <=> ~f.d_reset /\ f.not_empty)
  BY <1>2 DEF Places!METH_notFull, Places!METH_notEmpty
<1>6. ~f.in_reset => last'.queue = After(last.queue, FALSE, deq /\ last.queue # <<>>, w)
  BY <1>1, <1>2 DEF Places!After, After
<1>7. QED
  BY <1>2, <1>3, <1>4, <1>5, <1>6 DEF Snapped

(* The edges of an active slice.                                           *)
LEMMA TickOrder ==
  ASSUME PlacesInv, Active
  PROVE  /\ Ordered(f.src_hi.value, f.dSyncReg1, f.dst_hi, f.dst_lo.value, f.sSyncReg1, f.src_lo)
         /\ ~f.s_reset /\ f.not_full => Behind(f.src_hi.value, f.src_lo) < Depth
         /\ deq => last.queue # <<>>
         /\ Len(After(last.queue, FALSE, deq, w))
              = Behind(f.src_hi.value, f.dst_lo.value) + Bit(~f.d_reset /\ f.not_empty)
<1> DEFINE e == R.src_hi  a1 == R.dSyncReg1  a2 == R.dst_hi  d == R.dst_lo  b1 == R.sSyncReg1  b2 == R.src_lo
           e1 == f.src_hi.value  d1 == f.dst_lo.value  h1 == ~f.d_reset /\ f.not_empty
           fetch == "dst" \in edges /\ Fetches
           enq == w # None
<1>1. /\ e \in Positions /\ a1 \in Positions /\ a2 \in Positions /\ d \in Positions /\ b1 \in Positions
      /\ b2 \in Positions /\ f.dSyncReg1 \in Positions /\ f.dst_hi \in Positions
      /\ R.not_empty \in BOOLEAN /\ R.d_reset \in BOOLEAN /\ deq \in BOOLEAN /\ last.notEmpty \in BOOLEAN
      /\ fetch \in BOOLEAN /\ enq \in BOOLEAN
  BY DEF PlacesInv, PlacesTypes, Typed, Fetches
<1>2. /\ Ordered(e, a1, a2, d, b1, b2) /\ SrcMoved /\ DstMoved /\ ~R.in_reset
      /\ (last.notFull => Behind(e, b2) < Depth)
      /\ (last.notEmpty <=> R.not_empty)
      /\ (last.notFull <=> ~R.s_reset /\ R.not_full)
      /\ (~f.in_reset /\ f.d_reset => ~f.not_empty)
  BY <1>1 DEF PlacesInv, Active, InOrder, Flags
<1>3. /\ d1 \in Positions
      /\ Ordered(e, f.dSyncReg1, f.dst_hi, d1, b1, b2)
      /\ Behind(e, d1) = IF fetch THEN Behind(e, d) - 1 ELSE Behind(e, d)
  <2>1. CASE "dst" \in edges
    <3>1. /\ f.dst_hi = a1 /\ f.dSyncReg1 = e /\ d1 = IF fetch THEN Succ(d) ELSE d
          /\ fetch => a2 # d
      BY <1>2, <2>1 DEF DstMoved, Rewritten, Unwritten, Fetches
    <3> HIDE DEF e, a1, a2, d, b1, b2, d1, fetch
    <3>2. QED
      BY <1>1, <1>2, <3>1, DstPart
  <2>2. CASE "dst" \notin edges
    BY <1>1, <1>2, <2>2 DEF DstMoved, Unwritten
  <2>3. QED
    BY <2>1, <2>2
<1>4. Behind(e, d1) <= Behind(e, d) /\ Behind(e, d) <= Behind(e, b1) /\ Behind(e, d) \in Nat
  BY <1>1, <1>2, <1>3, BehindNat DEF Ordered
<1>5. /\ e1 \in Positions
      /\ Ordered(e1, f.dSyncReg1, f.dst_hi, d1, f.sSyncReg1, f.src_lo)
      /\ ~f.s_reset /\ f.not_full => Behind(e1, f.src_lo) < Depth
      /\ Behind(e1, d1) = IF enq THEN Behind(e, d1) + 1 ELSE Behind(e, d1)
  <2>1. CASE "src" \in edges
    <3>1. /\ f.src_lo = b1 /\ f.sSyncReg1 = d /\ e1 = IF enq THEN Succ(e) ELSE e
          /\ (f.not_full <=> Opposite(e1) # b2) /\ (enq => Behind(e, b2) < Depth)
      BY <1>2, <2>1 DEF SrcMoved, Rewritten, Unwritten
    <3> DEFINE x1 == f.dSyncReg1  x2 == f.dst_hi
    <3>2. x1 \in Positions /\ x2 \in Positions /\ Ordered(e, x1, x2, d1, b1, b2)
      BY <1>1, <1>3
    <3> HIDE DEF e, a1, a2, d, b1, b2, d1, e1, enq, x1, x2
    <3>3. /\ e1 \in Positions /\ Ordered(e1, x1, x2, d1, d, b1)
          /\ b2 # Opposite(e1) => Behind(e1, b1) < Depth
          /\ Behind(e1, d1) = IF enq THEN Behind(e, d1) + 1 ELSE Behind(e, d1)
      <4>1. /\ Behind(e, d1) <= Behind(e, d) /\ Behind(e, d) <= Behind(e, b1)
            /\ e \in Positions /\ d1 \in Positions /\ b1 \in Positions /\ b2 \in Positions /\ d \in Positions
            /\ enq \in BOOLEAN
        BY <1>1, <1>3, <1>4
      <4>2. CASE enq
        <5>1. e1 = Succ(e) /\ Behind(e, b2) < Depth
          BY <3>1, <4>2
        <5>2. QED
          BY <3>2, <4>1, <4>2, <5>1, DepthAssumption DEF Ordered, Behind, Positions, Succ, Opposite
      <4>3. CASE ~enq
        BY <3>1, <3>2, <4>1, <4>3, DepthAssumption DEF Ordered, Behind, Positions, Opposite
      <4>4. QED
        BY <4>2, <4>3
    <3>4. QED
      BY <3>1, <3>3 DEF x1, x2
  <2>2. CASE "src" \notin edges
    <3>1. f.src_lo = b2 /\ f.sSyncReg1 = b1 /\ e1 = e /\ ~enq /\ f.s_reset = R.s_reset /\ f.not_full = R.not_full
      BY <1>2, <2>2 DEF SrcMoved, Unwritten, Active
    <3>2. QED
      BY <1>1, <1>2, <1>3, <3>1
  <2>3. QED
    BY <2>1, <2>2
<1>6. last.queue \in Seq(Data) /\ w \in Elements /\ Len(last.queue) = Behind(e, d) + Bit(last.notEmpty)
  BY DEF PlacesInv, PlacesTypes, InOrder
<1>7. /\ deq => R.not_empty
      /\ h1 <=> fetch \/ (R.not_empty /\ ~deq)
      /\ fetch => deq \/ ~R.not_empty
  <2>1. CASE "dst" \in edges
    BY <1>2, <2>1 DEF DstMoved, Fetches
  <2>2. CASE "dst" \notin edges
    BY <1>1, <1>2, <2>2 DEF DstMoved, Active, PlacesInv, Flags
  <2>3. QED
    BY <2>1, <2>2
<1> HIDE DEF e, a1, a2, d, b1, b2, d1, e1, h1, fetch, enq
<1>8. deq => last.queue # <<>>
  BY <1>2, <1>4, <1>6, <1>7 DEF Bit
<1>9. Len(After(last.queue, FALSE, deq, w)) = Len(last.queue) - Bit(deq) + Bit(enq)
  <2> DEFINE rest == IF deq THEN Tail(last.queue) ELSE last.queue
             q1   == After(last.queue, FALSE, deq, w)
  <2>1. q1 = IF enq THEN Append(rest, w) ELSE rest
    BY DEF After, enq
  <2>2. rest \in Seq(Data) /\ Len(rest) = Len(last.queue) - Bit(deq)
    <3>1. CASE deq
      BY <1>6, <1>8, <3>1 DEF Bit
    <3>2. CASE ~deq
      BY <1>6, <3>2 DEF Bit
    <3>3. QED
      BY <3>1, <3>2
  <2>3. enq => w \in Data
    BY <1>6 DEF enq, Elements
  <2> HIDE DEF q1, rest
  <2>4. Len(q1) = Len(rest) + Bit(enq)
    <3>1. CASE enq
      BY <2>1, <2>2, <2>3, <3>1 DEF Bit
    <3>2. CASE ~enq
      BY <2>1, <2>2, <3>2 DEF Bit
    <3>3. QED
      BY <3>1, <3>2
  <2>5. QED
    BY <2>2, <2>4 DEF q1
<1>10. Behind(e1, d1) + Bit(h1) = Behind(e, d) + Bit(R.not_empty) - Bit(deq) + Bit(enq)
  BY <1>1, <1>3, <1>4, <1>5, <1>7 DEF Bit
<1>11. Bit(R.not_empty) = Bit(last.notEmpty) /\ Bit(deq) \in Nat /\ Bit(enq) \in Nat
  BY <1>1, <1>2 DEF Bit
<1>12. Len(After(last.queue, FALSE, deq, w)) = Behind(e1, d1) + Bit(h1)
  <2> DEFINE n == Len(After(last.queue, FALSE, deq, w))  k == Behind(e1, d1) + Bit(h1)  q == Len(last.queue)
             was == Bit(last.notEmpty)  took == Bit(deq)  came == Bit(enq)  held == Behind(e, d)
  <2>1. /\ held \in Nat /\ was \in Nat /\ took \in Nat /\ came \in Nat /\ Bit(R.not_empty) = was
        /\ q = held + was /\ n = q - took + came /\ k = held + Bit(R.not_empty) - took + came
    BY <1>4, <1>6, <1>9, <1>10, <1>11 DEF Bit
  <2> HIDE DEF n, k, q, was, took, came, held
  <2>2. n = k
    BY <2>1
  <2>3. QED
    BY <2>2 DEF n, k
<1>13. QED
  BY <1>5, <1>8, <1>12 DEF e1, d1, h1

(* The Gray words tell what the positions do.                              *)
LEMMA DeepNames ==
  \A p \in Positions :
    /\ Places!Deep!Succ(p) = Succ(p) /\ Places!Deep!Addr(p) = Addr(p)
    /\ \A r \in Positions : (Places!Deep!FlipTop2(Width, Code[p]) # Code[r] <=> r # Opposite(p))
<1>1. ASSUME NEW p \in Positions, NEW r \in Positions
      PROVE  Places!Deep!FlipTop2(Width, Code[p]) # Code[r] <=> r # Opposite(p)
  <2>1. Places!Deep!FlipTop2(Width, Code[p]) = FlipTop2(Width, Code[p])
    BY Zenon DEF Places!Deep!FlipTop2, FlipTop2
  <2>2. QED
    BY <2>1, FullTest
<1>2. QED
  BY <1>1 DEF Places!Deep!Succ, Places!Deep!Addr, Succ, Addr

(* The source's registers move as the always blocks do, ...                *)
LEMMA SrcBlock ==
  ASSUME PlacesInv, Active, Snapped, "src" \in edges
  PROVE  Places!Deep!SrcEdge(w, Code[R.dst_lo])
<1>1. /\ R.src_hi \in Positions /\ R.src_lo \in Positions /\ Succ(R.src_hi) \in Positions
      /\ f.not_full \in BOOLEAN /\ R.src_hi_plus_1 = Succ(R.src_hi)
      /\ f.src_hi_plus_1 = Succ(f.src_hi.value)
  BY PositionTypes DEF PlacesInv, PlacesTypes, Typed, Flags
<1>2. SrcMoved
  BY DEF PlacesInv, Active
<1>3. /\ w # None => last.notFull
      /\ R'.sSyncReg1 = R.dst_lo /\ R'.src_lo = R.sSyncReg1
      /\ R'.src_hi = IF w # None THEN Succ(R.src_hi) ELSE R.src_hi
      /\ R'.src_hi_plus_1 = Succ(R'.src_hi)
      /\ R'.data = IF w # None THEN [R.data EXCEPT ![Addr(R.src_hi)] = w] ELSE R.data
      /\ last'.notFull \in BOOLEAN /\ (last'.notFull <=> Opposite(R'.src_hi) # R.src_lo)
  BY <1>1, <1>2 DEF SrcMoved, Snapped, Rewritten, Unwritten
<1>4. last'.notFull = (Places!Deep!FlipTop2(Width, Code[R'.src_hi]) # Code[R.src_lo])
  <2>1. R'.src_hi \in Positions
    BY <1>1, <1>3
  <2>2. Places!Deep!FlipTop2(Width, Code[R'.src_hi]) # Code[R.src_lo] <=> R.src_lo # Opposite(R'.src_hi)
    BY <1>1, <2>1, DeepNames
  <2>3. QED
    BY <1>3, <2>2
<1>5. CASE w # None
  <2>1. /\ Places!Deep!Addr(R.src_hi) = Addr(R.src_hi) /\ Places!Deep!Succ(R.src_hi_plus_1) = Succ(R.src_hi_plus_1)
    BY <1>1, DeepNames
  <2>2. last'.notFull = (Places!Deep!FlipTop2(Width, Code[R.src_hi_plus_1]) # Code[R.src_lo])
    BY <1>1, <1>3, <1>4, <1>5
  <2>3. QED
    BY <1>1, <1>3, <1>5, <2>1, <2>2 DEF Places!Deep!SrcEdge, Places!Deep!sFutureNotFull, R
<1>6. CASE w = None
  <2>1. last'.notFull = (Places!Deep!FlipTop2(Width, Code[R.src_hi]) # Code[R.src_lo])
    BY <1>3, <1>4, <1>6
  <2>2. QED
    BY <1>1, <1>3, <1>6, <2>1 DEF Places!Deep!SrcEdge, Places!Deep!sNextNotFull, R
<1>7. QED
  BY <1>5, <1>6

(* ... and without an edge not at all.                                     *)
LEMMA SrcWaits ==
  ASSUME PlacesInv, Active, Snapped, "src" \notin edges
  PROVE  w = None /\ UNCHANGED Places!Deep!sVars
<1>1. w = None /\ SrcMoved /\ Flags
  BY DEF PlacesInv, Active
<1>2. /\ R'.data = R.data /\ R'.src_hi = R.src_hi /\ R'.src_hi_plus_1 = R.src_hi_plus_1
      /\ R'.sSyncReg1 = R.sSyncReg1 /\ R'.src_lo = R.src_lo
  BY <1>1 DEF SrcMoved, Snapped, Unwritten, Flags
<1>3. last'.notFull = last.notFull
  <2>1. last'.notFull \in BOOLEAN /\ last.notFull \in BOOLEAN
    BY DEF Snapped, PlacesInv, PlacesTypes
  <2>2. last'.notFull <=> last.notFull
    BY <1>1 DEF Snapped, SrcMoved, Flags
  <2>3. QED
    BY <2>1, <2>2
<1>4. QED
  BY <1>1, <1>2, <1>3 DEF Places!Deep!sVars, R

(* The destination's, whatever is on the output while it fetches nothing.  *)
LEMMA DstBlock ==
  ASSUME PlacesInv, Active, Snapped, "dst" \in edges,
         NEW head, Fetches => head = R.data[Addr(R.dst_lo)]
  PROVE  /\ Places!Deep!DstEdge(deq, Code[R.src_hi], head)
         /\ Places!Deep!Fetch(deq) = Fetches
<1>1. /\ R.dst_hi \in Positions /\ R.dst_lo \in Positions /\ Succ(R.dst_lo) \in Positions
      /\ f.not_empty \in BOOLEAN /\ R.not_empty \in BOOLEAN /\ deq \in BOOLEAN /\ last.notEmpty \in BOOLEAN
      /\ R.dst_lo_plus_1 = Succ(R.dst_lo) /\ f.dst_lo_plus_1 = Succ(f.dst_lo.value)
  BY PositionTypes DEF PlacesInv, PlacesTypes, Typed, Flags
<1>2. DstMoved /\ ~R.in_reset /\ (last.notEmpty <=> R.not_empty)
  BY <1>1 DEF PlacesInv, Active, Flags
<1>3. Places!Deep!Fetch(deq) = Fetches
  <2>1. Code[R.dst_lo] # Code[R.dst_hi] <=> R.dst_hi # R.dst_lo
    BY <1>1, CodeFacts
  <2>2. QED
    BY <1>1, <1>2, <2>1 DEF Places!Deep!Fetch, Places!Deep!dNextNotEmpty, Fetches, R
<1>4. /\ deq => last.notEmpty
      /\ R'.dSyncReg1 = R.src_hi /\ R'.dst_hi = R.dSyncReg1
      /\ R'.dst_lo = IF Fetches THEN Succ(R.dst_lo) ELSE R.dst_lo
      /\ R'.dst_lo_plus_1 = Succ(R'.dst_lo)
      /\ R'.dDoutReg = IF Fetches THEN head ELSE R.dDoutReg
      /\ last'.notEmpty \in BOOLEAN /\ (last'.notEmpty <=> Fetches \/ (last.notEmpty /\ ~deq))
  BY <1>1, <1>2 DEF DstMoved, Snapped, Rewritten, Unwritten
<1>5. CASE Fetches
  <2>1. Places!Deep!Succ(R.dst_lo_plus_1) = Succ(R.dst_lo_plus_1)
    BY <1>1, DeepNames
  <2>2. last'.notEmpty = TRUE
    BY <1>4, <1>5
  <2>3. Places!Deep!Fetch(deq)
    BY <1>3, <1>5
  <2>4. Places!Deep!DstEdge(deq, Code[R.src_hi], head)
    BY <1>1, <1>4, <1>5, <2>1, <2>2, <2>3 DEF Places!Deep!DstEdge, R
  <2>5. QED
    BY <1>3, <2>4
<1>6. CASE ~Fetches
  <2>1. last'.notEmpty = (last.notEmpty /\ ~deq)
    BY <1>1, <1>4, <1>6
  <2>2. ~Places!Deep!Fetch(deq)
    BY <1>3, <1>6
  <2>3. Places!Deep!DstEdge(deq, Code[R.src_hi], head)
    BY <1>1, <1>4, <1>6, <2>1, <2>2 DEF Places!Deep!DstEdge, R
  <2>4. QED
    BY <1>3, <2>3
<1>7. QED
  BY <1>5, <1>6

LEMMA DstWaits ==
  ASSUME PlacesInv, Active, Snapped, "dst" \notin edges
  PROVE  ~deq /\ UNCHANGED Places!Deep!dVars
<1>1. ~deq /\ DstMoved /\ Flags /\ ~R.in_reset
  BY DEF PlacesInv, Active
<1>2. /\ R'.dst_lo = R.dst_lo /\ R'.dst_lo_plus_1 = R.dst_lo_plus_1 /\ R'.dDoutReg = R.dDoutReg
      /\ R'.dSyncReg1 = R.dSyncReg1 /\ R'.dst_hi = R.dst_hi
  BY <1>1 DEF DstMoved, Snapped, Unwritten, Flags
<1>3. last'.notEmpty = last.notEmpty
  <2>1. last'.notEmpty \in BOOLEAN /\ last.notEmpty \in BOOLEAN
    BY DEF Snapped, PlacesInv, PlacesTypes
  <2>2. last'.notEmpty <=> last.notEmpty
    BY <1>1 DEF Snapped, DstMoved, Flags
  <2>3. QED
    BY <2>1, <2>2
<1>4. QED
  BY <1>1, <1>2, <1>3 DEF Places!Deep!dVars, R

(* A slice out of reset is a tick of the clocks that have had their edge.  *)
LEMMA ActiveSlice ==
  ASSUME PlacesInv, Active, Snapped
  PROVE  [Places!Deep!Next]_(Places!Deep!vars)
<1>1. /\ ~R.in_reset /\ R'.in_reset = R.in_reset /\ R.in_reset = FALSE
      /\ deq \in BOOLEAN /\ w \in Elements /\ last.queue \in Seq(Data)
  BY DEF PlacesInv, PlacesTypes, Typed, Active, Snapped
<1>2. last'.queue = Places!Deep!After(last.queue, FALSE, deq, w)
  <2>1. deq /\ last.queue # <<>> <=> deq
    BY TickOrder
  <2>2. last'.queue = After(last.queue, FALSE, deq /\ last.queue # <<>>, w)
    BY <1>1 DEF Snapped, Active
  <2>3. (deq /\ last.queue # <<>>) = deq
    BY <1>1, <2>1
  <2>4. QED
    BY <2>2, <2>3 DEF Places!Deep!After, After
<1>3. /\ R.src_hi \in Positions /\ R.dst_lo \in Positions /\ Succ(R.src_hi) \in Positions
      /\ Succ(R.dst_lo) \in Positions /\ R.src_hi_plus_1 = Succ(R.src_hi) /\ R.dst_lo_plus_1 = Succ(R.dst_lo)
  BY PositionTypes DEF PlacesInv, PlacesTypes, Flags
<1>4. CASE "src" \in edges /\ "dst" \in edges
  <2> DEFINE same == w # None /\ Addr(R.src_hi) = Addr(R.dst_lo)
             head == IF same THEN w ELSE R.data[Addr(R.dst_lo)]
  <2>1. Fetches => ~same
    BY <1>4, FetchedApart DEF PlacesInv, Active, SrcMoved, Fetches
  <2>2. Fetches => head = R.data[Addr(R.dst_lo)]
    BY <2>1
  <2>3. /\ Places!Deep!SrcEdge(w, Code[R.dst_lo]) /\ Places!Deep!DstEdge(deq, Code[R.src_hi], head)
    BY <1>4, <2>2, SrcBlock, DstBlock
  <2>4. Code[R.dst_lo] \in Places!Deep!Capture(Code[R.dst_lo],
                             IF Places!Deep!Fetch(deq) THEN Code[R.dst_lo_plus_1] ELSE Code[R.dst_lo])
    BY <1>3, CodeFacts DEF Places!Deep!Capture, Places!Deep!Word, Word
  <2>5. Code[R.src_hi] \in Places!Deep!Capture(Code[R.src_hi],
                             IF w # None THEN Code[R.src_hi_plus_1] ELSE Code[R.src_hi])
    BY <1>3, CodeFacts DEF Places!Deep!Capture, Places!Deep!Word, Word
  <2>6. head \in IF w # None /\ Places!Deep!Addr(R.src_hi) = Places!Deep!Addr(R.dst_lo)
                   THEN Data ELSE {R.data[Places!Deep!Addr(R.dst_lo)]}
    <3>1. Places!Deep!Addr(R.src_hi) = Addr(R.src_hi) /\ Places!Deep!Addr(R.dst_lo) = Addr(R.dst_lo)
      BY <1>3, DeepNames
    <3>2. same => w \in Data
      BY <1>1 DEF Elements
    <3>3. QED
      BY <3>1, <3>2
  <2> HIDE DEF head
  <2>7. Places!Deep!BothTick(w, deq)
    BY <1>1, <1>2, <2>3, <2>4, <2>5, <2>6 DEF Places!Deep!BothTick, R
  <2>8. QED
    BY <1>1, <2>7 DEF Places!Deep!Next, Elements
<1>5. CASE "src" \in edges /\ "dst" \notin edges
  <2>1. Places!Deep!SrcEdge(w, Code[R.dst_lo]) /\ ~deq /\ UNCHANGED Places!Deep!dVars
    BY <1>5, SrcBlock, DstWaits
  <2>2. deq = FALSE
    BY <1>1, <2>1
  <2>3. Places!Deep!SrcTick(w)
    BY <1>1, <1>2, <2>1, <2>2 DEF Places!Deep!SrcTick, R
  <2>4. QED
    BY <1>1, <2>3 DEF Places!Deep!Next, Elements
<1>6. CASE "src" \notin edges /\ "dst" \in edges
  <2> DEFINE head == R.data[Addr(R.dst_lo)]
  <2>1. Places!Deep!DstEdge(deq, Code[R.src_hi], head) /\ w = None /\ UNCHANGED Places!Deep!sVars
    BY <1>6, DstBlock, SrcWaits
  <2>2. R.data[Places!Deep!Addr(R.dst_lo)] = head
    BY <1>3, DeepNames
  <2> HIDE DEF head
  <2>3. Places!Deep!DstTick(deq)
    BY <1>1, <1>2, <2>1, <2>2 DEF Places!Deep!DstTick, R
  <2>4. QED
    BY <1>1, <2>3 DEF Places!Deep!Next
<1>7. CASE "src" \notin edges /\ "dst" \notin edges
  <2>1. w = None /\ ~deq /\ UNCHANGED Places!Deep!sVars /\ UNCHANGED Places!Deep!dVars
    BY <1>7, SrcWaits, DstWaits
  <2>2. last'.queue = last.queue
    BY <1>1, <1>2, <2>1 DEF Places!Deep!After
  <2>3. QED
    BY <1>1, <2>1, <2>2 DEF Places!Deep!vars, R
<1>8. QED
  BY <1>4, <1>5, <1>6, <1>7

(* A slice in reset, or into or out of it.                                 *)
LEMMA ResetSlice ==
  ASSUME PlacesInv, Snapped, settled \/ f.in_reset
  PROVE  [Places!Deep!Next]_(Places!Deep!vars)
<1>1. /\ FieldsAtReset /\ NoCalls /\ f.data = R.data /\ f.dDoutReg = R.dDoutReg
      /\ f.in_reset \in BOOLEAN /\ R.in_reset \in BOOLEAN /\ Flags
      /\ last.notFull \in BOOLEAN /\ last.notEmpty \in BOOLEAN
  BY DEF PlacesInv, PlacesTypes, Typed
<1>2. /\ R'.src_hi = 0 /\ R'.dst_lo = 0 /\ R'.src_lo = 0 /\ R'.dst_hi = 0 /\ R'.dSyncReg1 = 0 /\ R'.sSyncReg1 = 0
      /\ R'.src_hi_plus_1 = 1 /\ R'.dst_lo_plus_1 = 1 /\ R'.data = R.data /\ R'.dDoutReg = R.dDoutReg
      /\ R'.in_reset = f.in_reset
  BY <1>1, PositionTypes DEF Snapped, FieldsAtReset, AtReset, Still, Flags
<1>3. last'.notFull = FALSE /\ last'.notEmpty = FALSE
  BY <1>1 DEF Snapped, FieldsAtReset, AtReset
<1>4. CASE f.in_reset
  <2>1. last'.queue = <<>> /\ R'.in_reset = TRUE
    BY <1>1, <1>2, <1>4 DEF Snapped
  <2>2. Places!Deep!AssertReset
    BY <1>2, <1>3, <2>1 DEF Places!Deep!AssertReset, Places!Deep!ResetRegs, R
  <2>3. QED
    BY <2>2 DEF Places!Deep!Next
<1>5. CASE ~f.in_reset
  <2>1. RegsAtReset /\ R.in_reset
    BY <1>1, <1>5 DEF PlacesInv
  <2>2. last'.queue = last.queue
    BY <1>1, <1>5, <2>1 DEF Snapped, RegsAtReset, NoCalls, After
  <2>3. /\ R.src_hi = 0 /\ R.dst_lo = 0 /\ R.src_lo = 0 /\ R.dst_hi = 0 /\ R.dSyncReg1 = 0 /\ R.sSyncReg1 = 0
        /\ R.src_hi_plus_1 = 1 /\ R.dst_lo_plus_1 = 1 /\ last.notFull = FALSE /\ last.notEmpty = FALSE
    BY <1>1, <2>1, PositionTypes DEF RegsAtReset, AtReset, Flags
  <2>4. R'.in_reset = FALSE
    BY <1>1, <1>2, <1>5
  <2>5. Places!Deep!ReleaseReset
    BY <1>2, <1>3, <2>1, <2>2, <2>3, <2>4 DEF Places!Deep!ReleaseReset, Places!Deep!sVars, Places!Deep!dVars, R
  <2>6. QED
    BY <2>5 DEF Places!Deep!Next
<1>6. QED
  BY <1>1, <1>4, <1>5

(* What the end of any slice leaves of the history.                        *)
LEMMA Settles ==
  ASSUME Depth # 1, PlacesInv, Places!SliceComplete, last' = Places!Settled
  PROVE  /\ Snapped /\ InOrder' /\ last'.queue \in Seq(Data) /\ Typed(R')
         /\ R'.src_hi \in Positions /\ R'.dst_lo \in Positions
         /\ f.in_reset => RegsAtReset'
         /\ [Places!Deep!Next]_(Places!Deep!vars)
<1>1. Snapped
  BY SettledFacts DEF PlacesInv
<1>2. /\ f.in_reset \in BOOLEAN /\ settled \in BOOLEAN /\ deq \in BOOLEAN /\ w \in Elements
      /\ last.queue \in Seq(Data) /\ Typed(f) /\ f.src_hi.value \in Positions /\ f.dst_lo.value \in Positions
  BY DEF PlacesInv, PlacesTypes, Typed, VarOf
<1>3. Typed(R') /\ R'.src_hi \in Positions /\ R'.dst_lo \in Positions
  BY <1>1, <1>2 DEF Snapped, Typed
<1>4. CASE settled \/ f.in_reset
  <2>1. FieldsAtReset /\ NoCalls /\ [Places!Deep!Next]_(Places!Deep!vars)
    BY <1>1, <1>4, ResetSlice DEF PlacesInv
  <2>2. last'.queue = <<>>
    <3>1. CASE f.in_reset
      BY <1>1, <3>1 DEF Snapped
    <3>2. CASE ~f.in_reset
      <4>1. last.queue = <<>>
        BY <1>2, <1>4, <3>2 DEF PlacesInv, RegsAtReset, PlacesTypes, Typed
      <4>2. QED
        BY <1>1, <2>1, <3>2, <4>1 DEF Snapped, NoCalls, After
    <3>3. QED
      BY <3>1, <3>2
  <2>3. /\ R'.src_hi = 0 /\ R'.dst_lo = 0 /\ R'.src_lo = 0 /\ R'.dst_hi = 0 /\ R'.dSyncReg1 = 0
        /\ R'.sSyncReg1 = 0 /\ R'.s_reset /\ R'.d_reset /\ ~last'.notFull /\ ~last'.notEmpty
        /\ last'.notEmpty \in BOOLEAN
    BY <1>1, <2>1 DEF Snapped, FieldsAtReset, AtReset, Still
  <2>4. RegsAtReset'
    BY <2>2, <2>3 DEF RegsAtReset, AtReset, R
  <2>5. InOrder'
    <3>1. Behind(0, 0) = 0 /\ 0 <= Depth /\ Ordered(0, 0, 0, 0, 0, 0)
      BY DepthAssumption DEF Behind, Ordered
    <3>2. Bit(last'.notEmpty) = 0
      BY <2>3 DEF Bit
    <3>3. /\ Ordered(R'.src_hi, R'.dSyncReg1, R'.dst_hi, R'.dst_lo, R'.sSyncReg1, R'.src_lo)
          /\ Behind(R'.src_hi, R'.dst_lo) = 0
      BY <2>3, <3>1
    <3>4. Len(last'.queue) = Behind(R'.src_hi, R'.dst_lo) + Bit(last'.notEmpty)
      BY <2>2, <3>2, <3>3
    <3>5. QED
      BY <2>3, <3>3, <3>4 DEF InOrder, R
  <2>6. QED
    BY <1>1, <1>3, <2>1, <2>2, <2>4, <2>5
<1>5. CASE ~(settled \/ f.in_reset)
  <2>1. Active
    BY <1>5 DEF Active, Places!SliceComplete
  <2>2. last'.queue = After(last.queue, FALSE, deq, w)
    <3>1. (deq /\ last.queue # <<>>) = deq
      BY <1>2, <2>1, TickOrder
    <3>2. QED
      BY <1>1, <1>5, <3>1 DEF Snapped
  <2>3. last'.queue \in Seq(Data)
    <3>1. deq => last.queue # <<>>
      BY <2>1, TickOrder
    <3>2. deq => Tail(last.queue) \in Seq(Data)
      BY <1>2, <3>1
    <3>3. w # None => w \in Data
      BY <1>2 DEF Elements
    <3>4. QED
      BY <1>2, <2>2, <3>2, <3>3 DEF After
  <2>4. InOrder'
    <3>1. /\ Ordered(f.src_hi.value, f.dSyncReg1, f.dst_hi, f.dst_lo.value, f.sSyncReg1, f.src_lo)
          /\ ~f.s_reset /\ f.not_full => Behind(f.src_hi.value, f.src_lo) < Depth
          /\ Len(last'.queue) = Behind(f.src_hi.value, f.dst_lo.value) + Bit(~f.d_reset /\ f.not_empty)
      BY <2>1, <2>2, TickOrder
    <3>2. Bit(last'.notEmpty) = Bit(~f.d_reset /\ f.not_empty)
      BY <1>1 DEF Snapped, Bit
    <3>3. /\ Ordered(R'.src_hi, R'.dSyncReg1, R'.dst_hi, R'.dst_lo, R'.sSyncReg1, R'.src_lo)
          /\ last'.notFull => Behind(R'.src_hi, R'.src_lo) < Depth
          /\ Len(last'.queue) = Behind(R'.src_hi, R'.dst_lo) + Bit(last'.notEmpty)
      BY <1>1, <3>1, <3>2 DEF Snapped
    <3>4. QED
      BY <3>3 DEF InOrder, R
  <2>5. [Places!Deep!Next]_(Places!Deep!vars)
    BY <1>1, <2>1, ActiveSlice
  <2>6. QED
    BY <1>1, <1>3, <1>5, <2>3, <2>4, <2>5
<1>6. QED
  BY <1>4, <1>5

(* A new slice begins with the registers of the old.                       *)
LEMMA NextSliceKeeps ==
  ASSUME Depth # 1, PlacesInv, Places!NextSlice
  PROVE  PlacesInv' /\ [Places!Deep!Next]_(Places!Deep!vars)
<1> DEFINE hi == Places!H!Later(f.src_hi)  lo == Places!H!Later(f.dst_lo)
           sc == Places!H!LaterHandshake(f.sClrSync)  dc == Places!H!LaterHandshake(f.dClrSync)
<1>1. /\ Places!SliceComplete /\ last' = Places!Settled /\ settled' = FALSE /\ edges' = {} /\ w' = None
      /\ deq' = FALSE /\ clr' = FALSE
      /\ f' = [f EXCEPT !.src_hi = hi, !.dst_lo = lo, !.sClrSync = sc, !.dClrSync = dc]
  BY DEF Places!NextSlice, Places!NewSlice
<1>2. /\ DOMAIN f = FieldNames /\ Typed(f) /\ f.did_enq \in BOOLEAN /\ f.did_deq \in BOOLEAN
      /\ f.src_hi \in VarOf(Positions) /\ f.dst_lo \in VarOf(Positions) /\ f.in_reset \in BOOLEAN
  BY DEF PlacesInv, PlacesTypes, Typed
<1>3. /\ hi = [value |-> f.src_hi.value, prev_value |-> f.src_hi.prev_value, written_at |-> FALSE]
      /\ lo = [value |-> f.dst_lo.value, prev_value |-> f.dst_lo.prev_value, written_at |-> FALSE]
  <2>1. ASSUME NEW x \in VarOf(Positions), NEW y, y = Places!H!Later(x)
        PROVE  y = [value |-> x.value, prev_value |-> x.prev_value, written_at |-> FALSE]
    BY <2>1 DEF Places!H!Later, VarOf
  <2>2. QED
    BY <1>2, <2>1
<1> HIDE DEF hi, lo, sc, dc
<1>4. f'.src_hi = hi /\ f'.dst_lo = lo /\ Kept({"src_hi", "dst_lo", "sClrSync", "dClrSync"})
  BY <1>1, <1>2 DEF FieldNames, Kept
<1>5. /\ f'.data = f.data /\ f'.dDoutReg = f.dDoutReg /\ f'.src_lo = f.src_lo /\ f'.dst_hi = f.dst_hi
      /\ f'.dSyncReg1 = f.dSyncReg1 /\ f'.sSyncReg1 = f.sSyncReg1 /\ f'.src_hi_plus_1 = f.src_hi_plus_1
      /\ f'.dst_lo_plus_1 = f.dst_lo_plus_1 /\ f'.not_empty = f.not_empty /\ f'.not_full = f.not_full
      /\ f'.in_reset = f.in_reset /\ f'.s_reset = f.s_reset /\ f'.d_reset = f.d_reset
      /\ f'.did_enq = f.did_enq /\ f'.did_deq = f.did_deq /\ DOMAIN f' = FieldNames
  BY <1>4 DEF Kept, FieldNames
<1>6. /\ Snapped /\ InOrder' /\ last'.queue \in Seq(Data) /\ Typed(R')
      /\ R'.src_hi \in Positions /\ R'.dst_lo \in Positions
      /\ f.in_reset => RegsAtReset'
      /\ [Places!Deep!Next]_(Places!Deep!vars)
  BY <1>1, Settles
<1>7. PlacesTypes'
  <2>1. hi \in VarOf(Positions) /\ lo \in VarOf(Positions)
    BY <1>2, <1>3 DEF VarOf
  <2>2. Typed(f)'
    BY <1>2, <1>5 DEF Typed
  <2>3. Typed(R)'
    BY <1>6 DEF R
  <2>4. last'.notFull \in BOOLEAN /\ last'.notEmpty \in BOOLEAN
    BY <1>6 DEF Snapped
  <2>5. QED
    BY <1>1, <1>2, <1>4, <1>5, <1>6, <2>1, <2>2, <2>3, <2>4 DEF PlacesTypes, R, Elements
<1>8. f'.src_hi.value = f.src_hi.value /\ f'.dst_lo.value = f.dst_lo.value /\ ~f'.src_hi.written_at /\ ~f'.dst_lo.written_at
  BY <1>3, <1>4
<1>9. Flags'
  BY <1>5, <1>6, <1>8 DEF Flags, Snapped, R, PlacesInv
<1>10. ASSUME settled \/ f.in_reset
       PROVE  ~f.did_enq /\ ~f.did_deq
  BY <1>10 DEF PlacesInv, FieldsAtReset
<1>11. ASSUME ~settled, ~f.in_reset
       PROVE  ~f.did_enq /\ ~f.did_deq
  BY <1>1, <1>11 DEF PlacesInv, SrcMoved, DstMoved, Places!SliceComplete
<1>12. ~f.did_enq /\ ~f.did_deq
  BY <1>10, <1>11
<1>13. CASE f.in_reset
  <2>1. FieldsAtReset
    BY <1>13 DEF PlacesInv
  <2>2. FieldsAtReset'
    BY <1>3, <1>4, <1>5, <2>1 DEF FieldsAtReset, AtReset, Still
  <2>3. NoCalls' /\ f'.data = R'.data /\ f'.dDoutReg = R'.dDoutReg /\ f'.in_reset = R'.in_reset
    BY <1>1, <1>5, <1>6 DEF NoCalls, Snapped
  <2>4. QED
    BY <1>1, <1>5, <1>6, <1>7, <1>9, <1>13, <2>2, <2>3 DEF PlacesInv, R
<1>14. CASE ~f.in_reset
  <2>1. f'.in_reset = R'.in_reset /\ ~R'.in_reset
    BY <1>5, <1>6, <1>14 DEF Snapped
  <2>2. SrcMoved'
    BY <1>1, <1>2, <1>5, <1>6, <1>8, <1>12 DEF SrcMoved, Snapped, R, Unwritten
  <2>3. DstMoved'
    BY <1>1, <1>2, <1>5, <1>6, <1>8, <1>12 DEF DstMoved, Snapped, R, Unwritten
  <2>4. QED
    BY <1>1, <1>5, <1>6, <1>7, <1>9, <1>14, <2>1, <2>2, <2>3 DEF PlacesInv, R
<1>15. QED
  BY <1>2, <1>6, <1>13, <1>14

(* A reset that begins or ends when a slice has come to its end.           *)
LEMMA ResetKeepsPlaces ==
  ASSUME Depth # 1, PlacesInv, NEW asserted \in BOOLEAN, Places!reset_sRST(asserted)
  PROVE  PlacesInv' /\ [Places!Deep!Next]_(Places!Deep!vars)
<1>1. /\ ~settled /\ Places!SliceComplete /\ settled' = TRUE /\ f.in_reset # asserted
      /\ asserted \/ ~f.not_empty
      /\ f' = IF asserted THEN Places!AssertedFields
              ELSE [f EXCEPT !.in_reset = FALSE, !.sClrSync = Places!H!reset_sRST(@, FALSE, 0),
                             !.dClrSync = Places!H!reset_sRST(@, FALSE, 0)]
      /\ last' = Places!Settled /\ edges' = {} /\ w' = None /\ deq' = FALSE /\ clr' = FALSE
  BY DEF Places!reset_sRST, Places!NewSlice
<1>2. /\ DOMAIN f = FieldNames /\ Typed(f) /\ f.src_hi \in VarOf(Positions) /\ f.dst_lo \in VarOf(Positions)
      /\ f.in_reset \in BOOLEAN /\ f.did_enq \in BOOLEAN /\ f.did_deq \in BOOLEAN
      /\ f.in_reset = R.in_reset
  BY <1>1 DEF PlacesInv, PlacesTypes, Typed
<1>3. /\ Snapped /\ InOrder' /\ last'.queue \in Seq(Data) /\ Typed(R')
      /\ R'.src_hi \in Positions /\ R'.dst_lo \in Positions
      /\ f.in_reset => RegsAtReset'
      /\ [Places!Deep!Next]_(Places!Deep!vars)
  BY <1>1, Settles
<1>4. /\ DOMAIN f' = FieldNames /\ f'.data = f.data /\ f'.dDoutReg = f.dDoutReg
      /\ f'.not_empty = f.not_empty /\ f'.not_full = f.not_full /\ f'.in_reset = asserted
      /\ f'.src_hi_plus_1 = Succ(f'.src_hi.value) /\ f'.dst_lo_plus_1 = Succ(f'.dst_lo.value)
      /\ f'.src_hi \in VarOf(Positions) /\ f'.dst_lo \in VarOf(Positions)
      /\ f'.did_enq = FALSE /\ f'.did_deq = FALSE /\ f'.s_reset = TRUE /\ f'.d_reset = TRUE
      /\ FieldsAtReset'
  <2>1. CASE asserted
    <3> DEFINE hi == Places!H!force(f.src_hi, 0)  lo == Places!H!force(f.dst_lo, 0)
               sc == Places!H!reset_sRST(f.sClrSync, TRUE, 0)  dc == Places!H!reset_sRST(f.dClrSync, TRUE, 0)
    <3>1. f' = [f EXCEPT !.in_reset = TRUE, !.src_lo = 0, !.dst_hi = 0, !.src_hi = hi, !.dst_lo = lo,
                         !.src_hi_plus_1 = Places!Succ(0), !.dst_lo_plus_1 = Places!Succ(0),
                         !.dSyncReg1 = 0, !.sSyncReg1 = 0, !.sCountReg = 0, !.dCountReg = 0,
                         !.s_reset = TRUE, !.d_reset = TRUE, !.did_enq = FALSE, !.did_deq = FALSE,
                         !.did_sclear = FALSE, !.did_dclear = FALSE, !.sClrSync = sc, !.dClrSync = dc]
      BY <1>1, <2>1 DEF Places!AssertedFields
    <3>2. ASSUME NEW x \in VarOf(Positions), NEW y, y = Places!H!force(x, 0)
          PROVE  y = [value |-> 0, prev_value |-> 0, written_at |-> x.written_at]
      BY <3>2 DEF Places!H!force, VarOf
    <3>3. /\ hi = [value |-> 0, prev_value |-> 0, written_at |-> f.src_hi.written_at]
          /\ lo = [value |-> 0, prev_value |-> 0, written_at |-> f.dst_lo.written_at]
      BY <1>2, <3>2
    <3>4. hi \in VarOf(Positions) /\ lo \in VarOf(Positions)
      BY <1>2, <3>3, PositionTypes DEF VarOf
    <3>5. Places!Succ(0) = Succ(0)
      BY PlacesNames
    <3> HIDE DEF hi, lo, sc, dc
    <3>6. /\ DOMAIN f' = FieldNames /\ f'.data = f.data /\ f'.dDoutReg = f.dDoutReg
          /\ f'.not_empty = f.not_empty /\ f'.not_full = f.not_full /\ f'.in_reset = TRUE
          /\ f'.src_hi = hi /\ f'.dst_lo = lo /\ f'.src_hi_plus_1 = Succ(0) /\ f'.dst_lo_plus_1 = Succ(0)
          /\ f'.src_lo = 0 /\ f'.dst_hi = 0 /\ f'.dSyncReg1 = 0 /\ f'.sSyncReg1 = 0
          /\ f'.did_enq = FALSE /\ f'.did_deq = FALSE /\ f'.s_reset = TRUE /\ f'.d_reset = TRUE
      BY <1>2, <3>1, <3>5 DEF FieldNames
    <3>7. FieldsAtReset'
      BY <3>3, <3>6 DEF FieldsAtReset, AtReset, Still
    <3>8. hi.value = 0 /\ lo.value = 0 /\ asserted = TRUE
      BY <2>1, <3>3
    <3>9. QED
      BY <3>4, <3>6, <3>7, <3>8
  <2>2. CASE ~asserted
    <3> DEFINE sc == Places!H!reset_sRST(f.sClrSync, FALSE, 0)  dc == Places!H!reset_sRST(f.dClrSync, FALSE, 0)
    <3>1. f' = [f EXCEPT !.in_reset = FALSE, !.sClrSync = sc, !.dClrSync = dc]
      BY <1>1, <2>2
    <3> HIDE DEF sc, dc
    <3>2. f'.in_reset = FALSE /\ Kept({"in_reset", "sClrSync", "dClrSync"})
      BY <1>2, <3>1 DEF FieldNames, Kept
    <3>3. f.in_reset /\ FieldsAtReset
      BY <1>1, <1>2, <2>2 DEF PlacesInv
    <3>4. /\ DOMAIN f' = FieldNames /\ f'.data = f.data /\ f'.dDoutReg = f.dDoutReg
          /\ f'.not_empty = f.not_empty /\ f'.not_full = f.not_full
          /\ f'.src_hi = f.src_hi /\ f'.dst_lo = f.dst_lo
          /\ f'.src_hi_plus_1 = f.src_hi_plus_1 /\ f'.dst_lo_plus_1 = f.dst_lo_plus_1
          /\ f'.src_lo = f.src_lo /\ f'.dst_hi = f.dst_hi /\ f'.dSyncReg1 = f.dSyncReg1 /\ f'.sSyncReg1 = f.sSyncReg1
          /\ f'.did_enq = f.did_enq /\ f'.did_deq = f.did_deq /\ f'.s_reset = f.s_reset /\ f'.d_reset = f.d_reset
      BY <3>2 DEF Kept, FieldNames
    <3>5. FieldsAtReset'
      BY <3>3, <3>4 DEF FieldsAtReset, AtReset, Still
    <3>6. f.did_enq = FALSE /\ f.did_deq = FALSE /\ f.s_reset = TRUE /\ f.d_reset = TRUE
      BY <1>2, <3>3 DEF FieldsAtReset, AtReset, Typed
    <3>7. f'.in_reset = asserted
      BY <2>2, <3>2
    <3>8. QED
      BY <1>2, <3>4, <3>5, <3>6, <3>7 DEF PlacesInv, Flags
  <2>3. QED
    BY <2>1, <2>2
<1>5. PlacesTypes'
  <2>1. Typed(f)'
    BY <1>2, <1>4, PositionTypes DEF Typed, FieldsAtReset, AtReset
  <2>2. Typed(R)'
    BY <1>3 DEF R
  <2>3. last'.notFull \in BOOLEAN /\ last'.notEmpty \in BOOLEAN
    BY <1>3 DEF Snapped
  <2>4. QED
    BY <1>1, <1>3, <1>4, <2>1, <2>2, <2>3 DEF PlacesTypes, R, Elements
<1>6. Flags'
  BY <1>1, <1>3, <1>4 DEF Flags, Snapped, R, PlacesInv
<1>7. f'.in_reset # R'.in_reset /\ f'.data = R'.data /\ f'.dDoutReg = R'.dDoutReg /\ (R'.in_reset => f.in_reset)
  BY <1>1, <1>3, <1>4 DEF Snapped
<1>8. QED
  BY <1>1, <1>3, <1>4, <1>5, <1>6, <1>7 DEF PlacesInv, NoCalls, R

(* Calls move no history.                                                  *)
LEMMA CallsAside ==
  ASSUME last' = last
  PROVE  UNCHANGED Places!Deep!vars
BY DEF Places!Deep!vars, Places!Deep!sVars, Places!Deep!dVars

(* Every step.                                                             *)
LEMMA PlacesStep ==
  ASSUME Depth # 1, PlacesInv, Places!FIFONext
  PROVE  PlacesInv' /\ [Places!Deep!Next]_(Places!Deep!vars)
<1>1. CASE \E asserted \in BOOLEAN : Places!reset_sRST(asserted)
  BY <1>1, ResetKeepsPlaces
<1>2. CASE Places!NextSlice
  BY <1>2, NextSliceKeeps
<1>3. CASE ~settled /\ Places!Calls /\ UNCHANGED <<settled, lead>>
  <2>1. CASE \E x \in Data : Places!METH_enq(x)
    BY <1>3, <2>1, EnqKeeps, CallsAside DEF Places!METH_enq
  <2>2. CASE Places!METH_deq
    BY <1>3, <2>2, DeqKeeps, CallsAside DEF Places!METH_deq
  <2>3. CASE Places!METH_sClear
    BY <2>3 DEF Places!METH_sClear
  <2>4. CASE Places!clk_src
    BY <1>3, <2>4, SrcClkKeeps, CallsAside DEF Places!clk_src
  <2>5. CASE Places!clk_dst
    BY <1>3, <2>5, DstClkKeeps, CallsAside DEF Places!clk_dst
  <2>6. QED
    BY <1>3, <2>1, <2>2, <2>3, <2>4, <2>5 DEF Places!Calls
<1>4. QED
  BY <1>1, <1>2, <1>3 DEF Places!FIFONext

LEMMA PlacesStart ==
  ASSUME Depth # 1, Places!FIFOInit
  PROVE  PlacesInv /\ Places!Deep!Init
<1> DEFINE z == Places!H!NewSyncVar(0)
           zero == Places!H!NewHandshake(0)
           mem == [a \in 0 .. Depth - 1 |-> None]
           g == [data |-> mem, dDoutReg |-> None,
                 src_lo |-> 0, src_hi |-> z, dst_lo |-> z, dst_hi |-> 0,
                 dSyncReg1 |-> 0, sSyncReg1 |-> 0, src_hi_plus_1 |-> Places!Succ(0), dst_lo_plus_1 |-> Places!Succ(0),
                 sCountReg |-> 0, dCountReg |-> 0, not_empty |-> FALSE, not_full |-> TRUE,
                 in_reset |-> TRUE, s_reset |-> TRUE, d_reset |-> TRUE,
                 did_enq |-> FALSE, did_deq |-> FALSE, did_sclear |-> FALSE, did_dclear |-> FALSE,
                 sClrSync |-> zero, dClrSync |-> zero]
           regs == [f EXCEPT !.src_hi = Places!H!probe(@), !.dst_lo = Places!H!probe(@)]
<1>1. f = g /\ edges = {} /\ w = None /\ deq = FALSE /\ clr = FALSE /\ settled = FALSE
  BY Zenon DEF Places!FIFOInit
<1>2. /\ R = regs /\ last.notFull = Places!METH_notFull /\ last.notEmpty = Places!METH_notEmpty
      /\ last.queue = <<>>
  BY DEF Places!FIFOInit, Places!Snapshot, R
<1>3. z.value = 0 /\ z.prev_value = 0 /\ z \in VarOf(Positions)
  BY PositionTypes DEF Places!H!NewSyncVar, VarOf
<1>4. Places!Succ(0) = Succ(0) /\ Succ(0) = 1
  BY PlacesNames, PositionTypes
<1>5. mem \in Memory
  BY DEF Memory, Elements
<1> HIDE DEF z, zero, mem, regs
<1>6. /\ DOMAIN f = FieldNames /\ f.data = mem /\ f.dDoutReg = None
      /\ f.src_lo = 0 /\ f.src_hi = z /\ f.dst_lo = z /\ f.dst_hi = 0
      /\ f.dSyncReg1 = 0 /\ f.sSyncReg1 = 0 /\ f.src_hi_plus_1 = 1 /\ f.dst_lo_plus_1 = 1
      /\ f.not_empty = FALSE /\ f.not_full = TRUE
      /\ f.in_reset = TRUE /\ f.s_reset = TRUE /\ f.d_reset = TRUE
      /\ f.did_enq = FALSE /\ f.did_deq = FALSE
  BY <1>1, <1>4 DEF FieldNames
<1> HIDE DEF g
<1>7. /\ R.data = mem /\ R.dDoutReg = None
      /\ R.src_lo = 0 /\ R.src_hi = 0 /\ R.dst_lo = 0 /\ R.dst_hi = 0
      /\ R.dSyncReg1 = 0 /\ R.sSyncReg1 = 0 /\ R.src_hi_plus_1 = 1 /\ R.dst_lo_plus_1 = 1
      /\ R.not_empty = FALSE /\ R.not_full = TRUE
      /\ R.in_reset = TRUE /\ R.s_reset = TRUE /\ R.d_reset = TRUE
  BY <1>2, <1>3, <1>6 DEF FieldNames, Places!H!probe, regs
<1>8. last.notFull = FALSE /\ last.notEmpty = FALSE
  BY <1>2, <1>6 DEF Places!METH_notFull, Places!METH_notEmpty
<1>9. Typed(f) /\ Typed(R)
  BY <1>5, <1>6, <1>7, PositionTypes DEF Typed, Elements
<1>10. PlacesTypes
  <2>1. <<>> \in Seq(Data)
    OBVIOUS
  <2>2. QED
    BY <1>1, <1>2, <1>3, <1>6, <1>7, <1>8, <1>9, <2>1, PositionTypes DEF PlacesTypes, Elements
<1>11. Flags
  BY <1>3, <1>4, <1>6, <1>7, <1>8 DEF Flags
<1>12. InOrder
  <2>1. Behind(0, 0) = 0 /\ Ordered(0, 0, 0, 0, 0, 0)
    BY DepthAssumption DEF Behind, Ordered
  <2>2. Bit(last.notEmpty) = 0 /\ Len(last.queue) = 0
    BY <1>2, <1>8 DEF Bit
  <2>3. /\ Ordered(R.src_hi, R.dSyncReg1, R.dst_hi, R.dst_lo, R.sSyncReg1, R.src_lo)
        /\ Behind(R.src_hi, R.dst_lo) = 0
    BY <1>7, <2>1
  <2>4. QED
    BY <1>8, <2>2, <2>3 DEF InOrder
<1>13. FieldsAtReset /\ RegsAtReset /\ NoCalls
  BY <1>1, <1>2, <1>3, <1>6, <1>7 DEF FieldsAtReset, RegsAtReset, AtReset, Still, NoCalls
<1>14. PlacesInv
  BY <1>1, <1>6, <1>7, <1>10, <1>11, <1>12, <1>13 DEF PlacesInv
<1>15. Places!Deep!Init
  BY <1>2, <1>7, <1>8 DEF Places!Deep!Init, R, mem
<1>16. QED
  BY <1>14, <1>15

(* In a behaviour of the class, among those of the others.                 *)
WhichPlaces == which = "Places" => PlacesInv

LEMMA PlacesAlone ==
  ASSUME Depth # 1, which = "Places", WhichPlaces, [MCNext]_allVars
  PROVE  PlacesInv' /\ [Places!Deep!Next]_(Places!Deep!vars)
<1>1. Places!FIFONext \/ UNCHANGED <<f, edges, w, deq, clr, settled, last>>
  BY DEF MCNext, Crossing, allVars, crossVars, fifoVars
<1>2. CASE Places!FIFONext
  BY <1>2, PlacesStep DEF WhichPlaces
<1>3. CASE UNCHANGED <<f, edges, w, deq, clr, settled, last>>
  BY <1>3, CallsAside DEF WhichPlaces, PlacesInv, PlacesTypes, Flags, InOrder, FieldsAtReset, RegsAtReset, AtReset,
     NoCalls, SrcMoved, DstMoved, Fetches, Typed, R, Still
<1>4. QED
  BY <1>1, <1>2, <1>3

(* MOD_SyncFIFO with several places does slice by slice what SyncFIFO.v    *)
(* does at the edges of its clocks, for every depth of more than one       *)
(* place, whatever the order of the calls in a slice                       *)
(* (bs_prim_mod_synchronizers.h:845-1123).                                 *)
THEOREM PlacesAreVerilog ==
  ASSUME Depth # 1
  PROVE  MCSpec => DeepRefined
<1>1. MCInit => WhichPlaces /\ (which = "Places" => Places!Deep!Init)
  BY PlacesStart DEF MCInit, WhichPlaces
<1>2. WhichPlaces /\ [MCNext]_allVars => WhichPlaces'
  <2>1. ASSUME [MCNext]_allVars
        PROVE  which' = which
    BY <2>1 DEF MCNext, allVars
  <2>2. QED
    BY <2>1, PlacesAlone DEF WhichPlaces
<1>3. WhichPlaces /\ [MCNext]_allVars =>
        [which = "Places" => [Places!Deep!Next]_(Places!Deep!vars)]_allVars
  BY PlacesAlone
<1>4. QED
  BY <1>1, <1>2, <1>3, PTL DEF MCSpec, DeepRefined

-----------------------------------------------------------------------------
(* Several places, cleared by the source.                                  *)
HandshakeNames ==
  {"dSyncReg1", "dSyncReg2", "dLastState", "sToggleReg", "sSyncReg1", "sSyncReg2", "sRDY", "en", "did_send",
   "pulsing", "in_reset"}

ShakeTyped(h) ==
  /\ DOMAIN h = HandshakeNames
  /\ h.dSyncReg1 \in Toggles /\ h.dSyncReg2 \in VarOf(Toggles) /\ h.dLastState \in VarOf(Toggles)
  /\ h.sToggleReg \in VarOf(Toggles) /\ h.sSyncReg1 \in Toggles /\ h.sSyncReg2 \in Toggles
  /\ h.sRDY \in BOOLEAN /\ h.en \in BOOLEAN

ClearTypes ==
  /\ DOMAIN f = FieldNames /\ Typed(f) /\ f.did_enq \in BOOLEAN /\ f.did_deq \in BOOLEAN
  /\ f.did_sclear \in BOOLEAN /\ f.did_dclear = FALSE
  /\ f.src_hi \in VarOf(Positions) /\ f.dst_lo \in VarOf(Positions)
  /\ ShakeTyped(f.sClrSync) /\ ShakeTyped(f.dClrSync)
  /\ f.sClrSync.in_reset = f.in_reset /\ f.dClrSync.in_reset = f.in_reset
  /\ Typed(R) /\ R.src_hi \in Positions /\ R.dst_lo \in Positions
  /\ ShakeTyped(R.sClrSync) /\ ShakeTyped(R.dClrSync)
  /\ edges \subseteq {"src", "dst"} /\ w \in Elements /\ deq \in BOOLEAN /\ clr \in BOOLEAN /\ settled \in BOOLEAN
  /\ lead \in {-1, 0, 1}
  /\ last.queue \in Seq(Data) /\ last.notFull \in BOOLEAN /\ last.notEmpty \in BOOLEAN

(* The handshake by which the source asks, when the slice began, and that  *)
(* of the destination; the toggle of the first.                            *)
S == R.sClrSync
D == R.dClrSync
asked == S.sToggleReg.value

(* The first is a ring with one wave.  Its answer leaves one edge before   *)
(* the destination clears; it arrives two edges of the source later, and   *)
(* the source is at most one edge ahead.                                   *)
ClearWave ==
  /\ S.dSyncReg2.value = asked => S.dSyncReg1 = asked
  /\ S.dLastState.value = asked => S.dSyncReg2.value = asked
  /\ S.sSyncReg1 = asked => S.dSyncReg2.value = asked
  /\ S.sSyncReg2 = asked => S.sSyncReg1 = asked /\ S.dLastState.value = asked
  /\ S.sRDY <=> S.sSyncReg2 = asked
  /\ S.sSyncReg1 = asked /\ S.dLastState.value # asked => lead = 1

(* The other one is at rest, and only has to get ready after a reset.      *)
AtRest(h) ==
  /\ h.dSyncReg1 = 0 /\ Still(h.dSyncReg2, 0) /\ Still(h.dLastState, 0) /\ Still(h.sToggleReg, 0) /\ ~h.en
GetsReady ==
  /\ D.sSyncReg2 = 0 => D.sSyncReg1 = 0
  /\ D.sRDY <=> D.sSyncReg2 = 0
  /\ ~D.sRDY => R.dst_lo = 0 /\ ~last.notEmpty

(* What the wave leaves behind: zero, in one copy of the pointer after the *)
(* other.                                                                  *)
Cleared ==
  /\ R.src_hi = 0 /\ ~last.notFull /\ last.queue = <<>>
  /\ S.dSyncReg1 = asked => R.dSyncReg1 = 0
  /\ S.dSyncReg2.value = asked => R.dst_hi = 0
  /\ S.dLastState.value = asked => R.dst_lo = 0 /\ ~last.notEmpty

(* Once ready the pointers are in order, but for copies from before the    *)
(* clear that the source has yet to lose: while it has two, it is full.    *)
Reordered ==
  \/ /\ Ordered(R.src_hi, R.dSyncReg1, R.dst_hi, R.dst_lo, R.sSyncReg1, R.src_lo)
     /\ last.notFull => Behind(R.src_hi, R.src_lo) < Depth
  \/ /\ R.src_hi = 0 /\ R.dSyncReg1 = 0 /\ R.dst_hi = 0 /\ R.dst_lo = 0 /\ ~last.notEmpty
     /\ R.sSyncReg1 = 0 \/ ~last.notFull

Holds == ContentsOf(R.data, R.src_hi, R.dst_lo, last.notEmpty, R.dDoutReg) = last.queue

InService ==
  /\ ClearWave /\ GetsReady
  /\ ~S.sRDY => Cleared
  /\ S.sRDY => Reordered /\ Holds

ShakeAtReset(h) ==
  /\ AtRest(h) /\ h.sSyncReg1 = 1 /\ h.sSyncReg2 = 1 /\ ~h.sRDY

(* What the calls of a slice out of reset have done so far.                *)
DstHeld == ~D.sRDY \/ S.dSyncReg2.value # S.dLastState.value

SrcShaken ==
  IF "src" \in edges
  THEN /\ f.sClrSync.sSyncReg1 = S.dSyncReg2.value /\ f.sClrSync.sSyncReg2 = S.sSyncReg1
       /\ ~f.sClrSync.en /\ ~f.did_sclear /\ (~S.sRDY => clr)
       /\ (f.sClrSync.sRDY <=> S.sSyncReg1 = asked /\ ~(S.sRDY /\ clr))
       /\ IF S.sRDY /\ clr THEN Rewritten(f.sClrSync.sToggleReg, 1 - asked, asked) ELSE Unwritten(f.sClrSync.sToggleReg, asked)
  ELSE /\ f.sClrSync.sSyncReg1 = S.sSyncReg1 /\ f.sClrSync.sSyncReg2 = S.sSyncReg2
       /\ f.sClrSync.en = clr /\ f.did_sclear = clr /\ (clr => S.sRDY)
       /\ f.sClrSync.sRDY = S.sRDY
       /\ Unwritten(f.sClrSync.sToggleReg, asked)
DstShaken ==
  IF "dst" \in edges
  THEN /\ f.sClrSync.dSyncReg1 = asked /\ Rewritten(f.sClrSync.dSyncReg2, S.dSyncReg1, S.dSyncReg2.value)
       /\ Rewritten(f.sClrSync.dLastState, S.dSyncReg2.value, S.dLastState.value)
       /\ f.dClrSync.sSyncReg1 = 0 /\ f.dClrSync.sSyncReg2 = D.sSyncReg1
       /\ (f.dClrSync.sRDY <=> D.sSyncReg1 = 0)
  ELSE /\ f.sClrSync.dSyncReg1 = S.dSyncReg1 /\ Unwritten(f.sClrSync.dSyncReg2, S.dSyncReg2.value)
       /\ Unwritten(f.sClrSync.dLastState, S.dLastState.value)
       /\ f.dClrSync.sSyncReg1 = D.sSyncReg1 /\ f.dClrSync.sSyncReg2 = D.sSyncReg2
       /\ f.dClrSync.sRDY = D.sRDY

SrcCleared ==
  /\ w # None => last.notFull
  /\ f.data = IF w # None THEN [R.data EXCEPT ![Addr(R.src_hi)] = w] ELSE R.data
  /\ IF "src" \in edges
       THEN /\ ~f.s_reset /\ ~f.did_enq /\ f.src_lo = R.sSyncReg1
            /\ f.sSyncReg1 = R.dst_lo \/ (DstHeld /\ f.sSyncReg1 = 0)
            /\ (f.not_full <=> ~clr /\ Opposite(f.src_hi.value) # R.src_lo)
            /\ IF clr THEN Unwritten(f.src_hi, 0)
               ELSE IF w # None THEN Rewritten(f.src_hi, Succ(R.src_hi), R.src_hi) ELSE Unwritten(f.src_hi, R.src_hi)
       ELSE /\ f.s_reset = R.s_reset /\ (f.did_enq <=> w # None) /\ f.not_full = R.not_full
            /\ f.src_lo = R.src_lo /\ f.sSyncReg1 = R.sSyncReg1 /\ Unwritten(f.src_hi, R.src_hi)
DstCleared ==
  /\ deq => last.notEmpty
  /\ IF "dst" \in edges
       THEN /\ ~f.d_reset /\ ~f.did_deq /\ f.dst_hi = R.dSyncReg1
            /\ f.dSyncReg1 = R.src_hi \/ (clr /\ f.dSyncReg1 = 0)
            /\ (f.not_empty <=> ~DstHeld /\ (Fetches \/ (R.not_empty /\ ~deq)))
            /\ f.dDoutReg = IF ~DstHeld /\ Fetches THEN R.data[Addr(R.dst_lo)] ELSE R.dDoutReg
            /\ IF DstHeld THEN Unwritten(f.dst_lo, 0)
               ELSE IF Fetches THEN Rewritten(f.dst_lo, Succ(R.dst_lo), R.dst_lo) ELSE Unwritten(f.dst_lo, R.dst_lo)
       ELSE /\ f.d_reset = R.d_reset /\ f.did_deq = deq /\ f.not_empty = R.not_empty
            /\ f.dDoutReg = R.dDoutReg
            /\ f.dst_hi = R.dst_hi /\ f.dSyncReg1 = R.dSyncReg1 /\ Unwritten(f.dst_lo, R.dst_lo)

(* The invariant. *)
ClearInv ==
  /\ ClearTypes /\ Flags /\ AtRest(f.dClrSync)
  /\ IF settled THEN f.in_reset # R.in_reset /\ edges = {} /\ ~clr ELSE f.in_reset = R.in_reset
  /\ settled \/ f.in_reset =>
       /\ NoCalls /\ FieldsAtReset /\ f.data = R.data /\ f.dDoutReg = R.dDoutReg /\ ~f.did_sclear
       /\ ShakeAtReset(f.sClrSync) /\ ShakeAtReset(f.dClrSync)
  /\ R.in_reset => last.queue = <<>> /\ R.s_reset /\ R.d_reset
  /\ ~R.in_reset => InService
  /\ ~settled /\ ~f.in_reset => SrcShaken /\ DstShaken /\ SrcCleared /\ DstCleared

-----------------------------------------------------------------------------
(* The calls of a handshake on its fields.                                 *)
SrcTurned(h, g) ==
  /\ ShakeTyped(g) /\ g.in_reset = h.in_reset
  /\ g.dSyncReg1 = h.dSyncReg1 /\ g.dSyncReg2 = h.dSyncReg2 /\ g.dLastState = h.dLastState
  /\ g.sSyncReg1 = IF h.in_reset THEN h.sSyncReg1 ELSE Clearing!H!read(h.dSyncReg2)
  /\ g.sSyncReg2 = IF h.in_reset THEN h.sSyncReg2 ELSE h.sSyncReg1
  /\ g.sToggleReg = IF h.en THEN Clearing!H!write(h.sToggleReg, 1 - Clearing!H!read(h.sToggleReg))
                    ELSE h.sToggleReg
  /\ (g.sRDY <=> ~h.en /\ (IF h.in_reset THEN h.sSyncReg2 ELSE h.sSyncReg1) = Clearing!H!read(h.sToggleReg))
  /\ g.en = FALSE

LEMMA ShakeSrc ==
  ASSUME NEW h, ShakeTyped(h), NEW g, g = Clearing!H!clk_src(h, FALSE), h.in_reset \in BOOLEAN
  PROVE  SrcTurned(h, g)
<1> DEFINE s1 == IF h.in_reset THEN h.sSyncReg1 ELSE Clearing!H!read(h.dSyncReg2)
           s2 == IF h.in_reset THEN h.sSyncReg2 ELSE h.sSyncReg1
           tg == IF h.en THEN Clearing!H!write(h.sToggleReg, 1 - Clearing!H!read(h.sToggleReg)) ELSE h.sToggleReg
           rdy == ~h.en /\ (IF h.in_reset THEN h.sSyncReg2 ELSE h.sSyncReg1) = Clearing!H!read(h.sToggleReg)
<1>1. g = [h EXCEPT !.sSyncReg1 = s1, !.sSyncReg2 = s2, !.sToggleReg = tg, !.sRDY = rdy,
                    !.did_send = h.en, !.en = FALSE]
  BY DEF Clearing!H!clk_src
<1>2. s1 \in Toggles /\ s2 \in Toggles /\ tg \in VarOf(Toggles) /\ rdy \in BOOLEAN
  BY DEF ShakeTyped, VarOf, Toggles, Clearing!H!read, Clearing!H!write
<1> HIDE DEF s1, s2, tg, rdy
<1>3. /\ DOMAIN g = HandshakeNames /\ g.dSyncReg1 = h.dSyncReg1 /\ g.dSyncReg2 = h.dSyncReg2
      /\ g.dLastState = h.dLastState /\ g.in_reset = h.in_reset
      /\ g.sSyncReg1 = s1 /\ g.sSyncReg2 = s2 /\ g.sToggleReg = tg /\ g.sRDY = rdy /\ g.en = FALSE
  BY <1>1 DEF ShakeTyped, HandshakeNames
<1>4. ShakeTyped(g)
  BY <1>2, <1>3 DEF ShakeTyped
<1>5. QED
  BY <1>2, <1>3, <1>4 DEF s1, s2, tg, rdy, SrcTurned

DstTurned(h, g) ==
  /\ ShakeTyped(g) /\ g.in_reset = h.in_reset
  /\ g.dSyncReg1 = Clearing!H!read(h.sToggleReg)
  /\ g.dSyncReg2 = [value |-> h.dSyncReg1, prev_value |-> h.dSyncReg2.value, written_at |-> TRUE]
  /\ g.dLastState = [value |-> Clearing!H!read(h.dSyncReg2), prev_value |-> h.dLastState.value,
                     written_at |-> TRUE]
  /\ g.sSyncReg1 = h.sSyncReg1 /\ g.sSyncReg2 = h.sSyncReg2 /\ g.sToggleReg = h.sToggleReg
  /\ g.sRDY = h.sRDY /\ g.en = h.en

LEMMA ShakeDst ==
  ASSUME NEW h, ShakeTyped(h), NEW g, g = Clearing!H!clk_dst(h)
  PROVE  DstTurned(h, g)
<1> DEFINE l == Clearing!H!write(h.dLastState, Clearing!H!read(h.dSyncReg2))
           d2 == Clearing!H!write(h.dSyncReg2, h.dSyncReg1)
           d1 == Clearing!H!read(h.sToggleReg)
           p == Clearing!H!read(h.dSyncReg2) # h.dSyncReg1
<1>1. g = [h EXCEPT !.dLastState = l, !.dSyncReg2 = d2, !.dSyncReg1 = d1, !.pulsing = p]
  BY DEF Clearing!H!clk_dst
<1>2. /\ l = [value |-> Clearing!H!read(h.dSyncReg2), prev_value |-> h.dLastState.value, written_at |-> TRUE]
      /\ d2 = [value |-> h.dSyncReg1, prev_value |-> h.dSyncReg2.value, written_at |-> TRUE]
      /\ d1 \in Toggles /\ l \in VarOf(Toggles) /\ d2 \in VarOf(Toggles)
  BY DEF ShakeTyped, VarOf, Toggles, Clearing!H!read, Clearing!H!write
<1> HIDE DEF l, d2, d1, p
<1>3. /\ DOMAIN g = HandshakeNames /\ g.dSyncReg1 = d1 /\ g.dSyncReg2 = d2
      /\ g.dLastState = l /\ g.in_reset = h.in_reset
      /\ g.sSyncReg1 = h.sSyncReg1 /\ g.sSyncReg2 = h.sSyncReg2 /\ g.sToggleReg = h.sToggleReg
      /\ g.sRDY = h.sRDY /\ g.en = h.en
  BY <1>1 DEF ShakeTyped, HandshakeNames
<1>4. ShakeTyped(g)
  BY <1>2, <1>3 DEF ShakeTyped
<1>5. QED
  BY <1>2, <1>3, <1>4 DEF d1, DstTurned

Aged(h, g) ==
  /\ ShakeTyped(g) /\ g.in_reset = h.in_reset
  /\ g.dSyncReg1 = h.dSyncReg1
  /\ g.dSyncReg2 = [value |-> h.dSyncReg2.value, prev_value |-> h.dSyncReg2.prev_value, written_at |-> FALSE]
  /\ g.dLastState = [value |-> h.dLastState.value, prev_value |-> h.dLastState.prev_value,
                     written_at |-> FALSE]
  /\ g.sToggleReg = [value |-> h.sToggleReg.value, prev_value |-> h.sToggleReg.prev_value,
                     written_at |-> FALSE]
  /\ g.sSyncReg1 = h.sSyncReg1 /\ g.sSyncReg2 = h.sSyncReg2
  /\ g.sRDY = h.sRDY /\ g.en = h.en

LEMMA ShakeLater ==
  ASSUME NEW h, ShakeTyped(h), NEW g, g = Clearing!H!LaterHandshake(h)
  PROVE  Aged(h, g)
<1> DEFINE l == Clearing!H!Later(h.dLastState)
           d2 == Clearing!H!Later(h.dSyncReg2)
           tg == Clearing!H!Later(h.sToggleReg)
<1>1. g = [h EXCEPT !.dSyncReg2 = d2, !.dLastState = l, !.sToggleReg = tg]
  BY DEF Clearing!H!LaterHandshake
<1>2. /\ l = [value |-> h.dLastState.value, prev_value |-> h.dLastState.prev_value, written_at |-> FALSE]
      /\ d2 = [value |-> h.dSyncReg2.value, prev_value |-> h.dSyncReg2.prev_value, written_at |-> FALSE]
      /\ tg = [value |-> h.sToggleReg.value, prev_value |-> h.sToggleReg.prev_value, written_at |-> FALSE]
      /\ tg \in VarOf(Toggles) /\ l \in VarOf(Toggles) /\ d2 \in VarOf(Toggles)
  <2>1. ASSUME NEW x \in VarOf(Toggles), NEW y, y = Clearing!H!Later(x)
        PROVE  y = [value |-> x.value, prev_value |-> x.prev_value, written_at |-> FALSE] /\ y \in VarOf(Toggles)
    BY <2>1 DEF Clearing!H!Later, VarOf
  <2>2. QED
    BY <2>1 DEF ShakeTyped
<1> HIDE DEF l, d2, tg
<1>3. /\ DOMAIN g = HandshakeNames /\ g.dSyncReg1 = h.dSyncReg1 /\ g.dSyncReg2 = d2
      /\ g.dLastState = l /\ g.in_reset = h.in_reset /\ g.sToggleReg = tg
      /\ g.sSyncReg1 = h.sSyncReg1 /\ g.sSyncReg2 = h.sSyncReg2
      /\ g.sRDY = h.sRDY /\ g.en = h.en
  BY <1>1 DEF ShakeTyped, HandshakeNames
<1>4. ShakeTyped(g)
  BY <1>2, <1>3 DEF ShakeTyped
<1>5. QED
  BY <1>2, <1>3, <1>4 DEF Aged

(* A reset begins, and ends.                                               *)
LEMMA ShakeAsserted ==
  ASSUME NEW h, ShakeTyped(h), NEW g, g = Clearing!H!reset_sRST(h, TRUE, 0)
  PROVE  ShakeTyped(g) /\ g.in_reset = TRUE /\ ShakeAtReset(g)
<1> DEFINE d2 == Clearing!H!force(h.dSyncReg2, 0)
           l == Clearing!H!force(h.dLastState, 0)
           tg == Clearing!H!force(h.sToggleReg, 0)
           new == Clearing!H!NewHandshake(0)
<1>1. g = [new EXCEPT !.dSyncReg2 = d2, !.dLastState = l, !.sToggleReg = tg, !.did_send = h.did_send]
  BY DEF Clearing!H!reset_sRST
<1>2. Still(d2, 0) /\ Still(l, 0) /\ Still(tg, 0) /\ d2 \in VarOf(Toggles) /\ l \in VarOf(Toggles) /\ tg \in VarOf(Toggles)
  <2>1. ASSUME NEW x \in VarOf(Toggles), NEW y, y = Clearing!H!force(x, 0)
        PROVE  Still(y, 0) /\ y \in VarOf(Toggles)
    BY <2>1 DEF Clearing!H!force, VarOf, Still, Toggles
  <2>2. QED
    BY <2>1 DEF ShakeTyped
<1>3. /\ DOMAIN new = HandshakeNames /\ new.dSyncReg1 = 0 /\ new.sSyncReg1 = 1 /\ new.sSyncReg2 = 1
      /\ new.sRDY = FALSE /\ new.en = FALSE /\ new.in_reset = TRUE
  BY DEF Clearing!H!NewHandshake, HandshakeNames
<1> HIDE DEF d2, l, tg, new
<1>4. /\ DOMAIN g = HandshakeNames /\ g.dSyncReg1 = 0 /\ g.sSyncReg1 = 1 /\ g.sSyncReg2 = 1
      /\ g.sRDY = FALSE /\ g.en = FALSE /\ g.in_reset = TRUE
      /\ g.dSyncReg2 = d2 /\ g.dLastState = l /\ g.sToggleReg = tg
  BY <1>1, <1>3 DEF HandshakeNames
<1>5. ShakeTyped(g)
  BY <1>2, <1>4 DEF ShakeTyped, Toggles
<1>6. ShakeAtReset(g)
  BY <1>2, <1>4 DEF ShakeAtReset, AtRest
<1>7. QED
  BY <1>4, <1>5, <1>6

Released(h, g) ==
  /\ ShakeTyped(g) /\ g.in_reset = FALSE
  /\ g.dSyncReg1 = h.dSyncReg1 /\ g.dSyncReg2 = h.dSyncReg2 /\ g.dLastState = h.dLastState
  /\ g.sToggleReg = h.sToggleReg /\ g.sSyncReg1 = h.sSyncReg1 /\ g.sSyncReg2 = h.sSyncReg2
  /\ g.sRDY = h.sRDY /\ g.en = h.en

LEMMA ShakeReleased ==
  ASSUME NEW h, ShakeTyped(h), NEW g, g = Clearing!H!reset_sRST(h, FALSE, 0)
  PROVE  Released(h, g)
<1>1. g = [h EXCEPT !.in_reset = FALSE]
  BY DEF Clearing!H!reset_sRST
<1>2. /\ DOMAIN g = HandshakeNames /\ g.in_reset = FALSE
      /\ g.dSyncReg1 = h.dSyncReg1 /\ g.dSyncReg2 = h.dSyncReg2 /\ g.dLastState = h.dLastState
      /\ g.sToggleReg = h.sToggleReg /\ g.sSyncReg1 = h.sSyncReg1 /\ g.sSyncReg2 = h.sSyncReg2
      /\ g.sRDY = h.sRDY /\ g.en = h.en
  BY <1>1 DEF ShakeTyped, HandshakeNames
<1>3. QED
  BY <1>2 DEF ShakeTyped, Released

Asked(h, g) ==
  /\ ShakeTyped(g) /\ g.en = TRUE
  /\ g.dSyncReg1 = h.dSyncReg1 /\ g.dSyncReg2 = h.dSyncReg2 /\ g.dLastState = h.dLastState
  /\ g.sToggleReg = h.sToggleReg /\ g.sSyncReg1 = h.sSyncReg1 /\ g.sSyncReg2 = h.sSyncReg2
  /\ g.sRDY = h.sRDY /\ g.in_reset = h.in_reset

LEMMA ShakeSend ==
  ASSUME NEW h, ShakeTyped(h), NEW g, g = Clearing!H!METH_send(h)
  PROVE  Asked(h, g)
<1>1. g = [h EXCEPT !.en = TRUE]
  BY DEF Clearing!H!METH_send
<1>2. /\ DOMAIN g = HandshakeNames /\ g.en = TRUE
      /\ g.dSyncReg1 = h.dSyncReg1 /\ g.dSyncReg2 = h.dSyncReg2 /\ g.dLastState = h.dLastState
      /\ g.sToggleReg = h.sToggleReg /\ g.sSyncReg1 = h.sSyncReg1 /\ g.sSyncReg2 = h.sSyncReg2
      /\ g.sRDY = h.sRDY /\ g.in_reset = h.in_reset
  BY <1>1 DEF ShakeTyped, HandshakeNames
<1>3. QED
  BY <1>2 DEF ShakeTyped, Asked

-----------------------------------------------------------------------------
(* The calls.                                                              *)
LEMMA ClearNames ==
  \A p : /\ Clearing!Succ(p) = Succ(p) /\ Clearing!Opposite(p) = Opposite(p) /\ Clearing!Addr(p) = Addr(p)
BY DEF Clearing!Succ, Clearing!Opposite, Clearing!Addr, Succ, Opposite, Addr

LEMMA ServiceStays ==
  ASSUME UNCHANGED <<last, lead>>, InService
  PROVE  InService'
BY DEF InService, ClearWave, GetsReady, Cleared, Reordered, Holds, R, S, D, asked, Ordered, Behind, ContentsOf, Bit,
       Addr, Ahead

(* What a call leaves of the fields that the other side's calls look at.   *)
SrcShakeSame ==
  /\ f'.sClrSync.sSyncReg1 = f.sClrSync.sSyncReg1 /\ f'.sClrSync.sSyncReg2 = f.sClrSync.sSyncReg2
  /\ f'.sClrSync.sToggleReg = f.sClrSync.sToggleReg /\ f'.sClrSync.sRDY = f.sClrSync.sRDY
  /\ f'.sClrSync.en = f.sClrSync.en /\ f'.did_sclear = f.did_sclear
DstShakeSame ==
  /\ f'.sClrSync.dSyncReg1 = f.sClrSync.dSyncReg1 /\ f'.sClrSync.dSyncReg2 = f.sClrSync.dSyncReg2
  /\ f'.sClrSync.dLastState = f.sClrSync.dLastState
  /\ f'.dClrSync.sSyncReg1 = f.dClrSync.sSyncReg1 /\ f'.dClrSync.sSyncReg2 = f.dClrSync.sSyncReg2
  /\ f'.dClrSync.sRDY = f.dClrSync.sRDY
ShakesSame == f'.sClrSync = f.sClrSync /\ f'.dClrSync = f.dClrSync /\ f'.did_sclear = f.did_sclear

LEMMA SrcClearedStays ==
  ASSUME SrcCleared, SrcSame, f'.data = f.data, UNCHANGED <<w, last, clr>>, "src" \in edges' <=> "src" \in edges
  PROVE  SrcCleared'
BY DEF SrcCleared, SrcSame, R, D, S, Unwritten, Rewritten, Opposite, Succ, Addr, DstHeld

LEMMA DstClearedStays ==
  ASSUME DstCleared, DstSame, UNCHANGED <<deq, last>>, clr => clr', "dst" \in edges' <=> "dst" \in edges
  PROVE  DstCleared'
BY DEF DstCleared, DstSame, R, D, S, Fetches, Unwritten, Rewritten, Succ, Addr, DstHeld

LEMMA SrcShakenStays ==
  ASSUME SrcShaken, SrcShakeSame, UNCHANGED <<last, clr>>, "src" \in edges' <=> "src" \in edges
  PROVE  SrcShaken'
BY DEF SrcShaken, SrcShakeSame, R, S, asked, Unwritten, Rewritten

LEMMA DstShakenStays ==
  ASSUME DstShaken, DstShakeSame, UNCHANGED last, "dst" \in edges' <=> "dst" \in edges
  PROVE  DstShaken'
BY DEF DstShaken, DstShakeSame, R, S, D, asked, Unwritten, Rewritten

FieldsRest ==
  /\ NoCalls /\ FieldsAtReset /\ f.data = R.data /\ f.dDoutReg = R.dDoutReg /\ ~f.did_sclear
  /\ ShakeAtReset(f.sClrSync) /\ ShakeAtReset(f.dClrSync)
FieldsMoved == SrcShaken /\ DstShaken /\ SrcCleared /\ DstCleared

LEMMA CallKeeps ==
  ASSUME ClearInv, ~settled, UNCHANGED <<settled, lead, last>>, f'.in_reset = f.in_reset,
         ClearTypes', Flags', AtRest(f.dClrSync)', f.in_reset => FieldsRest', ~f.in_reset => FieldsMoved'
  PROVE  ClearInv'
<1>1. UNCHANGED R
  BY DEF R
<1>2. ~R.in_reset => InService'
  BY ServiceStays DEF ClearInv
<1>3. f.in_reset = R.in_reset /\ settled' = settled
  BY DEF ClearInv
<1>4. settled' \/ f'.in_reset => FieldsRest'
  BY <1>3
<1>5. ~settled' /\ ~f'.in_reset => FieldsMoved'
  BY <1>3
<1>6. R'.in_reset => last'.queue = <<>> /\ R'.s_reset /\ R'.d_reset
  BY <1>1 DEF ClearInv
<1>7. QED
  BY <1>1, <1>2, <1>3, <1>4, <1>5, <1>6 DEF ClearInv, FieldsRest, FieldsMoved

(* An enqueue.                                                             *)
LEMMA ClearEnqKeeps ==
  ASSUME Depth # 1, ClearInv, ~settled, UNCHANGED <<settled, lead>>, NEW x \in Data, Clearing!METH_enq(x)
  PROVE  ClearInv'
<1>1. /\ "src" \notin edges /\ ~f.s_reset /\ f.not_full /\ ~f.did_enq
      /\ w' = x /\ UNCHANGED <<edges, deq, clr, last>>
      /\ f'.data = [f.data EXCEPT ![Addr(Clearing!H!read(f.src_hi))] = x] /\ f'.did_enq = TRUE
      /\ f'.dDoutReg = f.dDoutReg /\ Kept({"data", "dDoutReg", "did_enq"})
  BY ClearNames DEF Clearing!METH_enq, Clearing!METH_notFull, FieldNames, Kept, ClearInv, ClearTypes
<1>2. ~f.in_reset /\ FieldsMoved /\ ~R.in_reset
  BY <1>1 DEF ClearInv, FieldsAtReset, AtReset, FieldsMoved
<1>3. /\ w = None /\ last.notFull /\ f.src_hi.value = R.src_hi /\ f.data = R.data /\ R.s_reset = f.s_reset
      /\ Clearing!H!read(f.src_hi) = R.src_hi
  BY <1>1, <1>2 DEF FieldsMoved, SrcCleared, Unwritten, Clearing!H!read, ClearInv, Flags
<1>4. /\ f'.src_lo = f.src_lo /\ f'.src_hi = f.src_hi /\ f'.sSyncReg1 = f.sSyncReg1
      /\ f'.src_hi_plus_1 = f.src_hi_plus_1 /\ f'.not_full = f.not_full /\ f'.s_reset = f.s_reset
      /\ f'.in_reset = f.in_reset /\ f'.did_dclear = f.did_dclear /\ DOMAIN f' = FieldNames /\ DstSame /\ ShakesSame
  BY <1>1 DEF Kept, FieldNames, DstSame, ShakesSame
<1>5. DstCleared'
  BY <1>1, <1>2, <1>4, DstClearedStays DEF FieldsMoved
<1>6. SrcShaken' /\ DstShaken'
  BY <1>1, <1>2, <1>4, SrcShakenStays, DstShakenStays DEF FieldsMoved, ShakesSame, SrcShakeSame, DstShakeSame
<1>7. SrcCleared'
  BY <1>1, <1>2, <1>3, <1>4, ElementAssumption DEF SrcCleared, Unwritten, R, FieldsMoved
<1>8. ClearTypes'
  <2>1. f'.data \in Memory
    BY <1>1, <1>3, PositionTypes DEF ClearInv, ClearTypes, Typed, Memory, Elements
  <2>2. Typed(f)'
    BY <1>1, <1>4, <2>1 DEF ClearInv, ClearTypes, Typed, DstSame
  <2>3. w' \in Elements /\ UNCHANGED R
    BY <1>1 DEF Elements, R
  <2>4. QED
    BY <1>1, <1>4, <2>2, <2>3 DEF ClearInv, ClearTypes, DstSame, ShakesSame
<1>9. Flags' /\ AtRest(f.dClrSync)'
  BY <1>1, <1>4 DEF ClearInv, Flags, DstSame, R, ShakesSame, AtRest, Still
<1>10. QED
  BY <1>1, <1>2, <1>4, <1>5, <1>6, <1>7, <1>8, <1>9, CallKeeps DEF FieldsMoved

(* A dequeue.                                                              *)
LEMMA ClearDeqKeeps ==
  ASSUME Depth # 1, ClearInv, ~settled, UNCHANGED <<settled, lead>>, Clearing!METH_deq
  PROVE  ClearInv'
<1>1. /\ "dst" \notin edges /\ ~f.d_reset /\ f.not_empty /\ ~f.did_deq
      /\ deq' = TRUE /\ UNCHANGED <<edges, w, clr, last>>
      /\ f'.did_deq = TRUE /\ Kept({"did_deq"})
  BY DEF Clearing!METH_deq, Clearing!METH_notEmpty, FieldNames, Kept, ClearInv, ClearTypes
<1>2. ~f.in_reset /\ FieldsMoved /\ ~R.in_reset
  BY <1>1 DEF ClearInv, FieldsAtReset, AtReset, FieldsMoved
<1>3. /\ f'.dst_lo = f.dst_lo /\ f'.dst_hi = f.dst_hi /\ f'.dSyncReg1 = f.dSyncReg1 /\ f'.data = f.data
      /\ f'.dst_lo_plus_1 = f.dst_lo_plus_1 /\ f'.not_empty = f.not_empty /\ f'.d_reset = f.d_reset
      /\ f'.dDoutReg = f.dDoutReg /\ f'.in_reset = f.in_reset /\ f'.did_dclear = f.did_dclear
      /\ DOMAIN f' = FieldNames /\ SrcSame /\ ShakesSame
  BY <1>1 DEF Kept, FieldNames, SrcSame, ShakesSame
<1>4. SrcCleared'
  BY <1>1, <1>2, <1>3, SrcClearedStays DEF FieldsMoved
<1>5. DstCleared'
  BY <1>1, <1>2, <1>3 DEF FieldsMoved, DstCleared, Unwritten, R, ClearInv, Flags
<1>6. SrcShaken' /\ DstShaken'
  BY <1>1, <1>2, <1>3, SrcShakenStays, DstShakenStays DEF FieldsMoved, ShakesSame, SrcShakeSame, DstShakeSame
<1>7. ClearTypes'
  <2>1. Typed(f)'
    BY <1>1, <1>3 DEF ClearInv, ClearTypes, Typed, SrcSame
  <2>2. UNCHANGED R
    BY <1>1 DEF R
  <2>3. QED
    BY <1>1, <1>3, <2>1, <2>2 DEF ClearInv, ClearTypes, SrcSame, ShakesSame
<1>8. Flags' /\ AtRest(f.dClrSync)'
  BY <1>1, <1>3 DEF ClearInv, Flags, SrcSame, R, ShakesSame, AtRest, Still
<1>9. QED
  BY <1>1, <1>2, <1>3, <1>4, <1>5, <1>6, <1>7, <1>8, CallKeeps DEF FieldsMoved

(* A clear.                                                                *)
LEMMA AskKeeps ==
  ASSUME Depth # 1, ClearInv, ~settled, UNCHANGED <<settled, lead>>, Clearing!METH_sClear
  PROVE  ClearInv'
<1>1. /\ "src" \notin edges /\ ~f.sClrSync.in_reset /\ f.sClrSync.sRDY /\ ~f.did_sclear
      /\ clr' = TRUE /\ UNCHANGED <<edges, w, deq, last>>
      /\ f'.did_sclear = TRUE /\ f'.sClrSync = Clearing!H!METH_send(f.sClrSync) /\ Kept({"did_sclear", "sClrSync"})
  BY DEF Clearing!METH_sClear, Clearing!H!METH_RDY_send, FieldNames, Kept, ClearInv, ClearTypes
<1>2. ~f.in_reset /\ FieldsMoved /\ ~R.in_reset /\ ShakeTyped(f.sClrSync)
  BY <1>1 DEF ClearInv, ClearTypes, FieldsMoved
<1>3. /\ f'.data = f.data /\ f'.in_reset = f.in_reset /\ f'.did_dclear = f.did_dclear
      /\ DOMAIN f' = FieldNames /\ SrcSame /\ DstSame /\ f'.dClrSync = f.dClrSync
  BY <1>1 DEF Kept, FieldNames, SrcSame, DstSame
<1>4. /\ ShakeTyped(f'.sClrSync) /\ f'.sClrSync.en = TRUE
      /\ f'.sClrSync.dSyncReg1 = f.sClrSync.dSyncReg1 /\ f'.sClrSync.dSyncReg2 = f.sClrSync.dSyncReg2
      /\ f'.sClrSync.dLastState = f.sClrSync.dLastState /\ f'.sClrSync.sToggleReg = f.sClrSync.sToggleReg
      /\ f'.sClrSync.sSyncReg1 = f.sClrSync.sSyncReg1 /\ f'.sClrSync.sSyncReg2 = f.sClrSync.sSyncReg2
      /\ f'.sClrSync.sRDY = f.sClrSync.sRDY /\ f'.sClrSync.in_reset = f.sClrSync.in_reset
  <2>1. Asked(f.sClrSync, f'.sClrSync)
    BY <1>1, <1>2, ShakeSend
  <2>2. QED
    BY <2>1 DEF Asked
<1>5. SrcCleared'
  BY <1>1, <1>2, <1>3 DEF FieldsMoved, SrcCleared, SrcSame, R, Unwritten
<1>6. DstCleared' /\ DstShaken'
  BY <1>1, <1>2, <1>3, <1>4, DstClearedStays, DstShakenStays DEF FieldsMoved, DstShakeSame
<1>7. SrcShaken'
  BY <1>1, <1>2, <1>4 DEF FieldsMoved, SrcShaken, Unwritten, R, S, asked
<1>8. ClearTypes'
  <2>1. Typed(f)'
    BY <1>1, <1>3 DEF ClearInv, ClearTypes, Typed, SrcSame, DstSame
  <2>2. UNCHANGED R
    BY <1>1 DEF R
  <2>3. QED
    BY <1>1, <1>3, <1>4, <2>1, <2>2 DEF ClearInv, ClearTypes, SrcSame, DstSame
<1>9. Flags' /\ AtRest(f.dClrSync)'
  BY <1>1, <1>3 DEF ClearInv, Flags, SrcSame, DstSame, R, AtRest, Still
<1>10. QED
  BY <1>1, <1>2, <1>3, <1>5, <1>6, <1>7, <1>8, <1>9, CallKeeps DEF FieldsMoved

(* The edge of the source, in which it is held at zero or not.             *)
SrcRan(held) ==
  /\ "src" \notin edges /\ edges' = edges \cup {"src"} /\ UNCHANGED <<w, deq, last>>
  /\ clr' \in BOOLEAN /\ (~f.in_reset => (clr' <=> clr \/ held))
  /\ f'.s_reset = f.in_reset /\ f'.did_enq = FALSE /\ f'.did_sclear = FALSE
  /\ f'.src_lo = f.sSyncReg1 /\ f'.sSyncReg1 = Clearing!H!read(f.dst_lo)
  /\ held => /\ f'.src_hi = Clearing!H!force(f.src_hi, 0) /\ f'.src_hi_plus_1 = Succ(0)
             /\ f'.not_full = FALSE
  /\ ~held => /\ f'.src_hi = IF f.did_enq THEN Clearing!H!write(f.src_hi, f.src_hi_plus_1) ELSE f.src_hi
              /\ f'.src_hi_plus_1 = IF f.did_enq THEN Succ(f.src_hi_plus_1) ELSE f.src_hi_plus_1
              /\ f'.not_full \in BOOLEAN
              /\ f'.not_full <=> Opposite(f'.src_hi.value) # f.src_lo
  /\ f'.sClrSync = Clearing!H!clk_src(f.sClrSync, FALSE) /\ f'.dClrSync = Clearing!H!clk_dst(f.dClrSync)
  /\ Kept({"s_reset", "did_sclear", "did_enq", "src_hi", "src_hi_plus_1", "not_full", "sCountReg",
           "src_lo", "sSyncReg1", "sClrSync", "dClrSync"})

LEMMA SrcRuns ==
  ASSUME Depth # 1, ClearTypes, AtRest(f.dClrSync), Clearing!clk_src,
         NEW on \in BOOLEAN, on <=> f.in_reset \/ f.did_sclear \/ ~f.sClrSync.sRDY
  PROVE  SrcRan(on)
<1> DEFINE clearing == Clearing!sClearing
           held == f.in_reset \/ clearing
           hi   == CASE held -> Clearing!H!force(f.src_hi, 0)
                     [] ~held /\ f.did_enq -> Clearing!H!write(f.src_hi, f.src_hi_plus_1)
                     [] OTHER -> f.src_hi
           plus == IF held THEN Clearing!Succ(0) ELSE IF f.did_enq THEN Clearing!Succ(f.src_hi_plus_1) ELSE f.src_hi_plus_1
           full == Clearing!Room(Clearing!H!probe(hi), held)
           cnt  == CASE Depth = 1 -> Clearing!H!Flag(~Clearing!Room(Clearing!H!probe(hi), held)) [] Depth # 1 /\ held -> 0
                     [] OTHER -> Clearing!Behind(Clearing!H!probe(hi), f.src_lo)
           ss == Clearing!H!clk_src(f.sClrSync, FALSE)
           ds == Clearing!H!clk_dst(f.dClrSync)
<1>1. /\ "src" \notin edges /\ edges' = edges \cup {"src"} /\ UNCHANGED <<w, deq, last>>
      /\ clr' = (clr \/ clearing)
      /\ f' = [f EXCEPT !.s_reset = f.in_reset, !.did_sclear = FALSE, !.did_enq = FALSE, !.src_hi = hi,
                        !.src_hi_plus_1 = plus, !.not_full = full, !.sCountReg = cnt,
                        !.src_lo = f.sSyncReg1, !.sSyncReg1 = Clearing!H!read(f.dst_lo),
                        !.sClrSync = ss, !.dClrSync = ds]
  BY DEF Clearing!clk_src
<1>2. /\ DOMAIN f = FieldNames /\ f.in_reset \in BOOLEAN /\ f.did_enq \in BOOLEAN /\ f.did_sclear \in BOOLEAN
      /\ f.sClrSync.sRDY \in BOOLEAN /\ f.sClrSync.in_reset = f.in_reset /\ clr \in BOOLEAN
  BY DEF ClearTypes, Typed, ShakeTyped
<1>3. clearing \in BOOLEAN /\ (clearing <=> f.did_sclear \/ f.in_reset \/ ~f.sClrSync.sRDY)
  <2>1. Clearing!H!METH_pulse(f.dClrSync) = FALSE
    BY DEF AtRest, Still, Clearing!H!METH_pulse, Clearing!H!read
  <2>2. Clearing!H!METH_RDY_send(f.sClrSync) <=> ~f.in_reset /\ f.sClrSync.sRDY
    BY <1>2 DEF Clearing!H!METH_RDY_send
  <2>3. QED
    BY <1>2, <2>1, <2>2 DEF Clearing!sClearing
<1>4. held <=> on
  BY <1>2, <1>3
<1> HIDE DEF clearing
<1>5. hi = IF on THEN Clearing!H!force(f.src_hi, 0)
           ELSE IF f.did_enq THEN Clearing!H!write(f.src_hi, f.src_hi_plus_1) ELSE f.src_hi
  BY <1>4
<1>6. plus = IF on THEN Succ(0) ELSE IF f.did_enq THEN Succ(f.src_hi_plus_1) ELSE f.src_hi_plus_1
  BY <1>4, ClearNames
<1>7. full \in BOOLEAN /\ (on => full = FALSE) /\ (~on => (full <=> Opposite(hi.value) # f.src_lo))
  BY <1>4, ClearNames DEF Clearing!Room, Clearing!H!probe
<1>8. clr' \in BOOLEAN /\ (~f.in_reset => (clr' <=> clr \/ on))
  BY <1>1, <1>2, <1>3
<1> HIDE DEF hi, plus, full, cnt, ss, ds, held
<1>9. /\ f'.s_reset = f.in_reset /\ f'.did_enq = FALSE /\ f'.did_sclear = FALSE /\ f'.src_hi = hi /\ f'.src_hi_plus_1 = plus
      /\ f'.not_full = full /\ f'.src_lo = f.sSyncReg1 /\ f'.sSyncReg1 = Clearing!H!read(f.dst_lo)
      /\ f'.sClrSync = ss /\ f'.dClrSync = ds
  BY <1>1, <1>2 DEF FieldNames
<1>10. Kept({"s_reset", "did_sclear", "did_enq", "src_hi", "src_hi_plus_1", "not_full", "sCountReg",
             "src_lo", "sSyncReg1", "sClrSync", "dClrSync"})
  BY <1>1, <1>2 DEF FieldNames, Kept
<1>11. QED
  BY <1>1, <1>5, <1>6, <1>7, <1>8, <1>9, <1>10 DEF SrcRan, ss, ds

LEMMA SrcRunKeeps ==
  ASSUME Depth # 1, ClearInv, ~settled, UNCHANGED <<settled, lead>>, Clearing!clk_src
  PROVE  ClearInv'
<1> DEFINE s == f.src_hi
<1>1. /\ DOMAIN f = FieldNames /\ f.in_reset \in BOOLEAN /\ f.did_enq \in BOOLEAN /\ s \in VarOf(Positions)
      /\ f.dst_lo \in VarOf(Positions) /\ R.in_reset = f.in_reset /\ f.did_sclear \in BOOLEAN
      /\ ShakeTyped(f.sClrSync) /\ ShakeTyped(f.dClrSync) /\ AtRest(f.dClrSync)
      /\ f.sClrSync.in_reset = f.in_reset /\ f.dClrSync.in_reset = f.in_reset
      /\ f.sSyncReg1 \in Positions /\ f.src_hi_plus_1 = Succ(s.value)
  BY DEF ClearInv, ClearTypes, Typed, Flags
<1>2. PICK on \in BOOLEAN : on <=> f.in_reset \/ f.did_sclear \/ ~f.sClrSync.sRDY
  OBVIOUS
<1>3. SrcRan(on)
  BY <1>2, SrcRuns DEF ClearInv
<1>4. /\ f'.data = f.data /\ f'.in_reset = f.in_reset /\ f'.did_dclear = f.did_dclear /\ DstSame /\ DOMAIN f' = FieldNames
  BY <1>3 DEF SrcRan, Kept, FieldNames, DstSame
<1>5. SrcTurned(f.sClrSync, f'.sClrSync) /\ DstTurned(f.dClrSync, f'.dClrSync)
  <2>1. f'.sClrSync = Clearing!H!clk_src(f.sClrSync, FALSE) /\ f'.dClrSync = Clearing!H!clk_dst(f.dClrSync)
    BY <1>3 DEF SrcRan
  <2>2. SrcTurned(f.sClrSync, f'.sClrSync)
    BY <1>1, <2>1, ShakeSrc
  <2>3. DstTurned(f.dClrSync, f'.dClrSync)
    BY <1>1, <2>1, ShakeDst
  <2>4. QED
    BY <2>2, <2>3
<1>6. /\ ShakeTyped(f'.sClrSync) /\ ShakeTyped(f'.dClrSync)
      /\ f'.sClrSync.in_reset = f.in_reset /\ f'.dClrSync.in_reset = f.in_reset
      /\ AtRest(f'.dClrSync)
      /\ f'.dClrSync.sSyncReg1 = f.dClrSync.sSyncReg1 /\ f'.dClrSync.sSyncReg2 = f.dClrSync.sSyncReg2
      /\ f'.dClrSync.sRDY = f.dClrSync.sRDY
      /\ f'.sClrSync.dSyncReg1 = f.sClrSync.dSyncReg1 /\ f'.sClrSync.dSyncReg2 = f.sClrSync.dSyncReg2
      /\ f'.sClrSync.dLastState = f.sClrSync.dLastState
  BY <1>1, <1>5 DEF SrcTurned, DstTurned, AtRest, Still, Clearing!H!read
<1>7. Clearing!H!read(f.dst_lo) \in Positions
  BY <1>1 DEF Clearing!H!read, VarOf
<1>8. UNCHANGED R /\ ("dst" \in edges' <=> "dst" \in edges)
  BY <1>3 DEF R, SrcRan
<1>9. ASSUME f'.src_hi \in VarOf(Positions), f'.not_full \in BOOLEAN, f'.src_hi_plus_1 = Succ(f'.src_hi.value)
      PROVE  ClearTypes' /\ Flags'
  <2>1. Typed(f)'
    BY <1>1, <1>3, <1>4, <1>7, <1>9 DEF ClearInv, ClearTypes, Typed, DstSame, SrcRan
  <2>2. /\ UNCHANGED <<w, deq, last, lead, settled>> /\ clr' \in BOOLEAN /\ edges' = edges \cup {"src"}
        /\ f'.did_enq = FALSE /\ f'.did_sclear = FALSE
    BY <1>3 DEF SrcRan
  <2>3. ClearTypes'
    BY <1>4, <1>6, <1>8, <1>9, <2>1, <2>2 DEF ClearInv, ClearTypes, DstSame
  <2>4. Flags'
    BY <1>4, <1>8, <1>9, <2>2, <1>3 DEF ClearInv, Flags, DstSame, SrcRan
  <2>5. QED
    BY <2>3, <2>4
<1>10. CASE f.in_reset
  <2>1. on /\ FieldsRest
    BY <1>2, <1>10 DEF ClearInv, FieldsRest
  <2>2. f'.src_hi = [value |-> 0, prev_value |-> 0, written_at |-> s.written_at] /\ f'.src_hi_plus_1 = Succ(0)
        /\ f'.not_full = FALSE
    BY <1>1, <1>3, <2>1 DEF Clearing!H!force, VarOf, SrcRan
  <2>3. Clearing!H!read(f.dst_lo) = 0
    BY <2>1 DEF FieldsRest, FieldsAtReset, Still, Clearing!H!read
  <2>4. FieldsAtReset'
    BY <1>3, <1>4, <1>10, <2>1, <2>2, <2>3 DEF FieldsRest, FieldsAtReset, AtReset, Still, DstSame, SrcRan
  <2>5. f'.src_hi \in VarOf(Positions)
    BY <1>1, <2>2, PositionTypes DEF VarOf
  <2>6. ClearTypes' /\ Flags'
    <3>1. Succ(0) = Succ(f'.src_hi.value)
      BY <2>2
    <3>2. QED
      BY <1>9, <2>2, <2>5, <3>1
  <2>7. ShakeAtReset(f'.sClrSync) /\ ShakeAtReset(f'.dClrSync)
    BY <1>1, <1>5, <1>6, <1>10, <2>1 DEF FieldsRest, ShakeAtReset, AtRest, Still, SrcTurned, Clearing!H!read
  <2>8. FieldsRest'
    BY <1>3, <1>4, <1>8, <2>1, <2>4, <2>7 DEF FieldsRest, NoCalls, DstSame, SrcRan
  <2>9. QED
    BY <1>3, <1>4, <1>6, <1>10, <2>6, <2>8, CallKeeps DEF SrcRan
<1>11. CASE ~f.in_reset
  <2>1. FieldsMoved /\ "src" \notin edges
    BY <1>3, <1>11 DEF ClearInv, FieldsMoved, SrcRan
  <2>2. /\ (f.did_enq <=> w # None) /\ f.not_full = R.not_full /\ f.src_lo = R.src_lo /\ f.sSyncReg1 = R.sSyncReg1
        /\ s.value = R.src_hi /\ ~s.written_at
    BY <2>1 DEF FieldsMoved, SrcCleared, Unwritten
  <2>3. (on <=> clr \/ ~S.sRDY) /\ (clr' <=> on) /\ (clr => S.sRDY) /\ (f.sClrSync.en <=> clr)
    BY <1>2, <1>3, <1>11, <2>1 DEF FieldsMoved, SrcShaken, SrcRan
  <2>4. Clearing!H!read(f.dst_lo) = R.dst_lo \/ (DstHeld /\ Clearing!H!read(f.dst_lo) = 0)
    BY <2>1 DEF FieldsMoved, DstCleared, Unwritten, Rewritten, Clearing!H!read
  <2>5. on => /\ f'.src_hi = [value |-> 0, prev_value |-> 0, written_at |-> s.written_at] /\ f'.src_hi_plus_1 = Succ(0)
              /\ f'.not_full = FALSE
    BY <1>1, <1>3 DEF Clearing!H!force, VarOf, SrcRan
  <2>6. ~on => /\ w # None => f'.src_hi = [value |-> Succ(R.src_hi), prev_value |-> R.src_hi, written_at |-> TRUE]
               /\ w = None => f'.src_hi = s
               /\ f'.src_hi_plus_1 = IF w # None THEN Succ(Succ(R.src_hi)) ELSE Succ(R.src_hi)
               /\ f'.not_full \in BOOLEAN
               /\ f'.not_full <=> Opposite(f'.src_hi.value) # R.src_lo
    BY <1>1, <1>3, <2>2 DEF Clearing!H!write, SrcRan
  <2>7. f'.src_hi \in VarOf(Positions) /\ f'.not_full \in BOOLEAN /\ f'.src_hi_plus_1 = Succ(f'.src_hi.value)
    <3>1. R.src_hi \in Positions /\ Succ(R.src_hi) \in Positions /\ 0 \in Positions
      BY PositionTypes DEF ClearInv, ClearTypes
    <3>2. /\ [value |-> Succ(R.src_hi), prev_value |-> R.src_hi, written_at |-> TRUE] \in VarOf(Positions)
          /\ [value |-> 0, prev_value |-> 0, written_at |-> s.written_at] \in VarOf(Positions)
      BY <1>1, <3>1 DEF VarOf
    <3>3. CASE on
      <4>1. f'.src_hi.value = 0 /\ f'.src_hi \in VarOf(Positions) /\ f'.not_full = FALSE /\ f'.src_hi_plus_1 = Succ(0)
        BY <2>5, <3>2, <3>3
      <4>2. Succ(f'.src_hi.value) = Succ(0)
        BY <4>1
      <4>3. QED
        BY <4>1, <4>2
    <3>4. CASE ~on
      BY <1>1, <2>2, <2>6, <3>2, <3>4
    <3>5. QED
      BY <3>3, <3>4
  <2>8. SrcCleared'
    <3>1. w' = w /\ last' = last /\ "src" \in edges' /\ f'.data = f.data /\ UNCHANGED DstHeld
      BY <1>3, <1>4, <1>8 DEF SrcRan, DstHeld, D, S
    <3>2. f'.s_reset = FALSE /\ f'.did_enq = FALSE /\ f'.src_lo = R.sSyncReg1
      BY <1>3, <1>11, <2>2 DEF SrcRan
    <3>3. f'.sSyncReg1 = R.dst_lo \/ (DstHeld /\ f'.sSyncReg1 = 0)
      BY <1>3, <2>4 DEF SrcRan
    <3>4. f'.not_full <=> ~clr' /\ Opposite(f'.src_hi.value) # R.src_lo
      BY <2>3, <2>5, <2>6
    <3>5. IF clr' THEN Unwritten(f'.src_hi, 0)
          ELSE IF w # None THEN Rewritten(f'.src_hi, Succ(R.src_hi), R.src_hi) ELSE Unwritten(f'.src_hi, R.src_hi)
      BY <2>2, <2>3, <2>5, <2>6 DEF Rewritten, Unwritten
    <3>6. QED
      BY <1>8, <2>1, <3>1, <3>2, <3>3, <3>4, <3>5 DEF FieldsMoved, SrcCleared
  <2>9. DstCleared' /\ DstShaken'
    BY <1>3, <1>4, <1>6, <1>8, <2>1, <2>3, DstClearedStays, DstShakenStays DEF FieldsMoved, DstShakeSame, SrcRan
  <2>10. SrcShaken'
    <3>1. /\ "src" \in edges' /\ UNCHANGED <<S, asked>>
      BY <1>3, <1>8 DEF SrcRan, S, asked
    <3>2. /\ f.sClrSync.sSyncReg1 = S.sSyncReg1 /\ Unwritten(f.sClrSync.sToggleReg, asked)
          /\ Clearing!H!read(f.sClrSync.dSyncReg2) = S.dSyncReg2.value
      BY <2>1 DEF FieldsMoved, SrcShaken, DstShaken, Unwritten, Rewritten, Clearing!H!read
    <3>3. /\ f'.sClrSync.sSyncReg1 = S.dSyncReg2.value /\ f'.sClrSync.sSyncReg2 = S.sSyncReg1
          /\ f'.sClrSync.en = FALSE
          /\ (f'.sClrSync.sRDY <=> ~clr /\ S.sSyncReg1 = asked)
      BY <1>1, <1>5, <1>11, <2>3, <3>2 DEF SrcTurned, Unwritten, Clearing!H!read
    <3>4. IF clr THEN Rewritten(f'.sClrSync.sToggleReg, 1 - asked, asked) ELSE Unwritten(f'.sClrSync.sToggleReg, asked)
      BY <1>5, <2>3, <3>2 DEF SrcTurned, Unwritten, Rewritten, Clearing!H!read, Clearing!H!write
    <3>5. f'.did_sclear = FALSE
      BY <1>3 DEF SrcRan
    <3>6. S.sRDY /\ clr' <=> clr
      BY <2>3
    <3>7. QED
      BY <2>3, <3>1, <3>3, <3>4, <3>5, <3>6 DEF SrcShaken
  <2>11. ClearTypes' /\ Flags'
    BY <1>9, <2>7
  <2>12. QED
    BY <1>3, <1>4, <1>6, <1>11, <2>8, <2>9, <2>10, <2>11, CallKeeps DEF SrcRan, FieldsMoved
<1>12. QED
  BY <1>1, <1>10, <1>11

(* The word fetched is not the one being written.                          *)
LEMMA ClearedApart ==
  ASSUME ClearTypes, InService, last.notFull, R.dst_hi # R.dst_lo
  PROVE  Addr(R.src_hi) # Addr(R.dst_lo)
<1>1. /\ R.src_hi \in Positions /\ R.dSyncReg1 \in Positions /\ R.dst_hi \in Positions /\ R.dst_lo \in Positions
      /\ R.sSyncReg1 \in Positions /\ R.src_lo \in Positions
  BY DEF ClearTypes, Typed
<1>2. /\ Ordered(R.src_hi, R.dSyncReg1, R.dst_hi, R.dst_lo, R.sSyncReg1, R.src_lo)
      /\ Behind(R.src_hi, R.src_lo) < Depth
  BY DEF InService, Cleared, Reordered
<1>3. \A e, a1, a2, d, b1, b2 \in Positions :
        Ordered(e, a1, a2, d, b1, b2) /\ Behind(e, b2) < Depth /\ a2 # d => Addr(e) # Addr(d)
  BY DepthAssumption DEF Ordered, Behind, Positions, Addr
<1>4. QED
  BY <1>1, <1>2, <1>3

(* The edge of the destination, in which it is held at zero or not, and    *)
(* fetches or not.                                                         *)
DstRan(held, fetch) ==
  /\ "dst" \notin edges /\ edges' = edges \cup {"dst"} /\ UNCHANGED <<w, deq, clr, last>>
  /\ f'.d_reset = f.in_reset /\ f'.did_deq = FALSE /\ f'.did_dclear = FALSE
  /\ f'.dst_hi = f.dSyncReg1 /\ f'.dSyncReg1 = Clearing!H!read(f.src_hi)
  /\ f'.dst_lo = IF held THEN Clearing!H!force(f.dst_lo, 0)
                 ELSE IF fetch THEN Clearing!H!write(f.dst_lo, f.dst_lo_plus_1) ELSE f.dst_lo
  /\ f'.dst_lo_plus_1 = IF held THEN Succ(0) ELSE IF fetch THEN Succ(f.dst_lo_plus_1) ELSE f.dst_lo_plus_1
  /\ f'.not_empty \in BOOLEAN
  /\ f'.not_empty <=> ~held /\ (fetch \/ (f.not_empty /\ ~f.did_deq))
  /\ f'.dDoutReg = IF fetch THEN f.data[Addr(Clearing!H!read(f.dst_lo))] ELSE f.dDoutReg
  /\ f'.sClrSync = Clearing!H!clk_dst(f.sClrSync) /\ f'.dClrSync = Clearing!H!clk_src(f.dClrSync, FALSE)
  /\ Kept({"d_reset", "did_dclear", "did_deq", "dst_lo", "dst_lo_plus_1", "not_empty", "dDoutReg", "dCountReg",
           "dst_hi", "dSyncReg1", "sClrSync", "dClrSync"})

LEMMA DstRuns ==
  ASSUME Depth # 1, ClearTypes, Clearing!clk_dst,
         NEW on \in BOOLEAN,
         on <=> f.in_reset \/ ~f.dClrSync.sRDY
                  \/ Clearing!H!read(f.sClrSync.dSyncReg2) # Clearing!H!read(f.sClrSync.dLastState),
         NEW fetch \in BOOLEAN,
         fetch <=> ~on /\ f.dst_hi # Clearing!H!read(f.dst_lo) /\ (f.did_deq \/ ~f.not_empty)
  PROVE  DstRan(on, fetch)
<1> DEFINE clearing == Clearing!dClearing
           held   == f.in_reset \/ clearing
           lo     == Clearing!H!read(f.dst_lo)
           some   == f.dst_hi # lo
           fetch1 == ~held /\ some /\ (f.did_deq \/ (Depth # 1 /\ ~f.not_empty))
           newLo  == CASE held -> Clearing!H!force(f.dst_lo, 0)
                       [] fetch1 -> Clearing!H!write(f.dst_lo, f.dst_lo_plus_1)
                       [] OTHER -> f.dst_lo
           loaded == CASE Depth = 1 -> Clearing!H!probe(newLo) = f.dSyncReg1 [] Depth # 1 /\ held -> FALSE
                       [] OTHER -> fetch1 \/ (f.not_empty /\ ~f.did_deq)
           plus == IF held THEN Clearing!Succ(0) ELSE IF fetch1 THEN Clearing!Succ(f.dst_lo_plus_1) ELSE f.dst_lo_plus_1
           out == IF fetch1 /\ Depth # 1 THEN f.data[Clearing!Addr(lo)] ELSE f.dDoutReg
           cnt == CASE Depth = 1 -> Clearing!H!Flag(loaded) [] Depth # 1 /\ held -> 0
                    [] OTHER -> Clearing!Behind(f.dst_hi, lo)
           ss == Clearing!H!clk_dst(f.sClrSync)
           ds == Clearing!H!clk_src(f.dClrSync, FALSE)
<1>1. /\ "dst" \notin edges /\ edges' = edges \cup {"dst"} /\ UNCHANGED <<w, deq, clr, last>>
      /\ f' = [f EXCEPT !.d_reset = f.in_reset, !.did_dclear = FALSE, !.did_deq = FALSE, !.dst_lo = newLo,
                        !.dst_lo_plus_1 = plus, !.not_empty = loaded, !.dDoutReg = out, !.dCountReg = cnt,
                        !.dst_hi = f.dSyncReg1, !.dSyncReg1 = Clearing!H!read(f.src_hi),
                        !.sClrSync = ss, !.dClrSync = ds]
  BY DEF Clearing!clk_dst
<1>2. /\ DOMAIN f = FieldNames /\ f.in_reset \in BOOLEAN /\ f.did_deq \in BOOLEAN /\ f.did_dclear = FALSE
      /\ f.not_empty \in BOOLEAN /\ f.dClrSync.sRDY \in BOOLEAN /\ f.dClrSync.in_reset = f.in_reset
  BY DEF ClearTypes, Typed, ShakeTyped
<1>3. clearing \in BOOLEAN
        /\ (clearing <=> f.in_reset \/ ~f.dClrSync.sRDY
                           \/ Clearing!H!read(f.sClrSync.dSyncReg2) # Clearing!H!read(f.sClrSync.dLastState))
  BY <1>2 DEF Clearing!dClearing, Clearing!H!METH_RDY_send, Clearing!H!METH_pulse
<1>4. held <=> on
  BY <1>2, <1>3
<1> HIDE DEF clearing, lo
<1>5. fetch1 <=> fetch
  BY <1>2, <1>4 DEF lo
<1>6. newLo = IF on THEN Clearing!H!force(f.dst_lo, 0)
              ELSE IF fetch THEN Clearing!H!write(f.dst_lo, f.dst_lo_plus_1) ELSE f.dst_lo
  BY <1>4, <1>5
<1>7. plus = IF on THEN Succ(0) ELSE IF fetch THEN Succ(f.dst_lo_plus_1) ELSE f.dst_lo_plus_1
  BY <1>4, <1>5, ClearNames
<1>8. loaded \in BOOLEAN /\ (loaded <=> ~on /\ (fetch \/ (f.not_empty /\ ~f.did_deq)))
  BY <1>2, <1>4, <1>5
<1>9. out = IF fetch THEN f.data[Addr(lo)] ELSE f.dDoutReg
  BY <1>5, ClearNames
<1> HIDE DEF newLo, plus, loaded, out, cnt, ss, ds, held, fetch1, some
<1>10. /\ f'.d_reset = f.in_reset /\ f'.did_deq = FALSE /\ f'.did_dclear = FALSE /\ f'.dst_lo = newLo
       /\ f'.dst_lo_plus_1 = plus /\ f'.not_empty = loaded /\ f'.dDoutReg = out /\ f'.dst_hi = f.dSyncReg1
       /\ f'.dSyncReg1 = Clearing!H!read(f.src_hi) /\ f'.sClrSync = ss /\ f'.dClrSync = ds
  BY <1>1, <1>2 DEF FieldNames
<1>11. Kept({"d_reset", "did_dclear", "did_deq", "dst_lo", "dst_lo_plus_1", "not_empty", "dDoutReg", "dCountReg",
             "dst_hi", "dSyncReg1", "sClrSync", "dClrSync"})
  BY <1>1, <1>2 DEF FieldNames, Kept
<1>12. QED
  BY <1>1, <1>6, <1>7, <1>8, <1>9, <1>10, <1>11 DEF DstRan, ss, ds, lo

LEMMA DstRunKeeps ==
  ASSUME Depth # 1, ClearInv, ~settled, UNCHANGED <<settled, lead>>, Clearing!clk_dst
  PROVE  ClearInv'
<1> DEFINE s  == f.dst_lo
           lo == Clearing!H!read(s)
<1>1. /\ DOMAIN f = FieldNames /\ f.in_reset \in BOOLEAN /\ f.did_deq \in BOOLEAN /\ f.not_empty \in BOOLEAN
      /\ s \in VarOf(Positions) /\ f.src_hi \in VarOf(Positions) /\ R.in_reset = f.in_reset
      /\ lo \in Positions /\ f.dSyncReg1 \in Positions /\ f.dst_lo_plus_1 = Succ(s.value)
      /\ ShakeTyped(f.sClrSync) /\ ShakeTyped(f.dClrSync) /\ AtRest(f.dClrSync)
      /\ f.sClrSync.in_reset = f.in_reset /\ f.dClrSync.in_reset = f.in_reset
      /\ f.data \in Memory /\ f.dDoutReg \in Elements
  BY DEF ClearInv, ClearTypes, Typed, VarOf, Clearing!H!read, Flags
<1>2. PICK on \in BOOLEAN :
        on <=> f.in_reset \/ ~f.dClrSync.sRDY
                 \/ Clearing!H!read(f.sClrSync.dSyncReg2) # Clearing!H!read(f.sClrSync.dLastState)
  OBVIOUS
<1>3. PICK fetch \in BOOLEAN : fetch <=> ~on /\ f.dst_hi # lo /\ (f.did_deq \/ ~f.not_empty)
  OBVIOUS
<1>4. DstRan(on, fetch)
  BY <1>2, <1>3, DstRuns DEF ClearInv
<1>5. /\ f'.data = f.data /\ f'.in_reset = f.in_reset /\ f'.did_sclear = f.did_sclear /\ SrcSame /\ DOMAIN f' = FieldNames
  BY <1>4 DEF DstRan, Kept, FieldNames, SrcSame
<1>6. DstTurned(f.sClrSync, f'.sClrSync) /\ SrcTurned(f.dClrSync, f'.dClrSync)
  <2>1. f'.sClrSync = Clearing!H!clk_dst(f.sClrSync) /\ f'.dClrSync = Clearing!H!clk_src(f.dClrSync, FALSE)
    BY <1>4 DEF DstRan
  <2>2. DstTurned(f.sClrSync, f'.sClrSync)
    BY <1>1, <2>1, ShakeDst
  <2>3. SrcTurned(f.dClrSync, f'.dClrSync)
    BY <1>1, <2>1, ShakeSrc
  <2>4. QED
    BY <2>2, <2>3
<1>7. /\ ShakeTyped(f'.sClrSync) /\ ShakeTyped(f'.dClrSync)
      /\ f'.sClrSync.in_reset = f.in_reset /\ f'.dClrSync.in_reset = f.in_reset
      /\ AtRest(f'.dClrSync)
      /\ f'.sClrSync.sSyncReg1 = f.sClrSync.sSyncReg1 /\ f'.sClrSync.sSyncReg2 = f.sClrSync.sSyncReg2
      /\ f'.sClrSync.sRDY = f.sClrSync.sRDY /\ f'.sClrSync.en = f.sClrSync.en
      /\ f'.sClrSync.sToggleReg = f.sClrSync.sToggleReg
  BY <1>1, <1>6 DEF SrcTurned, DstTurned, AtRest, Still, Clearing!H!read
<1>8. Clearing!H!read(f.src_hi) \in Positions
  BY <1>1 DEF Clearing!H!read, VarOf
<1>9. UNCHANGED R /\ ("src" \in edges' <=> "src" \in edges)
  BY <1>4 DEF R, DstRan
<1>10. f'.dDoutReg \in Elements
  <2>1. Addr(lo) \in 0 .. Depth - 1
    BY <1>1, PositionTypes
  <2>2. f.data[Addr(lo)] \in Elements
    BY <1>1, <2>1 DEF Memory
  <2>3. QED
    BY <1>1, <1>4, <2>2 DEF DstRan
<1>11. ASSUME f'.dst_lo \in VarOf(Positions), f'.dst_lo_plus_1 = Succ(f'.dst_lo.value)
       PROVE  ClearTypes' /\ Flags'
  <2>1. Typed(f)'
    BY <1>1, <1>4, <1>5, <1>8, <1>10 DEF ClearInv, ClearTypes, Typed, SrcSame, DstRan
  <2>2. /\ UNCHANGED <<w, deq, clr, last, lead, settled>> /\ edges' = edges \cup {"dst"}
        /\ f'.did_deq = FALSE /\ f'.did_dclear = FALSE
    BY <1>4 DEF DstRan
  <2>3. ClearTypes'
    BY <1>5, <1>7, <1>9, <1>11, <2>1, <2>2 DEF ClearInv, ClearTypes, SrcSame
  <2>4. ~f'.in_reset /\ f'.d_reset => ~f'.not_empty
    BY <1>4, <1>5 DEF DstRan
  <2>5. Flags'
    BY <1>5, <1>9, <1>11, <2>2, <2>4 DEF ClearInv, Flags, SrcSame
  <2>6. QED
    BY <2>3, <2>5
<1>12. CASE f.in_reset
  <2>1. on /\ FieldsRest
    BY <1>2, <1>12 DEF ClearInv, FieldsRest
  <2>2. f'.dst_lo = [value |-> 0, prev_value |-> 0, written_at |-> s.written_at] /\ f'.dst_lo_plus_1 = Succ(0)
        /\ f'.dDoutReg = f.dDoutReg
    BY <1>1, <1>3, <1>4, <2>1 DEF Clearing!H!force, VarOf, DstRan
  <2>3. Clearing!H!read(f.src_hi) = 0
    BY <2>1 DEF FieldsRest, FieldsAtReset, Still, Clearing!H!read
  <2>4. FieldsAtReset'
    BY <1>4, <1>5, <1>12, <2>1, <2>2, <2>3 DEF FieldsRest, FieldsAtReset, AtReset, Still, SrcSame, DstRan
  <2>5. f'.dst_lo \in VarOf(Positions)
    BY <1>1, <2>2, PositionTypes DEF VarOf
  <2>6. ClearTypes' /\ Flags'
    <3>1. Succ(0) = Succ(f'.dst_lo.value)
      BY <2>2
    <3>2. QED
      BY <1>11, <2>2, <2>5, <3>1
  <2>7. ShakeAtReset(f'.sClrSync) /\ ShakeAtReset(f'.dClrSync)
    BY <1>1, <1>6, <1>7, <1>12, <2>1 DEF FieldsRest, ShakeAtReset, AtRest, Still, SrcTurned, DstTurned, Clearing!H!read
  <2>8. FieldsRest'
    BY <1>4, <1>5, <1>9, <2>1, <2>2, <2>4, <2>7 DEF FieldsRest, NoCalls, DstRan
  <2>9. QED
    BY <1>4, <1>5, <1>7, <1>12, <2>6, <2>8, CallKeeps DEF DstRan
<1>13. CASE ~f.in_reset
  <2>1. FieldsMoved /\ "dst" \notin edges /\ InService
    BY <1>1, <1>4, <1>13 DEF ClearInv, FieldsMoved, DstRan
  <2>2. /\ (f.did_deq <=> deq) /\ f.not_empty = R.not_empty /\ f.dst_hi = R.dst_hi /\ f.dSyncReg1 = R.dSyncReg1
        /\ s.value = R.dst_lo /\ ~s.written_at /\ f.dDoutReg = R.dDoutReg
    BY <2>1 DEF FieldsMoved, DstCleared, Unwritten
  <2>3. /\ Clearing!H!read(f.src_hi) = R.src_hi \/ (clr /\ Clearing!H!read(f.src_hi) = 0)
        /\ lo = R.dst_lo
    BY <2>1, <2>2 DEF FieldsMoved, SrcCleared, Unwritten, Rewritten, Clearing!H!read
  <2> HIDE DEF lo
  <2>4. /\ Unwritten(f.sClrSync.dSyncReg2, S.dSyncReg2.value) /\ Unwritten(f.sClrSync.dLastState, S.dLastState.value)
        /\ f.sClrSync.dSyncReg1 = S.dSyncReg1 /\ Clearing!H!read(f.sClrSync.sToggleReg) = asked
        /\ f.dClrSync.sSyncReg1 = D.sSyncReg1 /\ f.dClrSync.sRDY = D.sRDY
    BY <2>1 DEF FieldsMoved, SrcShaken, DstShaken, Unwritten, Rewritten, Clearing!H!read
  <2>5. on <=> DstHeld
    BY <1>2, <1>13, <2>4 DEF DstHeld, Unwritten, Clearing!H!read
  <2>6. fetch <=> ~DstHeld /\ Fetches
    BY <1>3, <2>2, <2>3, <2>5 DEF Fetches
  <2>7. /\ on => f'.dst_lo = [value |-> 0, prev_value |-> 0, written_at |-> s.written_at] /\ f'.dst_lo_plus_1 = Succ(0)
        /\ ~on => f'.dst_lo_plus_1 = IF fetch THEN Succ(Succ(R.dst_lo)) ELSE Succ(R.dst_lo)
        /\ ~on /\ fetch => f'.dst_lo = [value |-> Succ(R.dst_lo), prev_value |-> R.dst_lo, written_at |-> TRUE]
        /\ ~on /\ ~fetch => f'.dst_lo = s
    BY <1>1, <1>4, <2>2 DEF Clearing!H!write, Clearing!H!force, VarOf, DstRan
  <2>8. f'.dst_lo \in VarOf(Positions) /\ f'.dst_lo_plus_1 = Succ(f'.dst_lo.value)
    <3>1. R.dst_lo \in Positions /\ Succ(R.dst_lo) \in Positions /\ 0 \in Positions
      BY PositionTypes DEF ClearInv, ClearTypes
    <3>2. /\ [value |-> Succ(R.dst_lo), prev_value |-> R.dst_lo, written_at |-> TRUE] \in VarOf(Positions)
          /\ [value |-> 0, prev_value |-> 0, written_at |-> s.written_at] \in VarOf(Positions)
      BY <1>1, <3>1 DEF VarOf
    <3>3. CASE on
      <4>1. f'.dst_lo.value = 0 /\ f'.dst_lo \in VarOf(Positions) /\ f'.dst_lo_plus_1 = Succ(0)
        BY <2>7, <3>2, <3>3
      <4>2. Succ(f'.dst_lo.value) = Succ(0)
        BY <4>1
      <4>3. QED
        BY <4>1, <4>2
    <3>4. CASE ~on /\ fetch
      <4>1. /\ f'.dst_lo.value = Succ(R.dst_lo) /\ f'.dst_lo \in VarOf(Positions)
            /\ f'.dst_lo_plus_1 = Succ(Succ(R.dst_lo))
        BY <2>7, <3>2, <3>4
      <4>2. Succ(f'.dst_lo.value) = Succ(Succ(R.dst_lo))
        BY <4>1
      <4>3. QED
        BY <4>1, <4>2
    <3>5. CASE ~on /\ ~fetch
      BY <1>1, <2>2, <2>7, <3>5
    <3>6. QED
      BY <3>3, <3>4, <3>5
  <2>9. fetch => f.data[Addr(R.dst_lo)] = R.data[Addr(R.dst_lo)]
    <3>1. Addr(R.src_hi) \in 0 .. Depth - 1 /\ Addr(R.dst_lo) \in 0 .. Depth - 1 /\ R.data \in Memory
      BY PositionTypes DEF ClearInv, ClearTypes, Typed
    <3>2. fetch /\ w # None => Addr(R.src_hi) # Addr(R.dst_lo)
      BY <2>1, <2>6, ClearedApart DEF SrcCleared, Fetches, FieldsMoved, ClearInv
    <3>3. QED
      BY <2>1, <3>1, <3>2 DEF SrcCleared, Memory, FieldsMoved
  <2>10. DstCleared'
    <3>1. UNCHANGED <<deq, clr, last>> /\ "dst" \in edges' /\ UNCHANGED <<Fetches, DstHeld>>
      BY <1>4, <1>9 DEF Fetches, DstHeld, DstRan, D, S
    <3>2. f'.d_reset = FALSE /\ f'.did_deq = FALSE /\ f'.dst_hi = R.dSyncReg1
      BY <1>4, <1>13, <2>2 DEF DstRan
    <3>3. f'.dSyncReg1 = R.src_hi \/ (clr /\ f'.dSyncReg1 = 0)
      BY <1>4, <2>3 DEF DstRan
    <3>4. f'.not_empty <=> ~DstHeld /\ (Fetches \/ (R.not_empty /\ ~deq))
      BY <1>4, <2>2, <2>5, <2>6 DEF DstRan
    <3>5. IF DstHeld THEN Unwritten(f'.dst_lo, 0)
          ELSE IF Fetches THEN Rewritten(f'.dst_lo, Succ(R.dst_lo), R.dst_lo) ELSE Unwritten(f'.dst_lo, R.dst_lo)
      BY <2>2, <2>5, <2>6, <2>7 DEF Rewritten, Unwritten
    <3>6. f'.dDoutReg = IF ~DstHeld /\ Fetches THEN R.data[Addr(R.dst_lo)] ELSE R.dDoutReg
      BY <1>4, <2>2, <2>3, <2>6, <2>9 DEF DstRan, lo
    <3>7. QED
      BY <1>9, <2>1, <3>1, <3>2, <3>3, <3>4, <3>5, <3>6 DEF FieldsMoved, DstCleared
  <2>11. SrcCleared' /\ SrcShaken'
    <3>1. SrcCleared'
      BY <1>4, <1>5, <1>9, <2>1, SrcClearedStays DEF FieldsMoved, DstRan
    <3>2. SrcShaken'
      BY <1>4, <1>5, <1>7, <1>9, <2>1, SrcShakenStays DEF FieldsMoved, SrcShakeSame, DstRan
    <3>3. QED
      BY <3>1, <3>2
  <2>12. DstShaken'
    <3>1. "dst" \in edges' /\ UNCHANGED <<S, D, asked>>
      BY <1>4, <1>9 DEF DstRan, S, D, asked
    <3>2. /\ f'.sClrSync.dSyncReg1 = asked /\ Rewritten(f'.sClrSync.dSyncReg2, S.dSyncReg1, S.dSyncReg2.value)
          /\ Rewritten(f'.sClrSync.dLastState, S.dSyncReg2.value, S.dLastState.value)
      BY <1>6, <2>4 DEF DstTurned, Unwritten, Rewritten, Clearing!H!read
    <3>3. /\ f'.dClrSync.sSyncReg1 = 0 /\ f'.dClrSync.sSyncReg2 = D.sSyncReg1
          /\ (f'.dClrSync.sRDY <=> D.sSyncReg1 = 0)
      BY <1>1, <1>6, <1>13, <2>4 DEF SrcTurned, AtRest, Still, Clearing!H!read
    <3>4. QED
      BY <3>1, <3>2, <3>3 DEF DstShaken
  <2>13. ClearTypes' /\ Flags'
    BY <1>11, <2>8
  <2>14. QED
    BY <1>4, <1>5, <1>7, <1>13, <2>10, <2>11, <2>12, <2>13, CallKeeps DEF DstRan, FieldsMoved
<1>14. QED
  BY <1>1, <1>12, <1>13

-----------------------------------------------------------------------------
(* The end of a slice: its registers are the fields.                       *)
ClearSnapped ==
  /\ R'.data = f.data /\ R'.dDoutReg = f.dDoutReg /\ R'.src_lo = f.src_lo /\ R'.dst_hi = f.dst_hi
  /\ R'.dSyncReg1 = f.dSyncReg1 /\ R'.sSyncReg1 = f.sSyncReg1 /\ R'.src_hi_plus_1 = f.src_hi_plus_1
  /\ R'.dst_lo_plus_1 = f.dst_lo_plus_1 /\ R'.not_empty = f.not_empty /\ R'.not_full = f.not_full
  /\ R'.in_reset = f.in_reset /\ R'.s_reset = f.s_reset /\ R'.d_reset = f.d_reset
  /\ R'.src_hi = f.src_hi.value /\ R'.dst_lo = f.dst_lo.value
  /\ R'.sClrSync = f.sClrSync /\ R'.dClrSync = f.dClrSync
  /\ last'.notFull \in BOOLEAN /\ last'.notEmpty \in BOOLEAN
  /\ (last'.notFull <=> ~f.s_reset /\ f.not_full) /\ (last'.notEmpty <=> ~f.d_reset /\ f.not_empty)
  /\ f.in_reset => last'.queue = <<>>
  /\ ~f.in_reset => last'.queue = After(last.queue, clr, deq /\ last.queue # <<>>, w)

LEMMA ClearSettles ==
  ASSUME Depth # 1, ClearTypes, last' = Clearing!Settled
  PROVE  ClearSnapped
<1>1. DOMAIN f = FieldNames /\ f.in_reset \in BOOLEAN
  BY DEF ClearTypes, Typed
<1> DEFINE regs == [f EXCEPT !.src_hi = Clearing!H!probe(@), !.dst_lo = Clearing!H!probe(@)]
<1>2. /\ last'.regs = regs /\ last'.notFull = Clearing!METH_notFull /\ last'.notEmpty = Clearing!METH_notEmpty
      /\ f.in_reset => last'.queue = <<>>
      /\ ~f.in_reset => last'.queue = Clearing!After(last.queue, clr, deq /\ last.queue # <<>>, w)
  BY DEF Clearing!Settled, Clearing!Snapshot
<1>3. /\ regs.data = f.data /\ regs.dDoutReg = f.dDoutReg /\ regs.src_lo = f.src_lo /\ regs.dst_hi = f.dst_hi
      /\ regs.dSyncReg1 = f.dSyncReg1 /\ regs.sSyncReg1 = f.sSyncReg1 /\ regs.src_hi_plus_1 = f.src_hi_plus_1
      /\ regs.dst_lo_plus_1 = f.dst_lo_plus_1 /\ regs.not_empty = f.not_empty /\ regs.not_full = f.not_full
      /\ regs.in_reset = f.in_reset /\ regs.s_reset = f.s_reset /\ regs.d_reset = f.d_reset
      /\ regs.src_hi = f.src_hi.value /\ regs.dst_lo = f.dst_lo.value
      /\ regs.sClrSync = f.sClrSync /\ regs.dClrSync = f.dClrSync
  BY <1>1 DEF FieldNames, Clearing!H!probe
<1> HIDE DEF regs
<1>4. R' = regs
  BY <1>2 DEF R
<1>5. /\ last'.notFull \in BOOLEAN /\ last'.notEmpty \in BOOLEAN
      /\ (last'.notFull <=> ~f.s_reset /\ f.not_full) /\ (last'.notEmpty <=> ~f.d_reset /\ f.not_empty)
  BY <1>2 DEF Clearing!METH_notFull, Clearing!METH_notEmpty
<1>6. ~f.in_reset => last'.queue = After(last.queue, clr, deq /\ last.queue # <<>>, w)
  BY <1>2 DEF Clearing!After, After
<1>7. QED
  BY <1>2, <1>3, <1>4, <1>5, <1>6 DEF ClearSnapped

(* The slice out of reset, as a step of what there was at its beginning.   *)
ClearActive ==
  ~settled /\ ~f.in_reset /\ (w # None \/ f.did_sclear => "src" \in edges) /\ (deq => "dst" \in edges)

ShakeTick ==
  /\ IF "src" \in edges
     THEN /\ S'.sSyncReg1 = S.dSyncReg2.value /\ S'.sSyncReg2 = S.sSyncReg1 /\ (~S.sRDY => clr)
          /\ (S'.sRDY <=> S.sSyncReg1 = asked /\ ~(S.sRDY /\ clr))
          /\ asked' = IF S.sRDY /\ clr THEN 1 - asked ELSE asked
     ELSE /\ S'.sSyncReg1 = S.sSyncReg1 /\ S'.sSyncReg2 = S.sSyncReg2 /\ ~clr
          /\ S'.sRDY = S.sRDY /\ asked' = asked
  /\ IF "dst" \in edges
     THEN /\ S'.dSyncReg1 = asked /\ S'.dSyncReg2.value = S.dSyncReg1 /\ S'.dLastState.value = S.dSyncReg2.value
          /\ D'.sSyncReg1 = 0 /\ D'.sSyncReg2 = D.sSyncReg1 /\ (D'.sRDY <=> D.sSyncReg1 = 0)
     ELSE /\ S'.dSyncReg1 = S.dSyncReg1 /\ S'.dSyncReg2.value = S.dSyncReg2.value
          /\ S'.dLastState.value = S.dLastState.value
          /\ D'.sSyncReg1 = D.sSyncReg1 /\ D'.sSyncReg2 = D.sSyncReg2 /\ D'.sRDY = D.sRDY

SrcTick ==
  /\ w # None => last.notFull
  /\ R'.data = IF w # None THEN [R.data EXCEPT ![Addr(R.src_hi)] = w] ELSE R.data
  /\ R'.src_hi = IF clr THEN 0 ELSE IF w # None THEN Succ(R.src_hi) ELSE R.src_hi
  /\ last'.notFull \in BOOLEAN
  /\ IF "src" \in edges
     THEN /\ R'.src_lo = R.sSyncReg1 /\ (R'.sSyncReg1 = R.dst_lo \/ (DstHeld /\ R'.sSyncReg1 = 0))
          /\ last'.notFull => ~clr /\ Opposite(R'.src_hi) # R.src_lo
     ELSE /\ w = None /\ ~clr /\ R'.src_lo = R.src_lo /\ R'.sSyncReg1 = R.sSyncReg1 /\ last'.notFull = last.notFull

Loads == "dst" \in edges /\ ~DstHeld /\ Fetches
DstTick ==
  /\ deq => last.notEmpty
  /\ last'.notEmpty \in BOOLEAN
  /\ R'.dDoutReg = IF Loads THEN R.data[Addr(R.dst_lo)] ELSE R.dDoutReg
  /\ IF "dst" \in edges
     THEN /\ R'.dst_hi = R.dSyncReg1 /\ (R'.dSyncReg1 = R.src_hi \/ (clr /\ R'.dSyncReg1 = 0))
          /\ (last'.notEmpty <=> ~DstHeld /\ (Fetches \/ (last.notEmpty /\ ~deq)))
          /\ R'.dst_lo = IF DstHeld THEN 0 ELSE IF Fetches THEN Succ(R.dst_lo) ELSE R.dst_lo
     ELSE /\ ~deq /\ R'.dst_hi = R.dst_hi /\ R'.dSyncReg1 = R.dSyncReg1
          /\ last'.notEmpty = last.notEmpty /\ R'.dst_lo = R.dst_lo

LEMMA ClearTicks ==
  ASSUME ClearInv, ClearActive, ClearSnapped
  PROVE  ShakeTick /\ SrcTick /\ DstTick
<1>1. /\ FieldsMoved /\ Flags /\ ~R.in_reset
      /\ clr \in BOOLEAN /\ deq \in BOOLEAN /\ last.notFull \in BOOLEAN /\ last.notEmpty \in BOOLEAN
      /\ R.not_empty \in BOOLEAN /\ R.not_full \in BOOLEAN
      /\ "src" \notin edges => w = None /\ ~clr
  <2>1. FieldsMoved /\ Flags /\ ~R.in_reset
    BY DEF ClearInv, ClearActive, FieldsMoved
  <2>2. "src" \notin edges => w = None /\ ~clr
    BY <2>1 DEF FieldsMoved, SrcShaken, ClearActive
  <2>3. QED
    BY <2>1, <2>2 DEF ClearInv, ClearTypes, Typed
<1>2. ShakeTick
  BY <1>1 DEF FieldsMoved, SrcShaken, DstShaken, ClearSnapped, ShakeTick, S, D, asked, Unwritten, Rewritten
<1>3. SrcTick
  <2>1. CASE "src" \in edges
    BY <1>1, <2>1 DEF FieldsMoved, SrcCleared, SrcShaken, ClearSnapped, SrcTick, Unwritten, Rewritten
  <2>2. CASE "src" \notin edges
    <3>1. f.not_full = R.not_full /\ f.s_reset = R.s_reset /\ w = None /\ ~clr
      BY <1>1, <2>2 DEF FieldsMoved, SrcCleared
    <3>2. last'.notFull = last.notFull
      BY <1>1, <3>1 DEF Flags, ClearSnapped
    <3>3. QED
      BY <1>1, <2>2, <3>1, <3>2 DEF FieldsMoved, SrcCleared, ClearSnapped, SrcTick, Unwritten
  <2>3. QED
    BY <2>1, <2>2
<1>4. DstTick
  <2>1. CASE "dst" \in edges
    <3>1. R.not_empty <=> last.notEmpty
      BY <1>1 DEF Flags
    <3>2. QED
      BY <1>1, <2>1, <3>1 DEF FieldsMoved, DstCleared, ClearSnapped, DstTick, Loads, Unwritten, Rewritten
  <2>2. CASE "dst" \notin edges
    <3>1. f.not_empty = R.not_empty /\ f.d_reset = R.d_reset /\ ~deq
      BY <1>1, <2>2 DEF FieldsMoved, DstCleared, ClearActive
    <3>2. last'.notEmpty = last.notEmpty
      BY <1>1, <3>1 DEF Flags, ClearSnapped
    <3>3. QED
      BY <1>1, <2>2, <3>1, <3>2 DEF FieldsMoved, DstCleared, ClearSnapped, DstTick, Loads, Unwritten
  <2>3. QED
    BY <2>1, <2>2
<1>5. QED
  BY <1>2, <1>3, <1>4

(* How far one clock is ahead of the other.                                *)
LeadTick ==
  /\ lead' \in {-1, 0, 1}
  /\ "src" \in edges /\ "dst" \notin edges => lead # 1 /\ lead' = 1
  /\ "src" \notin edges /\ "dst" \notin edges => lead' = lead

LEMMA LeadTicks ==
  ASSUME MaxLead \in {0, 1}, lead \in {-1, 0, 1}, edges \subseteq {"src", "dst"}, Clearing!NewSlice
  PROVE  LeadTick
<1>1. /\ lead' = CASE edges = {"src", "dst"} -> 0
                   [] edges = {"src"} -> IF lead < 0 THEN 1 ELSE lead + 1
                   [] edges = {"dst"} -> IF lead > 0 THEN -1 ELSE lead - 1
                   [] OTHER -> lead
      /\ lead' \in -MaxLead .. MaxLead
  BY DEF Clearing!NewSlice
<1>2. CASE "src" \in edges /\ "dst" \in edges
  <2>1. edges = {"src", "dst"} /\ edges # {"src"} /\ edges # {"dst"}
    <3>1. edges = {"src", "dst"}
      BY <1>2
    <3>2. edges # {"src"} /\ edges # {"dst"}
      BY <1>2
    <3>3. QED
      BY <3>1, <3>2
  <2>2. lead' = 0
    BY <1>1, <2>1
  <2>3. QED
    BY <1>2, <2>2 DEF LeadTick
<1>3. CASE "src" \in edges /\ "dst" \notin edges
  <2>1. edges = {"src"} /\ edges # {"src", "dst"} /\ edges # {"dst"}
    BY <1>3
  <2>2. lead' = IF lead < 0 THEN 1 ELSE lead + 1
    BY <1>1, <2>1
  <2>3. QED
    BY <1>1, <1>3, <2>2 DEF LeadTick
<1>4. CASE "src" \notin edges /\ "dst" \in edges
  <2>1. edges = {"dst"} /\ edges # {"src", "dst"} /\ edges # {"src"}
    BY <1>4
  <2>2. lead' = IF lead > 0 THEN -1 ELSE lead - 1
    BY <1>1, <2>1
  <2>3. QED
    BY <1>1, <1>4, <2>2 DEF LeadTick
<1>5. CASE "src" \notin edges /\ "dst" \notin edges
  <2>1. edges # {"dst"} /\ edges # {"src", "dst"} /\ edges # {"src"}
    BY <1>5
  <2>2. lead' = lead
    BY <1>1, <2>1
  <2>3. QED
    BY <1>5, <2>2 DEF LeadTick
<1>6. QED
  BY <1>2, <1>3, <1>4, <1>5

(* The wave goes on, ...                                                   *)
ShakesTyped ==
  /\ S.dSyncReg1 \in Toggles /\ S.dSyncReg2.value \in Toggles /\ S.dLastState.value \in Toggles /\ asked \in Toggles
  /\ S.sSyncReg1 \in Toggles /\ S.sSyncReg2 \in Toggles /\ S.sRDY \in BOOLEAN /\ clr \in BOOLEAN

LEMMA WaveTicks ==
  ASSUME ShakesTyped, ClearWave, ShakeTick, LeadTick
  PROVE  ClearWave'
<1>1. CASE "src" \in edges /\ S.sRDY /\ clr
  BY <1>1 DEF ShakesTyped, ClearWave, ShakeTick, Toggles
<1>2. CASE "src" \in edges /\ ~(S.sRDY /\ clr) /\ "dst" \in edges
  BY <1>2 DEF ShakesTyped, ClearWave, ShakeTick, Toggles
<1>3. CASE "src" \in edges /\ ~(S.sRDY /\ clr) /\ "dst" \notin edges
  BY <1>3 DEF ShakesTyped, ClearWave, ShakeTick, Toggles, LeadTick
<1>4. CASE "src" \notin edges /\ "dst" \in edges
  BY <1>4 DEF ShakesTyped, ClearWave, ShakeTick, Toggles
<1>5. CASE "src" \notin edges /\ "dst" \notin edges
  BY <1>5 DEF ShakesTyped, ClearWave, ShakeTick, Toggles, LeadTick
<1>6. QED
  BY <1>1, <1>2, <1>3, <1>4, <1>5

(* ... the destination gets ready, ...                                     *)
LEMMA ReadyTicks ==
  ASSUME GetsReady, ShakeTick, DstTick, D.sSyncReg1 \in Toggles, D.sSyncReg2 \in Toggles
  PROVE  GetsReady'
<1>1. CASE "dst" \in edges
  BY <1>1 DEF GetsReady, ShakeTick, DstTick, DstHeld, Toggles
<1>2. CASE "dst" \notin edges
  BY <1>2 DEF GetsReady, ShakeTick, DstTick
<1>3. QED
  BY <1>1, <1>2

(* ... and what is left behind is zero and empty.                          *)
LEMMA ClearedTicks ==
  ASSUME ShakesTyped, ClearWave, GetsReady, ShakeTick, SrcTick, DstTick, ~S.sRDY => Cleared,
         last'.queue = After(last.queue, clr, deq /\ last.queue # <<>>, w),
         ~S.sRDY \/ ~S'.sRDY
  PROVE  Cleared'
<1>1. CASE S.sRDY
  <2>1. "src" \in edges /\ clr
    BY <1>1 DEF ShakeTick, ClearWave
  <2>2. /\ S'.dSyncReg1 # asked' /\ S'.dSyncReg2.value # asked' /\ S'.dLastState.value # asked'
    BY <1>1, <2>1 DEF ShakeTick, ClearWave, ShakesTyped, Toggles
  <2>3. R'.src_hi = 0 /\ ~last'.notFull /\ last'.queue = <<>>
    BY <2>1 DEF SrcTick, After
  <2>4. QED
    BY <2>2, <2>3 DEF Cleared
<1>2. CASE ~S.sRDY
  <2>1. Cleared /\ asked' = asked
    BY <1>2 DEF ShakeTick
  <2>2. R'.src_hi = 0 /\ ~last'.notFull /\ last'.queue = <<>>
    <3>1. CASE "src" \in edges
      BY <1>2, <3>1 DEF ShakeTick, SrcTick, After
    <3>2. CASE "src" \notin edges
      BY <2>1, <3>2 DEF Cleared, SrcTick, After
    <3>3. QED
      BY <3>1, <3>2
  <2>3. /\ S'.dSyncReg1 = asked' => R'.dSyncReg1 = 0
        /\ S'.dSyncReg2.value = asked' => R'.dst_hi = 0
        /\ S'.dLastState.value = asked' => R'.dst_lo = 0 /\ ~last'.notEmpty
    <3>1. CASE "dst" \in edges
      <4>1. R'.dSyncReg1 = 0
        BY <2>1, <3>1 DEF Cleared, DstTick
      <4>2. S.dSyncReg1 = asked => R'.dst_hi = 0
        BY <2>1, <3>1 DEF Cleared, DstTick
      <4>3. ASSUME S.dSyncReg2.value = asked
            PROVE  R'.dst_lo = 0 /\ ~last'.notEmpty
        <5>1. CASE DstHeld
          BY <3>1, <5>1 DEF DstTick
        <5>2. CASE ~DstHeld
          <6>1. S.dLastState.value = asked /\ R.dst_hi = 0 /\ R.dst_lo = 0 /\ ~last.notEmpty
            BY <2>1, <4>3, <5>2 DEF DstHeld, Cleared
          <6>2. QED
            BY <3>1, <5>2, <6>1 DEF DstTick, Fetches
        <5>3. QED
          BY <5>1, <5>2
      <4>4. QED
        BY <2>1, <3>1, <4>1, <4>2, <4>3 DEF ShakeTick
    <3>2. CASE "dst" \notin edges
      BY <2>1, <3>2 DEF ShakeTick, Cleared, DstTick
    <3>3. QED
      BY <3>1, <3>2
  <2>4. QED
    BY <2>2, <2>3 DEF Cleared
<1>3. QED
  BY <1>1, <1>2

(* Once ready the queue is empty, with every pointer that matters zero.    *)
RegsTyped ==
  /\ R.src_hi \in Positions /\ R.dSyncReg1 \in Positions /\ R.dst_hi \in Positions /\ R.dst_lo \in Positions
  /\ R.sSyncReg1 \in Positions /\ R.src_lo \in Positions
  /\ R.data \in Memory /\ R.dDoutReg \in Elements /\ last.notEmpty \in BOOLEAN /\ last.notFull \in BOOLEAN
  /\ w \in Elements /\ deq \in BOOLEAN /\ clr \in BOOLEAN

LEMMA BecomesReady ==
  ASSUME ClearWave', Cleared', S'.sRDY, R'.data \in Memory, R'.dDoutReg \in Elements, last'.notEmpty \in BOOLEAN
  PROVE  Reordered' /\ Holds'
<1>1. /\ R'.src_hi = 0 /\ R'.dSyncReg1 = 0 /\ R'.dst_hi = 0 /\ R'.dst_lo = 0 /\ ~last'.notEmpty
      /\ ~last'.notFull /\ last'.queue = <<>>
  BY DEF ClearWave, Cleared
<1>2. last'.notEmpty = FALSE
  BY <1>1
<1>3. Reordered'
  BY <1>1 DEF Reordered
<1>4. ContentsOf(R'.data, R'.src_hi, R'.dst_lo, last'.notEmpty, R'.dDoutReg) = <<>>
  BY <1>1, <1>2, ContentsNone
<1>5. Holds'
  BY <1>1, <1>4 DEF Holds
<1>6. QED
  BY <1>3, <1>5

(* While it stays ready no clear is under way: the source copies the       *)
(* pointer of the dequeues, the destination that of the enqueues, and it   *)
(* is held at zero only where it already is.                               *)
Undisturbed ==
  /\ ~clr
  /\ "src" \in edges => R'.sSyncReg1 = R.dst_lo
  /\ "dst" \in edges => R'.dSyncReg1 = R.src_hi
  /\ R'.dst_lo = IF Loads THEN Succ(R.dst_lo) ELSE R.dst_lo
  /\ last'.notEmpty <=> Loads \/ (last.notEmpty /\ ~deq)

LEMMA ReadyUndisturbed ==
  ASSUME ClearWave, GetsReady, ShakeTick, SrcTick, DstTick, RegsTyped, S.sRDY, S'.sRDY
  PROVE  Undisturbed
<1>1. ~clr
  BY DEF ShakeTick
<1>2. DstHeld => R.dst_lo = 0 /\ ~last.notEmpty
  BY DEF DstHeld, ClearWave, GetsReady
<1>3. CASE DstHeld
  BY <1>1, <1>2, <1>3 DEF SrcTick, DstTick, Loads, Undisturbed
<1>4. CASE ~DstHeld
  BY <1>1, <1>4 DEF SrcTick, DstTick, Loads, Undisturbed, Fetches
<1>5. QED
  BY <1>3, <1>4

(* The order of the pointers.                                              *)
Roomy ==
  /\ Behind(R.src_hi, R.dst_lo) <= Depth /\ R'.dst_lo \in Positions
  /\ Loads => Behind(R.src_hi, R.dst_lo) # 0
  /\ w # None => Behind(R.src_hi, R'.dst_lo) < Depth

LEMMA OrderTicks ==
  ASSUME RegsTyped, Undisturbed, SrcTick, DstTick,
         Ordered(R.src_hi, R.dSyncReg1, R.dst_hi, R.dst_lo, R.sSyncReg1, R.src_lo),
         last.notFull => Behind(R.src_hi, R.src_lo) < Depth
  PROVE  Reordered' /\ Roomy
<1> DEFINE e == R.src_hi  a1 == R.dSyncReg1  a2 == R.dst_hi  d == R.dst_lo  b1 == R.sSyncReg1  b2 == R.src_lo
           e1 == R'.src_hi  x1 == R'.dSyncReg1  x2 == R'.dst_hi  d1 == R'.dst_lo  y1 == R'.sSyncReg1  y2 == R'.src_lo
           fetch == "dst" \in edges /\ ~DstHeld /\ Fetches
           enq == w # None
<1>1. /\ e \in Positions /\ a1 \in Positions /\ a2 \in Positions /\ d \in Positions /\ b1 \in Positions
      /\ b2 \in Positions /\ enq \in BOOLEAN /\ fetch \in BOOLEAN
      /\ Ordered(e, a1, a2, d, b1, b2)
      /\ (last.notFull => Behind(e, b2) < Depth) /\ last.notFull \in BOOLEAN /\ (enq => last.notFull)
  BY DEF RegsTyped, SrcTick
<1>2. /\ d1 = IF fetch THEN Succ(d) ELSE d
      /\ fetch => a2 # d
      /\ e1 = IF enq THEN Succ(e) ELSE e
  BY DEF Undisturbed, SrcTick, Loads, Fetches
<1>3. /\ "dst" \in edges => x1 = e /\ x2 = a1
      /\ "dst" \notin edges => x1 = a1 /\ x2 = a2 /\ ~fetch
  BY DEF Undisturbed, DstTick
<1>4. /\ "src" \in edges => y1 = d /\ y2 = b1 /\ (last'.notFull => Opposite(e1) # b2)
      /\ "src" \notin edges => y1 = b1 /\ y2 = b2 /\ ~enq /\ last'.notFull = last.notFull
  BY DEF Undisturbed, SrcTick
<1>5. Loads <=> fetch
  BY DEF Loads
<1> HIDE DEF fetch, enq, e, a1, a2, d, b1, b2, e1, x1, x2, d1, y1, y2
<1>6. /\ d1 \in Positions /\ x1 \in Positions /\ x2 \in Positions
      /\ Ordered(e, x1, x2, d1, b1, b2)
      /\ Behind(e, d1) = IF fetch THEN Behind(e, d) - 1 ELSE Behind(e, d)
  <2>1. CASE "dst" \in edges
    BY <1>1, <1>2, <1>3, <2>1, DstPart
  <2>2. CASE "dst" \notin edges
    BY <1>1, <1>2, <1>3, <2>2
  <2>3. QED
    BY <2>1, <2>2
<1>7. /\ Behind(e, d1) <= Behind(e, d) /\ Behind(e, d) <= Behind(e, b1) /\ Behind(e, b1) <= Behind(e, b2)
      /\ Behind(e, b2) <= Depth /\ Behind(e, d) \in Nat /\ Behind(e, d1) \in Nat
      /\ Behind(e, b1) \in Nat /\ Behind(e, b2) \in Nat
  BY <1>1, <1>6, BehindNat DEF Ordered
<1>8. /\ e1 \in Positions /\ Ordered(e1, x1, x2, d1, y1, y2)
      /\ last'.notFull => Behind(e1, y2) < Depth
  <2>1. CASE "src" \in edges
    <3>1. CASE enq
      <4>1. e1 = Succ(e) /\ Behind(e, b2) < Depth
        BY <1>1, <1>2, <3>1
      <4>2. MayEnqueue(e, x1, x2, d1, b1, b2, d)
        BY <1>6, <1>7, <4>1 DEF MayEnqueue
      <4>3. Ordered(e1, x1, x2, d1, d, b1) /\ (b2 # Opposite(e1) => Behind(e1, b1) < Depth)
        BY <1>1, <1>6, <4>1, <4>2, OrderedEnq
      <4>4. e1 \in Positions
        BY <1>1, <4>1, PositionTypes
      <4>5. QED
        BY <1>4, <2>1, <4>3, <4>4
    <3>2. CASE ~enq
      <4>1. e1 = e
        BY <1>2, <3>2
      <4>2. Ordered(e, x1, x2, d1, d, b1) /\ (b2 # Opposite(e) => Behind(e, b1) < Depth)
        BY <1>1, <1>6, <1>7, OrderedIdle
      <4>3. QED
        BY <1>1, <1>4, <2>1, <4>1, <4>2
    <3>3. QED
      BY <3>1, <3>2
  <2>2. CASE "src" \notin edges
    <3>1. e1 = e /\ y1 = b1 /\ y2 = b2 /\ last'.notFull = last.notFull
      BY <1>2, <1>4, <2>2
    <3>2. QED
      BY <1>1, <1>6, <3>1
  <2>3. QED
    BY <2>1, <2>2
<1>9. fetch => Behind(e, d) # 0
  BY <1>6, <1>7
<1>10. Behind(e, d) <= Depth /\ (enq => Behind(e, d1) < Depth)
  BY <1>1, <1>7, DepthAssumption
<1>11. Reordered'
  BY <1>8 DEF Reordered, e1, x1, x2, d1, y1, y2, R
<1>12. Roomy
  BY <1>5, <1>6, <1>9, <1>10 DEF Roomy, e, d, d1, enq
<1>13. QED
  BY <1>11, <1>12

LEMMA ReorderTicks ==
  ASSUME Depth # 1, RegsTyped, Undisturbed, SrcTick, DstTick,
         R.src_hi = 0, R.dSyncReg1 = 0, R.dst_hi = 0, R.dst_lo = 0, ~last.notEmpty,
         R.sSyncReg1 = 0 \/ ~last.notFull
  PROVE  Reordered' /\ Roomy
<1>1. /\ ~Loads /\ R'.dst_lo = 0 /\ R'.dSyncReg1 = 0 /\ R'.dst_hi = 0 /\ ~last'.notEmpty
  BY DEF Loads, Fetches, Undisturbed, DstTick
<1>2. Behind(0, 0) = 0 /\ Behind(1, 0) = 1 /\ 1 < Depth /\ 0 < Depth /\ Succ(0) = 1
  BY DepthAssumption, PositionTypes DEF Behind
<1>3. R'.src_hi = IF w # None THEN 1 ELSE 0
  BY <1>2 DEF SrcTick, Undisturbed
<1>4. Roomy
  BY <1>1, <1>2, PositionTypes, DepthAssumption DEF Roomy
<1>5. Reordered'
  <2>1. CASE "src" \in edges /\ R.sSyncReg1 = 0
    <3>1. R'.sSyncReg1 = 0 /\ R'.src_lo = 0
      BY <2>1 DEF SrcTick, Undisturbed
    <3>2. Ordered(0, 0, 0, 0, 0, 0) /\ Ordered(1, 0, 0, 0, 0, 0)
      BY <1>2, DepthAssumption DEF Ordered
    <3>3. /\ Ordered(R'.src_hi, R'.dSyncReg1, R'.dst_hi, R'.dst_lo, R'.sSyncReg1, R'.src_lo)
          /\ Behind(R'.src_hi, R'.src_lo) < Depth
      BY <1>1, <1>2, <1>3, <3>1, <3>2
    <3>4. QED
      BY <3>3 DEF Reordered, R
  <2>2. CASE "src" \in edges /\ R.sSyncReg1 # 0
    <3>1. w = None /\ R'.src_hi = 0
      BY <1>3, <2>2 DEF SrcTick
    <3>2. R'.sSyncReg1 = 0
      BY <2>2 DEF Undisturbed
    <3>3. QED
      BY <1>1, <3>1, <3>2 DEF Reordered, R
  <2>3. CASE "src" \notin edges
    <3>1. w = None /\ R'.src_hi = 0 /\ R'.sSyncReg1 = R.sSyncReg1 /\ last'.notFull = last.notFull
      BY <1>3, <2>3 DEF SrcTick
    <3>2. QED
      BY <1>1, <3>1 DEF Reordered, R
  <2>4. QED
    BY <2>1, <2>2, <2>3
<1>6. QED
  BY <1>4, <1>5

(* The contents and the queue.                                             *)
LEMMA HoldsTicks ==
  ASSUME RegsTyped, Undisturbed, SrcTick, DstTick, Roomy, Holds, R.not_empty <=> last.notEmpty,
         last'.queue = After(last.queue, clr, deq /\ last.queue # <<>>, w)
  PROVE  Holds'
<1> DEFINE e == R.src_hi  d == R.dst_lo  h == last.notEmpty  out == R.dDoutReg  mem == R.data
           d1 == R'.dst_lo  h1 == last'.notEmpty  out1 == R'.dDoutReg
           fetch == Loads
           c == ContentsOf(mem, e, d, h, out)
           c1 == ContentsOf(mem, e, d1, h1, out1)
<1>1. /\ e \in Positions /\ d \in Positions /\ h \in BOOLEAN /\ out \in Elements /\ mem \in Memory /\ deq \in BOOLEAN
      /\ fetch \in BOOLEAN /\ Behind(e, d) <= Depth /\ (fetch => Behind(e, d) # 0) /\ d1 \in Positions
      /\ h1 \in BOOLEAN
  BY DEF RegsTyped, Roomy, Loads, DstTick, Fetches
<1>2. HeadMoved(mem, d, h, out, deq, fetch, d1, h1, out1)
  <2>1. /\ deq => h
        /\ fetch => ~h \/ deq
    BY <1>1 DEF DstTick, Loads, Fetches, RegsTyped, Undisturbed
  <2>2. h1 <=> fetch \/ (h /\ ~deq)
    BY DEF Undisturbed
  <2>3. h1 = (fetch \/ (h /\ ~deq))
    BY <1>1, <2>2
  <2>4. d1 = (IF fetch THEN Succ(d) ELSE d) /\ out1 = IF fetch THEN mem[Addr(d)] ELSE out
    BY DEF Undisturbed, DstTick
  <2>5. QED
    BY <2>1, <2>3, <2>4 DEF HeadMoved
<1>3. c = last.queue
  BY DEF Holds
<1>4. out1 \in Elements
  <2>1. mem[Addr(d)] \in Elements
    BY <1>1, PositionTypes DEF Memory
  <2>2. QED
    BY <1>1, <1>2, <2>1 DEF HeadMoved
<1> HIDE DEF e, d, h, out, mem, d1, h1, out1, fetch, c, c1
<1>5. IF deq THEN c # <<>> /\ c1 = Tail(c) ELSE c1 = c
  <2>1. MovedContents(mem, e, d, h, out, deq, d1, h1, out1)
    BY <1>1, <1>2, ContentsMoved
  <2>2. QED
    BY <2>1 DEF MovedContents, c, c1
<1>6. last'.queue = IF w = None THEN c1 ELSE Append(c1, w)
  BY <1>3, <1>5 DEF After, Undisturbed
<1>7. CASE w = None
  <2>1. R'.src_hi = e /\ R'.data = mem
    BY <1>7 DEF SrcTick, Undisturbed, e, mem
  <2>2. ContentsOf(R'.data, R'.src_hi, d1, h1, out1) = c1
    BY <2>1 DEF c1
  <2>3. QED
    BY <1>6, <1>7, <2>2 DEF Holds, d1, h1, out1, R
<1>8. CASE w # None
  <2> DEFINE mem1 == R'.data  e1 == R'.src_hi
  <2>1. /\ e1 = Succ(e) /\ Written(mem1, mem, Addr(e), w) /\ w \in Data /\ Behind(e, d1) < Depth
    BY <1>8 DEF SrcTick, Undisturbed, RegsTyped, Elements, Roomy, Written, e, mem, d1
  <2> HIDE DEF mem1, e1
  <2>2. ContentsOf(mem1, e1, d1, h1, out1) = Append(c1, w)
    BY <1>1, <1>4, <2>1, ContentsEnq DEF c1
  <2>3. QED
    BY <1>6, <1>8, <2>2 DEF Holds, d1, h1, out1, mem1, e1, R
<1>9. QED
  BY <1>7, <1>8

(* A slice out of reset.                                                   *)
LEMMA ActiveServes ==
  ASSUME Depth # 1, MaxLead \in {0, 1}, ClearInv, ClearActive, ClearSnapped, Clearing!NewSlice
  PROVE  InService' /\ last'.queue \in Seq(Data)
<1>1. /\ RegsTyped /\ ShakesTyped /\ InService /\ last.queue \in Seq(Data) /\ (R.not_empty <=> last.notEmpty)
      /\ D.sSyncReg1 \in Toggles /\ D.sSyncReg2 \in Toggles
      /\ lead \in {-1, 0, 1} /\ edges \subseteq {"src", "dst"}
  <2>1. ~R.in_reset /\ InService /\ ClearTypes /\ Flags
    BY DEF ClearInv, ClearActive
  <2>2. RegsTyped
    BY <2>1 DEF ClearTypes, Typed, RegsTyped
  <2>3. ShakesTyped /\ D.sSyncReg1 \in Toggles /\ D.sSyncReg2 \in Toggles
    BY <2>1 DEF ClearTypes, ShakesTyped, ShakeTyped, S, D, asked, VarOf
  <2>4. QED
    BY <2>1, <2>2, <2>3 DEF ClearTypes, Flags
<1>2. ShakeTick /\ SrcTick /\ DstTick /\ LeadTick
  BY <1>1, ClearTicks, LeadTicks
<1>3. last'.queue = After(last.queue, clr, deq /\ last.queue # <<>>, w)
  BY DEF ClearActive, ClearSnapped
<1>4. last'.queue \in Seq(Data)
  <2>1. deq /\ last.queue # <<>> => Tail(last.queue) \in Seq(Data)
    BY <1>1
  <2>2. w # None => w \in Data
    BY <1>1 DEF RegsTyped, Elements
  <2>3. QED
    BY <1>1, <1>3, <2>1, <2>2 DEF After
<1>5. ClearWave'
  BY <1>1, <1>2, WaveTicks DEF InService
<1>6. GetsReady'
  BY <1>1, <1>2, ReadyTicks DEF InService
<1>7. ~S.sRDY \/ ~S'.sRDY => Cleared'
  BY <1>1, <1>2, <1>3, ClearedTicks DEF InService
<1>8. CASE ~S'.sRDY
  BY <1>4, <1>5, <1>6, <1>7, <1>8 DEF InService, S, R
<1>9. CASE S'.sRDY
  <2>1. CASE ~S.sRDY
    <3>1. R'.data \in Memory /\ R'.dDoutReg \in Elements /\ last'.notEmpty \in BOOLEAN
      BY DEF ClearSnapped, ClearInv, ClearTypes, Typed
    <3>2. Reordered' /\ Holds'
      BY <1>5, <1>7, <1>9, <2>1, <3>1, BecomesReady
    <3>3. QED
      BY <1>4, <1>5, <1>6, <1>9, <3>2 DEF InService, S, R
  <2>2. CASE S.sRDY
    <3>1. Reordered /\ Holds
      BY <1>1, <2>2 DEF InService
    <3>2. Undisturbed
      BY <1>1, <1>2, <1>9, <2>2, ReadyUndisturbed DEF InService
    <3>3. Reordered' /\ Roomy
      BY <1>1, <1>2, <3>1, <3>2, OrderTicks, ReorderTicks DEF Reordered
    <3>4. Holds'
      BY <1>1, <1>2, <1>3, <3>1, <3>2, <3>3, HoldsTicks
    <3>5. QED
      BY <1>4, <1>5, <1>6, <1>9, <3>3, <3>4 DEF InService, S, R
  <2>3. QED
    BY <2>1, <2>2
<1>10. QED
  BY <1>4, <1>8, <1>9

(* The slice after a reset.                                                *)
LEMMA ReleasedServes ==
  ASSUME ClearInv, settled, ~f.in_reset, ClearSnapped
  PROVE  InService' /\ last'.queue = <<>>
<1>1. /\ FieldsRest /\ R.in_reset /\ last.queue = <<>> /\ clr = FALSE /\ ~deq /\ w = None
  <2>1. FieldsRest /\ R.in_reset /\ ~clr /\ clr \in BOOLEAN
    BY DEF ClearInv, ClearTypes, Typed, FieldsRest
  <2>2. QED
    BY <2>1 DEF ClearInv, FieldsRest, NoCalls
<1>2. last'.queue = <<>>
  BY <1>1 DEF ClearSnapped, After
<1>3. /\ R'.src_hi = 0 /\ R'.dst_lo = 0 /\ R'.dSyncReg1 = 0 /\ R'.dst_hi = 0 /\ ~last'.notFull /\ ~last'.notEmpty
  BY <1>1 DEF ClearSnapped, FieldsRest, FieldsAtReset, AtReset, Still
<1>4. /\ S'.dSyncReg1 = 0 /\ S'.dSyncReg2.value = 0 /\ S'.dLastState.value = 0 /\ asked' = 0
      /\ S'.sSyncReg1 = 1 /\ S'.sSyncReg2 = 1 /\ ~S'.sRDY
      /\ D'.sSyncReg1 = 1 /\ D'.sSyncReg2 = 1 /\ ~D'.sRDY
  BY <1>1 DEF ClearSnapped, FieldsRest, ShakeAtReset, AtRest, Still, S, D, asked
<1>5. ClearWave' /\ GetsReady' /\ Cleared'
  BY <1>2, <1>3, <1>4 DEF ClearWave, GetsReady, Cleared
<1>6. QED
  BY <1>2, <1>4, <1>5 DEF InService, S, R

(* What the end of any slice leaves of the history.                        *)
SettledWell ==
  /\ ClearSnapped /\ last'.queue \in Seq(Data) /\ Typed(R)'
  /\ R'.src_hi \in Positions /\ R'.dst_lo \in Positions
  /\ ShakeTyped(R'.sClrSync) /\ ShakeTyped(R'.dClrSync) /\ lead' \in {-1, 0, 1}
  /\ f.in_reset => last'.queue = <<>> /\ R'.s_reset /\ R'.d_reset
  /\ ~f.in_reset => InService'
  /\ ~f.did_enq /\ ~f.did_deq /\ ~f.did_sclear /\ ~f.sClrSync.en

LEMMA SettlesWell ==
  ASSUME Depth # 1, MaxLead \in {0, 1}, ClearInv, Clearing!SliceComplete, last' = Clearing!Settled, Clearing!NewSlice
  PROVE  SettledWell
<1>1. ClearSnapped /\ ClearTypes
  BY ClearSettles DEF ClearInv
<1>2. /\ Typed(R)' /\ R'.src_hi \in Positions /\ R'.dst_lo \in Positions
      /\ ShakeTyped(R'.sClrSync) /\ ShakeTyped(R'.dClrSync)
  <2>1. Typed(f) /\ f.src_hi.value \in Positions /\ f.dst_lo.value \in Positions
    BY <1>1 DEF ClearTypes, VarOf
  <2>2. Typed(R)'
    BY <1>1, <2>1 DEF ClearSnapped, Typed, R
  <2>3. QED
    BY <1>1, <2>1, <2>2 DEF ClearSnapped, ClearTypes
<1>3. lead' \in {-1, 0, 1}
  BY <1>1, LeadTicks DEF ClearTypes, LeadTick
<1>4. <<>> \in Seq(Data)
  OBVIOUS
<1>5. CASE f.in_reset
  <2>1. FieldsRest
    BY <1>5 DEF ClearInv, FieldsRest
  <2>2. last'.queue = <<>> /\ R'.s_reset /\ R'.d_reset
    BY <1>1, <1>5, <2>1 DEF ClearSnapped, FieldsRest, FieldsAtReset, AtReset
  <2>3. ~f.did_enq /\ ~f.did_deq /\ ~f.did_sclear /\ ~f.sClrSync.en
    BY <2>1 DEF FieldsRest, FieldsAtReset, ShakeAtReset, AtRest
  <2>4. QED
    BY <1>1, <1>2, <1>3, <1>4, <1>5, <2>2, <2>3 DEF SettledWell
<1>6. CASE ~f.in_reset /\ settled
  <2>1. FieldsRest
    BY <1>6 DEF ClearInv, FieldsRest
  <2>2. InService' /\ last'.queue = <<>>
    BY <1>1, <1>6, ReleasedServes
  <2>3. ~f.did_enq /\ ~f.did_deq /\ ~f.did_sclear /\ ~f.sClrSync.en
    BY <2>1 DEF FieldsRest, FieldsAtReset, ShakeAtReset, AtRest
  <2>4. QED
    BY <1>1, <1>2, <1>3, <1>4, <1>6, <2>2, <2>3 DEF SettledWell
<1>7. CASE ~f.in_reset /\ ~settled
  <2>1. FieldsMoved /\ f.did_dclear = FALSE /\ f.did_sclear \in BOOLEAN /\ clr \in BOOLEAN
    BY <1>1, <1>7 DEF ClearInv, FieldsMoved, ClearTypes
  <2>2. ClearActive
    BY <1>7, <2>1 DEF ClearActive, Clearing!SliceComplete
  <2>3. InService' /\ last'.queue \in Seq(Data)
    BY <1>1, <2>2, ActiveServes
  <2>4. ~f.did_enq /\ ~f.did_deq
    BY <2>1, <2>2 DEF FieldsMoved, SrcCleared, DstCleared, ClearActive
  <2>5. ~f.did_sclear /\ ~f.sClrSync.en
    BY <2>1, <2>2 DEF FieldsMoved, SrcShaken, ClearActive
  <2>6. QED
    BY <1>1, <1>2, <1>3, <1>7, <2>3, <2>4, <2>5 DEF SettledWell
<1>8. QED
  BY <1>5, <1>6, <1>7

(* A new slice begins with the registers of the old.                       *)
LEMMA NextSliceClears ==
  ASSUME Depth # 1, MaxLead \in {0, 1}, ClearInv, Clearing!NextSlice
  PROVE  ClearInv'
<1> DEFINE hi == Clearing!H!Later(f.src_hi)  lo == Clearing!H!Later(f.dst_lo)
           sc == Clearing!H!LaterHandshake(f.sClrSync)  dc == Clearing!H!LaterHandshake(f.dClrSync)
<1>1. /\ Clearing!SliceComplete /\ last' = Clearing!Settled /\ settled' = FALSE /\ edges' = {} /\ w' = None
      /\ deq' = FALSE /\ clr' = FALSE /\ Clearing!NewSlice
      /\ f' = [f EXCEPT !.src_hi = hi, !.dst_lo = lo, !.sClrSync = sc, !.dClrSync = dc]
  BY DEF Clearing!NextSlice, Clearing!NewSlice
<1>2. /\ DOMAIN f = FieldNames /\ Typed(f) /\ f.did_enq \in BOOLEAN /\ f.did_deq \in BOOLEAN
      /\ f.did_sclear \in BOOLEAN /\ f.did_dclear = FALSE
      /\ f.src_hi \in VarOf(Positions) /\ f.dst_lo \in VarOf(Positions) /\ f.in_reset \in BOOLEAN
      /\ ShakeTyped(f.sClrSync) /\ ShakeTyped(f.dClrSync) /\ AtRest(f.dClrSync)
      /\ f.sClrSync.in_reset = f.in_reset /\ f.dClrSync.in_reset = f.in_reset
  BY DEF ClearInv, ClearTypes, Typed
<1>3. /\ hi = [value |-> f.src_hi.value, prev_value |-> f.src_hi.prev_value, written_at |-> FALSE]
      /\ lo = [value |-> f.dst_lo.value, prev_value |-> f.dst_lo.prev_value, written_at |-> FALSE]
  <2>1. ASSUME NEW x \in VarOf(Positions), NEW y, y = Clearing!H!Later(x)
        PROVE  y = [value |-> x.value, prev_value |-> x.prev_value, written_at |-> FALSE]
    BY <2>1 DEF Clearing!H!Later, VarOf
  <2>2. QED
    BY <1>2, <2>1
<1>4. Aged(f.sClrSync, sc) /\ Aged(f.dClrSync, dc)
  <2>1. Aged(f.sClrSync, sc)
    BY <1>2, ShakeLater
  <2>2. Aged(f.dClrSync, dc)
    BY <1>2, ShakeLater
  <2>3. QED
    BY <2>1, <2>2
<1> HIDE DEF hi, lo, sc, dc
<1>5. f'.src_hi = hi /\ f'.dst_lo = lo /\ f'.sClrSync = sc /\ f'.dClrSync = dc
        /\ Kept({"src_hi", "dst_lo", "sClrSync", "dClrSync"})
  BY <1>1, <1>2 DEF FieldNames, Kept
<1>6. /\ f'.data = f.data /\ f'.dDoutReg = f.dDoutReg /\ f'.src_lo = f.src_lo /\ f'.dst_hi = f.dst_hi
      /\ f'.dSyncReg1 = f.dSyncReg1 /\ f'.sSyncReg1 = f.sSyncReg1 /\ f'.src_hi_plus_1 = f.src_hi_plus_1
      /\ f'.dst_lo_plus_1 = f.dst_lo_plus_1 /\ f'.not_empty = f.not_empty /\ f'.not_full = f.not_full
      /\ f'.in_reset = f.in_reset /\ f'.s_reset = f.s_reset /\ f'.d_reset = f.d_reset
      /\ f'.did_enq = f.did_enq /\ f'.did_deq = f.did_deq /\ DOMAIN f' = FieldNames
      /\ f'.did_sclear = f.did_sclear /\ f'.did_dclear = f.did_dclear
  BY <1>5 DEF Kept, FieldNames
<1>7. SettledWell
  BY <1>1, SettlesWell
<1>8. /\ ClearSnapped /\ last'.queue \in Seq(Data) /\ Typed(R)'
      /\ R'.src_hi \in Positions /\ R'.dst_lo \in Positions
      /\ ShakeTyped(R'.sClrSync) /\ ShakeTyped(R'.dClrSync) /\ lead' \in {-1, 0, 1}
      /\ f.in_reset => last'.queue = <<>> /\ R'.s_reset /\ R'.d_reset
      /\ ~f.in_reset => InService'
      /\ ~f.did_enq /\ ~f.did_deq /\ ~f.did_sclear /\ ~f.sClrSync.en
  BY <1>7 DEF SettledWell
<1>9. /\ ShakeTyped(f'.sClrSync) /\ ShakeTyped(f'.dClrSync) /\ AtRest(f'.dClrSync)
      /\ f'.sClrSync.in_reset = f.in_reset /\ f'.dClrSync.in_reset = f.in_reset
  BY <1>2, <1>4, <1>5 DEF Aged, AtRest, Still
<1>10. ClearTypes'
  <2>1. hi \in VarOf(Positions) /\ lo \in VarOf(Positions)
    BY <1>2, <1>3 DEF VarOf
  <2>2. Typed(f)'
    BY <1>2, <1>6 DEF Typed
  <2>3. last'.notFull \in BOOLEAN /\ last'.notEmpty \in BOOLEAN
    BY <1>8 DEF ClearSnapped
  <2>4. QED
    BY <1>1, <1>2, <1>5, <1>6, <1>8, <1>9, <2>1, <2>2, <2>3 DEF ClearTypes, R, Elements
<1>11. f'.src_hi.value = f.src_hi.value /\ f'.dst_lo.value = f.dst_lo.value /\ ~f'.src_hi.written_at /\ ~f'.dst_lo.written_at
  BY <1>3, <1>5
<1>12. Flags'
  BY <1>6, <1>8, <1>11 DEF Flags, ClearSnapped, R, ClearInv
<1>13. f'.in_reset = R'.in_reset /\ f'.data = R'.data /\ f'.dDoutReg = R'.dDoutReg
  BY <1>6, <1>8 DEF ClearSnapped
<1>14. /\ R'.in_reset => last'.queue = <<>> /\ R'.s_reset /\ R'.d_reset
       /\ ~R'.in_reset => InService'
  BY <1>6, <1>8, <1>13
<1>15. f'.in_reset => FieldsRest'
  <2>1. SUFFICES ASSUME f.in_reset PROVE FieldsRest'
    BY <1>6
  <2>2. FieldsRest
    BY <2>1 DEF ClearInv, FieldsRest
  <2>3. FieldsAtReset'
    BY <1>3, <1>5, <1>6, <2>2 DEF FieldsRest, FieldsAtReset, AtReset, Still
  <2>4. ShakeAtReset(f'.sClrSync) /\ ShakeAtReset(f'.dClrSync)
    BY <1>4, <1>5, <2>2 DEF FieldsRest, ShakeAtReset, AtRest, Still, Aged
  <2>5. QED
    BY <1>1, <1>6, <1>8, <1>13, <2>3, <2>4 DEF FieldsRest, NoCalls, R
<1>16. ~f'.in_reset => FieldsMoved'
  <2>1. /\ f'.did_enq = FALSE /\ f'.did_deq = FALSE /\ f'.did_sclear = FALSE /\ f'.sClrSync.en = FALSE
    BY <1>2, <1>4, <1>5, <1>6, <1>8 DEF Aged, ShakeTyped
  <2>2. SrcCleared'
    BY <1>1, <1>2, <1>6, <1>8, <1>11, <2>1 DEF SrcCleared, ClearSnapped, R, Unwritten
  <2>3. DstCleared'
    <3>1. /\ edges' = {} /\ deq' = FALSE /\ f'.did_deq = FALSE /\ f'.d_reset = R'.d_reset
          /\ f'.not_empty = R'.not_empty /\ f'.dDoutReg = R'.dDoutReg /\ f'.dst_hi = R'.dst_hi
          /\ f'.dSyncReg1 = R'.dSyncReg1 /\ Unwritten(f'.dst_lo, R'.dst_lo)
      BY <1>1, <1>6, <1>8, <1>11, <2>1 DEF ClearSnapped, Unwritten
    <3>2. QED
      BY <3>1 DEF DstCleared
  <2>4. SrcShaken'
    <3>1. /\ edges' = {} /\ clr' = FALSE /\ f'.did_sclear = FALSE /\ f'.sClrSync.en = FALSE
          /\ f'.sClrSync.sSyncReg1 = S'.sSyncReg1 /\ f'.sClrSync.sSyncReg2 = S'.sSyncReg2
          /\ f'.sClrSync.sRDY = S'.sRDY
      BY <1>1, <1>4, <1>5, <1>8, <2>1 DEF ClearSnapped, S, Aged
    <3>2. Unwritten(f'.sClrSync.sToggleReg, asked')
      BY <1>4, <1>5, <1>8 DEF ClearSnapped, S, asked, Aged, Unwritten
    <3>3. QED
      BY <3>1, <3>2 DEF SrcShaken
  <2>5. DstShaken'
    BY <1>1, <1>4, <1>5, <1>8, <2>1 DEF DstShaken, ClearSnapped, R, S, D, Unwritten, Aged
  <2>6. QED
    BY <2>2, <2>3, <2>4, <2>5 DEF FieldsMoved
<1>17. QED
  BY <1>1, <1>9, <1>10, <1>12, <1>13, <1>14, <1>15, <1>16 DEF ClearInv, FieldsRest, FieldsMoved, R

(* A reset that begins or ends when a slice has come to its end.           *)
LEMMA ResetClears ==
  ASSUME Depth # 1, MaxLead \in {0, 1}, ClearInv, NEW asserted \in BOOLEAN, Clearing!reset_sRST(asserted)
  PROVE  ClearInv'
<1>1. /\ ~settled /\ Clearing!SliceComplete /\ settled' = TRUE /\ f.in_reset # asserted
      /\ asserted \/ ~f.not_empty
      /\ f' = IF asserted THEN Clearing!AssertedFields
              ELSE [f EXCEPT !.in_reset = FALSE, !.sClrSync = Clearing!H!reset_sRST(@, FALSE, 0),
                             !.dClrSync = Clearing!H!reset_sRST(@, FALSE, 0)]
      /\ last' = Clearing!Settled /\ Clearing!NewSlice /\ edges' = {} /\ w' = None /\ deq' = FALSE /\ clr' = FALSE
  BY DEF Clearing!reset_sRST, Clearing!NewSlice
<1>2. /\ DOMAIN f = FieldNames /\ Typed(f) /\ f.src_hi \in VarOf(Positions) /\ f.dst_lo \in VarOf(Positions)
      /\ f.in_reset \in BOOLEAN /\ f.did_enq \in BOOLEAN /\ f.did_deq \in BOOLEAN
      /\ f.did_sclear \in BOOLEAN /\ f.did_dclear = FALSE
      /\ ShakeTyped(f.sClrSync) /\ ShakeTyped(f.dClrSync)
      /\ f.in_reset = R.in_reset
  BY <1>1 DEF ClearInv, ClearTypes, Typed
<1>3. SettledWell
  BY <1>1, SettlesWell
<1>4. /\ ClearSnapped /\ last'.queue \in Seq(Data) /\ Typed(R)'
      /\ R'.src_hi \in Positions /\ R'.dst_lo \in Positions
      /\ ShakeTyped(R'.sClrSync) /\ ShakeTyped(R'.dClrSync) /\ lead' \in {-1, 0, 1}
      /\ f.in_reset => last'.queue = <<>> /\ R'.s_reset /\ R'.d_reset
      /\ ~f.in_reset => InService'
  BY <1>3 DEF SettledWell
<1>5. /\ DOMAIN f' = FieldNames /\ f'.data = f.data /\ f'.dDoutReg = f.dDoutReg
      /\ f'.not_empty = f.not_empty /\ f'.not_full = f.not_full /\ f'.in_reset = asserted
      /\ f'.src_hi_plus_1 = Succ(f'.src_hi.value) /\ f'.dst_lo_plus_1 = Succ(f'.dst_lo.value)
      /\ f'.src_hi \in VarOf(Positions) /\ f'.dst_lo \in VarOf(Positions)
      /\ f'.did_enq = FALSE /\ f'.did_deq = FALSE /\ f'.s_reset = TRUE /\ f'.d_reset = TRUE
      /\ f'.did_sclear = FALSE /\ f'.did_dclear = FALSE
      /\ FieldsAtReset'
      /\ ShakeTyped(f'.sClrSync) /\ ShakeTyped(f'.dClrSync)
      /\ f'.sClrSync.in_reset = asserted /\ f'.dClrSync.in_reset = asserted
      /\ ShakeAtReset(f'.sClrSync) /\ ShakeAtReset(f'.dClrSync)
  <2>1. CASE asserted
    <3> DEFINE hi == Clearing!H!force(f.src_hi, 0)  lo == Clearing!H!force(f.dst_lo, 0)
               sc == Clearing!H!reset_sRST(f.sClrSync, TRUE, 0)  dc == Clearing!H!reset_sRST(f.dClrSync, TRUE, 0)
    <3>1. f' = [f EXCEPT !.in_reset = TRUE, !.src_lo = 0, !.dst_hi = 0, !.src_hi = hi, !.dst_lo = lo,
                         !.src_hi_plus_1 = Clearing!Succ(0), !.dst_lo_plus_1 = Clearing!Succ(0),
                         !.dSyncReg1 = 0, !.sSyncReg1 = 0, !.sCountReg = 0, !.dCountReg = 0,
                         !.s_reset = TRUE, !.d_reset = TRUE, !.did_enq = FALSE, !.did_deq = FALSE,
                         !.did_sclear = FALSE, !.did_dclear = FALSE, !.sClrSync = sc, !.dClrSync = dc]
      BY <1>1, <2>1 DEF Clearing!AssertedFields
    <3>2. ASSUME NEW x \in VarOf(Positions), NEW y, y = Clearing!H!force(x, 0)
          PROVE  y = [value |-> 0, prev_value |-> 0, written_at |-> x.written_at]
      BY <3>2 DEF Clearing!H!force, VarOf
    <3>3. /\ hi = [value |-> 0, prev_value |-> 0, written_at |-> f.src_hi.written_at]
          /\ lo = [value |-> 0, prev_value |-> 0, written_at |-> f.dst_lo.written_at]
      BY <1>2, <3>2
    <3>4. hi \in VarOf(Positions) /\ lo \in VarOf(Positions)
      BY <1>2, <3>3, PositionTypes DEF VarOf
    <3>5. Clearing!Succ(0) = Succ(0)
      BY ClearNames
    <3>6. /\ ShakeTyped(sc) /\ sc.in_reset = TRUE /\ ShakeAtReset(sc)
          /\ ShakeTyped(dc) /\ dc.in_reset = TRUE /\ ShakeAtReset(dc)
      BY <1>2, ShakeAsserted
    <3> HIDE DEF hi, lo, sc, dc
    <3>7. /\ DOMAIN f' = FieldNames /\ f'.data = f.data /\ f'.dDoutReg = f.dDoutReg
          /\ f'.not_empty = f.not_empty /\ f'.not_full = f.not_full /\ f'.in_reset = TRUE
          /\ f'.src_hi = hi /\ f'.dst_lo = lo /\ f'.src_hi_plus_1 = Succ(0) /\ f'.dst_lo_plus_1 = Succ(0)
          /\ f'.src_lo = 0 /\ f'.dst_hi = 0 /\ f'.dSyncReg1 = 0 /\ f'.sSyncReg1 = 0
          /\ f'.did_enq = FALSE /\ f'.did_deq = FALSE /\ f'.s_reset = TRUE /\ f'.d_reset = TRUE
          /\ f'.did_sclear = FALSE /\ f'.did_dclear = FALSE /\ f'.sClrSync = sc /\ f'.dClrSync = dc
      BY <1>2, <3>1, <3>5 DEF FieldNames
    <3>8. FieldsAtReset'
      BY <3>3, <3>7 DEF FieldsAtReset, AtReset, Still
    <3>9. hi.value = 0 /\ lo.value = 0 /\ asserted = TRUE
      BY <2>1, <3>3
    <3>10. QED
      BY <3>4, <3>6, <3>7, <3>8, <3>9
  <2>2. CASE ~asserted
    <3> DEFINE sc == Clearing!H!reset_sRST(f.sClrSync, FALSE, 0)  dc == Clearing!H!reset_sRST(f.dClrSync, FALSE, 0)
    <3>1. f' = [f EXCEPT !.in_reset = FALSE, !.sClrSync = sc, !.dClrSync = dc]
      BY <1>1, <2>2
    <3>2. f.in_reset /\ FieldsRest
      BY <1>1, <1>2, <2>2 DEF ClearInv, FieldsRest
    <3>3. Released(f.sClrSync, sc) /\ Released(f.dClrSync, dc)
      BY <1>2, ShakeReleased
    <3> HIDE DEF sc, dc
    <3>4. f'.in_reset = FALSE /\ f'.sClrSync = sc /\ f'.dClrSync = dc /\ Kept({"in_reset", "sClrSync", "dClrSync"})
      BY <1>2, <3>1 DEF FieldNames, Kept
    <3>5. /\ DOMAIN f' = FieldNames /\ f'.data = f.data /\ f'.dDoutReg = f.dDoutReg
          /\ f'.not_empty = f.not_empty /\ f'.not_full = f.not_full
          /\ f'.src_hi = f.src_hi /\ f'.dst_lo = f.dst_lo
          /\ f'.src_hi_plus_1 = f.src_hi_plus_1 /\ f'.dst_lo_plus_1 = f.dst_lo_plus_1
          /\ f'.src_lo = f.src_lo /\ f'.dst_hi = f.dst_hi /\ f'.dSyncReg1 = f.dSyncReg1 /\ f'.sSyncReg1 = f.sSyncReg1
          /\ f'.did_enq = f.did_enq /\ f'.did_deq = f.did_deq /\ f'.s_reset = f.s_reset /\ f'.d_reset = f.d_reset
          /\ f'.did_sclear = f.did_sclear /\ f'.did_dclear = f.did_dclear
      BY <3>4 DEF Kept, FieldNames
    <3>6. FieldsAtReset'
      BY <3>2, <3>5 DEF FieldsRest, FieldsAtReset, AtReset, Still
    <3>7. f.did_enq = FALSE /\ f.did_deq = FALSE /\ f.s_reset = TRUE /\ f.d_reset = TRUE /\ f.did_sclear = FALSE
      BY <1>2, <3>2 DEF FieldsRest, FieldsAtReset, AtReset, Typed
    <3>8. /\ ShakeTyped(sc) /\ sc.in_reset = FALSE /\ ShakeAtReset(sc)
          /\ ShakeTyped(dc) /\ dc.in_reset = FALSE /\ ShakeAtReset(dc)
      BY <3>2, <3>3 DEF FieldsRest, Released, ShakeAtReset, AtRest, Still
    <3>9. asserted = FALSE
      BY <2>2
    <3>10. f'.src_hi_plus_1 = Succ(f'.src_hi.value) /\ f'.dst_lo_plus_1 = Succ(f'.dst_lo.value)
      BY <3>5 DEF ClearInv, Flags
    <3>11. QED
      BY <1>2, <3>4, <3>5, <3>6, <3>7, <3>8, <3>9, <3>10
  <2>3. QED
    BY <2>1, <2>2
<1>6. ClearTypes'
  <2>1. Typed(f)'
    BY <1>2, <1>5, PositionTypes DEF Typed, FieldsAtReset, AtReset
  <2>2. last'.notFull \in BOOLEAN /\ last'.notEmpty \in BOOLEAN
    BY <1>4 DEF ClearSnapped
  <2>3. QED
    BY <1>1, <1>4, <1>5, <2>1, <2>2 DEF ClearTypes, R, Elements
<1>7. Flags'
  BY <1>1, <1>4, <1>5 DEF Flags, ClearSnapped, R, ClearInv
<1>8. /\ f'.in_reset # R'.in_reset /\ f'.data = R'.data /\ f'.dDoutReg = R'.dDoutReg /\ R'.in_reset = f.in_reset
  BY <1>1, <1>4, <1>5 DEF ClearSnapped
<1>9. FieldsRest' /\ AtRest(f.dClrSync)'
  BY <1>1, <1>5, <1>8 DEF FieldsRest, NoCalls, ShakeAtReset, R
<1>10. QED
  BY <1>1, <1>4, <1>6, <1>7, <1>8, <1>9 DEF ClearInv, FieldsRest, R

(* Every step.                                                             *)
LEMMA ClearStep ==
  ASSUME Depth # 1, MaxLead \in {0, 1}, ClearInv, Clearing!FIFONext
  PROVE  ClearInv'
<1>1. CASE \E asserted \in BOOLEAN : Clearing!reset_sRST(asserted)
  BY <1>1, ResetClears
<1>2. CASE Clearing!NextSlice
  BY <1>2, NextSliceClears
<1>3. CASE ~settled /\ Clearing!Calls /\ UNCHANGED <<settled, lead>>
  <2>1. CASE \E x \in Data : Clearing!METH_enq(x)
    BY <1>3, <2>1, ClearEnqKeeps
  <2>2. CASE Clearing!METH_deq
    BY <1>3, <2>2, ClearDeqKeeps
  <2>3. CASE Clearing!METH_sClear
    BY <1>3, <2>3, AskKeeps
  <2>4. CASE Clearing!clk_src
    BY <1>3, <2>4, SrcRunKeeps
  <2>5. CASE Clearing!clk_dst
    BY <1>3, <2>5, DstRunKeeps
  <2>6. QED
    BY <1>3, <2>1, <2>2, <2>3, <2>4, <2>5 DEF Clearing!Calls
<1>4. QED
  BY <1>1, <1>2, <1>3 DEF Clearing!FIFONext

LEMMA ClearStart ==
  ASSUME Depth # 1, Clearing!FIFOInit
  PROVE  ClearInv
<1> DEFINE z == Clearing!H!NewSyncVar(0)
           zero == Clearing!H!NewHandshake(0)
           mem == [a \in 0 .. Depth - 1 |-> None]
           g == [data |-> mem, dDoutReg |-> None,
                 src_lo |-> 0, src_hi |-> z, dst_lo |-> z, dst_hi |-> 0,
                 dSyncReg1 |-> 0, sSyncReg1 |-> 0, src_hi_plus_1 |-> Clearing!Succ(0),
                 dst_lo_plus_1 |-> Clearing!Succ(0),
                 sCountReg |-> 0, dCountReg |-> 0, not_empty |-> FALSE, not_full |-> TRUE,
                 in_reset |-> TRUE, s_reset |-> TRUE, d_reset |-> TRUE,
                 did_enq |-> FALSE, did_deq |-> FALSE, did_sclear |-> FALSE, did_dclear |-> FALSE,
                 sClrSync |-> zero, dClrSync |-> zero]
           regs == [f EXCEPT !.src_hi = Clearing!H!probe(@), !.dst_lo = Clearing!H!probe(@)]
<1>1. f = g /\ edges = {} /\ w = None /\ deq = FALSE /\ clr = FALSE /\ settled = FALSE /\ lead = 0
  BY Zenon DEF Clearing!FIFOInit
<1>2. /\ R = regs /\ last.notFull = Clearing!METH_notFull /\ last.notEmpty = Clearing!METH_notEmpty
      /\ last.queue = <<>>
  BY DEF Clearing!FIFOInit, Clearing!Snapshot, R
<1>3. z.value = 0 /\ z.prev_value = 0 /\ z \in VarOf(Positions)
  BY PositionTypes DEF Clearing!H!NewSyncVar, VarOf
<1>4. Clearing!Succ(0) = Succ(0) /\ Succ(0) = 1
  BY ClearNames, PositionTypes
<1>5. mem \in Memory
  BY DEF Memory, Elements
<1>6. ShakeTyped(zero) /\ ShakeAtReset(zero) /\ zero.in_reset = TRUE
  <2>1. z \in VarOf(Toggles) /\ z.value = 0 /\ z.prev_value = 0
    BY <1>3 DEF Clearing!H!NewSyncVar, VarOf, Toggles
  <2>2. /\ DOMAIN zero = HandshakeNames /\ zero.dSyncReg1 = 0 /\ zero.dSyncReg2 = z /\ zero.dLastState = z
        /\ zero.sToggleReg = z /\ zero.sSyncReg1 = 1 /\ zero.sSyncReg2 = 1 /\ zero.sRDY = FALSE
        /\ zero.en = FALSE /\ zero.in_reset = TRUE
    BY DEF Clearing!H!NewHandshake, HandshakeNames
  <2>3. QED
    BY <2>1, <2>2 DEF ShakeTyped, ShakeAtReset, AtRest, Still, Toggles
<1> HIDE DEF z, zero, mem, regs
<1>7. /\ DOMAIN f = FieldNames /\ f.data = mem /\ f.dDoutReg = None
      /\ f.src_lo = 0 /\ f.src_hi = z /\ f.dst_lo = z /\ f.dst_hi = 0
      /\ f.dSyncReg1 = 0 /\ f.sSyncReg1 = 0 /\ f.src_hi_plus_1 = 1 /\ f.dst_lo_plus_1 = 1
      /\ f.not_empty = FALSE /\ f.not_full = TRUE
      /\ f.in_reset = TRUE /\ f.s_reset = TRUE /\ f.d_reset = TRUE
      /\ f.did_enq = FALSE /\ f.did_deq = FALSE /\ f.did_sclear = FALSE /\ f.did_dclear = FALSE
      /\ f.sClrSync = zero /\ f.dClrSync = zero
  BY <1>1, <1>4 DEF FieldNames
<1> HIDE DEF g
<1>8. /\ R.data = mem /\ R.dDoutReg = None
      /\ R.src_lo = 0 /\ R.src_hi = 0 /\ R.dst_lo = 0 /\ R.dst_hi = 0
      /\ R.dSyncReg1 = 0 /\ R.sSyncReg1 = 0 /\ R.src_hi_plus_1 = 1 /\ R.dst_lo_plus_1 = 1
      /\ R.not_empty = FALSE /\ R.not_full = TRUE
      /\ R.in_reset = TRUE /\ R.s_reset = TRUE /\ R.d_reset = TRUE
      /\ R.sClrSync = zero /\ R.dClrSync = zero
  BY <1>2, <1>3, <1>7 DEF FieldNames, Clearing!H!probe, regs
<1>9. last.notFull = FALSE /\ last.notEmpty = FALSE
  BY <1>2, <1>7 DEF Clearing!METH_notFull, Clearing!METH_notEmpty
<1>10. Typed(f) /\ Typed(R)
  BY <1>5, <1>7, <1>8, PositionTypes DEF Typed, Elements
<1>11. ClearTypes
  <2>1. <<>> \in Seq(Data)
    OBVIOUS
  <2>2. QED
    BY <1>1, <1>2, <1>3, <1>6, <1>7, <1>8, <1>9, <1>10, <2>1, PositionTypes DEF ClearTypes, Elements
<1>12. Flags
  BY <1>3, <1>4, <1>7, <1>8, <1>9 DEF Flags
<1>13. FieldsAtReset /\ NoCalls
  BY <1>1, <1>3, <1>7 DEF FieldsAtReset, AtReset, Still, NoCalls
<1>14. AtRest(f.dClrSync) /\ ShakeAtReset(f.sClrSync) /\ ShakeAtReset(f.dClrSync)
  BY <1>6, <1>7 DEF ShakeAtReset
<1>15. QED
  BY <1>1, <1>2, <1>7, <1>8, <1>11, <1>12, <1>13, <1>14 DEF ClearInv

(* In a behaviour of the class, among those of the others.                 *)
WhichClearing == which = "Clearing" => ClearInv

LEMMA ClearStutters ==
  ASSUME ClearInv, UNCHANGED <<f, edges, w, deq, clr, settled, last, lead>>
  PROVE  ClearInv'
<1>1. UNCHANGED R /\ SrcSame /\ DstSame /\ SrcShakeSame /\ DstShakeSame
  BY DEF R, SrcSame, DstSame, SrcShakeSame, DstShakeSame
<1>2. ~R.in_reset => InService'
  BY ServiceStays DEF ClearInv
<1>3. ~settled /\ ~f.in_reset => FieldsMoved'
  BY <1>1, SrcClearedStays, DstClearedStays, SrcShakenStays, DstShakenStays DEF ClearInv, FieldsMoved
<1>4. settled \/ f.in_reset => FieldsRest'
  BY <1>1 DEF ClearInv, FieldsRest, NoCalls, FieldsAtReset, AtReset, Still, ShakeAtReset, AtRest
<1>5. ClearTypes'
  BY <1>1 DEF ClearInv, ClearTypes, Typed
<1>6. Flags' /\ AtRest(f.dClrSync)'
  BY <1>1 DEF ClearInv, Flags, AtRest, Still
<1>7. QED
  BY <1>1, <1>2, <1>3, <1>4, <1>5, <1>6 DEF ClearInv, FieldsRest, FieldsMoved

LEMMA ClearAlone ==
  ASSUME Depth # 1, MaxLead \in {0, 1}, which = "Clearing", WhichClearing, [MCNext]_allVars
  PROVE  ClearInv'
<1>1. Clearing!FIFONext \/ UNCHANGED <<f, edges, w, deq, clr, settled, last, lead>>
  BY DEF MCNext, Crossing, allVars, crossVars, fifoVars
<1>2. CASE Clearing!FIFONext
  BY <1>2, ClearStep DEF WhichClearing
<1>3. CASE UNCHANGED <<f, edges, w, deq, clr, settled, last, lead>>
  BY <1>3, ClearStutters DEF WhichClearing
<1>4. QED
  BY <1>1, <1>2, <1>3

(* With no clear asked for or on its way the registers are in service.     *)
LEMMA ClearInvHolds ==
  ASSUME ClearInv
  PROVE  Clearing!ClearedHoldsQueue
<1>1. Clearing!Contents = ContentsOf(R.data, R.src_hi, R.dst_lo, last.notEmpty, R.dDoutReg)
  BY DEF Clearing!Contents, Clearing!ContentsOf, Clearing!Behind, Clearing!Ahead, Clearing!Addr, Clearing!Bit,
         ContentsOf, Behind, Ahead, Addr, Bit, R
<1>2. SUFFICES ASSUME Clearing!NoClear
               PROVE  Holds
  BY <1>1 DEF Clearing!ClearedHoldsQueue, Holds
<1>3. /\ edges = {} /\ ~settled /\ ~f.sClrSync.in_reset /\ f.sClrSync.sRDY
  BY <1>2 DEF Clearing!NoClear, Clearing!H!METH_RDY_send
<1>4. ~f.in_reset /\ ~R.in_reset /\ InService /\ SrcShaken
  BY <1>3 DEF ClearInv, ClearTypes
<1>5. S.sRDY
  BY <1>3, <1>4 DEF SrcShaken
<1>6. QED
  BY <1>4, <1>5 DEF InService

(* With clears asked for by the source, whenever none is on its way,       *)
(* MOD_SyncFIFO with several places holds exactly the elements enqueued    *)
(* since the last one and not yet dequeued, whatever was crossing when the *)
(* clear came, as long as neither clock gets two edges ahead of the other  *)
(* (bs_prim_mod_synchronizers.h:998-1041).                                 *)
THEOREM ClearedFIFOHoldsQueue ==
  ASSUME Depth # 1, MaxLead \in {0, 1}
  PROVE  MCSpec => []ClearedHoldsQueue
<1>1. MCInit => WhichClearing
  BY ClearStart DEF MCInit, WhichClearing
<1>2. WhichClearing /\ [MCNext]_allVars => WhichClearing'
  <2>1. ASSUME [MCNext]_allVars
        PROVE  which' = which
    BY <2>1 DEF MCNext, allVars
  <2>2. QED
    BY <2>1, ClearAlone DEF WhichClearing
<1>3. WhichClearing => ClearedHoldsQueue
  BY ClearInvHolds DEF WhichClearing, ClearedHoldsQueue
<1>4. QED
  BY <1>1, <1>2, <1>3, PTL DEF MCSpec
=============================================================================
