------------------------------ MODULE ModFifo ------------------------------
(***************************************************************************)
(* The simulation FIFO, class MOD_Fifo of Bluesim/bs_prim_mod_fifo.h, that *)
(* stands for FIFO1, FIFO2, SizedFIFO and their loopy forms.  Where the    *)
(* Verilog takes all inputs at a clock edge, here the rules of a cycle     *)
(* call methods one after the other, in any order the comments allow, and  *)
(* the answers must be those of the hardware.  A bypass FIFO has no        *)
(* Verilog counterpart in the library and is left out.                     *)
(***************************************************************************)
EXTENDS QueueStep

CONSTANTS
  size,    \* number of elements that fit
  Types,   \* the types constructed, of FIFO_SIMPLE and FIFO_LOOPY
  guard    \* parameter guarded

VARIABLES
  type,                        \* constructor argument
  data, fst, elems,            \* the array, its first element, their number
  saved_elems,                 \* elems before the first call of the cycle
  enq_at, deq_at, clear_at,    \* a call was made at the current time
  in_reset, suppress_writes,
  queue,                       \* history: the queue at the start of the cycle
  deqd, enqd, clrd,            \* history: the calls made in this cycle
  warned                       \* history: a call has printed a warning

store == <<data, fst, elems>>
stamp == <<saved_elems, enq_at, deq_at, clear_at>>
reset == <<in_reset, suppress_writes>>
calls == <<deqd, enqd, clrd>>
vars  == <<type, store, stamp, reset, queue, calls, warned>>

LOOPY == type = "FIFO_LOOPY"

Init ==
  /\ type \in Types
  /\ data = [i \in 0 .. size - 1 |-> None] /\ fst = 0 /\ elems = 0
  /\ saved_elems = 0
  /\ enq_at = FALSE /\ deq_at = FALSE /\ clear_at = FALSE
  /\ in_reset = FALSE /\ suppress_writes = FALSE
  /\ queue = <<>> /\ deqd = FALSE /\ enqd = None /\ clrd = FALSE
  /\ warned = FALSE

(***************************************************************************)
(* The implicit conditions, which compensate for the calls already made.   *)
(***************************************************************************)
MutLevel == elems
Level == IF ~LOOPY /\ (enq_at \/ deq_at \/ clear_at) THEN saved_elems ELSE elems
MutNotFull == Level <= size
METH_i_notFull  == Level < size
METH_i_notEmpty == Level # 0

MutFirst == data[0]
METH_first == data[fst]

(* The place behind the last element. *)
Last == (fst + elems) % size

SaveBefore(others) == saved_elems' = IF others THEN saved_elems ELSE elems

METH_deq ==
  IF suppress_writes THEN UNCHANGED <<store, stamp, warned>>
  ELSE /\ deq_at' = TRUE
       /\ SaveBefore(enq_at)
       /\ LET error == elems = 0 \/ (guard /\ enq_at /\ saved_elems' = 0)
          IN  /\ warned' = (warned \/ error)
              /\ fst'    = IF error THEN fst ELSE (fst + 1) % size
              /\ elems'  = IF error THEN elems ELSE elems - 1
       /\ UNCHANGED <<data, enq_at, clear_at>>

EnqError == elems = size \/ (~LOOPY /\ guard /\ deq_at /\ saved_elems' = size)

METH_enq(x) ==
  IF suppress_writes THEN UNCHANGED <<store, stamp, warned>>
  ELSE /\ enq_at' = TRUE
       /\ SaveBefore(deq_at)
       /\ warned' = (warned \/ EnqError)
       /\ IF EnqError THEN UNCHANGED <<data, elems>>
          ELSE data' = [data EXCEPT ![Last] = x] /\ elems' = elems + 1
       /\ UNCHANGED <<fst, deq_at, clear_at>>

METH_clear ==
  IF suppress_writes THEN UNCHANGED <<store, stamp, warned>>
  ELSE /\ clear_at' = TRUE
       /\ SaveBefore(enq_at \/ deq_at)
       /\ fst' = 0 /\ elems' = 0
       /\ UNCHANGED <<data, enq_at, deq_at, warned>>

(***************************************************************************)
(* The calls of a cycle.  Each rule calls a method at most once, after the *)
(* orders in the comments: enq, deq < clear, and deq < enq if loopy.  The  *)
(* rule has tested the implicit condition if the FIFO is guarded.          *)
(***************************************************************************)
CallDeq ==
  /\ ~deqd /\ ~clrd
  /\ LOOPY => enqd = None
  /\ IF guard THEN METH_i_notEmpty ELSE queue # <<>>
  /\ METH_deq
  /\ deqd' = TRUE
  /\ UNCHANGED <<type, reset, queue, enqd, clrd>>

CallEnq(x) ==
  /\ enqd = None /\ ~clrd
  /\ guard => METH_i_notFull
  /\ METH_enq(x)
  /\ enqd' = x
  /\ UNCHANGED <<type, reset, queue, deqd, clrd>>

CallClear ==
  /\ ~clrd
  /\ METH_clear
  /\ clrd' = TRUE
  /\ UNCHANGED <<type, reset, queue, deqd, enqd>>

Idle == ~deqd /\ enqd = None /\ ~clrd

(* reset_RST, between two cycles. *)
AssertReset ==
  /\ Idle
  /\ in_reset' = TRUE
  /\ UNCHANGED <<type, store, stamp, suppress_writes, queue, calls, warned>>

ReleaseReset ==
  /\ Idle /\ in_reset
  /\ in_reset' = FALSE /\ suppress_writes' = FALSE
  /\ UNCHANGED <<type, store, stamp, queue, calls, warned>>

(***************************************************************************)
(* The end of the clock edge: rst_tick_clk comes after the rules, as the   *)
(* registers rely on (MOD_Reg lets a rule write under a synchronous reset, *)
(* bs_prim_mod_reg.h:98-138), and the time goes on.  An unguarded FIFO may *)
(* be enqueued when full provided it is dequeued in the same cycle.        *)
(***************************************************************************)
MutEndCycle ==
  /\ Legal(queue # <<>>, Len(queue) < size, deqd, enqd)
  /\ queue' = After(queue, in_reset \/ clrd, deqd, enqd)
  /\ fst'   = IF in_reset THEN 0 ELSE fst
  /\ suppress_writes' = in_reset
  /\ enq_at' = FALSE /\ deq_at' = FALSE /\ clear_at' = FALSE
  /\ deqd' = FALSE /\ enqd' = None /\ clrd' = FALSE
  /\ UNCHANGED <<type, data, elems, saved_elems, in_reset, warned>>

EndCycle ==
  /\ Legal(queue # <<>>, Len(queue) < size, deqd, enqd)
  /\ queue' = After(queue, in_reset \/ clrd, deqd, enqd)
  /\ LET tick == in_reset /\ ~suppress_writes
     IN  /\ fst'   = IF tick THEN 0 ELSE fst
         /\ elems' = IF tick THEN 0 ELSE elems
  /\ suppress_writes' = in_reset
  /\ enq_at' = FALSE /\ deq_at' = FALSE /\ clear_at' = FALSE
  /\ deqd' = FALSE /\ enqd' = None /\ clrd' = FALSE
  /\ UNCHANGED <<type, data, saved_elems, in_reset, warned>>

(* write_fifo: a test bench overwrites an element or appends one, between  *)
(* cycles and not during a reset.                                          *)
ProbeWrite(addr, x) ==
  /\ Idle /\ ~in_reset
  /\ IF addr \in 1 .. elems
       THEN /\ data' = [data EXCEPT ![(fst + addr - 1) % size] = x]
            /\ queue' = [queue EXCEPT ![addr] = x]
            /\ UNCHANGED elems
       ELSE /\ elems < size
            /\ data' = [data EXCEPT ![Last] = x]
            /\ queue' = Append(queue, x)
            /\ elems' = elems + 1
  /\ UNCHANGED <<type, fst, stamp, reset, calls, warned>>

Next ==
  \/ CallDeq
  \/ \E x \in Data : CallEnq(x)
  \/ CallClear
  \/ AssertReset
  \/ ReleaseReset
  \/ EndCycle
  \/ \E addr \in 0 .. size, x \in Data : ProbeWrite(addr, x)

Spec == Init /\ [][Next]_vars

-----------------------------------------------------------------------------
Contents == [k \in 1 .. elems |-> data[(fst + k - 1) % size]]

TypeOK ==
  /\ data \in [0 .. size - 1 -> Data \cup {None}]
  /\ fst \in 0 .. size - 1 /\ elems \in 0 .. size /\ saved_elems \in 0 .. size
  /\ queue \in Seq(Data) /\ enqd \in Data \cup {None}

(***************************************************************************)
(* Whatever the order of the calls, when the cycle ends the FIFO holds     *)
(* what the hardware would after the clock edge.                           *)
(***************************************************************************)
CyclesCompose == Idle => Contents = queue

(***************************************************************************)
(* The implicit conditions answer as the hardware's flags, which do not    *)
(* change in a cycle: in a simple FIFO at any time, in a loopy one         *)
(* notEmpty before any call and notFull after the dequeue, before the rest.*)
(***************************************************************************)
ConditionsSteady ==
  /\ ~LOOPY => (METH_i_notFull <=> Len(queue) < size) /\ (METH_i_notEmpty <=> queue # <<>>)
  /\ LOOPY /\ enqd = None /\ ~clear_at =>
       (METH_i_notFull <=> Len(queue) < size \/ (deqd /\ queue # <<>>))

(* "first < (deq, clear)": until then, first shows the head of the queue,  *)
(* also after an enqueue.                                                  *)
FirstSteady == queue # <<>> /\ ~deqd /\ ~clear_at => METH_first = Head(queue)

(* Calls made when the implicit condition holds are never warned of.       *)
LegalNeverWarned == guard => ~warned

(***************************************************************************)
(* "Normal FIFOs have enq CF deq" (bs_prim_mod_fifo.h:118): the two calls  *)
(* in one cycle have the same effect in either order.                      *)
(***************************************************************************)
EnqDeqConflictFree ==
  deqd /\ enqd # None /\ ~clrd /\ ~in_reset => Contents = Append(Tail(queue), enqd)
=============================================================================
