------------------------------ MODULE MCQueues ------------------------------
(***************************************************************************)
(* The queues between two clocks and the counters that address them, one   *)
(* per behaviour: SyncFIFOLevel; SyncFIFO, with both its clocks running    *)
(* on; or a Gray counter, for every width up to MaxWidth.  The others stay *)
(* in reset.                                                               *)
(***************************************************************************)
EXTENDS SyncFIFOLevel

CONSTANT MaxWidth   \* bound: the largest indxWidth of GrayCounter

VARIABLES
  which,
  width, ptr, ptr1, count,
  frst, fmem, sGEnqPtr, sGEnqPtr1, fNotFull, fsSync, fsDeqPtr,
  dGDeqPtr, dGDeqPtr1, fNotEmpty, fDout, fdSync, fdEnqPtr, fqueue

fifoVars == <<frst, fmem, sGEnqPtr, sGEnqPtr1, fNotFull, fsSync, fsDeqPtr,
              dGDeqPtr, dGDeqPtr1, fNotEmpty, fDout, fdSync, fdEnqPtr, fqueue>>
grayVars == <<width, ptr, ptr1, count>>
allVars == <<which, vars, fifoVars, grayVars>>

FIFO == INSTANCE SyncFIFO
  WITH rst <- frst, fifoMem <- fmem, sNotFullReg <- fNotFull, sSyncReg1 <- fsSync, sDeqPtr <- fsDeqPtr,
       dNotEmptyReg <- fNotEmpty, dDoutReg <- fDout, dSyncReg1 <- fdSync, dEnqPtr <- fdEnqPtr,
       queue <- fqueue
Gray == INSTANCE GrayCounter

MCInit ==
  /\ which \in {"SyncFIFOLevel", "SyncFIFO", "GrayCounter"}
  /\ Init /\ FIFO!Init /\ Gray!Init
  /\ which = "GrayCounter" \/ width = 1
MCNext ==
  \/ which = "SyncFIFOLevel" /\ Next /\ UNCHANGED <<fifoVars, grayVars>>
  \/ which = "SyncFIFO" /\ FIFO!Next /\ UNCHANGED <<vars, grayVars>>
  \/ which = "GrayCounter" /\ Gray!Next /\ UNCHANGED <<vars, fifoVars>>

(* Both clocks of SyncFIFO keep running, as in its FairSpec. *)
MCSpec ==
  /\ MCInit /\ [][MCNext /\ UNCHANGED which]_allVars
  /\ WF_allVars(which = "SyncFIFO" /\ FIFO!SrcClock /\ UNCHANGED <<which, vars, grayVars>>)
  /\ WF_allVars(which = "SyncFIFO" /\ FIFO!DstClock /\ UNCHANGED <<which, vars, grayVars>>)

(* What SyncFIFO says of elements and of room: they are seen eventually    *)
(* (SyncFIFO.v:135-193).                                                   *)
ElementsArrive == FIFO!ElementsArrive
RoomReturns    == FIFO!RoomReturns

(* What GrayCounter says of incrGrayP and the tests on it                  *)
(* (SyncFIFO.v:60-98,274-308).                                             *)
CountersExact == Gray!CountsInGray /\ Gray!AddressesExact
OneBitPerStep == Gray!OneBitPerStep
=============================================================================
