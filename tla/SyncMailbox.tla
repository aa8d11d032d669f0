---------------------------- MODULE SyncMailbox ----------------------------
(***************************************************************************)
(* What a synchronized register promises: a mailbox of one slot.  The      *)
(* writer may fill the slot only when it is empty; the reader's register   *)
(* takes the value of the slot, each value once and whole.  A reset        *)
(* empties the mailbox at any time.                                        *)
(***************************************************************************)
CONSTANTS Data,      \* the values a register holds
          InitData,  \* the reset value of the reader's register
          None       \* the slot is empty

VARIABLES slot, out

Init == slot = None /\ out = InitData

Put(v) == slot = None /\ slot' = v /\ UNCHANGED out

Take == slot # None /\ out' = slot /\ slot' = None

Reset == slot' = None /\ out' = InitData

Next == (\E v \in Data : Put(v)) \/ Take \/ Reset

Spec     == Init /\ [][Next]_<<slot, out>>
FairSpec == Spec /\ WF_<<slot, out>>(Take)
=============================================================================
