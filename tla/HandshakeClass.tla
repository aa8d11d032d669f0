--------------------------- MODULE HandshakeClass ---------------------------
(***************************************************************************)
(* Class MOD_SyncHandshake of Bluesim, as operators on its fields h, since *)
(* other synchronizers contain one or two of them.  A clock function       *)
(* called with the gate off returns at once.                               *)
(***************************************************************************)
EXTENDS Naturals, SyncVar

Flag(b) == IF b THEN 1 ELSE 0

(* The fields after reset; every simulation begins with one. *)
NewHandshake(init) ==
  [dSyncReg1 |-> init, dSyncReg2 |-> NewSyncVar(init), dLastState |-> NewSyncVar(init),
   sToggleReg |-> NewSyncVar(init), sSyncReg1 |-> 1 - init, sSyncReg2 |-> 1 - init,
   sRDY |-> FALSE, en |-> FALSE, did_send |-> FALSE, pulsing |-> FALSE, in_reset |-> TRUE]

METH_pulse(h)    == read(h.dSyncReg2) # read(h.dLastState)
METH_send(h)     == [h EXCEPT !.en = TRUE]
METH_RDY_send(h) == ~h.in_reset /\ h.sRDY

clk_src(h, delayreturn) ==
  [h EXCEPT !.sSyncReg1 = IF h.in_reset THEN @ ELSE read(IF delayreturn THEN h.dLastState ELSE h.dSyncReg2),
            !.sSyncReg2 = IF h.in_reset THEN @ ELSE h.sSyncReg1,
            !.sToggleReg = IF h.en THEN write(@, 1 - read(@)) ELSE @,
            !.sRDY = ~h.en /\ (IF h.in_reset THEN h.sSyncReg2 ELSE h.sSyncReg1) = read(h.sToggleReg),
            !.did_send = h.en, !.en = FALSE]

clk_dst(h) ==
  [h EXCEPT !.dLastState = write(@, read(h.dSyncReg2)),
            !.dSyncReg2 = write(@, h.dSyncReg1),
            !.dSyncReg1 = read(h.sToggleReg),
            !.pulsing = read(h.dSyncReg2) # h.dSyncReg1]

reset_sRST(h, asserted, init) ==
  IF ~asserted THEN [h EXCEPT !.in_reset = FALSE]
  ELSE [NewHandshake(init) EXCEPT
          !.dSyncReg2 = force(h.dSyncReg2, init), !.dLastState = force(h.dLastState, init),
          !.sToggleReg = force(h.sToggleReg, init), !.did_send = h.did_send]

LaterHandshake(h) ==
  [h EXCEPT !.dSyncReg2 = Later(@), !.dLastState = Later(@), !.sToggleReg = Later(@)]

(* What the waveform shows: dSyncReg1 ... sRDY, sEN, sRST, dPulse. *)
HandshakeSignals(h) ==
  [dSyncReg1 |-> h.dSyncReg1, dSyncReg2 |-> probe(h.dSyncReg2), dLastState |-> probe(h.dLastState),
   sToggleReg |-> probe(h.sToggleReg), sSyncReg1 |-> h.sSyncReg1, sSyncReg2 |-> h.sSyncReg2,
   sRDY |-> Flag(h.sRDY), sEN |-> Flag(h.did_send), sRST |-> Flag(~h.in_reset), dPulse |-> Flag(h.pulsing)]

(* The signals that a dump copies to backing: never sRST. *)
HandshakeBacked(dt) ==
  {"dSyncReg1", "dSyncReg2", "dLastState", "sToggleReg", "sSyncReg1", "sSyncReg2", "sRDY", "dPulse"}
    \cup (IF dt = "VCD_DUMP_XS" THEN {} ELSE {"sEN"})
=============================================================================
