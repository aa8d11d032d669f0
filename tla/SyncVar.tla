------------------------------ MODULE SyncVar ------------------------------
(***************************************************************************)
(* The class template SyncVar of Bluesim/bs_prim_mod_synchronizers.h: a    *)
(* variable that, read at the time at which it is written, yields the      *)
(* value from before.  Times are compared with the current time only, so   *)
(* written_at is the Boolean "it is the current time".                     *)
(***************************************************************************)

NewSyncVar(x) == [value |-> x, prev_value |-> x, written_at |-> FALSE]

MutRead(v) == v.value

read(v)     == IF v.written_at THEN v.prev_value ELSE v.value
probe(v)    == v.value
write(v, x) == [value |-> x, prev_value |-> v.value, written_at |-> TRUE]
force(v, x) == [v EXCEPT !.value = x, !.prev_value = x]

(* Simulated time goes on. *)
Later(v) == [v EXCEPT !.written_at = FALSE]
=============================================================================
