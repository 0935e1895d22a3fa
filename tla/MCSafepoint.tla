----------------------------- MODULE MCSafepoint -----------------------------
(***************************************************************************)
(* One safepoint, with a main thread m, which starts the thread a; a can   *)
(* be suspended, resumed, and can exit.  In Followed the calls of          *)
(* java_suspend are followed to their return.                              *)
(***************************************************************************)
EXTENDS Safepoint
CONSTANTS m, a
JustMain == {m}
MainAndOne == {m, a}

Plain    == {[UseMembar |-> TRUE, safepoints |-> 1, startable |-> {a}, suspenders |-> {}]}
Followed == {[UseMembar |-> TRUE, safepoints |-> 1, startable |-> {a}, suspenders |-> {m}]}
=============================================================================
