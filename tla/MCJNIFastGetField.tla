-------------------------- MODULE MCJNIFastGetField --------------------------
(***************************************************************************)
(* Safepoints in three settings.  Buffered: the main thread m starts a,    *)
(* which exits; stores of thread states are buffered.  Again: two          *)
(* safepoints, and calls of java_suspend are followed to their return.     *)
(* Reading: a thread in native code reads fields while three safepoints    *)
(* begin and end, and m keeps the VM thread waiting for varying times.     *)
(***************************************************************************)
EXTENDS JNIFastGetField
CONSTANTS m, a, r1
JustMain == {m}
MainAndOne == {m, a}
MCReaders == {r1}

Buffered == [UseMembar |-> FALSE, safepoints |-> 1, startable |-> {a},
             suspenders |-> {}, readers |-> {}]
Again    == [UseMembar |-> TRUE, safepoints |-> 2, startable |-> {a},
             suspenders |-> {m}, readers |-> {}]
Reading  == [UseMembar |-> TRUE, safepoints |-> 3, startable |-> {},
             suspenders |-> {}, readers |-> {r1}]
MCScenarios == {Buffered, Again, Reading}
=============================================================================
