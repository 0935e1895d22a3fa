-------------------------- MODULE MCNativeMonitor --------------------------
(***************************************************************************)
(* Instances of NativeMonitor with three threads: enough for a holder, an   *)
(* heir and a thread that arrives or exits at the wrong moment.             *)
(***************************************************************************)
EXTENDS NativeMonitor, TLC
CONSTANTS t1, t2, t3

MCThreads == {t1, t2, t3}

\* The VM thread, a Java thread that notifies, and one that waits with a timeout,
\* with and without a safepoint check, and can be suspended.
SafepointCalls == t1 :> {"lock", "try_lock"} @@ t2 :> {"lock", "notify_all"}
                    @@ t3 :> {"jvm_raw_lock", "timedwait", "suspendwait"}

\* One thread of each kind, small enough for refinement and liveness.
SmallCalls == t1 :> {"lock", "notify"} @@ t2 :> {"lock", "timedwait"}
                @@ t3 :> {"lock_without_safepoint_check"}
=============================================================================
