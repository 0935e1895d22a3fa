------------------------------- MODULE Parker -------------------------------
(***************************************************************************)
(* Parker, os/linux/vm/os_linux.cpp, behind java.util.concurrent's          *)
(* LockSupport: a permit _counter that unpark sets under the mutex, and     *)
(* that park may read and clear without it.  park may return for no reason, *)
(* so it gives up wherever waiting would need care: on an interrupt, and    *)
(* when the mutex is busy.  os::interrupt is the other caller of unpark.    *)
(***************************************************************************)
EXTENDS Naturals, Pthread

VARIABLES
  counter,      \* _counter
  interrupted,  \* osthread()->interrupted()
  park_pc,      \* where Self is in Parker::park
  time,         \* its argument: "<0", "0" (wait for ever) or ">0"
  park_status,  \* what the wait returned
  unpark_pc     \* where each unparker is in os::interrupt or Parker::unpark

parker_self == <<park_pc, time, park_status>>
parker_vars == <<pthread, counter, interrupted, parker_self, unpark_pc>>

ParkPCs == {"running", "fast", "interrupted", "region", "trylock", "check",
            "wait", "asleep", "destroy", "init", "zero", "unlock"}
UnparkPCs == {"idle", "interrupt", "lock", "set", "signal_locked",
              "unlock_signal", "unlock", "signal"}

ParkerTypeOK ==
  /\ PthreadTypeOK
  /\ counter \in {0, 1} /\ interrupted \in BOOLEAN
  /\ park_pc \in ParkPCs /\ time \in {"<0", "0", ">0"}
  /\ park_status \in {"0", "EINTR", "ETIMEDOUT"}
  /\ unpark_pc \in [Unparkers -> UnparkPCs]

ParkerInit ==
  /\ PthreadInit
  /\ counter = 0 /\ interrupted = FALSE
  /\ park_pc = "running" /\ time = "0" /\ park_status = "0"
  /\ unpark_pc = [u \in Unparkers |-> "idle"]

-----------------------------------------------------------------------------
(* Parker::park, by the associated thread *)

Parker_park ==
  /\ park_pc = "running"
  /\ time' \in {"<0", "0", ">0"}
  /\ park_pc' = IF counter > 0 THEN "fast" ELSE "interrupted"
  /\ UNCHANGED <<pthread, counter, interrupted, park_status, unpark_pc>>

\* The fast path clears the permit without the mutex.
Parker_park_fast ==
  /\ park_pc = "fast"
  /\ counter' = 0
  /\ park_pc' = "running"
  /\ UNCHANGED <<pthread, interrupted, time, park_status, unpark_pc>>

Parker_park_interrupted ==
  /\ park_pc = "interrupted"
  /\ park_pc' = IF interrupted \/ time = "<0" THEN "running" ELSE "region"
  /\ UNCHANGED <<pthread, counter, interrupted, time, park_status, unpark_pc>>

\* Inside ThreadBlockInVM, which may have blocked for a safepoint.
Parker_park_region ==
  /\ park_pc = "region"
  /\ park_pc' = IF interrupted THEN "running" ELSE "trylock"
  /\ UNCHANGED <<pthread, counter, interrupted, time, park_status, unpark_pc>>

Parker_park_trylock ==
  /\ park_pc = "trylock"
  /\ pthread_mutex_lock(Self)
  /\ park_pc' = "check"
  /\ UNCHANGED <<counter, interrupted, time, park_status, unpark_pc>>

\* pthread_mutex_trylock failed: somebody is unparking us.
Parker_park_busy ==
  /\ park_pc = "trylock" /\ mutex # FREE
  /\ park_pc' = "running"
  /\ UNCHANGED <<pthread, counter, interrupted, time, park_status, unpark_pc>>

Parker_park_check ==
  /\ park_pc = "check"
  /\ counter' = 0
  /\ park_pc' = IF counter > 0 THEN "unlock" ELSE "wait"
  /\ UNCHANGED <<pthread, interrupted, time, park_status, unpark_pc>>

Parker_park_wait ==
  /\ park_pc = "wait"
  /\ pthread_cond_wait
  /\ park_pc' = "asleep" /\ park_status' = "0"
  /\ UNCHANGED <<counter, interrupted, time, unpark_pc>>

Parker_park_spurious ==
  /\ park_pc = "asleep"
  /\ cond_wakeup
  /\ park_status' \in {"0", "EINTR"}
  /\ UNCHANGED <<counter, interrupted, park_pc, time, unpark_pc>>

Parker_park_timeout ==
  /\ park_pc = "asleep" /\ time = ">0"
  /\ cond_timeout
  /\ park_status' = "ETIMEDOUT"
  /\ UNCHANGED <<counter, interrupted, park_pc, time, unpark_pc>>

Parker_reinit == time = ">0" /\ park_status # "0" /\ WorkAroundNPTLTimedWaitHang

\* Variant: the condition variable is not reinitialised after a timeout.
Parker_park_wake_noReinit ==
  /\ park_pc = "asleep" /\ ~asleep
  /\ pthread_mutex_lock(Self)
  /\ park_pc' = "zero"
  /\ UNCHANGED <<counter, interrupted, time, park_status, unpark_pc>>

Parker_park_wake ==
  /\ park_pc = "asleep" /\ ~asleep
  /\ pthread_mutex_lock(Self)
  /\ park_pc' = IF Parker_reinit THEN "destroy" ELSE "zero"
  /\ UNCHANGED <<counter, interrupted, time, park_status, unpark_pc>>

Parker_park_destroy ==
  /\ park_pc = "destroy"
  /\ pthread_cond_destroy
  /\ park_pc' = "init"
  /\ UNCHANGED <<counter, interrupted, time, park_status, unpark_pc>>

Parker_park_init ==
  /\ park_pc = "init"
  /\ pthread_cond_init
  /\ park_pc' = "zero"
  /\ UNCHANGED <<counter, interrupted, time, park_status, unpark_pc>>

Parker_park_zero ==
  /\ park_pc = "zero"
  /\ counter' = 0
  /\ park_pc' = "unlock"
  /\ UNCHANGED <<pthread, interrupted, time, park_status, unpark_pc>>

Parker_park_unlock ==
  /\ park_pc = "unlock"
  /\ pthread_mutex_unlock(Self)
  /\ park_pc' = "running"
  /\ UNCHANGED <<counter, interrupted, time, park_status, unpark_pc>>

\* os::is_interrupted(thread, true): Java code consumes the interrupt.
is_interrupted ==
  /\ park_pc = "running" /\ interrupted
  /\ interrupted' = FALSE
  /\ UNCHANGED <<pthread, counter, parker_self, unpark_pc>>

-----------------------------------------------------------------------------
(* os::interrupt and Parker::unpark *)

UnparkGoto(u, l) == unpark_pc' = [unpark_pc EXCEPT ![u] = l]

\* if (!osthread->interrupted()): the flag is tested here and set in the next
\* step, or found set; the unpark follows in any case.
interrupt(u) ==
  /\ unpark_pc[u] = "idle"
  /\ UnparkGoto(u, IF interrupted THEN "lock" ELSE "interrupt")
  /\ UNCHANGED <<pthread, counter, interrupted, parker_self>>

\* Variant: the flag is set and the Parker is left alone.
set_interrupted_noUnpark(u) ==
  /\ unpark_pc[u] = "interrupt"
  /\ interrupted' = TRUE
  /\ UnparkGoto(u, "idle")
  /\ UNCHANGED <<pthread, counter, parker_self>>

set_interrupted(u) ==
  /\ unpark_pc[u] = "interrupt"
  /\ interrupted' = TRUE
  /\ UnparkGoto(u, "lock")
  /\ UNCHANGED <<pthread, counter, parker_self>>

Parker_unpark(u) ==
  /\ unpark_pc[u] = "idle"
  /\ UnparkGoto(u, "lock")
  /\ UNCHANGED <<pthread, counter, interrupted, parker_self>>

\* Variant: the permit is set, and the signal sent, without the mutex.
Parker_unpark_lock_unlocked(u) ==
  /\ unpark_pc[u] = "lock"
  /\ counter' = 1
  /\ UnparkGoto(u, IF counter < 1 THEN "signal" ELSE "idle")
  /\ UNCHANGED <<pthread, interrupted, parker_self>>

Parker_unpark_lock(u) ==
  /\ unpark_pc[u] = "lock"
  /\ pthread_mutex_lock(u)
  /\ UnparkGoto(u, "set")
  /\ UNCHANGED <<counter, interrupted, parker_self>>

\* s = _counter; _counter = 1; and a signal if s < 1, before or after the
\* unlock.
Parker_unpark_set(u) ==
  /\ unpark_pc[u] = "set"
  /\ counter' = 1
  /\ UnparkGoto(u, IF counter >= 1 THEN "unlock"
              ELSE IF WorkAroundNPTLTimedWaitHang
                   THEN "signal_locked" ELSE "unlock_signal")
  /\ UNCHANGED <<pthread, interrupted, parker_self>>

Parker_unpark_signal_locked(u) ==
  /\ unpark_pc[u] = "signal_locked"
  /\ pthread_cond_signal
  /\ UnparkGoto(u, "unlock")
  /\ UNCHANGED <<counter, interrupted, parker_self>>

Parker_unpark_unlock(u) ==
  /\ unpark_pc[u] \in {"unlock_signal", "unlock"}
  /\ pthread_mutex_unlock(u)
  /\ UnparkGoto(u, IF unpark_pc[u] = "unlock_signal" THEN "signal" ELSE "idle")
  /\ UNCHANGED <<counter, interrupted, parker_self>>

Parker_unpark_signal(u) ==
  /\ unpark_pc[u] = "signal"
  /\ pthread_cond_signal
  /\ UnparkGoto(u, "idle")
  /\ UNCHANGED <<counter, interrupted, parker_self>>

-----------------------------------------------------------------------------
Parker_parking ==
  \/ Parker_park_fast \/ Parker_park_interrupted \/ Parker_park_region
  \/ Parker_park_trylock \/ Parker_park_busy \/ Parker_park_check
  \/ Parker_park_wait \/ Parker_park_wake \/ Parker_park_destroy
  \/ Parker_park_init \/ Parker_park_zero \/ Parker_park_unlock

Parker_unparking(u) ==
  \/ set_interrupted(u) \/ Parker_unpark_lock(u) \/ Parker_unpark_set(u)
  \/ Parker_unpark_signal_locked(u) \/ Parker_unpark_unlock(u)
  \/ Parker_unpark_signal(u)

ParkerNext ==
  \/ Parker_park \/ Parker_parking \/ Parker_park_spurious
  \/ Parker_park_timeout \/ is_interrupted
  \/ \E u \in Unparkers : interrupt(u) \/ Parker_unpark(u) \/ Parker_unparking(u)

ParkerSpec == ParkerInit /\ [][ParkerNext]_parker_vars

\* A runnable thread is scheduled and gets a mutex that keeps becoming free.
\* No wakeup and no timeout is assumed.
ParkerFairness ==
  /\ WF_parker_vars(Parker_parking) /\ SF_parker_vars(Parker_park_wake)
  /\ \A u \in Unparkers : /\ WF_parker_vars(Parker_unparking(u))
                          /\ SF_parker_vars(Parker_unpark_lock(u))

ParkerFairSpec == ParkerSpec /\ ParkerFairness

-----------------------------------------------------------------------------
(* Properties *)

\* No signal reaches a condition variable that is being reinitialised.
ParkerCondAlive ==
  \A u \in Unparkers :
     unpark_pc[u] \in {"signal_locked", "signal"} => cond # "destroyed"

\* A thread asleep with a permit set is about to be signalled, on a condition
\* variable that still works, although an unpark that finds the permit set
\* sends no signal.
NoLostPermit ==
  asleep /\ counter = 1 =>
    /\ cond = "ok"
    /\ \E u \in Unparkers :
          unpark_pc[u] \in {"signal_locked", "unlock_signal", "signal"}

\* A thread asleep with its interrupt flag set is about to be unparked, although
\* park reads the flag before it takes the mutex.
InterruptSeen ==
  asleep /\ interrupted =>
    \/ counter = 1
    \/ \E u \in Unparkers : unpark_pc[u] \in {"lock", "set"}

\* A parked thread that has a permit or has been interrupted returns, wherever
\* in park the unpark or the interrupt found it.
ParkReturns ==
  park_pc # "running" /\ (counter = 1 \/ interrupted) ~> park_pc = "running"
=============================================================================
