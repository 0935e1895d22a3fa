--------------------------- MODULE PlatformEvent ---------------------------
(***************************************************************************)
(* os::PlatformEvent, os/linux/vm/os_linux.cpp: the restricted-range        *)
(* semaphore every blocking path of the VM parks on.  _Event is -1 while    *)
(* its thread blocks, 0 when neutral and 1 when a permit is pending; it is  *)
(* changed by compare-and-swap outside the mutex, and only the sleep itself *)
(* is covered by the mutex and the condition variable.                      *)
(*                                                                          *)
(* One action is one access to state the two sides share.  A retried        *)
(* compare-and-swap is its decisive iteration.                              *)
(***************************************************************************)
EXTENDS Integers, Pthread

VARIABLES
  Event,       \* _Event
  nParked,     \* _nParked
  pc,          \* where Self is in park() or park(millis)
  timed,       \* Self is in park(millis)
  status,      \* what the last timed wait returned
  upc,         \* where each unparker is in unpark()
  AnyWaiters,  \* its local of that name
  FilterSpuriousWakeups  \* -XX:FilterSpuriousWakeups, settled at startup

\* What unpark, and what park, leaves alone.
self     == <<pc, timed, status, FilterSpuriousWakeups>>
unparker == <<upc, AnyWaiters, FilterSpuriousWakeups>>
vars     == <<pthread, Event, nParked, self, unparker>>

PCs  == {"running", "lock", "test", "wait", "asleep", "destroy", "init",
         "woken", "done", "zero", "unlock"}
UPCs == {"idle", "lock", "signal_locked", "unlock", "signal"}

TypeOK ==
  /\ PthreadTypeOK
  /\ Event \in {-1, 0, 1} /\ nParked \in {0, 1}
  /\ pc \in PCs /\ timed \in BOOLEAN /\ status \in {"0", "EINTR", "ETIMEDOUT"}
  /\ upc \in [Unparkers -> UPCs] /\ AnyWaiters \in [Unparkers -> {0, 1}]
  /\ FilterSpuriousWakeups \in BOOLEAN

Init ==
  /\ PthreadInit
  /\ Event = 0 /\ nParked = 0
  /\ pc = "running" /\ timed = FALSE /\ status = "0"
  /\ upc = [u \in Unparkers |-> "idle"]
  /\ AnyWaiters = [u \in Unparkers |-> 0]
  /\ FilterSpuriousWakeups \in BOOLEAN

-----------------------------------------------------------------------------
(* park(), park(millis) and TryPark(), by the associated thread *)

\* TryPark, and reset(), which stores 0 without looking.
TryPark ==
  /\ pc = "running"
  /\ Event' = 0
  /\ UNCHANGED <<pthread, nParked, self, unparker>>

\* The prologue of both forms of park: take the permit, or announce the block.
park ==
  /\ pc = "running"
  /\ Event' = Event - 1
  /\ pc' = IF Event = 0 THEN "lock" ELSE "running"
  /\ timed' \in BOOLEAN
  /\ UNCHANGED <<pthread, nParked, status, unparker>>

park_lock ==
  /\ pc = "lock"
  /\ pthread_mutex_lock(Self)
  /\ nParked' = nParked + 1
  /\ pc' = "test"
  /\ UNCHANGED <<Event, timed, status, unparker>>

\* while (_Event < 0)
park_test ==
  /\ pc = "test"
  /\ pc' = IF Event < 0 THEN "wait" ELSE "done"
  /\ UNCHANGED <<pthread, Event, nParked, timed, status, unparker>>

park_wait ==
  /\ pc = "wait"
  /\ pthread_cond_wait
  /\ pc' = "asleep" /\ status' = "0"
  /\ UNCHANGED <<Event, nParked, timed, unparker>>

\* The wait ends without a signal; Self still has to get the mutex back.
park_spurious ==
  /\ pc = "asleep"
  /\ cond_wakeup
  /\ status' \in {"0", "EINTR"}
  /\ UNCHANGED <<Event, nParked, pc, timed, unparker>>

park_timeout ==
  /\ pc = "asleep" /\ timed
  /\ cond_timeout
  /\ status' = "ETIMEDOUT"
  /\ UNCHANGED <<Event, nParked, pc, timed, unparker>>

Reinit == timed /\ status # "0" /\ WorkAroundNPTLTimedWaitHang

\* Variant: the condition variable is not reinitialised after a timeout.
park_wake_noReinit ==
  /\ pc = "asleep" /\ ~asleep
  /\ pthread_mutex_lock(Self)
  /\ pc' = "woken"
  /\ UNCHANGED <<Event, nParked, timed, status, unparker>>

park_wake ==
  /\ pc = "asleep" /\ ~asleep
  /\ pthread_mutex_lock(Self)
  /\ pc' = IF Reinit THEN "destroy" ELSE "woken"
  /\ UNCHANGED <<Event, nParked, timed, status, unparker>>

park_destroy ==
  /\ pc = "destroy"
  /\ pthread_cond_destroy
  /\ pc' = "init"
  /\ UNCHANGED <<Event, nParked, timed, status, unparker>>

park_init ==
  /\ pc = "init"
  /\ pthread_cond_init
  /\ pc' = "woken"
  /\ UNCHANGED <<Event, nParked, timed, status, unparker>>

\* Variant: any wakeup ends the wait.
park_woken_unfiltered ==
  /\ pc = "woken"
  /\ pc' = "done"
  /\ UNCHANGED <<pthread, Event, nParked, timed, status, unparker>>

\* A timed wait leaves the loop on a timeout, and after any wakeup under
\* -XX:-FilterSpuriousWakeups; otherwise the loop tests _Event again.
park_woken ==
  /\ pc = "woken"
  /\ pc' = IF timed /\ (status = "ETIMEDOUT" \/ ~FilterSpuriousWakeups)
           THEN "done" ELSE "test"
  /\ UNCHANGED <<pthread, Event, nParked, timed, status, unparker>>

park_done ==
  /\ pc = "done"
  /\ nParked' = nParked - 1
  /\ pc' = "zero"
  /\ UNCHANGED <<pthread, Event, timed, status, unparker>>

\* _Event = 0 is a plain store: it also absorbs an unpark that arrived after
\* the loop, or after a timeout.
park_zero ==
  /\ pc = "zero"
  /\ Event' = 0
  /\ pc' = "unlock"
  /\ UNCHANGED <<pthread, nParked, timed, status, unparker>>

park_unlock ==
  /\ pc = "unlock"
  /\ pthread_mutex_unlock(Self)
  /\ pc' = "running"
  /\ UNCHANGED <<Event, nParked, timed, status, unparker>>

-----------------------------------------------------------------------------
(* unpark() *)

UGoto(u, l) == upc' = [upc EXCEPT ![u] = l]

\* A permit is pending already: ratify it and return, changing nothing.
unpark_pending(u) ==
  /\ upc[u] = "idle" /\ Event > 0
  /\ UNCHANGED vars

unpark(u) ==
  /\ upc[u] = "idle" /\ Event <= 0
  /\ Event' = Event + 1
  /\ UGoto(u, IF Event < 0 THEN "lock" ELSE "idle")
  /\ UNCHANGED <<pthread, nParked, self, AnyWaiters>>

\* Variant: _nParked is read, and the signal sent, without the mutex.
unpark_lock_unlocked(u) ==
  /\ upc[u] = "lock"
  /\ AnyWaiters' = [AnyWaiters EXCEPT ![u] = nParked]
  /\ UGoto(u, IF nParked # 0 THEN "signal" ELSE "idle")
  /\ UNCHANGED <<pthread, Event, nParked, self>>

unpark_lock(u) ==
  /\ upc[u] = "lock"
  /\ pthread_mutex_lock(u)
  /\ AnyWaiters' = [AnyWaiters EXCEPT ![u] = nParked]
  /\ UGoto(u, IF nParked # 0 /\ WorkAroundNPTLTimedWaitHang
              THEN "signal_locked" ELSE "unlock")
  /\ UNCHANGED <<Event, nParked, self>>

unpark_signal_locked(u) ==
  /\ upc[u] = "signal_locked"
  /\ pthread_cond_signal
  /\ AnyWaiters' = [AnyWaiters EXCEPT ![u] = 0]
  /\ UGoto(u, "unlock")
  /\ UNCHANGED <<Event, nParked, self>>

unpark_unlock(u) ==
  /\ upc[u] = "unlock"
  /\ pthread_mutex_unlock(u)
  /\ UGoto(u, IF AnyWaiters[u] # 0 THEN "signal" ELSE "idle")
  /\ UNCHANGED <<Event, nParked, self, AnyWaiters>>

unpark_signal(u) ==
  /\ upc[u] = "signal"
  /\ pthread_cond_signal
  /\ UGoto(u, "idle")
  /\ UNCHANGED <<Event, nParked, self, AnyWaiters>>

-----------------------------------------------------------------------------
\* Steps Self takes without being asked to: everything after park's prologue
\* except how the wait ends.
Blocking ==
  \/ park_lock \/ park_test \/ park_wait \/ park_wake \/ park_destroy
  \/ park_init \/ park_woken \/ park_done \/ park_zero \/ park_unlock

Unparking(u) ==
  \/ unpark_lock(u) \/ unpark_signal_locked(u) \/ unpark_unlock(u)
  \/ unpark_signal(u)

Next ==
  \/ TryPark \/ park \/ Blocking \/ park_spurious \/ park_timeout
  \/ \E u \in Unparkers : unpark(u) \/ unpark_pending(u) \/ Unparking(u)

Spec == Init /\ [][Next]_vars

\* A runnable thread is scheduled, and gets a mutex once it stays free.  No
\* wakeup and no timeout is assumed.
Fairness ==
  WF_vars(Blocking) /\ \A u \in Unparkers : WF_vars(Unparking(u))

FairSpec == Spec /\ Fairness

-----------------------------------------------------------------------------
(* Properties *)

\* The guarantees of park, park(millis) and TryPark: the thread never starts to
\* park on an event that says it is parked already, whatever unparks, timeouts
\* and spurious wakeups its last park met.
Guarantees ==
  /\ pc = "running" => Event \in {0, 1} /\ nParked = 0
  /\ pc = "lock" => nParked = 0

\* The reason for signalling inside the mutex, os_linux.cpp 4417-4421: no signal
\* reaches a condition variable that is being reinitialised.
CondAlive ==
  \A u \in Unparkers :
     upc[u] \in {"signal_locked", "signal"} => cond # "destroyed"

\* Unparkers that have yet to deliver the signal they owe.
Signalling ==
  {u \in Unparkers : \/ upc[u] \in {"lock", "signal_locked", "signal"}
                     \/ upc[u] = "unlock" /\ AnyWaiters[u] # 0}

\* A thread asleep on its event although it has been unparked is about to be
\* signalled, on a condition variable that still works.
NoLostWakeup ==
  pc = "asleep" /\ asleep /\ Event >= 0 => cond = "ok" /\ Signalling # {}

\* The permit: an unpark of a blocked thread is the step from -1 to 0.
Blocked == pc \notin {"running", "unlock"}
Semaphore == INSTANCE AbstractEvent
  WITH permit <- IF Blocked THEN Event >= 0 ELSE Event = 1,
       mode <- IF ~Blocked THEN "running"
               ELSE IF timed THEN "timedpark" ELSE "park"

\* A PlatformEvent is a binary semaphore: no unpark is lost, none counts twice,
\* and only park(millis) returns without one.
ImplementsEvent == Semaphore!Spec

\* A parked thread that has been unparked returns, with no timeout and no
\* spurious wakeup to help it.
Wakeup == pc # "running" /\ Event >= 0 ~> pc = "running"
=============================================================================
