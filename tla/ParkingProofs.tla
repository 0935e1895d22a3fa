--------------------------- MODULE ParkingProofs ---------------------------
(***************************************************************************)
(* Proofs about the two places a thread can block in, PlatformEvent and    *)
(* Parker, for every set of unparkers and interrupters, and about the free *)
(* list they come from, ParkEventList, for every set of threads and events. *)
(***************************************************************************)
EXTENDS PlatformEvent, Parker, ParkEventList, FiniteSetTheorems, TLAPS

-----------------------------------------------------------------------------
(* PlatformEvent.  Its inductive invariant, in parts.                      *)

\* Self holds the mutex in the part of park() between lock and unlock, except
\* while it waits; an unparker holds it while it decides and signals.
SelfHolds == {"test", "wait", "destroy", "init", "woken", "done", "zero", "unlock"}
MutexInv ==
  /\ mutex = Self <=> pc \in SelfHolds
  /\ \A u \in Unparkers : mutex = u <=> upc[u] \in {"signal_locked", "unlock"}

\* _nParked counts Self from the lock to the end of the loop.
ParkedInv ==
  nParked = IF pc \in {"test", "wait", "asleep", "destroy", "init", "woken", "done"}
            THEN 1 ELSE 0

\* _Event is not negative outside the block, and park() without a timeout does
\* not leave its loop before it has been unparked.
EventInv ==
  /\ pc \in {"running", "unlock"} => Event >= 0
  /\ pc \in {"done", "zero"} /\ ~timed => Event >= 0

\* The condition variable is dead only during its reinitialisation, and
\* corrupt only from a timeout to the reinitialisation that follows.
CondInv ==
  /\ cond = "destroyed" <=> pc = "init"
  /\ cond = "corrupt" => /\ pc \in {"asleep", "destroy"} /\ ~asleep
                         /\ timed /\ status = "ETIMEDOUT"
                         /\ WorkAroundNPTLTimedWaitHang
  /\ pc \in {"destroy", "init"} => WorkAroundNPTLTimedWaitHang
  /\ asleep => pc = "asleep"
  /\ TimedWaitHang => WorkAroundNPTLTimedWaitHang

\* With the workaround no signal is sent after the unlock.
SignalInv ==
  \A u \in Unparkers :
    \/ upc[u] = "signal"
    \/ upc[u] = "unlock" /\ AnyWaiters[u] # 0
    => ~WorkAroundNPTLTimedWaitHang

\* An unpark that finds Self between the test of _Event and the wait has still
\* to get the mutex, so its signal comes after the wait has begun.
OwedInv ==
  /\ pc = "wait" /\ Event >= 0 => \E u \in Unparkers : upc[u] = "lock"
  /\ asleep /\ Event >= 0 => \E u \in Unparkers : u \in Signalling

Inv == TypeOK /\ MutexInv /\ ParkedInv /\ EventInv /\ CondInv /\ SignalInv /\ OwedInv

-----------------------------------------------------------------------------
\* A new event satisfies the invariant.
LEMMA InvInit == ASSUME Init PROVE Inv
<1> USE PthreadAssumption DEF Init, PthreadInit
<1>1. TypeOK
  BY DEF TypeOK, PthreadTypeOK, PCs, UPCs
<1>2. MutexInv
  BY DEF MutexInv, SelfHolds
<1>3. ParkedInv /\ EventInv /\ CondInv
  BY DEF ParkedInv, EventInv, CondInv
<1>4. SignalInv /\ OwedInv
  BY DEF SignalInv, OwedInv
<1> QED
  BY <1>1, <1>2, <1>3, <1>4 DEF Inv

\* Each step of park, TryPark and unpark preserves it.
LEMMA InvStep == ASSUME Inv, [Next]_vars PROVE Inv'
<1> USE PthreadAssumption
    DEF Inv, TypeOK, PthreadTypeOK, PCs, UPCs, MutexInv, SelfHolds, ParkedInv, EventInv,
        CondInv, SignalInv, OwedInv, Signalling, pthread, config, self, unparker
<1>1. CASE TryPark
  BY <1>1 DEF TryPark
<1>2. CASE park
  BY <1>2 DEF park
<1>3. CASE park_lock
  BY <1>3 DEF park_lock, pthread_mutex_lock
<1>4. CASE park_test
  BY <1>4 DEF park_test
<1>5. CASE park_wait
  BY <1>5 DEF park_wait, pthread_cond_wait
<1>6. CASE park_spurious
  BY <1>6, ZenonT(40) DEF park_spurious, cond_wakeup
<1>7. CASE park_timeout
  BY <1>7 DEF park_timeout, cond_timeout
<1>8. CASE park_wake
  BY <1>8 DEF park_wake, pthread_mutex_lock, Reinit
<1>9. CASE park_destroy
  BY <1>9 DEF park_destroy, pthread_cond_destroy
<1>10. CASE park_init
  BY <1>10 DEF park_init, pthread_cond_init
<1>11. CASE park_woken
  BY <1>11 DEF park_woken
<1>12. CASE park_done
  BY <1>12 DEF park_done
<1>13. CASE park_zero
  BY <1>13 DEF park_zero
<1>14. CASE park_unlock
  BY <1>14 DEF park_unlock, pthread_mutex_unlock
<1>15. ASSUME NEW u \in Unparkers, unpark_pending(u) PROVE Inv'
  BY <1>15 DEF unpark_pending, vars
<1>16. ASSUME NEW u \in Unparkers, unpark(u) PROVE Inv'
  BY <1>16 DEF unpark, UGoto
<1>17. ASSUME NEW u \in Unparkers, unpark_lock(u) PROVE Inv'
  BY <1>17 DEF unpark_lock, UGoto, pthread_mutex_lock
<1>18. ASSUME NEW u \in Unparkers, unpark_signal_locked(u) PROVE Inv'
  <2>1. ~asleep'
    BY <1>18 DEF unpark_signal_locked, pthread_cond_signal
  <2>2. pc # "wait"
    BY <1>18 DEF unpark_signal_locked
  <2>3. OwedInv'
    BY <1>18, <2>1, <2>2 DEF unpark_signal_locked
  <2>4. TypeOK' /\ MutexInv' /\ ParkedInv' /\ EventInv'
    BY <1>18, <2>1 DEF unpark_signal_locked, UGoto, pthread_cond_signal
  <2>5. CondInv' /\ SignalInv'
    BY <1>18, <2>1 DEF unpark_signal_locked, UGoto, pthread_cond_signal
  <2> QED
    BY <2>3, <2>4, <2>5
<1>19. ASSUME NEW u \in Unparkers, unpark_unlock(u) PROVE Inv'
  BY <1>19 DEF unpark_unlock, UGoto, pthread_mutex_unlock
<1>20. ASSUME NEW u \in Unparkers, unpark_signal(u) PROVE Inv'
  BY <1>20 DEF unpark_signal, UGoto, pthread_cond_signal
<1>21. CASE UNCHANGED vars
  BY <1>21 DEF vars
<1> HIDE DEF Inv
<1> QED
  BY <1>1, <1>2, <1>3, <1>4, <1>5, <1>6, <1>7, <1>8, <1>9, <1>10, <1>11, <1>12, <1>13, <1>14, <1>15, <1>16, <1>17, <1>18, <1>19, <1>20, <1>21
  DEF Next, Blocking, Unparking

\* The safety invariants follow.
LEMMA InvImplies ==
  ASSUME Inv PROVE TypeOK /\ Guarantees /\ CondAlive /\ NoLostWakeup
<1> USE PthreadAssumption DEF Inv
<1>1. TypeOK
  OBVIOUS
<1>2. Guarantees
  BY DEF TypeOK, ParkedInv, EventInv, Guarantees
<1>3. CondAlive
  BY DEF MutexInv, SelfHolds, CondInv, SignalInv, CondAlive, TypeOK, UPCs
<1>4. NoLostWakeup
  BY DEF TypeOK, PthreadTypeOK, CondInv, OwedInv, NoLostWakeup
<1> QED
  BY <1>1, <1>2, <1>3, <1>4

\* The invariant holds in every reachable state.
LEMMA InvAlways == Spec => []Inv
<1>1. Init => Inv
  BY InvInit
<1>2. Inv /\ [Next]_vars => Inv'
  BY InvStep
<1> QED
  BY <1>1, <1>2, PTL DEF Spec

\* A thread asleep in os::PlatformEvent::park although its event has been
\* unparked is about to be signalled, however many threads unpark it, with and
\* without the reinitialisation of the condition variable.
THEOREM NoLostWakeupCorrect == Spec => []NoLostWakeup
  BY InvAlways, InvImplies, PTL

\* No thread starts to park on an event that says it is parked already, whatever
\* ended its last park.
THEOREM GuaranteesCorrect == Spec => [](TypeOK /\ Guarantees)
  BY InvAlways, InvImplies, PTL

\* unpark never signals a condition variable between its destruction and its
\* reinitialisation.
THEOREM CondAliveCorrect == Spec => []CondAlive
  BY InvAlways, InvImplies, PTL

-----------------------------------------------------------------------------
(* Refinement of AbstractEvent. *)

\* A step that changes neither _Event, nor whether Self is blocked, nor how, is a
\* stuttering step of the semaphore.
LEMMA Stutter ==
  ASSUME UNCHANGED <<Event, timed>>, Blocked' <=> Blocked
  PROVE  UNCHANGED Semaphore!vars
  BY DEF Semaphore!vars, Blocked

\* Each step of the event is a step of the semaphore.
LEMMA EventStep ==
  ASSUME Inv, [Next]_vars PROVE [Semaphore!Next]_(Semaphore!vars)
<1> USE DEF Blocked, pthread, config, self, unparker
<1>1. CASE TryPark
  <2>1. Semaphore!Take
    BY <1>1 DEF TryPark, Semaphore!Take
  <2> QED
    BY <2>1 DEF Semaphore!Next
<1>2. CASE park /\ Event = 1
  <2>1. Semaphore!Take
    BY <1>2 DEF park, Semaphore!Take
  <2> QED
    BY <2>1 DEF Semaphore!Next
<1>3. CASE park /\ Event = 0
  <2>1. timed' \in BOOLEAN
    BY <1>3 DEF park
  <2>2. Semaphore!Block
    BY <1>3, <2>1 DEF park, Semaphore!Block
  <2> QED
    BY <2>2 DEF Semaphore!Next
<1>4. CASE park_zero
  <2>1. timed \/ Event >= 0
    BY <1>4 DEF park_zero, Inv, EventInv
  <2>2. Semaphore!Return
    BY <1>4, <2>1 DEF park_zero, Semaphore!Return
  <2> QED
    BY <2>2 DEF Semaphore!Next
<1>5. ASSUME NEW u \in Unparkers, unpark(u) PROVE Semaphore!Next
  <2>1. Event \in {-1, 0} /\ (~Blocked => Event = 0)
    BY <1>5 DEF unpark, Inv, TypeOK, EventInv
  <2>2. Semaphore!Unpark
    BY <1>5, <2>1 DEF unpark, Semaphore!Unpark
  <2> QED
    BY <2>2 DEF Semaphore!Next
<1>6. park => Event \in {0, 1}
  BY DEF park, Inv, TypeOK, EventInv
<1>7. CASE park_lock
  BY <1>7, Stutter DEF park_lock
<1>8. CASE park_test
  BY <1>8, Stutter DEF park_test
<1>9. CASE park_wait
  BY <1>9, Stutter DEF park_wait
<1>10. CASE park_spurious
  BY <1>10, Stutter DEF park_spurious
<1>11. CASE park_timeout
  BY <1>11, Stutter DEF park_timeout
<1>12. CASE park_wake
  BY <1>12, Stutter DEF park_wake
<1>13. CASE park_destroy
  BY <1>13, Stutter DEF park_destroy
<1>14. CASE park_init
  BY <1>14, Stutter DEF park_init
<1>15. CASE park_woken
  BY <1>15, Stutter DEF park_woken
<1>16. CASE park_done
  BY <1>16, Stutter DEF park_done
<1>17. CASE park_unlock
  BY <1>17, Stutter DEF park_unlock
<1>18. ASSUME NEW u \in Unparkers, unpark_pending(u) PROVE UNCHANGED Semaphore!vars
  BY <1>18, Stutter DEF unpark_pending, vars
<1>19. ASSUME NEW u \in Unparkers, unpark_lock(u) PROVE UNCHANGED Semaphore!vars
  BY <1>19, Stutter DEF unpark_lock
<1>20. ASSUME NEW u \in Unparkers, unpark_signal_locked(u) PROVE UNCHANGED Semaphore!vars
  BY <1>20, Stutter DEF unpark_signal_locked
<1>21. ASSUME NEW u \in Unparkers, unpark_unlock(u) PROVE UNCHANGED Semaphore!vars
  BY <1>21, Stutter DEF unpark_unlock
<1>22. ASSUME NEW u \in Unparkers, unpark_signal(u) PROVE UNCHANGED Semaphore!vars
  BY <1>22, Stutter DEF unpark_signal
<1>23. CASE UNCHANGED vars
  BY <1>23, Stutter DEF vars
<1> QED
  BY <1>1, <1>2, <1>3, <1>4, <1>5, <1>6, <1>7, <1>8, <1>9, <1>10, <1>11, <1>12, <1>13, <1>14, <1>15, <1>16, <1>17, <1>18, <1>19, <1>20, <1>21, <1>22, <1>23
  DEF Next, Blocking, Unparking

\* os::PlatformEvent implements the binary semaphore that its users rely on: no
\* unpark is lost, none counts twice, and only park(millis) returns without one.
THEOREM ImplementsEventCorrect == Spec => ImplementsEvent
<1>1. Init => Semaphore!Init
  BY DEF Init, Semaphore!Init, Blocked
<1>2. Inv /\ [Next]_vars => [Semaphore!Next]_(Semaphore!vars)
  BY EventStep
<1> QED
  BY <1>1, <1>2, InvAlways, PTL DEF Spec, ImplementsEvent, Semaphore!Spec

-----------------------------------------------------------------------------
(* Parker.  Its inductive invariant, in parts.                             *)

\* Self holds the mutex from the lock to the unlock, except while it waits; an
\* unparker holds it while it sets the permit.
ParkerSelfHolds == {"check", "wait", "destroy", "init", "zero", "unlock"}
UnparkerHolds == {"set", "signal_locked", "unlock_signal", "unlock"}
ParkerMutexInv ==
  /\ mutex = Self <=> park_pc \in ParkerSelfHolds
  /\ \A u \in Unparkers : mutex = u <=> unpark_pc[u] \in UnparkerHolds

\* The condition variable is dead only during its reinitialisation, and
\* corrupt only from a timeout to the reinitialisation that follows.
ParkerCondInv ==
  /\ cond = "destroyed" <=> park_pc = "init"
  /\ cond = "corrupt" => /\ park_pc \in {"asleep", "destroy"} /\ ~asleep
                         /\ time = ">0" /\ park_status = "ETIMEDOUT"
                         /\ WorkAroundNPTLTimedWaitHang
  /\ park_pc \in {"destroy", "init"} => WorkAroundNPTLTimedWaitHang
  /\ asleep => park_pc = "asleep"
  /\ TimedWaitHang => WorkAroundNPTLTimedWaitHang

\* With the workaround no signal is sent after the unlock.
ParkerSignalInv ==
  \A u \in Unparkers :
    unpark_pc[u] \in {"unlock_signal", "signal"} => ~WorkAroundNPTLTimedWaitHang

\* There is no permit when the wait begins, since it is set under the mutex;
\* whoever sets it during the wait owes a signal.
PermitInv ==
  /\ park_pc = "wait" => counter = 0
  /\ asleep /\ counter = 1 =>
       \E u \in Unparkers : unpark_pc[u] \in {"signal_locked", "unlock_signal", "signal"}

\* From the last look at the interrupt flag to the end of the wait, an interrupt
\* has a permit behind it or on its way.
InterruptInv ==
  interrupted /\ (park_pc \in {"trylock", "check", "wait"} \/ asleep) =>
    counter = 1 \/ \E u \in Unparkers : unpark_pc[u] \in {"lock", "set"}

ParkerInv == ParkerTypeOK /\ ParkerMutexInv /\ ParkerCondInv /\ ParkerSignalInv /\ PermitInv /\ InterruptInv

-----------------------------------------------------------------------------
\* A new Parker satisfies the invariant.
LEMMA ParkerInvInit == ASSUME ParkerInit PROVE ParkerInv
<1> USE PthreadAssumption DEF ParkerInit, PthreadInit
<1>1. ParkerTypeOK
  BY DEF ParkerTypeOK, PthreadTypeOK, ParkPCs, UnparkPCs
<1>2. ParkerMutexInv
  BY DEF ParkerMutexInv, ParkerSelfHolds, UnparkerHolds
<1>3. ParkerCondInv /\ ParkerSignalInv
  BY DEF ParkerCondInv, ParkerSignalInv
<1>4. PermitInv /\ InterruptInv
  BY DEF PermitInv, InterruptInv
<1> QED
  BY <1>1, <1>2, <1>3, <1>4 DEF ParkerInv

\* Each step of park, unpark and os::interrupt preserves it.
LEMMA ParkerInvStep == ASSUME ParkerInv, [ParkerNext]_parker_vars PROVE ParkerInv'
<1> USE PthreadAssumption
    DEF ParkerInv, ParkerTypeOK, PthreadTypeOK, ParkPCs, UnparkPCs, ParkerMutexInv, ParkerSelfHolds, UnparkerHolds,
        ParkerCondInv, ParkerSignalInv, PermitInv, InterruptInv, pthread, config, parker_self
<1>1. CASE Parker_park
  BY <1>1 DEF Parker_park
<1>2. CASE Parker_park_fast
  BY <1>2 DEF Parker_park_fast
<1>3. CASE Parker_park_interrupted
  BY <1>3 DEF Parker_park_interrupted
<1>4. CASE Parker_park_region
  BY <1>4 DEF Parker_park_region
<1>5. CASE Parker_park_trylock
  BY <1>5 DEF Parker_park_trylock, pthread_mutex_lock
<1>6. CASE Parker_park_busy
  BY <1>6 DEF Parker_park_busy
<1>7. CASE Parker_park_check
  BY <1>7 DEF Parker_park_check
<1>8. CASE Parker_park_wait
  BY <1>8 DEF Parker_park_wait, pthread_cond_wait
<1>9. CASE Parker_park_spurious
  BY <1>9 DEF Parker_park_spurious, cond_wakeup
<1>10. CASE Parker_park_timeout
  BY <1>10 DEF Parker_park_timeout, cond_timeout
<1>11. CASE Parker_park_wake
  BY <1>11 DEF Parker_park_wake, pthread_mutex_lock, Parker_reinit
<1>12. CASE Parker_park_destroy
  BY <1>12 DEF Parker_park_destroy, pthread_cond_destroy
<1>13. CASE Parker_park_init
  BY <1>13 DEF Parker_park_init, pthread_cond_init
<1>14. CASE Parker_park_zero
  BY <1>14 DEF Parker_park_zero
<1>15. CASE Parker_park_unlock
  BY <1>15 DEF Parker_park_unlock, pthread_mutex_unlock
<1>16. CASE is_interrupted
  BY <1>16 DEF is_interrupted
<1>17. ASSUME NEW u \in Unparkers, interrupt(u) PROVE ParkerInv'
  BY <1>17 DEF interrupt, UnparkGoto
<1>18. ASSUME NEW u \in Unparkers, set_interrupted(u) PROVE ParkerInv'
  BY <1>18 DEF set_interrupted, UnparkGoto
<1>19. ASSUME NEW u \in Unparkers, Parker_unpark(u) PROVE ParkerInv'
  BY <1>19 DEF Parker_unpark, UnparkGoto
<1>20. ASSUME NEW u \in Unparkers, Parker_unpark_lock(u) PROVE ParkerInv'
  BY <1>20 DEF Parker_unpark_lock, UnparkGoto, pthread_mutex_lock
<1>21. ASSUME NEW u \in Unparkers, Parker_unpark_set(u) PROVE ParkerInv'
  BY <1>21 DEF Parker_unpark_set, UnparkGoto
<1>22. ASSUME NEW u \in Unparkers, Parker_unpark_signal_locked(u) PROVE ParkerInv'
  <2>1. ~asleep'
    BY <1>22 DEF Parker_unpark_signal_locked, pthread_cond_signal
  <2>2. ParkerTypeOK' /\ ParkerMutexInv' /\ ParkerSignalInv'
    BY <1>22, <2>1 DEF Parker_unpark_signal_locked, UnparkGoto, pthread_cond_signal
  <2>3. ParkerCondInv' /\ PermitInv'
    BY <1>22, <2>1 DEF Parker_unpark_signal_locked, UnparkGoto, pthread_cond_signal
  <2>4. InterruptInv'
    BY <1>22, <2>1 DEF Parker_unpark_signal_locked, UnparkGoto, pthread_cond_signal
  <2> QED
    BY <2>2, <2>3, <2>4
<1>23. ASSUME NEW u \in Unparkers, Parker_unpark_unlock(u) PROVE ParkerInv'
  BY <1>23 DEF Parker_unpark_unlock, UnparkGoto, pthread_mutex_unlock
<1>24. ASSUME NEW u \in Unparkers, Parker_unpark_signal(u) PROVE ParkerInv'
  BY <1>24 DEF Parker_unpark_signal, UnparkGoto, pthread_cond_signal
<1>25. CASE UNCHANGED parker_vars
  BY <1>25 DEF parker_vars
<1> HIDE DEF ParkerInv
<1> QED
  BY <1>1, <1>2, <1>3, <1>4, <1>5, <1>6, <1>7, <1>8, <1>9, <1>10, <1>11, <1>12, <1>13, <1>14, <1>15, <1>16, <1>17, <1>18, <1>19, <1>20, <1>21, <1>22, <1>23, <1>24, <1>25
  DEF ParkerNext, Parker_parking, Parker_unparking

\* The safety invariants follow.
LEMMA ParkerInvImplies ==
  ASSUME ParkerInv PROVE ParkerTypeOK /\ ParkerCondAlive /\ NoLostPermit /\ InterruptSeen
<1> USE PthreadAssumption DEF ParkerInv
<1>1. ParkerTypeOK
  OBVIOUS
<1>2. ParkerCondAlive
  BY DEF ParkerMutexInv, ParkerSelfHolds, UnparkerHolds, ParkerCondInv, ParkerSignalInv, ParkerCondAlive
<1>3. NoLostPermit
  BY DEF ParkerTypeOK, PthreadTypeOK, ParkerCondInv, PermitInv, NoLostPermit
<1>4. InterruptSeen
  BY DEF InterruptInv, InterruptSeen
<1> QED
  BY <1>1, <1>2, <1>3, <1>4

\* The invariant holds in every reachable state.
LEMMA ParkerInvAlways == ParkerSpec => []ParkerInv
<1>1. ParkerInit => ParkerInv
  BY ParkerInvInit
<1>2. ParkerInv /\ [ParkerNext]_parker_vars => ParkerInv'
  BY ParkerInvStep
<1> QED
  BY <1>1, <1>2, PTL DEF ParkerSpec

\* A thread asleep in Parker::park with a permit set is about to be signalled,
\* although an unpark that finds the permit set sends no signal.
THEOREM NoLostPermitCorrect == ParkerSpec => []NoLostPermit
  BY ParkerInvAlways, ParkerInvImplies, PTL

\* A thread asleep in Parker::park with its interrupt flag set is about to be
\* unparked, although park reads the flag before it takes the mutex.
THEOREM InterruptSeenCorrect == ParkerSpec => []InterruptSeen
  BY ParkerInvAlways, ParkerInvImplies, PTL

\* Parker::unpark never signals a condition variable that is being
\* reinitialised, and the types are kept.
THEOREM ParkerCondAliveCorrect == ParkerSpec => [](ParkerTypeOK /\ ParkerCondAlive)
  BY ParkerInvAlways, ParkerInvImplies, PTL

-----------------------------------------------------------------------------
(* ParkEventList.                                                          *)
(*                                                                         *)
(* What is reachable along the links is the least set they do not lead out *)
(* of, so each fact about a list (its head and the rest, links changed     *)
(* elsewhere, one list appended to another) is a comparison of two such    *)
(* sets.  With them each step moves some events from one place to another, *)
(* or none; a link is changed only by the thread that has the event.       *)

-----------------------------------------------------------------------------
(* What is reachable.                                                      *)

\* Nothing is reachable from NULL.
LEMMA ReachNull == \A next : Reach(next, NULL) = {}
<1> SUFFICES ASSUME NEW next, NEW e \in Reach(next, NULL) PROVE FALSE
  OBVIOUS
<1>1. {} \in SUBSET Events /\ NULL \in {} \cup {NULL} /\ \A d \in {} : next[d] \in {} \cup {NULL}
  OBVIOUS
<1>2. e \in {}
  BY <1>1 DEF Reach
<1> QED
  BY <1>2

\* What is reachable contains its head, and next does not lead out of it.
LEMMA ReachClosed ==
  ASSUME NEW next \in [Events -> Ptr], NEW p \in Ptr
  PROVE  /\ Reach(next, p) \in SUBSET Events
         /\ p \in Reach(next, p) \cup {NULL}
         /\ \A d \in Reach(next, p) : next[d] \in Reach(next, p) \cup {NULL}
<1>1. Reach(next, p) \in SUBSET Events
  BY DEF Reach
<1>2. p \in Reach(next, p) \cup {NULL}
  BY DEF Reach, Ptr
<1>3. ASSUME NEW d \in Reach(next, p), next[d] # NULL
      PROVE  next[d] \in Reach(next, p)
  <2>1. d \in Events /\ next[d] \in Events
    BY <1>1, <1>3 DEF Ptr
  <2>2. ASSUME NEW S \in SUBSET Events, p \in S \cup {NULL},
               \A c \in S : next[c] \in S \cup {NULL}
        PROVE  next[d] \in S
    <3>1. d \in S
      BY <1>3, <2>2 DEF Reach
    <3> QED
      BY <1>3, <2>2, <3>1
  <2> QED
    BY <2>1, <2>2 DEF Reach
<1> QED
  BY <1>1, <1>2, <1>3

\* It is the least such set.
LEMMA ReachLeast ==
  ASSUME NEW next, NEW p, NEW S \in SUBSET Events, p \in S \cup {NULL},
         \A d \in S : next[d] \in S \cup {NULL}
  PROVE  Reach(next, p) \subseteq S
BY DEF Reach

\* From an event one reaches that event and what its link reaches.
LEMMA ReachCons ==
  ASSUME NEW next \in [Events -> Ptr], NEW e \in Events
  PROVE  Reach(next, e) = {e} \cup Reach(next, next[e])
<1> DEFINE R == Reach(next, e)  Q == Reach(next, next[e])
<1>0. next[e] \in Ptr /\ e \in Ptr /\ e # NULL
  BY ListAssumption DEF Ptr
<1>1. /\ Q \in SUBSET Events /\ next[e] \in Q \cup {NULL}
      /\ \A d \in Q : next[d] \in Q \cup {NULL}
  BY <1>0, ReachClosed
<1>2. /\ R \in SUBSET Events /\ e \in R
      /\ \A d \in R : next[d] \in R \cup {NULL}
  BY <1>0, ReachClosed
<1> HIDE DEF R, Q
<1>3. R \subseteq {e} \cup Q
  <2> DEFINE S == {e} \cup Q
  <2>1. S \in SUBSET Events /\ e \in S \cup {NULL} /\ \A d \in S : next[d] \in S \cup {NULL}
    BY <1>1
  <2> HIDE DEF S
  <2>2. Reach(next, e) \subseteq S
    BY <2>1, ReachLeast
  <2> QED
    BY <2>2 DEF S, R
<1>4. Q \subseteq R
  <2>1. next[e] \in R \cup {NULL}
    BY <1>2
  <2>2. Reach(next, next[e]) \subseteq R
    BY <1>2, <2>1, ReachLeast
  <2> QED
    BY <2>2 DEF Q
<1> QED
  BY <1>2, <1>3, <1>4 DEF R, Q

\* What is reachable from a member is reachable.
LEMMA ReachFrom ==
  ASSUME NEW next \in [Events -> Ptr], NEW p \in Ptr, NEW q \in Reach(next, p) \cup {NULL}
  PROVE  Reach(next, q) \subseteq Reach(next, p)
BY ReachClosed, ReachLeast

\* Links that agree on what is reachable reach the same.
LEMMA ReachFrame ==
  ASSUME NEW next \in [Events -> Ptr], NEW new \in [Events -> Ptr], NEW p \in Ptr,
         \A d \in Reach(next, p) : new[d] = next[d]
  PROVE  Reach(new, p) = Reach(next, p)
<1> DEFINE R == Reach(next, p)  Q == Reach(new, p)
<1>1. R \in SUBSET Events /\ p \in R \cup {NULL} /\ \A d \in R : next[d] \in R \cup {NULL}
  BY ReachClosed
<1>2. Q \in SUBSET Events /\ p \in Q \cup {NULL} /\ \A d \in Q : new[d] \in Q \cup {NULL}
  BY ReachClosed
<1>0. \A d \in R : new[d] = next[d]
  OBVIOUS
<1> HIDE DEF R, Q
<1>3. Q \subseteq R
  <2>1. \A d \in R : new[d] \in R \cup {NULL}
    BY <1>0, <1>1
  <2> QED
    BY <1>1, <2>1, ReachLeast DEF Q
<1>4. R \subseteq Q
  <2>1. \A d \in Q : next[d] \in Q \cup {NULL}
    BY <1>0, <1>2, <1>3
  <2> QED
    BY <1>2, <2>1, ReachLeast DEF R
<1> QED
  BY <1>3, <1>4 DEF R, Q

\* Appending the list at q behind the last event of the list at p.
LEMMA ReachAppend ==
  ASSUME NEW next \in [Events -> Ptr], NEW p \in Ptr, NEW q \in Ptr,
         NEW last \in Reach(next, p), next[last] = NULL,
         last \notin Reach(next, q), NEW new \in [Events -> Ptr], new[last] = q,
         \A d \in Events \ {last} : new[d] = next[d]
  PROVE  Reach(new, p) = Reach(next, p) \cup Reach(next, q)
<1> DEFINE P == Reach(next, p)  Q == Reach(next, q)  R == Reach(new, p)
<1>1. P \in SUBSET Events /\ p \in P \cup {NULL} /\ \A d \in P : next[d] \in P \cup {NULL}
  BY ReachClosed
<1>2. Q \in SUBSET Events /\ q \in Q \cup {NULL} /\ \A d \in Q : next[d] \in Q \cup {NULL}
  BY ReachClosed
<1>3. last \in P /\ last \notin Q /\ last \in Events
  BY <1>1
<1>4. new \in [Events -> Ptr] /\ new[last] = q /\ \A d \in Events \ {last} : new[d] = next[d]
  OBVIOUS
<1>5. R \in SUBSET Events /\ p \in R \cup {NULL} /\ \A d \in R : new[d] \in R \cup {NULL}
  BY <1>4, ReachClosed
<1>6. Reach(new, q) = Q
  BY <1>2, <1>3, <1>4, ReachFrame
<1> HIDE DEF P, Q, R
<1>7. R \subseteq P \cup Q
  <2> DEFINE S == P \cup Q
  <2>1. S \in SUBSET Events /\ p \in S \cup {NULL} /\ \A d \in S : new[d] \in S \cup {NULL}
    BY <1>1, <1>2, <1>3, <1>4
  <2> HIDE DEF S
  <2>2. Reach(new, p) \subseteq S
    BY <2>1, ReachLeast
  <2> QED
    BY <2>2 DEF S, R
<1>8. P \subseteq R
  <2>1. \A d \in R : next[d] \in R \cup {NULL}
    BY <1>4, <1>5
  <2> QED
    BY <1>5, <2>1, ReachLeast DEF P
<1>9. Q \subseteq R
  <2>1. q \in R \cup {NULL}
    BY <1>3, <1>4, <1>5, <1>8
  <2>2. Reach(new, q) \subseteq R
    BY <1>5, <2>1, ReachLeast
  <2> QED
    BY <1>6, <2>2
<1> QED
  BY <1>7, <1>8, <1>9 DEF P, Q, R

-----------------------------------------------------------------------------
(* The inductive invariant.                                                *)

\* What a thread has read is still so where it relies on it.
Local(t) ==
  /\ list_pc[t] \in {"attach", "arrivals", "merge"} => ev[t] \in Events /\ List[t] \in Events
  /\ list_pc[t] = "merge" => tail[t] \in Chain(List[t])
  /\ list_pc[t] = "cas" => FreeNext[ev[t]] = List[t]

LocalInv == \A t \in Threads : Local(t)

\* Every event materialised is in one place, and no other is anywhere.
Placed ==
  /\ \A e \in made : \E p \in Places : \A q \in Places : e \in At(q) <=> q = p
  /\ \A p \in Places : At(p) \subseteq made

\* The events on the lists, and that the lists are no rings.
Listed == Chain(FreeList) \cup UNION {Rest(t) \cup Arrivals(t) : t \in Threads}

Acyclic == \A e \in Listed : e \notin Chain(FreeNext[e])

ListInv == ListTypeOK /\ LocalInv /\ Placed /\ Acyclic

\* The places.
LEMMA PlacesAre ==
  /\ <<"list", NULL>> \in Places /\ At(<<"list", NULL>>) = Chain(FreeList)
  /\ <<"use", NULL>> \in Places /\ At(<<"use", NULL>>) = inUse
  /\ \A t \in Threads :
       /\ <<"hand", t>> \in Places /\ At(<<"hand", t>>) = InHand(t)
       /\ <<"rest", t>> \in Places /\ At(<<"rest", t>>) = Rest(t)
       /\ <<"arrivals", t>> \in Places /\ At(<<"arrivals", t>>) = Arrivals(t)
  /\ \A p \in Places : \/ p = <<"list", NULL>> \/ p = <<"use", NULL>>
                        \/ \E t \in Threads : p \in {<<"hand", t>>, <<"rest", t>>, <<"arrivals", t>>}
BY DEF Places, At

\* An event that is in two places is in one.
LEMMA Apart ==
  ASSUME Placed, NEW p \in Places, NEW q \in Places, NEW e, e \in At(p), e \in At(q)
  PROVE  p = q
BY DEF Placed

\* A step that moves events from place a to places b and c.
LEMMA Move ==
  ASSUME Placed, made' = made, NEW a \in Places, NEW b \in Places, NEW c \in Places,
         a # b, a # c, b # c, NEW X, NEW Y, X \cap Y = {}, X \cup Y \subseteq At(a),
         At(a)' = At(a) \ (X \cup Y), At(b)' = At(b) \cup X, At(c)' = At(c) \cup Y,
         \A q \in Places \ {a, b, c} : At(q)' = At(q)
  PROVE  Placed'
<1>0. Places' = Places
  BY DEF Places
<1>1. \A p \in Places : At(p)' \subseteq made
  BY DEF Placed
<1>2. ASSUME NEW e \in made
      PROVE  \E p \in Places : \A q \in Places : e \in At(q)' <=> q = p
  <2>1. PICK p \in Places : \A q \in Places : e \in At(q) <=> q = p
    BY DEF Placed
  <2>2. CASE e \in X
    <3>1. p = a /\ e \notin Y
      BY <2>1, <2>2
    <3>2. \A q \in Places : e \in At(q)' <=> q = b
      BY <2>1, <2>2, <3>1
    <3> QED BY <3>2
  <2>3. CASE e \in Y
    <3>1. p = a /\ e \notin X
      BY <2>1, <2>3
    <3>2. \A q \in Places : e \in At(q)' <=> q = c
      BY <2>1, <2>3, <3>1
    <3> QED BY <3>2
  <2>4. CASE e \notin X \cup Y
    <3>1. \A q \in Places : e \in At(q)' <=> q = p
      BY <2>1, <2>4
    <3> QED BY <3>1
  <2> QED BY <2>2, <2>3, <2>4
<1> QED BY <1>0, <1>1, <1>2 DEF Placed

\* A step that moves the events of X from place a to place b.
LEMMA MoveOne ==
  ASSUME Placed, made' = made, NEW a \in Places, NEW b \in Places, a # b, NEW X, X \subseteq At(a),
         At(a)' = At(a) \ X, At(b)' = At(b) \cup X, \A q \in Places \ {a, b} : At(q)' = At(q)
  PROVE  Placed'
<1>0. Places' = Places
  BY DEF Places
<1>1. \A p \in Places : At(p)' \subseteq made
  BY DEF Placed
<1>2. ASSUME NEW e \in made
      PROVE  \E p \in Places : \A q \in Places : e \in At(q)' <=> q = p
  <2>1. PICK p \in Places : \A q \in Places : e \in At(q) <=> q = p
    BY DEF Placed
  <2>2. CASE e \in X
    <3>1. \A q \in Places : e \in At(q)' <=> q = b
      BY <2>1, <2>2
    <3> QED BY <3>1
  <2>3. CASE e \notin X
    <3>1. \A q \in Places : e \in At(q)' <=> q = p
      BY <2>1, <2>3
    <3> QED BY <3>1
  <2> QED BY <2>2, <2>3
<1> QED BY <1>0, <1>1, <1>2 DEF Placed

\* The places in the next state.
LEMMA PlacesNext ==
  /\ Places' = Places
  /\ At(<<"list", NULL>>)' = Reach(FreeNext', FreeList')
  /\ At(<<"use", NULL>>)' = inUse'
  /\ \A t \in Threads :
       /\ At(<<"hand", t>>)' = InHand(t)'
       /\ At(<<"rest", t>>)' = Rest(t)'
       /\ At(<<"arrivals", t>>)' = Arrivals(t)'
BY DEF Places, At, Chain

\* A step that does not touch the thread u.
Untouched(u) == /\ list_pc'[u] = list_pc[u] /\ ev'[u] = ev[u] /\ List'[u] = List[u]
                /\ Arv'[u] = Arv[u] /\ tail'[u] = tail[u]

\* What a thread has is in no other place.
LEMMA Private ==
  ASSUME Placed, NEW t \in Threads, NEW x \in InHand(t) \cup Rest(t)
  PROVE  /\ x \notin Chain(FreeList) /\ x \notin inUse /\ x \notin Arrivals(t)
         /\ \A u \in Threads \ {t} : x \notin InHand(u) /\ x \notin Rest(u) /\ x \notin Arrivals(u)
         /\ x \in InHand(t) => x \notin Rest(t)
<1>1. ASSUME NEW kind \in {"hand", "rest"}, x \in At(<<kind, t>>)
      PROVE  \A q \in Places : x \in At(q) => q = <<kind, t>>
  <2>1. <<kind, t>> \in Places
    BY PlacesAre
  <2> QED BY <1>1, <2>1, Apart
<1>2. CASE x \in InHand(t)
  <2>1. \A q \in Places : x \in At(q) => q = <<"hand", t>>
    BY <1>1, <1>2, PlacesAre
  <2>2. x \notin Chain(FreeList) /\ x \notin inUse
    BY <2>1, PlacesAre
  <2>3. x \notin Arrivals(t) /\ x \notin Rest(t)
    BY <2>1, PlacesAre
  <2>4. \A u \in Threads \ {t} : x \notin InHand(u) /\ x \notin Rest(u) /\ x \notin Arrivals(u)
    BY <2>1, PlacesAre
  <2> QED BY <2>2, <2>3, <2>4
<1>3. CASE x \in Rest(t)
  <2>1. \A q \in Places : x \in At(q) => q = <<"rest", t>>
    BY <1>1, <1>3, PlacesAre
  <2>2. x \notin Chain(FreeList) /\ x \notin inUse
    BY <2>1, PlacesAre
  <2>3. x \notin Arrivals(t) /\ x \notin InHand(t)
    BY <2>1, PlacesAre
  <2>4. \A u \in Threads \ {t} : x \notin InHand(u) /\ x \notin Rest(u) /\ x \notin Arrivals(u)
    BY <2>1, PlacesAre
  <2> QED BY <2>2, <2>3, <2>4
<1> QED BY <1>2, <1>3

\* The lists of a thread have their types.
LEMMA Pieces ==
  ASSUME ListTypeOK
  PROVE  /\ FreeList \in Ptr /\ FreeNext \in [Events -> Ptr]
         /\ \A t \in Threads : /\ List[t] \in Ptr /\ Arv[t] \in Ptr
                               /\ list_pc[t] = "extract" => ev[t] \in Events /\ FreeNext[ev[t]] \in Ptr
BY DEF ListTypeOK

\* A step of t that changes at most the link of an event t has.
LEMMA Others ==
  ASSUME ListInv, NEW t \in Threads, NEW D, D \subseteq InHand(t) \cup Rest(t),
         FreeNext' \in [Events -> Ptr], \A e \in Events \ D : FreeNext'[e] = FreeNext[e],
         \A u \in Threads \ {t} : Untouched(u)
  PROVE  /\ \A u \in Threads \ {t} : /\ InHand(u)' = InHand(u) /\ Rest(u)' = Rest(u)
                                     /\ Arrivals(u)' = Arrivals(u)
         /\ Reach(FreeNext', FreeList) = Chain(FreeList)
         /\ \A u \in Threads \ {t} : Local(u)'
<1>1. Reach(FreeNext', FreeList) = Chain(FreeList)
  <2>1. \A d \in Reach(FreeNext, FreeList) : d \in Events /\ d \notin D
    BY Private, ReachClosed, Pieces DEF ListInv, Chain
  <2> QED
    BY <2>1, ReachFrame, Pieces DEF ListInv, Chain
<1>2. ASSUME NEW u \in Threads \ {t}
      PROVE  /\ InHand(u)' = InHand(u) /\ Rest(u)' = Rest(u)
             /\ Arrivals(u)' = Arrivals(u)
             /\ Local(u)'
  <2>0. Untouched(u)
    OBVIOUS
  <2>1. \A x \in InHand(u) \cup Rest(u) \cup Arrivals(u) : x \notin D
    BY Private DEF ListInv
  <2>2. InHand(u)' = InHand(u)
    BY <2>0 DEF InHand, Untouched
  <2>3. Rest(u)' = Rest(u)
    <3>1. CASE list_pc[u] = "extract"
      <4>1. ev[u] \in Events /\ ev[u] \notin D
        BY <2>1, <3>1 DEF InHand, ListInv, ListTypeOK
      <4>2. FreeNext'[ev'[u]] = FreeNext[ev[u]] /\ FreeNext[ev[u]] \in Ptr
        BY <2>0, <4>1, Pieces, <3>1 DEF Untouched, ListInv
      <4>3. \A d \in Reach(FreeNext, FreeNext[ev[u]]) : d \in Events /\ d \notin D
        BY <2>1, <3>1, <4>2, ReachClosed, Pieces DEF Rest, Chain, ListInv
      <4>4. Reach(FreeNext', FreeNext[ev[u]]) = Reach(FreeNext, FreeNext[ev[u]])
        BY <4>2, <4>3, ReachFrame, Pieces DEF ListInv
      <4> QED
        BY <2>0, <3>1, <4>2, <4>4 DEF Rest, Chain, Untouched
    <3>2. CASE list_pc[u] \in {"attach", "arrivals", "merge"}
      <4>3. \A d \in Reach(FreeNext, List[u]) : d \in Events /\ d \notin D
        BY <2>1, <3>2, ReachClosed, Pieces DEF Rest, Chain, ListInv
      <4>4. Reach(FreeNext', List[u]) = Reach(FreeNext, List[u])
        BY <4>3, ReachFrame, Pieces DEF ListInv
      <4> QED
        BY <2>0, <3>2, <4>4 DEF Rest, Chain, Untouched
    <3> QED
      BY <2>0, <3>1, <3>2 DEF Rest, Untouched
  <2>4. Arrivals(u)' = Arrivals(u)
    <3>1. CASE list_pc[u] = "merge"
      <4>3. \A d \in Reach(FreeNext, Arv[u]) : d \in Events /\ d \notin D
        BY <2>1, <3>1, ReachClosed, Pieces DEF Arrivals, Chain, ListInv
      <4>4. Reach(FreeNext', Arv[u]) = Reach(FreeNext, Arv[u])
        BY <4>3, ReachFrame, Pieces DEF ListInv
      <4> QED
        BY <2>0, <3>1, <4>4 DEF Arrivals, Chain, Untouched
    <3> QED
      BY <2>0, <3>1 DEF Arrivals, Untouched
  <2>5. list_pc'[u] \in {"attach", "arrivals", "merge"} => ev'[u] \in Events /\ List'[u] \in Events
    BY <2>0 DEF ListInv, LocalInv, Local, Untouched
  <2>6. list_pc'[u] = "merge" => tail'[u] \in Chain(List[u])'
    BY <2>0, <2>3 DEF ListInv, LocalInv, Local, Untouched, Rest
  <2>7. list_pc'[u] = "cas" => FreeNext'[ev'[u]] = List'[u]
    BY <2>0, <2>1 DEF ListInv, LocalInv, Local, Untouched, InHand, ListTypeOK
  <2> QED BY <2>2, <2>3, <2>4, <2>5, <2>6, <2>7 DEF Local
<1> QED BY <1>1, <1>2

\* What a list leads to is on a list.
LEMMA ListedClosed ==
  ASSUME ListInv, NEW e \in Listed
  PROVE  e \in Events /\ FreeNext[e] \in Ptr /\ Chain(FreeNext[e]) \subseteq Listed
<1>1. PICK p \in Ptr : Reach(FreeNext, p) \subseteq Listed /\ e \in Reach(FreeNext, p)
  <2>1. CASE e \in Chain(FreeList)
    BY <2>1, Pieces DEF Listed, Chain, ListInv
  <2>2. ASSUME NEW t \in Threads, e \in Rest(t)
        PROVE  \E p \in Ptr : Reach(FreeNext, p) \subseteq Listed /\ e \in Reach(FreeNext, p)
    <3>1. Rest(t) \subseteq Listed
      BY DEF Listed
    <3> QED
      BY <2>2, <3>1, Pieces DEF Rest, Chain, ListInv
  <2>3. ASSUME NEW t \in Threads, e \in Arrivals(t)
        PROVE  \E p \in Ptr : Reach(FreeNext, p) \subseteq Listed /\ e \in Reach(FreeNext, p)
    <3>1. Arrivals(t) \subseteq Listed
      BY DEF Listed
    <3> QED
      BY <2>3, <3>1, Pieces DEF Arrivals, Chain, ListInv
  <2> QED
    BY <2>1, <2>2, <2>3 DEF Listed
<1>2. e \in Events /\ FreeNext[e] \in Reach(FreeNext, p) \cup {NULL}
  BY <1>1, ReachClosed, Pieces DEF ListInv
<1>3. Reach(FreeNext, FreeNext[e]) \subseteq Reach(FreeNext, p)
  BY <1>1, <1>2, ReachFrom, Pieces DEF ListInv
<1> QED
  BY <1>1, <1>2, <1>3, Pieces DEF ListInv, Chain

\* A step of t that changes no link and puts nothing new on a list.
LEMMA Relabel ==
  ASSUME ListInv, NEW t \in Threads, FreeNext' = FreeNext, \A u \in Threads \ {t} : Untouched(u),
         ListTypeOK', Local(t)', Placed',
         Reach(FreeNext, FreeList') \cup Rest(t)' \cup Arrivals(t)' \subseteq Listed
  PROVE  ListInv'
<1>1. FreeNext' \in [Events -> Ptr] /\ \A e \in Events \ {} : FreeNext'[e] = FreeNext[e]
  BY Pieces DEF ListInv
<1>2. \A u \in Threads \ {t} : /\ Rest(u)' = Rest(u) /\ Arrivals(u)' = Arrivals(u)
                               /\ Local(u)'
  <2>1. {} \subseteq InHand(t) \cup Rest(t)
    OBVIOUS
  <2> QED BY <1>1, <2>1, Others
<1>3. LocalInv'
  BY <1>2 DEF LocalInv
<1>4. Listed' \subseteq Listed
  BY <1>2 DEF Listed, Chain
<1>5. \A e : Chain(FreeNext[e])' = Chain(FreeNext[e])
  BY DEF Chain
<1>6. Acyclic'
  BY <1>4, <1>5 DEF Acyclic, ListInv
<1> QED BY <1>3, <1>6 DEF ListInv

\* The places that are not those of t and not shared.
LEMMA Elsewhere ==
  ASSUME NEW t \in Threads,
         \A u \in Threads \ {t} : /\ InHand(u)' = InHand(u) /\ Rest(u)' = Rest(u)
                                 /\ Arrivals(u)' = Arrivals(u),
         NEW q \in Places, q \notin {<<"list", NULL>>, <<"use", NULL>>, <<"hand", t>>, <<"rest", t>>,
                                   <<"arrivals", t>>}
  PROVE  At(q)' = At(q)
<1>1. PICK u \in Threads : q \in {<<"hand", u>>, <<"rest", u>>, <<"arrivals", u>>}
  BY PlacesAre
<1>2. u # t
  BY <1>1
<1>3. CASE q = <<"hand", u>>
  BY <1>2, <1>3, PlacesAre, PlacesNext
<1>4. CASE q = <<"rest", u>>
  BY <1>2, <1>4, PlacesAre, PlacesNext
<1>5. CASE q = <<"arrivals", u>>
  BY <1>2, <1>5, PlacesAre, PlacesNext
<1> QED BY <1>1, <1>3, <1>4, <1>5

\* A step of t that moves no event at all.
LEMMA Quiet ==
  ASSUME ListInv, NEW t \in Threads, FreeNext' = FreeNext, \A u \in Threads \ {t} : Untouched(u),
         ListTypeOK', Local(t)', FreeList' = FreeList, inUse' = inUse, made' = made,
         InHand(t)' = InHand(t), Rest(t)' = Rest(t), Arrivals(t)' = Arrivals(t)
  PROVE  ListInv'
<1>1. FreeNext' \in [Events -> Ptr] /\ \A e \in Events \ {} : FreeNext'[e] = FreeNext[e]
  BY Pieces DEF ListInv
<1>2. \A u \in Threads : /\ InHand(u)' = InHand(u) /\ Rest(u)' = Rest(u)
                         /\ Arrivals(u)' = Arrivals(u)
  <2>1. {} \subseteq InHand(t) \cup Rest(t)
    OBVIOUS
  <2> QED BY <1>1, <2>1, Others
<1>3. \A p \in Places : At(p)' = At(p)
  <2> SUFFICES ASSUME NEW p \in Places PROVE At(p)' = At(p)
    OBVIOUS
  <2>1. CASE p = <<"list", NULL>>
    BY <2>1, PlacesAre, PlacesNext DEF Chain
  <2>2. CASE p = <<"use", NULL>>
    BY <2>2, PlacesAre, PlacesNext
  <2>3. CASE p \in {<<"hand", t>>, <<"rest", t>>, <<"arrivals", t>>}
    BY <1>2, <2>3, PlacesAre, PlacesNext
  <2> QED BY <1>2, <2>1, <2>2, <2>3, Elsewhere
<1>4. Placed'
  BY <1>3, PlacesNext DEF Placed, ListInv
<1>5. Reach(FreeNext, FreeList') \cup Rest(t)' \cup Arrivals(t)' \subseteq Listed
  BY DEF Listed, Chain
<1> QED BY <1>4, <1>5, Relabel

\* A step of t touches no other thread.
LEMMA OneAtATime ==
  ASSUME ListTypeOK, NEW t \in Threads, Step(t) \/ Allocate(t) \/ \E e \in Events : Release(t, e),
         NEW u \in Threads \ {t}
  PROVE  Untouched(u)
<1>1. CASE Allocate(t)
  BY <1>1 DEF Allocate, ListTypeOK, Untouched, Goto, locals
<1>2. CASE Allocate_read(t)
  BY <1>2 DEF Allocate_read, ListTypeOK, Untouched, Goto, locals
<1>3. CASE Allocate_detach(t)
  BY <1>3 DEF Allocate_detach, ListTypeOK, Untouched, Goto, locals
<1>4. CASE Allocate_extract(t)
  BY <1>4 DEF Allocate_extract, ListTypeOK, Untouched, Goto, locals
<1>5. CASE Allocate_attach(t)
  BY <1>5 DEF Allocate_attach, ListTypeOK, Untouched, Goto, locals
<1>6. CASE Allocate_arrivals(t)
  BY <1>6 DEF Allocate_arrivals, ListTypeOK, Untouched, Goto, locals
<1>7. CASE Allocate_walk(t)
  BY <1>7 DEF Allocate_walk, ListTypeOK, Untouched, Goto, locals
<1>8. CASE Allocate_merge(t)
  BY <1>8 DEF Allocate_merge, ListTypeOK, Untouched, Goto, locals
<1>9. CASE Allocate_new(t)
  BY <1>9 DEF Allocate_new, ListTypeOK, Untouched, Goto, locals
<1>10. CASE Allocate_associate(t)
  BY <1>10 DEF Allocate_associate, ListTypeOK, Untouched, Goto, locals
<1>11. CASE Release_push(t)
  BY <1>11 DEF Release_push, ListTypeOK, Untouched, Goto, locals
<1>12. CASE Release_cas(t)
  BY <1>12 DEF Release_cas, ListTypeOK, Untouched, Goto, locals
<1>13. CASE Release_retry(t)
  BY <1>13 DEF Release_retry, ListTypeOK, Untouched, Goto, locals
<1>14. CASE \E e \in Events : Release(t, e)
  BY <1>14 DEF Release, ListTypeOK, Untouched, Goto, locals
<1> QED BY <1>1, <1>2, <1>3, <1>4, <1>5, <1>6, <1>7, <1>8, <1>9, <1>10, <1>11, <1>12, <1>13, <1>14 DEF Step

\* The types are kept.
LEMMA TypeKept ==
  ASSUME ListInv, NEW t \in Threads, Step(t) \/ Allocate(t) \/ \E e \in Events : Release(t, e)
  PROVE  ListTypeOK'
<1> USE DEF ListInv
<1>1. CASE Allocate(t)
  BY <1>1 DEF Allocate, ListTypeOK, Goto, locals, ListPCs, AllocPCs, Ptr
<1>2. CASE Allocate_read(t)
  BY <1>2 DEF Allocate_read, ListTypeOK, Goto, locals, ListPCs, AllocPCs, Ptr
<1>3. CASE Allocate_detach(t)
  BY <1>3 DEF Allocate_detach, ListTypeOK, Goto, locals, ListPCs, AllocPCs, Ptr
<1>4. CASE Allocate_extract(t)
  BY <1>4 DEF Allocate_extract, ListTypeOK, Goto, locals, ListPCs, AllocPCs, Ptr
<1>5. CASE Allocate_attach(t)
  BY <1>5 DEF Allocate_attach, ListTypeOK, Goto, locals, ListPCs, AllocPCs, Ptr, LocalInv, Local
<1>6. CASE Allocate_arrivals(t)
  BY <1>6 DEF Allocate_arrivals, ListTypeOK, Goto, locals, ListPCs, AllocPCs, Ptr, LocalInv, Local
<1>7. CASE Allocate_walk(t)
  BY <1>7 DEF Allocate_walk, ListTypeOK, Goto, locals, ListPCs, AllocPCs, Ptr
<1>8. CASE Allocate_merge(t)
  BY <1>8 DEF Allocate_merge, ListTypeOK, Goto, locals, ListPCs, AllocPCs, Ptr
<1>9. CASE Allocate_new(t)
  <2> DEFINE new == CHOOSE e \in Events : e \notin made
  <2>1. new \in Events
    BY <1>9 DEF Allocate_new, ListTypeOK
  <2>2. made' = made \cup {new} /\ ev' = [ev EXCEPT ![t] = new]
    BY <1>9 DEF Allocate_new
  <2> HIDE DEF new
  <2> QED BY <1>9, <2>1, <2>2 DEF Allocate_new, ListTypeOK, Goto, ListPCs, AllocPCs, Ptr
<1>10. CASE Allocate_associate(t)
  <2>1. ev[t] \in made
    BY <1>10, PlacesAre DEF Allocate_associate, InHand, Placed
  <2> QED BY <1>10, <2>1 DEF Allocate_associate, ListTypeOK, Goto, ListPCs, AllocPCs, Ptr
<1>11. CASE Release_push(t)
  BY <1>11 DEF Release_push, ListTypeOK, Goto, locals, ListPCs, AllocPCs, Ptr
<1>12. CASE Release_cas(t)
  BY <1>12 DEF Release_cas, ListTypeOK, Goto, locals, ListPCs, AllocPCs, Ptr
<1>13. CASE Release_retry(t)
  BY <1>13 DEF Release_retry, ListTypeOK, Goto, locals, ListPCs, AllocPCs, Ptr
<1>14. CASE \E e \in Events : Release(t, e)
  BY <1>14 DEF Release, ListTypeOK, Goto, locals, ListPCs, AllocPCs, Ptr
<1> QED BY <1>1, <1>2, <1>3, <1>4, <1>5, <1>6, <1>7, <1>8, <1>9, <1>10, <1>11, <1>12, <1>13, <1>14 DEF Step

\* A call of Allocate moves no event.
LEMMA Allocate_keeps ==
  ASSUME ListInv, NEW t \in Threads, Allocate(t)
  PROVE  ListInv'
<1>1. ListTypeOK' /\ \A u \in Threads \ {t} : Untouched(u)
  BY OneAtATime, TypeKept DEF ListInv
<1>2. list_pc[t] \in ListPCs /\ t \in DOMAIN list_pc /\ t \in DOMAIN ev /\ t \in DOMAIN List /\ t \in DOMAIN Arv
      /\ t \in DOMAIN tail
  BY DEF ListInv, ListTypeOK
<1>3. /\ Local(t)' /\ InHand(t)' = InHand(t) /\ Rest(t)' = Rest(t) /\ Arrivals(t)' = Arrivals(t)
      /\ FreeNext' = FreeNext /\ FreeList' = FreeList /\ inUse' = inUse /\ made' = made
  BY <1>2 DEF Allocate, Local, InHand, Rest, Arrivals, Chain, Goto, locals
<1> QED BY <1>1, <1>3, Quiet

\* Nor does its look at the head of the list.
LEMMA Allocate_read_keeps ==
  ASSUME ListInv, NEW t \in Threads, Allocate_read(t)
  PROVE  ListInv'
<1>1. ListTypeOK' /\ \A u \in Threads \ {t} : Untouched(u)
  BY OneAtATime, TypeKept DEF ListInv, Step
<1>2. list_pc[t] \in ListPCs /\ t \in DOMAIN list_pc /\ t \in DOMAIN ev /\ t \in DOMAIN List /\ t \in DOMAIN Arv
      /\ t \in DOMAIN tail
  BY DEF ListInv, ListTypeOK
<1>3. /\ Local(t)' /\ InHand(t)' = InHand(t) /\ Rest(t)' = Rest(t) /\ Arrivals(t)' = Arrivals(t)
      /\ FreeNext' = FreeNext /\ FreeList' = FreeList /\ inUse' = inUse /\ made' = made
  BY <1>2 DEF Allocate_read, Local, InHand, Rest, Arrivals, Chain, Goto, locals
<1> QED BY <1>1, <1>3, Quiet

\* Nor does a failed push.
LEMMA Release_retry_keeps ==
  ASSUME ListInv, NEW t \in Threads, Release_retry(t)
  PROVE  ListInv'
<1>1. ListTypeOK' /\ \A u \in Threads \ {t} : Untouched(u)
  BY OneAtATime, TypeKept DEF ListInv, Step
<1>2. list_pc[t] \in ListPCs /\ t \in DOMAIN list_pc /\ t \in DOMAIN ev /\ t \in DOMAIN List /\ t \in DOMAIN Arv
      /\ t \in DOMAIN tail
  BY DEF ListInv, ListTypeOK
<1>3. /\ Local(t)' /\ InHand(t)' = InHand(t) /\ Rest(t)' = Rest(t) /\ Arrivals(t)' = Arrivals(t)
      /\ FreeNext' = FreeNext /\ FreeList' = FreeList /\ inUse' = inUse /\ made' = made
  BY <1>2 DEF Release_retry, Local, InHand, Rest, Arrivals, Chain, Goto, locals
<1> QED BY <1>1, <1>3, Quiet

\* Nor does a step of the walk, which stays on the list.
LEMMA Allocate_walk_keeps ==
  ASSUME ListInv, NEW t \in Threads, Allocate_walk(t)
  PROVE  ListInv'
<1>1. ListTypeOK' /\ \A u \in Threads \ {t} : Untouched(u)
  BY OneAtATime, TypeKept DEF ListInv, Step
<1>2. list_pc[t] \in ListPCs /\ t \in DOMAIN list_pc /\ t \in DOMAIN ev /\ t \in DOMAIN List /\ t \in DOMAIN Arv
      /\ t \in DOMAIN tail
  BY DEF ListInv, ListTypeOK
<1>3. tail[t] \in Chain(List[t]) /\ List[t] \in Ptr /\ ev[t] \in Events /\ List[t] \in Events
  BY DEF Allocate_walk, ListInv, LocalInv, Local, ListTypeOK
<1>4. FreeNext[tail[t]] \in Chain(List[t])
  BY <1>3, ReachClosed, Pieces DEF ListInv, Chain, Allocate_walk
<1>5. /\ Local(t)' /\ InHand(t)' = InHand(t) /\ Rest(t)' = Rest(t) /\ Arrivals(t)' = Arrivals(t)
      /\ FreeNext' = FreeNext /\ FreeList' = FreeList /\ inUse' = inUse /\ made' = made
  BY <1>2, <1>3, <1>4 DEF Allocate_walk, Local, InHand, Rest, Arrivals, Chain, Goto, locals
<1> QED BY <1>1, <1>5, Quiet

\* Taking the first event of a detached list leaves the rest.
LEMMA Allocate_extract_keeps ==
  ASSUME ListInv, NEW t \in Threads, Allocate_extract(t)
  PROVE  ListInv'
<1>1. ListTypeOK' /\ \A u \in Threads \ {t} : Untouched(u)
  BY OneAtATime, TypeKept DEF ListInv, Step
<1>2. list_pc[t] \in ListPCs /\ t \in DOMAIN list_pc /\ t \in DOMAIN ev /\ t \in DOMAIN List /\ t \in DOMAIN Arv
      /\ t \in DOMAIN tail
  BY DEF ListInv, ListTypeOK
<1>3. ev[t] \in Events /\ FreeNext[ev[t]] \in Ptr
  BY DEF ListInv, ListTypeOK, Allocate_extract
<1>4. CASE FreeNext[ev[t]] = NULL
  <2>1. Chain(FreeNext[ev[t]]) = {}
    BY <1>4, ReachNull DEF Chain
  <2>2. /\ Local(t)' /\ InHand(t)' = InHand(t) /\ Rest(t)' = Rest(t) /\ Arrivals(t)' = Arrivals(t)
        /\ FreeNext' = FreeNext /\ FreeList' = FreeList /\ inUse' = inUse /\ made' = made
    BY <1>2, <1>4, <2>1 DEF Allocate_extract, Local, InHand, Rest, Arrivals, Goto, locals
  <2> QED BY <1>1, <2>2, Quiet
<1>5. CASE FreeNext[ev[t]] # NULL
  <2>1. FreeNext[ev[t]] \in Events
    BY <1>3, <1>5 DEF Ptr
  <2>2. /\ Local(t)' /\ InHand(t)' = InHand(t) /\ Rest(t)' = Rest(t) /\ Arrivals(t)' = Arrivals(t)
        /\ FreeNext' = FreeNext /\ FreeList' = FreeList /\ inUse' = inUse /\ made' = made
    BY <1>2, <1>3, <1>5, <2>1 DEF Allocate_extract, Local, InHand, Rest, Arrivals, Chain, Goto, locals
  <2> QED BY <1>1, <2>2, Quiet
<1> QED BY <1>4, <1>5

\* Detaching moves the whole list to the thread: its head to the hand, the rest with it.
LEMMA Allocate_detach_keeps ==
  ASSUME ListInv, NEW t \in Threads, Allocate_detach(t)
  PROVE  ListInv'
<1>1. ListTypeOK' /\ \A u \in Threads \ {t} : Untouched(u)
  BY OneAtATime, TypeKept DEF ListInv, Step
<1>2. list_pc[t] \in ListPCs /\ t \in DOMAIN list_pc /\ t \in DOMAIN ev /\ t \in DOMAIN List /\ t \in DOMAIN Arv
      /\ t \in DOMAIN tail
  BY DEF ListInv, ListTypeOK
<1>3. CASE FreeList # ev[t]
  <2>1. /\ Local(t)' /\ InHand(t)' = InHand(t) /\ Rest(t)' = Rest(t) /\ Arrivals(t)' = Arrivals(t)
        /\ FreeNext' = FreeNext /\ FreeList' = FreeList /\ inUse' = inUse /\ made' = made
    BY <1>2, <1>3 DEF Allocate_detach, Local, InHand, Rest, Arrivals, Goto, locals
  <2> QED BY <1>1, <2>1, Quiet
<1>4. ASSUME FreeList = ev[t] PROVE ListInv'
  <2>1. ev[t] \in Events /\ FreeNext[ev[t]] \in Ptr
    BY DEF ListInv, ListTypeOK, Allocate_detach
<2>2. \A u \in Threads \ {t} : /\ InHand(u)' = InHand(u) /\ Rest(u)' = Rest(u)
                                 /\ Arrivals(u)' = Arrivals(u)
    <3>1. {} \subseteq InHand(t) \cup Rest(t) /\ FreeNext' \in [Events -> Ptr]
          /\ \A e \in Events \ {} : FreeNext'[e] = FreeNext[e]
      BY Pieces DEF ListInv, Allocate_detach
    <3> QED BY <1>1, <3>1, Others
  <2>3. Chain(FreeList) = {ev[t]} \cup Chain(FreeNext[ev[t]])
    BY <1>4, <2>1, ReachCons, Pieces DEF ListInv, Chain
  <2>4. /\ InHand(t) = {} /\ Rest(t) = {} /\ Arrivals(t) = {}
        /\ InHand(t)' = {ev[t]} /\ Rest(t)' = Chain(FreeNext[ev[t]]) /\ Arrivals(t)' = {}
        /\ inUse' = inUse /\ made' = made /\ FreeList' = NULL /\ FreeNext' = FreeNext
    BY <1>2, <1>4 DEF Allocate_detach, InHand, Rest, Arrivals, Chain, Goto, locals
  <2>5. Reach(FreeNext', FreeList') = {}
    BY <2>4, ReachNull
  <2>6. ev[t] \notin Chain(FreeNext[ev[t]])
    BY <2>3 DEF ListInv, Acyclic, Listed
  <2>7. Placed'
    <3> DEFINE a == <<"list", NULL>>  b == <<"hand", t>>  c == <<"rest", t>>
               X == {ev[t]}  Y == Chain(FreeNext[ev[t]])
    <3>1. a \in Places /\ b \in Places /\ c \in Places /\ a # b /\ a # c /\ b # c
      BY PlacesAre
    <3>2. X \cap Y = {} /\ X \cup Y \subseteq At(a)
      BY <2>3, <2>6, PlacesAre
    <3>3. At(a)' = At(a) \ (X \cup Y) /\ At(b)' = At(b) \cup X /\ At(c)' = At(c) \cup Y
      <4>1. At(a)' = At(a) \ (X \cup Y)
        BY <2>3, <2>4, <2>5, PlacesAre, PlacesNext
      <4>2. At(b)' = At(b) \cup X
        BY <2>4, PlacesAre, PlacesNext
      <4>3. At(c)' = At(c) \cup Y
        BY <2>4, PlacesAre, PlacesNext
      <4> QED BY <4>1, <4>2, <4>3
    <3>4. ASSUME NEW q \in Places \ {a, b, c} PROVE At(q)' = At(q)
      <4>1. CASE q = <<"use", NULL>>
        BY <2>4, <4>1, PlacesAre, PlacesNext
      <4>2. CASE q = <<"arrivals", t>>
        BY <2>4, <4>2, PlacesAre, PlacesNext
      <4> QED BY <2>2, <4>1, <4>2, Elsewhere
    <3> HIDE DEF a, b, c, X, Y
    <3> QED BY <2>4, <3>1, <3>2, <3>3, <3>4, Move DEF ListInv
  <2>8. Local(t)'
    BY <1>2, <1>4 DEF Allocate_detach, Local, Goto
  <2>9. Reach(FreeNext, FreeList') \cup Rest(t)' \cup Arrivals(t)' \subseteq Listed
    BY <2>3, <2>4, <2>5 DEF Listed
  <2> QED BY <1>1, <2>4, <2>7, <2>8, <2>9, Relabel
<1> QED BY <1>3, <1>4

\* Putting the rest back moves it to the list, if that is empty.
LEMMA Allocate_attach_keeps ==
  ASSUME ListInv, NEW t \in Threads, Allocate_attach(t)
  PROVE  ListInv'
<1>1. ListTypeOK' /\ \A u \in Threads \ {t} : Untouched(u)
  BY OneAtATime, TypeKept DEF ListInv, Step
<1>2. list_pc[t] \in ListPCs /\ t \in DOMAIN list_pc /\ t \in DOMAIN ev /\ t \in DOMAIN List /\ t \in DOMAIN Arv
      /\ t \in DOMAIN tail
  BY DEF ListInv, ListTypeOK
<1>3. CASE FreeList # NULL
  <2>1. /\ Local(t)' /\ InHand(t)' = InHand(t) /\ Rest(t)' = Rest(t) /\ Arrivals(t)' = Arrivals(t)
        /\ FreeNext' = FreeNext /\ FreeList' = FreeList /\ inUse' = inUse /\ made' = made
    BY <1>2, <1>3 DEF Allocate_attach, Local, InHand, Rest, Arrivals, Chain, Goto, locals, ListInv, LocalInv
  <2> QED BY <1>1, <2>1, Quiet
<1>4. ASSUME FreeList = NULL PROVE ListInv'
<2>2. \A u \in Threads \ {t} : /\ InHand(u)' = InHand(u) /\ Rest(u)' = Rest(u)
                                 /\ Arrivals(u)' = Arrivals(u)
    <3>1. {} \subseteq InHand(t) \cup Rest(t) /\ FreeNext' \in [Events -> Ptr]
          /\ \A e \in Events \ {} : FreeNext'[e] = FreeNext[e]
      BY Pieces DEF ListInv, Allocate_attach
    <3> QED BY <1>1, <3>1, Others
  <2>3. Chain(FreeList) = {}
    BY <1>4, ReachNull DEF Chain
  <2>4. /\ InHand(t)' = InHand(t) /\ Rest(t) = Chain(List[t]) /\ Arrivals(t) = {}
        /\ Rest(t)' = {} /\ Arrivals(t)' = {}
        /\ inUse' = inUse /\ made' = made /\ FreeList' = List[t] /\ FreeNext' = FreeNext
    BY <1>2, <1>4 DEF Allocate_attach, InHand, Rest, Arrivals, Chain, Goto, locals
  <2>5. Reach(FreeNext', FreeList') = Rest(t)
    BY <2>4 DEF Chain
  <2>7. Placed'
    <3> DEFINE a == <<"rest", t>>  b == <<"list", NULL>>  X == Rest(t)
    <3>1. a \in Places /\ b \in Places /\ a # b
      BY PlacesAre
    <3>2. X \subseteq At(a) /\ At(a)' = At(a) \ X
      BY <2>4, PlacesAre, PlacesNext
    <3>3. At(b)' = At(b) \cup X
      BY <2>3, <2>5, PlacesAre, PlacesNext
    <3>4. ASSUME NEW q \in Places \ {a, b} PROVE At(q)' = At(q)
      <4>1. CASE q = <<"use", NULL>>
        BY <2>4, <4>1, PlacesAre, PlacesNext
      <4>2. CASE q = <<"arrivals", t>>
        BY <2>4, <4>2, PlacesAre, PlacesNext
      <4>3. CASE q = <<"hand", t>>
        BY <2>4, <4>3, PlacesAre, PlacesNext
      <4> QED BY <2>2, <4>1, <4>2, <4>3, Elsewhere
    <3> HIDE DEF a, b, X
    <3> QED BY <2>4, <3>1, <3>2, <3>3, <3>4, MoveOne DEF ListInv
  <2>8. Local(t)'
    BY <1>2, <1>4 DEF Allocate_attach, Local, Goto
  <2>9. Reach(FreeNext, FreeList') \cup Rest(t)' \cup Arrivals(t)' \subseteq Listed
    BY <2>4, <2>5 DEF Listed
  <2> QED BY <1>1, <2>4, <2>7, <2>8, <2>9, Relabel
<1> QED BY <1>3, <1>4

\* Detaching what was released in between moves it to the arrivals of the thread.
LEMMA Allocate_arrivals_keeps ==
  ASSUME ListInv, NEW t \in Threads, Allocate_arrivals(t)
  PROVE  ListInv'
<1>1. ListTypeOK' /\ \A u \in Threads \ {t} : Untouched(u)
  BY OneAtATime, TypeKept DEF ListInv, Step
<1>2. list_pc[t] \in ListPCs /\ t \in DOMAIN list_pc /\ t \in DOMAIN ev /\ t \in DOMAIN List /\ t \in DOMAIN Arv
      /\ t \in DOMAIN tail
  BY DEF ListInv, ListTypeOK
<1>3. ev[t] \in Events /\ List[t] \in Events
  BY DEF Allocate_arrivals, ListInv, LocalInv, Local
<1>4. CASE FreeList # Arv[t]
  <2>1. /\ Local(t)' /\ InHand(t)' = InHand(t) /\ Rest(t)' = Rest(t) /\ Arrivals(t)' = Arrivals(t)
        /\ FreeNext' = FreeNext /\ FreeList' = FreeList /\ inUse' = inUse /\ made' = made
    BY <1>2, <1>3, <1>4 DEF Allocate_arrivals, Local, InHand, Rest, Arrivals, Chain, Goto, locals
  <2> QED BY <1>1, <2>1, Quiet
<1>5. ASSUME FreeList = Arv[t] PROVE ListInv'
<2>2. \A u \in Threads \ {t} : /\ InHand(u)' = InHand(u) /\ Rest(u)' = Rest(u)
                                 /\ Arrivals(u)' = Arrivals(u)
    <3>1. {} \subseteq InHand(t) \cup Rest(t) /\ FreeNext' \in [Events -> Ptr]
          /\ \A e \in Events \ {} : FreeNext'[e] = FreeNext[e]
      BY Pieces DEF ListInv, Allocate_arrivals
    <3> QED BY <1>1, <3>1, Others
  <2>3. List[t] \in Chain(List[t])
    BY <1>3, ReachCons, Pieces DEF ListInv, Chain
  <2>4. /\ InHand(t)' = InHand(t) /\ Rest(t)' = Rest(t) /\ Arrivals(t) = {}
        /\ Arrivals(t)' = Chain(FreeList)
        /\ inUse' = inUse /\ made' = made /\ FreeList' = NULL /\ FreeNext' = FreeNext
    BY <1>2, <1>5 DEF Allocate_arrivals, InHand, Rest, Arrivals, Chain, Goto, locals
  <2>5. Reach(FreeNext', FreeList') = {}
    BY <2>4, ReachNull
  <2>7. Placed'
    <3> DEFINE a == <<"list", NULL>>  b == <<"arrivals", t>>  X == Chain(FreeList)
    <3>1. a \in Places /\ b \in Places /\ a # b
      BY PlacesAre
    <3>2. X \subseteq At(a) /\ At(a)' = At(a) \ X
      BY <2>5, PlacesAre, PlacesNext
    <3>3. At(b)' = At(b) \cup X
      BY <2>4, PlacesAre, PlacesNext
    <3>4. ASSUME NEW q \in Places \ {a, b} PROVE At(q)' = At(q)
      <4>1. CASE q = <<"use", NULL>>
        BY <2>4, <4>1, PlacesAre, PlacesNext
      <4>2. CASE q = <<"rest", t>>
        BY <2>4, <4>2, PlacesAre, PlacesNext
      <4>3. CASE q = <<"hand", t>>
        BY <2>4, <4>3, PlacesAre, PlacesNext
      <4> QED BY <2>2, <4>1, <4>2, <4>3, Elsewhere
    <3> HIDE DEF a, b, X
    <3> QED BY <2>4, <3>1, <3>2, <3>3, <3>4, MoveOne DEF ListInv
  <2>8. Local(t)'
    BY <1>2, <1>3, <1>5, <2>3, <2>4 DEF Allocate_arrivals, Local, Goto, Chain
  <2>9. Reach(FreeNext, FreeList') \cup Rest(t)' \cup Arrivals(t)' \subseteq Listed
    BY <2>4, <2>5 DEF Listed
  <2> QED BY <1>1, <2>4, <2>7, <2>8, <2>9, Relabel
<1> QED BY <1>4, <1>5

\* A step of t that changes the link of the event in its hand only.
LEMMA Rehook ==
  ASSUME ListInv, NEW t \in Threads, NEW x \in InHand(t), FreeNext' \in [Events -> Ptr],
         \A e \in Events \ {x} : FreeNext'[e] = FreeNext[e],
         \A u \in Threads \ {t} : Untouched(u), ListTypeOK', Local(t)', Placed',
         FreeList' = FreeList, Rest(t)' = {}, Arrivals(t)' = {}
  PROVE  ListInv'
<1>1. /\ \A u \in Threads \ {t} : /\ Rest(u)' = Rest(u) /\ Arrivals(u)' = Arrivals(u)
                                  /\ Local(u)'
      /\ Reach(FreeNext', FreeList) = Chain(FreeList)
  <2>1. {x} \subseteq InHand(t) \cup Rest(t)
    OBVIOUS
  <2> QED BY <2>1, Others
<1>2. Listed' \subseteq Listed
  <2>1. Chain(FreeList)' = Chain(FreeList)
    BY <1>1 DEF Chain
  <2> QED BY <1>1, <2>1 DEF Listed
<1>3. x \notin Listed
  BY Private DEF ListInv, Listed
<1>4. ASSUME NEW e \in Listed PROVE e \notin Chain(FreeNext[e])'
  <2>1. e \in Events /\ FreeNext[e] \in Ptr /\ Chain(FreeNext[e]) \subseteq Listed
    BY ListedClosed
  <2>2. FreeNext'[e] = FreeNext[e]
    BY <1>3, <2>1
  <2>3. \A d \in Reach(FreeNext, FreeNext[e]) : FreeNext'[d] = FreeNext[d]
    BY <1>3, <2>1, ReachClosed, Pieces DEF Chain, ListInv
  <2>4. Reach(FreeNext', FreeNext[e]) = Reach(FreeNext, FreeNext[e])
    BY <2>1, <2>3, ReachFrame, Pieces DEF ListInv
  <2> QED BY <2>2, <2>4 DEF Chain, Acyclic, ListInv
<1>5. Acyclic'
  BY <1>2, <1>4 DEF Acyclic
<1>6. LocalInv'
  BY <1>1 DEF LocalInv
<1> QED BY <1>5, <1>6 DEF ListInv

\* Linking the event in hand to the head of the list moves nothing.
LEMMA Release_push_keeps ==
  ASSUME ListInv, NEW t \in Threads, Release_push(t)
  PROVE  ListInv'
<1>1. ListTypeOK' /\ \A u \in Threads \ {t} : Untouched(u)
  BY OneAtATime, TypeKept DEF ListInv, Step
<1>2. list_pc[t] \in ListPCs /\ t \in DOMAIN list_pc /\ t \in DOMAIN ev /\ t \in DOMAIN List /\ t \in DOMAIN Arv
      /\ t \in DOMAIN tail
  BY DEF ListInv, ListTypeOK
<1>3. /\ \A u \in Threads \ {t} : /\ InHand(u)' = InHand(u) /\ Rest(u)' = Rest(u)
                                  /\ Arrivals(u)' = Arrivals(u)
      /\ Reach(FreeNext', FreeList) = Chain(FreeList)
  <2>1. {ev[t]} \subseteq InHand(t) \cup Rest(t)
    BY DEF Release_push, InHand
  <2>2. FreeNext' \in [Events -> Ptr] /\ \A e \in Events \ {ev[t]} : FreeNext'[e] = FreeNext[e]
    BY <1>1, Pieces DEF ListTypeOK, ListInv, Release_push
  <2> QED BY <1>1, <2>1, <2>2, Others
<1>4. /\ InHand(t)' = InHand(t) /\ Rest(t)' = {} /\ Arrivals(t)' = {} /\ ev[t] \in InHand(t)
      /\ Rest(t) = {} /\ Arrivals(t) = {} /\ ev[t] \in Events
      /\ inUse' = inUse /\ made' = made /\ FreeList' = FreeList
      /\ FreeNext' = [FreeNext EXCEPT ![ev[t]] = FreeList]
  BY <1>2 DEF Release_push, InHand, Rest, Arrivals, Chain, Goto, locals, ListInv, ListTypeOK
<1>5. \A p \in Places : At(p)' = At(p)
  <2> SUFFICES ASSUME NEW p \in Places PROVE At(p)' = At(p)
    OBVIOUS
  <2>1. CASE p = <<"list", NULL>>
    BY <1>3, <1>4, <2>1, PlacesAre, PlacesNext
  <2>2. CASE p = <<"use", NULL>>
    BY <1>4, <2>2, PlacesAre, PlacesNext
  <2>3. CASE p \in {<<"hand", t>>, <<"rest", t>>, <<"arrivals", t>>}
    BY <1>4, <2>3, PlacesAre, PlacesNext
  <2> QED BY <1>3, <2>1, <2>2, <2>3, Elsewhere
<1>6. Placed'
  BY <1>4, <1>5, PlacesNext DEF Placed, ListInv
<1>7. FreeNext' \in [Events -> Ptr] /\ \A e \in Events \ {ev[t]} : FreeNext'[e] = FreeNext[e]
  BY <1>4, Pieces DEF ListInv
<1>8. Local(t)'
  BY <1>2, <1>4, Pieces DEF Release_push, Local, Goto, ListInv
<1> QED BY <1>1, <1>4, <1>6, <1>7, <1>8, Rehook

\* The event that leaves Allocate is in use.
LEMMA Allocate_associate_keeps ==
  ASSUME ListInv, NEW t \in Threads, Allocate_associate(t)
  PROVE  ListInv'
<1>1. ListTypeOK' /\ \A u \in Threads \ {t} : Untouched(u)
  BY OneAtATime, TypeKept DEF ListInv, Step
<1>2. list_pc[t] \in ListPCs /\ t \in DOMAIN list_pc /\ t \in DOMAIN ev /\ t \in DOMAIN List /\ t \in DOMAIN Arv
      /\ t \in DOMAIN tail
  BY DEF ListInv, ListTypeOK
<1>3. /\ \A u \in Threads \ {t} : /\ InHand(u)' = InHand(u) /\ Rest(u)' = Rest(u)
                                  /\ Arrivals(u)' = Arrivals(u)
      /\ Reach(FreeNext', FreeList) = Chain(FreeList)
  <2>1. {ev[t]} \subseteq InHand(t) \cup Rest(t)
    BY DEF Allocate_associate, InHand
  <2>2. FreeNext' \in [Events -> Ptr] /\ \A e \in Events \ {ev[t]} : FreeNext'[e] = FreeNext[e]
    BY <1>1, Pieces DEF ListTypeOK, ListInv, Allocate_associate
  <2> QED BY <1>1, <2>1, <2>2, Others
<1>4. /\ InHand(t)' = {} /\ Rest(t)' = {} /\ Arrivals(t)' = {} /\ InHand(t) = {ev[t]}
      /\ Rest(t) = {} /\ Arrivals(t) = {} /\ ev[t] \in Events
      /\ inUse' = inUse \cup {ev[t]} /\ made' = made /\ FreeList' = FreeList
      /\ FreeNext' = [FreeNext EXCEPT ![ev[t]] = NULL]
  BY <1>2 DEF Allocate_associate, InHand, Rest, Arrivals, Chain, Goto, ListInv, ListTypeOK
<1>5. Placed'
  <2> DEFINE a == <<"hand", t>>  b == <<"use", NULL>>  X == {ev[t]}
  <2>1. a \in Places /\ b \in Places /\ a # b
    BY PlacesAre
  <2>2. X \subseteq At(a) /\ At(a)' = At(a) \ X
    BY <1>4, PlacesAre, PlacesNext
  <2>3. At(b)' = At(b) \cup X
    BY <1>4, PlacesAre, PlacesNext
  <2>4. ASSUME NEW q \in Places \ {a, b} PROVE At(q)' = At(q)
    <3>1. CASE q = <<"list", NULL>>
      BY <1>3, <1>4, <3>1, PlacesAre, PlacesNext
    <3>2. CASE q = <<"rest", t>>
      BY <1>3, <1>4, <3>2, PlacesAre, PlacesNext
    <3>3. CASE q = <<"arrivals", t>>
      BY <1>3, <1>4, <3>3, PlacesAre, PlacesNext
    <3> QED BY <1>3, <3>1, <3>2, <3>3, Elsewhere
  <2> HIDE DEF a, b, X
  <2> QED BY <1>4, <2>1, <2>2, <2>3, <2>4, MoveOne DEF ListInv
<1>6. FreeNext' \in [Events -> Ptr] /\ \A e \in Events \ {ev[t]} : FreeNext'[e] = FreeNext[e]
  BY <1>1, <1>4, Pieces DEF ListInv, ListTypeOK
<1>7. Local(t)'
  BY <1>2 DEF Allocate_associate, Local, Goto
<1> QED BY <1>1, <1>4, <1>5, <1>6, <1>7, Rehook

\* The event that Release takes is in the hand of the thread.
LEMMA Release_keeps ==
  ASSUME ListInv, NEW t \in Threads, NEW e \in Events, Release(t, e)
  PROVE  ListInv'
<1>1. ListTypeOK' /\ \A u \in Threads \ {t} : Untouched(u)
  BY OneAtATime, TypeKept DEF ListInv
<1>2. list_pc[t] \in ListPCs /\ t \in DOMAIN list_pc /\ t \in DOMAIN ev /\ t \in DOMAIN List /\ t \in DOMAIN Arv
      /\ t \in DOMAIN tail
  BY DEF ListInv, ListTypeOK
<1>3. \A u \in Threads \ {t} : /\ InHand(u)' = InHand(u) /\ Rest(u)' = Rest(u)
                               /\ Arrivals(u)' = Arrivals(u)
  <2>1. {} \subseteq InHand(t) \cup Rest(t) /\ FreeNext' \in [Events -> Ptr]
        /\ \A d \in Events \ {} : FreeNext'[d] = FreeNext[d]
    BY Pieces DEF ListInv, Release
  <2> QED BY <1>1, <2>1, Others
<1>4. /\ InHand(t)' = {e} /\ Rest(t)' = {} /\ Arrivals(t)' = {} /\ InHand(t) = {}
      /\ Rest(t) = {} /\ Arrivals(t) = {} /\ e \in inUse
      /\ inUse' = inUse \ {e} /\ made' = made /\ FreeList' = FreeList /\ FreeNext' = FreeNext
  BY <1>2 DEF Release, InHand, Rest, Arrivals, Chain, Goto
<1>5. Placed'
  <2> DEFINE a == <<"use", NULL>>  b == <<"hand", t>>  X == {e}
  <2>1. a \in Places /\ b \in Places /\ a # b
    BY PlacesAre
  <2>2. X \subseteq At(a) /\ At(a)' = At(a) \ X
    BY <1>4, PlacesAre, PlacesNext
  <2>3. At(b)' = At(b) \cup X
    <3>1. At(<<"hand", t>>)' = {e} /\ At(<<"hand", t>>) = {}
      BY <1>4, PlacesAre, PlacesNext
    <3> QED BY <3>1
  <2>4. ASSUME NEW q \in Places \ {a, b} PROVE At(q)' = At(q)
    <3>1. CASE q = <<"list", NULL>>
      BY <1>4, <3>1, PlacesAre, PlacesNext DEF Chain
    <3>2. CASE q = <<"rest", t>>
      BY <1>3, <1>4, <3>2, PlacesAre, PlacesNext
    <3>3. CASE q = <<"arrivals", t>>
      BY <1>3, <1>4, <3>3, PlacesAre, PlacesNext
    <3> QED BY <1>3, <3>1, <3>2, <3>3, Elsewhere
  <2> HIDE DEF a, b, X
  <2> QED BY <1>4, <2>1, <2>2, <2>3, <2>4, MoveOne DEF ListInv
<1>6. Local(t)'
  BY <1>2 DEF Release, Local, Goto
<1>7. Reach(FreeNext, FreeList') \cup Rest(t)' \cup Arrivals(t)' \subseteq Listed
  BY <1>4 DEF Listed, Chain
<1> QED BY <1>1, <1>4, <1>5, <1>6, <1>7, Relabel

\* A push moves the event in hand to the list, and makes no ring.
LEMMA Release_cas_keeps ==
  ASSUME ListInv, NEW t \in Threads, Release_cas(t)
  PROVE  ListInv'
<1>1. ListTypeOK' /\ \A u \in Threads \ {t} : Untouched(u)
  BY OneAtATime, TypeKept DEF ListInv, Step
<1>2. list_pc[t] \in ListPCs /\ t \in DOMAIN list_pc /\ t \in DOMAIN ev /\ t \in DOMAIN List /\ t \in DOMAIN Arv
      /\ t \in DOMAIN tail
  BY DEF ListInv, ListTypeOK
<1>3. \A u \in Threads \ {t} : /\ InHand(u)' = InHand(u) /\ Rest(u)' = Rest(u)
                               /\ Arrivals(u)' = Arrivals(u)
  <2>1. {} \subseteq InHand(t) \cup Rest(t) /\ FreeNext' \in [Events -> Ptr]
        /\ \A e \in Events \ {} : FreeNext'[e] = FreeNext[e]
    BY Pieces DEF ListInv, Release_cas
  <2> QED BY <1>1, <2>1, Others
<1>4. /\ InHand(t)' = {} /\ Rest(t)' = {} /\ Arrivals(t)' = {} /\ InHand(t) = {ev[t]}
      /\ Rest(t) = {} /\ Arrivals(t) = {} /\ ev[t] \in Events /\ FreeNext[ev[t]] = FreeList
      /\ inUse' = inUse /\ made' = made /\ FreeList' = ev[t] /\ FreeNext' = FreeNext
  BY <1>2 DEF Release_cas, InHand, Rest, Arrivals, Chain, Goto, ListInv, ListTypeOK, LocalInv, Local
<1>9. Reach(FreeNext', FreeList') = {ev[t]} \cup Chain(FreeList)
  BY <1>4, ReachCons, Pieces DEF ListInv, Chain
<1>5. Placed'
  <2> DEFINE a == <<"hand", t>>  b == <<"list", NULL>>  X == {ev[t]}
  <2>1. a \in Places /\ b \in Places /\ a # b
    BY PlacesAre
  <2>2. X \subseteq At(a) /\ At(a)' = At(a) \ X
    BY <1>4, PlacesAre, PlacesNext
  <2>3. At(b)' = At(b) \cup X
    BY <1>9, PlacesAre, PlacesNext
  <2>4. ASSUME NEW q \in Places \ {a, b} PROVE At(q)' = At(q)
    <3>1. CASE q = <<"use", NULL>>
      BY <1>3, <1>4, <3>1, PlacesAre, PlacesNext
    <3>2. CASE q = <<"rest", t>>
      BY <1>3, <1>4, <3>2, PlacesAre, PlacesNext
    <3>3. CASE q = <<"arrivals", t>>
      BY <1>3, <1>4, <3>3, PlacesAre, PlacesNext
    <3> QED BY <1>3, <3>1, <3>2, <3>3, Elsewhere
  <2> HIDE DEF a, b, X
  <2> QED BY <1>4, <2>1, <2>2, <2>3, <2>4, MoveOne DEF ListInv
<1>6. Local(t)'
  BY <1>2 DEF Release_cas, Local, Goto
<1>7. Listed' \subseteq Listed \cup {ev[t]}
  BY <1>3, <1>4, <1>9 DEF Listed, Chain
<1>8. ev[t] \notin Chain(FreeList)
  BY <1>4, Private DEF ListInv
<1>10. Acyclic'
  BY <1>4, <1>7, <1>8 DEF Acyclic, ListInv, Chain
<1>11. LocalInv'
  <2>1. {} \subseteq InHand(t) \cup Rest(t) /\ FreeNext' \in [Events -> Ptr]
        /\ \A e \in Events \ {} : FreeNext'[e] = FreeNext[e]
    BY <1>4, Pieces DEF ListInv
  <2> QED BY <1>1, <1>6, <2>1, Others DEF LocalInv
<1> QED BY <1>1, <1>5, <1>10, <1>11 DEF ListInv

\* A new event is in the hand of the thread that made it.
LEMMA Allocate_new_keeps ==
  ASSUME ListInv, NEW t \in Threads, Allocate_new(t)
  PROVE  ListInv'
<1>1. ListTypeOK' /\ \A u \in Threads \ {t} : Untouched(u)
  BY OneAtATime, TypeKept DEF ListInv, Step
<1>2. list_pc[t] \in ListPCs /\ t \in DOMAIN list_pc /\ t \in DOMAIN ev /\ t \in DOMAIN List /\ t \in DOMAIN Arv
      /\ t \in DOMAIN tail
  BY DEF ListInv, ListTypeOK
<1>3. PICK e \in Events : e \notin made /\ made' = made \cup {e} /\ ev' = [ev EXCEPT ![t] = e]
  <2> DEFINE new == CHOOSE e \in Events : e \notin made
  <2>1. new \in Events /\ new \notin made
    BY DEF Allocate_new, ListInv, ListTypeOK
  <2>2. made' = made \cup {new} /\ ev' = [ev EXCEPT ![t] = new]
    BY DEF Allocate_new
  <2> HIDE DEF new
  <2> QED BY <2>1, <2>2
<1>4. \A u \in Threads \ {t} : /\ InHand(u)' = InHand(u) /\ Rest(u)' = Rest(u)
                               /\ Arrivals(u)' = Arrivals(u)
  <2>1. {} \subseteq InHand(t) \cup Rest(t) /\ FreeNext' \in [Events -> Ptr]
        /\ \A d \in Events \ {} : FreeNext'[d] = FreeNext[d]
    BY Pieces DEF ListInv, Allocate_new
  <2> QED BY <1>1, <2>1, Others
<1>5. /\ InHand(t)' = {e} /\ Rest(t)' = {} /\ Arrivals(t)' = {} /\ InHand(t) = {}
      /\ Rest(t) = {} /\ Arrivals(t) = {} /\ inUse' = inUse /\ FreeList' = FreeList /\ FreeNext' = FreeNext
  BY <1>2, <1>3 DEF Allocate_new, InHand, Rest, Arrivals, Chain, Goto
<1>6. <<"hand", t>> \in Places /\ At(<<"hand", t>>) = {} /\ At(<<"hand", t>>)' = {e}
  BY <1>5, PlacesAre, PlacesNext
<1>7. ASSUME NEW q \in Places, q # <<"hand", t>> PROVE At(q)' = At(q)
  <2>1. CASE q = <<"list", NULL>>
    BY <1>5, <2>1, PlacesAre, PlacesNext DEF Chain
  <2>2. CASE q = <<"use", NULL>>
    BY <1>5, <2>2, PlacesAre, PlacesNext
  <2>3. CASE q \in {<<"rest", t>>, <<"arrivals", t>>}
    BY <1>5, <2>3, PlacesAre, PlacesNext
  <2> QED BY <1>4, <1>7, <2>1, <2>2, <2>3, Elsewhere
<1>8. Placed'
  <2>1. \A q \in Places : e \notin At(q)
    BY <1>3 DEF ListInv, Placed
  <2>2. \A q \in Places : e \in At(q)' <=> q = <<"hand", t>>
    BY <1>6, <1>7, <2>1
  <2>3. \A d \in made : d # e
    BY <1>3
  <2>4. ASSUME NEW d \in made PROVE \E p \in Places : \A q \in Places : d \in At(q)' <=> q = p
    <3>1. PICK p \in Places : \A q \in Places : d \in At(q) <=> q = p
      BY DEF ListInv, Placed
    <3>2. \A q \in Places : d \in At(q)' <=> q = p
      BY <1>6, <1>7, <2>3, <3>1
    <3> QED BY <3>2
  <2>5. \A p \in Places : At(p)' \subseteq made'
    BY <1>3, <1>6, <1>7 DEF ListInv, Placed
  <2> QED BY <1>3, <1>6, <2>2, <2>4, <2>5, PlacesNext DEF Placed
<1>9. Local(t)'
  BY <1>2 DEF Allocate_new, Local, Goto
<1>10. Reach(FreeNext, FreeList') \cup Rest(t)' \cup Arrivals(t)' \subseteq Listed
  BY <1>5 DEF Listed, Chain
<1> QED BY <1>1, <1>5, <1>8, <1>9, <1>10, Relabel

\* Appending the arrivals moves them to the rest, and makes no ring.
LEMMA Allocate_merge_keeps ==
  ASSUME ListInv, NEW t \in Threads, Allocate_merge(t)
  PROVE  ListInv'
<1>1. ListTypeOK' /\ \A u \in Threads \ {t} : Untouched(u)
  BY OneAtATime, TypeKept DEF ListInv, Step
<1>2. list_pc[t] \in ListPCs /\ t \in DOMAIN list_pc /\ t \in DOMAIN ev /\ t \in DOMAIN List /\ t \in DOMAIN Arv
      /\ t \in DOMAIN tail
  BY DEF ListInv, ListTypeOK
<1>3. /\ Rest(t) = Chain(List[t]) /\ Arrivals(t) = Chain(Arv[t]) /\ tail[t] \in Chain(List[t])
      /\ FreeNext[tail[t]] = NULL /\ List[t] \in Events /\ ev[t] \in Events /\ tail[t] \in Events
      /\ FreeNext' = [FreeNext EXCEPT ![tail[t]] = Arv[t]]
      /\ List[t] \in Ptr /\ Arv[t] \in Ptr
  BY DEF Allocate_merge, Rest, Arrivals, ListInv, LocalInv, Local, ListTypeOK
<1>4. /\ InHand(t)' = InHand(t) /\ Rest(t)' = Reach(FreeNext', List[t]) /\ Arrivals(t)' = {}
      /\ inUse' = inUse /\ made' = made /\ FreeList' = FreeList
  BY <1>2 DEF Allocate_merge, InHand, Rest, Arrivals, Chain, Goto, locals
<1>5. tail[t] \notin Chain(Arv[t])
  BY <1>3, Private DEF ListInv
<1>6. \A p \in Ptr : /\ tail[t] \in Chain(p) => Reach(FreeNext', p) = Chain(p) \cup Chain(Arv[t])
                     /\ tail[t] \notin Chain(p) => Reach(FreeNext', p) = Chain(p)
  <2>1. ASSUME NEW p \in Ptr, tail[t] \in Chain(p)
        PROVE  Reach(FreeNext', p) = Chain(p) \cup Chain(Arv[t])
    <3>1. /\ FreeNext \in [Events -> Ptr] /\ tail[t] \in Reach(FreeNext, p)
          /\ tail[t] \notin Reach(FreeNext, Arv[t]) /\ Arv[t] \in Ptr /\ FreeNext[tail[t]] = NULL
      BY <1>3, <1>5, <2>1, Pieces DEF ListInv, Chain
    <3>2. FreeNext' \in [Events -> Ptr] /\ FreeNext'[tail[t]] = Arv[t]
          /\ \A d \in Events \ {tail[t]} : FreeNext'[d] = FreeNext[d]
      BY <1>3, <3>1
    <3>3. Reach(FreeNext', p) = Reach(FreeNext, p) \cup Reach(FreeNext, Arv[t])
      BY <3>1, <3>2, ReachAppend
    <3> QED BY <3>3 DEF Chain
  <2>2. ASSUME NEW p \in Ptr, tail[t] \notin Chain(p)
        PROVE  Reach(FreeNext', p) = Chain(p)
    <3>1. FreeNext \in [Events -> Ptr] /\ FreeNext' \in [Events -> Ptr]
      BY <1>3, Pieces DEF ListInv
    <3>2. \A d \in Reach(FreeNext, p) : FreeNext'[d] = FreeNext[d]
      BY <1>3, <2>2, <3>1, ReachClosed DEF Chain
    <3> QED BY <3>1, <3>2, ReachFrame DEF Chain
  <2> QED BY <2>1, <2>2
<1>7. Rest(t)' = Rest(t) \cup Arrivals(t)
  BY <1>3, <1>4, <1>6
<1>8. /\ \A u \in Threads \ {t} : /\ InHand(u)' = InHand(u) /\ Rest(u)' = Rest(u)
                                  /\ Arrivals(u)' = Arrivals(u) /\ Local(u)'
      /\ Reach(FreeNext', FreeList) = Chain(FreeList)
  <2>1. {tail[t]} \subseteq InHand(t) \cup Rest(t)
    BY <1>3
  <2>2. FreeNext' \in [Events -> Ptr] /\ \A e \in Events \ {tail[t]} : FreeNext'[e] = FreeNext[e]
    BY <1>3, Pieces DEF ListInv
  <2> QED BY <1>1, <2>1, <2>2, Others
<1>9. Placed'
  <2> DEFINE a == <<"arrivals", t>>  b == <<"rest", t>>  X == Arrivals(t)
  <2>1. a \in Places /\ b \in Places /\ a # b
    BY PlacesAre
  <2>2. X \subseteq At(a) /\ At(a)' = At(a) \ X
    BY <1>4, PlacesAre, PlacesNext
  <2>3. At(b)' = At(b) \cup X
    BY <1>7, PlacesAre, PlacesNext
  <2>4. ASSUME NEW q \in Places \ {a, b} PROVE At(q)' = At(q)
    <3>1. CASE q = <<"list", NULL>>
      BY <1>4, <1>8, <3>1, PlacesAre, PlacesNext
    <3>2. CASE q = <<"use", NULL>>
      BY <1>4, <1>8, <3>2, PlacesAre, PlacesNext
    <3>3. CASE q = <<"hand", t>>
      BY <1>4, <1>8, <3>3, PlacesAre, PlacesNext
    <3> QED BY <1>8, <3>1, <3>2, <3>3, Elsewhere
  <2> HIDE DEF a, b, X
  <2> QED BY <1>4, <2>1, <2>2, <2>3, <2>4, MoveOne DEF ListInv
<1>10. Listed' \subseteq Listed
  BY <1>4, <1>7, <1>8 DEF Listed, Chain
<1>11. ASSUME NEW e \in Listed PROVE e \notin Chain(FreeNext[e])'
  <2>1. e \in Events /\ FreeNext[e] \in Ptr /\ e \notin Chain(FreeNext[e])
    BY ListedClosed DEF ListInv, Acyclic
  <2>2. CASE e = tail[t]
    <3>1. FreeNext'[e] = Arv[t]
      BY <1>3, <2>1, <2>2, Pieces DEF ListInv
    <3>2. Chain(FreeNext[e])' = Reach(FreeNext', Arv[t])
      BY <3>1 DEF Chain
    <3> QED BY <1>3, <1>5, <1>6, <2>2, <3>2
  <2>3. CASE e # tail[t]
    <3>1. Chain(FreeNext[e])' = Reach(FreeNext', FreeNext[e])
      BY <1>3, <2>3 DEF Chain
    <3>2. CASE tail[t] \notin Chain(FreeNext[e])
      BY <1>6, <2>1, <3>1, <3>2
    <3>3. CASE tail[t] \in Chain(FreeNext[e]) /\ e \notin Chain(Arv[t])
      BY <1>6, <2>1, <3>1, <3>3
    <3>4. CASE tail[t] \in Chain(FreeNext[e]) /\ e \in Chain(Arv[t])
      <4>1. FreeNext[e] \in Chain(Arv[t]) \cup {NULL}
        BY <1>3, <3>4, ReachClosed, Pieces DEF ListInv, Chain
      <4>2. Chain(FreeNext[e]) \subseteq Chain(Arv[t])
        BY <1>3, <4>1, ReachFrom, Pieces DEF ListInv, Chain
      <4> QED BY <1>5, <3>4, <4>2
    <3> QED BY <3>2, <3>3, <3>4
  <2> QED BY <2>2, <2>3
<1>12. Acyclic'
  BY <1>10, <1>11 DEF Acyclic
<1>13. Local(t)'
  BY <1>2, <1>3 DEF Allocate_merge, Local, Goto, locals
<1>14. LocalInv'
  BY <1>8, <1>13 DEF LocalInv
<1> QED BY <1>1, <1>9, <1>12, <1>14 DEF ListInv

-----------------------------------------------------------------------------
(* The theorem.                                                            *)

\* Every step keeps the invariant.
LEMMA ListInvKept ==
  ASSUME ListInv, [ListNext]_list_vars
  PROVE  ListInv'
<1>1. CASE UNCHANGED list_vars
  <2>1. ListTypeOK' /\ LocalInv' /\ Placed' /\ Acyclic'
    BY <1>1 DEF ListInv, ListTypeOK, LocalInv, Local, Placed, Acyclic, Listed, Places, At, InHand, Rest,
                Arrivals, Chain, list_vars
  <2> QED BY <2>1 DEF ListInv
<1>2. ASSUME NEW t \in Threads, Step(t) PROVE ListInv'
  BY <1>2, Allocate_read_keeps, Allocate_detach_keeps, Allocate_extract_keeps,
     Allocate_attach_keeps, Allocate_arrivals_keeps, Allocate_walk_keeps,
     Allocate_merge_keeps, Allocate_associate_keeps, Release_push_keeps,
     Release_cas_keeps, Release_retry_keeps, Allocate_new_keeps DEF Step
<1>3. ASSUME NEW t \in Threads, Allocate(t) PROVE ListInv'
  BY <1>3, Allocate_keeps
<1>4. ASSUME NEW t \in Threads, NEW e \in Events, Release(t, e) PROVE ListInv'
  BY <1>4, Release_keeps
<1> QED BY <1>1, <1>2, <1>3, <1>4 DEF ListNext

\* Initially there is no event.
LEMMA ListInvInit == ListInit => ListInv
<1> SUFFICES ASSUME ListInit PROVE ListInv
  OBVIOUS
<1>1. ListTypeOK /\ LocalInv
  BY DEF ListInit, ListTypeOK, LocalInv, Local, ListPCs, AllocPCs, Ptr
<1>2. /\ Chain(FreeList) = {} /\ inUse = {} /\ made = {}
      /\ \A t \in Threads : InHand(t) = {} /\ Rest(t) = {} /\ Arrivals(t) = {}
  BY ReachNull DEF ListInit, Chain, InHand, Rest, Arrivals
<1>3. \A p \in Places : At(p) = {}
  BY <1>2, PlacesAre
<1>4. Placed
  BY <1>2, <1>3 DEF Placed
<1>5. Acyclic
  BY <1>2 DEF Acyclic, Listed
<1> QED BY <1>1, <1>4, <1>5 DEF ListInv

\* No event is lost, handed out twice or put on two lists by Allocate and Release,
\* for any number of threads and events, although a thread may find the head it
\* has read back on a list that has changed behind it (ABA).
THEOREM OnePlaceCorrect == ListSpec => []OnePlace
<1>1. ListInv => OnePlace
  <2> SUFFICES ASSUME ListInv, NEW e \in made
               PROVE  Cardinality({p \in Places : e \in At(p)}) = 1
    BY DEF OnePlace, ListInv
  <2>1. PICK p \in Places : \A q \in Places : e \in At(q) <=> q = p
    BY DEF ListInv, Placed
  <2>2. {q \in Places : e \in At(q)} = {p}
    BY <2>1
  <2> QED BY <2>2, FS_Singleton
<1> QED BY <1>1, ListInvInit, ListInvKept, PTL DEF ListSpec
=============================================================================
