------------------------ MODULE NativeMonitorProofs ------------------------
(***************************************************************************)
(* Proofs about NativeMonitor for every set of threads and every use of its *)
(* operations.  Each inductive step goes through the actions one by one.    *)
(*                                                                          *)
(* First the types, mutual exclusion and the refinement of AbstractMonitor; *)
(* then where the ParkEvents are.  Of these three things are inductive one  *)
(* upon the other: who holds the inner lock and the WaitLock (BaseInv),     *)
(* where the ParkEvent of each thread is (PlaceInv), and who sees to        *)
(* succession while the lock is free (HeirInv, QueueInv).  Most steps move  *)
(* no ParkEvent; those are Calm, and the others have a lemma each that says *)
(* what they do to the places.                                              *)
(***************************************************************************)
EXTENDS NativeMonitor, FiniteSetTheorems, TLAPS

-----------------------------------------------------------------------------
(* Types.  notify_push puts what is in hand on the cxq, so the type of cxq   *)
(* needs to know that there is something in hand.                            *)

HandPCs == {"Pass", "Pass_word", "unpark", "notify_push", "notify_mark",
            "notify_unpark"}
HandOK == \A t \in Threads : pc[t] \in HandPCs => hand[t] \in Threads
TypeInv == TypeOK /\ HandOK

\* A cleared monitor (ClearMonitor) is well typed.
LEMMA TypeInit == ASSUME Init PROVE TypeInv
<1>1. pc \in [Threads -> PCs]
  BY DEF Init, PCs
<1>2. /\ cxq \in Seq(Threads) /\ EntryList \in Seq(Threads)
      /\ WaitSet \in Seq(Threads)
  BY DEF Init
<1>3. /\ event \in [Threads -> BOOLEAN] /\ Notified \in [Threads -> BOOLEAN]
      /\ tbivm \in [Threads -> BOOLEAN]
      /\ call \in [Threads -> Ops \cup {"none", "unlock", "suspend"}]
      /\ hand \in [Threads -> Threads \cup {NULL}]
  BY DEF Init
<1>4. <<>> \in Seq(Threads)
  OBVIOUS
<1>5. det \in [Threads -> Seq(Threads)]
  BY <1>4 DEF Init
<1>6. LockByte \in BOOLEAN /\ snuck \in BOOLEAN /\ safepoint \in BOOLEAN
  BY DEF Init
<1>7. TypeOK
  BY <1>6, <1>1, <1>2, <1>3, <1>5 DEF Init, TypeOK
<1>8. HandOK
  BY DEF Init, HandOK, HandPCs
<1> QED
  BY <1>7, <1>8 DEF TypeInv

\* Unlinking a waiter (IWait) leaves a list of the same kind.
LEMMA UnlinkType ==
  ASSUME NEW S, NEW s \in Seq(S), NEW x PROVE Unlink(s, x) \in Seq(S)
  BY DEF Unlink

\* No step of any operation leaves the types.
LEMMA TypeStep == ASSUME TypeInv, [Next]_vars PROVE TypeInv'
<1> USE ThreadsAssumption, CallsAssumption
    DEF TypeInv, TypeOK, HandOK, HandPCs, PCs, Ops, Locking, Waiting,
        Notifying, At, Goto, word, inner, waits, owning, locals
<1>1. ASSUME NEW t \in Threads, ILock(t) PROVE TypeInv'
  BY <1>1 DEF ILock, TryLock
<1>2. ASSUME NEW t \in Threads, ILock_reset(t) PROVE TypeInv'
  BY <1>2 DEF ILock_reset
<1>3. ASSUME NEW t \in Threads, AcquireOrPush(t) PROVE TypeInv'
  BY <1>3 DEF AcquireOrPush
<1>4. ASSUME NEW t \in Threads, ILock_wait(t) PROVE TypeInv'
  BY <1>4 DEF ILock_wait
<1>5. ASSUME NEW t \in Threads, ILock_park(t) PROVE TypeInv'
  BY <1>5 DEF ILock_park, ParkCommon
<1>6. ASSUME NEW t \in Threads, OnDeck_LOOP(t) PROVE TypeInv'
  BY <1>6 DEF OnDeck_LOOP, TryLock
<1>7. ASSUME NEW t \in Threads, OnDeck_park(t) PROVE TypeInv'
  BY <1>7 DEF OnDeck_park, ParkCommon
<1>8. ASSUME NEW t \in Threads, OnDeck_clear(t) PROVE TypeInv'
  BY <1>8 DEF OnDeck_clear
<1>9. ASSUME NEW t \in Threads, IUnlock(t) PROVE TypeInv'
  BY <1>9 DEF IUnlock
<1>10. ASSUME NEW t \in Threads, IUnlock_heir(t) PROVE TypeInv'
  BY <1>10 DEF IUnlock_heir
<1>11. ASSUME NEW t \in Threads, IUnlock_noheir(t) PROVE TypeInv'
  BY <1>11 DEF IUnlock_noheir, ReturnTo
<1>12. ASSUME NEW t \in Threads, unpark(t) PROVE TypeInv'
  BY <1>12 DEF unpark, ReturnTo
<1>13. ASSUME NEW t \in Threads, IUnlock_word(t) PROVE TypeInv'
  BY <1>13 DEF IUnlock_word, ReturnTo
<1>14. ASSUME NEW t \in Threads, IUnlock_list(t) PROVE TypeInv'
  BY <1>14 DEF IUnlock_list, ReturnTo
<1>15. ASSUME NEW t \in Threads, Succession(t) PROVE TypeInv'
  BY <1>15 DEF Succession, ReturnTo
<1>16. ASSUME NEW t \in Threads, WakeOne(t) PROVE TypeInv'
  BY <1>16 DEF WakeOne
<1>17. ASSUME NEW t \in Threads, WakeNone(t) PROVE TypeInv'
  BY <1>17 DEF WakeNone
<1>18. ASSUME NEW t \in Threads, Drain(t) PROVE TypeInv'
  BY <1>18 DEF Drain
<1>19. ASSUME NEW t \in Threads, Drain_punt(t) PROVE TypeInv'
  BY <1>19 DEF Drain_punt
<1>20. ASSUME NEW t \in Threads, Fill(t) PROVE TypeInv'
  BY <1>20 DEF Fill
<1>21. ASSUME NEW t \in Threads, Pass(t) PROVE TypeInv'
  BY <1>21 DEF Pass
<1>22. ASSUME NEW t \in Threads, Pass_word(t) PROVE TypeInv'
  BY <1>22 DEF Pass_word, ReturnTo
<1>23. ASSUME NEW t \in Threads, Punt(t) PROVE TypeInv'
  BY <1>23 DEF Punt
<1>24. ASSUME NEW t \in Threads, Resample(t) PROVE TypeInv'
  BY <1>24 DEF Resample, ReturnTo
<1>25. ASSUME NEW t \in Threads, notify_take(t) PROVE TypeInv'
  BY <1>25 DEF notify_take
<1>26. ASSUME NEW t \in Threads, notify_none(t) PROVE TypeInv'
  BY <1>26 DEF notify_none
<1>27. ASSUME NEW t \in Threads, notify_push(t) PROVE TypeInv'
  BY <1>27 DEF notify_push
<1>28. ASSUME NEW t \in Threads, notify_mark(t) PROVE TypeInv'
  BY <1>28 DEF notify_mark
<1>29. ASSUME NEW t \in Threads, notify_unpark(t) PROVE TypeInv'
  BY <1>29, ZenonT(40) DEF notify_unpark
<1>30. ASSUME NEW t \in Threads, IWait(t) PROVE TypeInv'
  BY <1>30 DEF IWait
<1>31. ASSUME NEW t \in Threads, IWait_add(t) PROVE TypeInv'
  BY <1>31 DEF IWait_add
<1>32. ASSUME NEW t \in Threads, IWait_loop(t) PROVE TypeInv'
  BY <1>32 DEF IWait_loop
<1>33. ASSUME NEW t \in Threads, IWait_park(t) PROVE TypeInv'
  BY <1>33 DEF IWait_park
<1>34. ASSUME NEW t \in Threads, IWait_timeout(t) PROVE TypeInv'
  BY <1>34 DEF IWait_timeout
<1>35. ASSUME NEW t \in Threads, IWait_check(t) PROVE TypeInv'
  BY <1>35 DEF IWait_check
<1>36. ASSUME NEW t \in Threads, IWait_remove(t) PROVE TypeInv'
  BY <1>36, UnlinkType DEF IWait_remove
<1>37. ASSUME NEW t \in Threads, IWait_recheck(t) PROVE TypeInv'
  BY <1>37 DEF IWait_recheck
<1>38. ASSUME NEW t \in Threads, Reenter(t) PROVE TypeInv'
  BY <1>38 DEF Reenter
<1>39. ASSUME NEW t \in Threads, Reenter_spin(t) PROVE TypeInv'
  BY <1>39 DEF Reenter_spin, TryLock
<1>40. ASSUME NEW t \in Threads, Reenter_park(t) PROVE TypeInv'
  BY <1>40 DEF Reenter_park, ParkCommon
<1>41. ASSUME NEW t \in Threads, wait_suspended(t) PROVE TypeInv'
  BY <1>41 DEF wait_suspended
<1>42. ASSUME NEW t \in Threads, lock_sneak(t) PROVE TypeInv'
  BY <1>42 DEF lock_sneak
<1>43. ASSUME NEW t \in Threads, lock_spin(t) PROVE TypeInv'
  BY <1>43 DEF lock_spin, TryLock
<1>44. ASSUME NEW t \in Threads, Exeunt(t) PROVE TypeInv'
  BY <1>44 DEF Exeunt
<1>45. ASSUME NEW t \in Threads, try_sneak(t) PROVE TypeInv'
  BY <1>45 DEF try_sneak
<1>46. ASSUME NEW t \in Threads, unlock_snuck(t) PROVE TypeInv'
  BY <1>46, ZenonT(40) DEF unlock_snuck
<1>47. ASSUME NEW t \in Threads, lock(t) PROVE TypeInv'
  BY <1>47 DEF lock, Start, TryLock
<1>48. ASSUME NEW t \in Threads, lock_without_safepoint_check(t) PROVE TypeInv'
  BY <1>48 DEF lock_without_safepoint_check, Start
<1>49. ASSUME NEW t \in Threads, jvm_raw_lock(t) PROVE TypeInv'
  BY <1>49 DEF jvm_raw_lock, Start, TryLock
<1>50. ASSUME NEW t \in Threads, try_lock(t) PROVE TypeInv'
  BY <1>50 DEF try_lock, Start, TryLock
<1>51. ASSUME NEW t \in Threads, try_lock_sneak(t) PROVE TypeInv'
  BY <1>51 DEF try_lock_sneak, Start
<1>52. ASSUME NEW t \in Threads, notify(t) PROVE TypeInv'
  BY <1>52 DEF notify
<1>53. ASSUME NEW t \in Threads, wait(t) PROVE TypeInv'
  BY <1>53 DEF wait
<1>54. ASSUME NEW t \in Threads, unlock(t) PROVE TypeInv'
  BY <1>54 DEF unlock
<1>55. ASSUME NEW t \in Threads, wait_resumed(t) PROVE TypeInv'
  BY <1>55 DEF wait_resumed
<1>56. CASE safepoint_begin
  BY <1>56 DEF safepoint_begin
<1>57. CASE safepoint_end
  BY <1>57 DEF safepoint_end
<1>58. CASE UNCHANGED vars
  BY <1>58 DEF vars
<1> QED
  BY <1>1, <1>2, <1>3, <1>4, <1>5, <1>6, <1>7, <1>8, <1>9, <1>10, <1>11,
     <1>12, <1>13, <1>14, <1>15, <1>16, <1>17, <1>18, <1>19, <1>20,
     <1>21, <1>22, <1>23, <1>24, <1>25, <1>26, <1>27, <1>28, <1>29,
     <1>30, <1>31, <1>32, <1>33, <1>34, <1>35, <1>36, <1>37, <1>38,
     <1>39, <1>40, <1>41, <1>42, <1>43, <1>44, <1>45, <1>46, <1>47,
     <1>48, <1>49, <1>50, <1>51, <1>52, <1>53, <1>54, <1>55, <1>56,
     <1>57, <1>58
  DEF Next, Internal, External

\* Every reachable state of the monitor is well typed.
THEOREM TypeCorrect == Spec => []TypeOK
<1>1. Init => TypeInv
  BY TypeInit
<1>2. TypeInv /\ [Next]_vars => TypeInv'
  BY TypeStep
<1>3. TypeInv => TypeOK
  BY DEF TypeInv
<1> QED
  BY <1>1, <1>2, <1>3, PTL DEF Spec

-----------------------------------------------------------------------------
(* Mutual exclusion.  The lock byte alone does not give it, as the VM thread  *)
(* may sneak past it.  What does is that a thread which acquires the byte      *)
(* during a safepoint is still inside its ThreadBlockInVM region, and that a   *)
(* sneaked lock lasts no longer than the safepoint.                            *)

\* Where a thread is never inside a ThreadBlockInVM region.
RunPCs == CritPCs \cup {"idle", "contended", "TrySpin", "try_sneak",
                        "unlock_snuck"}

\* At a safepoint a Java thread is outside the monitor or in ThreadBlockInVM.
SafepointInv ==
  /\ safepoint => \A t \in JavaThreads : pc[t] = "idle" \/ tbivm[t]
  /\ \A t \in Threads : tbivm[t] => pc[t] \notin RunPCs /\ call[t] # "unlock"
  /\ \A t \in Threads : pc[t] \in {"contended", "TrySpin"} => call[t] = "lock"

\* _snuck is set only at a safepoint, by a VM thread that uses lock or try_lock,
\* and until that thread unlocks.
SneakInv ==
  /\ snuck => safepoint /\ VMThreads # {}
  /\ \A v \in VMThreads :
       /\ snuck => pc[v] \in {"acquired", "crit", "unlock_snuck"}
       /\ pc[v] = "try_sneak" => safepoint /\ ~snuck
       /\ snuck \/ pc[v] \in {"contended", "try_sneak"} =>
            Calls[v] \cap {"lock", "try_lock"} # {}
  /\ \A t \in Threads : pc[t] = "try_sneak" => t \in VMThreads
  /\ \A t \in Threads : call[t] = "suspendwait" => t \in JavaThreads

LockTypes ==
  /\ LockByte \in BOOLEAN /\ snuck \in BOOLEAN /\ safepoint \in BOOLEAN
  /\ pc \in [Threads -> PCs]
  /\ call \in [Threads -> Ops \cup {"none", "unlock", "suspend"}]
  /\ tbivm \in [Threads -> BOOLEAN]
  /\ owner \in Threads \cup {NULL}

LockInv ==
  /\ LockTypes /\ SafepointInv /\ SneakInv
  /\ LockByteHeld /\ MutualExclusion

\* Every step keeps what is known about safepoints and sneaking.
LEMMA SafepointStep ==
  ASSUME SneakDiscipline, LockInv, [Next]_vars
  PROVE  SafepointInv' /\ SneakInv'
<1> USE ThreadsAssumption, CallsAssumption
    DEF LockInv, LockTypes, SafepointInv, SneakInv, SneakDiscipline, RunPCs,
        CritPCs, Waiting, Notifying, At, Goto, word, inner, waits, owning,
        locals
<1>1. ASSUME NEW t \in Threads, ILock(t) PROVE SafepointInv' /\ SneakInv'
  BY <1>1 DEF ILock, TryLock
<1>2. ASSUME NEW t \in Threads, ILock_reset(t) PROVE SafepointInv' /\ SneakInv'
  BY <1>2 DEF ILock_reset
<1>3. ASSUME NEW t \in Threads, AcquireOrPush(t) PROVE SafepointInv' /\ SneakInv'
  BY <1>3 DEF AcquireOrPush
<1>4. ASSUME NEW t \in Threads, ILock_wait(t) PROVE SafepointInv' /\ SneakInv'
  BY <1>4 DEF ILock_wait
<1>5. ASSUME NEW t \in Threads, ILock_park(t) PROVE SafepointInv' /\ SneakInv'
  BY <1>5 DEF ILock_park, ParkCommon
<1>6. ASSUME NEW t \in Threads, OnDeck_LOOP(t) PROVE SafepointInv' /\ SneakInv'
  BY <1>6 DEF OnDeck_LOOP, TryLock
<1>7. ASSUME NEW t \in Threads, OnDeck_park(t) PROVE SafepointInv' /\ SneakInv'
  BY <1>7 DEF OnDeck_park, ParkCommon
<1>8. ASSUME NEW t \in Threads, OnDeck_clear(t) PROVE SafepointInv' /\ SneakInv'
  BY <1>8 DEF OnDeck_clear
<1>9. ASSUME NEW t \in Threads, IUnlock(t) PROVE SafepointInv' /\ SneakInv'
  BY <1>9 DEF IUnlock
<1>10. ASSUME NEW t \in Threads, IUnlock_heir(t) PROVE SafepointInv' /\ SneakInv'
  BY <1>10 DEF IUnlock_heir
<1>11. ASSUME NEW t \in Threads, IUnlock_noheir(t) PROVE SafepointInv' /\ SneakInv'
  BY <1>11 DEF IUnlock_noheir, ReturnTo
<1>12. ASSUME NEW t \in Threads, unpark(t) PROVE SafepointInv' /\ SneakInv'
  BY <1>12 DEF unpark, ReturnTo
<1>13. ASSUME NEW t \in Threads, IUnlock_word(t) PROVE SafepointInv' /\ SneakInv'
  BY <1>13 DEF IUnlock_word, ReturnTo
<1>14. ASSUME NEW t \in Threads, IUnlock_list(t) PROVE SafepointInv' /\ SneakInv'
  BY <1>14 DEF IUnlock_list, ReturnTo
<1>15. ASSUME NEW t \in Threads, Succession(t) PROVE SafepointInv' /\ SneakInv'
  BY <1>15 DEF Succession, ReturnTo
<1>16. ASSUME NEW t \in Threads, WakeOne(t) PROVE SafepointInv' /\ SneakInv'
  BY <1>16 DEF WakeOne
<1>17. ASSUME NEW t \in Threads, WakeNone(t) PROVE SafepointInv' /\ SneakInv'
  BY <1>17 DEF WakeNone
<1>18. ASSUME NEW t \in Threads, Drain(t) PROVE SafepointInv' /\ SneakInv'
  BY <1>18 DEF Drain
<1>19. ASSUME NEW t \in Threads, Drain_punt(t) PROVE SafepointInv' /\ SneakInv'
  BY <1>19 DEF Drain_punt
<1>20. ASSUME NEW t \in Threads, Fill(t) PROVE SafepointInv' /\ SneakInv'
  BY <1>20 DEF Fill
<1>21. ASSUME NEW t \in Threads, Pass(t) PROVE SafepointInv' /\ SneakInv'
  BY <1>21 DEF Pass
<1>22. ASSUME NEW t \in Threads, Pass_word(t) PROVE SafepointInv' /\ SneakInv'
  BY <1>22 DEF Pass_word, ReturnTo
<1>23. ASSUME NEW t \in Threads, Punt(t) PROVE SafepointInv' /\ SneakInv'
  BY <1>23 DEF Punt
<1>24. ASSUME NEW t \in Threads, Resample(t) PROVE SafepointInv' /\ SneakInv'
  BY <1>24 DEF Resample, ReturnTo
<1>25. ASSUME NEW t \in Threads, notify_take(t) PROVE SafepointInv' /\ SneakInv'
  BY <1>25 DEF notify_take
<1>26. ASSUME NEW t \in Threads, notify_none(t) PROVE SafepointInv' /\ SneakInv'
  BY <1>26 DEF notify_none
<1>27. ASSUME NEW t \in Threads, notify_push(t) PROVE SafepointInv' /\ SneakInv'
  BY <1>27 DEF notify_push
<1>28. ASSUME NEW t \in Threads, notify_mark(t) PROVE SafepointInv' /\ SneakInv'
  BY <1>28 DEF notify_mark
<1>29. ASSUME NEW t \in Threads, notify_unpark(t) PROVE SafepointInv' /\ SneakInv'
  BY <1>29 DEF notify_unpark
<1>30. ASSUME NEW t \in Threads, IWait(t) PROVE SafepointInv' /\ SneakInv'
  BY <1>30 DEF IWait
<1>31. ASSUME NEW t \in Threads, IWait_add(t) PROVE SafepointInv' /\ SneakInv'
  BY <1>31 DEF IWait_add
<1>32. ASSUME NEW t \in Threads, IWait_loop(t) PROVE SafepointInv' /\ SneakInv'
  BY <1>32 DEF IWait_loop
<1>33. ASSUME NEW t \in Threads, IWait_park(t) PROVE SafepointInv' /\ SneakInv'
  BY <1>33 DEF IWait_park
<1>34. ASSUME NEW t \in Threads, IWait_timeout(t) PROVE SafepointInv' /\ SneakInv'
  BY <1>34 DEF IWait_timeout
<1>35. ASSUME NEW t \in Threads, IWait_check(t) PROVE SafepointInv' /\ SneakInv'
  BY <1>35 DEF IWait_check
<1>36. ASSUME NEW t \in Threads, IWait_remove(t) PROVE SafepointInv' /\ SneakInv'
  BY <1>36 DEF IWait_remove
<1>37. ASSUME NEW t \in Threads, IWait_recheck(t) PROVE SafepointInv' /\ SneakInv'
  BY <1>37 DEF IWait_recheck
<1>38. ASSUME NEW t \in Threads, Reenter(t) PROVE SafepointInv' /\ SneakInv'
  BY <1>38 DEF Reenter
<1>39. ASSUME NEW t \in Threads, Reenter_spin(t) PROVE SafepointInv' /\ SneakInv'
  BY <1>39 DEF Reenter_spin, TryLock
<1>40. ASSUME NEW t \in Threads, Reenter_park(t) PROVE SafepointInv' /\ SneakInv'
  BY <1>40 DEF Reenter_park, ParkCommon
<1>41. ASSUME NEW t \in Threads, wait_suspended(t) PROVE SafepointInv' /\ SneakInv'
  BY <1>41 DEF wait_suspended
<1>42. ASSUME NEW t \in Threads, lock_sneak(t) PROVE SafepointInv' /\ SneakInv'
  BY <1>42 DEF lock_sneak, CanSneak
<1>43. ASSUME NEW t \in Threads, lock_spin(t) PROVE SafepointInv' /\ SneakInv'
  <2>1. SafepointInv'
    BY <1>43 DEF lock_spin, TryLock
  <2>2. SneakInv'
    BY <1>43 DEF lock_spin, TryLock
  <2> QED
    BY <2>1, <2>2
<1>44. ASSUME NEW t \in Threads, Exeunt(t) PROVE SafepointInv' /\ SneakInv'
  BY <1>44 DEF Exeunt
<1>45. ASSUME NEW t \in Threads, try_sneak(t) PROVE SafepointInv' /\ SneakInv'
  BY <1>45 DEF try_sneak
<1>46. ASSUME NEW t \in Threads, unlock_snuck(t) PROVE SafepointInv' /\ SneakInv'
  BY <1>46 DEF unlock_snuck
<1>47. ASSUME NEW t \in Threads, lock(t) PROVE SafepointInv' /\ SneakInv'
  BY <1>47 DEF lock, Start, TryLock
<1>48. ASSUME NEW t \in Threads, lock_without_safepoint_check(t) PROVE SafepointInv' /\ SneakInv'
  BY <1>48 DEF lock_without_safepoint_check, Start
<1>49. ASSUME NEW t \in Threads, jvm_raw_lock(t) PROVE SafepointInv' /\ SneakInv'
  BY <1>49 DEF jvm_raw_lock, Start, TryLock
<1>50. ASSUME NEW t \in Threads, try_lock(t) PROVE SafepointInv' /\ SneakInv'
  BY <1>50 DEF try_lock, Start, TryLock, CanSneak
<1>51. ASSUME NEW t \in Threads, try_lock_sneak(t) PROVE SafepointInv' /\ SneakInv'
  BY <1>51 DEF try_lock_sneak, Start, CanSneak
<1>52. ASSUME NEW t \in Threads, notify(t) PROVE SafepointInv' /\ SneakInv'
  <2>1. SafepointInv'
    BY <1>52 DEF notify
  <2>2. SneakInv'
    BY <1>52 DEF notify
  <2> QED
    BY <2>1, <2>2
<1>53. ASSUME NEW t \in Threads, wait(t) PROVE SafepointInv' /\ SneakInv'
  BY <1>53 DEF wait
<1>54. ASSUME NEW t \in Threads, unlock(t) PROVE SafepointInv' /\ SneakInv'
  BY <1>54 DEF unlock
<1>55. ASSUME NEW t \in Threads, wait_resumed(t) PROVE SafepointInv' /\ SneakInv'
  BY <1>55 DEF wait_resumed
<1>56. CASE safepoint_begin
  BY <1>56 DEF safepoint_begin
<1>57. CASE safepoint_end
  BY <1>57 DEF safepoint_end
<1>58. CASE UNCHANGED vars
  BY <1>58 DEF vars
<1> HIDE DEF LockInv, SafepointInv, SneakInv
<1> QED
  BY <1>1, <1>2, <1>3, <1>4, <1>5, <1>6, <1>7, <1>8, <1>9, <1>10, <1>11,
     <1>12, <1>13, <1>14, <1>15, <1>16, <1>17, <1>18, <1>19, <1>20,
     <1>21, <1>22, <1>23, <1>24, <1>25, <1>26, <1>27, <1>28, <1>29,
     <1>30, <1>31, <1>32, <1>33, <1>34, <1>35, <1>36, <1>37, <1>38,
     <1>39, <1>40, <1>41, <1>42, <1>43, <1>44, <1>45, <1>46, <1>47,
     <1>48, <1>49, <1>50, <1>51, <1>52, <1>53, <1>54, <1>55, <1>56,
     <1>57, <1>58
  DEF Next, Internal, External


\* Every step keeps the lock byte and _owner in agreement with who holds the
\* monitor; Exeunt (set_owner) is the step that needs the argument above.
LEMMA LockStep ==
  ASSUME SneakDiscipline, LockInv, [Next]_vars
  PROVE  LockByteHeld' /\ MutualExclusion'
<1> USE ThreadsAssumption, CallsAssumption
    DEF LockInv, LockTypes, SafepointInv, SneakInv, SneakDiscipline, RunPCs,
        CritPCs, Waiting, Notifying, At, Goto, word, inner, waits, owning,
        locals, LockByteHeld, MutualExclusion, Holds, HoldPCs, Sneaked
<1>1. ASSUME NEW t \in Threads, ILock(t) PROVE LockByteHeld' /\ MutualExclusion'
  BY <1>1 DEF ILock, TryLock
<1>2. ASSUME NEW t \in Threads, ILock_reset(t) PROVE LockByteHeld' /\ MutualExclusion'
  BY <1>2 DEF ILock_reset
<1>3. ASSUME NEW t \in Threads, AcquireOrPush(t) PROVE LockByteHeld' /\ MutualExclusion'
  BY <1>3 DEF AcquireOrPush
<1>4. ASSUME NEW t \in Threads, ILock_wait(t) PROVE LockByteHeld' /\ MutualExclusion'
  BY <1>4 DEF ILock_wait
<1>5. ASSUME NEW t \in Threads, ILock_park(t) PROVE LockByteHeld' /\ MutualExclusion'
  BY <1>5 DEF ILock_park, ParkCommon
<1>6. ASSUME NEW t \in Threads, OnDeck_LOOP(t) PROVE LockByteHeld' /\ MutualExclusion'
  BY <1>6 DEF OnDeck_LOOP, TryLock
<1>7. ASSUME NEW t \in Threads, OnDeck_park(t) PROVE LockByteHeld' /\ MutualExclusion'
  BY <1>7 DEF OnDeck_park, ParkCommon
<1>8. ASSUME NEW t \in Threads, OnDeck_clear(t) PROVE LockByteHeld' /\ MutualExclusion'
  BY <1>8 DEF OnDeck_clear
<1>9. ASSUME NEW t \in Threads, IUnlock(t) PROVE LockByteHeld' /\ MutualExclusion'
  BY <1>9 DEF IUnlock
<1>10. ASSUME NEW t \in Threads, IUnlock_heir(t) PROVE LockByteHeld' /\ MutualExclusion'
  BY <1>10 DEF IUnlock_heir
<1>11. ASSUME NEW t \in Threads, IUnlock_noheir(t) PROVE LockByteHeld' /\ MutualExclusion'
  BY <1>11 DEF IUnlock_noheir, ReturnTo
<1>12. ASSUME NEW t \in Threads, unpark(t) PROVE LockByteHeld' /\ MutualExclusion'
  <2>1. LockByteHeld'
    BY <1>12 DEF unpark, ReturnTo
  <2>2. MutualExclusion'
    BY <1>12 DEF unpark, ReturnTo
  <2> QED
    BY <2>1, <2>2
<1>13. ASSUME NEW t \in Threads, IUnlock_word(t) PROVE LockByteHeld' /\ MutualExclusion'
  BY <1>13 DEF IUnlock_word, ReturnTo
<1>14. ASSUME NEW t \in Threads, IUnlock_list(t) PROVE LockByteHeld' /\ MutualExclusion'
  BY <1>14 DEF IUnlock_list, ReturnTo
<1>15. ASSUME NEW t \in Threads, Succession(t) PROVE LockByteHeld' /\ MutualExclusion'
  <2>1. LockByteHeld'
    BY <1>15 DEF Succession, ReturnTo
  <2>2. MutualExclusion'
    BY <1>15 DEF Succession, ReturnTo
  <2> QED
    BY <2>1, <2>2
<1>16. ASSUME NEW t \in Threads, WakeOne(t) PROVE LockByteHeld' /\ MutualExclusion'
  BY <1>16 DEF WakeOne
<1>17. ASSUME NEW t \in Threads, WakeNone(t) PROVE LockByteHeld' /\ MutualExclusion'
  BY <1>17 DEF WakeNone
<1>18. ASSUME NEW t \in Threads, Drain(t) PROVE LockByteHeld' /\ MutualExclusion'
  BY <1>18 DEF Drain
<1>19. ASSUME NEW t \in Threads, Drain_punt(t) PROVE LockByteHeld' /\ MutualExclusion'
  BY <1>19 DEF Drain_punt
<1>20. ASSUME NEW t \in Threads, Fill(t) PROVE LockByteHeld' /\ MutualExclusion'
  BY <1>20 DEF Fill
<1>21. ASSUME NEW t \in Threads, Pass(t) PROVE LockByteHeld' /\ MutualExclusion'
  BY <1>21 DEF Pass
<1>22. ASSUME NEW t \in Threads, Pass_word(t) PROVE LockByteHeld' /\ MutualExclusion'
  BY <1>22 DEF Pass_word, ReturnTo
<1>23. ASSUME NEW t \in Threads, Punt(t) PROVE LockByteHeld' /\ MutualExclusion'
  BY <1>23 DEF Punt
<1>24. ASSUME NEW t \in Threads, Resample(t) PROVE LockByteHeld' /\ MutualExclusion'
  BY <1>24 DEF Resample, ReturnTo
<1>25. ASSUME NEW t \in Threads, notify_take(t) PROVE LockByteHeld' /\ MutualExclusion'
  BY <1>25 DEF notify_take
<1>26. ASSUME NEW t \in Threads, notify_none(t) PROVE LockByteHeld' /\ MutualExclusion'
  BY <1>26 DEF notify_none
<1>27. ASSUME NEW t \in Threads, notify_push(t) PROVE LockByteHeld' /\ MutualExclusion'
  <2>1. Holds(t)
    BY <1>27 DEF notify_push
  <2>2. \A u \in Threads : Holds(u)' <=> Holds(u)
    BY <1>27, <2>1 DEF notify_push
  <2>3. LockByteHeld'
    BY <1>27, <2>1, <2>2 DEF notify_push
  <2>4. MutualExclusion'
    BY <1>27 DEF notify_push
  <2> QED
    BY <2>3, <2>4
<1>28. ASSUME NEW t \in Threads, notify_mark(t) PROVE LockByteHeld' /\ MutualExclusion'
  BY <1>28 DEF notify_mark
<1>29. ASSUME NEW t \in Threads, notify_unpark(t) PROVE LockByteHeld' /\ MutualExclusion'
  BY <1>29 DEF notify_unpark
<1>30. ASSUME NEW t \in Threads, IWait(t) PROVE LockByteHeld' /\ MutualExclusion'
  BY <1>30 DEF IWait
<1>31. ASSUME NEW t \in Threads, IWait_add(t) PROVE LockByteHeld' /\ MutualExclusion'
  BY <1>31 DEF IWait_add
<1>32. ASSUME NEW t \in Threads, IWait_loop(t) PROVE LockByteHeld' /\ MutualExclusion'
  BY <1>32 DEF IWait_loop
<1>33. ASSUME NEW t \in Threads, IWait_park(t) PROVE LockByteHeld' /\ MutualExclusion'
  BY <1>33 DEF IWait_park
<1>34. ASSUME NEW t \in Threads, IWait_timeout(t) PROVE LockByteHeld' /\ MutualExclusion'
  BY <1>34 DEF IWait_timeout
<1>35. ASSUME NEW t \in Threads, IWait_check(t) PROVE LockByteHeld' /\ MutualExclusion'
  BY <1>35 DEF IWait_check
<1>36. ASSUME NEW t \in Threads, IWait_remove(t) PROVE LockByteHeld' /\ MutualExclusion'
  BY <1>36 DEF IWait_remove
<1>37. ASSUME NEW t \in Threads, IWait_recheck(t) PROVE LockByteHeld' /\ MutualExclusion'
  BY <1>37 DEF IWait_recheck
<1>38. ASSUME NEW t \in Threads, Reenter(t) PROVE LockByteHeld' /\ MutualExclusion'
  BY <1>38 DEF Reenter
<1>39. ASSUME NEW t \in Threads, Reenter_spin(t) PROVE LockByteHeld' /\ MutualExclusion'
  BY <1>39 DEF Reenter_spin, TryLock
<1>40. ASSUME NEW t \in Threads, Reenter_park(t) PROVE LockByteHeld' /\ MutualExclusion'
  BY <1>40 DEF Reenter_park, ParkCommon
<1>41. ASSUME NEW t \in Threads, wait_suspended(t) PROVE LockByteHeld' /\ MutualExclusion'
  BY <1>41 DEF wait_suspended
<1>42. ASSUME NEW t \in Threads, lock_sneak(t) PROVE LockByteHeld' /\ MutualExclusion'
  BY <1>42 DEF lock_sneak, CanSneak
<1>43. ASSUME NEW t \in Threads, lock_spin(t) PROVE LockByteHeld' /\ MutualExclusion'
  BY <1>43 DEF lock_spin, TryLock
<1>44. ASSUME NEW t \in Threads, Exeunt(t) PROVE LockByteHeld' /\ MutualExclusion'
  <2>1. LockByteHeld'
    BY <1>44 DEF Exeunt
  <2>2. ASSUME NEW u \in Threads, u # t, pc[u] \in CritPCs PROVE FALSE
    <3>1. ~Sneaked(t)
      BY <1>44, <2>2 DEF Exeunt
    <3>2. ~Sneaked(u)
      BY <1>44, <2>2 DEF Exeunt
    <3> QED
      BY <1>44, <2>2, <3>1, <3>2 DEF Exeunt
  <2>3. MutualExclusion'
    BY <1>44, <2>2 DEF Exeunt
  <2> QED
    BY <2>1, <2>3
<1>45. ASSUME NEW t \in Threads, try_sneak(t) PROVE LockByteHeld' /\ MutualExclusion'
  <2>1. LockByteHeld'
    BY <1>45 DEF try_sneak
  <2>2. ASSUME NEW u \in Threads, u # t PROVE pc[u] \notin CritPCs
    BY <1>45, <2>2 DEF try_sneak
  <2>3. MutualExclusion'
    BY <1>45, <2>2 DEF try_sneak
  <2> QED
    BY <2>1, <2>3
<1>46. ASSUME NEW t \in Threads, unlock_snuck(t) PROVE LockByteHeld' /\ MutualExclusion'
  BY <1>46 DEF unlock_snuck
<1>47. ASSUME NEW t \in Threads, lock(t) PROVE LockByteHeld' /\ MutualExclusion'
  BY <1>47 DEF lock, Start, TryLock
<1>48. ASSUME NEW t \in Threads, lock_without_safepoint_check(t) PROVE LockByteHeld' /\ MutualExclusion'
  BY <1>48 DEF lock_without_safepoint_check, Start
<1>49. ASSUME NEW t \in Threads, jvm_raw_lock(t) PROVE LockByteHeld' /\ MutualExclusion'
  BY <1>49 DEF jvm_raw_lock, Start, TryLock
<1>50. ASSUME NEW t \in Threads, try_lock(t) PROVE LockByteHeld' /\ MutualExclusion'
  BY <1>50 DEF try_lock, Start, TryLock, CanSneak
<1>51. ASSUME NEW t \in Threads, try_lock_sneak(t) PROVE LockByteHeld' /\ MutualExclusion'
  BY <1>51 DEF try_lock_sneak, Start, CanSneak
<1>52. ASSUME NEW t \in Threads, notify(t) PROVE LockByteHeld' /\ MutualExclusion'
  BY <1>52 DEF notify
<1>53. ASSUME NEW t \in Threads, wait(t) PROVE LockByteHeld' /\ MutualExclusion'
  BY <1>53 DEF wait
<1>54. ASSUME NEW t \in Threads, unlock(t) PROVE LockByteHeld' /\ MutualExclusion'
  BY <1>54 DEF unlock
<1>55. ASSUME NEW t \in Threads, wait_resumed(t) PROVE LockByteHeld' /\ MutualExclusion'
  BY <1>55 DEF wait_resumed
<1>56. CASE safepoint_begin
  BY <1>56 DEF safepoint_begin
<1>57. CASE safepoint_end
  BY <1>57 DEF safepoint_end
<1>58. CASE UNCHANGED vars
  BY <1>58 DEF vars
<1> QED
  BY <1>1, <1>2, <1>3, <1>4, <1>5, <1>6, <1>7, <1>8, <1>9, <1>10, <1>11,
     <1>12, <1>13, <1>14, <1>15, <1>16, <1>17, <1>18, <1>19, <1>20,
     <1>21, <1>22, <1>23, <1>24, <1>25, <1>26, <1>27, <1>28, <1>29,
     <1>30, <1>31, <1>32, <1>33, <1>34, <1>35, <1>36, <1>37, <1>38,
     <1>39, <1>40, <1>41, <1>42, <1>43, <1>44, <1>45, <1>46, <1>47,
     <1>48, <1>49, <1>50, <1>51, <1>52, <1>53, <1>54, <1>55, <1>56,
     <1>57, <1>58
  DEF Next, Internal, External


\* A cleared monitor (ClearMonitor) is free and unowned.
LEMMA LockInit == ASSUME Init PROVE LockInv
<1>1. LockTypes
  BY TypeInit DEF TypeInv, TypeOK, LockTypes
<1>2. SafepointInv /\ SneakInv
  BY ThreadsAssumption DEF Init, SafepointInv, SneakInv
<1>3. LockByteHeld /\ MutualExclusion
  BY ThreadsAssumption DEF Init, LockByteHeld, MutualExclusion, Holds, HoldPCs, CritPCs
<1> QED
  BY <1>1, <1>2, <1>3 DEF LockInv

\* The two invariants the theorems below need are invariants together.
LEMMA LockInvariant ==
  ASSUME SneakDiscipline
  PROVE  Spec => [](TypeInv /\ LockInv)
<1>1. Init => TypeInv /\ LockInv
  BY TypeInit, LockInit
<1>2. TypeInv /\ LockInv /\ [Next]_vars => TypeInv' /\ LockInv'
  <2> SUFFICES ASSUME TypeInv, LockInv, [Next]_vars PROVE TypeInv' /\ LockInv'
    OBVIOUS
  <2>1. TypeInv'
    BY TypeStep
  <2>2. LockTypes'
    BY <2>1 DEF TypeInv, TypeOK, LockTypes
  <2>3. SafepointInv' /\ SneakInv'
    BY SafepointStep
  <2>4. LockByteHeld' /\ MutualExclusion'
    BY LockStep
  <2> QED
    BY <2>1, <2>2, <2>3, <2>4 DEF LockInv
<1> QED
  BY <1>1, <1>2, PTL DEF Spec

\* The lock byte is set exactly while one thread holds the outer lock
\* (TryLock, AcquireOrPush, IUnlock), whoever sneaks past it.
THEOREM LockByteCorrect ==
  ASSUME SneakDiscipline
  PROVE  Spec => []LockByteHeld
<1>1. LockInv => LockByteHeld
  BY DEF LockInv
<1> QED
  BY <1>1, LockInvariant, PTL

\* No two threads are between lock() and unlock() or wait(), the VM thread that
\* sneaked past the lock byte included.
THEOREM MutualExclusionCorrect ==
  ASSUME SneakDiscipline
  PROVE  Spec => []MutualExclusion
<1>1. LockInv => MutualExclusion
  BY DEF LockInv
<1> QED
  BY <1>1, LockInvariant, PTL

-----------------------------------------------------------------------------
(* What is invariant.                                                       *)

\* Where a thread is queued for the lock, and where it waits on the monitor.
QueuedPCs == {"ILock_wait", "ILock_park", "OnDeck_LOOP", "OnDeck_park",
              "OnDeck_clear", "Reenter", "Reenter_spin", "Reenter_park"}
WaitPCs == {"IWait_loop", "IWait_park", "IWait_check", "IWait_remove"}
Exiting == ExitPCs \cup {"IUnlock"}
InWait(t) == pc[t] \in WaitPCs \/ (pc[t] \in Exiting /\ call[t] \in Waiting)
Linked(t) == pc[t] \in QueuedPCs \/ InWait(t)

\* IUnlock returns to the operation that called it.
CallInv == \A t \in Threads :
  /\ pc[t] = "unlock_snuck" => call[t] = "unlock"
  /\ pc[t] \in {"IWait", "IWait_add"} => call[t] \in Waiting
  /\ pc[t] \in Exiting => call[t] \in Waiting \cup {"unlock", "suspend"}

\* One thread holds the inner lock, and only it has detached a segment; the
\* thread that is OnDeck and has seen it stays there.
InnerInv ==
  /\ OnDeck = LBIT <=> (\E t \in Threads : pc[t] \in InnerPCs)
  /\ \A t, u \in Threads : pc[t] \in InnerPCs /\ pc[u] \in InnerPCs => t = u
  /\ \A t \in Threads :
       /\ pc[t] \in {"Drain", "Fill", "Punt"} => EntryList = <<>>
       /\ det[t] # <<>> <=> pc[t] = "Fill"
       /\ pc[t] \in {"OnDeck_LOOP", "OnDeck_park", "OnDeck_clear",
                     "Reenter_spin"} => OnDeck = t

\* The WaitLock is held from the unlinking of a waiter until it is marked.
NotifyInv ==
  \A t \in Threads : WaitLock = t <=> pc[t] \in {"notify_push", "notify_mark"}

\* t waits on the monitor, as AbstractMonitor has it.
Waits(t) == OnWaitSet(t) \/ InNotify(t)

\* What notify() has put on the cxq and not yet marked.
InMark(t) == \E u \in Threads : At(u, "notify_mark") /\ hand[u] = t

\* Where the ParkEvent of t is: nowhere if t is not linked, on the WaitSet or in
\* the notifier's hand until it is pushed, and in one place of the queue after.
Place(t) ==
  /\ OnWaitSet(t) => ~InNotify(t)
  /\ OnWaitSet(t) \/ InNotify(t) => InWait(t) /\ ~Notified[t] /\ ~Contends(t)
  /\ Contends(t) => Linked(t)
  /\ OnCxq(t) => ~Detached(t) /\ ~OnEntryList(t) /\ ~InPass(t) /\ OnDeck # t
  /\ OnEntryList(t) => ~InPass(t) /\ OnDeck # t
  /\ pc[t] \in QueuedPCs => Contends(t)
  /\ InWait(t) /\ Notified[t] => Contends(t)
  /\ InWait(t) /\ ~Notified[t] => OnWaitSet(t) \/ InNotify(t) \/ InMark(t)
  /\ pc[t] = "IWait_add" => ~Notified[t]
  /\ InMark(t) => InWait(t) /\ ~Notified[t] /\ Contends(t)

Distinct ==
  /\ NoDuplicates(cxq) /\ NoDuplicates(EntryList) /\ NoDuplicates(WaitSet)
  /\ \A t \in Threads : NoDuplicates(det[t])

PlaceInv == Distinct /\ \A t \in Threads : Place(t)

\* While the lock is free, the thread that is OnDeck is awake, or somebody is
\* about to unpark it ...
HeirInv ==
  ~LockByte /\ OnDeck \in Threads =>
    \/ event[OnDeck] \/ pc[OnDeck] \notin ParkPCs
    \/ \E u \in Threads : \/ pc[u] = "IUnlock_ondeck"
                          \/ pc[u] \in {"Pass_word", "unpark"} /\ hand[u] = OnDeck

\* ... and if nobody is OnDeck and a list is not empty, some thread on its way
\* out of IUnlock will still see that list.
QueueInv ==
  ~LockByte /\ OnDeck = NULL /\ (cxq # <<>> \/ EntryList # <<>>) =>
    \E u \in Threads :
      \/ pc[u] \in {"IUnlock_ondeck", "IUnlock_word", "Succession"}
      \/ pc[u] = "IUnlock_list" /\ EntryList # <<>>
      \/ pc[u] = "Resample" /\ cxq # <<>>

BaseInv == CallInv /\ InnerInv /\ NotifyInv

-----------------------------------------------------------------------------
(* The lists.                                                               *)

\* An empty list holds no thread.
LEMMA OnEmpty == NoDuplicates(<<>>) /\ \A x : ~On(<<>>, x)
  BY DEF On, NoDuplicates

\* Pushing a thread (AcquireOrPush, IWait_add, notify) adds that thread.
LEMMA OnPush ==
  ASSUME NEW S, NEW s \in Seq(S), NEW x \in S
  PROVE  /\ \A y : On(<<x>> \o s, y) <=> y = x \/ On(s, y)
         /\ NoDuplicates(s) /\ ~On(s, x) => NoDuplicates(<<x>> \o s)
<1> DEFINE p == <<x>> \o s
<1>1. /\ Len(p) = Len(s) + 1 /\ Len(s) \in Nat
      /\ p[1] = x /\ \A i \in 1..Len(s) : p[i + 1] = s[i]
  OBVIOUS
<1> HIDE DEF p
<1>2. \A i \in 1..Len(p) : i # 1 => i - 1 \in 1..Len(s) /\ p[i] = s[i - 1]
  <2> SUFFICES ASSUME NEW i \in 1..Len(p), i # 1
               PROVE  i - 1 \in 1..Len(s) /\ p[i] = s[i - 1]
    OBVIOUS
  <2>1. i - 1 \in 1..Len(s) /\ (i - 1) + 1 = i
    BY <1>1
  <2>2. p[(i - 1) + 1] = s[i - 1]
    BY <1>1, <2>1
  <2> QED
    BY <2>1, <2>2
<1>3. ASSUME NEW y PROVE On(p, y) <=> y = x \/ On(s, y)
  <2>1. ASSUME On(p, y) PROVE y = x \/ On(s, y)
    BY <1>1, <1>2, <2>1 DEF On
  <2>2. ASSUME y = x PROVE On(p, y)
    BY <1>1, <2>2 DEF On
  <2>3. ASSUME On(s, y) PROVE On(p, y)
    <3>1. PICK i \in 1..Len(s) : s[i] = y
      BY <2>3 DEF On
    <3>2. i + 1 \in 1..Len(p) /\ p[i + 1] = y
      BY <1>1, <3>1
    <3> QED
      BY <3>2 DEF On
  <2> QED
    BY <2>1, <2>2, <2>3
<1>4. ASSUME NoDuplicates(s), ~On(s, x) PROVE NoDuplicates(p)
  <2> SUFFICES ASSUME NEW i \in 1..Len(p), NEW j \in 1..Len(p), p[i] = p[j]
               PROVE  i = j
    BY DEF NoDuplicates
  <2>1. CASE i = 1 \/ j = 1
    BY <1>1, <1>2, <1>4, <2>1 DEF On
  <2>2. CASE i # 1 /\ j # 1
    <3>1. i - 1 \in 1..Len(s) /\ j - 1 \in 1..Len(s)
      BY <1>1, <2>2
    <3>2. s[i - 1] = s[j - 1]
      BY <1>1, <1>2, <2>2
    <3>3. i - 1 = j - 1
      BY <1>4, <3>1, <3>2 DEF NoDuplicates
    <3> QED
      BY <3>3
  <2> QED
    BY <2>1, <2>2
<1> QED
  BY <1>3, <1>4 DEF p

\* Unlinking the head (WakeOne, notify) removes that thread and no other.
LEMMA OnTail ==
  ASSUME NEW S, NEW s \in Seq(S), s # <<>>, NoDuplicates(s)
  PROVE  /\ Head(s) \in S /\ On(s, Head(s)) /\ Tail(s) \in Seq(S)
         /\ \A y : On(Tail(s), y) <=> On(s, y) /\ y # Head(s)
         /\ NoDuplicates(Tail(s))
<1> DEFINE p == Tail(s)
<1>1. /\ p \in Seq(S) /\ Len(p) = Len(s) - 1 /\ Len(s) \in Nat \ {0}
      /\ Head(s) = s[1] /\ \A i \in 1..Len(p) : p[i] = s[i + 1]
  OBVIOUS
<1> HIDE DEF p
<1>2. Head(s) \in S /\ On(s, Head(s))
  BY <1>1 DEF On
<1>3. ASSUME NEW y PROVE On(p, y) <=> On(s, y) /\ y # Head(s)
  <2>1. ASSUME On(p, y) PROVE On(s, y) /\ y # Head(s)
    <3>1. PICK i \in 1..Len(p) : p[i] = y
      BY <2>1 DEF On
    <3>2. i + 1 \in 1..Len(s) /\ 1 \in 1..Len(s) /\ s[i + 1] = y /\ i + 1 # 1
      BY <1>1, <3>1
    <3>3. y # s[1]
      BY <3>2 DEF NoDuplicates
    <3> QED
      BY <1>1, <3>2, <3>3 DEF On
  <2>2. ASSUME On(s, y), y # Head(s) PROVE On(p, y)
    <3>1. PICK i \in 1..Len(s) : s[i] = y
      BY <2>2 DEF On
    <3>2. i - 1 \in 1..Len(p) /\ (i - 1) + 1 = i
      BY <1>1, <2>2, <3>1
    <3>3. p[i - 1] = s[(i - 1) + 1]
      BY <1>1, <3>2
    <3> QED
      BY <3>1, <3>2, <3>3 DEF On
  <2> QED
    BY <2>1, <2>2
<1>4. NoDuplicates(p)
  <2> SUFFICES ASSUME NEW i \in 1..Len(p), NEW j \in 1..Len(p), p[i] = p[j]
               PROVE  i = j
    BY DEF NoDuplicates
  <2>1. i + 1 \in 1..Len(s) /\ j + 1 \in 1..Len(s) /\ s[i + 1] = s[j + 1]
    BY <1>1
  <2>2. i + 1 = j + 1
    BY <2>1 DEF NoDuplicates
  <2> QED
    BY <1>1, <2>2
<1> QED
  BY <1>1, <1>2, <1>3, <1>4 DEF p

\* So does unlinking a thread from the middle of a list (IWait).
LEMMA OnUnlink ==
  ASSUME NEW S, NEW s \in Seq(S), NEW x, On(s, x), NoDuplicates(s)
  PROVE  /\ \A y : On(Unlink(s, x), y) <=> On(s, y) /\ y # x
         /\ NoDuplicates(Unlink(s, x))
<1> DEFINE k == CHOOSE i \in 1..Len(s) : s[i] = x
           p == Unlink(s, x)
<1>1. k \in 1..Len(s) /\ s[k] = x
  BY DEF On
<1>2. Len(s) \in Nat /\ p = [i \in 1..(Len(s) - 1) |-> IF i < k THEN s[i] ELSE s[i + 1]]
  BY DEF Unlink
<1>3. Len(p) = Len(s) - 1
  BY <1>1, <1>2
<1>4. \A i \in 1..Len(p) : p[i] = IF i < k THEN s[i] ELSE s[i + 1]
  BY <1>2, <1>3
<1> HIDE DEF p, k
<1> DEFINE at(i) == IF i < k THEN i ELSE i + 1
<1>5. \A i \in 1..Len(p) : at(i) \in 1..Len(s) /\ at(i) # k /\ p[i] = s[at(i)]
  BY <1>1, <1>2, <1>3, <1>4
<1>6. \A i, j \in 1..Len(p) : at(i) = at(j) => i = j
  BY <1>1, <1>2, <1>3
<1>7. \A j \in 1..Len(s) : j # k => \E i \in 1..Len(p) : at(i) = j
  <2> SUFFICES ASSUME NEW j \in 1..Len(s), j # k
               PROVE  \E i \in 1..Len(p) : at(i) = j
    OBVIOUS
  <2>1. CASE j < k
    BY <1>1, <1>2, <1>3, <2>1
  <2>2. CASE j > k
    <3>1. j - 1 \in 1..Len(p) /\ at(j - 1) = j
      BY <1>1, <1>2, <1>3, <2>2
    <3> QED
      BY <3>1
  <2>3. j < k \/ j > k
    BY <1>1, <1>2
  <2> QED
    BY <2>1, <2>2, <2>3
<1> HIDE DEF at
<1>8. ASSUME NEW y PROVE On(p, y) <=> On(s, y) /\ y # x
  <2>1. ASSUME On(p, y) PROVE On(s, y) /\ y # x
    BY <1>1, <1>5, <2>1 DEF On, NoDuplicates
  <2>2. ASSUME On(s, y), y # x PROVE On(p, y)
    <3>1. PICK j \in 1..Len(s) : s[j] = y
      BY <2>2 DEF On
    <3>2. j # k
      BY <1>1, <2>2, <3>1
    <3>3. PICK i \in 1..Len(p) : at(i) = j
      BY <1>7, <3>1, <3>2
    <3> QED
      BY <1>5, <3>1, <3>3 DEF On
  <2> QED
    BY <2>1, <2>2
<1>9. NoDuplicates(p)
  BY <1>5, <1>6 DEF NoDuplicates
<1> QED
  BY <1>8, <1>9 DEF p

-----------------------------------------------------------------------------
(* The inner lock and the WaitLock.                                         *)

\* Every step keeps the inner lock and the WaitLock with one holder.
LEMMA BaseStep ==
  ASSUME TypeInv, BaseInv, [Next]_vars
  PROVE  BaseInv'
<1> USE ThreadsAssumption, CallsAssumption DEF TypeInv, TypeOK, HandOK, HandPCs, PCs,
   BaseInv, CallInv, InnerInv, NotifyInv, InnerPCs, Exiting, ExitPCs, Waiting,
   Notifying, At, Goto, word, inner, waits, owning, locals
<1>1. ASSUME NEW t \in Threads, ILock(t) PROVE BaseInv'
  BY <1>1 DEF ILock, TryLock
<1>2. ASSUME NEW t \in Threads, ILock_reset(t) PROVE BaseInv'
  <2>1. CallInv'
    BY <1>2 DEF ILock_reset
  <2>2. InnerInv'
    BY <1>2 DEF ILock_reset
  <2>3. NotifyInv'
    BY <1>2 DEF ILock_reset
  <2> QED
    BY <2>1, <2>2, <2>3
<1>3. ASSUME NEW t \in Threads, AcquireOrPush(t) PROVE BaseInv'
  BY <1>3 DEF AcquireOrPush
<1>4. ASSUME NEW t \in Threads, ILock_wait(t) PROVE BaseInv'
  BY <1>4 DEF ILock_wait
<1>5. ASSUME NEW t \in Threads, ILock_park(t) PROVE BaseInv'
  <2>1. CallInv'
    BY <1>5 DEF ILock_park, ParkCommon
  <2>2. InnerInv'
    BY <1>5 DEF ILock_park, ParkCommon
  <2>3. NotifyInv'
    BY <1>5 DEF ILock_park, ParkCommon
  <2> QED
    BY <2>1, <2>2, <2>3
<1>6. ASSUME NEW t \in Threads, OnDeck_LOOP(t) PROVE BaseInv'
  BY <1>6 DEF OnDeck_LOOP, TryLock
<1>7. ASSUME NEW t \in Threads, OnDeck_park(t) PROVE BaseInv'
  BY <1>7 DEF OnDeck_park, ParkCommon
<1>8. ASSUME NEW t \in Threads, OnDeck_clear(t) PROVE BaseInv'
  BY <1>8 DEF OnDeck_clear
<1>9. ASSUME NEW t \in Threads, IUnlock(t) PROVE BaseInv'
  <2>1. CallInv'
    BY <1>9 DEF IUnlock
  <2>2. InnerInv'
    BY <1>9 DEF IUnlock
  <2>3. NotifyInv'
    BY <1>9 DEF IUnlock
  <2> QED
    BY <2>1, <2>2, <2>3
<1>10. ASSUME NEW t \in Threads, IUnlock_heir(t) PROVE BaseInv'
  BY <1>10 DEF IUnlock_heir
<1>11. ASSUME NEW t \in Threads, IUnlock_noheir(t) PROVE BaseInv'
  BY <1>11 DEF IUnlock_noheir, ReturnTo
<1>12. ASSUME NEW t \in Threads, unpark(t) PROVE BaseInv'
  <2>1. /\ pc[t] = "unpark" /\ pc' = [pc EXCEPT ![t] = ReturnTo(t)]
        /\ UNCHANGED <<OnDeck, EntryList, WaitLock, call, det>>
    BY <1>12 DEF unpark
  <2>2. ReturnTo(t) \in {"idle", "suspended", "IWait_loop"}
    BY DEF ReturnTo
  <2>3. CallInv' /\ NotifyInv'
    BY <2>1, <2>2
  <2>4. InnerInv'
    BY <2>1, <2>2
  <2> QED
    BY <2>3, <2>4
<1>13. ASSUME NEW t \in Threads, IUnlock_word(t) PROVE BaseInv'
  BY <1>13 DEF IUnlock_word, ReturnTo
<1>14. ASSUME NEW t \in Threads, IUnlock_list(t) PROVE BaseInv'
  BY <1>14 DEF IUnlock_list, ReturnTo
<1>15. ASSUME NEW t \in Threads, Succession(t) PROVE BaseInv'
  BY <1>15 DEF Succession, ReturnTo
<1>16. ASSUME NEW t \in Threads, WakeOne(t) PROVE BaseInv'
  BY <1>16 DEF WakeOne
<1>17. ASSUME NEW t \in Threads, WakeNone(t) PROVE BaseInv'
  BY <1>17 DEF WakeNone
<1>18. ASSUME NEW t \in Threads, Drain(t) PROVE BaseInv'
  BY <1>18 DEF Drain
<1>19. ASSUME NEW t \in Threads, Drain_punt(t) PROVE BaseInv'
  BY <1>19 DEF Drain_punt
<1>20. ASSUME NEW t \in Threads, Fill(t) PROVE BaseInv'
  BY <1>20 DEF Fill
<1>21. ASSUME NEW t \in Threads, Pass(t) PROVE BaseInv'
  BY <1>21 DEF Pass
<1>22. ASSUME NEW t \in Threads, Pass_word(t) PROVE BaseInv'
  <2>1. CallInv'
    BY <1>22 DEF Pass_word, ReturnTo
  <2>2. InnerInv'
    BY <1>22 DEF Pass_word, ReturnTo
  <2>3. NotifyInv'
    BY <1>22 DEF Pass_word, ReturnTo
  <2> QED
    BY <2>1, <2>2, <2>3
<1>23. ASSUME NEW t \in Threads, Punt(t) PROVE BaseInv'
  BY <1>23 DEF Punt
<1>24. ASSUME NEW t \in Threads, Resample(t) PROVE BaseInv'
  BY <1>24 DEF Resample, ReturnTo
<1>25. ASSUME NEW t \in Threads, notify_take(t) PROVE BaseInv'
  BY <1>25 DEF notify_take
<1>26. ASSUME NEW t \in Threads, notify_none(t) PROVE BaseInv'
  BY <1>26 DEF notify_none
<1>27. ASSUME NEW t \in Threads, notify_push(t) PROVE BaseInv'
  BY <1>27 DEF notify_push
<1>28. ASSUME NEW t \in Threads, notify_mark(t) PROVE BaseInv'
  BY <1>28 DEF notify_mark
<1>29. ASSUME NEW t \in Threads, notify_unpark(t) PROVE BaseInv'
  BY <1>29 DEF notify_unpark
<1>30. ASSUME NEW t \in Threads, IWait(t) PROVE BaseInv'
  BY <1>30 DEF IWait
<1>31. ASSUME NEW t \in Threads, IWait_add(t) PROVE BaseInv'
  BY <1>31 DEF IWait_add
<1>32. ASSUME NEW t \in Threads, IWait_loop(t) PROVE BaseInv'
  BY <1>32 DEF IWait_loop
<1>33. ASSUME NEW t \in Threads, IWait_park(t) PROVE BaseInv'
  <2>1. CallInv'
    BY <1>33 DEF IWait_park
  <2>2. InnerInv'
    BY <1>33 DEF IWait_park
  <2>3. NotifyInv'
    BY <1>33 DEF IWait_park
  <2> QED
    BY <2>1, <2>2, <2>3
<1>34. ASSUME NEW t \in Threads, IWait_timeout(t) PROVE BaseInv'
  BY <1>34 DEF IWait_timeout
<1>35. ASSUME NEW t \in Threads, IWait_check(t) PROVE BaseInv'
  BY <1>35 DEF IWait_check
<1>36. ASSUME NEW t \in Threads, IWait_remove(t) PROVE BaseInv'
  BY <1>36 DEF IWait_remove
<1>37. ASSUME NEW t \in Threads, IWait_recheck(t) PROVE BaseInv'
  BY <1>37 DEF IWait_recheck
<1>38. ASSUME NEW t \in Threads, Reenter(t) PROVE BaseInv'
  BY <1>38 DEF Reenter
<1>39. ASSUME NEW t \in Threads, Reenter_spin(t) PROVE BaseInv'
  BY <1>39 DEF Reenter_spin, TryLock
<1>40. ASSUME NEW t \in Threads, Reenter_park(t) PROVE BaseInv'
  <2>1. CallInv'
    BY <1>40 DEF Reenter_park, ParkCommon
  <2>2. InnerInv'
    BY <1>40 DEF Reenter_park, ParkCommon
  <2>3. NotifyInv'
    BY <1>40 DEF Reenter_park, ParkCommon
  <2> QED
    BY <2>1, <2>2, <2>3
<1>41. ASSUME NEW t \in Threads, wait_suspended(t) PROVE BaseInv'
  BY <1>41 DEF wait_suspended
<1>42. ASSUME NEW t \in Threads, lock_sneak(t) PROVE BaseInv'
  BY <1>42 DEF lock_sneak
<1>43. ASSUME NEW t \in Threads, lock_spin(t) PROVE BaseInv'
  <2>1. CallInv'
    BY <1>43 DEF lock_spin, TryLock
  <2>2. InnerInv'
    BY <1>43 DEF lock_spin, TryLock
  <2>3. NotifyInv'
    BY <1>43 DEF lock_spin, TryLock
  <2> QED
    BY <2>1, <2>2, <2>3
<1>44. ASSUME NEW t \in Threads, Exeunt(t) PROVE BaseInv'
  BY <1>44 DEF Exeunt
<1>45. ASSUME NEW t \in Threads, try_sneak(t) PROVE BaseInv'
  BY <1>45 DEF try_sneak
<1>46. ASSUME NEW t \in Threads, unlock_snuck(t) PROVE BaseInv'
  BY <1>46 DEF unlock_snuck
<1>47. ASSUME NEW t \in Threads, lock(t) PROVE BaseInv'
  <2>1. CallInv'
    BY <1>47 DEF lock, Start, TryLock
  <2>2. InnerInv'
    BY <1>47 DEF lock, Start, TryLock
  <2>3. NotifyInv'
    BY <1>47 DEF lock, Start, TryLock
  <2> QED
    BY <2>1, <2>2, <2>3
<1>48. ASSUME NEW t \in Threads, lock_without_safepoint_check(t) PROVE BaseInv'
  <2>1. CallInv'
    BY <1>48 DEF lock_without_safepoint_check, Start
  <2>2. InnerInv'
    BY <1>48 DEF lock_without_safepoint_check, Start
  <2>3. NotifyInv'
    BY <1>48 DEF lock_without_safepoint_check, Start
  <2> QED
    BY <2>1, <2>2, <2>3
<1>49. ASSUME NEW t \in Threads, jvm_raw_lock(t) PROVE BaseInv'
  <2>1. CallInv'
    BY <1>49 DEF jvm_raw_lock, Start, TryLock
  <2>2. InnerInv'
    BY <1>49 DEF jvm_raw_lock, Start, TryLock
  <2>3. NotifyInv'
    BY <1>49 DEF jvm_raw_lock, Start, TryLock
  <2> QED
    BY <2>1, <2>2, <2>3
<1>50. ASSUME NEW t \in Threads, try_lock(t) PROVE BaseInv'
  <2>1. CallInv'
    BY <1>50 DEF try_lock, Start, TryLock
  <2>2. InnerInv'
    BY <1>50 DEF try_lock, Start, TryLock
  <2>3. NotifyInv'
    BY <1>50 DEF try_lock, Start, TryLock
  <2> QED
    BY <2>1, <2>2, <2>3
<1>51. ASSUME NEW t \in Threads, try_lock_sneak(t) PROVE BaseInv'
  BY <1>51 DEF try_lock_sneak, Start
<1>52. ASSUME NEW t \in Threads, notify(t) PROVE BaseInv'
  BY <1>52 DEF notify
<1>53. ASSUME NEW t \in Threads, wait(t) PROVE BaseInv'
  BY <1>53 DEF wait
<1>54. ASSUME NEW t \in Threads, unlock(t) PROVE BaseInv'
  BY <1>54 DEF unlock
<1>55. ASSUME NEW t \in Threads, wait_resumed(t) PROVE BaseInv'
  BY <1>55 DEF wait_resumed
<1>56. CASE safepoint_begin
  BY <1>56 DEF safepoint_begin
<1>57. CASE safepoint_end
  BY <1>57 DEF safepoint_end
<1>58. CASE UNCHANGED vars
  BY <1>58 DEF vars
<1> QED
  BY <1>1, <1>2, <1>3, <1>4, <1>5, <1>6, <1>7, <1>8, <1>9, <1>10, <1>11, <1>12, <1>13,
     <1>14, <1>15, <1>16, <1>17, <1>18, <1>19, <1>20, <1>21, <1>22, <1>23, <1>24,
     <1>25, <1>26, <1>27, <1>28, <1>29, <1>30, <1>31, <1>32, <1>33, <1>34, <1>35,
     <1>36, <1>37, <1>38, <1>39, <1>40, <1>41, <1>42, <1>43, <1>44, <1>45, <1>46,
     <1>47, <1>48, <1>49, <1>50, <1>51, <1>52, <1>53, <1>54, <1>55, <1>56, <1>57,
     <1>58
  DEF Next, Internal, External

-----------------------------------------------------------------------------
(* The places.                                                              *)

\* A step of t that moves no ParkEvent, and after which t is still waiting,
\* still queued, or was notified and goes on to reenter.
Calm(t) ==
  /\ UNCHANGED <<cxq, EntryList, WaitSet, Notified, det>>
  /\ \A u \in Threads : OnDeck' = u <=> OnDeck = u
  /\ \A u \in Threads \ {t} :
       pc'[u] = pc[u] /\ call'[u] = call[u] /\ hand'[u] = hand[u]
  /\ \A l \in {"notify_push", "notify_mark", "Pass", "IWait_add"} :
       pc[t] # l /\ pc'[t] # l
  /\ Linked(t)' <=> Linked(t)
  /\ InWait(t)' => InWait(t)
  /\ InWait(t) => InWait(t)' \/ Notified[t]
  /\ pc'[t] = "IUnlock" => ~Linked(t)

\* Such a step leaves every ParkEvent where it is.
LEMMA CalmStep ==
  ASSUME PlaceInv, NEW t \in Threads, Calm(t)
  PROVE  /\ PlaceInv'
         /\ \A x \in Threads : (Contends(x)' <=> Contends(x)) /\ (Waits(x)' <=> Waits(x))
<1>1. Distinct'
  BY DEF Calm, PlaceInv, Distinct
<1>2. ASSUME NEW x \in Threads 
        PROVE  Place(x)' /\ (Contends(x)' <=> Contends(x)) /\ (Waits(x)' <=> Waits(x))
  <2>1. OnWaitSet(x)' <=> OnWaitSet(x)
    BY DEF Calm, OnWaitSet
  <2>2. (InNotify(x)' <=> InNotify(x)) /\ (InMark(x)' <=> InMark(x))
    BY DEF Calm, InNotify, InMark, At
  <2>3. /\ OnCxq(x)' <=> OnCxq(x)
        /\ Detached(x)' <=> Detached(x)
        /\ OnEntryList(x)' <=> OnEntryList(x)
    BY DEF Calm, OnCxq, Detached, OnEntryList
  <2>4. (InPass(x)' <=> InPass(x)) /\ (OnDeck' = x <=> OnDeck = x)
    BY DEF Calm, InPass, At
  <2>5. Contends(x)' <=> Contends(x)
    BY <2>3, <2>4 DEF Contends
  <2>6. Notified'[x] = Notified[x]
    BY DEF Calm
  <2>7. CASE x # t
    <3>1. (InWait(x)' <=> InWait(x)) /\ (Linked(x)' <=> Linked(x)) /\ pc'[x] = pc[x]
      BY <2>7 DEF Calm, InWait, Linked
    <3> QED
      BY <2>1, <2>2, <2>3, <2>4, <2>5, <2>6, <3>1 DEF Place, PlaceInv, Waits
  <2>8. CASE x = t
    <3>1. pc'[x] \in QueuedPCs => ~InWait(x)' /\ Linked(x)'
      BY DEF Linked, InWait, QueuedPCs, WaitPCs, Exiting, ExitPCs, InnerPCs
    <3>2. pc'[x] \in QueuedPCs => Contends(x)
      BY <2>8, <3>1 DEF Calm, PlaceInv, Place, Linked
    <3> QED
      BY <2>1, <2>2, <2>3, <2>4, <2>5, <2>6, <2>8, <3>2 DEF Calm, Place, PlaceInv, Waits
  <2> QED
    BY <2>7, <2>8
<1> QED
  BY <1>1, <1>2 DEF PlaceInv

\* The holder of the inner lock is alone: nothing is in two hands.
LEMMA InnerPlaces ==
  ASSUME InnerInv, NEW x \in Threads
  PROVE  /\ Detached(x) => OnDeck # x /\ ~OnEntryList(x) /\ ~InPass(x)
         /\ InPass(x) => OnDeck # x
<1>1. ASSUME NEW u \in Threads, pc[u] \in {"Fill", "Pass"} PROVE OnDeck # x
  BY <1>1, ThreadsAssumption DEF InnerInv, InnerPCs
<1>2. ASSUME Detached(x) PROVE OnDeck # x /\ ~OnEntryList(x) /\ ~InPass(x)
  <2>1. PICK u \in Threads : On(det[u], x)
    BY <1>2 DEF Detached
  <2>2. pc[u] = "Fill"
    BY <2>1, OnEmpty DEF InnerInv
  <2>3. EntryList = <<>>
    BY <2>2 DEF InnerInv
  <2>4. ~OnEntryList(x)
    BY <2>3, OnEmpty DEF OnEntryList
  <2>5. ~InPass(x)
    BY <2>2 DEF InnerInv, InnerPCs, InPass, At
  <2> QED
    BY <1>1, <2>2, <2>4, <2>5
<1>3. ASSUME InPass(x) PROVE OnDeck # x
  BY <1>1, <1>3 DEF InPass, At
<1> QED
  BY <1>2, <1>3

\* AcquireOrPush puts the thread, which was nowhere, on the cxq.
LEMMA PushPlace ==
  ASSUME TypeInv, BaseInv, PlaceInv, NEW t \in Threads, AcquireOrPush(t), LockByte
  PROVE  /\ PlaceInv'
         /\ \A x \in Threads : /\ Contends(x)' <=> x = t \/ Contends(x)
                               /\ Waits(x)' <=> Waits(x)
<1> USE ThreadsAssumption DEF At, Goto, word, inner, waits, owning, locals
<1>1. ~Linked(t) /\ ~InWait(t)
  BY DEF AcquireOrPush, TypeInv, TypeOK, BaseInv, CallInv, Exiting, ExitPCs, InnerPCs,
     WaitPCs, QueuedPCs, Waiting, InWait, Linked
<1>2. ~Contends(t) /\ ~OnWaitSet(t) /\ ~InNotify(t) /\ ~InMark(t)
  BY <1>1 DEF PlaceInv, Place
<1>3. cxq' = <<t>> \o cxq /\ cxq \in Seq(Threads) /\ ~On(cxq, t)
  BY <1>2 DEF AcquireOrPush, TypeInv, TypeOK, Contends, OnCxq
<1>4. Distinct'
  BY <1>3, OnPush DEF AcquireOrPush, PlaceInv, Distinct
<1>5. ASSUME NEW x \in Threads
       PROVE  /\ Place(x)'
              /\ Contends(x)' <=> x = t \/ Contends(x)
              /\ Waits(x)' <=> Waits(x)
  <2>1. /\ OnWaitSet(x)' <=> OnWaitSet(x)
        /\ InNotify(x)' <=> InNotify(x)
        /\ InMark(x)' <=> InMark(x)
    BY DEF AcquireOrPush, TypeInv, TypeOK, OnWaitSet, InNotify, InMark
  <2>2. /\ OnCxq(x)' <=> x = t \/ OnCxq(x)
        /\ Detached(x)' <=> Detached(x)
        /\ OnEntryList(x)' <=> OnEntryList(x)
    BY <1>3, OnPush DEF AcquireOrPush, OnCxq, Detached, OnEntryList
  <2>3. /\ InPass(x)' <=> InPass(x)
        /\ OnDeck' = x <=> OnDeck = x
    BY DEF AcquireOrPush, TypeInv, TypeOK, InPass
  <2>4. /\ Notified'[x] <=> Notified[x]
        /\ InWait(x)' <=> InWait(x)
        /\ Linked(x)' <=> x = t \/ Linked(x)
        /\ pc'[x] \in QueuedPCs <=> x = t \/ pc[x] \in QueuedPCs
        /\ pc'[x] = "IWait_add" <=> pc[x] = "IWait_add"
    BY DEF AcquireOrPush, TypeInv, TypeOK, BaseInv, CallInv, Exiting, ExitPCs,
       InnerPCs, WaitPCs, QueuedPCs, Waiting, InWait, Linked
  <2> QED
    BY <1>1, <1>2, <2>1, <2>2, <2>3, <2>4 DEF PlaceInv, Place, Contends, Waits
<1> QED
  BY <1>4, <1>5 DEF PlaceInv

\* The thread that is OnDeck and has the lock byte is nowhere any more.
LEMMA ClearPlace ==
  ASSUME TypeInv, BaseInv, PlaceInv, NEW t \in Threads, OnDeck_clear(t)
  PROVE  /\ PlaceInv'
         /\ \A x \in Threads : /\ Contends(x)' <=> Contends(x) /\ x # t
                               /\ Waits(x)' <=> Waits(x)
<1> USE ThreadsAssumption DEF At, Goto, word, inner, waits, owning, locals
<1>1. OnDeck = t
  BY DEF OnDeck_clear, BaseInv, InnerInv
<1>2. ~Detached(t) /\ ~InPass(t) /\ ~OnCxq(t) /\ ~OnEntryList(t)
  BY <1>1, InnerPlaces DEF BaseInv, PlaceInv, Place
<1>3. ~InWait(t)
  BY DEF OnDeck_clear, InWait, WaitPCs, Exiting, ExitPCs, InnerPCs
<1>4. Distinct'
  BY DEF OnDeck_clear, PlaceInv, Distinct
<1>5. ASSUME NEW x \in Threads
       PROVE  /\ Place(x)'
              /\ Contends(x)' <=> Contends(x) /\ x # t
              /\ Waits(x)' <=> Waits(x)
  <2>1. /\ OnWaitSet(x)' <=> OnWaitSet(x)
        /\ InNotify(x)' <=> InNotify(x)
        /\ InMark(x)' <=> InMark(x)
    BY DEF OnDeck_clear, TypeInv, TypeOK, OnWaitSet, InNotify, InMark
  <2>2. /\ OnCxq(x)' <=> OnCxq(x)
        /\ Detached(x)' <=> Detached(x)
        /\ OnEntryList(x)' <=> OnEntryList(x)
    BY DEF OnDeck_clear, OnCxq, Detached, OnEntryList
  <2>3. /\ InPass(x)' <=> InPass(x)
        /\ ~(OnDeck' = x)
    BY DEF OnDeck_clear, TypeInv, TypeOK, InPass
  <2>4. /\ Notified'[x] <=> Notified[x]
        /\ InWait(x)' <=> InWait(x)
        /\ Linked(x)' <=> Linked(x) /\ x # t
        /\ pc'[x] \in QueuedPCs <=> pc[x] \in QueuedPCs /\ x # t
        /\ pc'[x] = "IWait_add" <=> pc[x] = "IWait_add"
    BY DEF OnDeck_clear, TypeInv, TypeOK, BaseInv, CallInv, Exiting, ExitPCs,
       InnerPCs, WaitPCs, QueuedPCs, Waiting, InWait, Linked
  <2> QED
    BY <1>1, <1>2, <1>3, <2>1, <2>2, <2>3, <2>4 DEF PlaceInv, Place, Contends, Waits
<1> QED
  BY <1>4, <1>5 DEF PlaceInv

\* IUnlock takes the head of the EntryList into its hand.
LEMMA WakePlace ==
  ASSUME TypeInv, BaseInv, PlaceInv, NEW t \in Threads, WakeOne(t)
  PROVE  /\ PlaceInv'
         /\ \A x \in Threads : /\ Contends(x)' <=> Contends(x)
                               /\ Waits(x)' <=> Waits(x)
<1> USE ThreadsAssumption DEF At, Goto, word, inner, waits, owning, locals
<1> DEFINE w == Head(EntryList)
<1>1. OnDeck = LBIT /\ \A u \in Threads : pc[u] \notin {"Fill", "Pass"}
  BY DEF WakeOne, BaseInv, InnerInv, InnerPCs
<1>2. /\ w \in Threads /\ OnEntryList(w)
      /\ \A x : On(EntryList', x) <=> On(EntryList, x) /\ x # w
      /\ NoDuplicates(EntryList')
  BY OnTail DEF WakeOne, TypeInv, TypeOK, PlaceInv, Distinct, OnEntryList
<1>3. hand' = [hand EXCEPT ![t] = w] /\ hand'[t] = w
  BY DEF WakeOne, TypeInv, TypeOK
<1> HIDE DEF w
<1>4. Distinct'
  BY <1>2 DEF WakeOne, PlaceInv, Distinct
<1>5. ASSUME NEW x \in Threads
       PROVE  /\ Place(x)'
              /\ Contends(x)' <=> Contends(x)
              /\ Waits(x)' <=> Waits(x)
  <2>1. ~InPass(x) /\ OnDeck # x
    BY <1>1 DEF InPass
  <2>2. /\ OnWaitSet(x)' <=> OnWaitSet(x)
        /\ InNotify(x)' <=> InNotify(x)
        /\ InMark(x)' <=> InMark(x)
    BY DEF WakeOne, TypeInv, TypeOK, OnWaitSet, InNotify, InMark
  <2>3. /\ OnCxq(x)' <=> OnCxq(x)
        /\ Detached(x)' <=> Detached(x)
        /\ OnEntryList(x)' <=> OnEntryList(x) /\ x # w
    BY <1>2 DEF WakeOne, OnCxq, Detached, OnEntryList
  <2>4. /\ InPass(x)' <=> x = w
        /\ OnDeck' = x <=> OnDeck = x
    BY <1>1, <1>3 DEF WakeOne, TypeInv, TypeOK, InPass
  <2>5. /\ Notified'[x] <=> Notified[x]
        /\ InWait(x)' <=> InWait(x)
        /\ Linked(x)' <=> Linked(x)
        /\ pc'[x] \in QueuedPCs <=> pc[x] \in QueuedPCs
        /\ pc'[x] = "IWait_add" <=> pc[x] = "IWait_add"
    BY DEF WakeOne, TypeInv, TypeOK, BaseInv, CallInv, Exiting, ExitPCs, InnerPCs,
       WaitPCs, QueuedPCs, Waiting, InWait, Linked
  <2> QED
    BY <1>1, <1>2, <2>1, <2>2, <2>3, <2>4, <2>5, InnerPlaces DEF PlaceInv, Place,
       Contends, Waits, BaseInv
<1> QED
  BY <1>4, <1>5 DEF PlaceInv

\* IUnlock detaches the cxq as a segment of its own.
LEMMA DrainPlace ==
  ASSUME TypeInv, BaseInv, PlaceInv, NEW t \in Threads, Drain(t)
  PROVE  /\ PlaceInv'
         /\ \A x \in Threads : /\ Contends(x)' <=> Contends(x)
                               /\ Waits(x)' <=> Waits(x)
<1> USE ThreadsAssumption DEF At, Goto, word, inner, waits, owning, locals
<1>1. /\ OnDeck = LBIT /\ EntryList = <<>> /\ \A u \in Threads : det[u] = <<>>
      /\ \A u \in Threads : pc[u] \notin {"Fill", "Pass"}
  BY DEF Drain, BaseInv, InnerInv, InnerPCs
<1>2. \A x : ~On(<<>>, x)
  BY OnEmpty
<1>3. /\ cxq' = <<>> /\ det'[t] = cxq
      /\ \A u \in Threads \ {t} : det'[u] = <<>>
  BY <1>1 DEF Drain, TypeInv, TypeOK
<1>4. Distinct'
  BY <1>3, OnEmpty DEF Drain, PlaceInv, Distinct
<1>5. ASSUME NEW x \in Threads
       PROVE  /\ Place(x)'
              /\ Contends(x)' <=> Contends(x)
              /\ Waits(x)' <=> Waits(x)
  <2>1. ~OnEntryList(x) /\ ~Detached(x) /\ ~InPass(x) /\ OnDeck # x
    BY <1>1, <1>2 DEF InPass, OnEntryList, Detached
  <2>2. /\ OnWaitSet(x)' <=> OnWaitSet(x)
        /\ InNotify(x)' <=> InNotify(x)
        /\ InMark(x)' <=> InMark(x)
    BY DEF Drain, TypeInv, TypeOK, OnWaitSet, InNotify, InMark
  <2>3. /\ ~OnCxq(x)'
        /\ Detached(x)' <=> OnCxq(x)
        /\ OnEntryList(x)' <=> OnEntryList(x)
    BY <1>2, <1>3 DEF Drain, OnCxq, Detached, OnEntryList
  <2>4. /\ InPass(x)' <=> InPass(x)
        /\ OnDeck' = x <=> OnDeck = x
    BY <1>1 DEF Drain, TypeInv, TypeOK, InPass
  <2>5. /\ Notified'[x] <=> Notified[x]
        /\ InWait(x)' <=> InWait(x)
        /\ Linked(x)' <=> Linked(x)
        /\ pc'[x] \in QueuedPCs <=> pc[x] \in QueuedPCs
        /\ pc'[x] = "IWait_add" <=> pc[x] = "IWait_add"
    BY DEF Drain, TypeInv, TypeOK, BaseInv, CallInv, Exiting, ExitPCs, InnerPCs,
       WaitPCs, QueuedPCs, Waiting, InWait, Linked
  <2> QED
    BY <1>1, <1>2, <2>1, <2>2, <2>3, <2>4, <2>5 DEF PlaceInv, Place, Contends, Waits
<1> QED
  BY <1>4, <1>5 DEF PlaceInv

\* The detached segment becomes the EntryList, which was empty.
LEMMA FillPlace ==
  ASSUME TypeInv, BaseInv, PlaceInv, NEW t \in Threads, Fill(t)
  PROVE  /\ PlaceInv'
         /\ \A x \in Threads : /\ Contends(x)' <=> Contends(x)
                               /\ Waits(x)' <=> Waits(x)
<1> USE ThreadsAssumption DEF At, Goto, word, inner, waits, owning, locals
<1>1. /\ OnDeck = LBIT /\ EntryList = <<>>
      /\ \A u \in Threads \ {t} : det[u] = <<>> /\ pc[u] \notin {"Fill", "Pass"}
  BY DEF Fill, BaseInv, InnerInv, InnerPCs
<1>2. \A x : ~On(<<>>, x)
  BY OnEmpty
<1>3. /\ EntryList' = det[t]
      /\ \A u \in Threads : det'[u] = <<>>
  BY <1>1 DEF Fill, TypeInv, TypeOK
<1>4. Distinct'
  BY <1>3, OnEmpty DEF Fill, PlaceInv, Distinct
<1>5. ASSUME NEW x \in Threads
       PROVE  /\ Place(x)'
              /\ Contends(x)' <=> Contends(x)
              /\ Waits(x)' <=> Waits(x)
  <2>1. ~OnEntryList(x) /\ ~InPass(x) /\ OnDeck # x
    BY <1>1, <1>2 DEF Fill, InPass, OnEntryList
  <2>2. /\ OnWaitSet(x)' <=> OnWaitSet(x)
        /\ InNotify(x)' <=> InNotify(x)
        /\ InMark(x)' <=> InMark(x)
    BY DEF Fill, TypeInv, TypeOK, OnWaitSet, InNotify, InMark
  <2>3. /\ OnCxq(x)' <=> OnCxq(x)
        /\ ~Detached(x)'
        /\ OnEntryList(x)' <=> Detached(x)
    BY <1>1, <1>2, <1>3 DEF Fill, OnCxq, Detached, OnEntryList
  <2>4. /\ InPass(x)' <=> InPass(x)
        /\ OnDeck' = x <=> OnDeck = x
    BY <1>1 DEF Fill, TypeInv, TypeOK, InPass
  <2>5. /\ Notified'[x] <=> Notified[x]
        /\ InWait(x)' <=> InWait(x)
        /\ Linked(x)' <=> Linked(x)
        /\ pc'[x] \in QueuedPCs <=> pc[x] \in QueuedPCs
        /\ pc'[x] = "IWait_add" <=> pc[x] = "IWait_add"
    BY DEF Fill, TypeInv, TypeOK, BaseInv, CallInv, Exiting, ExitPCs, InnerPCs,
       WaitPCs, QueuedPCs, Waiting, InWait, Linked
  <2> QED
    BY <1>1, <2>1, <2>2, <2>3, <2>4, <2>5, InnerPlaces DEF PlaceInv, Place, Contends,
       Waits, BaseInv
<1> QED
  BY <1>4, <1>5 DEF PlaceInv

\* The inner lock is passed to the thread in hand.
LEMMA PassPlace ==
  ASSUME TypeInv, BaseInv, PlaceInv, NEW t \in Threads, Pass(t)
  PROVE  /\ PlaceInv'
         /\ \A x \in Threads : /\ Contends(x)' <=> Contends(x)
                               /\ Waits(x)' <=> Waits(x)
<1> USE ThreadsAssumption DEF At, Goto, word, inner, waits, owning, locals
<1>1. /\ OnDeck = LBIT
      /\ \A u \in Threads : pc[u] = "Pass" => u = t
  BY DEF Pass, BaseInv, InnerInv, InnerPCs
<1>2. Distinct'
  BY DEF Pass, PlaceInv, Distinct
<1>3. ASSUME NEW x \in Threads
       PROVE  /\ Place(x)'
              /\ Contends(x)' <=> Contends(x)
              /\ Waits(x)' <=> Waits(x)
  <2>1. /\ OnWaitSet(x)' <=> OnWaitSet(x)
        /\ InNotify(x)' <=> InNotify(x)
        /\ InMark(x)' <=> InMark(x)
    BY DEF Pass, TypeInv, TypeOK, OnWaitSet, InNotify, InMark
  <2>2. /\ OnCxq(x)' <=> OnCxq(x)
        /\ Detached(x)' <=> Detached(x)
        /\ OnEntryList(x)' <=> OnEntryList(x)
    BY DEF Pass, OnCxq, Detached, OnEntryList
  <2>3. /\ ~InPass(x)'
        /\ OnDeck' = x <=> InPass(x)
    BY <1>1 DEF Pass, TypeInv, TypeOK, InPass
  <2>4. /\ Notified'[x] <=> Notified[x]
        /\ InWait(x)' <=> InWait(x)
        /\ Linked(x)' <=> Linked(x)
        /\ pc'[x] \in QueuedPCs <=> pc[x] \in QueuedPCs
        /\ pc'[x] = "IWait_add" <=> pc[x] = "IWait_add"
    BY DEF Pass, TypeInv, TypeOK, BaseInv, CallInv, Exiting, ExitPCs, InnerPCs,
       WaitPCs, QueuedPCs, Waiting, InWait, Linked
  <2> QED
    BY <1>1, <2>1, <2>2, <2>3, <2>4, InnerPlaces DEF PlaceInv, Place, Contends, Waits,
       BaseInv
<1> QED
  BY <1>2, <1>3 DEF PlaceInv

\* notify() takes the head of the WaitSet into its hand.
LEMMA TakePlace ==
  ASSUME TypeInv, BaseInv, PlaceInv, NEW t \in Threads, notify_take(t)
  PROVE  /\ PlaceInv'
         /\ \A x \in Threads : /\ Contends(x)' <=> Contends(x)
                               /\ Waits(x)' <=> Waits(x)
<1> USE ThreadsAssumption DEF At, Goto, word, inner, waits, owning, locals
<1> DEFINE w == Head(WaitSet)
<1>1. \A u \in Threads : pc[u] \notin {"notify_push", "notify_mark"}
  BY DEF notify_take, BaseInv, NotifyInv
<1>2. /\ w \in Threads /\ OnWaitSet(w)
      /\ \A x : On(WaitSet', x) <=> On(WaitSet, x) /\ x # w
      /\ NoDuplicates(WaitSet')
  BY OnTail DEF notify_take, TypeInv, TypeOK, PlaceInv, Distinct, OnWaitSet
<1>3. hand' = [hand EXCEPT ![t] = w] /\ hand'[t] = w
  BY DEF notify_take, TypeInv, TypeOK
<1> HIDE DEF w
<1>4. Distinct'
  BY <1>2 DEF notify_take, PlaceInv, Distinct
<1>5. ASSUME NEW x \in Threads
       PROVE  /\ Place(x)'
              /\ Contends(x)' <=> Contends(x)
              /\ Waits(x)' <=> Waits(x)
  <2>1. ~InNotify(x) /\ ~InMark(x)
    BY <1>1 DEF InNotify, InMark
  <2>2. /\ OnWaitSet(x)' <=> OnWaitSet(x) /\ x # w
        /\ InNotify(x)' <=> x = w
        /\ InMark(x)' <=> InMark(x)
    BY <1>1, <1>2, <1>3 DEF notify_take, TypeInv, TypeOK, OnWaitSet, InNotify, InMark
  <2>3. /\ OnCxq(x)' <=> OnCxq(x)
        /\ Detached(x)' <=> Detached(x)
        /\ OnEntryList(x)' <=> OnEntryList(x)
    BY DEF notify_take, OnCxq, Detached, OnEntryList
  <2>4. /\ InPass(x)' <=> InPass(x)
        /\ OnDeck' = x <=> OnDeck = x
    BY DEF notify_take, TypeInv, TypeOK, InPass
  <2>5. /\ Notified'[x] <=> Notified[x]
        /\ InWait(x)' <=> InWait(x)
        /\ Linked(x)' <=> Linked(x)
        /\ pc'[x] \in QueuedPCs <=> pc[x] \in QueuedPCs
        /\ pc'[x] = "IWait_add" <=> pc[x] = "IWait_add"
    BY DEF notify_take, TypeInv, TypeOK, BaseInv, CallInv, Exiting, ExitPCs, InnerPCs,
       WaitPCs, QueuedPCs, Waiting, InWait, Linked
  <2> QED
    BY <1>1, <1>2, <2>1, <2>2, <2>3, <2>4, <2>5 DEF PlaceInv, Place, Contends, Waits
<1> QED
  BY <1>4, <1>5 DEF PlaceInv

\* notify() pushes the waiter in its hand onto the cxq.
LEMMA NotifyPlace ==
  ASSUME TypeInv, BaseInv, PlaceInv, NEW t \in Threads, notify_push(t)
  PROVE  /\ PlaceInv'
         /\ \A x \in Threads : /\ Contends(x)' <=> x = hand[t] \/ Contends(x)
                               /\ Waits(x)' <=> Waits(x) /\ x # hand[t]
<1> USE ThreadsAssumption DEF At, Goto, word, inner, waits, owning, locals
<1>1. \A u \in Threads \ {t} : pc[u] \notin {"notify_push", "notify_mark"}
  BY DEF notify_push, BaseInv, NotifyInv
<1>2. hand[t] \in Threads /\ InNotify(hand[t])
  BY DEF notify_push, TypeInv, HandOK, HandPCs, InNotify
<1>3. InWait(hand[t]) /\ ~Contends(hand[t])
  BY <1>2 DEF PlaceInv, Place
<1>4. cxq' = <<hand[t]>> \o cxq /\ cxq \in Seq(Threads) /\ ~On(cxq, hand[t])
  BY <1>3 DEF notify_push, TypeInv, TypeOK, Contends, OnCxq
<1>5. Distinct'
  BY <1>2, <1>4, OnPush DEF notify_push, PlaceInv, Distinct
<1>6. ASSUME NEW x \in Threads
       PROVE  /\ Place(x)'
              /\ Contends(x)' <=> x = hand[t] \/ Contends(x)
              /\ Waits(x)' <=> Waits(x) /\ x # hand[t]
  <2>1. (InNotify(x) <=> x = hand[t]) /\ ~InMark(x)
    BY <1>1 DEF notify_push, InNotify, InMark
  <2>2. /\ OnWaitSet(x)' <=> OnWaitSet(x)
        /\ ~InNotify(x)'
        /\ InMark(x)' <=> InNotify(x)
    BY <1>1 DEF notify_push, TypeInv, TypeOK, OnWaitSet, InNotify, InMark
  <2>3. /\ OnCxq(x)' <=> InNotify(x) \/ OnCxq(x)
        /\ Detached(x)' <=> Detached(x)
        /\ OnEntryList(x)' <=> OnEntryList(x)
    BY <1>2, <1>4, <2>1, OnPush DEF notify_push, OnCxq, Detached, OnEntryList
  <2>4. /\ InPass(x)' <=> InPass(x)
        /\ OnDeck' = x <=> OnDeck = x
    BY DEF notify_push, TypeInv, TypeOK, InPass
  <2>5. /\ Notified'[x] <=> Notified[x]
        /\ InWait(x)' <=> InWait(x)
        /\ Linked(x)' <=> Linked(x)
        /\ pc'[x] \in QueuedPCs <=> pc[x] \in QueuedPCs
        /\ pc'[x] = "IWait_add" <=> pc[x] = "IWait_add"
    BY DEF notify_push, TypeInv, TypeOK, BaseInv, CallInv, Exiting, ExitPCs, InnerPCs,
       WaitPCs, QueuedPCs, Waiting, InWait, Linked
  <2>6. CASE InNotify(x)
    <3>1. /\ InWait(x) /\ ~Notified[x] /\ ~OnWaitSet(x) /\ ~OnCxq(x) /\ ~Detached(x)
          /\ ~OnEntryList(x) /\ ~InPass(x) /\ OnDeck # x
      BY <2>6 DEF PlaceInv, Place, Contends
    <3>2. Linked(x) /\ pc[x] # "IWait_add"
      BY <3>1 DEF Linked, InWait, WaitPCs, Exiting, ExitPCs, InnerPCs
    <3> QED
      BY <2>1, <2>2, <2>3, <2>4, <2>5, <2>6, <3>1, <3>2 DEF Place, Contends, Waits
  <2>7. CASE ~InNotify(x)
    BY <2>1, <2>2, <2>3, <2>4, <2>5, <2>7 DEF PlaceInv, Place, Contends, Waits
  <2> QED
    BY <2>6, <2>7
<1> QED
  BY <1>5, <1>6 DEF PlaceInv

\* notify() marks the waiter it has pushed.
LEMMA MarkPlace ==
  ASSUME TypeInv, BaseInv, PlaceInv, NEW t \in Threads, notify_mark(t)
  PROVE  /\ PlaceInv'
         /\ \A x \in Threads : /\ Contends(x)' <=> Contends(x)
                               /\ Waits(x)' <=> Waits(x)
<1> USE ThreadsAssumption DEF At, Goto, word, inner, waits, owning, locals
<1>1. \A u \in Threads \ {t} : pc[u] \notin {"notify_push", "notify_mark"}
  BY DEF notify_mark, BaseInv, NotifyInv
<1>2. hand[t] \in Threads /\ InMark(hand[t])
  BY DEF notify_mark, TypeInv, HandOK, HandPCs, InMark
<1>3. InWait(hand[t]) /\ Contends(hand[t])
  BY <1>2 DEF PlaceInv, Place
<1>4. pc[hand[t]] # "IWait_add"
  BY <1>3 DEF InWait, WaitPCs, Exiting, ExitPCs, InnerPCs
<1>5. Distinct'
  BY DEF notify_mark, PlaceInv, Distinct
<1>6. ASSUME NEW x \in Threads
       PROVE  /\ Place(x)'
              /\ Contends(x)' <=> Contends(x)
              /\ Waits(x)' <=> Waits(x)
  <2>1. (InMark(x) <=> x = hand[t]) /\ ~InNotify(x)
    BY <1>1 DEF notify_mark, InNotify, InMark
  <2>2. /\ OnWaitSet(x)' <=> OnWaitSet(x)
        /\ InNotify(x)' <=> InNotify(x)
        /\ ~InMark(x)'
    BY <1>1 DEF notify_mark, TypeInv, TypeOK, OnWaitSet, InNotify, InMark
  <2>3. /\ OnCxq(x)' <=> OnCxq(x)
        /\ Detached(x)' <=> Detached(x)
        /\ OnEntryList(x)' <=> OnEntryList(x)
    BY DEF notify_mark, OnCxq, Detached, OnEntryList
  <2>4. /\ InPass(x)' <=> InPass(x)
        /\ OnDeck' = x <=> OnDeck = x
    BY DEF notify_mark, TypeInv, TypeOK, InPass
  <2>5. /\ Notified'[x] <=> x = hand[t] \/ Notified[x]
        /\ InWait(x)' <=> InWait(x)
        /\ Linked(x)' <=> Linked(x)
        /\ pc'[x] \in QueuedPCs <=> pc[x] \in QueuedPCs
        /\ pc'[x] = "IWait_add" <=> pc[x] = "IWait_add"
    BY <1>2 DEF notify_mark, TypeInv, TypeOK, BaseInv, CallInv, Exiting, ExitPCs,
       InnerPCs, WaitPCs, QueuedPCs, Waiting, InWait, Linked
  <2> QED
    BY <1>2, <1>3, <1>4, <2>1, <2>2, <2>3, <2>4, <2>5 DEF PlaceInv, Place, Contends,
       Waits
<1> QED
  BY <1>5, <1>6 DEF PlaceInv

\* IWait clears Notified of a thread that is nowhere.
LEMMA ClearNotifiedPlace ==
  ASSUME TypeInv, BaseInv, PlaceInv, NEW t \in Threads, IWait(t)
  PROVE  /\ PlaceInv'
         /\ \A x \in Threads : /\ Contends(x)' <=> Contends(x)
                               /\ Waits(x)' <=> Waits(x)
<1> USE ThreadsAssumption DEF At, Goto, word, inner, waits, owning, locals
<1>1. ~Linked(t) /\ ~InWait(t)
  BY DEF IWait, TypeInv, TypeOK, BaseInv, CallInv, Exiting, ExitPCs, InnerPCs,
     WaitPCs, QueuedPCs, Waiting, InWait, Linked
<1>2. ~Contends(t) /\ ~OnWaitSet(t) /\ ~InNotify(t) /\ ~InMark(t)
  BY <1>1 DEF PlaceInv, Place
<1>3. Distinct'
  BY DEF IWait, PlaceInv, Distinct
<1>4. ASSUME NEW x \in Threads
       PROVE  /\ Place(x)'
              /\ Contends(x)' <=> Contends(x)
              /\ Waits(x)' <=> Waits(x)
  <2>1. /\ OnWaitSet(x)' <=> OnWaitSet(x)
        /\ InNotify(x)' <=> InNotify(x)
        /\ InMark(x)' <=> InMark(x)
    BY DEF IWait, TypeInv, TypeOK, OnWaitSet, InNotify, InMark
  <2>2. /\ OnCxq(x)' <=> OnCxq(x)
        /\ Detached(x)' <=> Detached(x)
        /\ OnEntryList(x)' <=> OnEntryList(x)
    BY DEF IWait, OnCxq, Detached, OnEntryList
  <2>3. /\ InPass(x)' <=> InPass(x)
        /\ OnDeck' = x <=> OnDeck = x
    BY DEF IWait, TypeInv, TypeOK, InPass
  <2>4. /\ Notified'[x] <=> x # t /\ Notified[x]
        /\ InWait(x)' <=> InWait(x)
        /\ Linked(x)' <=> Linked(x)
        /\ pc'[x] \in QueuedPCs <=> pc[x] \in QueuedPCs
        /\ pc'[x] = "IWait_add" <=> x = t \/ pc[x] = "IWait_add"
    BY DEF IWait, TypeInv, TypeOK, BaseInv, CallInv, Exiting, ExitPCs, InnerPCs,
       WaitPCs, QueuedPCs, Waiting, InWait, Linked
  <2> QED
    BY <1>1, <1>2, <2>1, <2>2, <2>3, <2>4 DEF PlaceInv, Place, Contends, Waits
<1> QED
  BY <1>3, <1>4 DEF PlaceInv

\* IWait puts the thread, which was nowhere, on the WaitSet.
LEMMA WaitPlace ==
  ASSUME TypeInv, BaseInv, PlaceInv, NEW t \in Threads, IWait_add(t)
  PROVE  /\ PlaceInv'
         /\ \A x \in Threads : /\ Contends(x)' <=> Contends(x)
                               /\ Waits(x)' <=> x = t \/ Waits(x)
<1> USE ThreadsAssumption DEF At, Goto, word, inner, waits, owning, locals
<1>1. ~Linked(t) /\ ~InWait(t)
  BY DEF IWait_add, TypeInv, TypeOK, BaseInv, CallInv, Exiting, ExitPCs, InnerPCs,
     WaitPCs, QueuedPCs, Waiting, InWait, Linked
<1>2. ~Contends(t) /\ ~OnWaitSet(t) /\ ~InNotify(t) /\ ~InMark(t)
  BY <1>1 DEF PlaceInv, Place
<1>3. WaitSet' = <<t>> \o WaitSet /\ WaitSet \in Seq(Threads) /\ ~On(WaitSet, t)
  BY <1>2 DEF IWait_add, TypeInv, TypeOK, OnWaitSet
<1>4. ~Notified[t]
  BY DEF IWait_add, PlaceInv, Place
<1>5. Distinct'
  BY <1>3, OnPush DEF IWait_add, PlaceInv, Distinct
<1>6. ASSUME NEW x \in Threads
       PROVE  /\ Place(x)'
              /\ Contends(x)' <=> Contends(x)
              /\ Waits(x)' <=> x = t \/ Waits(x)
  <2>1. /\ OnWaitSet(x)' <=> x = t \/ OnWaitSet(x)
        /\ InNotify(x)' <=> InNotify(x)
        /\ InMark(x)' <=> InMark(x)
    BY <1>3, OnPush DEF IWait_add, TypeInv, TypeOK, OnWaitSet, InNotify, InMark
  <2>2. /\ OnCxq(x)' <=> OnCxq(x)
        /\ Detached(x)' <=> Detached(x)
        /\ OnEntryList(x)' <=> OnEntryList(x)
    BY DEF IWait_add, OnCxq, Detached, OnEntryList
  <2>3. /\ InPass(x)' <=> InPass(x)
        /\ OnDeck' = x <=> OnDeck = x
    BY DEF IWait_add, TypeInv, TypeOK, InPass
  <2>4. /\ Notified'[x] <=> Notified[x]
        /\ InWait(x)' <=> x = t \/ InWait(x)
        /\ Linked(x)' <=> x = t \/ Linked(x)
        /\ pc'[x] \in QueuedPCs <=> pc[x] \in QueuedPCs
        /\ pc'[x] = "IWait_add" <=> pc[x] = "IWait_add" /\ x # t
    BY DEF IWait_add, TypeInv, TypeOK, BaseInv, CallInv, Exiting, ExitPCs, InnerPCs,
       WaitPCs, QueuedPCs, Waiting, InWait, Linked
  <2> QED
    BY <1>1, <1>2, <1>4, <2>1, <2>2, <2>3, <2>4 DEF PlaceInv, Place, Contends, Waits
<1> QED
  BY <1>5, <1>6 DEF PlaceInv

\* A waiter that timed out under the WaitLock is on the WaitSet, and then nowhere.
LEMMA UnlinkPlace ==
  ASSUME TypeInv, BaseInv, PlaceInv, NEW t \in Threads, IWait_remove(t)
  PROVE  /\ PlaceInv'
         /\ \A x \in Threads : /\ Contends(x)' <=> Contends(x)
                               /\ Waits(x)' <=> Waits(x) /\ x # t
<1> USE ThreadsAssumption DEF At, Goto, word, inner, waits, owning, locals
<1>1. \A u \in Threads : pc[u] \notin {"notify_push", "notify_mark"}
  BY DEF IWait_remove, BaseInv, NotifyInv
<1>2. InWait(t) /\ ~InNotify(t) /\ ~InMark(t)
  BY <1>1 DEF IWait_remove, InWait, WaitPCs, InNotify, InMark
<1>3. OnWaitSet(t) /\ ~Contends(t)
  BY <1>2 DEF IWait_remove, PlaceInv, Place
<1>4. /\ \A x : On(WaitSet', x) <=> On(WaitSet, x) /\ x # t
      /\ NoDuplicates(WaitSet')
  BY <1>3, OnUnlink DEF IWait_remove, TypeInv, TypeOK, PlaceInv, Distinct, OnWaitSet
<1>5. Distinct'
  BY <1>4 DEF IWait_remove, PlaceInv, Distinct
<1>6. ASSUME NEW x \in Threads
       PROVE  /\ Place(x)'
              /\ Contends(x)' <=> Contends(x)
              /\ Waits(x)' <=> Waits(x) /\ x # t
  <2>1. /\ OnWaitSet(x)' <=> OnWaitSet(x) /\ x # t
        /\ InNotify(x)' <=> InNotify(x)
        /\ InMark(x)' <=> InMark(x)
    BY <1>1, <1>4 DEF IWait_remove, TypeInv, TypeOK, OnWaitSet, InNotify, InMark
  <2>2. /\ OnCxq(x)' <=> OnCxq(x)
        /\ Detached(x)' <=> Detached(x)
        /\ OnEntryList(x)' <=> OnEntryList(x)
    BY DEF IWait_remove, OnCxq, Detached, OnEntryList
  <2>3. /\ InPass(x)' <=> InPass(x)
        /\ OnDeck' = x <=> OnDeck = x
    BY DEF IWait_remove, TypeInv, TypeOK, InPass
  <2>4. /\ Notified'[x] <=> Notified[x]
        /\ InWait(x)' <=> InWait(x) /\ x # t
        /\ Linked(x)' <=> Linked(x) /\ x # t
        /\ pc'[x] \in QueuedPCs <=> pc[x] \in QueuedPCs
        /\ pc'[x] = "IWait_add" <=> pc[x] = "IWait_add"
    BY DEF IWait_remove, TypeInv, TypeOK, BaseInv, CallInv, Exiting, ExitPCs,
       InnerPCs, WaitPCs, QueuedPCs, Waiting, InWait, Linked
  <2> QED
    BY <1>1, <1>2, <1>3, <2>1, <2>2, <2>3, <2>4 DEF PlaceInv, Place, Contends, Waits
<1> QED
  BY <1>5, <1>6 DEF PlaceInv

\* The steps that move a ParkEvent, or that clear or set Notified.
Moves(t) ==
  \/ AcquireOrPush(t) /\ LockByte
  \/ OnDeck_clear(t) \/ WakeOne(t) \/ Drain(t) \/ Fill(t) \/ Pass(t)
  \/ notify_take(t) \/ notify_push(t) \/ notify_mark(t)
  \/ IWait(t) \/ IWait_add(t) \/ IWait_remove(t)

\* Every other step of a thread is calm.
LEMMA CalmActions ==
  ASSUME TypeInv, BaseInv, NEW t \in Threads, Internal(t) \/ External(t), ~Moves(t)
  PROVE  Calm(t)
<1> USE ThreadsAssumption, CallsAssumption
  DEF Calm, Linked, InWait, QueuedPCs, WaitPCs, Exiting, ExitPCs, InnerPCs, Waiting,
      CallInv, BaseInv, TypeInv, TypeOK, At, Goto, word, inner, waits, owning, locals
<1>1. CASE ILock(t)
  BY <1>1 DEF ILock, TryLock
<1>2. CASE ILock_reset(t)
  BY <1>2 DEF ILock_reset
<1>3. CASE AcquireOrPush(t) /\ ~LockByte
  BY <1>3 DEF AcquireOrPush
<1>4. CASE ILock_wait(t)
  BY <1>4 DEF ILock_wait
<1>5. CASE ILock_park(t)
  BY <1>5 DEF ILock_park, ParkCommon
<1>6. CASE OnDeck_LOOP(t)
  BY <1>6 DEF OnDeck_LOOP, TryLock
<1>7. CASE OnDeck_park(t)
  BY <1>7 DEF OnDeck_park, ParkCommon
<1>8. CASE IUnlock(t)
  BY <1>8 DEF IUnlock
<1>9. CASE IUnlock_heir(t)
  BY <1>9 DEF IUnlock_heir
<1>10. CASE IUnlock_noheir(t)
  BY <1>10 DEF IUnlock_noheir, ReturnTo
<1>11. CASE unpark(t)
  BY <1>11 DEF unpark, ReturnTo
<1>12. CASE IUnlock_word(t)
  BY <1>12 DEF IUnlock_word, ReturnTo
<1>13. CASE IUnlock_list(t)
  BY <1>13 DEF IUnlock_list, ReturnTo
<1>14. CASE Succession(t)
  BY <1>14 DEF Succession, ReturnTo, InnerInv
<1>15. CASE WakeNone(t)
  BY <1>15 DEF WakeNone
<1>16. CASE Drain_punt(t)
  BY <1>16 DEF Drain_punt
<1>17. CASE Pass_word(t)
  BY <1>17 DEF Pass_word, ReturnTo
<1>18. CASE Punt(t)
  BY <1>18 DEF Punt, InnerInv
<1>19. CASE Resample(t)
  BY <1>19 DEF Resample, ReturnTo
<1>20. CASE notify_none(t)
  BY <1>20 DEF notify_none
<1>21. CASE notify_unpark(t)
  BY <1>21 DEF notify_unpark
<1>22. CASE IWait_loop(t)
  BY <1>22 DEF IWait_loop
<1>23. CASE IWait_park(t)
  BY <1>23 DEF IWait_park
<1>24. CASE IWait_timeout(t)
  BY <1>24 DEF IWait_timeout
<1>25. CASE IWait_check(t)
  BY <1>25 DEF IWait_check
<1>26. CASE IWait_recheck(t)
  BY <1>26 DEF IWait_recheck
<1>27. CASE Reenter(t)
  BY <1>27 DEF Reenter
<1>28. CASE Reenter_spin(t)
  BY <1>28 DEF Reenter_spin, TryLock
<1>29. CASE Reenter_park(t)
  BY <1>29 DEF Reenter_park, ParkCommon
<1>30. CASE wait_suspended(t)
  BY <1>30 DEF wait_suspended
<1>31. CASE lock_sneak(t)
  BY <1>31 DEF lock_sneak
<1>32. CASE lock_spin(t)
  BY <1>32 DEF lock_spin, TryLock
<1>33. CASE Exeunt(t)
  BY <1>33 DEF Exeunt
<1>34. CASE try_sneak(t)
  BY <1>34 DEF try_sneak
<1>35. CASE unlock_snuck(t)
  BY <1>35 DEF unlock_snuck
<1>36. CASE lock(t)
  BY <1>36 DEF lock, Start, TryLock
<1>37. CASE lock_without_safepoint_check(t)
  BY <1>37 DEF lock_without_safepoint_check, Start
<1>38. CASE jvm_raw_lock(t)
  BY <1>38 DEF jvm_raw_lock, Start, TryLock
<1>39. CASE try_lock(t)
  BY <1>39 DEF try_lock, Start, TryLock
<1>40. CASE try_lock_sneak(t)
  BY <1>40 DEF try_lock_sneak, Start
<1>41. CASE notify(t)
  BY <1>41 DEF notify
<1>42. CASE wait(t)
  BY <1>42 DEF wait
<1>43. CASE unlock(t)
  BY <1>43 DEF unlock
<1>44. CASE wait_resumed(t)
  BY <1>44 DEF wait_resumed
<1> HIDE DEF Calm, BaseInv, TypeInv
<1> QED
  BY <1>1, <1>2, <1>3, <1>4, <1>5, <1>6, <1>7, <1>8, <1>9, <1>10, <1>11, <1>12, <1>13,
     <1>14, <1>15, <1>16, <1>17, <1>18, <1>19, <1>20, <1>21, <1>22, <1>23, <1>24,
     <1>25, <1>26, <1>27, <1>28, <1>29, <1>30, <1>31, <1>32, <1>33, <1>34, <1>35,
     <1>36, <1>37, <1>38, <1>39, <1>40, <1>41, <1>42, <1>43, <1>44
  DEF Internal, External, Moves

\* Every step keeps each ParkEvent in its place.
LEMMA PlaceStep ==
  ASSUME TypeInv, BaseInv, PlaceInv, [Next]_vars
  PROVE  PlaceInv'
<1>1. ASSUME NEW t \in Threads, Internal(t) \/ External(t) PROVE PlaceInv'
  <2>1. CASE ~Moves(t)
    BY <1>1, <2>1, CalmActions, CalmStep
  <2>2. CASE Moves(t)
    BY <2>2, PushPlace, ClearPlace, WakePlace, DrainPlace, FillPlace, PassPlace,
       TakePlace,
       NotifyPlace, MarkPlace, ClearNotifiedPlace, WaitPlace, UnlinkPlace
    DEF Moves
  <2> QED
    BY <2>1, <2>2
<1>2. CASE UNCHANGED <<cxq, EntryList, OnDeck, WaitSet, Notified, det, pc, call, hand>>
  BY <1>2
  DEF PlaceInv, Distinct, Place, OnWaitSet, InNotify, InMark, Contends, OnCxq, Detached,
      OnEntryList, InPass, InWait, Linked, At
<1>3. CASE safepoint_begin \/ safepoint_end \/ UNCHANGED vars
  BY <1>2, <1>3 DEF safepoint_begin, safepoint_end, vars, word, inner, waits, locals
<1> QED
  BY <1>1, <1>3 DEF Next

-----------------------------------------------------------------------------
(* Succession.                                                              *)

\* What succession rests on: a thread that is OnDeck is still queued, and if it
\* waits it was notified; the lock byte is set where a thread holds the lock.
Settled ==
  /\ OnDeck \in Threads => Linked(OnDeck)
  /\ ~LockByte /\ OnDeck \in Threads /\ InWait(OnDeck) => Notified[OnDeck]
  /\ \A t \in Threads : pc[t] = "OnDeck_clear" => LockByte

\* The places and the lock byte give these facts.
LEMMA SettledFacts ==
  ASSUME TypeInv, LockInv, PlaceInv PROVE Settled
<1>1. \A t \in Threads : pc[t] \in {"OnDeck_clear", "notify_mark"} => LockByte
  BY DEF LockInv, LockByteHeld, Holds, HoldPCs, Sneaked, SneakInv
<1>2. OnDeck \in Threads => Contends(OnDeck)
  BY DEF Contends
<1>3. OnDeck \in Threads => Linked(OnDeck)
  BY <1>2 DEF PlaceInv, Place
<1>4. ASSUME ~LockByte, OnDeck \in Threads, InWait(OnDeck) PROVE Notified[OnDeck]
  <2>1. ~InMark(OnDeck)
    BY <1>1, <1>4 DEF InMark, At
  <2> QED
    BY <1>2, <1>4, <2>1 DEF PlaceInv, Place
<1> QED
  BY <1>1, <1>3, <1>4 DEF Settled

\* No step leaves the thread that is OnDeck asleep in front of a free lock.
LEMMA HeirStep ==
  ASSUME TypeInv, InnerInv, Settled, HeirInv, [Next]_vars
  PROVE  HeirInv'
<1> USE ThreadsAssumption DEF TypeInv, TypeOK, Settled, InnerInv, HeirInv, ParkPCs,
   Linked, InWait, QueuedPCs, WaitPCs, Exiting, ExitPCs, InnerPCs, Waiting, At, Goto,
   word, inner, waits, owning, locals
<1>1. ASSUME NEW t \in Threads, ILock(t) PROVE HeirInv'
  BY <1>1 DEF ILock, TryLock
<1>2. ASSUME NEW t \in Threads, ILock_reset(t) PROVE HeirInv'
  BY <1>2 DEF ILock_reset
<1>3. ASSUME NEW t \in Threads, AcquireOrPush(t) PROVE HeirInv'
  BY <1>3 DEF AcquireOrPush
<1>4. ASSUME NEW t \in Threads, ILock_wait(t) PROVE HeirInv'
  BY <1>4 DEF ILock_wait
<1>5. ASSUME NEW t \in Threads, ILock_park(t) PROVE HeirInv'
  BY <1>5 DEF ILock_park, ParkCommon
<1>6. ASSUME NEW t \in Threads, OnDeck_LOOP(t) PROVE HeirInv'
  BY <1>6 DEF OnDeck_LOOP, TryLock
<1>7. ASSUME NEW t \in Threads, OnDeck_park(t) PROVE HeirInv'
  BY <1>7 DEF OnDeck_park, ParkCommon
<1>8. ASSUME NEW t \in Threads, OnDeck_clear(t) PROVE HeirInv'
  BY <1>8 DEF OnDeck_clear
<1>9. ASSUME NEW t \in Threads, IUnlock(t) PROVE HeirInv'
  BY <1>9 DEF IUnlock
<1>10. ASSUME NEW t \in Threads, IUnlock_heir(t) PROVE HeirInv'
  BY <1>10 DEF IUnlock_heir
<1>11. ASSUME NEW t \in Threads, IUnlock_noheir(t) PROVE HeirInv'
  BY <1>11 DEF IUnlock_noheir, ReturnTo
<1>12. ASSUME NEW t \in Threads, unpark(t) PROVE HeirInv'
  BY <1>12 DEF unpark, ReturnTo
<1>13. ASSUME NEW t \in Threads, IUnlock_word(t) PROVE HeirInv'
  BY <1>13 DEF IUnlock_word, ReturnTo
<1>14. ASSUME NEW t \in Threads, IUnlock_list(t) PROVE HeirInv'
  BY <1>14 DEF IUnlock_list, ReturnTo
<1>15. ASSUME NEW t \in Threads, Succession(t) PROVE HeirInv'
  BY <1>15 DEF Succession, ReturnTo
<1>16. ASSUME NEW t \in Threads, WakeOne(t) PROVE HeirInv'
  BY <1>16 DEF WakeOne
<1>17. ASSUME NEW t \in Threads, WakeNone(t) PROVE HeirInv'
  BY <1>17 DEF WakeNone
<1>18. ASSUME NEW t \in Threads, Drain(t) PROVE HeirInv'
  BY <1>18 DEF Drain
<1>19. ASSUME NEW t \in Threads, Drain_punt(t) PROVE HeirInv'
  BY <1>19 DEF Drain_punt
<1>20. ASSUME NEW t \in Threads, Fill(t) PROVE HeirInv'
  BY <1>20 DEF Fill
<1>21. ASSUME NEW t \in Threads, Pass(t) PROVE HeirInv'
  BY <1>21 DEF Pass
<1>22. ASSUME NEW t \in Threads, Pass_word(t) PROVE HeirInv'
  BY <1>22 DEF Pass_word, ReturnTo
<1>23. ASSUME NEW t \in Threads, Punt(t) PROVE HeirInv'
  BY <1>23 DEF Punt
<1>24. ASSUME NEW t \in Threads, Resample(t) PROVE HeirInv'
  BY <1>24 DEF Resample, ReturnTo
<1>25. ASSUME NEW t \in Threads, notify_take(t) PROVE HeirInv'
  BY <1>25 DEF notify_take
<1>26. ASSUME NEW t \in Threads, notify_none(t) PROVE HeirInv'
  BY <1>26 DEF notify_none
<1>27. ASSUME NEW t \in Threads, notify_push(t) PROVE HeirInv'
  BY <1>27 DEF notify_push
<1>28. ASSUME NEW t \in Threads, notify_mark(t) PROVE HeirInv'
  BY <1>28 DEF notify_mark
<1>29. ASSUME NEW t \in Threads, notify_unpark(t) PROVE HeirInv'
  BY <1>29 DEF notify_unpark
<1>30. ASSUME NEW t \in Threads, IWait(t) PROVE HeirInv'
  BY <1>30 DEF IWait
<1>31. ASSUME NEW t \in Threads, IWait_add(t) PROVE HeirInv'
  BY <1>31 DEF IWait_add
<1>32. ASSUME NEW t \in Threads, IWait_loop(t) PROVE HeirInv'
  BY <1>32 DEF IWait_loop
<1>33. ASSUME NEW t \in Threads, IWait_park(t) PROVE HeirInv'
  BY <1>33 DEF IWait_park
<1>34. ASSUME NEW t \in Threads, IWait_timeout(t) PROVE HeirInv'
  BY <1>34 DEF IWait_timeout
<1>35. ASSUME NEW t \in Threads, IWait_check(t) PROVE HeirInv'
  BY <1>35 DEF IWait_check
<1>36. ASSUME NEW t \in Threads, IWait_remove(t) PROVE HeirInv'
  BY <1>36 DEF IWait_remove
<1>37. ASSUME NEW t \in Threads, IWait_recheck(t) PROVE HeirInv'
  BY <1>37 DEF IWait_recheck
<1>38. ASSUME NEW t \in Threads, Reenter(t) PROVE HeirInv'
  BY <1>38 DEF Reenter
<1>39. ASSUME NEW t \in Threads, Reenter_spin(t) PROVE HeirInv'
  BY <1>39 DEF Reenter_spin, TryLock
<1>40. ASSUME NEW t \in Threads, Reenter_park(t) PROVE HeirInv'
  BY <1>40 DEF Reenter_park, ParkCommon
<1>41. ASSUME NEW t \in Threads, wait_suspended(t) PROVE HeirInv'
  BY <1>41 DEF wait_suspended
<1>42. ASSUME NEW t \in Threads, lock_sneak(t) PROVE HeirInv'
  BY <1>42 DEF lock_sneak
<1>43. ASSUME NEW t \in Threads, lock_spin(t) PROVE HeirInv'
  BY <1>43 DEF lock_spin, TryLock
<1>44. ASSUME NEW t \in Threads, Exeunt(t) PROVE HeirInv'
  BY <1>44 DEF Exeunt
<1>45. ASSUME NEW t \in Threads, try_sneak(t) PROVE HeirInv'
  BY <1>45 DEF try_sneak
<1>46. ASSUME NEW t \in Threads, unlock_snuck(t) PROVE HeirInv'
  BY <1>46 DEF unlock_snuck
<1>47. ASSUME NEW t \in Threads, lock(t) PROVE HeirInv'
  BY <1>47 DEF lock, Start, TryLock
<1>48. ASSUME NEW t \in Threads, lock_without_safepoint_check(t) PROVE HeirInv'
  BY <1>48 DEF lock_without_safepoint_check, Start
<1>49. ASSUME NEW t \in Threads, jvm_raw_lock(t) PROVE HeirInv'
  BY <1>49 DEF jvm_raw_lock, Start, TryLock
<1>50. ASSUME NEW t \in Threads, try_lock(t) PROVE HeirInv'
  BY <1>50 DEF try_lock, Start, TryLock
<1>51. ASSUME NEW t \in Threads, try_lock_sneak(t) PROVE HeirInv'
  BY <1>51 DEF try_lock_sneak, Start
<1>52. ASSUME NEW t \in Threads, notify(t) PROVE HeirInv'
  BY <1>52 DEF notify
<1>53. ASSUME NEW t \in Threads, wait(t) PROVE HeirInv'
  BY <1>53 DEF wait
<1>54. ASSUME NEW t \in Threads, unlock(t) PROVE HeirInv'
  BY <1>54 DEF unlock
<1>55. ASSUME NEW t \in Threads, wait_resumed(t) PROVE HeirInv'
  BY <1>55 DEF wait_resumed
<1>56. CASE safepoint_begin
  BY <1>56 DEF safepoint_begin
<1>57. CASE safepoint_end
  BY <1>57 DEF safepoint_end
<1>58. CASE UNCHANGED vars
  BY <1>58 DEF vars
<1> QED
  BY <1>1, <1>2, <1>3, <1>4, <1>5, <1>6, <1>7, <1>8, <1>9, <1>10, <1>11, <1>12, <1>13,
     <1>14, <1>15, <1>16, <1>17, <1>18, <1>19, <1>20, <1>21, <1>22, <1>23, <1>24,
     <1>25, <1>26, <1>27, <1>28, <1>29, <1>30, <1>31, <1>32, <1>33, <1>34, <1>35,
     <1>36, <1>37, <1>38, <1>39, <1>40, <1>41, <1>42, <1>43, <1>44, <1>45, <1>46,
     <1>47, <1>48, <1>49, <1>50, <1>51, <1>52, <1>53, <1>54, <1>55, <1>56, <1>57,
     <1>58
  DEF Next, Internal, External

\* No step leaves a list behind that nobody will look at.
LEMMA QueueStep ==
  ASSUME TypeInv, InnerInv, Settled, QueueInv, [Next]_vars
  PROVE  QueueInv'
<1> USE ThreadsAssumption DEF TypeInv, TypeOK, HandOK, HandPCs, Settled, InnerInv,
   InnerPCs, QueueInv, At, Goto, word, inner, waits, owning, locals
<1>1. ASSUME NEW t \in Threads, ILock(t) PROVE QueueInv'
  BY <1>1 DEF ILock, TryLock
<1>2. ASSUME NEW t \in Threads, ILock_reset(t) PROVE QueueInv'
  BY <1>2 DEF ILock_reset
<1>3. ASSUME NEW t \in Threads, AcquireOrPush(t) PROVE QueueInv'
  BY <1>3 DEF AcquireOrPush
<1>4. ASSUME NEW t \in Threads, ILock_wait(t) PROVE QueueInv'
  BY <1>4 DEF ILock_wait
<1>5. ASSUME NEW t \in Threads, ILock_park(t) PROVE QueueInv'
  BY <1>5 DEF ILock_park, ParkCommon
<1>6. ASSUME NEW t \in Threads, OnDeck_LOOP(t) PROVE QueueInv'
  BY <1>6 DEF OnDeck_LOOP, TryLock
<1>7. ASSUME NEW t \in Threads, OnDeck_park(t) PROVE QueueInv'
  BY <1>7 DEF OnDeck_park, ParkCommon
<1>8. ASSUME NEW t \in Threads, OnDeck_clear(t) PROVE QueueInv'
  BY <1>8 DEF OnDeck_clear
<1>9. ASSUME NEW t \in Threads, IUnlock(t) PROVE QueueInv'
  BY <1>9 DEF IUnlock
<1>10. ASSUME NEW t \in Threads, IUnlock_heir(t) PROVE QueueInv'
  BY <1>10 DEF IUnlock_heir
<1>11. ASSUME NEW t \in Threads, IUnlock_noheir(t) PROVE QueueInv'
  BY <1>11 DEF IUnlock_noheir, ReturnTo
<1>12. ASSUME NEW t \in Threads, unpark(t) PROVE QueueInv'
  BY <1>12 DEF unpark, ReturnTo
<1>13. ASSUME NEW t \in Threads, IUnlock_word(t) PROVE QueueInv'
  BY <1>13 DEF IUnlock_word, ReturnTo
<1>14. ASSUME NEW t \in Threads, IUnlock_list(t) PROVE QueueInv'
  BY <1>14 DEF IUnlock_list, ReturnTo
<1>15. ASSUME NEW t \in Threads, Succession(t) PROVE QueueInv'
  BY <1>15 DEF Succession, ReturnTo
<1>16. ASSUME NEW t \in Threads, WakeOne(t) PROVE QueueInv'
  BY <1>16 DEF WakeOne
<1>17. ASSUME NEW t \in Threads, WakeNone(t) PROVE QueueInv'
  BY <1>17 DEF WakeNone
<1>18. ASSUME NEW t \in Threads, Drain(t) PROVE QueueInv'
  BY <1>18 DEF Drain
<1>19. ASSUME NEW t \in Threads, Drain_punt(t) PROVE QueueInv'
  BY <1>19 DEF Drain_punt
<1>20. ASSUME NEW t \in Threads, Fill(t) PROVE QueueInv'
  BY <1>20 DEF Fill
<1>21. ASSUME NEW t \in Threads, Pass(t) PROVE QueueInv'
  <2>1. hand[t] \in Threads /\ OnDeck' = hand[t]
    BY <1>21 DEF Pass
  <2> QED
    BY <2>1
<1>22. ASSUME NEW t \in Threads, Pass_word(t) PROVE QueueInv'
  BY <1>22 DEF Pass_word, ReturnTo
<1>23. ASSUME NEW t \in Threads, Punt(t) PROVE QueueInv'
  BY <1>23 DEF Punt
<1>24. ASSUME NEW t \in Threads, Resample(t) PROVE QueueInv'
  BY <1>24 DEF Resample, ReturnTo
<1>25. ASSUME NEW t \in Threads, notify_take(t) PROVE QueueInv'
  BY <1>25 DEF notify_take
<1>26. ASSUME NEW t \in Threads, notify_none(t) PROVE QueueInv'
  BY <1>26 DEF notify_none
<1>27. ASSUME NEW t \in Threads, notify_push(t) PROVE QueueInv'
  BY <1>27 DEF notify_push
<1>28. ASSUME NEW t \in Threads, notify_mark(t) PROVE QueueInv'
  BY <1>28 DEF notify_mark
<1>29. ASSUME NEW t \in Threads, notify_unpark(t) PROVE QueueInv'
  BY <1>29 DEF notify_unpark
<1>30. ASSUME NEW t \in Threads, IWait(t) PROVE QueueInv'
  BY <1>30 DEF IWait
<1>31. ASSUME NEW t \in Threads, IWait_add(t) PROVE QueueInv'
  BY <1>31 DEF IWait_add
<1>32. ASSUME NEW t \in Threads, IWait_loop(t) PROVE QueueInv'
  BY <1>32 DEF IWait_loop
<1>33. ASSUME NEW t \in Threads, IWait_park(t) PROVE QueueInv'
  BY <1>33 DEF IWait_park
<1>34. ASSUME NEW t \in Threads, IWait_timeout(t) PROVE QueueInv'
  BY <1>34 DEF IWait_timeout
<1>35. ASSUME NEW t \in Threads, IWait_check(t) PROVE QueueInv'
  BY <1>35 DEF IWait_check
<1>36. ASSUME NEW t \in Threads, IWait_remove(t) PROVE QueueInv'
  BY <1>36 DEF IWait_remove
<1>37. ASSUME NEW t \in Threads, IWait_recheck(t) PROVE QueueInv'
  BY <1>37 DEF IWait_recheck
<1>38. ASSUME NEW t \in Threads, Reenter(t) PROVE QueueInv'
  BY <1>38 DEF Reenter
<1>39. ASSUME NEW t \in Threads, Reenter_spin(t) PROVE QueueInv'
  BY <1>39 DEF Reenter_spin, TryLock
<1>40. ASSUME NEW t \in Threads, Reenter_park(t) PROVE QueueInv'
  BY <1>40 DEF Reenter_park, ParkCommon
<1>41. ASSUME NEW t \in Threads, wait_suspended(t) PROVE QueueInv'
  BY <1>41 DEF wait_suspended
<1>42. ASSUME NEW t \in Threads, lock_sneak(t) PROVE QueueInv'
  BY <1>42 DEF lock_sneak
<1>43. ASSUME NEW t \in Threads, lock_spin(t) PROVE QueueInv'
  BY <1>43 DEF lock_spin, TryLock
<1>44. ASSUME NEW t \in Threads, Exeunt(t) PROVE QueueInv'
  BY <1>44 DEF Exeunt
<1>45. ASSUME NEW t \in Threads, try_sneak(t) PROVE QueueInv'
  BY <1>45 DEF try_sneak
<1>46. ASSUME NEW t \in Threads, unlock_snuck(t) PROVE QueueInv'
  BY <1>46 DEF unlock_snuck
<1>47. ASSUME NEW t \in Threads, lock(t) PROVE QueueInv'
  BY <1>47 DEF lock, Start, TryLock
<1>48. ASSUME NEW t \in Threads, lock_without_safepoint_check(t) PROVE QueueInv'
  BY <1>48 DEF lock_without_safepoint_check, Start
<1>49. ASSUME NEW t \in Threads, jvm_raw_lock(t) PROVE QueueInv'
  BY <1>49 DEF jvm_raw_lock, Start, TryLock
<1>50. ASSUME NEW t \in Threads, try_lock(t) PROVE QueueInv'
  BY <1>50 DEF try_lock, Start, TryLock
<1>51. ASSUME NEW t \in Threads, try_lock_sneak(t) PROVE QueueInv'
  BY <1>51 DEF try_lock_sneak, Start
<1>52. ASSUME NEW t \in Threads, notify(t) PROVE QueueInv'
  BY <1>52 DEF notify
<1>53. ASSUME NEW t \in Threads, wait(t) PROVE QueueInv'
  BY <1>53 DEF wait
<1>54. ASSUME NEW t \in Threads, unlock(t) PROVE QueueInv'
  BY <1>54 DEF unlock
<1>55. ASSUME NEW t \in Threads, wait_resumed(t) PROVE QueueInv'
  BY <1>55 DEF wait_resumed
<1>56. CASE safepoint_begin
  BY <1>56 DEF safepoint_begin
<1>57. CASE safepoint_end
  BY <1>57 DEF safepoint_end
<1>58. CASE UNCHANGED vars
  BY <1>58 DEF vars
<1> QED
  BY <1>1, <1>2, <1>3, <1>4, <1>5, <1>6, <1>7, <1>8, <1>9, <1>10, <1>11, <1>12, <1>13,
     <1>14, <1>15, <1>16, <1>17, <1>18, <1>19, <1>20, <1>21, <1>22, <1>23, <1>24,
     <1>25, <1>26, <1>27, <1>28, <1>29, <1>30, <1>31, <1>32, <1>33, <1>34, <1>35,
     <1>36, <1>37, <1>38, <1>39, <1>40, <1>41, <1>42, <1>43, <1>44, <1>45, <1>46,
     <1>47, <1>48, <1>49, <1>50, <1>51, <1>52, <1>53, <1>54, <1>55, <1>56, <1>57,
     <1>58
  DEF Next, Internal, External

-----------------------------------------------------------------------------
(* The theorems.                                                           *)

\* A cleared monitor has no thread anywhere.
LEMMA QueuesInit == ASSUME Init PROVE BaseInv /\ PlaceInv /\ HeirInv /\ QueueInv
<1>1. \A t \in Threads : pc[t] = "idle" /\ det[t] = <<>>
  BY DEF Init
<1>2. BaseInv
  BY <1>1, ThreadsAssumption
  DEF Init, BaseInv, CallInv, InnerInv, NotifyInv, InnerPCs, Exiting, ExitPCs
<1>3. Distinct
  BY <1>1, OnEmpty DEF Init, Distinct
<1>4. ASSUME NEW t \in Threads PROVE Place(t)
  <2>1. ~OnWaitSet(t) /\ ~OnCxq(t) /\ ~Detached(t) /\ ~OnEntryList(t) /\ OnDeck # t
    BY <1>1, OnEmpty, ThreadsAssumption
    DEF Init, OnWaitSet, OnCxq, Detached, OnEntryList
  <2>2. ~InNotify(t) /\ ~InMark(t) /\ ~InPass(t)
    BY <1>1 DEF InNotify, InMark, InPass, At
  <2>3. ~InWait(t) /\ pc[t] \notin QueuedPCs /\ pc[t] # "IWait_add"
    BY <1>1 DEF InWait, WaitPCs, Exiting, ExitPCs, InnerPCs, QueuedPCs
  <2> QED
    BY <2>1, <2>2, <2>3 DEF Place, Contends
<1>5. HeirInv /\ QueueInv
  BY ThreadsAssumption DEF Init, HeirInv, QueueInv
<1> QED
  BY <1>2, <1>3, <1>4, <1>5 DEF PlaceInv

\* The places are an invariant whatever the monitor is used for: they do not
\* depend on the outer lock.
LEMMA PlacesInvariant == Spec => [](TypeInv /\ BaseInv /\ PlaceInv)
<1>1. Init => TypeInv /\ BaseInv /\ PlaceInv
  BY TypeInit, QueuesInit
<1>2. TypeInv /\ BaseInv /\ PlaceInv /\ [Next]_vars => (TypeInv /\ BaseInv /\ PlaceInv)'
  BY TypeStep, BaseStep, PlaceStep
<1> QED
  BY <1>1, <1>2, PTL DEF Spec

\* Where the ParkEvent of a thread can be, as OnExactlyOneList numbers it.
LEMMA OnePlace ==
  ASSUME InnerInv, PlaceInv, NEW t \in Threads
  PROVE  LET in == <<OnWaitSet(t), InNotify(t), OnCxq(t), Detached(t),
                     OnEntryList(t), InPass(t), OnDeck = t>>
         IN  Cardinality({i \in 1..7 : in[i]}) = IF Linked(t) THEN 1 ELSE 0
<1> DEFINE in == <<OnWaitSet(t), InNotify(t), OnCxq(t), Detached(t),
                   OnEntryList(t), InPass(t), OnDeck = t>>
           places == {i \in 1..7 : in[i]}
<1>1. /\ in[1] <=> OnWaitSet(t)
      /\ in[2] <=> InNotify(t)
      /\ in[3] <=> OnCxq(t)
      /\ in[4] <=> Detached(t)
      /\ in[5] <=> OnEntryList(t)
      /\ in[6] <=> InPass(t)
      /\ in[7] <=> OnDeck = t
  BY Zenon
<1> HIDE DEF in
<1>2. /\ 1 \in places <=> OnWaitSet(t)
      /\ 2 \in places <=> InNotify(t)
      /\ 3 \in places <=> OnCxq(t)
      /\ 4 \in places <=> Detached(t)
      /\ 5 \in places <=> OnEntryList(t)
      /\ 6 \in places <=> InPass(t)
      /\ 7 \in places <=> OnDeck = t
  BY <1>1
<1>3. \A i \in places : i \in {1, 2, 3, 4, 5, 6, 7}
  OBVIOUS
<1> HIDE DEF places
<1>4. \A i, j \in places : i = j
  BY <1>2, <1>3, InnerPlaces DEF PlaceInv, Place, Contends
<1>5. Linked(t) <=> (\E i \in places : TRUE)
  BY <1>2, <1>3 DEF PlaceInv, Place, Contends, Linked
<1>6. CASE Linked(t)
  <2>1. PICK i \in places : TRUE
    BY <1>5, <1>6
  <2>2. places = {i}
    BY <1>4, <2>1
  <2>3. Cardinality(places) = 1
    BY <2>2, FS_Singleton
  <2> QED
    BY <1>6, <2>3 DEF places, in
<1>7. CASE ~Linked(t)
  <2>1. places = {}
    BY <1>5, <1>7
  <2>2. Cardinality(places) = 0
    BY <2>1, FS_EmptySet
  <2> QED
    BY <1>7, <2>2 DEF places, in
<1> QED
  BY <1>6, <1>7

\* No interleaving of push, detach, refill, notify and timeout loses or
\* duplicates the ParkEvent of a thread that blocks in the monitor, whatever
\* operations any number of threads use.
THEOREM OnExactlyOneListCorrect == Spec => []OnExactlyOneList
<1>1. TypeInv /\ BaseInv /\ PlaceInv => OnExactlyOneList
  <2> SUFFICES ASSUME BaseInv, PlaceInv PROVE OnExactlyOneList
    OBVIOUS
  <2>1. NoDuplicates(cxq) /\ NoDuplicates(EntryList) /\ NoDuplicates(WaitSet)
    BY DEF PlaceInv, Distinct
  <2> USE DEF Linked, InWait, QueuedPCs, WaitPCs, Exiting
  <2>2. ASSUME NEW t \in Threads
        PROVE  Linked(t) <=>
                 \/ pc[t] \in {"ILock_wait", "ILock_park", "OnDeck_LOOP",
                              "OnDeck_park", "OnDeck_clear", "Reenter",
                              "Reenter_spin", "Reenter_park", "IWait_loop",
                              "IWait_park", "IWait_check", "IWait_remove"}
                 \/ pc[t] \in ExitPCs \cup {"IUnlock"} /\ call[t] \in Waiting
    OBVIOUS
  <2> HIDE DEF Linked
  <2> QED
    BY <2>1, <2>2, OnePlace DEF BaseInv, OnExactlyOneList
<1> QED
  BY <1>1, PlacesInvariant, PTL

\* Only the thread that holds the inner lock changes the EntryList or detaches
\* the cxq (IUnlock).
THEOREM QueueDisciplineCorrect == Spec => QueueDiscipline
<1> DEFINE Disciplined ==
      EntryList' # EntryList \/ Len(cxq') < Len(cxq) => OnDeck = LBIT
<1>1. TypeInv /\ BaseInv /\ [Next]_vars => [Disciplined]_vars
  <2> SUFFICES ASSUME TypeInv, BaseInv, Next PROVE Disciplined
    BY DEF vars
  <2> USE DEF TypeInv, TypeOK, At, Goto, word, inner, waits, owning, locals
  <2>1. ASSUME NEW t \in Threads, WakeOne(t) \/ Fill(t) \/ Drain(t) PROVE Disciplined
    BY <2>1 DEF WakeOne, Fill, Drain, BaseInv, InnerInv, InnerPCs
  <2>2. ASSUME NEW t \in Threads, AcquireOrPush(t) PROVE Disciplined
    BY <2>2 DEF AcquireOrPush
  <2>3. ASSUME NEW t \in Threads, notify_push(t) PROVE Disciplined
    <3>1. cxq' = <<hand[t]>> \o cxq /\ hand[t] \in Threads /\ EntryList' = EntryList
      BY <2>3 DEF notify_push, HandOK, HandPCs
    <3>2. Len(cxq') = Len(cxq) + 1 /\ Len(cxq) \in Nat
      BY <3>1
    <3> QED
      BY <3>1, <3>2
  <2>4. ASSUME NEW t \in Threads,
         ILock(t) \/ ILock_reset(t) \/ ILock_wait(t) \/ ILock_park(t) \/
         OnDeck_LOOP(t) \/ OnDeck_park(t) \/ OnDeck_clear(t) \/ IUnlock(t) \/
         IUnlock_heir(t) \/ IUnlock_noheir(t)
        PROVE  UNCHANGED <<cxq, EntryList>>
    BY <2>4 DEF ILock, TryLock, ILock_reset, ILock_wait, ILock_park, ParkCommon,
       OnDeck_LOOP, OnDeck_park, OnDeck_clear, IUnlock, IUnlock_heir, IUnlock_noheir,
       ReturnTo
  <2>5. ASSUME NEW t \in Threads,
         unpark(t) \/ IUnlock_word(t) \/ IUnlock_list(t) \/ Succession(t) \/
         WakeNone(t) \/ Drain_punt(t) \/ Pass(t) \/ Pass_word(t) \/ Punt(t) \/
         Resample(t)
        PROVE  UNCHANGED <<cxq, EntryList>>
    BY <2>5 DEF unpark, ReturnTo, IUnlock_word, IUnlock_list, Succession, WakeNone,
       Drain_punt, Pass, Pass_word, Punt, Resample
  <2>6. ASSUME NEW t \in Threads,
         notify_take(t) \/ notify_none(t) \/ notify_mark(t) \/ notify_unpark(t) \/
         IWait(t) \/ IWait_add(t) \/ IWait_loop(t) \/ IWait_park(t) \/
         IWait_timeout(t) \/ IWait_check(t)
        PROVE  UNCHANGED <<cxq, EntryList>>
    BY <2>6 DEF notify_take, notify_none, notify_mark, notify_unpark, IWait,
       IWait_add, IWait_loop, IWait_park, IWait_timeout, IWait_check
  <2>7. ASSUME NEW t \in Threads,
         IWait_remove(t) \/ IWait_recheck(t) \/ Reenter(t) \/ Reenter_spin(t) \/
         Reenter_park(t) \/ wait_suspended(t) \/ lock_sneak(t) \/ lock_spin(t) \/
         Exeunt(t) \/ try_sneak(t)
        PROVE  UNCHANGED <<cxq, EntryList>>
    BY <2>7 DEF IWait_remove, IWait_recheck, Reenter, Reenter_spin, TryLock,
       Reenter_park, ParkCommon, wait_suspended, lock_sneak, lock_spin, Exeunt,
       try_sneak
  <2>8. ASSUME NEW t \in Threads,
         unlock_snuck(t) \/ lock(t) \/ lock_without_safepoint_check(t) \/
         jvm_raw_lock(t) \/ try_lock(t) \/ try_lock_sneak(t) \/ notify(t) \/
         wait(t) \/ unlock(t) \/ wait_resumed(t)
        PROVE  UNCHANGED <<cxq, EntryList>>
    BY <2>8 DEF unlock_snuck, lock, Start, TryLock, lock_without_safepoint_check,
       jvm_raw_lock, try_lock, try_lock_sneak, notify, wait, unlock, wait_resumed
  <2>9. CASE safepoint_begin \/ safepoint_end
    BY <2>9 DEF safepoint_begin, safepoint_end
  <2>10. Disciplined \/ UNCHANGED <<cxq, EntryList>>
    BY <2>1, <2>2, <2>3, <2>4, <2>5, <2>6, <2>7, <2>8, <2>9 DEF Next, Internal, External
  <2>11. Len(cxq) \in Nat
    OBVIOUS
  <2> QED
    BY <2>10, <2>11
<1> QED
  BY <1>1, PlacesInvariant, PTL DEF Spec, QueueDiscipline

\* Succession needs the outer lock as well: the notifier of a waiter that is
\* OnDeck has the lock byte until the waiter is marked.
LEMMA SuccessionInvariant ==
  ASSUME SneakDiscipline
  PROVE  Spec => [](TypeInv /\ LockInv /\ BaseInv /\ PlaceInv /\ HeirInv /\ QueueInv)
<1>1. Init => HeirInv /\ QueueInv
  BY QueuesInit
<1>2. /\ TypeInv /\ LockInv /\ BaseInv /\ PlaceInv /\ HeirInv /\ QueueInv
      /\ [Next]_vars
      => (HeirInv /\ QueueInv)'
  BY SettledFacts, HeirStep, QueueStep DEF BaseInv
<1> QED
  BY <1>1, <1>2, LockInvariant, PlacesInvariant, PTL DEF Spec

\* Two exiting threads never leave a queue to each other: while the lock is free
\* and contended some thread is on its way out of IUnlock, or the heir is awake
\* or has a permit.
THEOREM SucceededCorrect ==
  ASSUME SneakDiscipline
  PROVE  Spec => []Succeeded
<1>1. BaseInv /\ TypeInv /\ HeirInv /\ QueueInv => Succeeded
  <2> SUFFICES ASSUME BaseInv, TypeInv, HeirInv, QueueInv, ~LockByte,
                      NEW t \in Threads, Contends(t)
               PROVE  \/ \E u \in Threads : pc[u] \in ExitPCs
                      \/ OnDeck \in Threads /\ (event[OnDeck] \/ pc[OnDeck] \notin ParkPCs)
    BY DEF Succeeded
  <2>1. CASE OnDeck \in Threads
    BY <2>1 DEF HeirInv, ExitPCs
  <2>2. CASE OnDeck = LBIT
    BY <2>2 DEF BaseInv, InnerInv, ExitPCs
  <2>3. CASE OnDeck = NULL
    <3>1. ASSUME OnCxq(t) \/ OnEntryList(t) PROVE cxq # <<>> \/ EntryList # <<>>
      BY <3>1, OnEmpty DEF OnCxq, OnEntryList
    <3>2. ASSUME Detached(t) PROVE \E u \in Threads : pc[u] \in ExitPCs
      BY <3>2, OnEmpty DEF Detached, BaseInv, InnerInv, InnerPCs, ExitPCs
    <3>3. ASSUME InPass(t) PROVE \E u \in Threads : pc[u] \in ExitPCs
      BY <3>3 DEF InPass, At, InnerPCs, ExitPCs
    <3>4. cxq # <<>> \/ EntryList # <<>> => \E u \in Threads : pc[u] \in ExitPCs
      BY <2>3 DEF QueueInv, ExitPCs
    <3> QED
      BY <2>3, <3>1, <3>2, <3>3, <3>4, ThreadsAssumption DEF Contends
  <2> QED
    BY <2>1, <2>2, <2>3 DEF TypeInv, TypeOK
<1> QED
  BY <1>1, SuccessionInvariant, PTL

\* While the VM thread sneaks, no other thread is where it would have to stop.
LEMMA SneaksAlone ==
  ASSUME SneakDiscipline, LockInv, NEW v \in VMThreads,
         snuck \/ pc[v] = "try_sneak"
  PROVE  safepoint /\ \A t \in Threads \ {v} : pc[t] \in RunPCs => pc[t] = "idle"
<1> USE ThreadsAssumption DEF LockInv
<1>1. safepoint /\ Calls[v] \cap {"lock", "try_lock"} # {}
  BY DEF SneakInv
<1>2. Threads \ VMThreads \subseteq JavaThreads
  BY <1>1 DEF SneakDiscipline
<1>3. ASSUME NEW t \in Threads \ {v}, pc[t] \in RunPCs PROVE pc[t] = "idle"
  <2>1. t \in JavaThreads
    BY <1>2
  <2> QED
    BY <1>1, <1>3, <2>1 DEF SafepointInv
<1> QED
  BY <1>1, <1>3

\* A thread that is about to take ownership finds no owner: were there one, one
\* of the two would have sneaked, at a safepoint, and the other would be stopped.
LEMMA EntersFree ==
  ASSUME SneakDiscipline, LockInv, NEW t \in Threads, pc[t] = "acquired",
         tbivm[t] => ~safepoint
  PROVE  owner = NULL
<1> USE ThreadsAssumption DEF LockInv, LockTypes
<1>1. ASSUME NEW u \in Threads, owner = u PROVE FALSE
  <2>1. pc[u] \in CritPCs /\ u # t
    BY <1>1 DEF MutualExclusion, CritPCs
  <2>2. Sneaked(t) \/ Sneaked(u)
    BY <2>1 DEF LockByteHeld, Holds, HoldPCs, CritPCs
  <2>3. PICK v \in VMThreads : v \in {t, u} /\ snuck
    BY <2>2 DEF Sneaked
  <2>4. safepoint /\ \A x \in Threads \ {v} : pc[x] \in RunPCs => pc[x] = "idle"
    BY <2>3, SneaksAlone
  <2>5. v = u
    BY <2>1, <2>3, <2>4 DEF RunPCs, CritPCs
  <2>6. t \in JavaThreads /\ pc[t] # "idle"
    BY <2>1, <2>3, <2>4, <2>5 DEF SneakInv, SneakDiscipline
  <2> QED
    BY <2>4, <2>6 DEF SafepointInv
<1> QED
  BY <1>1

\* The assertions of mutex.cpp that Asserts lists hold, for any number of threads
\* and any use of the operations that keeps SneakDiscipline.  Among them are that
\* _snuck is found set by the VM thread at a safepoint only, and that the inner
\* lock is passed on or dropped by its holder.  ILocked() at Exeunt is among them
\* for a thread that has not sneaked: for the sneaking VM thread it fails
\* (ExeuntLocked).
THEOREM AssertsHold ==
  ASSUME SneakDiscipline
  PROVE  Spec => []Asserts
<1>1. TypeInv /\ LockInv /\ BaseInv /\ PlaceInv => Asserts
  <2> SUFFICES ASSUME TypeInv, LockInv, BaseInv, PlaceInv PROVE Asserts
    OBVIOUS
  <2> SUFFICES ASSUME NEW t \in Threads
               PROVE
       /\ pc[t] = "acquired" /\ ~Sneaked(t) => LockByte
       /\ pc[t] \in {"IWait", "IUnlock", "notify_take", "notify_push",
                     "notify_unpark"} => LockByte
       /\ pc[t] = "acquired" /\ (tbivm[t] => ~safepoint) => owner = NULL
       /\ pc[t] = "try_sneak" => owner = NULL
       /\ pc[t] \in {"idle", "ILock", "ILock_reset", "crit"} => OnDeck # t
       /\ pc[t] = "IUnlock_ondeck" /\ call[t] = "unlock" => OnDeck # t
       /\ pc[t] = "WakeOne" /\ EntryList # <<>> /\ call[t] = "unlock" =>
            Head(EntryList) # t
       /\ pc[t] \in {"OnDeck_LOOP", "OnDeck_clear", "Reenter_spin"} => OnDeck = t
       /\ pc[t] \in {"Pass", "Punt"} => OnDeck = LBIT
       /\ pc[t] = "Fill" => EntryList = <<>> /\ det[t] # <<>>
       /\ pc[t] = "unlock_snuck" /\ snuck => safepoint /\ t \in VMThreads
       /\ pc[t] = "notify_push" => ~Notified[hand[t]]
       /\ pc[t] = "IWait_remove" /\ WaitLock = NULL /\ ~Notified[t] =>
            OnDeck # t /\ OnWaitSet(t)
    BY DEF Asserts, TypeInv
  <2> DEFINE unlinked == ~Linked(t)
  <2>1. unlinked => ~Contends(t)
    BY DEF PlaceInv, Place
  <2>2. unlinked => OnDeck # t /\ ~OnEntryList(t)
    BY <2>1 DEF Contends
  <2>3. /\ pc[t] \in {"idle", "ILock", "ILock_reset", "crit"} => unlinked
        /\ pc[t] \in {"IUnlock_ondeck", "WakeOne"} /\ call[t] = "unlock" => unlinked
    BY DEF Linked, InWait, QueuedPCs, WaitPCs, Exiting, ExitPCs, InnerPCs, Waiting
  <2> HIDE DEF unlinked
  <2>4. EntryList # <<>> => OnEntryList(Head(EntryList))
    BY OnTail DEF TypeInv, TypeOK, PlaceInv, Distinct, OnEntryList
  <2>5. pc[t] \in {"IWait", "IUnlock", "notify_take", "notify_push",
                   "notify_unpark"} => LockByte
    BY DEF LockInv, LockByteHeld, Holds, HoldPCs, Sneaked, SneakInv
  <2>6. /\ pc[t] \in {"OnDeck_LOOP", "OnDeck_clear", "Reenter_spin"} => OnDeck = t
        /\ pc[t] \in {"Pass", "Punt"} => OnDeck = LBIT
        /\ pc[t] = "Fill" => EntryList = <<>> /\ det[t] # <<>>
    BY DEF BaseInv, InnerInv, InnerPCs
  <2>7. ASSUME pc[t] = "notify_push" PROVE ~Notified[hand[t]]
    <3>1. hand[t] \in Threads /\ InNotify(hand[t])
      BY <2>7 DEF TypeInv, HandOK, HandPCs, InNotify, At
    <3> QED
      BY <3>1 DEF PlaceInv, Place
  <2>8. ASSUME pc[t] = "IWait_remove", WaitLock = NULL, ~Notified[t]
        PROVE  OnDeck # t /\ OnWaitSet(t)
    <3>1. InWait(t)
      BY <2>8 DEF InWait, WaitPCs
    <3>2. ~InNotify(t) /\ ~InMark(t)
      BY <2>8, ThreadsAssumption DEF BaseInv, NotifyInv, InNotify, InMark, At
    <3>3. OnWaitSet(t) /\ ~Contends(t)
      BY <2>8, <3>1, <3>2 DEF PlaceInv, Place
    <3> QED
      BY <3>3 DEF Contends
  <2>9. pc[t] = "acquired" /\ (tbivm[t] => ~safepoint) => owner = NULL
    BY EntersFree
  <2>10. pc[t] = "acquired" /\ ~Sneaked(t) => LockByte
    BY DEF LockInv, LockByteHeld, Holds, HoldPCs
  <2>11. pc[t] = "try_sneak" => owner = NULL
    <3> SUFFICES ASSUME pc[t] = "try_sneak", NEW u \in Threads, owner = u PROVE FALSE
      BY DEF LockInv, LockTypes
    <3>1. t \in VMThreads
      BY DEF LockInv, SneakInv
    <3>2. pc[u] \in CritPCs /\ u # t
      BY DEF LockInv, MutualExclusion, CritPCs
    <3> QED
      BY <3>1, <3>2, SneaksAlone DEF RunPCs, CritPCs
  <2>12. ASSUME pc[t] = "unlock_snuck", snuck PROVE safepoint /\ t \in VMThreads
    <3>1. PICK v \in VMThreads : TRUE
      BY <2>12 DEF LockInv, SneakInv
    <3>2. safepoint /\ (t # v => pc[t] = "idle")
      BY <2>12, SneaksAlone DEF RunPCs
    <3> QED
      BY <2>12, <3>1, <3>2
  <2> QED
    BY <2>2, <2>3, <2>4, <2>5, <2>6, <2>7, <2>8, <2>9, <2>10, <2>11, <2>12
<1> QED
  BY <1>1, SuccessionInvariant, PTL

-----------------------------------------------------------------------------
(* Refinement.  The queue of AbstractMonitor is read off the places, and its  *)
(* holder off the program counters.  A thread that is giving up the lock is    *)
(* not queued yet: whoever would notify it needs the lock it still has.        *)

LeavingInv == \A t \in Threads : pc[t] = "IUnlock" => ~Contends(t)

\* What a step of t does to the outer lock.
Kept == \A x \in Threads : Holds(x)' <=> Holds(x)
Won(t) == ~LockByte /\ ~InWait(t) /\ (\A x \in Threads : Holds(x)' <=> x = t)
Released(t) == pc[t] = "IUnlock" /\ Holds(t) /\ (\A x \in Threads : ~Holds(x)')

\* Every step takes the outer lock, drops it, or leaves it with its holder.
LEMMA HeldActions ==
  ASSUME SneakDiscipline, TypeInv, LockInv, NEW t \in Threads, Internal(t) \/
     External(t)
  PROVE  Kept \/ Won(t) \/ Released(t)
<1> USE ThreadsAssumption DEF TypeInv, TypeOK, Holds, HoldPCs, Sneaked, LockInv,
   SneakInv,
       Kept, At, Goto, word, inner, waits, owning, locals
<1>1. CASE ILock(t)
  <2>1. CASE LockByte
    BY <1>1, <2>1 DEF ILock, TryLock
  <2>2. CASE ~LockByte
    BY <1>1, <2>2 DEF ILock, TryLock, Won, LockByteHeld, InWait, WaitPCs, Exiting,
       ExitPCs, InnerPCs
  <2> QED
    BY <2>1, <2>2
<1>2. CASE ILock_reset(t)
  BY <1>2 DEF ILock_reset
<1>3. CASE AcquireOrPush(t)
  <2>1. CASE LockByte
    BY <1>3, <2>1 DEF AcquireOrPush
  <2>2. CASE ~LockByte
    BY <1>3, <2>2 DEF AcquireOrPush, Won, LockByteHeld, InWait, WaitPCs, Exiting,
       ExitPCs, InnerPCs
  <2> QED
    BY <2>1, <2>2
<1>4. CASE ILock_wait(t)
  BY <1>4 DEF ILock_wait
<1>5. CASE ILock_park(t)
  BY <1>5 DEF ILock_park, ParkCommon
<1>6. CASE OnDeck_LOOP(t)
  <2>1. CASE LockByte
    BY <1>6, <2>1 DEF OnDeck_LOOP, TryLock
  <2>2. CASE ~LockByte
    BY <1>6, <2>2 DEF OnDeck_LOOP, TryLock, Won, LockByteHeld, InWait, WaitPCs,
       Exiting, ExitPCs, InnerPCs
  <2> QED
    BY <2>1, <2>2
<1>7. CASE OnDeck_park(t)
  BY <1>7 DEF OnDeck_park, ParkCommon
<1>8. CASE OnDeck_clear(t)
  BY <1>8 DEF OnDeck_clear
<1>9. CASE IUnlock(t)
  BY <1>9 DEF IUnlock, Released, LockByteHeld
<1>10. CASE IUnlock_heir(t)
  BY <1>10 DEF IUnlock_heir
<1>11. CASE IUnlock_noheir(t)
  BY <1>11 DEF IUnlock_noheir, ReturnTo
<1>12. CASE unpark(t)
  BY <1>12 DEF unpark, ReturnTo
<1>13. CASE IUnlock_word(t)
  BY <1>13 DEF IUnlock_word, ReturnTo
<1>14. CASE IUnlock_list(t)
  BY <1>14 DEF IUnlock_list, ReturnTo
<1>15. CASE Succession(t)
  BY <1>15 DEF Succession, ReturnTo
<1>16. CASE WakeOne(t)
  BY <1>16 DEF WakeOne
<1>17. CASE WakeNone(t)
  BY <1>17 DEF WakeNone
<1>18. CASE Drain(t)
  BY <1>18 DEF Drain
<1>19. CASE Drain_punt(t)
  BY <1>19 DEF Drain_punt
<1>20. CASE Fill(t)
  BY <1>20 DEF Fill
<1>21. CASE Pass(t)
  BY <1>21 DEF Pass
<1>22. CASE Pass_word(t)
  BY <1>22 DEF Pass_word, ReturnTo
<1>23. CASE Punt(t)
  BY <1>23 DEF Punt
<1>24. CASE Resample(t)
  BY <1>24 DEF Resample, ReturnTo
<1>25. CASE notify_take(t)
  BY <1>25 DEF notify_take
<1>26. CASE notify_none(t)
  BY <1>26 DEF notify_none
<1>27. CASE notify_push(t)
  BY <1>27 DEF notify_push
<1>28. CASE notify_mark(t)
  BY <1>28 DEF notify_mark
<1>29. CASE notify_unpark(t)
  BY <1>29 DEF notify_unpark
<1>30. CASE IWait(t)
  BY <1>30 DEF IWait
<1>31. CASE IWait_add(t)
  BY <1>31 DEF IWait_add
<1>32. CASE IWait_loop(t)
  BY <1>32 DEF IWait_loop
<1>33. CASE IWait_park(t)
  BY <1>33 DEF IWait_park
<1>34. CASE IWait_timeout(t)
  BY <1>34 DEF IWait_timeout
<1>35. CASE IWait_check(t)
  BY <1>35 DEF IWait_check
<1>36. CASE IWait_remove(t)
  BY <1>36 DEF IWait_remove
<1>37. CASE IWait_recheck(t)
  BY <1>37 DEF IWait_recheck
<1>38. CASE Reenter(t)
  BY <1>38 DEF Reenter
<1>39. CASE Reenter_spin(t)
  <2>1. CASE LockByte
    BY <1>39, <2>1 DEF Reenter_spin, TryLock
  <2>2. CASE ~LockByte
    BY <1>39, <2>2 DEF Reenter_spin, TryLock, Won, LockByteHeld, InWait, WaitPCs,
       Exiting, ExitPCs, InnerPCs
  <2> QED
    BY <2>1, <2>2
<1>40. CASE Reenter_park(t)
  BY <1>40 DEF Reenter_park, ParkCommon
<1>41. CASE wait_suspended(t)
  BY <1>41 DEF wait_suspended
<1>42. CASE lock_sneak(t)
  BY <1>42 DEF lock_sneak, CanSneak
<1>43. CASE lock_spin(t)
  <2>1. CASE LockByte
    BY <1>43, <2>1 DEF lock_spin, TryLock
  <2>2. CASE ~LockByte
    BY <1>43, <2>2 DEF lock_spin, TryLock, Won, LockByteHeld, InWait, WaitPCs,
       Exiting, ExitPCs, InnerPCs
  <2> QED
    BY <2>1, <2>2
<1>44. CASE Exeunt(t)
  BY <1>44 DEF Exeunt
<1>45. CASE try_sneak(t)
  BY <1>45 DEF try_sneak
<1>46. CASE unlock_snuck(t)
  <2>1. snuck => t \in VMThreads
    BY <1>46 DEF unlock_snuck, SafepointInv, RunPCs, SneakDiscipline
  <2> QED
    BY <1>46, <2>1 DEF unlock_snuck
<1>47. CASE lock(t)
  <2>1. CASE LockByte
    BY <1>47, <2>1 DEF lock, Start, TryLock
  <2>2. CASE ~LockByte
    BY <1>47, <2>2 DEF lock, Start, TryLock, Won, LockByteHeld, InWait, WaitPCs,
       Exiting, ExitPCs, InnerPCs
  <2> QED
    BY <2>1, <2>2
<1>48. CASE lock_without_safepoint_check(t)
  BY <1>48 DEF lock_without_safepoint_check, Start
<1>49. CASE jvm_raw_lock(t)
  <2>1. CASE LockByte
    BY <1>49, <2>1 DEF jvm_raw_lock, Start, TryLock
  <2>2. CASE ~LockByte
    BY <1>49, <2>2 DEF jvm_raw_lock, Start, TryLock, Won, LockByteHeld, InWait,
       WaitPCs, Exiting, ExitPCs, InnerPCs
  <2> QED
    BY <2>1, <2>2
<1>50. CASE try_lock(t)
  <2>1. CASE LockByte
    BY <1>50, <2>1 DEF try_lock, Start, TryLock
  <2>2. CASE ~LockByte
    BY <1>50, <2>2 DEF try_lock, Start, TryLock, Won, LockByteHeld, InWait, WaitPCs,
       Exiting, ExitPCs, InnerPCs
  <2> QED
    BY <2>1, <2>2
<1>51. CASE try_lock_sneak(t)
  BY <1>51 DEF try_lock_sneak, Start
<1>52. CASE notify(t)
  BY <1>52 DEF notify
<1>53. CASE wait(t)
  BY <1>53 DEF wait
<1>54. CASE unlock(t)
  BY <1>54 DEF unlock
<1>55. CASE wait_resumed(t)
  BY <1>55 DEF wait_resumed
<1> HIDE DEF Kept, LockInv, TypeInv
<1> QED
  BY <1>1, <1>2, <1>3, <1>4, <1>5, <1>6, <1>7, <1>8, <1>9, <1>10, <1>11, <1>12, <1>13,
     <1>14, <1>15, <1>16, <1>17, <1>18, <1>19, <1>20, <1>21, <1>22, <1>23, <1>24,
     <1>25, <1>26, <1>27, <1>28, <1>29, <1>30, <1>31, <1>32, <1>33, <1>34, <1>35,
     <1>36, <1>37, <1>38, <1>39, <1>40, <1>41, <1>42, <1>43, <1>44, <1>45, <1>46,
     <1>47, <1>48, <1>49, <1>50, <1>51, <1>52, <1>53, <1>54, <1>55
  DEF Internal, External

\* The state of the abstract monitor, as Monitor maps it.
Holder == IF \E t \in Threads : Holds(t) THEN CHOOSE t \in Threads : Holds(t) ELSE NULL
Queue == {t \in Threads : Contends(t) /\ ~Holds(t)}
Waiters == {t \in Threads : OnWaitSet(t) \/ InNotify(t)}

\* The holder is the thread that holds the outer lock, before a step ...
LEMMA HolderIs ==
  ASSUME LockByteHeld
  PROVE  /\ \A t \in Threads : Holds(t) => Holder = t
         /\ (\A t \in Threads : ~Holds(t)) => Holder = NULL
<1>1. PICK w : w = CHOOSE u \in Threads : Holds(u)
  OBVIOUS
<1>2. ASSUME NEW t \in Threads, Holds(t) PROVE Holder = t
  <2>1. w \in Threads /\ Holds(w)
    BY <1>1, <1>2, Zenon
  <2>2. w = t
    BY <1>2, <2>1 DEF LockByteHeld
  <2> QED
    BY <1>1, <1>2, <2>2 DEF Holder
<1>3. (\A t \in Threads : ~Holds(t)) => Holder = NULL
  BY DEF Holder
<1> QED
  BY <1>2, <1>3

\* ... and after it.
LEMMA HolderIsNext ==
  ASSUME LockByteHeld'
  PROVE  /\ \A t \in Threads : Holds(t)' => Holder' = t
         /\ (\A t \in Threads : ~Holds(t)') => Holder' = NULL
<1>1. PICK w : w = CHOOSE u \in Threads : Holds(u)'
  OBVIOUS
<1>2. ASSUME NEW t \in Threads, Holds(t)' PROVE Holder' = t
  <2>1. w \in Threads /\ Holds(w)'
    BY <1>1, <1>2, Zenon
  <2>2. w = t
    BY <1>2, <2>1 DEF LockByteHeld
  <2> QED
    BY <1>1, <1>2, <2>2 DEF Holder
<1>3. (\A t \in Threads : ~Holds(t)') => Holder' = NULL
  BY DEF Holder
<1> QED
  BY <1>2, <1>3

\* The steps of AbstractMonitor in these terms.
LEMMA AbstractSteps ==
  ASSUME NEW t \in Threads, NEW w \in Threads
  PROVE  /\ /\ Holder = NULL /\ t \notin Waiters /\ Holder' = t
            /\ Queue' = Queue \ {t} /\ Waiters' = Waiters
            => Monitor!Acquire(t)
         /\ /\ Holder \notin {NULL, t} /\ t \notin Queue \cup Waiters
            /\ Queue' = Queue \cup {t} /\ Holder' = Holder /\ Waiters' = Waiters
            => Monitor!Contend(t)
         /\ /\ Holder = t /\ Holder' = NULL /\ Queue' = Queue /\ Waiters' = Waiters
            => Monitor!Release(t)
         /\ /\ Holder = t /\ t \notin Waiters /\ Waiters' = Waiters \cup {t}
            /\ Holder' = Holder /\ Queue' = Queue
            => Monitor!Join(t)
         /\ /\ Holder = t /\ t \notin Waiters /\ w \in Waiters
            /\ Waiters' = Waiters \ {w} /\ Queue' = Queue \cup {w} /\ Holder' = Holder
            => Monitor!Notify(t, w)
         /\ /\ t \in Waiters /\ t # Holder /\ Waiters' = Waiters \ {t}
            /\ Holder' = Holder /\ Queue' = Queue
            => Monitor!Timeout(t)
         /\ /\ Holder' = Holder /\ Queue' = Queue /\ Waiters' = Waiters
            => UNCHANGED Monitor!vars
<1> USE DEF Holder, Queue, Waiters
<1>1. /\ Holder = NULL /\ t \notin Waiters /\ Holder' = t
      /\ Queue' = Queue \ {t} /\ Waiters' = Waiters
      => Monitor!Acquire(t)
  BY DEF Monitor!Acquire
<1>2. /\ Holder \notin {NULL, t} /\ t \notin Queue \cup Waiters
      /\ Queue' = Queue \cup {t} /\ Holder' = Holder /\ Waiters' = Waiters
      => Monitor!Contend(t)
  BY DEF Monitor!Contend
<1>3. /\ Holder = t /\ Holder' = NULL /\ Queue' = Queue /\ Waiters' = Waiters
      => Monitor!Release(t)
  BY DEF Monitor!Release
<1>4. /\ Holder = t /\ t \notin Waiters /\ Waiters' = Waiters \cup {t}
      /\ Holder' = Holder /\ Queue' = Queue
      => Monitor!Join(t)
  BY DEF Monitor!Join
<1>5. /\ Holder = t /\ t \notin Waiters /\ w \in Waiters
      /\ Waiters' = Waiters \ {w} /\ Queue' = Queue \cup {w} /\ Holder' = Holder
      => Monitor!Notify(t, w)
  BY DEF Monitor!Notify
<1>6. /\ t \in Waiters /\ t # Holder /\ Waiters' = Waiters \ {t}
      /\ Holder' = Holder /\ Queue' = Queue
      => Monitor!Timeout(t)
  BY DEF Monitor!Timeout
<1>7. Holder' = Holder /\ Queue' = Queue /\ Waiters' = Waiters => UNCHANGED Monitor!vars
  BY DEF Monitor!vars
<1> QED
  BY <1>1, <1>2, <1>3, <1>4, <1>5, <1>6, <1>7

\* A step that moves a ParkEvent leaves the outer lock alone.
LEMMA MovesKeep ==
  ASSUME TypeInv, NEW t \in Threads, Moves(t)
  PROVE  Kept
  BY DEF TypeInv, TypeOK, Moves, Kept, Holds, HoldPCs, Sneaked, AcquireOrPush,
     OnDeck_clear,
     WakeOne, Drain, Fill, Pass, notify_take, notify_push, notify_mark, IWait, IWait_add,
     IWait_remove, At, Goto, owning

\* If the outer lock stays with its holder, so does the abstract one.
LEMMA KeptHolder ==
  ASSUME LockByteHeld, LockByteHeld', Kept
  PROVE  Holder' = Holder
<1>1. CASE \E t \in Threads : Holds(t)
  BY <1>1, HolderIs, HolderIsNext DEF Kept
<1>2. CASE \A t \in Threads : ~Holds(t)
  BY <1>2, HolderIs, HolderIsNext DEF Kept
<1> QED
  BY <1>1, <1>2

\* A calm step takes the lock, drops it, or is invisible.
LEMMA CalmRefines ==
  ASSUME SneakDiscipline, TypeInv, LockInv, LockByteHeld', BaseInv, PlaceInv,
     LeavingInv,
         NEW t \in Threads, Internal(t) \/ External(t), ~Moves(t)
  PROVE  [Monitor!Next]_(Monitor!vars) /\ LeavingInv'
<1> USE DEF LockInv
<1>1. Calm(t)
  BY CalmActions
<1>2. \A x \in Threads : (Contends(x)' <=> Contends(x)) /\ (Waits(x)' <=> Waits(x))
  BY <1>1, CalmStep
<1>3. Waiters' = Waiters
  BY <1>2 DEF Waiters, Waits
<1>4. LeavingInv'
  BY <1>1, <1>2 DEF LeavingInv, Calm, PlaceInv, Place
<1>5. CASE Kept
  <2>1. Queue' = Queue
    BY <1>2, <1>5 DEF Queue, Kept
  <2> QED
    BY <1>3, <1>4, <1>5, <2>1, KeptHolder, AbstractSteps
<1>6. CASE Won(t)
  <2>1. (\A x \in Threads : ~Holds(x)) /\ Holds(t)'
    BY <1>6 DEF Won, LockByteHeld
  <2>2. Holder = NULL /\ Holder' = t
    BY <2>1, HolderIs, HolderIsNext
  <2>3. Queue' = Queue \ {t}
    BY <1>2, <1>6, <2>1 DEF Won, Queue
  <2>4. t \notin Waiters
    BY <1>6 DEF Won, Waiters, PlaceInv, Place
  <2>5. Monitor!Acquire(t)
    BY <1>3, <2>2, <2>3, <2>4, AbstractSteps
  <2> QED
    BY <1>4, <2>5 DEF Monitor!Next
<1>7. CASE Released(t)
  <2>1. Holder = t /\ Holder' = NULL
    BY <1>7, HolderIs, HolderIsNext DEF Released
  <2>2. Queue' = Queue
    BY <1>2, <1>7 DEF Released, Queue, LeavingInv, LockByteHeld
  <2>3. Monitor!Release(t)
    BY <1>3, <2>1, <2>2, AbstractSteps
  <2> QED
    BY <1>4, <2>3 DEF Monitor!Next
<1> QED
  BY <1>5, <1>6, <1>7, HeldActions

\* A step that moves a ParkEvent queues a thread, notifies, joins or leaves the
\* waiters, or is invisible.
LEMMA MovesRefines ==
  ASSUME TypeInv, LockInv, LockByteHeld', BaseInv, PlaceInv, LeavingInv,
         NEW t \in Threads, Moves(t)
  PROVE  [Monitor!Next]_(Monitor!vars) /\ LeavingInv'
<1> USE DEF LockInv
<1>1. Kept /\ Holder' = Holder
  BY MovesKeep, KeptHolder
<1>2. ASSUME \A x \in Threads : (Contends(x)' <=> Contends(x)) /\ (Waits(x)' <=> Waits(x)),
             pc' = [pc EXCEPT ![t] = pc'[t]], pc'[t] # "IUnlock"
      PROVE  [Monitor!Next]_(Monitor!vars) /\ LeavingInv'
  <2>1. Queue' = Queue /\ Waiters' = Waiters
    BY <1>1, <1>2 DEF Queue, Waiters, Waits, Kept
  <2>2. LeavingInv'
    BY <1>2 DEF LeavingInv, TypeInv, TypeOK
  <2> QED
    BY <1>1, <2>1, <2>2, AbstractSteps
<1>3. CASE WakeOne(t) \/ Drain(t) \/ Fill(t) \/ Pass(t)
  <2>1. pc' = [pc EXCEPT ![t] = pc'[t]] /\ pc'[t] # "IUnlock"
    BY <1>3 DEF WakeOne, Drain, Fill, Pass, Goto, TypeInv, TypeOK
  <2> QED
    BY <1>2, <1>3, <2>1, WakePlace, DrainPlace, FillPlace, PassPlace
<1>4. CASE notify_take(t) \/ notify_mark(t) \/ IWait(t)
  <2>1. pc' = [pc EXCEPT ![t] = pc'[t]] /\ pc'[t] # "IUnlock"
    BY <1>4 DEF notify_take, notify_mark, IWait, Goto, TypeInv, TypeOK
  <2> QED
    BY <1>2, <1>4, <2>1, TakePlace, MarkPlace, ClearNotifiedPlace
<1>5. CASE AcquireOrPush(t) /\ LockByte
  <2>1. \A x \in Threads : (Contends(x)' <=> x = t \/ Contends(x)) /\ (Waits(x)' <=> Waits(x))
    BY <1>5, PushPlace
  <2>2. pc[t] = "ILock_push" /\ pc' = [pc EXCEPT ![t] = pc'[t]] /\ pc'[t] # "IUnlock"
    BY <1>5 DEF AcquireOrPush, At, Goto, TypeInv, TypeOK
  <2>3. ~Linked(t) /\ ~InWait(t) /\ ~Holds(t)
    BY <2>2 DEF Linked, InWait, QueuedPCs, WaitPCs, Exiting, ExitPCs, InnerPCs, Holds,
       HoldPCs
  <2>4. ~Contends(t) /\ ~Waits(t)
    BY <2>3 DEF PlaceInv, Place, Waits
  <2>5. PICK h \in Threads : Holds(h) /\ h # t
    BY <1>5, <2>3 DEF LockByteHeld
  <2>6. Holder \notin {NULL, t}
    BY <2>5, HolderIs, ThreadsAssumption
  <2>7. Queue' = Queue \cup {t} /\ Waiters' = Waiters /\ t \notin Queue \cup Waiters
    BY <1>1, <2>1, <2>3, <2>4 DEF Queue, Waiters, Waits, Kept
  <2>8. Monitor!Contend(t)
    BY <1>1, <2>6, <2>7, AbstractSteps
  <2>9. LeavingInv'
    BY <2>1, <2>2 DEF LeavingInv, TypeInv, TypeOK
  <2> QED
    BY <2>8, <2>9 DEF Monitor!Next
<1>6. CASE OnDeck_clear(t)
  <2>1. \A x \in Threads : (Contends(x)' <=> Contends(x) /\ x # t) /\ (Waits(x)' <=> Waits(x))
    BY <1>6, ClearPlace
  <2>2. pc[t] = "OnDeck_clear" /\ pc' = [pc EXCEPT ![t] = pc'[t]] /\ pc'[t] # "IUnlock"
    BY <1>6 DEF OnDeck_clear, At, Goto, TypeInv, TypeOK
  <2>3. Holds(t)
    BY <2>2 DEF Holds, HoldPCs, Sneaked, SneakInv
  <2>4. Queue' = Queue /\ Waiters' = Waiters
    BY <1>1, <2>1, <2>3 DEF Queue, Waiters, Waits, Kept
  <2>5. LeavingInv'
    BY <2>1, <2>2 DEF LeavingInv, TypeInv, TypeOK
  <2> QED
    BY <1>1, <2>4, <2>5, AbstractSteps
<1>7. CASE notify_push(t)
  <2>1. /\ pc[t] = "notify_push" /\ pc' = [pc EXCEPT ![t] = pc'[t]] /\ pc'[t] # "IUnlock"
        /\ hand[t] \in Threads
    BY <1>7 DEF notify_push, At, Goto, TypeInv, TypeOK, HandOK, HandPCs
  <2>2. \A x \in Threads : /\ Contends(x)' <=> x = hand[t] \/ Contends(x)
                           /\ Waits(x)' <=> Waits(x) /\ x # hand[t]
    BY <1>7, NotifyPlace
  <2>3. Waits(hand[t])
    BY <2>1 DEF Waits, InNotify, At
  <2>4. Holds(t) /\ Holder = t
    BY <2>1, HolderIs DEF Holds, HoldPCs, Sneaked, SneakInv
  <2>5. ~Waits(t)
    BY <2>1 DEF PlaceInv, Place, Waits, InWait, WaitPCs, Exiting, ExitPCs, InnerPCs
  <2>6. ~Holds(hand[t]) /\ pc[hand[t]] # "IUnlock"
    <3>1. hand[t] # t
      BY <2>3, <2>5
    <3>2. ~Holds(hand[t])
      BY <2>1, <2>4, <3>1 DEF LockByteHeld
    <3> QED
      BY <2>1, <3>2 DEF Holds, HoldPCs, Sneaked, SneakInv
  <2>7. /\ Queue' = Queue \cup {hand[t]} /\ Waiters' = Waiters \ {hand[t]}
        /\ t \notin Waiters /\ hand[t] \in Waiters
    BY <1>1, <2>1, <2>2, <2>3, <2>5, <2>6 DEF Queue, Waiters, Waits, Kept
  <2>8. Monitor!Notify(t, hand[t])
    BY <1>1, <2>1, <2>4, <2>7, AbstractSteps
  <2>9. LeavingInv'
    BY <2>1, <2>2, <2>6 DEF LeavingInv, TypeInv, TypeOK
  <2> QED
    BY <2>1, <2>8, <2>9 DEF Monitor!Next
<1>8. CASE IWait_add(t)
  <2>1. \A x \in Threads : (Contends(x)' <=> Contends(x)) /\ (Waits(x)' <=> x = t \/ Waits(x))
    BY <1>8, WaitPlace
  <2>2. pc[t] = "IWait_add" /\ pc' = [pc EXCEPT ![t] = pc'[t]]
    BY <1>8 DEF IWait_add, At, Goto, TypeInv, TypeOK
  <2>3. ~Linked(t) /\ ~InWait(t)
    BY <2>2 DEF Linked, InWait, QueuedPCs, WaitPCs, Exiting, ExitPCs, InnerPCs
  <2>4. ~Contends(t) /\ ~Waits(t)
    BY <2>3 DEF PlaceInv, Place, Waits
  <2>5. Holds(t) /\ Holder = t
    BY <2>2, HolderIs DEF Holds, HoldPCs, Sneaked, SneakInv
  <2>6. Queue' = Queue /\ Waiters' = Waiters \cup {t} /\ t \notin Waiters
    BY <1>1, <2>1, <2>4 DEF Queue, Waiters, Waits, Kept
  <2>7. Monitor!Join(t)
    BY <1>1, <2>5, <2>6, AbstractSteps
  <2>8. LeavingInv'
    BY <2>1, <2>2, <2>4 DEF LeavingInv, TypeInv, TypeOK
  <2> QED
    BY <2>7, <2>8 DEF Monitor!Next
<1>9. CASE IWait_remove(t)
  <2>1. \A x \in Threads : (Contends(x)' <=> Contends(x)) /\ (Waits(x)' <=> Waits(x) /\ x # t)
    BY <1>9, UnlinkPlace
  <2>2. pc[t] = "IWait_remove" /\ pc' = [pc EXCEPT ![t] = pc'[t]] /\ pc'[t] # "IUnlock"
    BY <1>9 DEF IWait_remove, At, Goto, TypeInv, TypeOK
  <2>3. Waits(t)
    <3>1. ~InMark(t) /\ InWait(t)
      BY <1>9, ThreadsAssumption DEF IWait_remove, BaseInv, NotifyInv, InMark, At,
         InWait, WaitPCs
    <3> QED
      BY <1>9, <3>1 DEF IWait_remove, PlaceInv, Place, Waits
  <2>4. ~Holds(t)
    BY <2>2 DEF Holds, HoldPCs
  <2>5. Holder # t
    BY <2>4, HolderIs, ThreadsAssumption DEF Holder
  <2>6. Queue' = Queue /\ Waiters' = Waiters \ {t} /\ t \in Waiters
    BY <1>1, <2>1, <2>3 DEF Queue, Waiters, Waits, Kept
  <2>7. Monitor!Timeout(t)
    BY <1>1, <2>5, <2>6, AbstractSteps
  <2>8. LeavingInv'
    BY <2>1, <2>2 DEF LeavingInv, TypeInv, TypeOK
  <2> QED
    BY <2>7, <2>8 DEF Monitor!Next
<1> QED
  BY <1>3, <1>4, <1>5, <1>6, <1>7, <1>8, <1>9 DEF Moves

\* Nothing that a safepoint begins or ends is visible.
LEMMA SafepointRefines ==
  ASSUME LeavingInv, safepoint_begin \/ safepoint_end \/ UNCHANGED vars
  PROVE  [Monitor!Next]_(Monitor!vars) /\ LeavingInv'
<1>1. UNCHANGED <<cxq, EntryList, OnDeck, WaitSet, snuck, det, pc, hand>>
  BY DEF safepoint_begin, safepoint_end, vars, word, inner, waits, owning, locals
<1>2. Holder' = Holder /\ Queue' = Queue /\ Waiters' = Waiters /\ LeavingInv'
  BY <1>1 DEF Holder, Queue, Waiters, LeavingInv, Holds, Sneaked, Contends, OnCxq,
     Detached,
     OnEntryList, InPass, OnWaitSet, InNotify, At
<1>3. CASE Threads # {}
  BY <1>2, <1>3, AbstractSteps
<1>4. CASE Threads = {}
  BY <1>2, <1>4 DEF Monitor!vars, Holder, Queue, Waiters
<1> QED
  BY <1>2, <1>3, <1>4

\* The monitor implements AbstractMonitor, what mutex.hpp promises its clients.
THEOREM ImplementsMonitorCorrect ==
  ASSUME SneakDiscipline
  PROVE  Spec => ImplementsMonitor
<1>1. Init => Monitor!Init /\ LeavingInv
  <2> SUFFICES ASSUME Init PROVE Monitor!Init /\ LeavingInv
    OBVIOUS
  <2>1. \A t \in Threads : ~Holds(t) /\ pc[t] # "IUnlock"
    BY DEF Init, Holds, HoldPCs
  <2>2. \A t \in Threads : ~Linked(t) /\ ~InWait(t)
    BY DEF Init, Linked, InWait, QueuedPCs, WaitPCs, Exiting, ExitPCs, InnerPCs
  <2>3. \A t \in Threads : ~Contends(t) /\ ~Waits(t)
    BY <2>2, QueuesInit DEF PlaceInv, Place, Waits
  <2>4. Holder = NULL /\ Queue = {} /\ Waiters = {}
    BY <2>1, <2>3 DEF Holder, Queue, Waiters, Waits
  <2> QED
    BY <2>1, <2>4 DEF Monitor!Init, LeavingInv, Holder, Queue, Waiters
<1>2. /\ TypeInv /\ LockInv /\ BaseInv /\ PlaceInv /\ LeavingInv /\ [Next]_vars
      /\ LockInv'
      => [Monitor!Next]_(Monitor!vars) /\ LeavingInv'
  <2> SUFFICES ASSUME TypeInv, LockInv, LockInv', BaseInv, PlaceInv, LeavingInv, [Next]_vars
               PROVE  [Monitor!Next]_(Monitor!vars) /\ LeavingInv'
    OBVIOUS
  <2>1. LockByteHeld'
    BY DEF LockInv
  <2>2. ASSUME NEW t \in Threads, Internal(t) \/ External(t)
        PROVE  [Monitor!Next]_(Monitor!vars) /\ LeavingInv'
    BY <2>1, <2>2, CalmRefines, MovesRefines
  <2> QED
    BY <2>2, SafepointRefines DEF Next
<1> QED
  BY <1>1, <1>2, SuccessionInvariant, PTL DEF Spec, ImplementsMonitor, Monitor!Spec
=============================================================================
