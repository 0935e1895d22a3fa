--------------------------- MODULE NativeMonitor ---------------------------
(***************************************************************************)
(* The VM's own Mutex-Monitor, runtime/mutex.cpp and mutex.hpp: the lock    *)
(* byte colocated with the contention queue cxq, the inner lock _OnDeck,    *)
(* the EntryList, the WaitSet behind its WaitLock, and the VM thread        *)
(* "sneaking" past a lock at a safepoint.                                   *)
(*                                                                          *)
(* One action is one access to shared state.  A compare-and-swap that is    *)
(* retried until it either succeeds or sees a value that ends the loop is   *)
(* one action: its decisive iteration.  A thread stands for its             *)
(* _MutexEvent, as every list holds ParkEvents and each thread owns one.    *)
(* Memory is sequentially consistent: mutex.cpp fences each Dekker pair     *)
(* (OrderAccess::storeload, fence).                                         *)
(*                                                                          *)
(* A Java thread that calls jvm_raw_lock while it is in native code does    *)
(* not stop for a safepoint; here it is a thread outside JavaThreads.       *)
(***************************************************************************)
EXTENDS Naturals, Sequences, FiniteSets

CONSTANTS
  Threads,              \* the threads that use this monitor
  JavaThreads,          \* those that take part in safepoints (is_Java_thread)
  VMThreads,            \* {} or the singleton VM thread (is_VM_thread)
  Calls,                \* Calls[t]: the operations thread t performs
  NativeMonitorFlags,   \* the bits of -XX:NativeMonitorFlags that are set
  NativeMonitorTimeout, \* -XX:NativeMonitorTimeout > 0
  NULL, LBIT            \* _OnDeck = NULL, and _OnDeck "transiently locked"

Locking == {"lock", "lock_without_safepoint_check", "jvm_raw_lock"}
Waiting == {"wait", "timedwait", "suspendwait"}
Notifying == {"notify", "notify_all"}
Ops == Locking \cup Waiting \cup Notifying \cup {"try_lock"}

ASSUME ThreadsAssumption ==
  /\ JavaThreads \subseteq Threads
  /\ VMThreads \subseteq Threads \ JavaThreads
  /\ \A t, u \in VMThreads : t = u
  /\ NULL \notin Threads /\ LBIT \notin Threads /\ NULL # LBIT

ASSUME CallsAssumption == Calls \in [Threads -> SUBSET Ops]

ASSUME FlagsAssumption ==
  NativeMonitorFlags \subseteq {1, 16} /\ NativeMonitorTimeout \in BOOLEAN

VARIABLES
  LockByte,   \* _LockWord.Bytes[_LSBINDEX] # 0
  cxq,        \* _LockWord & ~_LBIT: recently arrived threads, newest first
  EntryList,
  OnDeck,
  WaitSet,
  WaitLock,   \* _WaitLock: NULL or its holder
  owner,      \* _owner
  snuck,      \* _snuck
  event,      \* event[t]: t's _MutexEvent holds a permit
  Notified,   \* Notified[t]: t's _MutexEvent->Notified
  safepoint,  \* SafepointSynchronize::is_at_safepoint()
  pc,         \* where t is in mutex.cpp
  call,       \* the operation t is executing
  tbivm,      \* t is inside a ThreadBlockInVM region
  hand,       \* the ParkEvent t has in a local variable (w, nfy)
  det         \* the cxq segment t has detached (List)

word   == <<LockByte, cxq>>
inner  == <<EntryList, OnDeck>>
waits  == <<WaitSet, WaitLock, Notified>>
owning == <<owner, snuck>>
locals == <<call, tbivm, hand, det>>
vars   == <<LockByte, cxq, EntryList, OnDeck, WaitSet, WaitLock, owner, snuck,
            event, Notified, safepoint, pc, call, tbivm, hand, det>>

PCs == {"idle", "contended", "TrySpin", "try_sneak", "ILock",
        "ILock_reset", "ILock_push", "ILock_wait", "ILock_park",
        "OnDeck_LOOP", "OnDeck_park", "OnDeck_clear", "Reenter",
        "Reenter_spin", "Reenter_park", "acquired", "crit", "unlock_snuck",
        "IUnlock", "IUnlock_ondeck", "IUnlock_word", "IUnlock_list",
        "Succession", "WakeOne", "Drain", "Fill", "Pass", "Pass_word",
        "unpark", "Punt", "Resample", "IWait", "IWait_add", "IWait_loop",
        "IWait_park", "IWait_check", "IWait_remove", "suspended",
        "notify_take", "notify_push", "notify_mark", "notify_unpark"}

TypeOK ==
  /\ LockByte \in BOOLEAN /\ snuck \in BOOLEAN /\ safepoint \in BOOLEAN
  /\ cxq \in Seq(Threads) /\ EntryList \in Seq(Threads)
  /\ WaitSet \in Seq(Threads)
  /\ OnDeck \in Threads \cup {NULL, LBIT}
  /\ WaitLock \in Threads \cup {NULL}
  /\ owner \in Threads \cup {NULL}
  /\ event \in [Threads -> BOOLEAN] /\ Notified \in [Threads -> BOOLEAN]
  /\ pc \in [Threads -> PCs]
  /\ call \in [Threads -> Ops \cup {"none", "unlock", "suspend"}]
  /\ tbivm \in [Threads -> BOOLEAN]
  /\ hand \in [Threads -> Threads \cup {NULL}]
  /\ det \in [Threads -> Seq(Threads)]

\* Monitor::ClearMonitor, with every thread outside the monitor.
Init ==
  /\ LockByte = FALSE /\ cxq = <<>> /\ EntryList = <<>> /\ OnDeck = NULL
  /\ WaitSet = <<>> /\ WaitLock = NULL /\ owner = NULL /\ snuck = FALSE
  /\ event = [t \in Threads |-> FALSE]
  /\ Notified = [t \in Threads |-> FALSE]
  /\ safepoint = FALSE
  /\ pc = [t \in Threads |-> "idle"]
  /\ call = [t \in Threads |-> "none"]
  /\ tbivm = [t \in Threads |-> FALSE]
  /\ hand = [t \in Threads |-> NULL]
  /\ det = [t \in Threads |-> <<>>]

At(t, l) == pc[t] = l
Goto(t, l) == pc' = [pc EXCEPT ![t] = l]

\* TryLock, TryFast and TrySpin: take the lock byte if a probe finds it clear,
\* else give up.  A probe that fails and is followed by another is a stutter.
TryLock(t, won, lost) ==
  /\ LockByte' = TRUE
  /\ cxq' = cxq
  /\ Goto(t, IF LockByte THEN lost ELSE won)

\* ParkCommon(ESelf, 0): consume the permit, or return on NativeMonitorTimeout.
ParkCommon(t) ==
  /\ event[t] \/ NativeMonitorTimeout
  /\ event' = [event EXCEPT ![t] = FALSE]

-----------------------------------------------------------------------------
(* Monitor::ILock *)

ILock(t) ==
  /\ At(t, "ILock")
  /\ TryLock(t, "acquired", "ILock_reset")
  /\ UNCHANGED <<inner, waits, owning, event, safepoint, locals>>

ILock_reset(t) ==
  /\ At(t, "ILock_reset")
  /\ event' = [event EXCEPT ![t] = FALSE]
  /\ Goto(t, "ILock_push")
  /\ UNCHANGED <<word, inner, waits, owning, safepoint, locals>>

\* Acquire the lock byte, or push Self onto cxq, in one CAS on the LockWord.
AcquireOrPush(t) ==
  /\ At(t, "ILock_push")
  /\ LockByte' = TRUE
  /\ cxq' = IF LockByte THEN <<t>> \o cxq ELSE cxq
  /\ Goto(t, IF ~LockByte THEN "acquired"
             ELSE IF call[t] = "jvm_raw_lock" THEN "Reenter" ELSE "ILock_wait")
  /\ UNCHANGED <<inner, waits, owning, event, safepoint, locals>>

\* while (_OnDeck != ESelf) ParkCommon (ESelf, 0)
ILock_wait(t) ==
  /\ At(t, "ILock_wait")
  /\ Goto(t, IF OnDeck = t THEN "OnDeck_LOOP" ELSE "ILock_park")
  /\ UNCHANGED <<word, inner, waits, owning, event, safepoint, locals>>

ILock_park(t) ==
  /\ At(t, "ILock_park")
  /\ ParkCommon(t)
  /\ Goto(t, "ILock_wait")
  /\ UNCHANGED <<word, inner, waits, owning, safepoint, locals>>

OnDeck_LOOP(t) ==
  /\ At(t, "OnDeck_LOOP")
  /\ TryLock(t, "OnDeck_clear", "OnDeck_park")
  /\ UNCHANGED <<inner, waits, owning, event, safepoint, locals>>

OnDeck_park(t) ==
  /\ At(t, "OnDeck_park")
  /\ ParkCommon(t)
  /\ Goto(t, "OnDeck_LOOP")
  /\ UNCHANGED <<word, inner, waits, owning, safepoint, locals>>

OnDeck_clear(t) ==
  /\ At(t, "OnDeck_clear")
  /\ OnDeck' = NULL
  /\ Goto(t, "acquired")
  /\ UNCHANGED <<word, EntryList, waits, owning, event, safepoint, locals>>

-----------------------------------------------------------------------------
(* Monitor::IUnlock.  It returns to unlock(), which returns; to IWait, which  *)
(* goes on to block; or to a suspended wait(), which blocks in               *)
(* java_suspend_self.                                                        *)

ReturnTo(t) ==
  IF call[t] = "unlock" THEN "idle"
  ELSE IF call[t] = "suspend" THEN "suspended" ELSE "IWait_loop"

\* Drop the outer lock.
IUnlock(t) ==
  /\ At(t, "IUnlock")
  /\ LockByte' = FALSE
  /\ Goto(t, "IUnlock_ondeck")
  /\ UNCHANGED <<cxq, inner, waits, owning, event, safepoint, locals>>

\* Somebody is OnDeck: remember it for unpark.
IUnlock_heir(t) ==
  /\ At(t, "IUnlock_ondeck")
  /\ OnDeck \in Threads
  /\ hand' = [hand EXCEPT ![t] = OnDeck]
  /\ Goto(t, "unpark")
  /\ UNCHANGED <<word, inner, waits, owning, event, safepoint, call, tbivm,
                 det>>

\* Some other thread holds the inner lock, and succession is its business; or
\* nobody does, and this thread looks for a successor.
IUnlock_noheir(t) ==
  /\ At(t, "IUnlock_ondeck")
  /\ OnDeck \notin Threads
  /\ Goto(t, IF OnDeck = LBIT THEN ReturnTo(t) ELSE "IUnlock_word")
  /\ UNCHANGED <<word, inner, waits, owning, event, safepoint, locals>>

\* w may be stale by now: its thread may have acquired the lock meanwhile.
unpark(t) ==
  /\ At(t, "unpark")
  /\ event' = [event EXCEPT ![hand[t]] = TRUE]
  /\ hand' = [hand EXCEPT ![t] = NULL]
  /\ Goto(t, ReturnTo(t))
  /\ UNCHANGED <<word, inner, waits, owning, safepoint, call, tbivm, det>>

\* cxq is fetched first and EntryList after it; a locked word ends the exit.
IUnlock_word(t) ==
  /\ At(t, "IUnlock_word")
  /\ Goto(t, IF LockByte THEN ReturnTo(t)
             ELSE IF cxq = <<>> THEN "IUnlock_list" ELSE "Succession")
  /\ UNCHANGED <<word, inner, waits, owning, event, safepoint, locals>>

IUnlock_list(t) ==
  /\ At(t, "IUnlock_list")
  /\ Goto(t, IF EntryList = <<>> THEN ReturnTo(t) ELSE "Succession")
  /\ UNCHANGED <<word, inner, waits, owning, event, safepoint, locals>>

\* CAS _OnDeck from NULL to _LBIT.
Succession(t) ==
  /\ At(t, "Succession")
  /\ OnDeck' = IF OnDeck = NULL THEN LBIT ELSE OnDeck
  /\ Goto(t, IF OnDeck = NULL THEN "WakeOne" ELSE ReturnTo(t))
  /\ UNCHANGED <<word, EntryList, waits, owning, event, safepoint, locals>>

\* Unlink the head of the EntryList.
WakeOne(t) ==
  /\ At(t, "WakeOne")
  /\ EntryList # <<>>
  /\ hand' = [hand EXCEPT ![t] = Head(EntryList)]
  /\ EntryList' = Tail(EntryList)
  /\ Goto(t, "Pass")
  /\ UNCHANGED <<word, OnDeck, waits, owning, event, safepoint, call, tbivm,
                 det>>

\* The EntryList is empty: look at cxq.
WakeNone(t) ==
  /\ At(t, "WakeOne")
  /\ EntryList = <<>>
  /\ Goto(t, "Drain")
  /\ UNCHANGED <<word, inner, waits, owning, event, safepoint, locals>>

\* Variant: the inner lock is released before the segment is on the EntryList.
Drain_early(t) ==
  /\ At(t, "Drain")
  /\ cxq # <<>> /\ ~LockByte
  /\ det' = [det EXCEPT ![t] = cxq]
  /\ cxq' = <<>>
  /\ OnDeck' = NULL
  /\ Goto(t, "Fill")
  /\ UNCHANGED <<LockByte, EntryList, waits, owning, event, safepoint, call,
                 tbivm, hand>>

\* Detach the whole cxq with one CAS ...
Drain(t) ==
  /\ At(t, "Drain")
  /\ cxq # <<>> /\ ~LockByte
  /\ det' = [det EXCEPT ![t] = cxq]
  /\ cxq' = <<>>
  /\ Goto(t, "Fill")
  /\ UNCHANGED <<LockByte, inner, waits, owning, event, safepoint, call, tbivm,
                 hand>>

\* ... unless it is empty or the lock is held.
Drain_punt(t) ==
  /\ At(t, "Drain")
  /\ cxq = <<>> \/ LockByte
  /\ Goto(t, "Punt")
  /\ UNCHANGED <<word, inner, waits, owning, event, safepoint, locals>>

Fill(t) ==
  /\ At(t, "Fill")
  /\ EntryList' = det[t]
  /\ det' = [det EXCEPT ![t] = <<>>]
  /\ Goto(t, "WakeOne")
  /\ UNCHANGED <<word, OnDeck, waits, owning, event, safepoint, call, tbivm,
                 hand>>

\* _OnDeck = w
Pass(t) ==
  /\ At(t, "Pass")
  /\ OnDeck' = hand[t]
  /\ Goto(t, "Pass_word")
  /\ UNCHANGED <<word, EntryList, waits, owning, event, safepoint, locals>>

\* Variant: the unpark is always left to somebody else.
Pass_word_noUnpark(t) ==
  /\ At(t, "Pass_word")
  /\ hand' = [hand EXCEPT ![t] = NULL]
  /\ Goto(t, ReturnTo(t))
  /\ UNCHANGED <<word, inner, waits, owning, event, safepoint, call, tbivm,
                 det>>

\* Leave the unpark of w to whoever has taken the lock in the meantime.
Pass_word(t) ==
  /\ At(t, "Pass_word")
  /\ hand' = [hand EXCEPT ![t] = IF LockByte THEN NULL ELSE @]
  /\ Goto(t, IF LockByte THEN ReturnTo(t) ELSE "unpark")
  /\ UNCHANGED <<word, inner, waits, owning, event, safepoint, call, tbivm,
                 det>>

Punt(t) ==
  /\ At(t, "Punt")
  /\ OnDeck' = NULL
  /\ Goto(t, "Resample")
  /\ UNCHANGED <<word, EntryList, waits, owning, event, safepoint, locals>>

\* Variant: the Punt path returns without looking at the LockWord again.
Resample_none(t) ==
  /\ At(t, "Resample")
  /\ Goto(t, ReturnTo(t))
  /\ UNCHANGED <<word, inner, waits, owning, event, safepoint, locals>>

\* Resample the LockWord to recover from a push this thread's tenure hid.
Resample(t) ==
  /\ At(t, "Resample")
  /\ Goto(t, IF cxq # <<>> /\ ~LockByte THEN "Succession" ELSE ReturnTo(t))
  /\ UNCHANGED <<word, inner, waits, owning, event, safepoint, locals>>

-----------------------------------------------------------------------------
(* Monitor::notify and notify_all.  With an empty WaitSet both return at once *)
(* and change nothing.  Monitor::muxAcquire on _WaitLock is atomic here.      *)

notify(t) ==
  /\ At(t, "crit")
  /\ \E op \in Notifying \cap Calls[t] : call' = [call EXCEPT ![t] = op]
  /\ WaitSet # <<>>
  /\ Goto(t, "notify_take")
  /\ UNCHANGED <<word, inner, waits, owning, event, safepoint, tbivm, hand,
                 det>>

\* Under the WaitLock: unlink the head ...
notify_take(t) ==
  /\ At(t, "notify_take")
  /\ WaitLock = NULL /\ WaitSet # <<>>
  /\ hand' = [hand EXCEPT ![t] = Head(WaitSet)]
  /\ WaitSet' = Tail(WaitSet)
  /\ WaitLock' = t
  /\ Goto(t, "notify_push")
  /\ UNCHANGED <<word, inner, Notified, owning, event, safepoint, call, tbivm,
                 det>>

\* ... unless a timed-out waiter emptied the WaitSet since it was tested.
notify_none(t) ==
  /\ At(t, "notify_take")
  /\ WaitLock = NULL /\ WaitSet = <<>>
  /\ call' = [call EXCEPT ![t] = "none"]
  /\ Goto(t, "crit")
  /\ UNCHANGED <<word, inner, waits, owning, event, safepoint, tbivm, hand,
                 det>>

\* CAS UNS(nfy)|_LBIT into the LockWord: this sets the lock byte as well.
notify_push(t) ==
  /\ At(t, "notify_push")
  /\ cxq' = <<hand[t]>> \o cxq
  /\ LockByte' = TRUE
  /\ Goto(t, "notify_mark")
  /\ UNCHANGED <<inner, waits, owning, event, safepoint, locals>>

\* Notified = 1 and the release of the WaitLock, which nothing can separate:
\* whoever waits for the WaitLock reads Notified after it is released.
notify_mark(t) ==
  /\ At(t, "notify_mark")
  /\ Notified' = [Notified EXCEPT ![hand[t]] = TRUE]
  /\ WaitLock' = NULL
  /\ Goto(t, "notify_unpark")
  /\ UNCHANGED <<word, inner, WaitSet, owning, event, safepoint, locals>>

\* The optional unpark, and the end of notify(): notify_all() goes on while the
\* WaitSet is not empty.
notify_unpark(t) ==
  LET more == call[t] = "notify_all" /\ WaitSet # <<>>
  IN  /\ At(t, "notify_unpark")
      /\ event' = [event EXCEPT ![hand[t]] = @ \/ 16 \in NativeMonitorFlags]
      /\ hand' = [hand EXCEPT ![t] = NULL]
      /\ call' = [call EXCEPT ![t] = IF more THEN "notify_all" ELSE "none"]
      /\ Goto(t, IF more THEN "notify_take" ELSE "crit")
      /\ UNCHANGED <<word, inner, waits, owning, safepoint, tbivm, det>>

-----------------------------------------------------------------------------
(* Monitor::wait and IWait *)

\* Abdicate ownership; a safepoint-checking wait, which only a Java thread may
\* do and as_suspend_equivalent requires, opens a ThreadBlockInVM region.
wait(t) ==
  /\ At(t, "crit")
  /\ \E op \in Waiting \cap Calls[t], checked \in BOOLEAN :
        /\ checked => t \in JavaThreads
        /\ op = "suspendwait" => checked
        /\ call' = [call EXCEPT ![t] = op]
        /\ tbivm' = [tbivm EXCEPT ![t] = checked]
  /\ owner' = NULL
  /\ Goto(t, "IWait")
  /\ UNCHANGED <<word, inner, waits, snuck, event, safepoint, hand, det>>

\* Variant: Notified is left over from an earlier wait.
IWait_stale(t) ==
  /\ At(t, "IWait")
  /\ event' = [event EXCEPT ![t] = FALSE]
  /\ Goto(t, "IWait_add")
  /\ UNCHANGED <<word, inner, waits, owning, safepoint, locals>>

IWait(t) ==
  /\ At(t, "IWait")
  /\ Notified' = [Notified EXCEPT ![t] = FALSE]
  /\ event' = [event EXCEPT ![t] = FALSE]
  /\ Goto(t, "IWait_add")
  /\ UNCHANGED <<word, inner, WaitSet, WaitLock, owning, safepoint, locals>>

IWait_add(t) ==
  /\ At(t, "IWait_add")
  /\ WaitLock = NULL
  /\ WaitSet' = <<t>> \o WaitSet
  /\ Goto(t, "IUnlock")
  /\ UNCHANGED <<word, inner, WaitLock, Notified, owning, event, safepoint,
                 locals>>

IWait_loop(t) ==
  /\ At(t, "IWait_loop")
  /\ Goto(t, IF Notified[t] THEN "Reenter" ELSE "IWait_park")
  /\ UNCHANGED <<word, inner, waits, owning, event, safepoint, locals>>

\* ParkCommon (ESelf, timo), woken by an unpark ...
IWait_park(t) ==
  /\ At(t, "IWait_park")
  /\ event[t]
  /\ event' = [event EXCEPT ![t] = FALSE]
  /\ Goto(t, IF 1 \in NativeMonitorFlags THEN "IWait_check" ELSE "IWait_loop")
  /\ UNCHANGED <<word, inner, waits, owning, safepoint, locals>>

\* ... or timed out.  The timed park ends by clearing the event, so an unpark
\* that comes just then is absorbed.
IWait_timeout(t) ==
  /\ At(t, "IWait_park")
  /\ call[t] = "timedwait" \/ NativeMonitorTimeout
  /\ event' = [event EXCEPT ![t] = FALSE]
  /\ Goto(t, "IWait_check")
  /\ UNCHANGED <<word, inner, waits, owning, safepoint, locals>>

\* Variant: a waiter that timed out contends without dequeuing itself.
IWait_check_noDequeue(t) ==
  /\ At(t, "IWait_check")
  /\ Goto(t, IF Notified[t] THEN "Reenter" ELSE "ILock")
  /\ UNCHANGED <<word, inner, waits, owning, event, safepoint, locals>>

IWait_check(t) ==
  /\ At(t, "IWait_check")
  /\ Goto(t, IF Notified[t] THEN "Reenter" ELSE "IWait_remove")
  /\ UNCHANGED <<word, inner, waits, owning, event, safepoint, locals>>

\* The list s without its element t: q->ListNext = p->ListNext.
Unlink(s, t) ==
  LET k == CHOOSE i \in 1..Len(s) : s[i] = t
  IN  [i \in 1..(Len(s) - 1) |-> IF i < k THEN s[i] ELSE s[i + 1]]

\* Variant: the timed-out waiter stays linked on the WaitSet.
IWait_remove_linked(t) ==
  /\ At(t, "IWait_remove")
  /\ WaitLock = NULL /\ ~Notified[t]
  /\ Goto(t, "ILock")
  /\ UNCHANGED <<word, inner, waits, owning, event, safepoint, locals>>

\* Under the WaitLock, Notified is tested again: a waiter that timed out unlinks
\* itself and contends like a newcomer ...
IWait_remove(t) ==
  /\ At(t, "IWait_remove")
  /\ WaitLock = NULL /\ ~Notified[t]
  /\ WaitSet' = Unlink(WaitSet, t)
  /\ Goto(t, "ILock")
  /\ UNCHANGED <<word, inner, WaitLock, Notified, owning, event, safepoint,
                 locals>>

\* ... and one that was notified just in time is already queued.
IWait_recheck(t) ==
  /\ At(t, "IWait_remove")
  /\ WaitLock = NULL /\ Notified[t]
  /\ Goto(t, "Reenter")
  /\ UNCHANGED <<word, inner, waits, owning, event, safepoint, locals>>

\* for (;;) { if (_OnDeck == ESelf && TrySpin(Self)) break; ParkCommon; }
Reenter(t) ==
  /\ At(t, "Reenter")
  /\ Goto(t, IF OnDeck = t THEN "Reenter_spin" ELSE "Reenter_park")
  /\ UNCHANGED <<word, inner, waits, owning, event, safepoint, locals>>

Reenter_spin(t) ==
  /\ At(t, "Reenter_spin")
  /\ TryLock(t, "OnDeck_clear", "Reenter_park")
  /\ UNCHANGED <<inner, waits, owning, event, safepoint, locals>>

Reenter_park(t) ==
  /\ At(t, "Reenter_park")
  /\ ParkCommon(t)
  /\ Goto(t, "Reenter")
  /\ UNCHANGED <<word, inner, waits, owning, safepoint, locals>>

\* handle_special_suspend_equivalent_condition() found the waiter suspended:
\* it gives the lock back, still inside its ThreadBlockInVM region ...
wait_suspended(t) ==
  /\ At(t, "acquired") /\ call[t] = "suspendwait"
  /\ call' = [call EXCEPT ![t] = "suspend"]
  /\ Goto(t, "IUnlock")
  /\ UNCHANGED <<word, inner, waits, owning, event, safepoint, tbivm, hand,
                 det>>

\* ... and takes it again once it is resumed.
wait_resumed(t) ==
  /\ At(t, "suspended")
  /\ call' = [call EXCEPT ![t] = "lock"]
  /\ Goto(t, "ILock")
  /\ UNCHANGED <<word, inner, waits, owning, event, safepoint, tbivm, hand,
                 det>>

-----------------------------------------------------------------------------
(* Monitor::lock, lock_without_safepoint_check, jvm_raw_lock, try_lock, unlock *)

\* A Java thread outside a ThreadBlockInVM region does not run at a safepoint.
Start(t, op) ==
  /\ At(t, "idle")
  /\ op \in Calls[t]
  /\ t \in JavaThreads => ~safepoint
  /\ call' = [call EXCEPT ![t] = op]
  /\ UNCHANGED <<inner, waits, event, safepoint, tbivm, hand, det>>

lock(t) ==
  /\ Start(t, "lock")
  /\ TryLock(t, "acquired", "contended")
  /\ UNCHANGED owning

\* can_sneak && _owner == NULL
CanSneak(t) == t \in VMThreads /\ safepoint /\ owner = NULL

\* Pretend to have locked a lock that its holder has not entered.
lock_sneak(t) ==
  /\ At(t, "contended")
  /\ snuck' = (snuck \/ CanSneak(t))
  /\ Goto(t, IF CanSneak(t) THEN "acquired" ELSE "TrySpin")
  /\ UNCHANGED <<word, inner, waits, owner, event, safepoint, locals>>

lock_spin(t) ==
  /\ At(t, "TrySpin")
  /\ TryLock(t, "acquired", "ILock")
  /\ tbivm' = [tbivm EXCEPT ![t] = LockByte /\ t \in JavaThreads]
  /\ UNCHANGED <<inner, waits, owning, event, safepoint, call, hand, det>>

lock_without_safepoint_check(t) ==
  /\ Start(t, "lock_without_safepoint_check")
  /\ Goto(t, "ILock")
  /\ UNCHANGED <<word, owning>>

jvm_raw_lock(t) ==
  /\ Start(t, "jvm_raw_lock")
  /\ TryLock(t, "acquired", "ILock_reset")
  /\ UNCHANGED owning

\* Variant: the ThreadBlockInVM destructor does not stop for a safepoint.
Exeunt_unblocked(t) ==
  /\ At(t, "acquired")
  /\ owner' = t
  /\ tbivm' = [tbivm EXCEPT ![t] = FALSE]
  /\ call' = [call EXCEPT ![t] = "none"]
  /\ Goto(t, "crit")
  /\ UNCHANGED <<word, inner, waits, snuck, event, safepoint, hand, det>>

\* The end of lock() and of wait(): leave the ThreadBlockInVM region, which
\* blocks while a safepoint is in progress, and set_owner (Self).  No safepoint
\* begins between the two, as the thread is back in the VM.
Exeunt(t) ==
  /\ At(t, "acquired")
  /\ tbivm[t] => ~safepoint
  /\ owner' = t
  /\ tbivm' = [tbivm EXCEPT ![t] = FALSE]
  /\ call' = [call EXCEPT ![t] = "none"]
  /\ Goto(t, "crit")
  /\ UNCHANGED <<word, inner, waits, snuck, event, safepoint, hand, det>>

\* A try_lock that returns false changes nothing.
try_lock(t) ==
  /\ Start(t, "try_lock")
  /\ ~CanSneak(t) /\ ~LockByte
  /\ TryLock(t, "acquired", "idle")
  /\ UNCHANGED owning

\* The VM thread tests for sneaking before it tries the lock byte.
try_lock_sneak(t) ==
  /\ Start(t, "try_lock")
  /\ CanSneak(t)
  /\ Goto(t, "try_sneak")
  /\ UNCHANGED <<word, owning>>

try_sneak(t) ==
  /\ At(t, "try_sneak")
  /\ owner' = t
  /\ snuck' = TRUE
  /\ call' = [call EXCEPT ![t] = "none"]
  /\ Goto(t, "crit")
  /\ UNCHANGED <<word, inner, waits, event, safepoint, tbivm, hand, det>>

\* unlock() and jvm_raw_unlock()
unlock(t) ==
  /\ At(t, "crit")
  /\ owner' = NULL
  /\ call' = [call EXCEPT ![t] = "unlock"]
  /\ Goto(t, "unlock_snuck")
  /\ UNCHANGED <<word, inner, waits, snuck, event, safepoint, tbivm, hand,
                 det>>

\* Variant: unlock() after sneaking drops the lock byte of the real holder.
unlock_snuck_drop(t) ==
  /\ At(t, "unlock_snuck")
  /\ snuck' = FALSE
  /\ Goto(t, "IUnlock")
  /\ UNCHANGED <<word, inner, waits, owner, event, safepoint, locals>>

unlock_snuck(t) ==
  /\ At(t, "unlock_snuck")
  /\ snuck' = FALSE
  /\ Goto(t, IF snuck THEN "idle" ELSE "IUnlock")
  /\ UNCHANGED <<word, inner, waits, owner, event, safepoint, locals>>

-----------------------------------------------------------------------------
(* SafepointSynchronize, as far as this monitor sees it: a safepoint is       *)
(* reached when every Java thread is blocked in the VM or outside any monitor *)
(* the VM thread uses (Thread::check_for_valid_safepoint_state), and begins   *)
(* and ends in the VM thread while it holds no such monitor.                  *)

safepoint_begin ==
  /\ ~safepoint
  /\ VMThreads # {}
  /\ \A t \in VMThreads : At(t, "idle")
  /\ \A t \in JavaThreads : At(t, "idle") \/ tbivm[t]
  /\ safepoint' = TRUE
  /\ UNCHANGED <<word, inner, waits, owning, event, pc, locals>>

safepoint_end ==
  /\ safepoint
  /\ \A t \in VMThreads : At(t, "idle")
  /\ safepoint' = FALSE
  /\ UNCHANGED <<word, inner, waits, owning, event, pc, locals>>

-----------------------------------------------------------------------------
\* A step of an operation that is under way.
Internal(t) ==
  \/ ILock(t) \/ ILock_reset(t) \/ AcquireOrPush(t) \/ ILock_wait(t)
  \/ ILock_park(t) \/ OnDeck_LOOP(t) \/ OnDeck_park(t) \/ OnDeck_clear(t)
  \/ IUnlock(t) \/ IUnlock_heir(t) \/ IUnlock_noheir(t) \/ unpark(t)
  \/ IUnlock_word(t) \/ IUnlock_list(t) \/ Succession(t) \/ WakeOne(t)
  \/ WakeNone(t) \/ Drain(t) \/ Drain_punt(t) \/ Fill(t)
  \/ Pass(t) \/ Pass_word(t) \/ Punt(t) \/ Resample(t)
  \/ notify_take(t) \/ notify_none(t) \/ notify_push(t) \/ notify_mark(t)
  \/ notify_unpark(t)
  \/ IWait(t) \/ IWait_add(t) \/ IWait_loop(t) \/ IWait_park(t)
  \/ IWait_timeout(t) \/ IWait_check(t) \/ IWait_remove(t)
  \/ IWait_recheck(t) \/ Reenter(t) \/ Reenter_spin(t)
  \/ Reenter_park(t) \/ wait_suspended(t) \/ lock_sneak(t) \/ lock_spin(t)
  \/ Exeunt(t) \/ try_sneak(t) \/ unlock_snuck(t)

\* A step that starts an operation, or that another thread decides on.
External(t) ==
  \/ lock(t) \/ lock_without_safepoint_check(t) \/ jvm_raw_lock(t)
  \/ try_lock(t) \/ try_lock_sneak(t) \/ notify(t) \/ wait(t) \/ unlock(t) \/ wait_resumed(t)

Next ==
  \/ \E t \in Threads : Internal(t) \/ External(t)
  \/ safepoint_begin
  \/ safepoint_end

Spec == Init /\ [][Next]_vars

\* Every thread that is inside an operation is scheduled, a critical section
\* ends, and a safepoint ends.  No thread has to start an operation.
Fairness ==
  /\ \A t \in Threads : WF_vars(Internal(t)) /\ WF_vars(unlock(t))
  /\ WF_vars(safepoint_end)

FairSpec == Spec /\ Fairness

-----------------------------------------------------------------------------
(* Who holds what *)

\* Where a thread has the lock byte, unless it sneaked past it.
HoldPCs == {"acquired", "crit", "unlock_snuck", "IUnlock", "IWait",
            "IWait_add", "OnDeck_clear", "notify_take", "notify_push",
            "notify_mark", "notify_unpark"}

\* Where a thread is in the critical section, as its callers understand it.
CritPCs == {"crit", "notify_take", "notify_push", "notify_mark",
            "notify_unpark"}

\* Where a thread holds the inner lock, _OnDeck = _LBIT.
InnerPCs == {"WakeOne", "Drain", "Fill", "Pass", "Punt"}

\* Where a thread has dropped the outer lock and has not returned from IUnlock.
ExitPCs == InnerPCs \cup {"IUnlock_ondeck", "IUnlock_word", "IUnlock_list",
                          "Succession", "Pass_word", "unpark", "Resample"}

ParkPCs == {"ILock_park", "OnDeck_park", "Reenter_park", "IWait_park"}

Sneaked(t) == snuck /\ t \in VMThreads
Holds(t) == pc[t] \in HoldPCs /\ ~Sneaked(t)

On(s, t) == \E i \in 1..Len(s) : s[i] = t
NoDuplicates(s) == \A i, j \in 1..Len(s) : s[i] = s[j] => i = j

\* The places a thread's ParkEvent can be in: the lists, the local variable of
\* a thread that has unlinked it and not yet put it elsewhere, and _OnDeck.
OnWaitSet(t) == On(WaitSet, t)
InNotify(t) == \E u \in Threads : At(u, "notify_push") /\ hand[u] = t
OnCxq(t) == On(cxq, t)
Detached(t) == \E u \in Threads : On(det[u], t)
OnEntryList(t) == On(EntryList, t)
InPass(t) == \E u \in Threads : At(u, "Pass") /\ hand[u] = t
Contends(t) == OnCxq(t) \/ Detached(t) \/ OnEntryList(t) \/ InPass(t)
                 \/ OnDeck = t

\* Who may meet a VM thread that uses lock() or try_lock(): threads that stop
\* at a safepoint, and no notification by the VM thread.
SneakDiscipline ==
  \A v \in VMThreads : Calls[v] \cap {"lock", "try_lock"} # {} =>
    /\ Threads \ VMThreads \subseteq JavaThreads
    /\ Calls[v] \cap (Waiting \cup Notifying) = {}

-----------------------------------------------------------------------------
(* Properties *)

\* The lock byte is set exactly while some thread holds the outer lock, and one
\* thread at most holds it (TryLock, AcquireOrPush, IUnlock).
LockByteHeld ==
  /\ \A t, u \in Threads : Holds(t) /\ Holds(u) => t = u
  /\ LockByte <=> \E t \in Threads : Holds(t)

\* No two threads are between lock() and unlock() or wait(), the VM thread that
\* sneaked past the lock byte included, and _owner names the one that is.
MutualExclusion ==
  \A t \in Threads : pc[t] \in CritPCs <=> owner = t

\* "a thread appears on at most one list" at a time, and one that blocks on the
\* monitor is on exactly one: no interleaving of push, detach, refill, notify
\* and timeout loses or duplicates a ParkEvent.
OnExactlyOneList ==
  /\ NoDuplicates(cxq) /\ NoDuplicates(EntryList) /\ NoDuplicates(WaitSet)
  /\ \A t \in Threads :
       LET in == <<OnWaitSet(t), InNotify(t), OnCxq(t), Detached(t),
                   OnEntryList(t), InPass(t), OnDeck = t>>
           linked == \/ pc[t] \in {"ILock_wait", "ILock_park", "OnDeck_LOOP",
                                  "OnDeck_park", "OnDeck_clear", "Reenter",
                                  "Reenter_spin", "Reenter_park", "IWait_loop",
                                  "IWait_park", "IWait_check", "IWait_remove"}
                     \/ pc[t] \in ExitPCs \cup {"IUnlock"} /\ call[t] \in Waiting
       IN  Cardinality({i \in 1..7 : in[i]}) = IF linked THEN 1 ELSE 0

\* "Only the holder of OnDeck can manipulate EntryList or detach the RATs from
\* cxq."
QueueDiscipline ==
  [][EntryList' # EntryList \/ Len(cxq') < Len(cxq) => OnDeck = LBIT]_vars

\* Whenever the lock is free and some thread is queued for it, there is a thread
\* that will see to succession: one on its way out of IUnlock, or an heir that
\* is not asleep.  A wakeup that two exiting threads leave to each other would
\* strand the queue.
Succeeded ==
  ~LockByte /\ (\E t \in Threads : Contends(t)) =>
    \/ \E t \in Threads : pc[t] \in ExitPCs
    \/ OnDeck \in Threads /\ (event[OnDeck] \/ pc[OnDeck] \notin ParkPCs)

\* The types, and the assertions of mutex.cpp about the lock byte, OnDeck, the
\* lists, _owner and _snuck.  Those that _owner is the caller are part of
\* MutualExclusion; ILocked() at Exeunt is stated here for a thread that has not
\* sneaked, and for all of them by ExeuntLocked, which does not hold.
Asserts ==
  /\ TypeOK
  /\ \A t \in Threads :
       \* ILocked(): ILock, IUnlock, IWait, lock, jvm_raw_lock, wait, notify
       /\ pc[t] = "acquired" /\ ~Sneaked(t) => LockByte
       /\ pc[t] \in {"IWait", "IUnlock", "notify_take", "notify_push",
                     "notify_unpark"} => LockByte
       \* _owner == NULL before set_owner (Self)
       /\ pc[t] = "acquired" /\ (tbivm[t] => ~safepoint) => owner = NULL
       /\ pc[t] = "try_sneak" => owner = NULL
       \* _OnDeck != Self: lock, unlock, ILock and IUnlock (false)
       /\ pc[t] \in {"idle", "ILock", "ILock_reset", "crit"} => OnDeck # t
       /\ pc[t] = "IUnlock_ondeck" /\ call[t] = "unlock" => OnDeck # t
       /\ pc[t] = "WakeOne" /\ EntryList # <<>> /\ call[t] = "unlock" =>
            Head(EntryList) # t
       \* _OnDeck == Self: ILock, IWait, jvm_raw_lock
       /\ pc[t] \in {"OnDeck_LOOP", "OnDeck_clear", "Reenter_spin"} => OnDeck = t
       \* _OnDeck == _LBIT: IUnlock, before the inner lock is passed on or dropped
       /\ pc[t] \in {"Pass", "Punt"} => OnDeck = LBIT
       /\ pc[t] = "Fill" => EntryList = <<>> /\ det[t] # <<>>
       \* "sneak": unlock, jvm_raw_unlock
       /\ pc[t] = "unlock_snuck" /\ snuck => safepoint /\ t \in VMThreads
       \* notify, and a waiter that timed out
       /\ pc[t] = "notify_push" => ~Notified[hand[t]]
       /\ pc[t] = "IWait_remove" /\ WaitLock = NULL /\ ~Notified[t] =>
            OnDeck # t /\ OnWaitSet(t)

\* "assert (ILocked(), "invariant")" at Exeunt of lock(): whoever is about to take
\* ownership finds the lock byte set.  The VM thread also comes there when it
\* sneaks, on the strength of a lock byte it saw earlier, and a waiter inside its
\* ThreadBlockInVM region may have dropped the byte since.
ExeuntLocked ==
  \A t \in Threads : pc[t] = "acquired" => LockByte

\* The monitor implements AbstractMonitor: the holder is the thread that has the
\* lock byte, the queue is wherever its ParkEvents are, and a waiter waits until
\* notify() has pushed it onto cxq or it has unlinked itself.
Monitor == INSTANCE AbstractMonitor WITH
  holder     <- IF \E t \in Threads : Holds(t)
                THEN CHOOSE t \in Threads : Holds(t) ELSE NULL,
  contenders <- {t \in Threads : Contends(t) /\ ~Holds(t)},
  waiters    <- {t \in Threads : OnWaitSet(t) \/ InNotify(t)}

ImplementsMonitor == Monitor!Spec

\* A queue does not stay asleep in front of a free lock: once the lock is free
\* and contended somebody acquires it.
Progress ==
  ~LockByte /\ (\E t \in Threads : Contends(t)) ~> LockByte

=============================================================================
