--------------------------- MODULE SafepointProofs ---------------------------
(***************************************************************************)
(* Proofs about Safepoint and JNIFastGetField for every set of threads,    *)
(* any number of safepoints, with and without UseMembar.                   *)
(*                                                                         *)
(* The argument for StopTheWorld.  A thread is accounted for either        *)
(* because the VM thread has read a safe state of it, or because it has    *)
(* called back.  A safe state that the VM thread can read once stores have *)
(* been forced out is that of a thread that is stopped (ReadInv), and a    *)
(* stopped thread stays so as long as the VM thread owns Threads_lock and  *)
(* _state is not _not_synchronized (VerdictStep).  The VM thread goes on   *)
(* when _waiting_to_block is 0, which is the number of the threads that    *)
(* are not accounted for (CountInv).                                       *)
(***************************************************************************)
EXTENDS JNIFastGetField, FiniteSetTheorems, TLAPS

-----------------------------------------------------------------------------
(* The inductive invariant, in parts.                                      *)

\* The types, without the ranges of the two counters.
Typing ==
  /\ scenario \in Scenarios
  /\ state \in {"not_synchronized", "synchronizing", "synchronized"}
  /\ waiting_to_block \in Int
  /\ safepoint_counter \in Nat
  /\ armed \in BOOLEAN /\ notified \in BOOLEAN
  /\ Threads_lock \in JavaThreads \cup {VM, FREE}
  /\ Safepoint_lock \in {VM, FREE}
  /\ list \subseteq JavaThreads /\ todo \subseteq JavaThreads
  /\ terminated \subseteq exiting /\ exiting \subseteq JavaThreads
  /\ vmpc \in {"idle", "synchronize", "serialize", "arm", "scan", "examine", "wait", "waiting",
               "synchronized", "op", "end", "disarm", "leave", "restart"}
  /\ vmpc = "examine" => seen \in JavaThreads \X States
  /\ vmpc # "examine" => seen = <<None, None>>
  /\ thread_state \in [JavaThreads -> States] /\ visible \in [JavaThreads -> States]
  /\ type \in [JavaThreads -> {"running", "at_safepoint", "call_back"}]
  /\ has_called_back \in [JavaThreads -> BOOLEAN]
  /\ external_suspend \in [JavaThreads -> BOOLEAN]
  /\ ext_suspended \in [JavaThreads -> BOOLEAN]
  /\ requests \subseteq JavaThreads /\ stopped \subseteq JavaThreads
  /\ pc \in [JavaThreads -> {"unborn", "prepared", "started", "java", "vm", "native", "blocked",
                             "check", "set", "special", "self", "native_check", "native_slow",
                             "native_restore", "block", "block_lock", "line_up", "unblocked",
                             "owner", "starting", "gone"}]
  /\ to \in [JavaThreads -> {None, "Java", "native", "blocked", "vm"}]
  /\ saved \in [JavaThreads -> {None, "Java"} \cup TransStates]

\* Where a thread is determines the state it has stored, what it has saved, and
\* whether a transition has a target.
Local(t) ==
  /\ pc[t] \in {"unborn", "prepared", "started"} => thread_state[t] = "new"
  /\ pc[t] = "java" => thread_state[t] = "Java"
  /\ pc[t] \in {"vm", "owner", "starting", "gone", "block_lock"} => thread_state[t] = "vm"
  /\ pc[t] = "native" => thread_state[t] = "native"
  /\ pc[t] \in {"blocked", "native_restore", "line_up"} => thread_state[t] = "blocked"
  /\ pc[t] \in {"native_check", "native_slow"} => thread_state[t] = "native_trans"
  /\ pc[t] \in {"check", "set"} => thread_state[t] \in TransStates
  /\ pc[t] \in {"block", "unblocked"} => thread_state[t] \in TransStates \cup {"Java"}
  /\ pc[t] = "special" => thread_state[t] \in {"Java", "native"}
  /\ pc[t] = "self" =>
       thread_state[t] \in {"Java", "native", "blocked", "native_trans", "new_trans"}
  /\ pc[t] \in {"check", "set", "native_check", "native_slow", "native_restore"} => to[t] # None
  /\ pc[t] \in {"block", "unblocked"} => (to[t] # None <=> thread_state[t] \in TransStates)
  /\ pc[t] \in {"block_lock", "line_up"} => (to[t] # None <=> saved[t] \in TransStates)
  /\ pc[t] = "self" =>
       (to[t] # None <=> thread_state[t] \in TransStates \/ saved[t] = "native_trans")
  /\ to[t] # None => pc[t] \in {"check", "set", "native_check", "native_slow", "native_restore",
                               "block", "unblocked", "self", "block_lock", "line_up"}
  /\ saved[t] # None => pc[t] \in {"self", "native_restore", "block_lock", "line_up"}
  /\ pc[t] = "native_restore" => saved[t] = "native_trans"
  /\ pc[t] = "block_lock" => saved[t] \in {"Java", "vm_trans"}
  /\ pc[t] = "line_up" => saved[t] # None
  /\ pc[t] = "self" /\ saved[t] # None =>
       saved[t] = "native_trans" /\ thread_state[t] = "blocked"

\* A thread off the list is unborn or has terminated.  A terminated thread only
\* waits to be deleted, and is not suspended.
ListInv ==
  /\ list \cap terminated = {}
  /\ \A t \in JavaThreads :
       /\ t \notin list => pc[t] = "unborn" \/ t \in terminated
       /\ t \in list => pc[t] # "unborn"
       /\ t \in terminated =>
            /\ pc[t] \in {"vm", "check", "block", "set", "blocked", "gone"}
            /\ thread_state[t] # "Java" /\ to[t] \in {None, "blocked", "vm"}
            /\ Threads_lock # t
       /\ pc[t] = "gone" => t \in terminated
       /\ pc[t] = "unborn" => type[t] = "running" /\ ~has_called_back[t]
       /\ t \in exiting => ~external_suspend[t]
       /\ ext_suspended[t] => pc[t] = "self"

\* Where the VM thread is determines _state and the locks.
VMInv ==
  /\ Threads_lock = VM <=> vmpc # "idle"
  /\ \A t \in JavaThreads : pc[t] = "owner" => Threads_lock = t
  /\ vmpc \in {"synchronize", "serialize", "arm", "scan", "examine", "wait", "synchronized",
               "restart"} => Safepoint_lock = VM
  /\ state = "not_synchronized" <=> vmpc \in {"idle", "synchronize", "restart"}
  /\ state = "synchronized" <=> vmpc \in {"op", "end", "disarm", "leave"}
  /\ armed => vmpc \in {"scan", "examine", "wait", "waiting", "synchronized", "op", "end",
                        "disarm"}
  /\ vmpc \in {"scan", "examine"} => todo \subseteq Running
  /\ vmpc = "examine" => seen[1] \in Running \ todo

\* With UseMembar a thread that has left a state the VM thread acts on is never
\* seen there again.
MembarInv ==
  scenario.UseMembar =>
    \A t \in JavaThreads :
      /\ visible[t] \in {"native", "blocked", "vm"} => thread_state[t] = visible[t]
      /\ thread_state[t] \in TransStates => visible[t] = thread_state[t]

\* In the VM, or on the way from there to the call back.
InVM(t) ==
  \/ pc[t] \in {"vm", "owner", "starting", "block_lock"}
  \/ pc[t] \in {"check", "block"} /\ thread_state[t] = "vm_trans"

\* What the VM thread can read once the stores have been forced out.
ReadInv ==
  /\ vmpc \in {"arm", "scan", "examine", "wait", "waiting", "synchronized", "op", "end",
               "disarm", "leave"} =>
       \A t \in list : visible[t] \in {"native", "blocked"} => Stopped(t)
  /\ vmpc \in {"arm", "scan", "examine"} =>
       \A t \in list : visible[t] = "vm" => InVM(t)
  /\ vmpc = "examine" => /\ seen[2] \in {"native", "blocked"} => Stopped(seen[1])
                         /\ seen[2] = "vm" => InVM(seen[1])

\* What the verdict on a thread says about it.
VerdictInv ==
  \A t \in list :
    /\ vmpc \in {"idle", "synchronize", "serialize", "arm"} => type[t] = "running"
    /\ type[t] = "running" =>
         vmpc \in {"idle", "synchronize", "serialize", "arm", "scan", "examine"}
    /\ type[t] = "at_safepoint" /\ vmpc # "restart" => Stopped(t)
    /\ type[t] = "call_back" /\ ~has_called_back[t] =>
         vmpc \in {"scan", "examine", "wait", "waiting"} /\ InVM(t)
    /\ has_called_back[t] =>
         /\ type[t] = "call_back" /\ pc[t] = "line_up"
         /\ vmpc \notin {"scan", "examine"}

\* A thread is on its way into block() from Java only while _synchronizing.
PollInv ==
  \A t \in JavaThreads :
    pc[t] = "block" /\ thread_state[t] = "Java" => state = "synchronizing"

\* The threads that were asked to call back and have not.
Callers == {t \in list : type[t] = "call_back" /\ ~has_called_back[t]}

\* From the moment Threads_lock is taken until the wait is over.
Counting == vmpc \in {"synchronize", "serialize", "arm", "scan", "examine", "wait", "waiting"}

\* _waiting_to_block counts the threads that are not accounted for.
CountInv ==
  IF Counting THEN waiting_to_block = Cardinality(Running) + Cardinality(Callers)
  ELSE waiting_to_block = 0

\* The counter is twice the number k of safepoints that have ended, plus one
\* within a safepoint.
CounterAt(k) ==
  /\ safepoint_counter =
       IF vmpc \in {"synchronized", "op", "end"} THEN 2 * k + 1 ELSE 2 * k
  /\ vmpc \notin {"idle", "disarm", "leave", "restart"} => k < scenario.safepoints

CounterInv == \E k \in 0..scenario.safepoints : CounterAt(k)

Locals == \A t \in JavaThreads : Local(t)
Inv == /\ Typing /\ Locals /\ ListInv /\ VMInv /\ MembarInv /\ ReadInv
       /\ VerdictInv /\ PollInv /\ CountInv

-----------------------------------------------------------------------------
(* Each part is preserved: one step per action.                            *)

\* The state of begin() and end() is the VM thread's own.
LEMMA ThreadsLeaveVM ==
  ASSUME NEW t \in JavaThreads, Choose(t) \/ Continue(t) \/ Drain(t)
  PROVE  UNCHANGED <<scenario, vm>>
BY DEF Choose, Continue, KeepShared, vm,
    Java_to_vm, Java_to_native, Blocked_return, Blocked_suspend, Lock_fast,
    Lock_slow, Exit, Delete, Poll, Run, Check, Set, Special, Native_check,
    Native_slow_suspend, Native_slow_block, Native_restore, Block_terminated,
    Block_callback, Block_lock, Block_quiet, Line_up, Unblocked, Self_suspend,
    Self_return, Unlock, Remove, Native_return, Leave_vm, Suspend,
    Suspend_return, Create, Start, Resume, Drain

\* The VM thread changes nothing of a Java thread but what it can read of it.
LEMMA VMLeavesThreads ==
  ASSUME VMThread
  PROVE  /\ UNCHANGED <<scenario, threads, thread_state, external_suspend, ext_suspended, local>>
         /\ scenario.UseMembar => visible' = visible
BY DEF VMThread, KeepThreads,
    Begin_lock, Begin_synchronizing, Begin_serialize, Begin_arm, Next_pass,
    Begin_wait, Begin_notified, Begin_counter, Begin_synchronized, Operation,
    End_counter, End_disarm, End_state, End_restart, Examine_read, Examine

\* No step leaves the types.
LEMMA TypingStep ==
  ASSUME Typing, Locals, [Next]_vars PROVE Typing'
<1> USE SafepointAssumption DEF States, TransStates, None, At, Goto, KeepShared, KeepThreads,
    KeepSuspend, Store, StoreFence, StoreTrans, locks, threads, vm, states, suspend,
    local, Typing, Locals, Local, Running
<1>1. ASSUME NEW t \in JavaThreads, Java_to_vm(t), UNCHANGED scenario PROVE Typing'
  BY <1>1 DEF Java_to_vm
<1>2. ASSUME NEW t \in JavaThreads, Java_to_native(t), UNCHANGED scenario
      PROVE Typing'
  BY <1>2 DEF Java_to_native
<1>3. ASSUME NEW t \in JavaThreads, Blocked_return(t), UNCHANGED scenario
      PROVE Typing'
  BY <1>3 DEF Blocked_return, Trans
<1>4. ASSUME NEW t \in JavaThreads, Blocked_suspend(t), UNCHANGED scenario
      PROVE Typing'
  BY <1>4 DEF Blocked_suspend
<1>5. ASSUME NEW t \in JavaThreads, Lock_fast(t), UNCHANGED scenario PROVE Typing'
  BY <1>5 DEF Lock_fast
<1>6. ASSUME NEW t \in JavaThreads, Lock_slow(t), UNCHANGED scenario PROVE Typing'
  BY <1>6 DEF Lock_slow, Trans
<1>7. ASSUME NEW t \in JavaThreads, Exit(t), UNCHANGED scenario PROVE Typing'
  BY <1>7 DEF Exit
<1>8. ASSUME NEW t \in JavaThreads, Delete(t), UNCHANGED scenario PROVE Typing'
  BY <1>8 DEF Delete
<1>9. ASSUME NEW t \in JavaThreads, Poll(t), UNCHANGED scenario PROVE Typing'
  BY <1>9 DEF Poll
<1>10. ASSUME NEW t \in JavaThreads, Run(t), UNCHANGED scenario PROVE Typing'
  BY <1>10 DEF Run, Trans
<1>11. ASSUME NEW t \in JavaThreads, Check(t), UNCHANGED scenario PROVE Typing'
  BY <1>11 DEF Check, do_call_back
<1>12. ASSUME NEW t \in JavaThreads, Set(t), UNCHANGED scenario PROVE Typing'
  BY <1>12 DEF Set, AfterSet
<1>13. ASSUME NEW t \in JavaThreads, Special(t), UNCHANGED scenario PROVE Typing'
  BY <1>13 DEF Special
<1>14. ASSUME NEW t \in JavaThreads, Native_check(t), UNCHANGED scenario
      PROVE Typing'
  BY <1>14 DEF Native_check, do_call_back
<1>15. ASSUME NEW t \in JavaThreads, Native_slow_suspend(t), UNCHANGED scenario
      PROVE Typing'
  BY <1>15 DEF Native_slow_suspend
<1>16. ASSUME NEW t \in JavaThreads, Native_slow_block(t), UNCHANGED scenario
      PROVE Typing'
  BY <1>16 DEF Native_slow_block
<1>17. ASSUME NEW t \in JavaThreads, Native_restore(t), UNCHANGED scenario
      PROVE Typing'
  BY <1>17 DEF Native_restore
<1>18. ASSUME NEW t \in JavaThreads, Block_terminated(t), UNCHANGED scenario
      PROVE Typing'
  BY <1>18 DEF Block_terminated
<1>19. ASSUME NEW t \in JavaThreads, Block_callback(t), UNCHANGED scenario
      PROVE Typing'
  BY <1>19 DEF Block_callback
<1>20. ASSUME NEW t \in JavaThreads, Block_lock(t), UNCHANGED scenario PROVE Typing'
  <2>1. notified' \in BOOLEAN
    BY <1>20, Zenon DEF Block_lock
  <2>2. waiting_to_block' \in {waiting_to_block, waiting_to_block - 1}
    BY <1>20, Zenon DEF Block_lock
  <2>3. waiting_to_block' \in Int
    BY <2>2
  <2>4. \/ has_called_back' = has_called_back
        \/ has_called_back' = [has_called_back EXCEPT ![t] = TRUE]
    BY <1>20, Zenon DEF Block_lock
  <2>5. [has_called_back EXCEPT ![t] = TRUE] \in [JavaThreads -> BOOLEAN]
    OBVIOUS
  <2>6. has_called_back' \in [JavaThreads -> BOOLEAN]
    BY <2>4, <2>5, ZenonT(30)
  <2> QED
    BY <1>20, <2>1, <2>3, <2>6, ZenonT(40) DEF Block_lock
<1>21. ASSUME NEW t \in JavaThreads, Block_quiet(t), UNCHANGED scenario
      PROVE Typing'
  BY <1>21 DEF Block_quiet
<1>22. ASSUME NEW t \in JavaThreads, Line_up(t), UNCHANGED scenario PROVE Typing'
  BY <1>22 DEF Line_up
<1>23. ASSUME NEW t \in JavaThreads, Unblocked(t), UNCHANGED scenario PROVE Typing'
  BY <1>23 DEF Unblocked
<1>24. ASSUME NEW t \in JavaThreads, Self_suspend(t), UNCHANGED scenario
      PROVE Typing'
  BY <1>24 DEF Self_suspend
<1>25. ASSUME NEW t \in JavaThreads, Self_return(t), UNCHANGED scenario
      PROVE Typing'
  BY <1>25 DEF Self_return, AfterSelf
<1>26. ASSUME NEW t \in JavaThreads, Unlock(t), UNCHANGED scenario PROVE Typing'
  BY <1>26 DEF Unlock
<1>27. ASSUME NEW t \in JavaThreads, Remove(t), UNCHANGED scenario PROVE Typing'
  BY <1>27 DEF Remove
<1>28. ASSUME NEW t \in JavaThreads, NEW s \in {"vm", "Java"}, Native_return(t, s),
              UNCHANGED scenario
      PROVE Typing'
  BY <1>28 DEF Native_return, Trans
<1>29. ASSUME NEW t \in JavaThreads, NEW s \in {"Java", "native", "blocked"},
              Leave_vm(t, s), UNCHANGED scenario
      PROVE Typing'
  BY <1>29 DEF Leave_vm, Trans
<1>30. ASSUME NEW t \in JavaThreads, NEW c \in JavaThreads, Suspend(t, c),
              UNCHANGED scenario
      PROVE Typing'
  BY <1>30 DEF Suspend
<1>31. ASSUME NEW t \in JavaThreads, NEW c \in JavaThreads, Suspend_return(t, c),
              UNCHANGED scenario
      PROVE Typing'
  BY <1>31 DEF Suspend_return, Ext_suspend_completed
<1>32. ASSUME NEW t \in JavaThreads, NEW c \in JavaThreads, Create(t, c),
              UNCHANGED scenario
      PROVE Typing'
  BY <1>32 DEF Create
<1>33. ASSUME NEW t \in JavaThreads, NEW c \in JavaThreads, Start(t, c),
              UNCHANGED scenario
      PROVE Typing'
  BY <1>33 DEF Start
<1>34. ASSUME NEW t \in JavaThreads, NEW c \in JavaThreads, Resume(t, c),
              UNCHANGED scenario
      PROVE Typing'
  BY <1>34 DEF Resume
<1>35. ASSUME NEW t \in JavaThreads, Drain(t) PROVE Typing'
  BY <1>35 DEF Drain
<1>36. ASSUME Begin_lock, UNCHANGED scenario PROVE Typing'
  <2>1. Cardinality(list) \in Nat
    BY FS_Subset, FS_CardinalityType
  <2> QED
    BY <1>36, <2>1 DEF Begin_lock
<1>37. ASSUME Begin_synchronizing, UNCHANGED scenario PROVE Typing'
  BY <1>37 DEF Begin_synchronizing
<1>38. ASSUME Begin_serialize, UNCHANGED scenario PROVE Typing'
  BY <1>38 DEF Begin_serialize
<1>39. ASSUME Begin_arm, UNCHANGED scenario PROVE Typing'
  BY <1>39 DEF Begin_arm
<1>40. ASSUME Next_pass, UNCHANGED scenario PROVE Typing'
  BY <1>40 DEF Next_pass
<1>41. ASSUME Begin_wait, UNCHANGED scenario PROVE Typing'
  BY <1>41 DEF Begin_wait
<1>42. ASSUME Begin_notified, UNCHANGED scenario PROVE Typing'
  BY <1>42 DEF Begin_notified
<1>43. ASSUME Begin_counter, UNCHANGED scenario PROVE Typing'
  BY <1>43 DEF Begin_counter
<1>44. ASSUME Begin_synchronized, UNCHANGED scenario PROVE Typing'
  BY <1>44 DEF Begin_synchronized
<1>45. ASSUME Operation, UNCHANGED scenario PROVE Typing'
  BY <1>45 DEF Operation
<1>46. ASSUME End_counter, UNCHANGED scenario PROVE Typing'
  BY <1>46 DEF End_counter
<1>47. ASSUME End_disarm, UNCHANGED scenario PROVE Typing'
  BY <1>47 DEF End_disarm
<1>48. ASSUME End_state, UNCHANGED scenario PROVE Typing'
  BY <1>48 DEF End_state
<1>49. ASSUME End_restart, UNCHANGED scenario PROVE Typing'
  BY <1>49 DEF End_restart
<1>50. ASSUME NEW t \in JavaThreads, Examine_read(t), UNCHANGED scenario
      PROVE Typing'
  BY <1>50 DEF Examine_read
<1>51. ASSUME NEW verdict \in {"running", "at_safepoint", "call_back"}, Examine(verdict),
              UNCHANGED scenario
      PROVE Typing'
  BY <1>51 DEF Examine, Verdict, Safe
<1>52. ASSUME UNCHANGED vars PROVE Typing'
  BY <1>52 DEF vars
<1> HIDE DEF Typing, Locals, Local
<1> QED
  BY <1>1, <1>2, <1>3, <1>4, <1>5, <1>6, <1>7, <1>8, <1>9, <1>10, <1>11, <1>12, <1>13,
     <1>14, <1>15, <1>16, <1>17, <1>18, <1>19, <1>20, <1>21, <1>22, <1>23, <1>24, <1>25,
     <1>26, <1>27, <1>28, <1>29, <1>30, <1>31, <1>32, <1>33, <1>34, <1>35, <1>36, <1>37,
     <1>38, <1>39, <1>40, <1>41, <1>42, <1>43, <1>44, <1>45, <1>46, <1>47, <1>48, <1>49,
     <1>50, <1>51, <1>52
  DEF Next, Choose, Continue, VMThread

\* A thread takes its state and what it saved with it from place to place.
LEMMA LocalsStep ==
  ASSUME Typing, Locals, ListInv, [Next]_vars PROVE Locals'
<1> USE SafepointAssumption DEF States, TransStates, None, At, Goto, KeepShared, KeepThreads,
    KeepSuspend, Store, StoreFence, StoreTrans, locks, threads, vm, states, suspend,
    local, Typing, Locals, Local, ListInv
<1>1. ASSUME NEW t \in JavaThreads, Java_to_vm(t), UNCHANGED scenario PROVE Locals'
  BY <1>1 DEF Java_to_vm
<1>2. ASSUME NEW t \in JavaThreads, Java_to_native(t), UNCHANGED scenario
      PROVE Locals'
  BY <1>2 DEF Java_to_native
<1>3. ASSUME NEW t \in JavaThreads, Blocked_return(t), UNCHANGED scenario
      PROVE Locals'
  BY <1>3 DEF Blocked_return, Trans
<1>4. ASSUME NEW t \in JavaThreads, Blocked_suspend(t), UNCHANGED scenario
      PROVE Locals'
  BY <1>4 DEF Blocked_suspend
<1>5. ASSUME NEW t \in JavaThreads, Lock_fast(t), UNCHANGED scenario PROVE Locals'
  BY <1>5 DEF Lock_fast
<1>6. ASSUME NEW t \in JavaThreads, Lock_slow(t), UNCHANGED scenario PROVE Locals'
  BY <1>6 DEF Lock_slow, Trans
<1>7. ASSUME NEW t \in JavaThreads, Exit(t), UNCHANGED scenario PROVE Locals'
  BY <1>7 DEF Exit
<1>8. ASSUME NEW t \in JavaThreads, Delete(t), UNCHANGED scenario PROVE Locals'
  BY <1>8 DEF Delete
<1>9. ASSUME NEW t \in JavaThreads, Poll(t), UNCHANGED scenario PROVE Locals'
  BY <1>9 DEF Poll
<1>10. ASSUME NEW t \in JavaThreads, Run(t), UNCHANGED scenario PROVE Locals'
  BY <1>10 DEF Run, Trans
<1>11. ASSUME NEW t \in JavaThreads, Check(t), UNCHANGED scenario PROVE Locals'
  BY <1>11 DEF Check, do_call_back
<1>12. ASSUME NEW t \in JavaThreads, Set(t), UNCHANGED scenario PROVE Locals'
  BY <1>12 DEF Set, AfterSet
<1>13. ASSUME NEW t \in JavaThreads, Special(t), UNCHANGED scenario PROVE Locals'
  BY <1>13 DEF Special
<1>14. ASSUME NEW t \in JavaThreads, Native_check(t), UNCHANGED scenario
      PROVE Locals'
  BY <1>14 DEF Native_check, do_call_back
<1>15. ASSUME NEW t \in JavaThreads, Native_slow_suspend(t), UNCHANGED scenario
      PROVE Locals'
  BY <1>15 DEF Native_slow_suspend
<1>16. ASSUME NEW t \in JavaThreads, Native_slow_block(t), UNCHANGED scenario
      PROVE Locals'
  BY <1>16 DEF Native_slow_block
<1>17. ASSUME NEW t \in JavaThreads, Native_restore(t), UNCHANGED scenario
      PROVE Locals'
  BY <1>17 DEF Native_restore
<1>18. ASSUME NEW t \in JavaThreads, Block_terminated(t), UNCHANGED scenario
      PROVE Locals'
  BY <1>18 DEF Block_terminated
<1>19. ASSUME NEW t \in JavaThreads, Block_callback(t), UNCHANGED scenario
      PROVE Locals'
  BY <1>19 DEF Block_callback
<1>20. ASSUME NEW t \in JavaThreads, Block_lock(t), UNCHANGED scenario PROVE Locals'
  BY <1>20 DEF Block_lock
<1>21. ASSUME NEW t \in JavaThreads, Block_quiet(t), UNCHANGED scenario
      PROVE Locals'
  BY <1>21 DEF Block_quiet
<1>22. ASSUME NEW t \in JavaThreads, Line_up(t), UNCHANGED scenario PROVE Locals'
  BY <1>22 DEF Line_up
<1>23. ASSUME NEW t \in JavaThreads, Unblocked(t), UNCHANGED scenario PROVE Locals'
  BY <1>23 DEF Unblocked
<1>24. ASSUME NEW t \in JavaThreads, Self_suspend(t), UNCHANGED scenario
      PROVE Locals'
  BY <1>24 DEF Self_suspend
<1>25. ASSUME NEW t \in JavaThreads, Self_return(t), UNCHANGED scenario
      PROVE Locals'
  BY <1>25 DEF Self_return, AfterSelf
<1>26. ASSUME NEW t \in JavaThreads, Unlock(t), UNCHANGED scenario PROVE Locals'
  BY <1>26 DEF Unlock
<1>27. ASSUME NEW t \in JavaThreads, Remove(t), UNCHANGED scenario PROVE Locals'
  BY <1>27 DEF Remove
<1>28. ASSUME NEW t \in JavaThreads, NEW s \in {"vm", "Java"}, Native_return(t, s),
              UNCHANGED scenario
      PROVE Locals'
  BY <1>28 DEF Native_return, Trans
<1>29. ASSUME NEW t \in JavaThreads, NEW s \in {"Java", "native", "blocked"},
              Leave_vm(t, s), UNCHANGED scenario
      PROVE Locals'
  BY <1>29 DEF Leave_vm, Trans
<1>30. ASSUME NEW t \in JavaThreads, NEW c \in JavaThreads, Suspend(t, c),
              UNCHANGED scenario
      PROVE Locals'
  BY <1>30 DEF Suspend
<1>31. ASSUME NEW t \in JavaThreads, NEW c \in JavaThreads, Suspend_return(t, c),
              UNCHANGED scenario
      PROVE Locals'
  BY <1>31 DEF Suspend_return, Ext_suspend_completed
<1>32. ASSUME NEW t \in JavaThreads, NEW c \in JavaThreads, Create(t, c),
              UNCHANGED scenario
      PROVE Locals'
  BY <1>32 DEF Create
<1>33. ASSUME NEW t \in JavaThreads, NEW c \in JavaThreads, Start(t, c),
              UNCHANGED scenario
      PROVE Locals'
  BY <1>33 DEF Start
<1>34. ASSUME NEW t \in JavaThreads, NEW c \in JavaThreads, Resume(t, c),
              UNCHANGED scenario
      PROVE Locals'
  BY <1>34 DEF Resume
<1>35. ASSUME NEW t \in JavaThreads, Drain(t) PROVE Locals'
  BY <1>35 DEF Drain
<1>36. CASE VMThread
  BY <1>36, VMLeavesThreads
<1>37. ASSUME UNCHANGED vars PROVE Locals'
  BY <1>37 DEF vars
<1> HIDE DEF Typing, Locals, Local, ListInv
<1> QED
  BY <1>1, <1>2, <1>3, <1>4, <1>5, <1>6, <1>7, <1>8, <1>9, <1>10, <1>11, <1>12, <1>13,
     <1>14, <1>15, <1>16, <1>17, <1>18, <1>19, <1>20, <1>21, <1>22, <1>23, <1>24, <1>25,
     <1>26, <1>27, <1>28, <1>29, <1>30, <1>31, <1>32, <1>33, <1>34, <1>35, <1>36, <1>37
  DEF Next, Choose, Continue

\* Threads enter and leave the list under Threads_lock, and suspension ends before exit.
LEMMA ListStep ==
  ASSUME Typing, Locals, ListInv, VMInv, [Next]_vars PROVE ListInv'
<1> USE SafepointAssumption DEF States, TransStates, None, At, Goto, KeepShared, KeepThreads,
    KeepSuspend, Store, StoreFence, StoreTrans, locks, threads, vm, states, suspend,
    local, Typing, Locals, Local, ListInv, VMInv, Running
<1>1. ASSUME NEW t \in JavaThreads, Java_to_vm(t), UNCHANGED scenario PROVE ListInv'
  BY <1>1 DEF Java_to_vm
<1>2. ASSUME NEW t \in JavaThreads, Java_to_native(t), UNCHANGED scenario
      PROVE ListInv'
  BY <1>2 DEF Java_to_native
<1>3. ASSUME NEW t \in JavaThreads, Blocked_return(t), UNCHANGED scenario
      PROVE ListInv'
  BY <1>3 DEF Blocked_return, Trans
<1>4. ASSUME NEW t \in JavaThreads, Blocked_suspend(t), UNCHANGED scenario
      PROVE ListInv'
  BY <1>4 DEF Blocked_suspend
<1>5. ASSUME NEW t \in JavaThreads, Lock_fast(t), UNCHANGED scenario PROVE ListInv'
  BY <1>5 DEF Lock_fast
<1>6. ASSUME NEW t \in JavaThreads, Lock_slow(t), UNCHANGED scenario PROVE ListInv'
  BY <1>6 DEF Lock_slow, Trans
<1>7. ASSUME NEW t \in JavaThreads, Exit(t), UNCHANGED scenario PROVE ListInv'
  BY <1>7 DEF Exit
<1>8. ASSUME NEW t \in JavaThreads, Delete(t), UNCHANGED scenario PROVE ListInv'
  BY <1>8 DEF Delete
<1>9. ASSUME NEW t \in JavaThreads, Poll(t), UNCHANGED scenario PROVE ListInv'
  BY <1>9 DEF Poll
<1>10. ASSUME NEW t \in JavaThreads, Run(t), UNCHANGED scenario PROVE ListInv'
  BY <1>10 DEF Run, Trans
<1>11. ASSUME NEW t \in JavaThreads, Check(t), UNCHANGED scenario PROVE ListInv'
  BY <1>11 DEF Check, do_call_back
<1>12. ASSUME NEW t \in JavaThreads, Set(t), UNCHANGED scenario PROVE ListInv'
  BY <1>12 DEF Set, AfterSet
<1>13. ASSUME NEW t \in JavaThreads, Special(t), UNCHANGED scenario PROVE ListInv'
  BY <1>13 DEF Special
<1>14. ASSUME NEW t \in JavaThreads, Native_check(t), UNCHANGED scenario
      PROVE ListInv'
  BY <1>14 DEF Native_check, do_call_back
<1>15. ASSUME NEW t \in JavaThreads, Native_slow_suspend(t), UNCHANGED scenario
      PROVE ListInv'
  BY <1>15 DEF Native_slow_suspend
<1>16. ASSUME NEW t \in JavaThreads, Native_slow_block(t), UNCHANGED scenario
      PROVE ListInv'
  BY <1>16 DEF Native_slow_block
<1>17. ASSUME NEW t \in JavaThreads, Native_restore(t), UNCHANGED scenario
      PROVE ListInv'
  BY <1>17 DEF Native_restore
<1>18. ASSUME NEW t \in JavaThreads, Block_terminated(t), UNCHANGED scenario
      PROVE ListInv'
  BY <1>18 DEF Block_terminated
<1>19. ASSUME NEW t \in JavaThreads, Block_callback(t), UNCHANGED scenario
      PROVE ListInv'
  BY <1>19 DEF Block_callback
<1>20. ASSUME NEW t \in JavaThreads, Block_lock(t), UNCHANGED scenario
      PROVE ListInv'
  BY <1>20 DEF Block_lock
<1>21. ASSUME NEW t \in JavaThreads, Block_quiet(t), UNCHANGED scenario
      PROVE ListInv'
  BY <1>21 DEF Block_quiet
<1>22. ASSUME NEW t \in JavaThreads, Line_up(t), UNCHANGED scenario PROVE ListInv'
  BY <1>22 DEF Line_up
<1>23. ASSUME NEW t \in JavaThreads, Unblocked(t), UNCHANGED scenario PROVE ListInv'
  BY <1>23 DEF Unblocked
<1>24. ASSUME NEW t \in JavaThreads, Self_suspend(t), UNCHANGED scenario
      PROVE ListInv'
  BY <1>24 DEF Self_suspend
<1>25. ASSUME NEW t \in JavaThreads, Self_return(t), UNCHANGED scenario
      PROVE ListInv'
  BY <1>25 DEF Self_return, AfterSelf
<1>26. ASSUME NEW t \in JavaThreads, Unlock(t), UNCHANGED scenario PROVE ListInv'
  BY <1>26 DEF Unlock
<1>27. ASSUME NEW t \in JavaThreads, Remove(t), UNCHANGED scenario PROVE ListInv'
  BY <1>27 DEF Remove
<1>28. ASSUME NEW t \in JavaThreads, NEW s \in {"vm", "Java"}, Native_return(t, s),
              UNCHANGED scenario
      PROVE ListInv'
  BY <1>28 DEF Native_return, Trans
<1>29. ASSUME NEW t \in JavaThreads, NEW s \in {"Java", "native", "blocked"},
              Leave_vm(t, s), UNCHANGED scenario
      PROVE ListInv'
  BY <1>29 DEF Leave_vm, Trans
<1>30. ASSUME NEW t \in JavaThreads, NEW c \in JavaThreads, Suspend(t, c),
              UNCHANGED scenario
      PROVE ListInv'
  BY <1>30 DEF Suspend
<1>31. ASSUME NEW t \in JavaThreads, NEW c \in JavaThreads, Suspend_return(t, c),
              UNCHANGED scenario
      PROVE ListInv'
  BY <1>31 DEF Suspend_return, Ext_suspend_completed
<1>32. ASSUME NEW t \in JavaThreads, NEW c \in JavaThreads, Create(t, c),
              UNCHANGED scenario
      PROVE ListInv'
  BY <1>32 DEF Create
<1>33. ASSUME NEW t \in JavaThreads, NEW c \in JavaThreads, Start(t, c),
              UNCHANGED scenario
      PROVE ListInv'
  BY <1>33 DEF Start
<1>34. ASSUME NEW t \in JavaThreads, NEW c \in JavaThreads, Resume(t, c),
              UNCHANGED scenario
      PROVE ListInv'
  BY <1>34 DEF Resume
<1>35. ASSUME NEW t \in JavaThreads, Drain(t) PROVE ListInv'
  BY <1>35 DEF Drain
<1>36. ASSUME Begin_lock, UNCHANGED scenario PROVE ListInv'
  BY <1>36 DEF Begin_lock
<1>37. ASSUME Begin_synchronizing, UNCHANGED scenario PROVE ListInv'
  BY <1>37 DEF Begin_synchronizing
<1>38. ASSUME Begin_serialize, UNCHANGED scenario PROVE ListInv'
  BY <1>38 DEF Begin_serialize
<1>39. ASSUME Begin_arm, UNCHANGED scenario PROVE ListInv'
  BY <1>39 DEF Begin_arm
<1>40. ASSUME Next_pass, UNCHANGED scenario PROVE ListInv'
  BY <1>40 DEF Next_pass
<1>41. ASSUME Begin_wait, UNCHANGED scenario PROVE ListInv'
  BY <1>41 DEF Begin_wait
<1>42. ASSUME Begin_notified, UNCHANGED scenario PROVE ListInv'
  BY <1>42 DEF Begin_notified
<1>43. ASSUME Begin_counter, UNCHANGED scenario PROVE ListInv'
  BY <1>43 DEF Begin_counter
<1>44. ASSUME Begin_synchronized, UNCHANGED scenario PROVE ListInv'
  BY <1>44 DEF Begin_synchronized
<1>45. ASSUME Operation, UNCHANGED scenario PROVE ListInv'
  BY <1>45 DEF Operation
<1>46. ASSUME End_counter, UNCHANGED scenario PROVE ListInv'
  BY <1>46 DEF End_counter
<1>47. ASSUME End_disarm, UNCHANGED scenario PROVE ListInv'
  BY <1>47 DEF End_disarm
<1>48. ASSUME End_state, UNCHANGED scenario PROVE ListInv'
  BY <1>48 DEF End_state
<1>49. ASSUME End_restart, UNCHANGED scenario PROVE ListInv'
  BY <1>49 DEF End_restart
<1>50. ASSUME NEW t \in JavaThreads, Examine_read(t), UNCHANGED scenario
      PROVE ListInv'
  BY <1>50 DEF Examine_read
<1>51. ASSUME NEW verdict \in {"running", "at_safepoint", "call_back"}, Examine(verdict),
              UNCHANGED scenario
      PROVE ListInv'
  BY <1>51 DEF Examine, Verdict, Safe
<1>52. ASSUME UNCHANGED vars PROVE ListInv'
  BY <1>52 DEF vars
<1> HIDE DEF Typing, Locals, Local, ListInv, VMInv
<1> QED
  BY <1>1, <1>2, <1>3, <1>4, <1>5, <1>6, <1>7, <1>8, <1>9, <1>10, <1>11, <1>12, <1>13,
     <1>14, <1>15, <1>16, <1>17, <1>18, <1>19, <1>20, <1>21, <1>22, <1>23, <1>24, <1>25,
     <1>26, <1>27, <1>28, <1>29, <1>30, <1>31, <1>32, <1>33, <1>34, <1>35, <1>36, <1>37,
     <1>38, <1>39, <1>40, <1>41, <1>42, <1>43, <1>44, <1>45, <1>46, <1>47, <1>48, <1>49,
     <1>50, <1>51, <1>52
  DEF Next, Choose, Continue, VMThread

\* The steps of begin() and end() keep _state and the locks in step.
LEMMA VMStep ==
  ASSUME Typing, Locals, ListInv, VMInv, VerdictInv, [Next]_vars PROVE VMInv'
<1> USE SafepointAssumption DEF States, TransStates, None, At, Goto, KeepShared, KeepThreads,
    KeepSuspend, Store, StoreFence, StoreTrans, locks, threads, vm, states, suspend,
    local, Typing, Locals, Local, ListInv, VMInv, Running, VerdictInv
<1>1. ASSUME NEW t \in JavaThreads, Java_to_vm(t), UNCHANGED scenario PROVE VMInv'
  BY <1>1 DEF Java_to_vm
<1>2. ASSUME NEW t \in JavaThreads, Java_to_native(t), UNCHANGED scenario
      PROVE VMInv'
  BY <1>2 DEF Java_to_native
<1>3. ASSUME NEW t \in JavaThreads, Blocked_return(t), UNCHANGED scenario
      PROVE VMInv'
  BY <1>3 DEF Blocked_return, Trans
<1>4. ASSUME NEW t \in JavaThreads, Blocked_suspend(t), UNCHANGED scenario
      PROVE VMInv'
  BY <1>4 DEF Blocked_suspend
<1>5. ASSUME NEW t \in JavaThreads, Lock_fast(t), UNCHANGED scenario PROVE VMInv'
  BY <1>5 DEF Lock_fast
<1>6. ASSUME NEW t \in JavaThreads, Lock_slow(t), UNCHANGED scenario PROVE VMInv'
  BY <1>6 DEF Lock_slow, Trans
<1>7. ASSUME NEW t \in JavaThreads, Exit(t), UNCHANGED scenario PROVE VMInv'
  BY <1>7 DEF Exit
<1>8. ASSUME NEW t \in JavaThreads, Delete(t), UNCHANGED scenario PROVE VMInv'
  BY <1>8 DEF Delete
<1>9. ASSUME NEW t \in JavaThreads, Poll(t), UNCHANGED scenario PROVE VMInv'
  BY <1>9 DEF Poll
<1>10. ASSUME NEW t \in JavaThreads, Run(t), UNCHANGED scenario PROVE VMInv'
  BY <1>10 DEF Run, Trans
<1>11. ASSUME NEW t \in JavaThreads, Check(t), UNCHANGED scenario PROVE VMInv'
  BY <1>11 DEF Check, do_call_back
<1>12. ASSUME NEW t \in JavaThreads, Set(t), UNCHANGED scenario PROVE VMInv'
  BY <1>12 DEF Set, AfterSet
<1>13. ASSUME NEW t \in JavaThreads, Special(t), UNCHANGED scenario PROVE VMInv'
  BY <1>13 DEF Special
<1>14. ASSUME NEW t \in JavaThreads, Native_check(t), UNCHANGED scenario
      PROVE VMInv'
  BY <1>14 DEF Native_check, do_call_back
<1>15. ASSUME NEW t \in JavaThreads, Native_slow_suspend(t), UNCHANGED scenario
      PROVE VMInv'
  BY <1>15 DEF Native_slow_suspend
<1>16. ASSUME NEW t \in JavaThreads, Native_slow_block(t), UNCHANGED scenario
      PROVE VMInv'
  BY <1>16 DEF Native_slow_block
<1>17. ASSUME NEW t \in JavaThreads, Native_restore(t), UNCHANGED scenario
      PROVE VMInv'
  BY <1>17 DEF Native_restore
<1>18. ASSUME NEW t \in JavaThreads, Block_terminated(t), UNCHANGED scenario
      PROVE VMInv'
  BY <1>18 DEF Block_terminated
<1>19. ASSUME NEW t \in JavaThreads, Block_callback(t), UNCHANGED scenario
      PROVE VMInv'
  BY <1>19 DEF Block_callback
<1>20. ASSUME NEW t \in JavaThreads, Block_lock(t), UNCHANGED scenario PROVE VMInv'
  BY <1>20 DEF Block_lock
<1>21. ASSUME NEW t \in JavaThreads, Block_quiet(t), UNCHANGED scenario PROVE VMInv'
  BY <1>21 DEF Block_quiet
<1>22. ASSUME NEW t \in JavaThreads, Line_up(t), UNCHANGED scenario PROVE VMInv'
  BY <1>22 DEF Line_up
<1>23. ASSUME NEW t \in JavaThreads, Unblocked(t), UNCHANGED scenario PROVE VMInv'
  BY <1>23 DEF Unblocked
<1>24. ASSUME NEW t \in JavaThreads, Self_suspend(t), UNCHANGED scenario
      PROVE VMInv'
  BY <1>24 DEF Self_suspend
<1>25. ASSUME NEW t \in JavaThreads, Self_return(t), UNCHANGED scenario PROVE VMInv'
  BY <1>25 DEF Self_return, AfterSelf
<1>26. ASSUME NEW t \in JavaThreads, Unlock(t), UNCHANGED scenario PROVE VMInv'
  BY <1>26 DEF Unlock
<1>27. ASSUME NEW t \in JavaThreads, Remove(t), UNCHANGED scenario PROVE VMInv'
  BY <1>27 DEF Remove
<1>28. ASSUME NEW t \in JavaThreads, NEW s \in {"vm", "Java"}, Native_return(t, s),
              UNCHANGED scenario
      PROVE VMInv'
  BY <1>28 DEF Native_return, Trans
<1>29. ASSUME NEW t \in JavaThreads, NEW s \in {"Java", "native", "blocked"},
              Leave_vm(t, s), UNCHANGED scenario
      PROVE VMInv'
  BY <1>29 DEF Leave_vm, Trans
<1>30. ASSUME NEW t \in JavaThreads, NEW c \in JavaThreads, Suspend(t, c),
              UNCHANGED scenario
      PROVE VMInv'
  BY <1>30 DEF Suspend
<1>31. ASSUME NEW t \in JavaThreads, NEW c \in JavaThreads, Suspend_return(t, c),
              UNCHANGED scenario
      PROVE VMInv'
  BY <1>31 DEF Suspend_return, Ext_suspend_completed
<1>32. ASSUME NEW t \in JavaThreads, NEW c \in JavaThreads, Create(t, c),
              UNCHANGED scenario
      PROVE VMInv'
  BY <1>32 DEF Create
<1>33. ASSUME NEW t \in JavaThreads, NEW c \in JavaThreads, Start(t, c),
              UNCHANGED scenario
      PROVE VMInv'
  BY <1>33 DEF Start
<1>34. ASSUME NEW t \in JavaThreads, NEW c \in JavaThreads, Resume(t, c),
              UNCHANGED scenario
      PROVE VMInv'
  BY <1>34 DEF Resume
<1>35. ASSUME NEW t \in JavaThreads, Drain(t) PROVE VMInv'
  BY <1>35 DEF Drain
<1>36. ASSUME Begin_lock, UNCHANGED scenario PROVE VMInv'
  BY <1>36 DEF Begin_lock
<1>37. ASSUME Begin_synchronizing, UNCHANGED scenario PROVE VMInv'
  BY <1>37 DEF Begin_synchronizing
<1>38. ASSUME Begin_serialize, UNCHANGED scenario PROVE VMInv'
  BY <1>38 DEF Begin_serialize
<1>39. ASSUME Begin_arm, UNCHANGED scenario PROVE VMInv'
  BY <1>39 DEF Begin_arm
<1>40. ASSUME Next_pass, UNCHANGED scenario PROVE VMInv'
  BY <1>40 DEF Next_pass
<1>41. ASSUME Begin_wait, UNCHANGED scenario PROVE VMInv'
  BY <1>41 DEF Begin_wait
<1>42. ASSUME Begin_notified, UNCHANGED scenario PROVE VMInv'
  BY <1>42 DEF Begin_notified
<1>43. ASSUME Begin_counter, UNCHANGED scenario PROVE VMInv'
  BY <1>43 DEF Begin_counter
<1>44. ASSUME Begin_synchronized, UNCHANGED scenario PROVE VMInv'
  BY <1>44 DEF Begin_synchronized
<1>45. ASSUME Operation, UNCHANGED scenario PROVE VMInv'
  BY <1>45 DEF Operation
<1>46. ASSUME End_counter, UNCHANGED scenario PROVE VMInv'
  BY <1>46 DEF End_counter
<1>47. ASSUME End_disarm, UNCHANGED scenario PROVE VMInv'
  BY <1>47 DEF End_disarm
<1>48. ASSUME End_state, UNCHANGED scenario PROVE VMInv'
  BY <1>48 DEF End_state
<1>49. ASSUME End_restart, UNCHANGED scenario PROVE VMInv'
  BY <1>49 DEF End_restart
<1>50. ASSUME NEW t \in JavaThreads, Examine_read(t), UNCHANGED scenario
      PROVE VMInv'
  BY <1>50 DEF Examine_read
<1>51. ASSUME NEW verdict \in {"running", "at_safepoint", "call_back"}, Examine(verdict),
              UNCHANGED scenario
      PROVE VMInv'
  BY <1>51 DEF Examine, Verdict, Safe
<1>52. ASSUME UNCHANGED vars PROVE VMInv'
  BY <1>52 DEF vars
<1> HIDE DEF Typing, Locals, Local, ListInv, VMInv, VerdictInv
<1> QED
  BY <1>1, <1>2, <1>3, <1>4, <1>5, <1>6, <1>7, <1>8, <1>9, <1>10, <1>11, <1>12, <1>13,
     <1>14, <1>15, <1>16, <1>17, <1>18, <1>19, <1>20, <1>21, <1>22, <1>23, <1>24, <1>25,
     <1>26, <1>27, <1>28, <1>29, <1>30, <1>31, <1>32, <1>33, <1>34, <1>35, <1>36, <1>37,
     <1>38, <1>39, <1>40, <1>41, <1>42, <1>43, <1>44, <1>45, <1>46, <1>47, <1>48, <1>49,
     <1>50, <1>51, <1>52
  DEF Next, Choose, Continue, VMThread

\* With a fence after each transitional state the VM thread reads no state that a
\* thread has left for one.
LEMMA MembarStep ==
  ASSUME Typing, Locals, MembarInv, [Next]_vars PROVE MembarInv'
<1> USE SafepointAssumption DEF States, TransStates, None, At, Goto, KeepShared, KeepThreads,
    KeepSuspend, Store, StoreFence, StoreTrans, locks, threads, vm, states, suspend,
    local, Typing, Locals, Local, MembarInv
<1>1. ASSUME NEW t \in JavaThreads, Java_to_vm(t), UNCHANGED scenario
      PROVE MembarInv'
  BY <1>1 DEF Java_to_vm
<1>2. ASSUME NEW t \in JavaThreads, Java_to_native(t), UNCHANGED scenario
      PROVE MembarInv'
  BY <1>2 DEF Java_to_native
<1>3. ASSUME NEW t \in JavaThreads, Blocked_return(t), UNCHANGED scenario
      PROVE MembarInv'
  BY <1>3 DEF Blocked_return, Trans
<1>4. ASSUME NEW t \in JavaThreads, Blocked_suspend(t), UNCHANGED scenario
      PROVE MembarInv'
  BY <1>4 DEF Blocked_suspend
<1>5. ASSUME NEW t \in JavaThreads, Lock_fast(t), UNCHANGED scenario
      PROVE MembarInv'
  BY <1>5 DEF Lock_fast
<1>6. ASSUME NEW t \in JavaThreads, Lock_slow(t), UNCHANGED scenario
      PROVE MembarInv'
  BY <1>6 DEF Lock_slow, Trans
<1>7. ASSUME NEW t \in JavaThreads, Exit(t), UNCHANGED scenario PROVE MembarInv'
  BY <1>7 DEF Exit
<1>8. ASSUME NEW t \in JavaThreads, Delete(t), UNCHANGED scenario PROVE MembarInv'
  BY <1>8 DEF Delete
<1>9. ASSUME NEW t \in JavaThreads, Poll(t), UNCHANGED scenario PROVE MembarInv'
  BY <1>9 DEF Poll
<1>10. ASSUME NEW t \in JavaThreads, Run(t), UNCHANGED scenario PROVE MembarInv'
  BY <1>10 DEF Run, Trans
<1>11. ASSUME NEW t \in JavaThreads, Check(t), UNCHANGED scenario PROVE MembarInv'
  BY <1>11 DEF Check, do_call_back
<1>12. ASSUME NEW t \in JavaThreads, Set(t), UNCHANGED scenario PROVE MembarInv'
  BY <1>12 DEF Set, AfterSet
<1>13. ASSUME NEW t \in JavaThreads, Special(t), UNCHANGED scenario PROVE MembarInv'
  BY <1>13 DEF Special
<1>14. ASSUME NEW t \in JavaThreads, Native_check(t), UNCHANGED scenario
      PROVE MembarInv'
  BY <1>14 DEF Native_check, do_call_back
<1>15. ASSUME NEW t \in JavaThreads, Native_slow_suspend(t), UNCHANGED scenario
      PROVE MembarInv'
  BY <1>15 DEF Native_slow_suspend
<1>16. ASSUME NEW t \in JavaThreads, Native_slow_block(t), UNCHANGED scenario
      PROVE MembarInv'
  BY <1>16 DEF Native_slow_block
<1>17. ASSUME NEW t \in JavaThreads, Native_restore(t), UNCHANGED scenario
      PROVE MembarInv'
  BY <1>17 DEF Native_restore
<1>18. ASSUME NEW t \in JavaThreads, Block_terminated(t), UNCHANGED scenario
      PROVE MembarInv'
  BY <1>18 DEF Block_terminated
<1>19. ASSUME NEW t \in JavaThreads, Block_callback(t), UNCHANGED scenario
      PROVE MembarInv'
  BY <1>19 DEF Block_callback
<1>20. ASSUME NEW t \in JavaThreads, Block_lock(t), UNCHANGED scenario
      PROVE MembarInv'
  BY <1>20 DEF Block_lock
<1>21. ASSUME NEW t \in JavaThreads, Block_quiet(t), UNCHANGED scenario
      PROVE MembarInv'
  BY <1>21 DEF Block_quiet
<1>22. ASSUME NEW t \in JavaThreads, Line_up(t), UNCHANGED scenario PROVE MembarInv'
  BY <1>22 DEF Line_up
<1>23. ASSUME NEW t \in JavaThreads, Unblocked(t), UNCHANGED scenario
      PROVE MembarInv'
  BY <1>23 DEF Unblocked
<1>24. ASSUME NEW t \in JavaThreads, Self_suspend(t), UNCHANGED scenario
      PROVE MembarInv'
  BY <1>24 DEF Self_suspend
<1>25. ASSUME NEW t \in JavaThreads, Self_return(t), UNCHANGED scenario
      PROVE MembarInv'
  BY <1>25 DEF Self_return, AfterSelf
<1>26. ASSUME NEW t \in JavaThreads, Unlock(t), UNCHANGED scenario PROVE MembarInv'
  BY <1>26 DEF Unlock
<1>27. ASSUME NEW t \in JavaThreads, Remove(t), UNCHANGED scenario PROVE MembarInv'
  BY <1>27 DEF Remove
<1>28. ASSUME NEW t \in JavaThreads, NEW s \in {"vm", "Java"}, Native_return(t, s),
              UNCHANGED scenario
      PROVE MembarInv'
  BY <1>28 DEF Native_return, Trans
<1>29. ASSUME NEW t \in JavaThreads, NEW s \in {"Java", "native", "blocked"},
              Leave_vm(t, s), UNCHANGED scenario
      PROVE MembarInv'
  BY <1>29 DEF Leave_vm, Trans
<1>30. ASSUME NEW t \in JavaThreads, NEW c \in JavaThreads, Suspend(t, c),
              UNCHANGED scenario
      PROVE MembarInv'
  BY <1>30 DEF Suspend
<1>31. ASSUME NEW t \in JavaThreads, NEW c \in JavaThreads, Suspend_return(t, c),
              UNCHANGED scenario
      PROVE MembarInv'
  BY <1>31 DEF Suspend_return, Ext_suspend_completed
<1>32. ASSUME NEW t \in JavaThreads, NEW c \in JavaThreads, Create(t, c),
              UNCHANGED scenario
      PROVE MembarInv'
  BY <1>32 DEF Create
<1>33. ASSUME NEW t \in JavaThreads, NEW c \in JavaThreads, Start(t, c),
              UNCHANGED scenario
      PROVE MembarInv'
  BY <1>33 DEF Start
<1>34. ASSUME NEW t \in JavaThreads, NEW c \in JavaThreads, Resume(t, c),
              UNCHANGED scenario
      PROVE MembarInv'
  BY <1>34 DEF Resume
<1>35. ASSUME NEW t \in JavaThreads, Drain(t) PROVE MembarInv'
  BY <1>35 DEF Drain
<1>36. CASE VMThread
  BY <1>36, VMLeavesThreads
<1>37. ASSUME UNCHANGED vars PROVE MembarInv'
  BY <1>37 DEF vars
<1> HIDE DEF Typing, Locals, Local, MembarInv
<1> QED
  BY <1>1, <1>2, <1>3, <1>4, <1>5, <1>6, <1>7, <1>8, <1>9, <1>10, <1>11, <1>12, <1>13,
     <1>14, <1>15, <1>16, <1>17, <1>18, <1>19, <1>20, <1>21, <1>22, <1>23, <1>24, <1>25,
     <1>26, <1>27, <1>28, <1>29, <1>30, <1>31, <1>32, <1>33, <1>34, <1>35, <1>36, <1>37
  DEF Next, Choose, Continue

\* serialize_thread_states(), or the fences, establish ReadInv; a thread that comes to
\* a safe state later finds _state changed and stays stopped.
LEMMA ReadStep ==
  ASSUME Inv, [Next]_vars PROVE ReadInv'
<1> USE SafepointAssumption DEF States, TransStates, None, At, Goto, KeepShared, KeepThreads,
    KeepSuspend, Store, StoreFence, StoreTrans, locks, threads, vm, states, suspend,
    local, Typing, Locals, Local, ListInv, VMInv, Running, Inv, MembarInv, ReadInv,
    VerdictInv, Stopped, InVM, do_call_back
<1>1. ASSUME NEW t \in JavaThreads, Java_to_vm(t), UNCHANGED scenario PROVE ReadInv'
  BY <1>1 DEF Java_to_vm
<1>2. ASSUME NEW t \in JavaThreads, Java_to_native(t), UNCHANGED scenario
      PROVE ReadInv'
  BY <1>2 DEF Java_to_native
<1>3. ASSUME NEW t \in JavaThreads, Blocked_return(t), UNCHANGED scenario
      PROVE ReadInv'
  BY <1>3 DEF Blocked_return, Trans
<1>4. ASSUME NEW t \in JavaThreads, Blocked_suspend(t), UNCHANGED scenario
      PROVE ReadInv'
  BY <1>4 DEF Blocked_suspend
<1>5. ASSUME NEW t \in JavaThreads, Lock_fast(t), UNCHANGED scenario PROVE ReadInv'
  BY <1>5 DEF Lock_fast
<1>6. ASSUME NEW t \in JavaThreads, Lock_slow(t), UNCHANGED scenario PROVE ReadInv'
  BY <1>6 DEF Lock_slow, Trans
<1>7. ASSUME NEW t \in JavaThreads, Exit(t), UNCHANGED scenario PROVE ReadInv'
  BY <1>7 DEF Exit
<1>8. ASSUME NEW t \in JavaThreads, Delete(t), UNCHANGED scenario PROVE ReadInv'
  BY <1>8 DEF Delete
<1>9. ASSUME NEW t \in JavaThreads, Poll(t), UNCHANGED scenario PROVE ReadInv'
  BY <1>9 DEF Poll
<1>10. ASSUME NEW t \in JavaThreads, Run(t), UNCHANGED scenario PROVE ReadInv'
  BY <1>10 DEF Run, Trans
<1>11. ASSUME NEW t \in JavaThreads, Check(t), UNCHANGED scenario PROVE ReadInv'
  BY <1>11 DEF Check, do_call_back
<1>12. ASSUME NEW t \in JavaThreads, Set(t), UNCHANGED scenario PROVE ReadInv'
  BY <1>12 DEF Set, AfterSet
<1>13. ASSUME NEW t \in JavaThreads, Special(t), UNCHANGED scenario PROVE ReadInv'
  BY <1>13 DEF Special
<1>14. ASSUME NEW t \in JavaThreads, Native_check(t), UNCHANGED scenario
      PROVE ReadInv'
  BY <1>14 DEF Native_check, do_call_back
<1>15. ASSUME NEW t \in JavaThreads, Native_slow_suspend(t), UNCHANGED scenario
      PROVE ReadInv'
  BY <1>15 DEF Native_slow_suspend
<1>16. ASSUME NEW t \in JavaThreads, Native_slow_block(t), UNCHANGED scenario
      PROVE ReadInv'
  BY <1>16 DEF Native_slow_block
<1>17. ASSUME NEW t \in JavaThreads, Native_restore(t), UNCHANGED scenario
      PROVE ReadInv'
  BY <1>17 DEF Native_restore
<1>18. ASSUME NEW t \in JavaThreads, Block_terminated(t), UNCHANGED scenario
      PROVE ReadInv'
  BY <1>18 DEF Block_terminated
<1>19. ASSUME NEW t \in JavaThreads, Block_callback(t), UNCHANGED scenario
      PROVE ReadInv'
  BY <1>19 DEF Block_callback
<1>20. ASSUME NEW t \in JavaThreads, Block_lock(t), UNCHANGED scenario
      PROVE ReadInv'
  BY <1>20 DEF Block_lock
<1>21. ASSUME NEW t \in JavaThreads, Block_quiet(t), UNCHANGED scenario
      PROVE ReadInv'
  BY <1>21 DEF Block_quiet
<1>22. ASSUME NEW t \in JavaThreads, Line_up(t), UNCHANGED scenario PROVE ReadInv'
  BY <1>22 DEF Line_up
<1>23. ASSUME NEW t \in JavaThreads, Unblocked(t), UNCHANGED scenario PROVE ReadInv'
  BY <1>23 DEF Unblocked
<1>24. ASSUME NEW t \in JavaThreads, Self_suspend(t), UNCHANGED scenario
      PROVE ReadInv'
  BY <1>24 DEF Self_suspend
<1>25. ASSUME NEW t \in JavaThreads, Self_return(t), UNCHANGED scenario
      PROVE ReadInv'
  BY <1>25 DEF Self_return, AfterSelf
<1>26. ASSUME NEW t \in JavaThreads, Unlock(t), UNCHANGED scenario PROVE ReadInv'
  BY <1>26 DEF Unlock
<1>27. ASSUME NEW t \in JavaThreads, Remove(t), UNCHANGED scenario PROVE ReadInv'
  BY <1>27 DEF Remove
<1>28. ASSUME NEW t \in JavaThreads, NEW s \in {"vm", "Java"}, Native_return(t, s),
              UNCHANGED scenario
      PROVE ReadInv'
  BY <1>28 DEF Native_return, Trans
<1>29. ASSUME NEW t \in JavaThreads, NEW s \in {"Java", "native", "blocked"},
              Leave_vm(t, s), UNCHANGED scenario
      PROVE ReadInv'
  BY <1>29 DEF Leave_vm, Trans
<1>30. ASSUME NEW t \in JavaThreads, NEW c \in JavaThreads, Suspend(t, c),
              UNCHANGED scenario
      PROVE ReadInv'
  BY <1>30 DEF Suspend
<1>31. ASSUME NEW t \in JavaThreads, NEW c \in JavaThreads, Suspend_return(t, c),
              UNCHANGED scenario
      PROVE ReadInv'
  BY <1>31 DEF Suspend_return, Ext_suspend_completed
<1>32. ASSUME NEW t \in JavaThreads, NEW c \in JavaThreads, Create(t, c),
              UNCHANGED scenario
      PROVE ReadInv'
  BY <1>32 DEF Create
<1>33. ASSUME NEW t \in JavaThreads, NEW c \in JavaThreads, Start(t, c),
              UNCHANGED scenario
      PROVE ReadInv'
  BY <1>33 DEF Start
<1>34. ASSUME NEW t \in JavaThreads, NEW c \in JavaThreads, Resume(t, c),
              UNCHANGED scenario
      PROVE ReadInv'
  BY <1>34 DEF Resume
<1>35. ASSUME NEW t \in JavaThreads, Drain(t) PROVE ReadInv'
  BY <1>35 DEF Drain
<1>36. ASSUME Begin_lock, UNCHANGED scenario PROVE ReadInv'
  BY <1>36 DEF Begin_lock
<1>37. ASSUME Begin_synchronizing, UNCHANGED scenario PROVE ReadInv'
  BY <1>37 DEF Begin_synchronizing
<1>38. ASSUME Begin_serialize, UNCHANGED scenario PROVE ReadInv'
  BY <1>38 DEF Begin_serialize
<1>39. ASSUME Begin_arm, UNCHANGED scenario PROVE ReadInv'
  BY <1>39 DEF Begin_arm
<1>40. ASSUME Next_pass, UNCHANGED scenario PROVE ReadInv'
  BY <1>40 DEF Next_pass
<1>41. ASSUME Begin_wait, UNCHANGED scenario PROVE ReadInv'
  BY <1>41 DEF Begin_wait
<1>42. ASSUME Begin_notified, UNCHANGED scenario PROVE ReadInv'
  BY <1>42 DEF Begin_notified
<1>43. ASSUME Begin_counter, UNCHANGED scenario PROVE ReadInv'
  BY <1>43 DEF Begin_counter
<1>44. ASSUME Begin_synchronized, UNCHANGED scenario PROVE ReadInv'
  BY <1>44 DEF Begin_synchronized
<1>45. ASSUME Operation, UNCHANGED scenario PROVE ReadInv'
  BY <1>45 DEF Operation
<1>46. ASSUME End_counter, UNCHANGED scenario PROVE ReadInv'
  BY <1>46 DEF End_counter
<1>47. ASSUME End_disarm, UNCHANGED scenario PROVE ReadInv'
  BY <1>47 DEF End_disarm
<1>48. ASSUME End_state, UNCHANGED scenario PROVE ReadInv'
  BY <1>48 DEF End_state
<1>49. ASSUME End_restart, UNCHANGED scenario PROVE ReadInv'
  BY <1>49 DEF End_restart
<1>50. ASSUME NEW t \in JavaThreads, Examine_read(t), UNCHANGED scenario
      PROVE ReadInv'
  BY <1>50 DEF Examine_read
<1>51. ASSUME NEW verdict \in {"running", "at_safepoint", "call_back"}, Examine(verdict),
              UNCHANGED scenario
      PROVE ReadInv'
  BY <1>51 DEF Examine, Verdict, Safe
<1>52. ASSUME UNCHANGED vars PROVE ReadInv'
  BY <1>52 DEF vars
<1> HIDE DEF Typing, Locals, Local, ListInv, VMInv, MembarInv, ReadInv, VerdictInv, Inv
<1> QED
  BY <1>1, <1>2, <1>3, <1>4, <1>5, <1>6, <1>7, <1>8, <1>9, <1>10, <1>11, <1>12, <1>13,
     <1>14, <1>15, <1>16, <1>17, <1>18, <1>19, <1>20, <1>21, <1>22, <1>23, <1>24, <1>25,
     <1>26, <1>27, <1>28, <1>29, <1>30, <1>31, <1>32, <1>33, <1>34, <1>35, <1>36, <1>37,
     <1>38, <1>39, <1>40, <1>41, <1>42, <1>43, <1>44, <1>45, <1>46, <1>47, <1>48, <1>49,
     <1>50, <1>51, <1>52
  DEF Next, Choose, Continue, VMThread

\* The sets that _waiting_to_block counts are finite and disjoint.
LEMMA FiniteParts ==
  ASSUME Typing
  PROVE  /\ IsFiniteSet(Running) /\ IsFiniteSet(Callers)
         /\ Cardinality(Running) \in Nat /\ Cardinality(Callers) \in Nat
         /\ Cardinality(Running) + Cardinality(Callers) <= Cardinality(JavaThreads)
<1>1. Running \in SUBSET JavaThreads /\ Callers \in SUBSET JavaThreads
  BY DEF Typing, Running, Callers
<1>2. Running \cap Callers = {}
  BY DEF Running, Callers
<1>3. IsFiniteSet(JavaThreads)
  BY SafepointAssumption
<1>4. IsFiniteSet(Running) /\ IsFiniteSet(Callers)
  BY <1>1, <1>3, FS_Subset
<1>5. Running \cup Callers \in SUBSET JavaThreads
  BY <1>1
<1>6. /\ Cardinality(Running) \in Nat /\ Cardinality(Callers) \in Nat
      /\ Cardinality(JavaThreads) \in Nat
  BY <1>3, <1>4, FS_CardinalityType
<1>7. Cardinality(Running \cup Callers) = Cardinality(Running) + Cardinality(Callers)
  <2>1. Cardinality(Running \cap Callers) = 0
    BY <1>2, FS_EmptySet
  <2>2. Cardinality(Running \cup Callers) =
          Cardinality(Running) + Cardinality(Callers) - Cardinality(Running \cap Callers)
    BY <1>4, FS_Union
  <2> QED
    BY <1>6, <2>1, <2>2
<1>8. Cardinality(Running \cup Callers) <= Cardinality(JavaThreads)
  BY <1>3, <1>5, FS_Subset
<1> QED
  BY <1>4, <1>6, <1>7, <1>8

\* When the VM thread has nobody to wait for, everybody is accounted for.
LEMMA NoneLeft ==
  ASSUME Typing, CountInv, Counting, waiting_to_block = 0
  PROVE  Running = {} /\ Callers = {}
<1>1. Cardinality(Running) + Cardinality(Callers) = 0
  BY DEF CountInv
<1>2. Cardinality(Running) = 0 /\ Cardinality(Callers) = 0
  BY <1>1, FiniteParts
<1> QED
  BY <1>2, FiniteParts, FS_EmptySet

\* A verdict stays true: no stopped thread gets away before end() has changed _state,
\* and a thread that was asked to call back does nothing else.
LEMMA VerdictStep ==
  ASSUME Inv, [Next]_vars PROVE VerdictInv'
<1> USE SafepointAssumption DEF States, TransStates, None, At, Goto, KeepShared, KeepThreads,
    KeepSuspend, Store, StoreFence, StoreTrans, locks, threads, vm, states, suspend,
    local, Typing, Locals, Local, ListInv, VMInv, Running, Inv, ReadInv, VerdictInv,
    Stopped, InVM, do_call_back
<1>1. ASSUME NEW t \in JavaThreads, Java_to_vm(t), UNCHANGED scenario
      PROVE VerdictInv'
  BY <1>1 DEF Java_to_vm
<1>2. ASSUME NEW t \in JavaThreads, Java_to_native(t), UNCHANGED scenario
      PROVE VerdictInv'
  BY <1>2 DEF Java_to_native
<1>3. ASSUME NEW t \in JavaThreads, Blocked_return(t), UNCHANGED scenario
      PROVE VerdictInv'
  BY <1>3 DEF Blocked_return, Trans
<1>4. ASSUME NEW t \in JavaThreads, Blocked_suspend(t), UNCHANGED scenario
      PROVE VerdictInv'
  BY <1>4 DEF Blocked_suspend
<1>5. ASSUME NEW t \in JavaThreads, Lock_fast(t), UNCHANGED scenario
      PROVE VerdictInv'
  BY <1>5 DEF Lock_fast
<1>6. ASSUME NEW t \in JavaThreads, Lock_slow(t), UNCHANGED scenario
      PROVE VerdictInv'
  BY <1>6 DEF Lock_slow, Trans
<1>7. ASSUME NEW t \in JavaThreads, Exit(t), UNCHANGED scenario PROVE VerdictInv'
  BY <1>7 DEF Exit
<1>8. ASSUME NEW t \in JavaThreads, Delete(t), UNCHANGED scenario PROVE VerdictInv'
  BY <1>8 DEF Delete
<1>9. ASSUME NEW t \in JavaThreads, Poll(t), UNCHANGED scenario PROVE VerdictInv'
  BY <1>9 DEF Poll
<1>10. ASSUME NEW t \in JavaThreads, Run(t), UNCHANGED scenario PROVE VerdictInv'
  BY <1>10 DEF Run, Trans
<1>11. ASSUME NEW t \in JavaThreads, Check(t), UNCHANGED scenario PROVE VerdictInv'
  BY <1>11 DEF Check, do_call_back
<1>12. ASSUME NEW t \in JavaThreads, Set(t), UNCHANGED scenario PROVE VerdictInv'
  BY <1>12 DEF Set, AfterSet
<1>13. ASSUME NEW t \in JavaThreads, Special(t), UNCHANGED scenario
      PROVE VerdictInv'
  BY <1>13 DEF Special
<1>14. ASSUME NEW t \in JavaThreads, Native_check(t), UNCHANGED scenario
      PROVE VerdictInv'
  BY <1>14 DEF Native_check, do_call_back
<1>15. ASSUME NEW t \in JavaThreads, Native_slow_suspend(t), UNCHANGED scenario
      PROVE VerdictInv'
  BY <1>15 DEF Native_slow_suspend
<1>16. ASSUME NEW t \in JavaThreads, Native_slow_block(t), UNCHANGED scenario
      PROVE VerdictInv'
  BY <1>16 DEF Native_slow_block
<1>17. ASSUME NEW t \in JavaThreads, Native_restore(t), UNCHANGED scenario
      PROVE VerdictInv'
  BY <1>17 DEF Native_restore
<1>18. ASSUME NEW t \in JavaThreads, Block_terminated(t), UNCHANGED scenario
      PROVE VerdictInv'
  BY <1>18 DEF Block_terminated
<1>19. ASSUME NEW t \in JavaThreads, Block_callback(t), UNCHANGED scenario
      PROVE VerdictInv'
  BY <1>19 DEF Block_callback
<1>20. ASSUME NEW t \in JavaThreads, Block_lock(t), UNCHANGED scenario
      PROVE VerdictInv'
  BY <1>20 DEF Block_lock
<1>21. ASSUME NEW t \in JavaThreads, Block_quiet(t), UNCHANGED scenario
      PROVE VerdictInv'
  BY <1>21 DEF Block_quiet
<1>22. ASSUME NEW t \in JavaThreads, Line_up(t), UNCHANGED scenario
      PROVE VerdictInv'
  BY <1>22 DEF Line_up
<1>23. ASSUME NEW t \in JavaThreads, Unblocked(t), UNCHANGED scenario
      PROVE VerdictInv'
  BY <1>23 DEF Unblocked
<1>24. ASSUME NEW t \in JavaThreads, Self_suspend(t), UNCHANGED scenario
      PROVE VerdictInv'
  BY <1>24 DEF Self_suspend
<1>25. ASSUME NEW t \in JavaThreads, Self_return(t), UNCHANGED scenario
      PROVE VerdictInv'
  BY <1>25 DEF Self_return, AfterSelf
<1>26. ASSUME NEW t \in JavaThreads, Unlock(t), UNCHANGED scenario PROVE VerdictInv'
  BY <1>26 DEF Unlock
<1>27. ASSUME NEW t \in JavaThreads, Remove(t), UNCHANGED scenario PROVE VerdictInv'
  BY <1>27 DEF Remove
<1>28. ASSUME NEW t \in JavaThreads, NEW s \in {"vm", "Java"}, Native_return(t, s),
              UNCHANGED scenario
      PROVE VerdictInv'
  BY <1>28 DEF Native_return, Trans
<1>29. ASSUME NEW t \in JavaThreads, NEW s \in {"Java", "native", "blocked"},
              Leave_vm(t, s), UNCHANGED scenario
      PROVE VerdictInv'
  BY <1>29 DEF Leave_vm, Trans
<1>30. ASSUME NEW t \in JavaThreads, NEW c \in JavaThreads, Suspend(t, c),
              UNCHANGED scenario
      PROVE VerdictInv'
  BY <1>30 DEF Suspend
<1>31. ASSUME NEW t \in JavaThreads, NEW c \in JavaThreads, Suspend_return(t, c),
              UNCHANGED scenario
      PROVE VerdictInv'
  BY <1>31 DEF Suspend_return, Ext_suspend_completed
<1>32. ASSUME NEW t \in JavaThreads, NEW c \in JavaThreads, Create(t, c),
              UNCHANGED scenario
      PROVE VerdictInv'
  BY <1>32 DEF Create
<1>33. ASSUME NEW t \in JavaThreads, NEW c \in JavaThreads, Start(t, c),
              UNCHANGED scenario
      PROVE VerdictInv'
  BY <1>33 DEF Start
<1>34. ASSUME NEW t \in JavaThreads, NEW c \in JavaThreads, Resume(t, c),
              UNCHANGED scenario
      PROVE VerdictInv'
  BY <1>34 DEF Resume
<1>35. ASSUME NEW t \in JavaThreads, Drain(t) PROVE VerdictInv'
  BY <1>35 DEF Drain
<1>36. ASSUME Begin_lock, UNCHANGED scenario PROVE VerdictInv'
  BY <1>36 DEF Begin_lock
<1>37. ASSUME Begin_synchronizing, UNCHANGED scenario PROVE VerdictInv'
  BY <1>37 DEF Begin_synchronizing
<1>38. ASSUME Begin_serialize, UNCHANGED scenario PROVE VerdictInv'
  BY <1>38 DEF Begin_serialize
<1>39. ASSUME Begin_arm, UNCHANGED scenario PROVE VerdictInv'
  BY <1>39 DEF Begin_arm
<1>40. ASSUME Next_pass, UNCHANGED scenario PROVE VerdictInv'
  BY <1>40 DEF Next_pass
<1>41. ASSUME Begin_wait, UNCHANGED scenario PROVE VerdictInv'
  BY <1>41 DEF Begin_wait
<1>42. ASSUME Begin_notified, UNCHANGED scenario PROVE VerdictInv'
  BY <1>42 DEF Begin_notified
<1>43. ASSUME Begin_counter, UNCHANGED scenario PROVE VerdictInv'
  <2>1. Callers = {}
    BY <1>43, NoneLeft DEF Begin_counter, Counting
  <2> QED
    BY <1>43, <2>1 DEF Begin_counter, Callers
<1>44. ASSUME Begin_synchronized, UNCHANGED scenario PROVE VerdictInv'
  BY <1>44 DEF Begin_synchronized
<1>45. ASSUME Operation, UNCHANGED scenario PROVE VerdictInv'
  BY <1>45 DEF Operation
<1>46. ASSUME End_counter, UNCHANGED scenario PROVE VerdictInv'
  BY <1>46 DEF End_counter
<1>47. ASSUME End_disarm, UNCHANGED scenario PROVE VerdictInv'
  BY <1>47 DEF End_disarm
<1>48. ASSUME End_state, UNCHANGED scenario PROVE VerdictInv'
  BY <1>48 DEF End_state
<1>49. ASSUME End_restart, UNCHANGED scenario PROVE VerdictInv'
  BY <1>49 DEF End_restart
<1>50. ASSUME NEW t \in JavaThreads, Examine_read(t), UNCHANGED scenario
      PROVE VerdictInv'
  BY <1>50 DEF Examine_read
<1>51. ASSUME NEW verdict \in {"running", "at_safepoint", "call_back"}, Examine(verdict),
              UNCHANGED scenario
      PROVE VerdictInv'
  BY <1>51 DEF Examine, Verdict, Safe
<1>52. ASSUME UNCHANGED vars PROVE VerdictInv'
  BY <1>52 DEF vars
<1> HIDE DEF Typing, Locals, Local, ListInv, VMInv, ReadInv, VerdictInv, Inv
<1> QED
  BY <1>1, <1>2, <1>3, <1>4, <1>5, <1>6, <1>7, <1>8, <1>9, <1>10, <1>11, <1>12, <1>13,
     <1>14, <1>15, <1>16, <1>17, <1>18, <1>19, <1>20, <1>21, <1>22, <1>23, <1>24, <1>25,
     <1>26, <1>27, <1>28, <1>29, <1>30, <1>31, <1>32, <1>33, <1>34, <1>35, <1>36, <1>37,
     <1>38, <1>39, <1>40, <1>41, <1>42, <1>43, <1>44, <1>45, <1>46, <1>47, <1>48, <1>49,
     <1>50, <1>51, <1>52
  DEF Next, Choose, Continue, VMThread

\* A thread that has trapped on the polling page is waited for.
LEMMA PollStep ==
  ASSUME Inv, [Next]_vars PROVE PollInv'
<1> USE SafepointAssumption DEF States, TransStates, None, At, Goto, KeepShared, KeepThreads,
    KeepSuspend, Store, StoreFence, StoreTrans, locks, threads, vm, states, suspend,
    local, Typing, Locals, Local, ListInv, VMInv, Running, Inv, PollInv, VerdictInv,
    Stopped, InVM
<1>1. ASSUME NEW t \in JavaThreads, Java_to_vm(t), UNCHANGED scenario PROVE PollInv'
  BY <1>1 DEF Java_to_vm
<1>2. ASSUME NEW t \in JavaThreads, Java_to_native(t), UNCHANGED scenario
      PROVE PollInv'
  BY <1>2 DEF Java_to_native
<1>3. ASSUME NEW t \in JavaThreads, Blocked_return(t), UNCHANGED scenario
      PROVE PollInv'
  BY <1>3 DEF Blocked_return, Trans
<1>4. ASSUME NEW t \in JavaThreads, Blocked_suspend(t), UNCHANGED scenario
      PROVE PollInv'
  BY <1>4 DEF Blocked_suspend
<1>5. ASSUME NEW t \in JavaThreads, Lock_fast(t), UNCHANGED scenario PROVE PollInv'
  BY <1>5 DEF Lock_fast
<1>6. ASSUME NEW t \in JavaThreads, Lock_slow(t), UNCHANGED scenario PROVE PollInv'
  BY <1>6 DEF Lock_slow, Trans
<1>7. ASSUME NEW t \in JavaThreads, Exit(t), UNCHANGED scenario PROVE PollInv'
  BY <1>7 DEF Exit
<1>8. ASSUME NEW t \in JavaThreads, Delete(t), UNCHANGED scenario PROVE PollInv'
  BY <1>8 DEF Delete
<1>9. ASSUME NEW t \in JavaThreads, Poll(t), UNCHANGED scenario PROVE PollInv'
  BY <1>9 DEF Poll
<1>10. ASSUME NEW t \in JavaThreads, Run(t), UNCHANGED scenario PROVE PollInv'
  BY <1>10 DEF Run, Trans
<1>11. ASSUME NEW t \in JavaThreads, Check(t), UNCHANGED scenario PROVE PollInv'
  BY <1>11 DEF Check, do_call_back
<1>12. ASSUME NEW t \in JavaThreads, Set(t), UNCHANGED scenario PROVE PollInv'
  BY <1>12 DEF Set, AfterSet
<1>13. ASSUME NEW t \in JavaThreads, Special(t), UNCHANGED scenario PROVE PollInv'
  BY <1>13 DEF Special
<1>14. ASSUME NEW t \in JavaThreads, Native_check(t), UNCHANGED scenario
      PROVE PollInv'
  BY <1>14 DEF Native_check, do_call_back
<1>15. ASSUME NEW t \in JavaThreads, Native_slow_suspend(t), UNCHANGED scenario
      PROVE PollInv'
  BY <1>15 DEF Native_slow_suspend
<1>16. ASSUME NEW t \in JavaThreads, Native_slow_block(t), UNCHANGED scenario
      PROVE PollInv'
  BY <1>16 DEF Native_slow_block
<1>17. ASSUME NEW t \in JavaThreads, Native_restore(t), UNCHANGED scenario
      PROVE PollInv'
  BY <1>17 DEF Native_restore
<1>18. ASSUME NEW t \in JavaThreads, Block_terminated(t), UNCHANGED scenario
      PROVE PollInv'
  BY <1>18 DEF Block_terminated
<1>19. ASSUME NEW t \in JavaThreads, Block_callback(t), UNCHANGED scenario
      PROVE PollInv'
  BY <1>19 DEF Block_callback
<1>20. ASSUME NEW t \in JavaThreads, Block_lock(t), UNCHANGED scenario
      PROVE PollInv'
  BY <1>20 DEF Block_lock
<1>21. ASSUME NEW t \in JavaThreads, Block_quiet(t), UNCHANGED scenario
      PROVE PollInv'
  BY <1>21 DEF Block_quiet
<1>22. ASSUME NEW t \in JavaThreads, Line_up(t), UNCHANGED scenario PROVE PollInv'
  BY <1>22 DEF Line_up
<1>23. ASSUME NEW t \in JavaThreads, Unblocked(t), UNCHANGED scenario PROVE PollInv'
  BY <1>23 DEF Unblocked
<1>24. ASSUME NEW t \in JavaThreads, Self_suspend(t), UNCHANGED scenario
      PROVE PollInv'
  BY <1>24 DEF Self_suspend
<1>25. ASSUME NEW t \in JavaThreads, Self_return(t), UNCHANGED scenario
      PROVE PollInv'
  BY <1>25 DEF Self_return, AfterSelf
<1>26. ASSUME NEW t \in JavaThreads, Unlock(t), UNCHANGED scenario PROVE PollInv'
  BY <1>26 DEF Unlock
<1>27. ASSUME NEW t \in JavaThreads, Remove(t), UNCHANGED scenario PROVE PollInv'
  BY <1>27 DEF Remove
<1>28. ASSUME NEW t \in JavaThreads, NEW s \in {"vm", "Java"}, Native_return(t, s),
              UNCHANGED scenario
      PROVE PollInv'
  BY <1>28 DEF Native_return, Trans
<1>29. ASSUME NEW t \in JavaThreads, NEW s \in {"Java", "native", "blocked"},
              Leave_vm(t, s), UNCHANGED scenario
      PROVE PollInv'
  BY <1>29 DEF Leave_vm, Trans
<1>30. ASSUME NEW t \in JavaThreads, NEW c \in JavaThreads, Suspend(t, c),
              UNCHANGED scenario
      PROVE PollInv'
  BY <1>30 DEF Suspend
<1>31. ASSUME NEW t \in JavaThreads, NEW c \in JavaThreads, Suspend_return(t, c),
              UNCHANGED scenario
      PROVE PollInv'
  BY <1>31 DEF Suspend_return, Ext_suspend_completed
<1>32. ASSUME NEW t \in JavaThreads, NEW c \in JavaThreads, Create(t, c),
              UNCHANGED scenario
      PROVE PollInv'
  BY <1>32 DEF Create
<1>33. ASSUME NEW t \in JavaThreads, NEW c \in JavaThreads, Start(t, c),
              UNCHANGED scenario
      PROVE PollInv'
  BY <1>33 DEF Start
<1>34. ASSUME NEW t \in JavaThreads, NEW c \in JavaThreads, Resume(t, c),
              UNCHANGED scenario
      PROVE PollInv'
  BY <1>34 DEF Resume
<1>35. ASSUME NEW t \in JavaThreads, Drain(t) PROVE PollInv'
  BY <1>35 DEF Drain
<1>36. ASSUME Begin_lock, UNCHANGED scenario PROVE PollInv'
  BY <1>36 DEF Begin_lock
<1>37. ASSUME Begin_synchronizing, UNCHANGED scenario PROVE PollInv'
  BY <1>37 DEF Begin_synchronizing
<1>38. ASSUME Begin_serialize, UNCHANGED scenario PROVE PollInv'
  BY <1>38 DEF Begin_serialize
<1>39. ASSUME Begin_arm, UNCHANGED scenario PROVE PollInv'
  BY <1>39 DEF Begin_arm
<1>40. ASSUME Next_pass, UNCHANGED scenario PROVE PollInv'
  BY <1>40 DEF Next_pass
<1>41. ASSUME Begin_wait, UNCHANGED scenario PROVE PollInv'
  BY <1>41 DEF Begin_wait
<1>42. ASSUME Begin_notified, UNCHANGED scenario PROVE PollInv'
  BY <1>42 DEF Begin_notified
<1>43. ASSUME Begin_counter, UNCHANGED scenario PROVE PollInv'
  BY <1>43 DEF Begin_counter
<1>44. ASSUME Begin_synchronized, UNCHANGED scenario PROVE PollInv'
  BY <1>44 DEF Begin_synchronized
<1>45. ASSUME Operation, UNCHANGED scenario PROVE PollInv'
  BY <1>45 DEF Operation
<1>46. ASSUME End_counter, UNCHANGED scenario PROVE PollInv'
  BY <1>46 DEF End_counter
<1>47. ASSUME End_disarm, UNCHANGED scenario PROVE PollInv'
  BY <1>47 DEF End_disarm
<1>48. ASSUME End_state, UNCHANGED scenario PROVE PollInv'
  BY <1>48 DEF End_state
<1>49. ASSUME End_restart, UNCHANGED scenario PROVE PollInv'
  BY <1>49 DEF End_restart
<1>50. ASSUME NEW t \in JavaThreads, Examine_read(t), UNCHANGED scenario
      PROVE PollInv'
  BY <1>50 DEF Examine_read
<1>51. ASSUME NEW verdict \in {"running", "at_safepoint", "call_back"}, Examine(verdict),
              UNCHANGED scenario
      PROVE PollInv'
  BY <1>51 DEF Examine, Verdict, Safe
<1>52. ASSUME UNCHANGED vars PROVE PollInv'
  BY <1>52 DEF vars
<1> HIDE DEF Typing, Locals, Local, ListInv, VMInv, PollInv, VerdictInv, Inv
<1> QED
  BY <1>1, <1>2, <1>3, <1>4, <1>5, <1>6, <1>7, <1>8, <1>9, <1>10, <1>11, <1>12, <1>13,
     <1>14, <1>15, <1>16, <1>17, <1>18, <1>19, <1>20, <1>21, <1>22, <1>23, <1>24, <1>25,
     <1>26, <1>27, <1>28, <1>29, <1>30, <1>31, <1>32, <1>33, <1>34, <1>35, <1>36, <1>37,
     <1>38, <1>39, <1>40, <1>41, <1>42, <1>43, <1>44, <1>45, <1>46, <1>47, <1>48, <1>49,
     <1>50, <1>51, <1>52
  DEF Next, Choose, Continue, VMThread

\* What most steps do to the count: nothing.
CountFrame ==
  /\ waiting_to_block' = waiting_to_block
  /\ Counting' = Counting
  /\ Counting => Running' = Running /\ Callers' = Callers

\* Only begin() and the call back of a thread change the count.
LEMMA CountFrames ==
  ASSUME Inv, [Next]_vars PROVE CountFrame \/ CountInv'
<1> USE SafepointAssumption DEF States, TransStates, None, At, Goto, KeepShared, KeepThreads,
    KeepSuspend, Store, StoreFence, StoreTrans, locks, threads, vm, states, suspend,
    local, Typing, Locals, Local, ListInv, VMInv, Running, Inv, VerdictInv, Stopped, InVM
<1>1. ASSUME NEW t \in JavaThreads, Java_to_vm(t), UNCHANGED scenario
      PROVE CountFrame \/ CountInv'
  BY <1>1 DEF Java_to_vm, CountFrame, Callers, Counting
<1>2. ASSUME NEW t \in JavaThreads, Java_to_native(t), UNCHANGED scenario
      PROVE CountFrame \/ CountInv'
  BY <1>2 DEF Java_to_native, CountFrame, Callers, Counting
<1>3. ASSUME NEW t \in JavaThreads, Blocked_return(t), UNCHANGED scenario
      PROVE CountFrame \/ CountInv'
  BY <1>3 DEF Blocked_return, Trans, CountFrame, Callers, Counting
<1>4. ASSUME NEW t \in JavaThreads, Blocked_suspend(t), UNCHANGED scenario
      PROVE CountFrame \/ CountInv'
  BY <1>4 DEF Blocked_suspend, CountFrame, Callers, Counting
<1>5. ASSUME NEW t \in JavaThreads, Lock_fast(t), UNCHANGED scenario
      PROVE CountFrame \/ CountInv'
  BY <1>5 DEF Lock_fast, CountFrame, Callers, Counting
<1>6. ASSUME NEW t \in JavaThreads, Lock_slow(t), UNCHANGED scenario
      PROVE CountFrame \/ CountInv'
  BY <1>6 DEF Lock_slow, Trans, CountFrame, Callers, Counting
<1>7. ASSUME NEW t \in JavaThreads, Exit(t), UNCHANGED scenario
      PROVE CountFrame \/ CountInv'
  BY <1>7 DEF Exit, CountFrame, Callers, Counting
<1>8. ASSUME NEW t \in JavaThreads, Delete(t), UNCHANGED scenario
      PROVE CountFrame \/ CountInv'
  BY <1>8 DEF Delete, CountFrame, Callers, Counting
<1>9. ASSUME NEW t \in JavaThreads, Poll(t), UNCHANGED scenario
      PROVE CountFrame \/ CountInv'
  BY <1>9 DEF Poll, CountFrame, Callers, Counting
<1>10. ASSUME NEW t \in JavaThreads, Run(t), UNCHANGED scenario
      PROVE CountFrame \/ CountInv'
  BY <1>10 DEF Run, Trans, CountFrame, Callers, Counting
<1>11. ASSUME NEW t \in JavaThreads, Check(t), UNCHANGED scenario
      PROVE CountFrame \/ CountInv'
  BY <1>11 DEF Check, do_call_back, CountFrame, Callers, Counting
<1>12. ASSUME NEW t \in JavaThreads, Set(t), UNCHANGED scenario
      PROVE CountFrame \/ CountInv'
  BY <1>12 DEF Set, AfterSet, CountFrame, Callers, Counting
<1>13. ASSUME NEW t \in JavaThreads, Special(t), UNCHANGED scenario
      PROVE CountFrame \/ CountInv'
  BY <1>13 DEF Special, CountFrame, Callers, Counting
<1>14. ASSUME NEW t \in JavaThreads, Native_check(t), UNCHANGED scenario
      PROVE CountFrame \/ CountInv'
  BY <1>14 DEF Native_check, do_call_back, CountFrame, Callers, Counting
<1>15. ASSUME NEW t \in JavaThreads, Native_slow_suspend(t), UNCHANGED scenario
      PROVE CountFrame \/ CountInv'
  BY <1>15 DEF Native_slow_suspend, CountFrame, Callers, Counting
<1>16. ASSUME NEW t \in JavaThreads, Native_slow_block(t), UNCHANGED scenario
      PROVE CountFrame \/ CountInv'
  BY <1>16 DEF Native_slow_block, CountFrame, Callers, Counting
<1>17. ASSUME NEW t \in JavaThreads, Native_restore(t), UNCHANGED scenario
      PROVE CountFrame \/ CountInv'
  BY <1>17 DEF Native_restore, CountFrame, Callers, Counting
<1>18. ASSUME NEW t \in JavaThreads, Block_terminated(t), UNCHANGED scenario
      PROVE CountFrame \/ CountInv'
  BY <1>18 DEF Block_terminated, CountFrame, Callers, Counting
<1>19. ASSUME NEW t \in JavaThreads, Block_callback(t), UNCHANGED scenario
      PROVE CountFrame \/ CountInv'
  BY <1>19 DEF Block_callback, CountFrame, Callers, Counting
<1>20. ASSUME NEW t \in JavaThreads, Block_lock(t), UNCHANGED scenario
      PROVE CountFrame \/ CountInv'
  <2>0. CountInv /\ Typing
    BY DEF Inv
  <2>1. CASE state # "synchronizing"
    BY <1>20, <2>1 DEF Block_lock, CountFrame, Callers, Counting
  <2>2. CASE state = "synchronizing"
    <3>1. vmpc = "waiting" /\ t \in list
      BY <1>20, <2>2 DEF Block_lock
    <3>2. t \in Callers
      BY <1>20, <3>1 DEF Block_lock, Callers
    <3>3. Running' = Running /\ Counting /\ Counting'
      BY <1>20, <3>1 DEF Block_lock, Counting
    <3>4. Callers' = Callers \ {t}
      BY <1>20, <2>2 DEF Block_lock, Callers
    <3>5. Cardinality(Callers') = Cardinality(Callers) - 1
      BY <3>2, <3>4, FiniteParts, FS_RemoveElement
    <3>6. waiting_to_block' = waiting_to_block - 1
      BY <1>20, <2>2 DEF Block_lock
    <3> HIDE DEF Running, Inv
    <3>7. CountInv'
      BY <2>0, <3>3, <3>5, <3>6, FiniteParts DEF CountInv
    <3> QED
      BY <3>7
  <2> QED
    BY <2>1, <2>2
<1>21. ASSUME NEW t \in JavaThreads, Block_quiet(t), UNCHANGED scenario
      PROVE CountFrame \/ CountInv'
  BY <1>21 DEF Block_quiet, CountFrame, Callers, Counting
<1>22. ASSUME NEW t \in JavaThreads, Line_up(t), UNCHANGED scenario
      PROVE CountFrame \/ CountInv'
  BY <1>22 DEF Line_up, CountFrame, Callers, Counting
<1>23. ASSUME NEW t \in JavaThreads, Unblocked(t), UNCHANGED scenario
      PROVE CountFrame \/ CountInv'
  BY <1>23 DEF Unblocked, CountFrame, Callers, Counting
<1>24. ASSUME NEW t \in JavaThreads, Self_suspend(t), UNCHANGED scenario
      PROVE CountFrame \/ CountInv'
  BY <1>24 DEF Self_suspend, CountFrame, Callers, Counting
<1>25. ASSUME NEW t \in JavaThreads, Self_return(t), UNCHANGED scenario
      PROVE CountFrame \/ CountInv'
  BY <1>25 DEF Self_return, AfterSelf, CountFrame, Callers, Counting
<1>26. ASSUME NEW t \in JavaThreads, Unlock(t), UNCHANGED scenario
      PROVE CountFrame \/ CountInv'
  BY <1>26 DEF Unlock, CountFrame, Callers, Counting
<1>27. ASSUME NEW t \in JavaThreads, Remove(t), UNCHANGED scenario
      PROVE CountFrame \/ CountInv'
  BY <1>27 DEF Remove, CountFrame, Callers, Counting
<1>28. ASSUME NEW t \in JavaThreads, NEW s \in {"vm", "Java"}, Native_return(t, s),
              UNCHANGED scenario
      PROVE CountFrame \/ CountInv'
  BY <1>28 DEF Native_return, Trans, CountFrame, Callers, Counting
<1>29. ASSUME NEW t \in JavaThreads, NEW s \in {"Java", "native", "blocked"},
              Leave_vm(t, s), UNCHANGED scenario
      PROVE CountFrame \/ CountInv'
  BY <1>29 DEF Leave_vm, Trans, CountFrame, Callers, Counting
<1>30. ASSUME NEW t \in JavaThreads, NEW c \in JavaThreads, Suspend(t, c),
              UNCHANGED scenario
      PROVE CountFrame \/ CountInv'
  BY <1>30 DEF Suspend, CountFrame, Callers, Counting
<1>31. ASSUME NEW t \in JavaThreads, NEW c \in JavaThreads, Suspend_return(t, c),
              UNCHANGED scenario
      PROVE CountFrame \/ CountInv'
  BY <1>31 DEF Suspend_return, Ext_suspend_completed, CountFrame, Callers, Counting
<1>32. ASSUME NEW t \in JavaThreads, NEW c \in JavaThreads, Create(t, c),
              UNCHANGED scenario
      PROVE CountFrame \/ CountInv'
  BY <1>32 DEF Create, CountFrame, Callers, Counting
<1>33. ASSUME NEW t \in JavaThreads, NEW c \in JavaThreads, Start(t, c),
              UNCHANGED scenario
      PROVE CountFrame \/ CountInv'
  BY <1>33 DEF Start, CountFrame, Callers, Counting
<1>34. ASSUME NEW t \in JavaThreads, NEW c \in JavaThreads, Resume(t, c),
              UNCHANGED scenario
      PROVE CountFrame \/ CountInv'
  BY <1>34 DEF Resume, CountFrame, Callers, Counting
<1>35. ASSUME NEW t \in JavaThreads, Drain(t) PROVE CountFrame \/ CountInv'
  BY <1>35 DEF Drain, CountFrame, Callers, Counting
<1>36. ASSUME Begin_lock, UNCHANGED scenario PROVE CountFrame \/ CountInv'
  <2>0. CountInv /\ Typing
    BY DEF Inv
  <2>1. Running' = list /\ Callers' = {}
    BY <1>36 DEF Begin_lock, Callers
  <2>2. waiting_to_block' = Cardinality(list) /\ Counting'
    BY <1>36 DEF Begin_lock, Counting
  <2>3. Cardinality(list) \in Nat
    BY FS_Subset, FS_CardinalityType
  <2> HIDE DEF Running
  <2>4. CountInv'
    BY <2>1, <2>2, <2>3, FS_EmptySet DEF CountInv
  <2> QED
    BY <2>4
<1>37. ASSUME Begin_synchronizing, UNCHANGED scenario PROVE CountFrame \/ CountInv'
  BY <1>37 DEF Begin_synchronizing, CountFrame, Callers, Counting
<1>38. ASSUME Begin_serialize, UNCHANGED scenario PROVE CountFrame \/ CountInv'
  BY <1>38 DEF Begin_serialize, CountFrame, Callers, Counting
<1>39. ASSUME Begin_arm, UNCHANGED scenario PROVE CountFrame \/ CountInv'
  BY <1>39 DEF Begin_arm, CountFrame, Callers, Counting
<1>40. ASSUME Next_pass, UNCHANGED scenario PROVE CountFrame \/ CountInv'
  BY <1>40 DEF Next_pass, CountFrame, Callers, Counting
<1>41. ASSUME Begin_wait, UNCHANGED scenario PROVE CountFrame \/ CountInv'
  BY <1>41 DEF Begin_wait, CountFrame, Callers, Counting
<1>42. ASSUME Begin_notified, UNCHANGED scenario PROVE CountFrame \/ CountInv'
  BY <1>42 DEF Begin_notified, CountFrame, Callers, Counting
<1>43. ASSUME Begin_counter, UNCHANGED scenario PROVE CountFrame \/ CountInv'
  <2>1. Counting /\ ~Counting' /\ waiting_to_block' = 0
    BY <1>43 DEF Begin_counter, Counting
  <2>2. CountInv'
    BY <2>1 DEF CountInv
  <2> QED
    BY <2>2
<1>44. ASSUME Begin_synchronized, UNCHANGED scenario PROVE CountFrame \/ CountInv'
  BY <1>44 DEF Begin_synchronized, CountFrame, Callers, Counting
<1>45. ASSUME Operation, UNCHANGED scenario PROVE CountFrame \/ CountInv'
  BY <1>45 DEF Operation, CountFrame, Callers, Counting
<1>46. ASSUME End_counter, UNCHANGED scenario PROVE CountFrame \/ CountInv'
  BY <1>46 DEF End_counter, CountFrame, Callers, Counting
<1>47. ASSUME End_disarm, UNCHANGED scenario PROVE CountFrame \/ CountInv'
  BY <1>47 DEF End_disarm, CountFrame, Callers, Counting
<1>48. ASSUME End_state, UNCHANGED scenario PROVE CountFrame \/ CountInv'
  BY <1>48 DEF End_state, CountFrame, Callers, Counting
<1>49. ASSUME End_restart, UNCHANGED scenario PROVE CountFrame \/ CountInv'
  BY <1>49 DEF End_restart, CountFrame, Callers, Counting
<1>50. ASSUME NEW t \in JavaThreads, Examine_read(t), UNCHANGED scenario
      PROVE CountFrame \/ CountInv'
  BY <1>50 DEF Examine_read, CountFrame, Callers, Counting
<1>51. ASSUME NEW verdict \in {"running", "at_safepoint", "call_back"}, Examine(verdict),
              UNCHANGED scenario
      PROVE CountFrame \/ CountInv'
  <2> DEFINE t == seen[1]
  <2>0. CountInv /\ Typing
    BY DEF Inv
  <2>1. t \in Running /\ Counting /\ Counting'
    BY <1>51 DEF Examine, Counting
  <2>2. CASE verdict = "running"
    BY <1>51, <2>1, <2>2 DEF Examine, CountFrame, Callers
  <2>3. CASE verdict \in {"at_safepoint", "call_back"}
    <3>1. Running' = Running \ {t}
      BY <1>51, <2>1, <2>3 DEF Examine
    <3> HIDE DEF Running, Inv, t, Typing
    <3>2. Cardinality(Running') = Cardinality(Running) - 1
      BY <2>0, <2>1, <3>1, FiniteParts, FS_RemoveElement
    <3>3. t \notin Callers
      BY <2>1 DEF Callers, Running
    <3>4. CASE verdict = "at_safepoint"
      <4>1. Callers' = Callers /\ waiting_to_block' = waiting_to_block - 1
        BY <1>51, <2>1, <3>4 DEF Examine, Callers, Running, Inv, t, Typing
      <4>2. CountInv'
        BY <2>0, <2>1, <3>2, <4>1, FiniteParts DEF CountInv
      <4> QED
        BY <4>2
    <3>5. CASE verdict = "call_back"
      <4>1. Callers' = Callers \cup {t} /\ waiting_to_block' = waiting_to_block
        BY <1>51, <2>1, <3>5 DEF Examine, Callers, Running, Inv, t, Typing
      <4>2. Cardinality(Callers') = Cardinality(Callers) + 1
        BY <2>0, <3>3, <4>1, FiniteParts, FS_AddElement
      <4>3. CountInv'
        BY <2>0, <2>1, <3>2, <4>1, <4>2, FiniteParts DEF CountInv
      <4> QED
        BY <4>3
    <3> QED
      BY <2>3, <3>4, <3>5
  <2> QED
    BY <2>2, <2>3
<1>52. ASSUME UNCHANGED vars PROVE CountFrame \/ CountInv'
  BY <1>52 DEF vars, CountFrame, Callers, Counting
<1> HIDE DEF Typing, Locals, Local, ListInv, VMInv, VerdictInv, Inv, Stopped, InVM,
             Running
<1> QED
  BY <1>1, <1>2, <1>3, <1>4, <1>5, <1>6, <1>7, <1>8, <1>9, <1>10, <1>11, <1>12, <1>13,
     <1>14, <1>15, <1>16, <1>17, <1>18, <1>19, <1>20, <1>21, <1>22, <1>23, <1>24, <1>25,
     <1>26, <1>27, <1>28, <1>29, <1>30, <1>31, <1>32, <1>33, <1>34, <1>35, <1>36, <1>37,
     <1>38, <1>39, <1>40, <1>41, <1>42, <1>43, <1>44, <1>45, <1>46, <1>47, <1>48, <1>49,
     <1>50, <1>51, <1>52
  DEF Next, Choose, Continue, VMThread

\* _waiting_to_block is decremented exactly when a thread is accounted for.
LEMMA CountStep ==
  ASSUME Inv, [Next]_vars PROVE CountInv'
<1>1. CountFrame => CountInv'
  BY DEF CountFrame, CountInv, Inv
<1> QED
  BY <1>1, CountFrames

\* The counter grows by one when the threads have stopped and by one in end().
LEMMA CounterFrames ==
  ASSUME Typing, VMInv,
         NEW k \in 0..scenario.safepoints, CounterAt(k), [Next]_vars
  PROVE  CounterAt(k)' \/ (k < scenario.safepoints /\ CounterAt(k + 1)')
<1> USE SafepointAssumption DEF States, TransStates, None, At, Goto, KeepShared, KeepThreads,
    KeepSuspend, Store, StoreFence, StoreTrans, locks, threads, vm, states, suspend,
    local,
    Typing, VMInv, CounterAt
<1>1. ASSUME NEW t \in JavaThreads, Choose(t) \/ Continue(t) \/ Drain(t)
      PROVE  CounterAt(k)' \/ (k < scenario.safepoints /\ CounterAt(k + 1)')
  BY <1>1, ThreadsLeaveVM
<1>2. ASSUME Begin_lock, UNCHANGED scenario
      PROVE CounterAt(k)' \/ (k < scenario.safepoints /\ CounterAt(k + 1)')
  BY <1>2 DEF Begin_lock
<1>3. ASSUME Begin_synchronizing, UNCHANGED scenario
      PROVE CounterAt(k)' \/ (k < scenario.safepoints /\ CounterAt(k + 1)')
  BY <1>3 DEF Begin_synchronizing
<1>4. ASSUME Begin_serialize, UNCHANGED scenario
      PROVE CounterAt(k)' \/ (k < scenario.safepoints /\ CounterAt(k + 1)')
  BY <1>4 DEF Begin_serialize
<1>5. ASSUME Begin_arm, UNCHANGED scenario
      PROVE CounterAt(k)' \/ (k < scenario.safepoints /\ CounterAt(k + 1)')
  BY <1>5 DEF Begin_arm
<1>6. ASSUME Next_pass, UNCHANGED scenario
      PROVE CounterAt(k)' \/ (k < scenario.safepoints /\ CounterAt(k + 1)')
  BY <1>6 DEF Next_pass
<1>7. ASSUME Begin_wait, UNCHANGED scenario
      PROVE CounterAt(k)' \/ (k < scenario.safepoints /\ CounterAt(k + 1)')
  BY <1>7 DEF Begin_wait
<1>8. ASSUME Begin_notified, UNCHANGED scenario
      PROVE CounterAt(k)' \/ (k < scenario.safepoints /\ CounterAt(k + 1)')
  BY <1>8 DEF Begin_notified
<1>9. ASSUME Begin_counter, UNCHANGED scenario
      PROVE CounterAt(k)' \/ (k < scenario.safepoints /\ CounterAt(k + 1)')
  BY <1>9 DEF Begin_counter
<1>10. ASSUME Begin_synchronized, UNCHANGED scenario
      PROVE CounterAt(k)' \/ (k < scenario.safepoints /\ CounterAt(k + 1)')
  BY <1>10 DEF Begin_synchronized
<1>11. ASSUME Operation, UNCHANGED scenario
      PROVE CounterAt(k)' \/ (k < scenario.safepoints /\ CounterAt(k + 1)')
  BY <1>11 DEF Operation
<1>12. ASSUME End_counter, UNCHANGED scenario
      PROVE CounterAt(k)' \/ (k < scenario.safepoints /\ CounterAt(k + 1)')
  BY <1>12 DEF End_counter
<1>13. ASSUME End_disarm, UNCHANGED scenario
      PROVE CounterAt(k)' \/ (k < scenario.safepoints /\ CounterAt(k + 1)')
  BY <1>13 DEF End_disarm
<1>14. ASSUME End_state, UNCHANGED scenario
      PROVE CounterAt(k)' \/ (k < scenario.safepoints /\ CounterAt(k + 1)')
  BY <1>14 DEF End_state
<1>15. ASSUME End_restart, UNCHANGED scenario
      PROVE CounterAt(k)' \/ (k < scenario.safepoints /\ CounterAt(k + 1)')
  BY <1>15 DEF End_restart
<1>16. ASSUME NEW t \in JavaThreads, Examine_read(t), UNCHANGED scenario
      PROVE CounterAt(k)' \/ (k < scenario.safepoints /\ CounterAt(k + 1)')
  BY <1>16 DEF Examine_read
<1>17. ASSUME NEW verdict \in {"running", "at_safepoint", "call_back"}, Examine(verdict),
              UNCHANGED scenario
      PROVE CounterAt(k)' \/ (k < scenario.safepoints /\ CounterAt(k + 1)')
  BY <1>17 DEF Examine, Verdict, Safe
<1>18. ASSUME UNCHANGED vars
      PROVE CounterAt(k)' \/ (k < scenario.safepoints /\ CounterAt(k + 1)')
  BY <1>18 DEF vars
<1> HIDE DEF Typing, VMInv, CounterAt
<1> QED
  BY <1>1, <1>2, <1>3, <1>4, <1>5, <1>6, <1>7, <1>8, <1>9, <1>10, <1>11, <1>12, <1>13,
     <1>14, <1>15, <1>16, <1>17, <1>18
  DEF Next, VMThread

\* The number of safepoints that have ended stays within the scenario's.
LEMMA CounterStep ==
  ASSUME Typing, VMInv, CounterInv, [Next]_vars PROVE CounterInv'
<1>1. scenario' = scenario
  BY DEF Next, VMThread, Choose, Continue, Drain, vars
<1>2. scenario.safepoints \in Nat
  BY SafepointAssumption DEF Typing
<1>3. PICK k \in 0..scenario.safepoints : CounterAt(k)
  BY DEF CounterInv
<1>4. CounterAt(k)' \/ (k < scenario.safepoints /\ CounterAt(k + 1)')
  BY <1>3, CounterFrames
<1>5. CASE CounterAt(k)'
  BY <1>1, <1>3, <1>5 DEF CounterInv
<1>6. CASE k < scenario.safepoints /\ CounterAt(k + 1)'
  <2>1. k + 1 \in 0..scenario.safepoints
    BY <1>2, <1>3, <1>6
  <2> QED
    BY <1>1, <1>6, <2>1 DEF CounterInv
<1> QED
  BY <1>4, <1>5, <1>6

\* The initial states: the threads on the list are in native code.
LEMMA InitInv == ASSUME Init PROVE Inv /\ CounterInv
<1> USE SafepointAssumption DEF Init, States, TransStates, None
<1>1. Typing
  <2>1. thread_state \in [JavaThreads -> States] /\ visible \in [JavaThreads -> States]
    OBVIOUS
  <2>2. pc \in [JavaThreads -> {"unborn", "prepared", "started", "java", "vm", "native", "blocked",
                             "check", "set", "special", "self", "native_check", "native_slow",
                             "native_restore", "block", "block_lock", "line_up", "unblocked",
                             "owner", "starting", "gone"}]
    OBVIOUS
  <2>3. /\ has_called_back \in [JavaThreads -> BOOLEAN]
        /\ external_suspend \in [JavaThreads -> BOOLEAN]
        /\ ext_suspended \in [JavaThreads -> BOOLEAN]
        /\ armed \in BOOLEAN /\ notified \in BOOLEAN
    OBVIOUS
  <2>4. /\ type \in [JavaThreads -> {"running", "at_safepoint", "call_back"}]
        /\ to \in [JavaThreads -> {None, "Java", "native", "blocked", "vm"}]
        /\ saved \in [JavaThreads -> {None, "Java"} \cup TransStates]
    OBVIOUS
  <2>5. /\ scenario \in Scenarios
        /\ waiting_to_block \in Int /\ safepoint_counter \in Nat
        /\ Threads_lock \in JavaThreads \cup {VM, FREE} /\ Safepoint_lock \in {VM, FREE}
        /\ list \subseteq JavaThreads /\ todo \subseteq JavaThreads
        /\ terminated \subseteq exiting /\ exiting \subseteq JavaThreads
        /\ requests \subseteq JavaThreads /\ stopped \subseteq JavaThreads
    OBVIOUS
  <2>6. state = "not_synchronized" /\ vmpc = "idle" /\ seen = <<None, None>>
    OBVIOUS
  <2> HIDE DEF Init, States, TransStates, None
  <2> QED
    BY <2>1, <2>2, <2>3, <2>4, <2>5, <2>6 DEF Typing
<1>2. Locals /\ ListInv
  BY DEF Locals, Local, ListInv
<1>3. VMInv /\ MembarInv /\ ReadInv /\ PollInv
  BY DEF VMInv, MembarInv, ReadInv, PollInv
<1>4. VerdictInv
  BY DEF VerdictInv
<1>5. CountInv
  BY DEF CountInv, Counting
<1>6. CounterAt(0) /\ 0 \in 0..scenario.safepoints
  BY DEF CounterAt
<1> QED
  BY <1>1, <1>2, <1>3, <1>4, <1>5, <1>6 DEF Inv, CounterInv

\* Every step keeps the invariant.
LEMMA InvStep == ASSUME Inv, CounterInv, [Next]_vars PROVE Inv' /\ CounterInv'
<1>1. Typing /\ Locals /\ ListInv /\ VMInv /\ MembarInv /\ VerdictInv
  BY DEF Inv
<1> QED
  BY <1>1, TypingStep, LocalsStep, ListStep, VMStep, MembarStep, ReadStep, VerdictStep,
     PollStep, CountStep, CounterStep DEF Inv

\* The invariant holds in every reachable state.
LEMMA Invariant == Spec => [](Inv /\ CounterInv)
<1>1. Init => Inv /\ CounterInv
  BY InitInv
<1>2. Inv /\ CounterInv /\ [Next]_vars => Inv' /\ CounterInv'
  BY InvStep
<1> QED
  BY <1>1, <1>2, PTL DEF Spec

-----------------------------------------------------------------------------

\* Stop the world: while _state is _synchronized no thread on the Threads list
\* runs, whatever the number of threads, and however long stores are buffered.
THEOREM StopsTheWorld == Spec => []StopTheWorld
<1>1. Inv => StopTheWorld
  BY DEF Inv, Typing, VMInv, VerdictInv, StopTheWorld, Stopped
<1> QED
  BY <1>1, Invariant, PTL

\* The types, with the ranges of the two counters.
LEMMA Types == ASSUME Inv, CounterInv PROVE TypeOK
<1>1. waiting_to_block \in 0..Cardinality(JavaThreads)
  <2>1. Cardinality(JavaThreads) \in Nat
    BY SafepointAssumption, FS_CardinalityType
  <2>2. Typing /\ CountInv
    BY DEF Inv
  <2> QED
    BY <2>1, <2>2, FiniteParts DEF CountInv
<1>2. safepoint_counter \in 0..2 * scenario.safepoints
  <2>1. scenario.safepoints \in Nat
    BY SafepointAssumption DEF Inv, Typing
  <2>2. PICK k \in 0..scenario.safepoints : CounterAt(k)
    BY DEF CounterInv
  <2> QED
    BY <2>1, <2>2 DEF CounterAt
<1>3. vmpc = "examine" <=> seen \in JavaThreads \X States
  BY DEF Inv, Typing, States, TransStates, None
<1>4. Typing
  BY DEF Inv
<1> QED
  BY <1>1, <1>2, <1>3, <1>4 DEF TypeOK, Typing

\* A thread about to call back is one that the VM thread waits for.
LEMMA LockIsCounted ==
  ASSUME Inv, NEW t \in JavaThreads, pc[t] = "block_lock", state = "synchronizing"
  PROVE  waiting_to_block > 0
<1>1. Typing /\ CountInv
  BY DEF Inv
<1>2. t \in list
  BY DEF Inv, ListInv
<1>3. t \in Running \/ t \in Callers
  BY <1>1, <1>2 DEF Inv, Typing, VMInv, VerdictInv, Stopped, Running, Callers
<1>4. Counting
  BY <1>1, <1>2 DEF Inv, Typing, VMInv, VerdictInv, Stopped, Counting
<1>5. waiting_to_block # 0
  BY <1>1, <1>3, <1>4, NoneLeft
<1> QED
  BY <1>1, <1>4, <1>5, FiniteParts DEF CountInv

\* The assertions of begin(), end(), block(), the poll handlers and
\* java_suspend_self() that Assertions lists hold, and _waiting_to_block is the number of threads
\* still to be accounted for.
THEOREM AssertionsHold == Spec => []Assertions
<1>1. ASSUME Inv, CounterInv PROVE Assertions
  <2>1. TypeOK
    BY <1>1, Types
  <2>2. Counting => waiting_to_block = Cardinality(Running) + Cardinality(Callers)
    BY <1>1 DEF Inv, CountInv
  <2>3. ASSUME NEW t \in JavaThreads, pc[t] = "block", t \notin terminated
        PROVE  IF thread_state[t] = "Java" THEN state = "synchronizing" /\ type[t] = "running"
               ELSE thread_state[t] \in TransStates
                    /\ (thread_state[t] # "vm_trans" => type[t] # "call_back")
    <3>1. t \in list
      BY <1>1, <2>3 DEF Inv, ListInv
    <3>2. thread_state[t] \in TransStates \cup {"Java"}
      BY <1>1, <2>3 DEF Inv, Locals, Local
    <3>3. thread_state[t] = "Java" => state = "synchronizing"
      BY <1>1, <2>3 DEF Inv, PollInv
    <3>4. thread_state[t] = "Java" => type[t] = "running"
      BY <1>1, <2>1, <2>3, <3>1, <3>3 DEF Inv, VMInv, VerdictInv, Stopped, InVM, TypeOK
    <3>5. thread_state[t] # "vm_trans" => type[t] # "call_back"
      BY <1>1, <2>1, <2>3, <3>1 DEF Inv, VerdictInv, InVM, TypeOK
    <3> QED
      BY <3>2, <3>3, <3>4, <3>5
  <2>4. \A t \in JavaThreads :
          pc[t] = "block_lock" /\ state = "synchronizing" => waiting_to_block > 0
    BY <1>1, LockIsCounted
  <2>5. \A t \in JavaThreads : ext_suspended[t] => pc[t] = "self"
    BY <1>1 DEF Inv, ListInv
  <2>6. vmpc \in {"synchronize", "serialize", "arm"} => Running = list
    BY <1>1 DEF Inv, VerdictInv, Running
  <2>7. vmpc = "examine" => type[seen[1]] = "running"
    BY <1>1 DEF Inv, VMInv, Running
  <2>8. vmpc = "restart" => Running = {}
    BY <1>1 DEF Inv, VerdictInv, Running
  <2>9. safepoint_counter % 2 = IF vmpc \in {"synchronized", "op", "end"} THEN 1 ELSE 0
    <3>1. PICK k \in 0..scenario.safepoints : CounterAt(k)
      BY <1>1 DEF CounterInv
    <3> QED
      BY <3>1 DEF CounterAt
  <2> QED
    BY <2>1, <2>2, <2>3, <2>4, <2>5, <2>6, <2>7, <2>8, <2>9 DEF Assertions, Counting,
       Callers
<1> QED
  BY <1>1, Invariant, PTL

-----------------------------------------------------------------------------
(* JNIFastGetField.                                                        *)

\* The readers only read: with them the safepoint code behaves as without.
THEOREM ReadersOnlyRead == FGSpec => Spec
<1>1. FGInit => Init
  BY DEF FGInit
<1>2. [FGNext]_allVars => [Next]_vars
  BY DEF FGNext, allVars, SafepointStep, Read_counter, Load_obj, Load_field, Compare,
     Return
<1> QED
  BY <1>1, <1>2, PTL DEF FGSpec, Spec

\* The number of times objects began or ceased to move follows the counter: it
\* is late by one while begin() finishes, early by one after the operation.
HeapInv ==
  heap = IF vmpc = "synchronized" THEN safepoint_counter - 1
         ELSE IF vmpc = "end" THEN safepoint_counter + 1 ELSE safepoint_counter

FGTyping ==
  /\ heap \in Nat
  /\ rpc \in [Readers -> {"native", "load", "field", "good", "bad", "slow", "returned"}]
  /\ rcounter \in [Readers -> Nat] /\ robj \in [Readers -> Nat]

\* A reader on the fast path has read an even counter, which was no more than
\* the heap's at the load of the object; a bad value means the counter has grown.
FastInv ==
  \A r \in Readers :
    /\ rpc[r] \in {"load", "field", "good", "bad"} =>
         rcounter[r] % 2 = 0 /\ rcounter[r] <= safepoint_counter
    /\ rpc[r] = "field" => rcounter[r] <= robj[r] /\ robj[r] <= heap
    /\ rpc[r] = "bad" => rcounter[r] < safepoint_counter

\* How far the heap can be from an even counter that was read earlier.
LEMMA Distance ==
  ASSUME Inv, CounterInv, HeapInv, NEW c \in Nat, c % 2 = 0, c <= safepoint_counter
  PROVE  /\ c <= heap
         /\ c < heap => c < safepoint_counter
         /\ heap % 2 # 0 => c < heap
<1>1. PICK k \in 0..scenario.safepoints : CounterAt(k)
  BY DEF CounterInv
<1>2. scenario.safepoints \in Nat
  BY SafepointAssumption DEF Inv, Typing
<1>3. k \in Nat
  BY <1>1, <1>2
<1> QED
  BY <1>1, <1>3 DEF CounterAt, HeapInv

\* What a step of the safepoint code does to the heap and to the counter.
Grows ==
  /\ HeapInv' /\ heap' \in Nat /\ heap <= heap'
  /\ safepoint_counter' \in Nat /\ safepoint_counter <= safepoint_counter'

\* The counter never goes back, and the heap changes when the operation begins and ends.
LEMMA HeapStep ==
  ASSUME Typing, VMInv, HeapInv, heap \in Nat,
         heap' = IF Moving' = Moving THEN heap ELSE heap + 1, [Next]_vars PROVE Grows
<1> USE SafepointAssumption DEF States, TransStates, None, At, Goto, KeepShared, KeepThreads,
    KeepSuspend, Store, StoreFence, StoreTrans, locks, threads, vm, states, suspend,
    local, Typing, VMInv, HeapInv,
    Moving, Grows
<1>1. ASSUME NEW t \in JavaThreads, Choose(t) \/ Continue(t) \/ Drain(t)
      PROVE  Grows
  BY <1>1, ThreadsLeaveVM
<1>2. ASSUME Begin_lock, UNCHANGED scenario PROVE Grows
  BY <1>2 DEF Begin_lock
<1>3. ASSUME Begin_synchronizing, UNCHANGED scenario PROVE Grows
  BY <1>3 DEF Begin_synchronizing
<1>4. ASSUME Begin_serialize, UNCHANGED scenario PROVE Grows
  BY <1>4 DEF Begin_serialize
<1>5. ASSUME Begin_arm, UNCHANGED scenario PROVE Grows
  BY <1>5 DEF Begin_arm
<1>6. ASSUME Next_pass, UNCHANGED scenario PROVE Grows
  BY <1>6 DEF Next_pass
<1>7. ASSUME Begin_wait, UNCHANGED scenario PROVE Grows
  BY <1>7 DEF Begin_wait
<1>8. ASSUME Begin_notified, UNCHANGED scenario PROVE Grows
  BY <1>8 DEF Begin_notified
<1>9. ASSUME Begin_counter, UNCHANGED scenario PROVE Grows
  BY <1>9 DEF Begin_counter
<1>10. ASSUME Begin_synchronized, UNCHANGED scenario PROVE Grows
  BY <1>10 DEF Begin_synchronized
<1>11. ASSUME Operation, UNCHANGED scenario PROVE Grows
  BY <1>11 DEF Operation
<1>12. ASSUME End_counter, UNCHANGED scenario PROVE Grows
  BY <1>12 DEF End_counter
<1>13. ASSUME End_disarm, UNCHANGED scenario PROVE Grows
  BY <1>13 DEF End_disarm
<1>14. ASSUME End_state, UNCHANGED scenario PROVE Grows
  BY <1>14 DEF End_state
<1>15. ASSUME End_restart, UNCHANGED scenario PROVE Grows
  BY <1>15 DEF End_restart
<1>16. ASSUME NEW t \in JavaThreads, Examine_read(t), UNCHANGED scenario PROVE Grows
  BY <1>16 DEF Examine_read
<1>17. ASSUME NEW verdict \in {"running", "at_safepoint", "call_back"}, Examine(verdict),
              UNCHANGED scenario
      PROVE Grows
  BY <1>17 DEF Examine, Verdict, Safe
<1>18. ASSUME UNCHANGED vars PROVE Grows
  BY <1>18 DEF vars
<1> HIDE DEF Typing, VMInv, HeapInv, Moving, Grows
<1> QED
  BY <1>1, <1>2, <1>3, <1>4, <1>5, <1>6, <1>7, <1>8, <1>9, <1>10, <1>11, <1>12, <1>13,
     <1>14, <1>15, <1>16, <1>17, <1>18
  DEF Next, VMThread

\* Every step of the VM and of a reader keeps the readers' invariant.
LEMMA FGStep ==
  ASSUME Inv, CounterInv, HeapInv, FGTyping, FastInv, [FGNext]_allVars
  PROVE  HeapInv' /\ FGTyping' /\ FastInv'
<1> USE DEF HeapInv, FGTyping, FastInv
<1>1. safepoint_counter \in Nat
  BY DEF Inv, Typing
<1>2. CASE SafepointStep
  <2>1. Typing /\ VMInv /\ heap \in Nat
    BY DEF Inv
  <2>2. Next /\ heap' = (IF Moving' = Moving THEN heap ELSE heap + 1) /\ UNCHANGED reader
    BY <1>2 DEF SafepointStep
  <2>3. Grows
    <3> HIDE DEF HeapInv
    <3> QED
      BY <2>1, <2>2, HeapStep
  <2>4. HeapInv' /\ FGTyping'
    BY <2>2, <2>3 DEF reader, Grows
  <2>5. ASSUME NEW r \in Readers
        PROVE  /\ rpc'[r] = rpc[r] /\ rcounter'[r] = rcounter[r] /\ robj'[r] = robj[r]
               /\ rcounter[r] \in Nat /\ robj[r] \in Nat
    BY <2>2 DEF reader
  <2>6. FastInv'
    <3> HIDE DEF HeapInv, FGTyping
    <3> QED
      BY <1>1, <2>1, <2>3, <2>5 DEF Grows
  <2> QED
    BY <2>4, <2>6
<1>3. ASSUME NEW r \in Readers, Read_counter(r) PROVE HeapInv' /\ FGTyping' /\ FastInv'
  BY <1>1, <1>3 DEF Read_counter, vars, vm
<1>4. ASSUME NEW r \in Readers, Load_obj(r) PROVE HeapInv' /\ FGTyping' /\ FastInv'
  BY <1>1, <1>4, Distance DEF Load_obj, vars, vm
<1>5. ASSUME NEW r \in Readers, Load_field(r) PROVE HeapInv' /\ FGTyping' /\ FastInv'
  <2>1. rcounter[r] \in Nat /\ robj[r] \in Nat
    BY <1>5
  <2>2. /\ rcounter[r] < heap => rcounter[r] < safepoint_counter
        /\ heap % 2 # 0 => rcounter[r] < heap
    BY <1>5, <2>1, Distance DEF Load_field
  <2>3. ~(robj[r] = heap /\ heap % 2 = 0) => rcounter[r] < safepoint_counter
    BY <1>5, <2>1, <2>2 DEF Load_field
  <2> QED
    BY <1>1, <1>5, <2>3 DEF Load_field, vars, vm
<1>6. ASSUME NEW r \in Readers, Compare(r) PROVE HeapInv' /\ FGTyping' /\ FastInv'
  BY <1>1, <1>6 DEF Compare, vars, vm
<1>7. ASSUME NEW r \in Readers, Return(r) PROVE HeapInv' /\ FGTyping' /\ FastInv'
  BY <1>1, <1>7 DEF Return, vars, vm
<1>8. CASE UNCHANGED allVars
  BY <1>8 DEF allVars, reader, vars, vm
<1> HIDE DEF HeapInv, FGTyping, FastInv
<1> QED
  BY <1>2, <1>3, <1>4, <1>5, <1>6, <1>7, <1>8 DEF FGNext

\* A fast version of jni_Get<Primitive>Field never returns a value from an object
\* that moved while it was read, for any number of readers and safepoints.
THEOREM FastGetIsConsistent == FGSpec => []FastGetConsistent
<1>1. FGInit => HeapInv /\ FGTyping /\ FastInv
  BY DEF FGInit, Init, HeapInv, FGTyping, FastInv
<1>2. Inv /\ CounterInv /\ HeapInv /\ FGTyping /\ FastInv /\ [FGNext]_allVars
        => HeapInv' /\ FGTyping' /\ FastInv'
  BY FGStep
<1>3. FGTyping => FastGetConsistent
  BY DEF FGTyping, FastGetConsistent
<1> QED
  BY <1>1, <1>2, <1>3, ReadersOnlyRead, Invariant, PTL DEF FGSpec

=============================================================================
