------------------------------ MODULE Safepoint ------------------------------
(***************************************************************************)
(* Bringing the Java threads to a safepoint and letting them go again:     *)
(* runtime/safepoint.cpp (SafepointSynchronize::begin, end, block and      *)
(* ThreadSafepointState), the thread state transitions of                  *)
(* runtime/interfaceSupport.hpp, and the parts of runtime/thread.cpp that  *)
(* meet them: external suspension, thread start and thread exit.           *)
(*                                                                         *)
(* No lock makes a thread's state and SafepointSynchronize::_state change  *)
(* together.  A thread stores its transitional state and then reads        *)
(* _state; the VM thread stores _state and then reads the threads' states. *)
(* thread_state[t] is what t has stored, visible[t] what the VM thread     *)
(* reads: a plain store becomes visible later (Drain), after a fence with  *)
(* UseMembar, or when os::serialize_thread_states() forces it out.         *)
(*                                                                         *)
(* The threads' critical sections on Safepoint_lock and on SR_lock contain *)
(* no wait and no other lock, and each is one step.                        *)
(***************************************************************************)
EXTENDS Naturals, FiniteSets

CONSTANTS JavaThreads,   \* the JavaThread objects there can be
          Initial,       \* those on the Threads list at the start
          Main,          \* a thread that is never suspended and never exits
          Scenarios,     \* the settings to choose from at the start:
                         \*   UseMembar: the flag, a fence after each transitional state
                         \*   safepoints: bound, how many the VM thread runs
                         \*   startable: threads that can be started
                         \*   suspenders: threads whose java_suspend is followed up
          VM, FREE       \* the owner values of the two locks

ASSUME SafepointAssumption ==
  /\ Initial \subseteq JavaThreads
  /\ Main \in Initial
  /\ IsFiniteSet(JavaThreads)
  /\ \A s \in Scenarios :
       /\ s.UseMembar \in BOOLEAN
       /\ s.safepoints \in Nat
       /\ s.startable \subseteq JavaThreads
       /\ s.suspenders \subseteq JavaThreads
  /\ VM # FREE /\ VM \notin JavaThreads /\ FREE \notin JavaThreads

VARIABLES
  scenario,          \* the setting chosen
  state,             \* SafepointSynchronize::_state
  waiting_to_block,  \* SafepointSynchronize::_waiting_to_block
  safepoint_counter, \* SafepointSynchronize::_safepoint_counter
  armed,             \* polling page unreadable, interpreter notices safepoints
  Threads_lock,      \* its owner
  Safepoint_lock,    \* its owner, VM or FREE
  notified,          \* the VM thread's wait on Safepoint_lock was notified
  list,              \* the Threads list
  terminated,        \* threads with is_terminated()
  exiting,           \* threads with is_exiting()
  vmpc,              \* where the VM thread is
  todo,              \* begin: threads left in this pass over the list
  seen,              \* begin: the thread under examination and its state
  thread_state, visible,
  type,              \* ThreadSafepointState::_type
  has_called_back,   \* ThreadSafepointState::_has_called_back
  external_suspend,  \* suspend flag: a request is pending
  ext_suspended,     \* suspend flag: the thread has suspended itself
  requests,          \* threads a suspender is in java_suspend() for
  stopped,           \* threads whose suspender has returned from java_suspend()
  pc,                \* where each Java thread is
  to,                \* the argument `to' of the transition it is in
  saved              \* the state block() or the suspension will restore

locks   == <<Threads_lock, Safepoint_lock, notified>>
threads == <<list, terminated, exiting>>
vm      == <<state, safepoint_counter, armed, vmpc, todo, seen, type>>
states  == <<thread_state, visible>>
suspend == <<external_suspend, ext_suspended, requests, stopped>>
local   == <<pc, to, saved>>
vars    == <<scenario, vm, waiting_to_block, has_called_back, locks, threads, states, suspend, local>>

None  == "none"
TransStates == {"vm_trans", "native_trans", "blocked_trans", "new_trans"}
States == {"new", "native", "vm", "Java", "blocked"} \cup TransStates

\* The odd state that follows an even one: (JavaThreadState)(from + 1).
Trans(s) == IF s = "vm" THEN "vm_trans" ELSE IF s = "native" THEN "native_trans"
            ELSE IF s = "blocked" THEN "blocked_trans" ELSE "new_trans"

do_call_back == state # "not_synchronized"

Init ==
  /\ scenario \in Scenarios
  /\ state = "not_synchronized"
  /\ waiting_to_block = 0
  /\ safepoint_counter = 0
  /\ armed = FALSE
  /\ Threads_lock = FREE
  /\ Safepoint_lock = FREE
  /\ notified = FALSE
  /\ list = Initial
  /\ terminated = {}
  /\ exiting = {}
  /\ vmpc = "idle"
  /\ todo = {}
  /\ seen = <<None, None>>
  /\ thread_state = [t \in JavaThreads |-> IF t \in Initial THEN "native" ELSE "new"]
  /\ visible = thread_state
  /\ type = [t \in JavaThreads |-> "running"]
  /\ has_called_back = [t \in JavaThreads |-> FALSE]
  /\ external_suspend = [t \in JavaThreads |-> FALSE]
  /\ ext_suspended = [t \in JavaThreads |-> FALSE]
  /\ requests = {}
  /\ stopped = {}
  /\ pc = [t \in JavaThreads |-> IF t \in Initial THEN "native" ELSE "unborn"]
  /\ to = [t \in JavaThreads |-> None]
  /\ saved = [t \in JavaThreads |-> None]

(***************************************************************************)
(* Stores to the thread's state.                                           *)
(***************************************************************************)

\* set_thread_state: the store waits in the processor's buffer.
Store(t, s) ==
  /\ thread_state' = [thread_state EXCEPT ![t] = s]
  /\ UNCHANGED visible

\* A store followed by a fence, or by a locked instruction.
StoreFence(t, s) ==
  /\ thread_state' = [thread_state EXCEPT ![t] = s]
  /\ visible' = [visible EXCEPT ![t] = s]

\* A transitional state: with UseMembar a fence, otherwise a store to the
\* serialize page, which orders nothing by itself.
StoreTrans(t, s) == IF scenario.UseMembar THEN StoreFence(t, s) ELSE Store(t, s)

\* The processor writes the store back.
Drain(t) ==
  /\ visible[t] # thread_state[t]
  /\ visible' = [visible EXCEPT ![t] = thread_state[t]]
  /\ UNCHANGED <<scenario, thread_state, vm, waiting_to_block, has_called_back, locks,
                 threads, suspend, local>>

At(t, here) == pc[t] = here
Goto(t, there) == pc' = [pc EXCEPT ![t] = there]

\* What a step of a Java thread inside a transition leaves alone.
KeepShared == UNCHANGED <<vm, waiting_to_block, has_called_back, locks, threads, suspend>>

(***************************************************************************)
(* Java threads: the transitions.                                          *)
(***************************************************************************)

\* transition_from_java: never blocks, never checks.
Java_to_vm(t) ==
  /\ At(t, "java")
  /\ Store(t, "vm")
  /\ Goto(t, "vm")
  /\ UNCHANGED <<to, saved>> /\ KeepShared

\* The interpreter's native call: the state is stored with no check.
Java_to_native(t) ==
  /\ At(t, "java")
  /\ Store(t, "native")
  /\ Goto(t, "native")
  /\ UNCHANGED <<to, saved>> /\ KeepShared

\* Compiled code reads the polling page and traps:
\* handle_polling_page_exception calls block() in state _thread_in_Java.
Poll(t) ==
  /\ At(t, "java")
  /\ armed
  /\ Goto(t, "block")
  /\ UNCHANGED <<to, saved, states>> /\ KeepShared

\* The first half of transition(), transition_and_fence(): ~ThreadInVMfromJava,
\* ThreadToNativeFromVM, ThreadBlockInVM.  A thread that is exiting does not
\* return to Java, one that owns Threads_lock does not leave.
Leave_vm(t, s) ==
  /\ At(t, "vm")
  /\ t \in exiting => s = "blocked"
  /\ StoreTrans(t, Trans("vm"))
  /\ to' = [to EXCEPT ![t] = s]
  /\ Goto(t, "check")
  /\ UNCHANGED saved /\ KeepShared

\* ~ThreadBlockInVM: what the thread waited for has happened.
Blocked_return(t) ==
  /\ At(t, "blocked")
  /\ StoreTrans(t, Trans("blocked"))
  /\ to' = [to EXCEPT ![t] = "vm"]
  /\ Goto(t, "check")
  /\ UNCHANGED saved /\ KeepShared

\* JavaThread::run(): the new thread starts in state _thread_new.
Run(t) ==
  /\ At(t, "started")
  /\ StoreTrans(t, Trans("new"))
  /\ to' = [to EXCEPT ![t] = "vm"]
  /\ Goto(t, "check")
  /\ UNCHANGED saved /\ KeepShared

\* if (SafepointSynchronize::do_call_back()) SafepointSynchronize::block(thread)
Check(t) ==
  /\ At(t, "check")
  /\ Goto(t, IF do_call_back THEN "block" ELSE "set")
  /\ UNCHANGED <<to, saved, states>> /\ KeepShared

\* Where set_thread_state(to) leaves the thread.  Only the destructors that
\* return to Java from the VM, and ThreadToNativeFromVM, look for a pending
\* suspension afterwards.
AfterSet(t) ==
  IF to[t] = "vm" THEN {IF Threads_lock = t THEN "owner" ELSE "vm"}
  ELSE IF to[t] = "Java" THEN {IF thread_state[t] = "native_trans" THEN "java" ELSE "special"}
  ELSE IF to[t] = "native" THEN {"native", "special"}
  ELSE {"blocked"}

Set(t) ==
  /\ At(t, "set")
  /\ Store(t, to[t])
  /\ \E there \in AfterSet(t) : Goto(t, there)
  /\ to' = [to EXCEPT ![t] = None]
  /\ saved' = [saved EXCEPT ![t] = None]
  /\ KeepShared

\* has_special_runtime_exit_condition(), handle_special_runtime_exit_condition().
Special(t) ==
  /\ At(t, "special")
  /\ Goto(t, IF external_suspend[t] THEN "self"
             ELSE IF thread_state[t] = "Java" THEN "java" ELSE "native")
  /\ UNCHANGED <<to, saved, states>> /\ KeepShared

(***************************************************************************)
(* Java threads: coming back from native code.                             *)
(***************************************************************************)

\* transition_from_native, and the end of a native call from Java.
Native_return(t, s) ==
  /\ At(t, "native")
  /\ StoreTrans(t, Trans("native"))
  /\ to' = [to EXCEPT ![t] = s]
  /\ Goto(t, "native_check")
  /\ UNCHANGED saved /\ KeepShared

\* do_call_back() || is_suspend_after_native()
Native_check(t) ==
  /\ At(t, "native_check")
  /\ Goto(t, IF do_call_back \/ external_suspend[t] THEN "native_slow" ELSE "set")
  /\ UNCHANGED <<to, saved, states>> /\ KeepShared

\* check_safepoint_and_suspend_for_native_trans: with a suspension pending the
\* thread is _thread_blocked while it suspends itself.
Native_slow_suspend(t) ==
  /\ At(t, "native_slow")
  /\ external_suspend[t]
  /\ Store(t, "blocked")
  /\ saved' = [saved EXCEPT ![t] = "native_trans"]
  /\ Goto(t, "self")
  /\ UNCHANGED to /\ KeepShared

Native_slow_block(t) ==
  /\ At(t, "native_slow")
  /\ ~external_suspend[t]
  /\ Goto(t, "check")
  /\ UNCHANGED <<to, saved, states>> /\ KeepShared

\* Back from the suspension the state is restored, and the safepoint checked again.
Native_restore(t) ==
  /\ At(t, "native_restore")
  /\ StoreTrans(t, saved[t])
  /\ saved' = [saved EXCEPT ![t] = None]
  /\ Goto(t, "check")
  /\ UNCHANGED to /\ KeepShared

(***************************************************************************)
(* Java threads: SafepointSynchronize::block.                              *)
(***************************************************************************)

\* A thread that has left the list does not block.
Block_terminated(t) ==
  /\ At(t, "block")
  /\ t \in terminated
  /\ Goto(t, "set")
  /\ UNCHANGED <<to, saved, states>> /\ KeepShared

\* Variant: without the test for a terminated thread.
Block_callback_gone(t) ==
  /\ At(t, "block")
  /\ thread_state[t] \in {"Java", "vm_trans"}
  /\ saved' = [saved EXCEPT ![t] = thread_state[t]]
  /\ Store(t, "vm")
  /\ Goto(t, "block_lock")
  /\ UNCHANGED to /\ KeepShared

\* From Java or from the VM: pretend to be in the VM until Safepoint_lock is ours.
Block_callback(t) ==
  /\ At(t, "block")
  /\ t \notin terminated
  /\ thread_state[t] \in {"Java", "vm_trans"}
  /\ saved' = [saved EXCEPT ![t] = thread_state[t]]
  /\ Store(t, "vm")
  /\ Goto(t, "block_lock")
  /\ UNCHANGED to /\ KeepShared

\* The critical section on Safepoint_lock.
Block_lock(t) ==
  /\ At(t, "block_lock")
  /\ Safepoint_lock = FREE
  /\ IF state = "synchronizing"
       THEN /\ waiting_to_block' = waiting_to_block - 1
            /\ has_called_back' = [has_called_back EXCEPT ![t] = TRUE]
            /\ notified' = (notified \/ waiting_to_block' = 0)
       ELSE UNCHANGED <<waiting_to_block, has_called_back, notified>>
  /\ StoreFence(t, "blocked")
  /\ Goto(t, "line_up")
  /\ UNCHANGED <<vm, Threads_lock, Safepoint_lock, threads, suspend, to, saved>>

\* From native code, from a blocking condition, or as a new thread: the VM
\* thread is not waiting for a call back, _thread_blocked is all it needs to see.
Block_quiet(t) ==
  /\ At(t, "block")
  /\ t \notin terminated
  /\ thread_state[t] \in {"native_trans", "blocked_trans", "new_trans"}
  /\ saved' = [saved EXCEPT ![t] = thread_state[t]]
  /\ Store(t, "blocked")
  /\ Goto(t, "line_up")
  /\ UNCHANGED to /\ KeepShared

\* Threads_lock is held for the whole safepoint: the threads line up on it.
\* The state is restored while the lock is held.
Line_up(t) ==
  /\ At(t, "line_up")
  /\ Threads_lock = FREE
  /\ StoreFence(t, saved[t])
  /\ saved' = [saved EXCEPT ![t] = None]
  /\ Goto(t, "unblocked")
  /\ UNCHANGED to /\ KeepShared

\* The end of block(): a thread that was not inside the VM suspends itself now.
Unblocked(t) ==
  /\ At(t, "unblocked")
  /\ Goto(t, IF thread_state[t] \notin {"blocked_trans", "vm_trans"} /\ external_suspend[t]
               THEN "self"
             ELSE IF thread_state[t] = "Java" THEN "java" ELSE "set")
  /\ UNCHANGED <<to, saved, states>> /\ KeepShared

(***************************************************************************)
(* External suspension.                                                    *)
(***************************************************************************)

\* JVM_SuspendThread, under SR_lock.
Suspend(c, t) ==
  /\ At(c, "vm")
  /\ t \in list \ (exiting \cup {Main})
  /\ ~external_suspend[t]
  /\ external_suspend' = [external_suspend EXCEPT ![t] = TRUE]
  /\ UNCHANGED <<ext_suspended, requests, stopped, vm, waiting_to_block, has_called_back,
                 locks, threads, states, local>>

\* java_suspend_self: the flag is set with a compare-and-swap.
Self_suspend(t) ==
  /\ At(t, "self")
  /\ external_suspend[t] /\ ~ext_suspended[t]
  /\ ext_suspended' = [ext_suspended EXCEPT ![t] = TRUE]
  /\ StoreFence(t, thread_state[t])
  /\ UNCHANGED <<external_suspend, requests, stopped, vm, waiting_to_block, has_called_back,
                 locks, threads, local>>

AfterSelf(t) ==
  IF saved[t] = "native_trans" THEN "native_restore"
  ELSE IF thread_state[t] = "Java" THEN "java"
  ELSE IF thread_state[t] \in {"native", "blocked"} THEN thread_state[t]
  ELSE "set"

\* java_suspend_self returns once no request is pending.
Self_return(t) ==
  /\ At(t, "self")
  /\ ~external_suspend[t] /\ ~ext_suspended[t]
  /\ Goto(t, AfterSelf(t))
  /\ UNCHANGED <<to, saved, states>> /\ KeepShared

\* A thread inside ThreadBlockInVM that suspends itself there.
Blocked_suspend(t) ==
  /\ At(t, "blocked")
  /\ external_suspend[t]
  /\ Goto(t, "self")
  /\ UNCHANGED <<to, saved, states>> /\ KeepShared

\* is_ext_suspend_completed(): by what the suspender sees, the thread has
\* suspended itself, is about to, or is in native code.
Ext_suspend_completed(t) ==
  \/ ext_suspended[t]
  \/ visible[t] = "blocked" /\ pc[t] = "self" /\ saved[t] = "native_trans"
  \/ visible[t] = "native"

\* java_suspend returns without a safepoint.
Suspend_return(c, t) ==
  /\ At(c, "vm")
  /\ t \in requests
  /\ Ext_suspend_completed(t)
  /\ requests' = requests \ {t}
  /\ stopped' = stopped \cup {t}
  /\ UNCHANGED <<external_suspend, ext_suspended, vm, waiting_to_block, has_called_back,
                 locks, threads, states, local>>

\* java_resume, with Threads_lock held.
Resume(c, t) ==
  /\ At(c, "owner") /\ c \notin exiting
  /\ t \in list \ exiting
  /\ external_suspend[t]
  /\ external_suspend' = [external_suspend EXCEPT ![t] = FALSE]
  /\ ext_suspended' = [ext_suspended EXCEPT ![t] = FALSE]
  /\ requests' = requests \ {t}
  /\ stopped' = stopped \ {t}
  /\ Threads_lock' = FREE
  /\ Goto(c, "vm")
  /\ UNCHANGED <<vm, waiting_to_block, has_called_back, Safepoint_lock, notified,
                 threads, states, to, saved>>

(***************************************************************************)
(* Threads_lock, thread start and thread exit.                             *)
(***************************************************************************)

\* MutexLocker(Threads_lock) without contention.
Lock_fast(t) ==
  /\ At(t, "vm")
  /\ t \notin terminated
  /\ Threads_lock = FREE
  /\ Threads_lock' = t
  /\ StoreFence(t, "vm")
  /\ Goto(t, "owner")
  /\ UNCHANGED <<vm, waiting_to_block, has_called_back, Safepoint_lock, notified,
                 threads, suspend, to, saved>>

\* With contention: acquired inside ThreadBlockInVM, which then ends.
Lock_slow(t) ==
  /\ At(t, "blocked")
  /\ t \notin terminated
  /\ Threads_lock = FREE
  /\ Threads_lock' = t
  /\ StoreFence(t, Trans("blocked"))
  /\ to' = [to EXCEPT ![t] = "vm"]
  /\ Goto(t, "check")
  /\ UNCHANGED <<vm, waiting_to_block, has_called_back, Safepoint_lock, notified,
                 threads, suspend, saved>>

\* Any other use of Threads_lock.  In java_suspend it comes between setting the
\* flag and waiting for the suspension to be complete.
Unlock(t) ==
  /\ At(t, "owner") /\ t \notin exiting
  /\ Threads_lock' = FREE
  /\ requests' = requests \cup {s \in list \ stopped : t \in scenario.suspenders /\ external_suspend[s]}
  /\ Goto(t, "vm")
  /\ UNCHANGED <<vm, waiting_to_block, has_called_back, Safepoint_lock, notified, threads,
                 states, external_suspend, ext_suspended, stopped, to, saved>>

\* JVM_StartThread: the new thread is on the list before it runs.
Create(c, t) ==
  /\ At(c, "owner") /\ c \notin exiting
  /\ At(t, "unborn") /\ t \in scenario.startable
  /\ list' = list \cup {t}
  /\ pc' = [pc EXCEPT ![t] = "prepared", ![c] = "starting"]
  /\ Threads_lock' = FREE
  /\ UNCHANGED <<vm, waiting_to_block, has_called_back, Safepoint_lock, notified,
                 terminated, exiting, states, suspend, to, saved>>

\* Thread::start, after Threads_lock was released.
Start(c, t) ==
  /\ At(c, "starting")
  /\ At(t, "prepared")
  /\ pc' = [pc EXCEPT ![t] = "started", ![c] = "vm"]
  /\ UNCHANGED <<to, saved, states>> /\ KeepShared

\* JavaThread::exit, under SR_lock: no more suspensions from here on.
Exit(t) ==
  /\ At(t, "vm")
  /\ t \notin exiting \cup {Main}
  /\ ~external_suspend[t]
  /\ exiting' = exiting \cup {t}
  /\ UNCHANGED <<vm, waiting_to_block, has_called_back, locks, list, terminated,
                 states, suspend, local>>

\* Threads::remove.
Remove(t) ==
  /\ At(t, "owner") /\ t \in exiting
  /\ list' = list \ {t}
  /\ terminated' = terminated \cup {t}
  /\ Threads_lock' = FREE
  /\ Goto(t, "vm")
  /\ UNCHANGED <<vm, waiting_to_block, has_called_back, Safepoint_lock, notified,
                 exiting, states, suspend, to, saved>>

\* The thread is deleted.
Delete(t) ==
  /\ At(t, "vm") /\ t \in terminated
  /\ Goto(t, "gone")
  /\ UNCHANGED <<to, saved, states>> /\ KeepShared

(***************************************************************************)
(* The VM thread: SafepointSynchronize::begin.                             *)
(***************************************************************************)

Running == {t \in list : type[t] = "running"}

\* What a step of the VM thread leaves alone.
KeepThreads == UNCHANGED <<threads, thread_state, external_suspend, ext_suspended, local>>
KeepSuspend == UNCHANGED <<requests, stopped>>

\* Threads_lock, then Safepoint_lock, and the number of threads to wait for.
Begin_lock ==
  /\ vmpc = "idle"
  /\ safepoint_counter < 2 * scenario.safepoints
  /\ Threads_lock = FREE /\ Safepoint_lock = FREE
  /\ Threads_lock' = VM
  /\ Safepoint_lock' = VM
  /\ waiting_to_block' = Cardinality(list)
  /\ vmpc' = "synchronize"
  /\ UNCHANGED <<state, safepoint_counter, armed, todo, seen, type, has_called_back,
                 notified, visible>> /\ KeepThreads /\ KeepSuspend

Begin_synchronizing ==
  /\ vmpc = "synchronize"
  /\ state' = "synchronizing"
  /\ vmpc' = "serialize"
  /\ UNCHANGED <<safepoint_counter, armed, todo, seen, type, waiting_to_block,
                 has_called_back, locks, visible>> /\ KeepThreads /\ KeepSuspend

\* Variant: without os::serialize_thread_states().
Begin_serialize_none ==
  /\ vmpc = "serialize"
  /\ vmpc' = "arm"
  /\ UNCHANGED <<state, safepoint_counter, armed, todo, seen, type, waiting_to_block,
                 has_called_back, locks, visible>> /\ KeepThreads /\ KeepSuspend

\* os::serialize_thread_states: mprotect makes every earlier store visible.
Begin_serialize ==
  /\ vmpc = "serialize"
  /\ visible' = IF scenario.UseMembar THEN visible ELSE thread_state
  /\ vmpc' = "arm"
  /\ UNCHANGED <<state, safepoint_counter, armed, todo, seen, type, waiting_to_block,
                 has_called_back, locks>> /\ KeepThreads /\ KeepSuspend

Begin_arm ==
  /\ vmpc = "arm"
  /\ armed' = TRUE
  /\ todo' = Running
  /\ vmpc' = "scan"
  /\ UNCHANGED <<state, safepoint_counter, seen, type, waiting_to_block,
                 has_called_back, locks, visible>> /\ KeepThreads /\ KeepSuspend

\* The loop over the list reads the state of the next running thread ...
Examine_read(t) ==
  /\ vmpc = "scan"
  /\ t \in todo
  /\ seen' = <<t, visible[t]>>
  /\ todo' = todo \ {t}
  /\ vmpc' = "examine"
  /\ UNCHANGED <<state, safepoint_counter, armed, type, waiting_to_block,
                 has_called_back, locks, visible>> /\ KeepThreads /\ KeepSuspend

\* safepoint_safe
Safe(s) == s \in {"native", "blocked"}

\* Variant: suspended threads are not recognized.
Verdict_unsuspended(t, s) ==
  IF Safe(s) THEN "at_safepoint" ELSE IF s = "vm" THEN "call_back" ELSE "running"

\* ... and examine_state_of_thread decides on the state it has read.  Only the
\* suspend flag is read now.
Verdict(t, s) ==
  IF ext_suspended[t] \/ Safe(s) THEN "at_safepoint"
  ELSE IF s = "vm" THEN "call_back" ELSE "running"

\* roll_forward
Examine(verdict) ==
  LET t == seen[1] IN
  /\ vmpc = "examine"
  /\ verdict = Verdict(t, seen[2])
  /\ type' = [type EXCEPT ![t] = verdict]
  /\ waiting_to_block' = waiting_to_block - (IF verdict = "at_safepoint" THEN 1 ELSE 0)
  /\ has_called_back' = [has_called_back EXCEPT ![t] = @ /\ verdict # "call_back"]
  /\ seen' = <<None, None>>
  /\ vmpc' = "scan"
  /\ UNCHANGED <<state, safepoint_counter, armed, todo, locks, visible>>
  /\ KeepThreads /\ KeepSuspend

\* The end of a pass: another one, or the wait.
Next_pass ==
  /\ vmpc = "scan"
  /\ todo = {}
  /\ todo' = Running
  /\ vmpc' = IF Running = {} THEN "wait" ELSE "scan"
  /\ UNCHANGED <<state, safepoint_counter, armed, seen, type, waiting_to_block,
                 has_called_back, locks, visible>> /\ KeepThreads /\ KeepSuspend

\* Safepoint_lock->wait(true)
Begin_wait ==
  /\ vmpc = "wait"
  /\ waiting_to_block > 0
  /\ Safepoint_lock' = FREE
  /\ notified' = FALSE
  /\ vmpc' = "waiting"
  /\ UNCHANGED <<state, safepoint_counter, armed, todo, seen, type, waiting_to_block,
                 has_called_back, Threads_lock, visible>> /\ KeepThreads /\ KeepSuspend

Begin_notified ==
  /\ vmpc = "waiting"
  /\ notified
  /\ Safepoint_lock' = VM
  /\ notified' = FALSE
  /\ vmpc' = "wait"
  /\ UNCHANGED <<state, safepoint_counter, armed, todo, seen, type, waiting_to_block,
                 has_called_back, Threads_lock, visible>> /\ KeepThreads /\ KeepSuspend

\* Variant: the counter only counts ends.
Begin_counter_none ==
  /\ vmpc = "wait"
  /\ waiting_to_block = 0
  /\ vmpc' = "synchronized"
  /\ UNCHANGED <<state, safepoint_counter, armed, todo, seen, type, waiting_to_block,
                 has_called_back, locks, visible>> /\ KeepThreads /\ KeepSuspend

\* The counter is odd before the state says _synchronized.
Begin_counter ==
  /\ vmpc = "wait"
  /\ waiting_to_block = 0
  /\ safepoint_counter' = safepoint_counter + 1
  /\ vmpc' = "synchronized"
  /\ UNCHANGED <<state, armed, todo, seen, type, waiting_to_block,
                 has_called_back, locks, visible>> /\ KeepThreads /\ KeepSuspend

\* The cleanup tasks run before Safepoint_lock is released.
Begin_synchronized ==
  /\ vmpc = "synchronized"
  /\ state' = "synchronized"
  /\ Safepoint_lock' = FREE
  /\ vmpc' = "op"
  /\ UNCHANGED <<safepoint_counter, armed, todo, seen, type, waiting_to_block,
                 has_called_back, Threads_lock, notified, visible>> /\ KeepThreads /\ KeepSuspend

\* The VM operation.  VM_ForceSafepoint, which the suspenders wait for, does
\* nothing: being at a safepoint is all they need.
Operation ==
  /\ vmpc = "op"
  /\ stopped' = stopped \cup requests
  /\ requests' = {}
  /\ vmpc' = "end"
  /\ UNCHANGED <<state, safepoint_counter, armed, todo, seen, type, waiting_to_block,
                 has_called_back, locks, visible>> /\ KeepThreads

(***************************************************************************)
(* The VM thread: SafepointSynchronize::end.                               *)
(***************************************************************************)

End_counter ==
  /\ vmpc = "end"
  /\ safepoint_counter' = safepoint_counter + 1
  /\ vmpc' = "disarm"
  /\ UNCHANGED <<state, armed, todo, seen, type, waiting_to_block,
                 has_called_back, locks, visible>> /\ KeepThreads /\ KeepSuspend

End_disarm ==
  /\ vmpc = "disarm"
  /\ armed' = FALSE
  /\ vmpc' = "leave"
  /\ UNCHANGED <<state, safepoint_counter, todo, seen, type, waiting_to_block,
                 has_called_back, locks, visible>> /\ KeepThreads /\ KeepSuspend

End_state ==
  /\ vmpc = "leave"
  /\ Safepoint_lock = FREE
  /\ Safepoint_lock' = VM
  /\ state' = "not_synchronized"
  /\ vmpc' = "restart"
  /\ UNCHANGED <<safepoint_counter, armed, todo, seen, type, waiting_to_block,
                 has_called_back, Threads_lock, notified, visible>> /\ KeepThreads /\ KeepSuspend

\* restart() on every thread of the list, and Threads_lock is released.
End_restart ==
  /\ vmpc = "restart"
  /\ type' = [t \in JavaThreads |-> IF t \in list THEN "running" ELSE type[t]]
  /\ has_called_back' = [t \in JavaThreads |-> t \notin list /\ has_called_back[t]]
  /\ Threads_lock' = FREE
  /\ Safepoint_lock' = FREE
  /\ vmpc' = "idle"
  /\ UNCHANGED <<state, safepoint_counter, armed, todo, seen, waiting_to_block,
                 notified, visible>> /\ KeepThreads /\ KeepSuspend

-----------------------------------------------------------------------------

\* Steps a Java thread takes of its own accord.
Choose(t) ==
  /\ UNCHANGED scenario
  /\ \/ Java_to_vm(t) \/ Java_to_native(t) \/ Blocked_return(t)
     \/ \E s \in {"vm", "Java"} : Native_return(t, s)
     \/ \E c \in JavaThreads : Suspend(t, c) \/ Suspend_return(t, c)
     \/ Blocked_suspend(t) \/ Lock_fast(t) \/ Lock_slow(t) \/ Exit(t) \/ Delete(t)

\* Steps it is bound to take once it is there.
Continue(t) ==
  /\ UNCHANGED scenario
  /\ \/ Poll(t) \/ Run(t) \/ Check(t) \/ Set(t) \/ Special(t)
     \/ \E s \in {"Java", "native", "blocked"} : Leave_vm(t, s)
     \/ Native_check(t) \/ Native_slow_suspend(t) \/ Native_slow_block(t) \/ Native_restore(t)
     \/ Block_terminated(t) \/ Block_callback(t) \/ Block_lock(t) \/ Block_quiet(t)
     \/ Line_up(t) \/ Unblocked(t) \/ Self_suspend(t) \/ Self_return(t)
     \/ \E c \in JavaThreads : Create(t, c) \/ Start(t, c) \/ Resume(t, c)
     \/ Unlock(t) \/ Remove(t)

VMThread ==
  /\ UNCHANGED scenario
  /\ \/ Begin_lock \/ Begin_synchronizing \/ Begin_serialize \/ Begin_arm
     \/ \E t \in JavaThreads : Examine_read(t)
     \/ \E verdict \in {"running", "at_safepoint", "call_back"} : Examine(verdict)
     \/ Next_pass
     \/ Begin_wait \/ Begin_notified \/ Begin_counter \/ Begin_synchronized
     \/ Operation \/ End_counter \/ End_disarm \/ End_state \/ End_restart

Next ==
  \/ VMThread
  \/ \E t \in JavaThreads : Choose(t) \/ Continue(t) \/ Drain(t)

Spec == Init /\ [][Next]_vars

\* Every thread inside the VM or in a transition runs on, compiled code polls,
\* stores reach memory, and the VM thread is scheduled.
Fairness ==
  /\ WF_vars(VMThread)
  /\ \A t \in JavaThreads : WF_vars(Continue(t)) /\ WF_vars(Drain(t))

FairSpec == Spec /\ Fairness

(***************************************************************************)
(* Properties.                                                             *)
(***************************************************************************)

\* The type invariant.
TypeOK ==
  /\ scenario \in Scenarios
  /\ state \in {"not_synchronized", "synchronizing", "synchronized"}
  /\ waiting_to_block \in 0..Cardinality(JavaThreads)
  /\ safepoint_counter \in 0..2 * scenario.safepoints
  /\ armed \in BOOLEAN /\ notified \in BOOLEAN
  /\ Threads_lock \in JavaThreads \cup {VM, FREE}
  /\ Safepoint_lock \in {VM, FREE}
  /\ list \subseteq JavaThreads /\ todo \subseteq JavaThreads
  /\ terminated \subseteq exiting /\ exiting \subseteq JavaThreads
  /\ vmpc \in {"idle", "synchronize", "serialize", "arm", "scan", "examine", "wait", "waiting",
               "synchronized", "op", "end", "disarm", "leave", "restart"}
  /\ vmpc = "examine" <=> seen \in JavaThreads \X States
  /\ thread_state \in [JavaThreads -> States] /\ visible \in [JavaThreads -> States]
  /\ type \in [JavaThreads -> {"running", "at_safepoint", "call_back"}]
  /\ has_called_back \in [JavaThreads -> BOOLEAN]
  /\ external_suspend \in [JavaThreads -> BOOLEAN]
  /\ ext_suspended \in [JavaThreads -> BOOLEAN]
  /\ requests \subseteq JavaThreads /\ stopped \subseteq JavaThreads
  /\ pc \in [JavaThreads -> {"unborn", "prepared", "started", "java", "vm", "native", "blocked",
                             "check", "set", "special", "self", "native_check", "native_slow",
                             "native_restore", "block", "block_lock", "line_up", "unblocked",
                             "owner", "starting", "gone"}]
  /\ to \in [JavaThreads -> {None, "Java", "native", "blocked", "vm"}]
  /\ saved \in [JavaThreads -> {None, "Java"} \cup TransStates]

\* A thread that neither touches the heap nor can get to do so without
\* finding the safepoint or being resumed first.
Stopped(t) ==
  \/ pc[t] \in {"native", "blocked", "native_check", "native_slow", "native_restore", "line_up"}
  \/ pc[t] \in {"check", "block"} /\ thread_state[t] \in {"native_trans", "blocked_trans"}
  \/ pc[t] = "special" /\ thread_state[t] = "native"
  \/ pc[t] = "self" /\ (ext_suspended[t] \/ thread_state[t] \in {"native", "blocked"})

\* While _state is _synchronized no thread on the list runs: "All Java threads
\* are stopped at a safepoint. Only VM thread is running".
StopTheWorld == state = "synchronized" => \A t \in list : Stopped(t)

\* The types, and the assertions of begin, end, block, the poll handlers and java_suspend_self:
\* no thread the VM thread waits for blocks without calling back ("Deadlock in
\* safepoint code"); a poll only traps while synchronizing, on a running thread;
\* every safepoint starts with all threads running and ends with none; the
\* counter is even outside; a thread that starts to suspend itself is not
\* suspended already; _waiting_to_block is the number of threads still to be
\* accounted for, those not yet examined to a verdict and those that were asked
\* to call back and have not.
Assertions ==
  /\ TypeOK
  /\ vmpc \in {"synchronize", "serialize", "arm", "scan", "examine", "wait", "waiting"} =>
       waiting_to_block = Cardinality(Running)
         + Cardinality({t \in list : type[t] = "call_back" /\ ~has_called_back[t]})
  /\ \A t \in JavaThreads :
       pc[t] = "block" /\ t \notin terminated =>
         IF thread_state[t] = "Java" THEN state = "synchronizing" /\ type[t] = "running"
         ELSE thread_state[t] \in TransStates
              /\ (thread_state[t] # "vm_trans" => type[t] # "call_back")
  /\ \A t \in JavaThreads :
       pc[t] = "block_lock" /\ state = "synchronizing" => waiting_to_block > 0
  /\ \A t \in JavaThreads : ext_suspended[t] => pc[t] = "self"
  /\ vmpc \in {"synchronize", "serialize", "arm"} => Running = list
  /\ vmpc = "examine" => type[seen[1]] = "running"
  /\ vmpc = "restart" => Running = {}
  /\ safepoint_counter % 2 = IF vmpc \in {"synchronized", "op", "end"} THEN 1 ELSE 0

\* When java_suspend has returned, and until it is resumed, the target thread
\* "will not execute any new bytecode".
SuspendHolds == \A t \in stopped : pc[t] # "java"

\* A safepoint that has begun is reached and ends, whatever the threads are doing.
SafepointEnds == vmpc # "idle" ~> vmpc = "idle"

=============================================================================
