# A verification of the HotSpot runtime's synchronization

The repository is an archive of HotSpot virtual machines: `jdk5.0_src` and
`jdk6u21_src`, and a checkout script for 7u79. This project models the
newest VM whose source is there, `src/jdk6u21_src/hotspot` (below, `vm/` is
`src/share/vm`), in the Linux x86 port. Most of HotSpot is sequential data
processing: compilers, parsers, collectors. What is hardest to test is the
small core with which its threads block, exclude and stop each other, and
that core carries everything else. That is what is modelled here.

## 1. Inventory

| Component | State | Operations | Hard because |
|---|---|---|---|
| Monitor/Mutex `vm/runtime/mutex.cpp` | `_LockWord` (lock byte and cxq), `_OnDeck`, `_EntryList`, `_WaitSet`, `_WaitLock`, `_owner`, `_snuck` | lock, lock_without_safepoint_check, try_lock, unlock, jvm_raw_lock/unlock, wait, notify, notify_all | the lock is dropped before succession is arranged; waiters move between lists; the VM thread enters without the lock |
| PlatformEvent, ParkEvent `src/os/linux/vm/os_linux.cpp` | `_Event`, `_nParked`, mutex, condition variable | park, park(millis), TryPark, unpark, reset | `_Event` changes outside the mutex; spurious wakeups, timeouts, an NPTL defect |
| Parker, same file | `_counter`, mutex, condition variable, interrupt flag | park, unpark, os::interrupt, os::is_interrupted | permit and flag are read without the mutex |
| ParkEvent free list `vm/runtime/thread.cpp` | `FreeList`, `FreeNext`, `AssociatedWith` | Allocate, Release | lock-free, ABA |
| Safepoints `vm/runtime/safepoint.cpp`, `interfaceSupport.hpp` | `_state`, `_waiting_to_block`, `_safepoint_counter`, per thread: state, type, has_called_back | begin, end, block, examine, roll forward, every state transition | two sides read each other's store without a lock, through store buffers |
| Suspension, thread start and exit `vm/runtime/thread.cpp`, `vm/prims/jvm.cpp` | suspend flags, the Threads list | java_suspend, java_resume, java_suspend_self, add, remove | all of it at any moment of a safepoint |
| JNI fast field access `src/cpu/x86/vm/jniFastGetField_x86_64.cpp` | safepoint counter | two speculative loads | unsynchronized with the collector |
| VM thread `vm/runtime/vmThread.cpp` | queues, drain list, current operation, tickets | execute, loop, evaluate, terminate | coalescing, priorities, operations allocated on the caller's stack |
| Java monitors `vm/runtime/synchronizer.cpp`, unlock of compiled code `src/cpu/x86/vm/x86_64.ad` | `_owner`, `_recursions`, `_count`, `_waiters`, `_succ`, `_Responsible`, `_cxq`, `_EntryList`, `_WaitSet`, an ObjectWaiter per queued thread | enter, exit, wait, notify, notifyAll, Fast_Unlock | the lock is dropped first and a successor sought afterwards; compiled code drops it without a second look; waiters leave the WaitSet by notify, timeout and interrupt at once |
| Stack locks, inflation, hash codes `vm/runtime/synchronizer.cpp` | the mark word, displaced headers on the stacks, free lists of monitors | slow_enter, fast_exit, inflate, FastHashCode, omAlloc, omRelease, omFlush, deflation | lock state, monitor and hash code share one word that moves between object, stack and monitor |
| Task queues and terminator `vm/utilities/taskqueue.*` | `_bottom`, `_age`, `_elems`, `_offered_termination` | push, pop_local, pop_global, peek, offer_termination | lock-free with indices that wrap; threads that see no work may be wrong a moment later |
| Work gangs `vm/utilities/workgroup.cpp` | task, sequence number, started and finished workers | run_task, loop, stop, SubTasksDone | a worker may sleep through a task or see one twice |
| Parallel young collection `vm/gc_implementation/parNew` | forwarding pointers, array lengths, the overflow list | claim roots, copy, scan, overflow, take, steal, terminate | many threads evacuate one graph; the overflow list is linked through the objects and taken by exchange |
| Biased locking `vm/runtime/biasedLocking.cpp`, lock and unlock in `src/cpu/x86/vm` | mark word, prototype header with its epoch, revocation count, lock records on the stacks | lock, unlock, revoke_and_rebias, bulk revoke and rebias, revoke_at_safepoint, preserve and restore marks | a biased object is locked without a store, so that whoever takes the bias away must find the lock records; three ways to take it race without a lock |
| GC locker `vm/memory/gcLocker.cpp` | counts, needs_gc, doing_gc | lock_critical, unlock_critical, stall | not modelled yet |
| Concurrent GC threads `vm/gc_implementation` | suspendible thread set, CMS token, buffer lists | join, leave, yield, suspend_all | not modelled yet |
| Class initialization `vm/oops/instanceKlass.cpp` | init state, init thread | initialize | not modelled yet |
| Compile broker, sweeper, code heap | queues, nmethod states, free list | compile, sweep, allocate | not modelled yet |
| Compilers, interpreter, class files, collectors' tracing, JNI/JVMTI tables, services, tools | | | left out: sequential code, machine code or I/O |

How they interact. Every thread blocks in the end on a PlatformEvent (Monitor,
ObjectMonitor) or a Parker (LockSupport). Monitors hold their waiters as
ParkEvents, which come from the free list. Safepoint code uses two Monitors,
Threads_lock and Safepoint_lock, and a Java thread that blocks on a Monitor
counts as stopped, which is why Monitor::lock has its safepoint check and its
sneak path. The VM thread takes operations from its queue under
VMOperationQueue_lock, begins the safepoint, evaluates and ends it. The fast
field accessors read the counter that begin and end increment. A Java monitor
lives in a pool that is scavenged at safepoints, so that a thread inside enter,
exit or wait relies on what keeps it from being stopped there, or on the counts
that mark the monitor busy. The young collection runs inside a safepoint on
the gang: the VM thread hands out the task, the workers share objects through
their queues, the overflow list and the forwarding pointers, and leave by the
terminator.

`PROJECT.json` lists every component, and under "hazards" what can go wrong at
which line.

## 2. Modules

| Module | Models | Extends |
|---|---|---|
| `NativeMonitor` | mutex.cpp, one action per shared access | |
| `AbstractMonitor` | what a monitor promises: holder, contenders, waiters | |
| `Pthread` | the pthread mutex and condition variable, as os_linux.cpp uses them (external) | |
| `PlatformEvent` | os::PlatformEvent | Pthread |
| `AbstractEvent` | a binary semaphore with timed waits | |
| `Parker` | Parker and os::interrupt | Pthread |
| `ParkEventList` | ParkEvent::Allocate and Release, pointer by pointer | |
| `Safepoint` | safepoint.cpp, the state transitions, suspension, thread start and exit | |
| `JNIFastGetField` | the fast accessors beside Safepoint | Safepoint |
| `VMThread` | the operation queue and the VM thread's loop | |
| `ObjectMonitor` | ObjectMonitor: enter, TrySpin, exit, wait, notify; Fast_Unlock; os::interrupt | |
| `ObjectSynchronizer` | the mark word around it: stack locks, inflation, hash codes, the pool, deflation | ObjectMonitor |
| `BiasedLocking` | biasedLocking.cpp with the code that locks and unlocks | |
| `TaskQueue` | GenericTaskQueue | |
| `Terminator` | ParallelTaskTerminator | TaskQueue |
| `WorkGang` | WorkGang and GangWorker | |
| `ParNew` | the young collection on all three | Terminator, WorkGang |
| `MC*` | the instances TLC checks | |
| `NativeMonitorProofs` | theorems on NativeMonitor, and that it implements AbstractMonitor | NativeMonitor |
| `ParkingProofs` | theorems on PlatformEvent, Parker and ParkEventList | PlatformEvent, Parker, ParkEventList |
| `SafepointProofs` | theorems on Safepoint and JNIFastGetField | JNIFastGetField |
| `VMThreadProofs` | theorems on VMThread | VMThread |
| `ObjectMonitorProofs` | the invariant of ObjectSynchronizer, and that the steps inside a monitor keep it | ObjectSynchronizer |
| `ObjectSynchronizerProofs` | that the other steps keep it, and the theorems on the lock, the pool and the hash code | ObjectMonitorProofs |
| `MonitorQueuesProofs` | the theorems on the queues, the wakeups and the assertions | ObjectSynchronizerProofs |
| `BiasedLockingProofs` | theorems on BiasedLocking | BiasedLocking |

In each module the variables carry the names of the C++ fields; `pc`, `vmpc`
and the like say where a thread is. An action is one access to shared state
(NativeMonitor, PlatformEvent, Parker, ParkEventList, Safepoint), with a retried
compare-and-swap as its decisive iteration, or one critical section
(VMThread, WorkGang, and the threads' sections on Safepoint_lock and SR_lock).
ObjectMonitor and ParNew take one step per access that another thread can
interfere with; what an owner does alone is joined to the step before or after. Definitions
named `X_something` after a comment "Variant:" are altered forms of X: each
run's properties are shown to fail when X is replaced by one of them.

What abstracts what:

* NativeMonitor takes a thread's ParkEvent as one bit, `event`. PlatformEvent
  shows that os::PlatformEvent really is such a bit (ImplementsEvent).
* Safepoint takes Threads_lock and Safepoint_lock as locks with an owner, and
  VMThread takes VMOperationQueue_lock and VMOperationRequest_lock so.
  NativeMonitor shows that Monitor provides this (ImplementsMonitor).
* VMThread takes a safepoint as an interval in which Java threads do not move,
  reached once none is inside a region without safepoint check. Safepoint shows
  that begin() establishes it (StopTheWorld).
* JNIFastGetField runs the whole of Safepoint and adds readers to it.
* ObjectMonitor takes a ParkEvent as one bit too, and `_WaitSetLock` and ListLock
  (SpinAcquire, muxAcquire) as locks. ObjectSynchronizer takes a safepoint as an
  instant at which every thread is in Java code between two calls, or blocked
  inside EnterI, wait or ReenterI, as ThreadBlockInVM has it.
* BiasedLocking takes a VM operation as one step at a moment when every thread
  is in Java code between two bytecodes or blocked in a call. Its safepoints are
  those of Safepoint, but an operation and the return of its caller are two steps,
  with other operations in between. An inflated monitor is its owner and its
  count: ObjectMonitor shows that it is a lock. A lock record is on the stack
  before the lock is acquired, as the interpreter has it, and a walk of the stack
  finds it in either state. A collection resets every mark to the prototype header
  except those that must_be_preserved names and those that preserve_marks saves.
* ParNew abstracts an object to its references, an array to chunks of
  references, and memory to the outcome of an allocation. Which of two sampled
  queues a thief prefers is left open.

History. Two variables record what the code does not keep. `pending` of VMThread
has, by priority, the operations added and not yet evaluated: evaluation takes its
oldest one off, whichever operation the VM thread has in hand, so that
ExactlyOnceInOrder compares two things. `held` of ObjectSynchronizer lists a
thread's locks, each taken by a synchronized block or by JNI: the compiler,
not the VM, keeps that list, and it gives each lock its BasicLock on the stack.
A scenario has with each program the locks before each of its calls (`nest`),
and ScenariosAssumption demands that the two fit: Java code and JNI unlock what
they have locked, innermost first, and call wait and notify with the lock.

Java monitors run with the default knobs: ExitPolicy 0, QMode 0, MoveNotifyee
2, SpinEarly, SpinAfterFutile and SpinSetSucc on. How long a thread spins, and
whether it may, is left open; the threads in `Spinners` spin at all. There biased
locking is off, as -XX:-UseBiasedLocking has it; BiasedLocking has it on.

Memory. NativeMonitor, PlatformEvent, Parker, ParkEventList, ObjectMonitor, TaskQueue
and ParNew are sequentially consistent: the code fences each Dekker pair, or, as
the unlock of compiled code, makes up for the missing fence otherwise. Safepoint is not: without
UseMembar a thread's store of its state becomes visible to the VM thread later,
and `os::serialize_thread_states` is what forces it out.

## 3. Runs

Three threads or fewer are enough for each race described in the code: a holder,
an heir and an outsider for the monitor; a parker with three unparkers for
events, one late, one redundant, one for the next park; a starting thread and
one that starts it for safepoints.

| Run | Checks | Bounds |
|---|---|---|
| `monitor_safepoint` | lock byte and owner stay consistent and no two threads are in the critical section when the VM thread sneaks; every ParkEvent on exactly one list; a free contended lock has a successor or someone arranging one; types and the assertions of mutex.cpp on the lock byte, OnDeck, the lists, `_owner` and `_snuck` | VM thread (lock, try_lock), a Java thread that locks and notifies all, one that uses jvm_raw_lock and waits, with a timeout or suspendably; diagnostic flags on. The five invariants are proved for any number of waiters |
| `monitor_sneak` | a finding, below | the instance of `monitor_safepoint` |
| `monitor_live` | NativeMonitor implements AbstractMonitor; only the holder of OnDeck touches EntryList; a contended free lock is acquired | 3 threads, one call mix each: lock and notify, lock and timed wait, lock |
| `parking` | no wakeup, permit or interrupt is lost; PlatformEvent is a binary semaphore; unparked threads return; on the free list each event is in exactly one place in spite of ABA, and Allocate and Release are lock-free | a thread uses its PlatformEvent or its Parker, with 3 unparkers, that also interrupt it in its Parker; every combination of the NPTL defect, its workaround and FilterSpuriousWakeups except the defect without the workaround; for the free list 2 threads, 4 events, an Allocate starts while fewer than 3 are in use |
| `safepoint` | nobody runs in a safepoint; the count of threads to wait for is exact; a fast accessor never returns a value read across a move; types and the assertions on the counts, states and types of threads | three settings: 1 safepoint with store buffers in front of the thread states, start and exit; 2 safepoints with membars and callers of java_suspend followed to its return; 3 safepoints and 1 reader |
| `safepoint_live` | a safepoint that begins ends | 2 threads, 1 safepoint |
| `safepoint_suspend` | a finding, below | 1 safepoint |
| `vmthread` | no operation lost, repeated or reordered; a collection finds the oops of every waiting operation; execute() returns after evaluation; every operation is evaluated; DestroyJavaVM is told of the VM thread's exit | 2 Java threads, 1 other, all modes, priority turns after 2 instead of 10 |
| `parnew` | no chunk is scanned twice or by nobody; threads leave only when all is done; a copied array has its length; the count of offers is exact; types and the assertions of the queues, the terminator and the overflow list | 2 threads, 4 objects, queues of 4 slots, 1 steal; an array with promotion, a full queue from the wrapped index, an overflow list with failing promotions, 2 collections in a row |
| `object_monitor` | the lock is exclusive through stack lock, inflation and monitor; nobody is stranded on a free monitor; each queued thread is on the one list its TState names; every monitor of the pool is in one place and none is deflated under a thread; the hash code never changes; the assertions on owner, recursions, successor, TState and header | 3 threads, one of which may spin, 1 object, 3 monitors, 2 hash codes, 3 nested locks; eight scenarios: contention, hash codes, recursion, JNI, interrupt, notify, notifyAll, two notifies |
| `biased_locking` | what a thread believes to have locked, mark and lock records say it has locked, in the form its unlock needs; no revoked object, and no class after its bulk revocation, is ever biased again; types, that biases are revoked where fast_enter and slow_enter go on, that a lost compare-and-swap lost to a revocation, and the adjustment of epochs | 2 threads with 2 objects and 3 threads with 1 object, of one class; 2 lock records on a stack; thresholds 2 and 3; 3 epochs |
| `notify_race` | a finding, below | the scenario of the interrupt |

In the first setting of `safepoint` UseMembar is off: a fenced store is a store
whose write-back follows at once, so one safepoint with membars is among the
behaviours checked. With two safepoints and the followed suspensions that
instance has over five million states, so the second setting has the fences. In
`monitor_safepoint` the flags 1 and 16 of NativeMonitorFlags and
NativeMonitorTimeout add wakeups and looks at the WaitSet; `monitor_live` has
them off.

The properties Asserts and Assertions state the assertions of the code that relate the state
of several threads, each at the program points where the code makes it. Among those not stated are, in
mutex.cpp, the comparison of two reads of EntryList that the model makes one (565),
the links within the WaitSet (798, 801: it is a sequence here), ranks, and the
owner's being the caller, which is MutualExclusion; in synchronizer.cpp lines 1211,
4074 and 4147; in biasedLocking.cpp the checks of results at 417 and 605; in
parNewGeneration.cpp the totals at 853 and in workgroup.cpp the debug counters of
SubTasksDone (388, 414).

In `parking` the free list has two threads: one takes, uses and releases the head while the
other is between its read and its compare-and-swap, or has a residual list to put
back. OnePlace is proved for any number of threads and events (section 5).

The symmetry of `parnew` exchanges the workers of the gang: the part of the task
a worker gets is what the rest of the model names. The symmetry of
`object_monitor` exchanges the two threads that do not spin, with every scenario
present in both assignments of their roles, and the hash codes.

In `parnew` the bound MaxSteals is necessary: two threads can steal the same
object from each other for ever, each time after the other has pushed it, and
nothing but their progress in between ends it. One steal reaches the race of a
thief with the owner for the last element. Tags is larger than the number of
resets of a run, so the wrap of the tag is not reached: the code relies on no
thread sleeping through 2^16 or 2^32 of them. TrimSize, Desired and StealTries are
small versions of 10 * ParallelGCThreads, ParGCDesiredObjsFromOverflowList and
2 * n.

In `object_monitor` a block has one usable monitor instead of 127, and three
blocks are enough for the monitor of the object, one in the hands of a thread
whose inflation fails, and one that was deflated and waits on a free list.

In `biased_locking` the thresholds for bulk rebias and bulk revocation are 2 and 3
instead of 20 and 40: what matters is that the first is below the second and that
single revocations precede both. Epochs wrap at 3 instead of 4; repeated decay of the
count lets a class see any number of bulk rebiases, so the epochs do wrap. A thread
that exits may come back: a new thread has the address of an old one, and the
bias of the old is taken for its own. The symmetry exchanges the threads and the
objects.

The counter limit 10 of the VM operation queue is a constant: the property
Served does not depend on it. Safepoints are bounded by MaxSafepoints, since
the second is where state left over from the first would show; the fast accessor
needs three, so that two whole safepoints fit between its two reads of the
counter. The Threads list, the events and the requests have as many elements as
the instance has.

Fairness. Weak fairness of a thread's own steps inside an operation: the
operating system runs every runnable thread. No fairness for starting an
operation or for spurious wakeups, nor for timeouts in NativeMonitor, PlatformEvent and
Parker, so that no timeout hides a lost wakeup there. In VMThread the timed wait of
VMThread::loop is a step of the fair loop: the code passes
GuaranteedSafepointInterval to every such wait, so Served may rest on it. unlock() is fair: a critical section ends. Strong
fairness is used where a lock alternates: Parker's pthread mutex between
unparkers, and in VMThread for VMOperationQueue_lock and for a Java thread
between two safepoints, where the queue of Monitor, or the interval between
safepoints, gives the thread its turn.

ObjectSynchronizer, BiasedLocking and ParNew have no fairness and no liveness
property: NoStranding, and in ParNew's Asserts the exact count of
offers, are the safety conditions on which progress rests, and TLC's
check for deadlock shows that some thread can always go on until all programs
have ended.

Deadlock is checked in every run except `vmthread`, where everything stops at the
last safepoint once the VM has terminated.

## 4. Findings

* `safepoint_suspend`: java_suspend() returns for a thread in a native
  transition that has been resumed and suspended again after its last look at
  the suspend flag; the thread then runs Java code.
* `monitor_sneak`: lock() asserts ILocked() at Exeunt, also for the VM thread that sneaks
  (mutex.cpp:882 and 897). A Java thread in wait() has cleared `_owner` and still has the
  lock byte when the safepoint is reached, since it is in ThreadBlockInVM by then. The VM thread
  fails to get the lock and finds no owner; the waiter goes on into IUnlock and clears the
  byte; the VM thread comes to the assertion with the byte clear. Only a debug build
  notices: unlock() of the VM thread leaves the byte alone, and the lock byte and
  the exclusion are right throughout (`monitor_safepoint`).
* `notify_race`: wait() claims that "Monitor notify has precedence over thread
  interrupt". notify() changes the TState of the waiter before it sets
  `_notified`. A waiter that an interrupt has woken and that looks in between
  finds itself off the WaitSet with `_notified` 0, reenters, and ends in
  InterruptedException. The notification it has consumed reaches nobody else.
  notifyAll() stores in the opposite order and is free of this.

Also seen, not a run: WorkGang::stop() waits for all workers to finish but does
not reset `_finished_workers`; after a task it returns at once although its
comment says that it waits.

## 5. Proofs

TLAPS proves the following for every set of threads and every value of the other
constants that the named assumptions of the modules allow; TLC evaluates the
assumptions in each run. Each theorem is `Spec => []P` by an inductive invariant,
unless said otherwise, and each invariant was model-checked before it was proved.

**NativeMonitor** (`NativeMonitorProofs`). TypeOK (a part of Asserts in the runs),
LockByteHeld and MutualExclusion. TypeOK needs HandOK besides (notify pushes what
it has in hand). LockByteHeld and MutualExclusion are proved together, with
SneakInv and SafepointInv: while the VM thread has sneaked it is at a safepoint,
and every Java thread that has or gets the lock byte is inside a ThreadBlockInVM
region which it cannot leave. By SneaksAlone no other thread is meanwhile where
it would have to stop, so unlock() finds `_snuck` set for the VM thread only. The hypothesis is SneakDiscipline: only threads that
stop at safepoints share a lock with a VM thread that may sneak. Without it lock()
would take a thread that has the lock byte and is about to set `_owner` for a
stopped Java thread.

Its second half has OnExactlyOneList and QueueDiscipline without that hypothesis, and under it Succeeded, Asserts and ImplementsMonitor. BaseInv says who
has the inner lock (OnDeck = LBIT) and the WaitLock; PlaceInv says of each ParkEvent
which list, detached segment or hand it is in, and that no list repeats. Most steps
move no ParkEvent (Calm); each of the others (Moves) has a lemma on what it does to
the places. Succession rests on HeirInv (an heir who is OnDeck while the lock is free
is awake, or is about to be unparked) and QueueInv (if nobody is OnDeck and a list is
not empty, some thread in IUnlock has still to look at that list). For the
refinement the queue of AbstractMonitor is read off the places; LeavingInv says
that a thread which gives the lock up is not queued yet.

**PlatformEvent** (`ParkingProofs`). NoLostWakeup, Guarantees, CondAlive, and
that PlatformEvent implements AbstractEvent. The invariant says who holds the mutex
where, that `_nParked` counts the parked thread, that the condition variable is
corrupt or destroyed only on the way through its reinitialisation, that with the
workaround no signal follows an unlock, and (OwedInv) that an unpark that comes
between the test of `_Event` and the wait still has to get the mutex, so that its
signal comes after the wait has begun. The flags are chosen in Init, and the one
assumption about them, there and in the proof, is that the workaround, on by
default, is on wherever the NPTL defect is present.

**Parker** (same module). NoLostPermit, InterruptSeen and ParkerCondAlive, by an
invariant of the same shape: no permit is there when the wait begins; whoever sets
it later owes a signal; from the last look at the interrupt flag on, an interrupt
has a permit behind it or on its way. CondAlive and ParkerCondAlive, that no thread
signals a condition variable that is gone, are stated by the proofs only.

**ParkEventList** (same module). OnePlace, for any number of threads and events.
What a pointer leads to is the least set that has its target and that FreeNext does not lead
out of (Reach), so that no induction along the list is needed: a set is shown to be
closed, or to be contained in every closed one. The invariant says that each event made is in
exactly one place (Placed): behind FreeList, behind one of the private pointers of a thread in
Allocate or Release, in its hand, or in use; that FreeNext has no cycle
(Acyclic); and what each thread may rely on where it is (Local). The head that Allocate has
read may leave the list and come back (ABA): the invariant says nothing of it until the
swap that takes the whole list succeeds, and then what hangs on the head is the list as it is now.
Each step either leaves every chain as it is, moves a whole chain from one pointer
to another, cuts off a head, or hangs one chain on the end of another.

**Safepoint** (`SafepointProofs`). StopTheWorld and Assertions, with UseMembar and
without, for any number of safepoints, with suspension, thread start and exit.
A thread is accounted for because the VM thread has read a safe state of it, or
because it has called back. ReadInv says what the VM thread can read once stores have
been forced out: a safe state it reads then is that of a stopped thread. VerdictStep
says that such a thread stays stopped while `_state` is set. CountInv says that
`_waiting_to_block` is the number of threads not accounted for, so that the VM thread
goes on only when there is none. Around these: Locals and ListInv (where a
thread is determines its state, its type and whether it is on the list), VMInv (the same
for the VM thread), MembarInv, VerdictInv, PollInv and CounterInv.

**JNIFastGetField** (same module). FastGetConsistent, through ReadersOnlyRead: the
specification with readers implies Spec, so Safepoint's invariant holds beside them.
HeapInv ties the number of times objects began or ceased to move to the safepoint
counter, and FastInv says that a reader whose value is bad will see another counter.

**VMThread** (`VMThreadProofs`). ExactlyOnceInOrder, OopsReached and
ReturnsAfterEvaluation. Order says that the operation in hand, the drain list and the
queue of a priority are, in this order, the pending operations of that priority; each
route from queue to evaluation moves operations between the three. Places says which of
them is empty where, so that none is overwritten; Tickets says that only the operation
of a caller completes its ticket.

**ObjectSynchronizer** (`ObjectMonitorProofs`, `ObjectSynchronizerProofs`, `MonitorQueuesProofs`).
MutualExclusion, HashStable and MonitorsAccounted, for any programs whose locks are
paired, any pool, any depth of nesting. The invariant has these parts:

* Typing, and Control: the subroutines inflate(), TrySpin and the clearing of
  `_Responsible` return to where they were called from.
* OwnerInv: a thread *has* the lock, by its place in enter, exit or wait (Has), exactly
  when the mark word, the stack lock that an inflating thread has frozen, or the
  owner word names it.
* Depths and Counted: the owner's locks, less the recursive stack locks, number
  `_recursions` + 1, or one for a stack lock; wait() saves that number and restores it.
  Without this a recursive exit could not be told from the last one.
* HeaderInv: the header with the hash code, wherever it is, has the code returned before.
* InflateInv: what inflate() read still holds at its last store, because INFLATING
  admits one thread.
* MonitorInv: `_count` and `_waiters` count the threads in EnterI and in wait(), a monitor
  out of use is idle; UseInv: a thread inside a monitor is inside the one in the mark.
  Deflation takes none that is busy and stops the threads that are not counted.
* PoolInv: each monitor of the blocks allocated is in one place, and free lists do not repeat.
* NestInv: the calls left to a thread fit the locks it has.

A step inside a monitor is of one of four kinds, each with a lemma for the whole
invariant: it is quiet (QuietStep), takes the owner word (AcquireStep), drops it
(ReleaseStep) or changes a count (MonitorMove). Each action is then shown to be of
its kind. The steps on the mark word, the pool and the hash code have lemmas of
their own.

QueuesAgree and Asserts rest on a second invariant, QInv, on top of the first:

* NodeInv: where a thread is leaves few values to the TState of its ObjectWaiter.
* ListInv: cxq, EntryList and WaitSet have, each once, the threads that the place and the
  TState put there (OnCxq, OnEntries, OnWaits). A waiter that a notifier has taken from the
  WaitSet and not linked yet is on none (Carried).
* HandInv and FarInv: such a notifier has the WaitSetLock, so there is one, and its waiter is
  not in EnterI.
* ExitInv: what an exiting owner has found on EntryList stays, since only the owner drains cxq
  and unlinks.
* SuccInv and RespInv: the thread that `_succ` names is on EntryList or in a spin that will clear it; the
  Responsible thread is in EnterI and does not park without a timer. FreshInv and ObjectInv: a monitor that is not in the mark has nothing on its lists.

Most steps move no thread from a list to another (the lemmas named Calm); a push, a drain, an unlinking and the
two halves of a notify do (Moves); a step outside the monitor, deflation included, disturbs
nobody (Away).

NoStranding rests on a third, SInv, on top of both:

* WakeInv: a free monitor with a queue has a thread that will try (Trier) or will wake
  (Waker). An epilog_unpark counts only if its target is on the queue.
* HeirInv: the thread that `_succ` names has an unpark, is about to get one, or looks at `_succ` again
  before it sleeps. So exit() may leave the wakeup to it.
* PollInv: between the two looks of the 1-0 unlock at the lists and its store, whoever
  has come to the empty lists is Responsible or will be. So the thread
  that the unlock cannot see polls.
* ClearInv: a thread that clears `_succ` on its way out of enter() has the lock.

Every step of ObjectMonitor that could end a Trier or a Waker either takes the lock, empties the
queues, finds a successor, or leaves another.

**BiasedLocking** (`BiasedLockingProofs`). LockRecords, Asserts and RevokedForGood, and
from LockRecords that no two threads hold one object (Exclusion), for any number of threads,
objects and epochs, any thresholds and any depth of nesting. The invariant has these parts:

* Fit, for each thread and object: the records by which the thread holds the object go with
  the mark word, as a bias of the current epoch, as a stack lock at the oldest record, or as
  a monitor whose recursions are one less than the records that count; conversely a
  stack lock points at such a record, and the owner of a monitor has one. LockRecords
  alone is not inductive: a recursive unlock could not be told from the last one, and a
  record could be named that is gone.
* Rebiased: a thread whose bulk rebias has been done and that has not woken yet holds its
  last record already, since another revocation would make a stack lock of it.
* RecordInv: every record but the last of a thread about to lock is held, and an object with a
  record is biased in the current epoch, if at all; the one exception is the object whose expired
  bias its thread is just about to take or to drop. So a bulk operation finds all it needs.
* LocalInv: what a thread has read of a mark word is still good enough for its next
  compare-and-swap, or that fails.
* The revocation count has room for the threads about to increment it.

At a safepoint no thread is about to replace a bias, so the heap is what SafeHeap says, and
a lemma for each of revoke_bias, the bulk rebias, the bulk revocation and revoke_at_safepoint
shows that it leaves such a heap (Sound). An operation on a list of objects is a recursive
function over the list. That every stage of it is sound is shown by the smallest
counterexample (WFMin), which needs no induction theorem. Between safepoints a mark word
changes in one of few ways (Move), and none of them disturbs what another thread has read.

Only model-checked:

* Liveness: Served, LockFree, the returns of unparked threads, the end of safepoints and
  the like. Fairness and ENABLED are out of the prover's reach.
* ParNew: its properties are true for bounded tags and steals only, and the graph
  that is copied is data to do induction over.

## 6. Not modelled

The barging path of Monitor::ILock (NativeMonitorFlags & 32), a diagnostic that
stores a Thread where a ParkEvent is expected. A requester of safepoint operations
that is no Java thread and does not wait for them: it can add operations as fast
as the VM thread drains them, the safepoint then never ends, and nothing in
VMThread::loop prevents it (TLC shows this when the instance has one).
Rank checks, names and statistics of Monitor. Deadlines: compute_abstime and
unpackTime. The suspend-equivalent handshake after Parker's wait. Safepoint
statistics, timeouts, cleanup tasks and the concurrent GC threads that begin()
also stops. In ObjectMonitor, external suspension inside enter, wait and
ReenterI, try_enter, complete_exit and reenter, callers that do not own the
monitor, raw monitors and the knobs that are off; in ObjectSynchronizer, MonitorInUseLists, MonitorBound and the queries of an owner. In BiasedLocking,
deflation, hash codes in the mark, locks of compiled code that keep the displaced
header elsewhere, JNI locks and several classes. In ParNew,
ParGCUseLocalOverflow, the cards of the older generation, weak references and
allocation buffers; in WorkGang, WorkGangBarrierSync, FreeIdSet,
SequentialSubTasksDone and the GCTaskManager. VM operations nested in another, and operations that their prologue
cancels. In Safepoint, Thread.stop and other asynchronous exceptions, detaching
and DestroyJavaVM. The reasons for whole components are in `PROJECT.json`.

## 7. Plan

1. Suspension inside ObjectMonitor; MuxLock and SpinLock.
2. GC locker; suspendible thread set and CMS token, joined to Safepoint.
3. Class initialization; CodeHeap free list against a reference definition;
   compile queue and nmethod states; nested VM operations.
4. Deadline arithmetic with its widths.
5. Theorems: the count of offers of Terminator, apart from ParNew.
