------------------------------- MODULE VMThread -------------------------------
(***************************************************************************)
(* The VM thread and the threads that ask it to execute VM operations:     *)
(* runtime/vmThread.cpp (VMOperationQueue, VMThread::loop, execute,        *)
(* evaluate_operation, run and wait_for_vm_thread_exit).                   *)
(*                                                                         *)
(* Safepoints appear here as their users see them: between begin() and the *)
(* moment begin() returns the Java threads run on until they block, then   *)
(* they stand still until end().  A Java thread stops anywhere but inside  *)
(* execute() before it has added its operation, where it locks without a   *)
(* safepoint check.  Safepoint shows that begin() keeps this promise.      *)
(*                                                                         *)
(* Critical sections on the monitors contain no other lock; each is one    *)
(* step, except that the VM thread holds VMOperationQueue_lock from the    *)
(* removal of an operation until it waits or leaves the block.             *)
(***************************************************************************)
EXTENDS Naturals, Sequences, Functions

CONSTANTS Requesters,      \* threads that call VMThread::execute
          JavaRequesters,  \* those that are Java threads
          Modes,           \* per requester, the evaluation modes of its operations
          QueueLimit,      \* safepoint operations taken before others: 10 in the code
          VM, FREE, None

AllModes == {"safepoint", "no_safepoint", "concurrent", "async_safepoint"}

ASSUME VMThreadAssumption ==
  /\ JavaRequesters \subseteq Requesters
  /\ Modes \in [Requesters -> SUBSET AllModes]
  /\ QueueLimit \in Nat
  /\ VM # FREE
  /\ None \notin Requesters \X AllModes /\ None \notin AllModes

\* VM_Operation::evaluate_at_safepoint and evaluate_concurrently.
AtSafepoint(op) == op[2] \in {"safepoint", "async_safepoint"}
Concurrently(mode) == mode \in {"concurrent", "async_safepoint"}
Ops == Requesters \X AllModes
Priorities == {"safepoint", "medium"}
Priority(op) == IF AtSafepoint(op) THEN "safepoint" ELSE "medium"

VARIABLES
  queue,            \* VMOperationQueue::_queue, by priority
  queue_counter,    \* VMOperationQueue::_queue_counter
  drain_list,       \* VMOperationQueue::_drain_list
  safepoint_ops,    \* the local of loop()
  cur,              \* VMThread::_cur_vm_operation
  Queue_lock,       \* owner of VMOperationQueue_lock, VM or FREE
  notified,         \* the wait on VMOperationQueue_lock has been notified
  timedout,         \* the periodic safepoint is the one inside the wait loop
  safepoint,        \* "no", "synchronizing" or "yes"
  should_terminate, terminated,
  vmpc,             \* where the VM thread is
  pc,               \* where each requester is
  mode,             \* the mode of the operation it is executing
  completed,        \* its completed count has reached its ticket
  pending,          \* history: by priority, the operations added and not yet evaluated
  dpc               \* where the thread in DestroyJavaVM is

ops  == <<queue, queue_counter, drain_list, safepoint_ops, cur>>
term == <<should_terminate, terminated, dpc>>
reqs == <<pc, mode, completed>>
vars == <<ops, Queue_lock, notified, timedout, safepoint, term, vmpc, reqs, pending>>

Init ==
  /\ queue = [p \in Priorities |-> <<>>]
  /\ queue_counter = 0
  /\ drain_list = <<>>
  /\ safepoint_ops = <<>>
  /\ cur = None
  /\ Queue_lock = FREE
  /\ notified = FALSE
  /\ timedout = FALSE
  /\ safepoint = "no"
  /\ should_terminate = FALSE
  /\ terminated = FALSE
  /\ vmpc = "take"
  /\ pc = [r \in Requesters |-> "idle"]
  /\ mode = [r \in Requesters |-> None]
  /\ completed = [r \in Requesters |-> TRUE]
  /\ pending = [p \in Priorities |-> <<>>]
  /\ dpc = "running"

(***************************************************************************)
(* VMThread::execute, called by another thread.                            *)
(***************************************************************************)

Pending == Range(pending["safepoint"]) \cup Range(pending["medium"])

CanRun(r) == r \in JavaRequesters => safepoint # "yes"

\* Variant: the ticket is the count of the operations completed so far.
Execute_old_ticket(r, m) ==
  /\ pc[r] = "idle" /\ CanRun(r)
  /\ <<r, m>> \notin Pending
  /\ mode' = [mode EXCEPT ![r] = m]
  /\ pc' = [pc EXCEPT ![r] = "adding"]
  /\ UNCHANGED <<ops, Queue_lock, notified, timedout, safepoint, term, vmpc, completed, pending>>

\* The prologue and the ticket.  Bound: a requester has one operation of each
\* concurrent mode under way.
Execute(r, m) ==
  /\ pc[r] = "idle" /\ CanRun(r)
  /\ <<r, m>> \notin Pending
  /\ mode' = [mode EXCEPT ![r] = m]
  /\ completed' = [completed EXCEPT ![r] = @ /\ Concurrently(m)]
  /\ pc' = [pc EXCEPT ![r] = "adding"]
  /\ UNCHANGED <<ops, Queue_lock, notified, timedout, safepoint, term, vmpc, pending>>

\* queue_add_back.
Added(q, op) == [q EXCEPT ![Priority(op)] = Append(@, op)]

\* VMOperationQueue::add, under VMOperationQueue_lock, and the notification.
Add(r) ==
  LET op == <<r, mode[r]>> IN
  /\ pc[r] = "adding"
  /\ Queue_lock = FREE
  /\ queue' = Added(queue, op)
  /\ pending' = Added(pending, op)
  /\ notified' = (notified \/ vmpc = "waiting")
  /\ pc' = [pc EXCEPT ![r] = IF Concurrently(mode[r]) THEN "idle" ELSE "request"]
  /\ mode' = [mode EXCEPT ![r] = None]
  /\ UNCHANGED <<queue_counter, drain_list, safepoint_ops, cur, Queue_lock, timedout,
                 safepoint, term, vmpc, completed>>

\* Under VMOperationRequest_lock: return (with the epilogue) or wait.
Request(r) ==
  /\ pc[r] = "request" /\ CanRun(r)
  /\ pc' = [pc EXCEPT ![r] = IF completed[r] THEN "idle" ELSE "waiting"]
  /\ UNCHANGED <<ops, Queue_lock, notified, timedout, safepoint, term, vmpc, mode,
                 completed, pending>>

(***************************************************************************)
(* VMOperationQueue::remove_next.                                          *)
(***************************************************************************)

\* Variant: safepoint operations always first.
HighPriority_fixed == "safepoint"

HighPriority == IF queue_counter < QueueLimit THEN "safepoint" ELSE "medium"

LowPriority == IF HighPriority = "safepoint" THEN "medium" ELSE "safepoint"

NextPriority == IF queue[HighPriority] = <<>> THEN LowPriority ELSE HighPriority

\* The operation that comes next, and what is left.
NextOp == IF queue[NextPriority] = <<>> THEN None ELSE Head(queue[NextPriority])

Rest == IF NextOp = None THEN queue ELSE [queue EXCEPT ![NextPriority] = Tail(@)]

\* What drain_at_safepoint_priority leaves of a queue, and what oops_do visits.
Drained(q) == [q EXCEPT !["safepoint"] = <<>>]

OopsDo == Range(queue["safepoint"]) \cup Range(queue["medium"]) \cup Range(drain_list)

NextCounter == IF queue_counter < QueueLimit THEN queue_counter + 1 ELSE 0

(***************************************************************************)
(* VMThread::loop: finding an operation.                                   *)
(***************************************************************************)

KeepRequesters == UNCHANGED <<reqs, pending>>

Take ==
  /\ vmpc = "take"
  /\ Queue_lock = FREE
  /\ Queue_lock' = VM
  /\ cur' = NextOp
  /\ queue' = Rest
  /\ queue_counter' = NextCounter
  /\ safepoint_ops' = <<>>
  /\ vmpc' = "look"
  /\ UNCHANGED <<drain_list, notified, timedout, safepoint, term>>
  /\ KeepRequesters

\* Terminate, even with an operation in hand; wait; or execute.
Look_terminate ==
  /\ vmpc = "look"
  /\ should_terminate
  /\ Queue_lock' = FREE
  /\ vmpc' = "exit"
  /\ UNCHANGED <<ops, notified, timedout, safepoint, term>> /\ KeepRequesters

Look_wait ==
  /\ vmpc = "look"
  /\ ~should_terminate /\ cur = None
  /\ Queue_lock' = FREE
  /\ notified' = FALSE
  /\ vmpc' = "waiting"
  /\ UNCHANGED <<ops, timedout, safepoint, term>> /\ KeepRequesters

Look_found ==
  /\ vmpc = "look"
  /\ ~should_terminate /\ cur # None
  /\ Queue_lock' = FREE
  /\ vmpc' = "execute"
  /\ UNCHANGED <<ops, notified, timedout, safepoint, term>> /\ KeepRequesters

Wait_notified ==
  /\ vmpc = "waiting"
  /\ notified
  /\ Queue_lock = FREE
  /\ Queue_lock' = VM
  /\ notified' = FALSE
  /\ vmpc' = "retake"
  /\ UNCHANGED <<ops, timedout, safepoint, term>> /\ KeepRequesters

Wait_timeout ==
  /\ vmpc = "waiting"
  /\ Queue_lock = FREE
  /\ Queue_lock' = VM
  /\ notified' = FALSE
  /\ vmpc' = "retake"
  /\ UNCHANGED <<ops, timedout, safepoint, term>> /\ KeepRequesters

\* The wait timed out and a cleanup is needed: a safepoint, for which the
\* lock is released.
Wait_cleanup ==
  /\ vmpc = "waiting"
  /\ Queue_lock = FREE
  /\ notified' = FALSE
  /\ timedout' = TRUE
  /\ safepoint' = "synchronizing"
  /\ vmpc' = "periodic"
  /\ UNCHANGED <<ops, Queue_lock, term>> /\ KeepRequesters

\* begin() returns: no Java thread is on its way to add an operation.
AllStopped == \A r \in JavaRequesters : pc[r] # "adding"

Periodic_reached ==
  /\ vmpc = "periodic"
  /\ AllStopped
  /\ safepoint' = "yes"
  /\ vmpc' = "periodic_end"
  /\ UNCHANGED <<ops, Queue_lock, notified, timedout, term>> /\ KeepRequesters

\* end(); inside the wait loop the lock is taken again.
Periodic_end ==
  /\ vmpc = "periodic_end"
  /\ timedout => Queue_lock = FREE
  /\ safepoint' = "no"
  /\ Queue_lock' = IF timedout THEN VM ELSE Queue_lock
  /\ vmpc' = IF timedout THEN "retake" ELSE "take"
  /\ timedout' = FALSE
  /\ UNCHANGED <<ops, notified, term>> /\ KeepRequesters

\* Variant: the queue is drained whatever the operation.
Retake_always ==
  /\ vmpc = "retake"
  /\ cur' = NextOp
  /\ queue' = Drained(Rest)
  /\ safepoint_ops' = Rest["safepoint"]
  /\ queue_counter' = NextCounter
  /\ vmpc' = "look"
  /\ UNCHANGED <<drain_list, Queue_lock, notified, timedout, safepoint, term>>
  /\ KeepRequesters

\* In the wait loop: with a safepoint operation come all others like it.
Retake ==
  LET drain == NextOp # None /\ AtSafepoint(NextOp) IN
  /\ vmpc = "retake"
  /\ cur' = NextOp
  /\ queue' = IF drain THEN Drained(Rest) ELSE Rest
  /\ safepoint_ops' = IF drain THEN Rest["safepoint"] ELSE <<>>
  /\ queue_counter' = NextCounter
  /\ vmpc' = "look"
  /\ UNCHANGED <<drain_list, Queue_lock, notified, timedout, safepoint, term>>
  /\ KeepRequesters

(***************************************************************************)
(* VMThread::loop: executing operations.                                   *)
(***************************************************************************)

\* evaluate_operation: the calling thread's completed count goes up.
Evaluate ==
  /\ pending' = [pending EXCEPT ![Priority(cur)] = Tail(@)]
  /\ completed' = [completed EXCEPT ![cur[1]] = @ \/ ~Concurrently(cur[2])]
  /\ UNCHANGED <<pc, mode>>

\* Variant: the drained operations are not published.
Execute_safepoint_hidden ==
  /\ vmpc = "execute" /\ AtSafepoint(cur)
  /\ safepoint' = "synchronizing"
  /\ vmpc' = "begin"
  /\ UNCHANGED <<ops, Queue_lock, notified, timedout, term>>
  /\ KeepRequesters

Execute_safepoint ==
  /\ vmpc = "execute" /\ AtSafepoint(cur)
  /\ drain_list' = safepoint_ops
  /\ safepoint' = "synchronizing"
  /\ vmpc' = "begin"
  /\ UNCHANGED <<queue, queue_counter, safepoint_ops, cur, Queue_lock, notified, timedout, term>>
  /\ KeepRequesters

Safepoint_reached ==
  /\ vmpc = "begin"
  /\ AllStopped
  /\ safepoint' = "yes"
  /\ vmpc' = "eval"
  /\ UNCHANGED <<ops, Queue_lock, notified, timedout, term>> /\ KeepRequesters

Evaluate_safepoint ==
  /\ vmpc = "eval"
  /\ Evaluate
  /\ cur' = None
  /\ vmpc' = "more"
  /\ UNCHANGED <<queue, queue_counter, drain_list, safepoint_ops, Queue_lock, notified,
                 timedout, safepoint, term>>

\* The next of the drained operations.
More_drained ==
  /\ vmpc = "more"
  /\ safepoint_ops # <<>>
  /\ cur' = Head(safepoint_ops)
  /\ safepoint_ops' = Tail(safepoint_ops)
  /\ drain_list' = Tail(safepoint_ops)
  /\ vmpc' = "eval"
  /\ UNCHANGED <<queue, queue_counter, Queue_lock, notified, timedout, safepoint, term>>
  /\ KeepRequesters

\* Operations were added since: drain the queue again.
More_added ==
  /\ vmpc = "more"
  /\ safepoint_ops = <<>> /\ queue["safepoint"] # <<>>
  /\ Queue_lock = FREE
  /\ safepoint_ops' = queue["safepoint"]
  /\ queue' = Drained(queue)
  /\ UNCHANGED <<queue_counter, drain_list, cur, Queue_lock, notified, timedout, safepoint,
                 term, vmpc>> /\ KeepRequesters

\* None is left: end().
More_none ==
  /\ vmpc = "more"
  /\ safepoint_ops = <<>> /\ queue["safepoint"] = <<>>
  /\ drain_list' = <<>>
  /\ safepoint' = "no"
  /\ vmpc' = "notify"
  /\ UNCHANGED <<queue, queue_counter, safepoint_ops, cur, Queue_lock, notified, timedout, term>>
  /\ KeepRequesters

Evaluate_plain ==
  /\ vmpc = "execute" /\ ~AtSafepoint(cur)
  /\ Evaluate
  /\ cur' = None
  /\ vmpc' = "notify"
  /\ UNCHANGED <<queue, queue_counter, drain_list, safepoint_ops, Queue_lock, notified,
                 timedout, safepoint, term>>

\* Every waiting thread looks at its count again; then the regular safepoint, if
\* one is due.
Notify_all ==
  /\ vmpc = "notify"
  /\ pc' = [r \in Requesters |-> IF pc[r] = "waiting" THEN "request" ELSE pc[r]]
  /\ \E cleanup \in BOOLEAN :
       /\ safepoint' = IF cleanup THEN "synchronizing" ELSE safepoint
       /\ vmpc' = IF cleanup THEN "periodic" ELSE "take"
  /\ UNCHANGED <<ops, Queue_lock, notified, timedout, term, mode, completed, pending>>

(***************************************************************************)
(* Termination.  While the thread in DestroyJavaVM is at "unowned" it has  *)
(* cleared the owner of _terminate_lock in wait() and still holds the lock.*)
(***************************************************************************)

\* wait_for_vm_thread_exit, under VMOperationQueue_lock.
Destroy ==
  /\ dpc = "running"
  /\ Queue_lock = FREE
  /\ should_terminate' = TRUE
  /\ notified' = (notified \/ vmpc = "waiting")
  /\ dpc' = "check"
  /\ UNCHANGED <<ops, Queue_lock, timedout, safepoint, terminated, vmpc>> /\ KeepRequesters

Destroy_check ==
  /\ dpc = "check"
  /\ dpc' = IF terminated THEN "done" ELSE "unowned"
  /\ UNCHANGED <<ops, Queue_lock, notified, timedout, safepoint, should_terminate,
                 terminated, vmpc>> /\ KeepRequesters

Destroy_wait ==
  /\ dpc = "unowned"
  /\ dpc' = "waiting"
  /\ UNCHANGED <<ops, Queue_lock, notified, timedout, safepoint, should_terminate,
                 terminated, vmpc>> /\ KeepRequesters

\* run(): the VM thread exits at a safepoint that never ends.
Exit_begin ==
  /\ vmpc = "exit"
  /\ safepoint' = "synchronizing"
  /\ vmpc' = "exit_begin"
  /\ UNCHANGED <<ops, Queue_lock, notified, timedout, term>> /\ KeepRequesters

Exit_reached ==
  /\ vmpc = "exit_begin"
  /\ AllStopped
  /\ safepoint' = "yes"
  /\ vmpc' = "exit_signal"
  /\ UNCHANGED <<ops, Queue_lock, notified, timedout, term>> /\ KeepRequesters

\* Variant: Monitor::lock() lets the VM thread sneak in when there is no owner.
Exit_signal_sneak ==
  /\ vmpc = "exit_signal"
  /\ terminated' = TRUE
  /\ dpc' = IF dpc = "waiting" THEN "check" ELSE dpc
  /\ vmpc' = "gone"
  /\ UNCHANGED <<ops, Queue_lock, notified, timedout, safepoint, should_terminate>>
  /\ KeepRequesters

\* _terminate_lock is really locked, then the notification.
Exit_signal ==
  /\ vmpc = "exit_signal"
  /\ dpc # "unowned"
  /\ terminated' = TRUE
  /\ dpc' = IF dpc = "waiting" THEN "check" ELSE dpc
  /\ vmpc' = "gone"
  /\ UNCHANGED <<ops, Queue_lock, notified, timedout, safepoint, should_terminate>>
  /\ KeepRequesters

-----------------------------------------------------------------------------

Loop ==
  \/ Take \/ Look_terminate \/ Look_wait \/ Look_found
  \/ Wait_notified \/ Wait_timeout \/ Wait_cleanup \/ Periodic_reached \/ Periodic_end \/ Retake
  \/ Execute_safepoint \/ Safepoint_reached \/ Evaluate_safepoint
  \/ More_drained \/ More_added \/ More_none \/ Evaluate_plain \/ Notify_all
  \/ Exit_begin \/ Exit_reached \/ Exit_signal

Destroyer == Destroy \/ Destroy_check \/ Destroy_wait

Next ==
  \/ Loop \/ Destroyer
  \/ \E r \in Requesters : Add(r) \/ Request(r) \/ \E m \in Modes[r] : Execute(r, m)

Spec == Init /\ [][Next]_vars

\* Each thread that can run is scheduled; no thread is bound to ask for
\* operations or for termination.  The VM thread takes VMOperationQueue_lock and
\* stops the Java threads again and again: that a thread which queues for the
\* monitor gets it (NativeMonitor) and that a stopped thread runs on between two
\* safepoints is strong fairness here.
Fairness ==
  /\ WF_vars(Loop)
  /\ WF_vars(Destroy_check) /\ WF_vars(Destroy_wait)
  /\ \A r \in Requesters : SF_vars(Add(r) \/ Request(r))

FairSpec == Spec /\ Fairness

(***************************************************************************)
(* Properties.                                                             *)
(***************************************************************************)

\* The type invariant.
TypeOK ==
  /\ queue \in [Priorities -> Seq(Ops)] /\ pending \in [Priorities -> Seq(Ops)]
  /\ drain_list \in Seq(Ops) /\ safepoint_ops \in Seq(Ops)
  /\ queue_counter \in 0..QueueLimit
  /\ cur \in Ops \cup {None}
  /\ Queue_lock \in {VM, FREE}
  /\ notified \in BOOLEAN /\ timedout \in BOOLEAN
  /\ should_terminate \in BOOLEAN /\ terminated \in BOOLEAN
  /\ safepoint \in {"no", "synchronizing", "yes"}
  /\ pc \in [Requesters -> {"idle", "adding", "request", "waiting"}]
  /\ mode \in [Requesters -> AllModes \cup {None}]
  /\ completed \in [Requesters -> BOOLEAN]
  /\ vmpc \in {"take", "look", "waiting", "retake", "periodic", "periodic_end", "execute",
               "begin", "eval", "more", "notify", "exit", "exit_begin", "exit_signal", "gone"}
  /\ dpc \in {"running", "check", "unowned", "waiting", "done"}

\* The operations of a priority that the VM thread and the queues hold, in order
\* of execution.
Held(prio) ==
  (IF cur # None /\ Priority(cur) = prio THEN <<cur>> ELSE <<>>)
    \o ((IF prio = "safepoint" THEN safepoint_ops ELSE <<>>) \o queue[prio])

\* No operation is lost or executed twice, and operations of one priority are
\* executed in the order in which execute() added them, whichever way they go
\* through remove_next, drain_at_safepoint_priority and the loop: the operation in
\* hand is always the oldest pending one of its priority.  The types are
\* kept as well: the counter that alternates the priorities stays in its bounds.
ExactlyOnceInOrder ==
  /\ TypeOK
  /\ \A prio \in Priorities : Held(prio) = pending[prio]

\* While an operation is evaluated at a safepoint a collection finds the oops of
\* every other operation that waits, in a queue or on the drain list.
OopsReached ==
  vmpc = "eval" => Pending \ {cur} \subseteq OopsDo

\* execute() returns only after a non-concurrent operation has been evaluated.
ReturnsAfterEvaluation ==
  \A r \in Requesters, m \in AllModes :
    pc[r] = "idle" /\ <<r, m>> \in Pending => Concurrently(m)

\* Every call of execute() returns and every operation that its caller does not
\* wait for is evaluated as well, unless the VM terminates.
Served ==
  \A r \in Requesters :
    /\ pc[r] # "idle" ~> pc[r] = "idle" \/ should_terminate
    /\ \A m \in {m \in Modes[r] : Concurrently(m)} :
         <<r, m>> \in Pending ~> <<r, m>> \notin Pending \/ should_terminate

\* DestroyJavaVM is told when the VM thread has gone.
Terminates == should_terminate ~> dpc = "done"
=============================================================================
