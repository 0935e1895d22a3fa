------------------------------ MODULE WorkGang ------------------------------
(***************************************************************************)
(* WorkGang of utilities/workgroup.cpp: the VM thread hands a task to all  *)
(* workers of a gang (run_task) and waits until each has finished its      *)
(* part; stop ends the workers.  Everything happens under the monitor of   *)
(* the gang, so that a critical section is one step; a thread that waits   *)
(* is woken by notify_all and looks again.                                 *)
(*                                                                         *)
(* What a part does is left to the module that composes the gang with a    *)
(* task.                                                                   *)
(***************************************************************************)
EXTENDS Naturals, FiniteSets

CONSTANTS
  GangWorkers,   \* the threads of the gang
  MaxTasks       \* bound: how often run_task is called

VARIABLES
  task,              \* _task # NULL
  sequence_number,   \* _sequence_number
  started,           \* _started_workers
  finished,          \* _finished_workers
  terminate,         \* _terminate
  vmpc,              \* the VM thread: "idle", in run_task or in stop, or done
  gpc,               \* each worker in GangWorker::loop
  data_number,       \* the sequence number in the worker's WorkData
  previous_number,   \* its previous_sequence_number
  part               \* its part

gangvars == <<task, sequence_number, started, finished, terminate, vmpc, gpc, data_number,
              previous_number, part>>

total_workers == Cardinality(GangWorkers)

GInit ==
  /\ task = FALSE
  /\ sequence_number = 0
  /\ started = 0
  /\ finished = 0
  /\ terminate = FALSE
  /\ vmpc = "idle"
  /\ gpc = [g \in GangWorkers |-> "poll"]
  /\ data_number = [g \in GangWorkers |-> 0]
  /\ previous_number = [g \in GangWorkers |-> 0]
  /\ part = [g \in GangWorkers |-> 0]

\* A waiting worker is to poll again, a waiting VM thread to count again.
Woken == [g \in GangWorkers |-> IF gpc[g] = "wait" THEN "poll" ELSE gpc[g]]

WokenVM == IF vmpc = "run_wait" THEN "run" ELSE IF vmpc = "stop_wait" THEN "stop" ELSE vmpc

(***************************************************************************)
(* The VM thread                                                           *)
(***************************************************************************)

Run_task ==
  /\ vmpc = "idle"
  /\ sequence_number < MaxTasks
  /\ task' = TRUE
  /\ sequence_number' = sequence_number + 1
  /\ started' = 0
  /\ finished' = 0
  /\ gpc' = Woken
  /\ vmpc' = "run"
  /\ UNCHANGED <<terminate, data_number, previous_number, part>>

Run_task_wait ==
  /\ vmpc = "run"
  /\ finished < total_workers
  /\ vmpc' = "run_wait"
  /\ UNCHANGED <<task, sequence_number, started, finished, terminate, gpc, data_number,
                 previous_number, part>>

\* All have finished: run_task returns.
Run_task_end ==
  /\ vmpc = "run"
  /\ finished >= total_workers
  /\ task' = FALSE
  /\ vmpc' = "idle"
  /\ UNCHANGED <<sequence_number, started, finished, terminate, gpc, data_number,
                 previous_number, part>>

\* Called by the destructor of the gang.
Stop ==
  /\ vmpc = "idle"
  /\ task' = FALSE
  /\ terminate' = TRUE
  /\ gpc' = Woken
  /\ vmpc' = "stop"
  /\ UNCHANGED <<sequence_number, started, finished, data_number, previous_number, part>>

\* _finished_workers still counts the last task: when there was one, stop waits
\* for no worker.
Stop_end ==
  /\ vmpc = "stop"
  /\ vmpc' = IF finished < total_workers THEN "stop_wait" ELSE "stopped"
  /\ UNCHANGED <<task, sequence_number, started, finished, terminate, gpc, data_number,
                 previous_number, part>>

(***************************************************************************)
(* A worker: GangWorker::loop                                              *)
(***************************************************************************)

Poll_terminate(g) ==
  /\ gpc[g] = "poll"
  /\ terminate
  /\ finished' = finished + 1
  /\ gpc' = [Woken EXCEPT ![g] = "exited"]
  /\ vmpc' = WokenVM
  /\ UNCHANGED <<task, sequence_number, started, terminate, data_number, previous_number, part>>

\* Variant: any task is taken, the one already done as well.
NewWork_any(g) == task

NewWork(g) == task /\ sequence_number # previous_number[g]

Poll_start(g) ==
  /\ gpc[g] = "poll"
  /\ ~terminate
  /\ NewWork(g)
  /\ started' = started + 1
  /\ part' = [part EXCEPT ![g] = started]
  /\ data_number' = [data_number EXCEPT ![g] = sequence_number]
  /\ gpc' = [Woken EXCEPT ![g] = "work"]
  /\ vmpc' = WokenVM
  /\ UNCHANGED <<task, sequence_number, finished, terminate, previous_number>>

Poll_wait(g) ==
  /\ gpc[g] = "poll"
  /\ ~terminate
  /\ ~NewWork(g)
  /\ gpc' = [gpc EXCEPT ![g] = "wait"]
  /\ UNCHANGED <<task, sequence_number, started, finished, terminate, vmpc, data_number,
                 previous_number, part>>

\* The part is done; the next round of the loop polls again.
Finish(g) ==
  /\ gpc[g] = "work"
  /\ finished' = finished + 1
  /\ previous_number' = [previous_number EXCEPT ![g] = data_number[g]]
  /\ gpc' = [Woken EXCEPT ![g] = "poll"]
  /\ vmpc' = WokenVM
  /\ UNCHANGED <<task, sequence_number, started, terminate, data_number, part>>

GTypeOK ==
  /\ task \in BOOLEAN
  /\ sequence_number \in 0..MaxTasks
  /\ started \in 0..total_workers
  /\ finished \in 0..2 * total_workers
  /\ terminate \in BOOLEAN
  /\ vmpc \in {"idle", "run", "run_wait", "stop", "stop_wait", "stopped"}
  /\ gpc \in [GangWorkers -> {"poll", "wait", "work", "exited"}]
  /\ data_number \in [GangWorkers -> 0..MaxTasks]
  /\ previous_number \in [GangWorkers -> 0..MaxTasks]
  /\ part \in [GangWorkers -> 0..total_workers - 1]

=============================================================================
