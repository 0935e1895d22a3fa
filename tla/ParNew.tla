------------------------------- MODULE ParNew -------------------------------
(***************************************************************************)
(* A parallel young collection (gc_implementation/parNew): the VM thread   *)
(* runs ParNewGenTask on the work gang; each thread claims groups of       *)
(* roots, evacuates what they reach, follows the objects in its queue,     *)
(* steals from the others, takes from the overflow list they share, and    *)
(* offers to terminate.                                                    *)
(*                                                                         *)
(* An object is evacuated by the thread whose compare-and-swap installs    *)
(* the forwarding pointer; it is then pushed, popped or stolen, and its    *)
(* references are scanned.  A large array is scanned in chunks: the old    *)
(* image stands for it in the queues, and the length of the old image is   *)
(* the index of the next chunk.  fields[o] is a sequence of chunks, each a *)
(* sequence of references; everything but an array has one chunk.          *)
(*                                                                         *)
(* Thread w here is a part of the gang's task, which some worker runs.     *)
(* Not modelled: ParGCUseLocalOverflow, the older generation's cards, weak *)
(* references, and the local allocation buffers.                           *)
(***************************************************************************)
EXTENDS Terminator, WorkGang, Sequences, SequencesExt

CONSTANTS
  Scenarios,    \* what is run: the index the queues start at, and the collections
  NTasks,       \* groups of roots that are claimed in SubTasksDone
  NJavaThreads, \* threads, which are groups of roots claimed by parity
  TrimSize,     \* the queue size root scanning trims to: 10 * ParallelGCThreads
  Desired,      \* ParGCDesiredObjsFromOverflowList
  StealTries,   \* attempts of steal before it gives up: 2 * _n in the code
  MaxSteals,    \* bound: a thread that reaches it steals nothing more
  BUSY          \* the overflow list while a thread takes from it

Objects == Tasks

ASSUME ParNewAssumption ==
  /\ total_workers = n_threads
  /\ \A s \in Scenarios :
       /\ s.start \in Index
       /\ Len(s.collections) <= MaxTasks
       /\ \A i \in 1..Len(s.collections) :
            /\ Len(s.collections[i].roots) = NTasks + NJavaThreads
            /\ DOMAIN s.collections[i].fields = Objects

VARIABLES
  scenario,   \* a collection is a record of roots, fields, arrays, and the knobs
  forward,    \* the forwarding pointer of each object
  length,     \* the length in the old image: the next chunk, in an array
  copied,     \* the length of the copy that was installed
  scans,      \* how often each chunk of an object was scanned
  overflow,   \* _overflow_list: a sequence of objects, NULL (<<>>) or BUSY
  pushes,     \* _num_par_pushes
  claimed,    \* SubTasksDone::_tasks
  completed,  \* SubTasksDone::_threads_completed
  parity,     \* SharedHeap::_strong_roots_parity
  oops_do_parity,   \* Thread::_oops_do_parity
  wpc,        \* where each thread is
  group,      \* the next group of roots it tries to claim
  refs,       \* references still to be scanned, of the group ...
  todo,       \* ... and of the object it is scanning
  obj,        \* the object a reference leads to
  dest,       \* where that object is to be forwarded to
  size_read,  \* the size of it that was read for the copy
  from,       \* what the thread does: "roots", "trim" in between, "follow", "steal"
  tries,      \* failed attempts to steal
  refill,     \* objects taken from the overflow list, still to be pushed
  steals      \* how often an object was stolen, for the bound

heap   == <<forward, length, copied, scans>>
shared == <<overflow, pushes, steals>>
claims == <<claimed, completed, parity, oops_do_parity>>
locals == <<group, refs, todo, obj, dest, size_read, from, tries, refill>>
vars   == <<qvars, tvars, gangvars, scenario, heap, shared, claims, wpc, locals>>

collection == scenario.collections[sequence_number]
Fields(o)  == collection.fields[o]
Full(o)    == Len(Fields(o))

Init ==
  /\ scenario \in Scenarios
  /\ QInit(scenario.start) /\ TInit /\ GInit
  /\ forward = [o \in Objects |-> None]
  /\ length = [o \in Objects |-> 0]
  /\ copied = [o \in Objects |-> 0]
  /\ scans = [o \in Objects |-> <<>>]
  /\ overflow = <<>>
  /\ pushes = 0
  /\ claimed = [i \in 1..NTasks |-> FALSE]
  /\ completed = 0
  /\ parity = 0
  /\ oops_do_parity = [i \in 1..NJavaThreads |-> 0]
  /\ wpc = [w \in Workers |-> "off"]
  /\ group = [w \in Workers |-> 1]
  /\ refs = [w \in Workers |-> <<>>]
  /\ todo = [w \in Workers |-> <<>>]
  /\ obj = [w \in Workers |-> None]
  /\ dest = [w \in Workers |-> None]
  /\ size_read = [w \in Workers |-> 0]
  /\ from = [w \in Workers |-> "roots"]
  /\ tries = [w \in Workers |-> 0]
  /\ refill = [w \in Workers |-> <<>>]
  /\ steals = 0

At(w, l) == wpc[w] = l
Goto(w, l) == wpc' = [wpc EXCEPT ![w] = l]

\* What a step of the task leaves alone.
Alone == UNCHANGED <<tvars, gangvars, scenario>>

\* A new value of the local variable f of w.
Set(f, w, v) == [f EXCEPT ![w] = v]

(***************************************************************************)
(* ParNewGeneration::collect, and the gang around the task                 *)
(***************************************************************************)

\* StrongRootsScope: the parity alternates between 1 and 2.
next_parity == IF parity = 2 THEN 1 ELSE parity + 1

\* A new terminator, an unmarked heap, and run_task.
Collect ==
  LET young == scenario.collections[sequence_number + 1]
  IN  /\ sequence_number < Len(scenario.collections)
      /\ Run_task
      /\ offered' = 0
      /\ tres' = [w \in Workers |-> FALSE]
      /\ steals' = 0
      /\ parity' = next_parity
      /\ forward' = [o \in Objects |-> None]
      /\ length' = [o \in Objects |-> Len(young.fields[o])]
      /\ copied' = [o \in Objects |-> 0]
      /\ scans' = [o \in Objects |-> [i \in 1..Len(young.fields[o]) |-> 0]]
      /\ UNCHANGED <<qvars, tpc, tqueue, tbot, scenario, overflow, pushes, claimed,
                     completed, oops_do_parity, wpc, locals>>

\* A worker begins its part.
Work(g) ==
  /\ Poll_start(g)
  /\ Goto(started, "root")
  /\ group' = Set(group, started, 1)
  /\ from' = Set(from, started, "roots")
  /\ UNCHANGED <<qvars, tvars, scenario, heap, shared, claims, refs, todo, obj, dest,
                 size_read, tries, refill>>

\* Its part is done.
Done(g) ==
  /\ At(part[g], "done")
  /\ Finish(g)
  /\ Goto(part[g], "off")
  /\ UNCHANGED <<qvars, tvars, scenario, heap, shared, claims, locals>>

\* The other steps of the gang do not touch the collection.
Gang_VM ==
  /\ Run_task_wait \/ Run_task_end \/ Stop \/ Stop_end
  /\ UNCHANGED <<qvars, tvars, scenario, heap, shared, claims, wpc, locals>>

Gang_worker(g) ==
  /\ Poll_terminate(g) \/ Poll_wait(g)
  /\ UNCHANGED <<qvars, tvars, scenario, heap, shared, claims, wpc, locals>>

(***************************************************************************)
(* Roots: SharedHeap::process_strong_roots                                 *)
(***************************************************************************)

\* is_task_claimed: the first to ask gets the group.
Claim_task(w) ==
  /\ At(w, "root") /\ refs[w] = <<>> /\ group[w] <= NTasks
  /\ claimed' = [claimed EXCEPT ![group[w]] = TRUE]
  /\ refs' = Set(refs, w, IF claimed[group[w]] THEN <<>> ELSE collection.roots[group[w]])
  /\ group' = Set(group, w, group[w] + 1)
  /\ Alone
  /\ UNCHANGED <<qvars, heap, shared, completed, parity, oops_do_parity, wpc, todo, obj,
                 dest, size_read, from, tries, refill>>

\* claim_oops_do: a thread is claimed by giving it the parity of the collection.
Claim_thread(w) ==
  LET i == group[w] - NTasks
  IN  /\ At(w, "root") /\ refs[w] = <<>> /\ i \in 1..NJavaThreads
      /\ oops_do_parity' = [oops_do_parity EXCEPT ![i] = parity]
      /\ refs' = Set(refs, w, IF oops_do_parity[i] = parity THEN <<>>
                              ELSE collection.roots[group[w]])
      /\ group' = Set(group, w, group[w] + 1)
      /\ Alone
      /\ UNCHANGED <<qvars, heap, shared, claimed, completed, parity, wpc, todo, obj, dest,
                     size_read, from, tries, refill>>

\* Variant: nobody clears the tasks.
All_tasks_completed_uncleared(w) ==
  /\ At(w, "root") /\ refs[w] = <<>> /\ group[w] > NTasks + NJavaThreads
  /\ completed' = (completed + 1) % n_threads
  /\ from' = Set(from, w, "follow")
  /\ Goto(w, "trim")
  /\ Alone
  /\ UNCHANGED <<qvars, heap, shared, claimed, parity, oops_do_parity, group, refs, todo, obj,
                 dest, size_read, tries, refill>>

\* The last thread to get here clears the tasks; the thread goes on to
\* ParEvacuateFollowersClosure::do_void.
All_tasks_completed(w) ==
  LET last == completed + 1 = n_threads
  IN  /\ At(w, "root") /\ refs[w] = <<>> /\ group[w] > NTasks + NJavaThreads
      /\ completed' = IF last THEN 0 ELSE completed + 1
      /\ claimed' = IF last THEN [i \in 1..NTasks |-> FALSE] ELSE claimed
      /\ from' = Set(from, w, "follow")
      /\ Goto(w, "trim")
      /\ Alone
      /\ UNCHANGED <<qvars, heap, shared, parity, oops_do_parity, group, refs, todo, obj,
                     dest, size_read, tries, refill>>

Root(w) ==
  /\ At(w, "root") /\ refs[w] # <<>>
  /\ obj' = Set(obj, w, Head(refs[w]))
  /\ refs' = Set(refs, w, Tail(refs[w]))
  /\ Goto(w, "mark")
  /\ Alone
  /\ UNCHANGED <<qvars, heap, shared, claims, group, todo, dest, size_read, from, tries, refill>>

(***************************************************************************)
(* A reference: ParScanClosure::do_oop_work and copy_to_survivor_space     *)
(***************************************************************************)

\* Goes on with the references s, or back to trim_queues.
Scan(w, s) ==
  /\ Goto(w, IF s = <<>> THEN "trim" ELSE "mark")
  /\ obj' = Set(obj, w, IF s = <<>> THEN None ELSE Head(s))
  /\ todo' = Set(todo, w, IF s = <<>> THEN <<>> ELSE Tail(s))

\* The reference is updated.  In an object the next one follows; after a root
\* that was not forwarded when it was first read, the queue is trimmed.
Updated(w, first) ==
  /\ IF from[w] = "roots"
     THEN /\ Goto(w, IF first THEN "trim" ELSE "root")
          /\ from' = Set(from, w, IF first THEN "trim" ELSE "roots")
          /\ obj' = Set(obj, w, None)
          /\ UNCHANGED todo
     ELSE Scan(w, todo[w]) /\ UNCHANGED from
  /\ dest' = Set(dest, w, None)
  /\ size_read' = Set(size_read, w, 0)
  /\ UNCHANGED <<group, refs, tries, refill>>

\* The mark is read.  A forwarded object needs nothing more, but real_forwardee
\* spins while the pointer is only claimed.
Mark(w) ==
  /\ At(w, "mark")
  /\ forward[obj[w]] # "claimed"
  /\ IF forward[obj[w]] = None THEN Goto(w, "size") /\ UNCHANGED locals ELSE Updated(w, FALSE)
  /\ Alone
  /\ UNCHANGED <<qvars, heap, shared, claims>>

\* Variant: the length of an array is reset before the forwarding pointer is set.
Size_reset(w) ==
  /\ At(w, "size")
  /\ size_read' = Set(size_read, w, length[obj[w]])
  /\ length' = IF obj[w] \in collection.arrays THEN [length EXCEPT ![obj[w]] = 0] ELSE length
  /\ dest' = Set(dest, w, "new")
  /\ Goto(w, "forward")
  /\ Alone
  /\ UNCHANGED <<qvars, forward, copied, scans, shared, claims, group, refs, todo, obj, from,
                 tries, refill>>

\* The size is computed after the mark was read; the object is copied, or to be
\* promoted.  Only the avoiding variant claims it before it promotes it.
Size(w) ==
  /\ At(w, "size")
  /\ size_read' = Set(size_read, w, length[obj[w]])
  /\ \E d \in collection.outcomes :
       /\ dest' = Set(dest, w, IF d = "fail" THEN "self" ELSE "new")
       /\ Goto(w, IF collection.avoid_promotion_undo /\ d # "to" THEN "claim" ELSE "forward")
  /\ Alone
  /\ UNCHANGED <<qvars, heap, shared, claims, group, refs, todo, obj, from, tries, refill>>

\* forward_to_atomic(new_obj), or forward_to_atomic(old) after a failed
\* promotion; who loses undoes the allocation and waits for a claimed pointer.
Forward(w) ==
  LET o == obj[w]
  IN  /\ At(w, "forward")
      /\ IF forward[o] = None
         THEN /\ forward' = [forward EXCEPT ![o] = dest[w]]
              /\ copied' = [copied EXCEPT ![o] = size_read[w]]
              /\ Goto(w, "forwarded") /\ UNCHANGED locals
         ELSE /\ IF forward[o] = "claimed" THEN Goto(w, "await") /\ UNCHANGED locals
                 ELSE Updated(w, TRUE)
              /\ UNCHANGED <<forward, copied>>
      /\ Alone
      /\ UNCHANGED <<qvars, length, scans, shared, claims>>

\* forward_to_atomic(ClaimedForwardPtr)
Claim(w) ==
  LET o == obj[w]
  IN  /\ At(w, "claim")
      /\ IF forward[o] = None
         THEN /\ forward' = [forward EXCEPT ![o] = "claimed"]
              /\ Goto(w, "promote") /\ UNCHANGED locals
         ELSE /\ IF forward[o] = "claimed" THEN Goto(w, "await") /\ UNCHANGED locals
                 ELSE Updated(w, TRUE)
              /\ UNCHANGED forward
      /\ Alone
      /\ UNCHANGED <<qvars, length, copied, scans, shared, claims>>

\* par_promote and forward_to
Promote(w) ==
  /\ At(w, "promote")
  /\ forward' = [forward EXCEPT ![obj[w]] = dest[w]]
  /\ copied' = [copied EXCEPT ![obj[w]] = size_read[w]]
  /\ Goto(w, "forwarded")
  /\ Alone
  /\ UNCHANGED <<qvars, length, scans, shared, claims, locals>>

\* real_forwardee spins until the pointer is there.
Await(w) ==
  /\ At(w, "await")
  /\ forward[obj[w]] # "claimed"
  /\ Updated(w, TRUE)
  /\ Alone
  /\ UNCHANGED <<qvars, heap, shared, claims>>

should_be_partially_scanned(o) == o \in collection.arrays /\ forward[o] # "self"

\* The length of an array becomes the index of the next chunk; push, or with
\* ParGCWorkQueueOverflowALot pretend that the queue is full.
Forwarded(w) ==
  LET o == obj[w]
  IN  /\ At(w, "forwarded")
      /\ length' = IF should_be_partially_scanned(o) THEN [length EXCEPT ![o] = 0] ELSE length
      /\ \/ Call_push(w, o) /\ Goto(w, "pushed")
         \/ collection.overflow_a_lot /\ NoCall /\ Goto(w, "overflow")
      /\ Alone
      /\ UNCHANGED <<forward, copied, scans, shared, claims, locals>>

Pushed(w) ==
  /\ At(w, "pushed") /\ QAt(w, "idle")
  /\ IF qres[w] = None THEN Goto(w, "overflow") /\ UNCHANGED locals ELSE Updated(w, TRUE)
  /\ Consume(w)
  /\ Alone
  /\ UNCHANGED <<heap, shared, claims>>

\* push_on_overflow_list: the count, ...
Overflow_count(w) ==
  /\ At(w, "overflow")
  /\ pushes' = pushes + 1
  /\ Goto(w, "overflow_list")
  /\ Alone
  /\ UNCHANGED <<qvars, heap, overflow, steals, claims, locals>>

\* What a list is for one that prepends to it: BUSY means empty.
Links(l) == IF l = BUSY THEN <<>> ELSE l

\* Variant: a BUSY list is left to the thread that set it, and the object lost.
Overflow_list_busy(w) ==
  /\ At(w, "overflow_list")
  /\ overflow' = IF overflow = BUSY THEN BUSY ELSE <<obj[w]>> \o overflow
  /\ Updated(w, TRUE)
  /\ Alone
  /\ UNCHANGED <<qvars, heap, pushes, steals, claims>>

\* ... and the list, by compare-and-swap.
Overflow_list(w) ==
  /\ At(w, "overflow_list")
  /\ overflow' = <<obj[w]>> \o Links(overflow)
  /\ Updated(w, TRUE)
  /\ Alone
  /\ UNCHANGED <<qvars, heap, pushes, steals, claims>>

(***************************************************************************)
(* Objects: ParScanThreadState::trim_queues                                *)
(***************************************************************************)

max_size(w) == IF from[w] = "trim" THEN TrimSize ELSE 0

\* Too many objects are queued: pop one.
Trim_pop(w) ==
  /\ At(w, "trim")
  /\ size(bottom[w], age[w].top) > max_size(w)
  /\ Call_pop_local(w)
  /\ Goto(w, "popped")
  /\ Alone
  /\ UNCHANGED <<heap, shared, claims, locals>>

\* ParGCTrimOverflow: look at the overflow list.
Trim_end(w) ==
  /\ At(w, "trim")
  /\ size(bottom[w], age[w].top) <= max_size(w)
  /\ Goto(w, "take")
  /\ Alone
  /\ UNCHANGED <<qvars, heap, shared, claims, locals>>

Popped_none(w) ==
  /\ At(w, "popped") /\ QAt(w, "idle") /\ qres[w] = None
  /\ Goto(w, "trim")
  /\ Alone
  /\ UNCHANGED <<qvars, heap, shared, claims, locals>>

\* oop_iterate: all references of the object.
Popped_object(w) ==
  LET o == qres[w]
  IN  /\ At(w, "popped") /\ QAt(w, "idle") /\ o # None
      /\ ~should_be_partially_scanned(o)
      /\ scans' = [scans EXCEPT ![o] = [i \in DOMAIN @ |-> @[i] + 1]]
      /\ Scan(w, FlattenSeq(Fields(o)))
      /\ Consume(w)
      /\ Alone
      /\ UNCHANGED <<forward, length, copied, shared, claims, group, refs, dest, size_read,
                     from, tries, refill>>

\* scan_partial_array_and_push_remainder: the index is advanced and the rest
\* pushed before the chunk is scanned.  The last chunk restores the length.
Popped_array(w) ==
  LET o == qres[w]
      i == length[o] + 1
  IN  /\ At(w, "popped") /\ QAt(w, "idle") /\ o # None
      /\ should_be_partially_scanned(o)
      /\ length' = [length EXCEPT ![o] = i]
      /\ scans' = [scans EXCEPT ![o][i] = @ + 1]
      /\ IF i < Full(o)
         THEN /\ Call_push(w, o) /\ Goto(w, "remainder")
              /\ todo' = Set(todo, w, Fields(o)[i]) /\ UNCHANGED obj
         ELSE Consume(w) /\ Scan(w, Fields(o)[i])
      /\ Alone
      /\ UNCHANGED <<forward, copied, shared, claims, group, refs, dest, size_read, from,
                     tries, refill>>

Remainder(w) ==
  /\ At(w, "remainder") /\ QAt(w, "idle")
  /\ Scan(w, todo[w])
  /\ Consume(w)
  /\ Alone
  /\ UNCHANGED <<heap, shared, claims, group, refs, dest, size_read, from, tries, refill>>

(***************************************************************************)
(* take_from_overflow_list_work                                            *)
(***************************************************************************)

\* It returns to the roots, to do_void before the attempt to steal, or to
\* do_void after it.
TookNothing(w) ==
  /\ Goto(w, CASE from[w] = "trim" -> "root" [] from[w] = "follow" -> "steal"
               [] from[w] = "steal" -> "offer")
  /\ from' = Set(from, w, IF from[w] = "trim" THEN "roots" ELSE "follow")

\* Back in trim_queues: of the roots, or of do_void.
TookSome(w) ==
  /\ Goto(w, "trim")
  /\ from' = Set(from, w, IF from[w] = "trim" THEN "trim" ELSE "follow")

Take_test(w) ==
  /\ At(w, "take")
  /\ IF overflow = <<>> THEN TookNothing(w) ELSE Goto(w, "take_xchg") /\ UNCHANGED from
  /\ Alone
  /\ UNCHANGED <<qvars, heap, shared, claims, group, refs, todo, obj, dest, size_read, tries,
                 refill>>

\* xchg_ptr(BUSY, &_overflow_list)
Take_xchg(w) ==
  /\ At(w, "take_xchg")
  /\ overflow' = BUSY
  /\ refill' = Set(refill, w, Links(overflow))
  /\ Goto(w, CASE overflow = BUSY -> "take_spin" [] overflow = <<>> -> "take_null"
               [] OTHER -> "take_prefix")
  /\ Alone
  /\ UNCHANGED <<qvars, heap, pushes, steals, claims, group, refs, todo, obj, dest, size_read, from,
                 tries>>

\* Another thread has the list: wait a little, give up while it is still BUSY.
Take_spin(w) ==
  /\ At(w, "take_spin")
  /\ IF overflow \in {BUSY, <<>>}
     THEN TookNothing(w)
     ELSE Goto(w, "take_xchg") /\ UNCHANGED from
  /\ Alone
  /\ UNCHANGED <<qvars, heap, shared, claims, group, refs, todo, obj, dest, size_read, tries,
                 refill>>

\* The NULL is written back over BUSY.
Take_null(w) ==
  /\ At(w, "take_null")
  /\ overflow' = IF overflow = BUSY THEN <<>> ELSE overflow
  /\ TookNothing(w)
  /\ Alone
  /\ UNCHANGED <<qvars, heap, pushes, steals, claims, group, refs, todo, obj, dest, size_read, tries,
                 refill>>

\* How many to keep: at least one.
objsFromOverflow(w) ==
  LET room == (max_elems - size(bottom[w], age[w].top)) \div 4
      k    == IF room < Desired THEN room ELSE Desired
  IN  IF k = 0 THEN 1 ELSE k

\* Variant: the suffix replaces the list whatever it is by now.
Reattached_plain(suffix) == suffix

\* Without a suffix NULL is written over BUSY; a suffix goes back in place of
\* BUSY or NULL, or before what others have pushed meanwhile.
Reattached(suffix) == suffix \o Links(overflow)

\* Splits the list and puts the suffix back.
Take_prefix(w) ==
  LET l == refill[w]
      k == IF objsFromOverflow(w) < Len(l) THEN objsFromOverflow(w) ELSE Len(l)
  IN  /\ At(w, "take_prefix")
      /\ refill' = Set(refill, w, SubSeq(l, 1, k))
      /\ overflow' = Reattached(SubSeq(l, k + 1, Len(l)))
      /\ Goto(w, "refill")
      /\ Alone
      /\ UNCHANGED <<qvars, heap, pushes, steals, claims, group, refs, todo, obj, dest, size_read,
                     from, tries>>

\* Pushes what was taken; _num_par_pushes goes down with each, which nobody can
\* tell from the subtraction at the end.
Refill_push(w) ==
  /\ At(w, "refill") /\ QAt(w, "idle")
  /\ refill[w] # <<>>
  /\ Call_push(w, Head(refill[w]))
  /\ refill' = Set(refill, w, Tail(refill[w]))
  /\ Goto(w, "refilled")
  /\ Alone
  /\ UNCHANGED <<heap, shared, claims, group, refs, todo, obj, dest, size_read, from, tries>>

Refilled(w) ==
  /\ At(w, "refilled") /\ QAt(w, "idle")
  /\ pushes' = pushes - 1
  /\ Consume(w)
  /\ IF refill[w] # <<>> THEN Goto(w, "refill") /\ UNCHANGED from ELSE TookSome(w)
  /\ Alone
  /\ UNCHANGED <<heap, overflow, steals, claims, group, refs, todo, obj, dest, size_read, tries, refill>>

(***************************************************************************)
(* ParEvacuateFollowersClosure::do_void                                    *)
(***************************************************************************)

\* An attempt to steal from one of the other queues.
Steal(w) ==
  /\ At(w, "steal")
  /\ steals < MaxSteals
  /\ \E k \in Workers \ {w} : Call_pop_global(w, k)
  /\ Goto(w, "stolen")
  /\ Alone
  /\ UNCHANGED <<heap, shared, claims, locals>>

\* At the bound, steal finds nothing.
Steal_bound(w) ==
  /\ At(w, "steal")
  /\ steals >= MaxSteals
  /\ from' = Set(from, w, "steal")
  /\ Goto(w, "take")
  /\ Alone
  /\ UNCHANGED <<qvars, heap, shared, claims, group, refs, todo, obj, dest, size_read, tries,
                 refill>>

Stolen(w) ==
  /\ At(w, "stolen") /\ QAt(w, "idle") /\ qres[w] # None
  /\ Call_push(w, qres[w])
  /\ steals' = steals + 1
  /\ tries' = Set(tries, w, 0)
  /\ Goto(w, "stolen_push")
  /\ Alone
  /\ UNCHANGED <<heap, overflow, pushes, claims, group, refs, todo, obj, dest, size_read, from,
                 refill>>

Stolen_push(w) ==
  /\ At(w, "stolen_push") /\ QAt(w, "idle")
  /\ Goto(w, "trim")
  /\ Consume(w)
  /\ Alone
  /\ UNCHANGED <<heap, shared, claims, locals>>

\* Try again, or after the last attempt the overflow list.
Stolen_none(w) ==
  LET last == tries[w] + 1 = StealTries
  IN  /\ At(w, "stolen") /\ QAt(w, "idle") /\ qres[w] = None
      /\ tries' = Set(tries, w, IF last THEN 0 ELSE tries[w] + 1)
      /\ from' = Set(from, w, IF last THEN "steal" ELSE "follow")
      /\ Goto(w, IF last THEN "take" ELSE "steal")
      /\ Alone
      /\ UNCHANGED <<qvars, heap, shared, claims, group, refs, todo, obj, dest, size_read,
                     refill>>

Offer(w) ==
  /\ At(w, "offer")
  /\ Call_offer_termination(w)
  /\ Goto(w, "offered")
  /\ UNCHANGED <<qvars, gangvars, scenario, heap, shared, claims, locals>>

Offered(w) ==
  /\ At(w, "offered") /\ TAt(w, "idle")
  /\ Goto(w, IF tres[w] THEN "done" ELSE "trim")
  /\ Alone
  /\ UNCHANGED <<qvars, heap, shared, claims, locals>>

Task(w) ==
  \/ Claim_task(w) \/ Claim_thread(w) \/ All_tasks_completed(w) \/ Root(w)
  \/ Mark(w) \/ Size(w) \/ Forward(w) \/ Claim(w) \/ Promote(w) \/ Await(w)
  \/ Forwarded(w) \/ Pushed(w) \/ Overflow_count(w) \/ Overflow_list(w)
  \/ Trim_pop(w) \/ Trim_end(w) \/ Popped_none(w) \/ Popped_object(w) \/ Popped_array(w)
  \/ Remainder(w)
  \/ Take_test(w) \/ Take_xchg(w) \/ Take_spin(w) \/ Take_null(w) \/ Take_prefix(w)
  \/ Refill_push(w) \/ Refilled(w)
  \/ Steal(w) \/ Steal_bound(w) \/ Stolen(w) \/ Stolen_push(w) \/ Stolen_none(w)
  \/ Offer(w) \/ Offered(w)

\* A step of the queue operation w has called, or of its offer_termination.
Called(w) ==
  \/ QNext(w) /\ UNCHANGED <<tvars, gangvars, scenario, heap, shared, claims, wpc, locals>>
  \/ TNext(w) /\ UNCHANGED <<qvars, gangvars, scenario, heap, shared, claims, wpc, locals>>

\* stop has returned and the workers are gone.
Ended ==
  /\ vmpc = "stopped"
  /\ \A g \in GangWorkers : gpc[g] = "exited"
  /\ UNCHANGED vars

Next ==
  \/ Collect \/ Gang_VM
  \/ \E g \in GangWorkers : Gang_worker(g) \/ Work(g) \/ Done(g)
  \/ \E w \in Workers : Task(w) \/ Called(w)
  \/ Ended

Spec == Init /\ [][Next]_vars

(***************************************************************************)
(* Properties                                                              *)
(***************************************************************************)

\* The variables keep their types.
TypeOK ==
  /\ QTypeOK /\ TTypeOK /\ GTypeOK
  /\ scenario \in Scenarios
  /\ forward \in [Objects -> {None, "claimed", "new", "self"}]
  /\ overflow = BUSY \/ \A i \in 1..Len(overflow) : overflow[i] \in Objects
  /\ steals \in 0..MaxSteals + n_threads - 1
  /\ pushes \in 0..Cardinality(Objects)
  /\ completed \in 0..n_threads - 1
  /\ parity \in 0..2
  /\ \A w \in Workers : from[w] \in {"roots", "trim", "follow", "steal"}

\* No chunk of an object is scanned twice: an object is forwarded by one thread,
\* a queue hands out each element once, and the overflow list neither.  The
\* closure asserts "Scanning field twice?".
ScannedOnce == \A o \in Objects : \A i \in DOMAIN scans[o] : scans[o][i] <= 1

\* All that the roots reach is evacuated and scanned.
Evacuated ==
  /\ \A i \in DOMAIN collection.roots : \A j \in DOMAIN collection.roots[i] :
       forward[collection.roots[i][j]] # None
  /\ \A o \in Objects : forward[o] # None =>
       /\ forward[o] # "claimed"
       /\ \A i \in 1..Full(o) : scans[o][i] = 1
       /\ \A i \in 1..Full(o) : \A j \in DOMAIN Fields(o)[i] : forward[Fields(o)[i][j]] # None

\* Once offer_termination has returned true to one thread, nothing is left to
\* do for any other, although a thread may still withdraw an offer; and when
\* run_task has returned, all is evacuated.
TerminatesWhenDone ==
  (\/ \E w \in Workers : wpc[w] = "done"
   \/ vmpc = "idle" /\ sequence_number > 0) => Evacuated

\* The copy that becomes the object was made with its full length, although the
\* length of an array turns into an index when another thread has forwarded it.
CopiedWhole == \A o \in Objects : forward[o] = "new" => copied[o] = Full(o)

\* The types, and the assertions of the queues, the terminator, the overflow list and the
\* collector: an empty queue is in its canonical form when its owner comes back
\* ("Shouldn't be possible..."), "sanity" in pop_global, the counter of offers,
\* the pushes that must be okay, "entire array remaining to be scanned", "Too
\* many pops?", "Broken overflow list?".  The counter of the terminator is the
\* number of threads that offer: with one more a thread would leave too early,
\* with one less no thread would ever leave.
Asserts ==
  /\ TypeOK
  /\ \A w \in Workers :
       /\ qpc[w] \in {"push", "pop_local"} /\ wpc[w] # "off" =>
            dirty_size(bottom[w], age[w].top) # N - 1
       /\ qpc[w] = "pg_cas" => dirty_size(qbot[w], increment(qage[w]).top) # N - 1
       /\ tpc[w] = "offer" => offered < n_threads
       /\ wpc[w] \in {"remainder", "refilled", "stolen_push"} /\ qpc[w] = "idle" =>
            qres[w] # None
       /\ wpc[w] = "refill" /\ refill[w] # <<>> =>
            LET o == Head(refill[w]) IN should_be_partially_scanned(o) => length[o] = 0
       /\ wpc[w] = "refilled" => pushes > 0
       /\ wpc[w] = "done" => overflow = <<>> /\ pushes = 0
  /\ offered <= n_threads
  /\ offered = Cardinality({w \in Workers :
                              \/ tpc[w] \in {"check", "peek", "peek_top", "withdraw"}
                              \/ wpc[w] \in {"offered", "done"} /\ tpc[w] = "idle" /\ tres[w]
                              \/ wpc[w] = "off" /\ tres[w]})

=============================================================================
