------------------------------ MODULE TaskQueue ------------------------------
(***************************************************************************)
(* GenericTaskQueue of utilities/taskqueue.hpp: the work-stealing queues   *)
(* of the parallel collectors.  Thread w owns queue w; it pushes and pops  *)
(* at the bottom (push, pop_local), the others steal at the top            *)
(* (pop_global).  No lock is taken: _bottom belongs to the owner, and      *)
(* _age, a top index with a tag, changes by compare-and-swap.              *)
(*                                                                         *)
(* A caller starts an operation on behalf of w while qpc[w] = "idle" and   *)
(* finds its result in qres[w] when qpc[w] is "idle" again.  Indices are   *)
(* taken modulo N, a constant here and 2^14 or 2^17 in the code.           *)
(***************************************************************************)
EXTENDS Naturals

CONSTANTS
  n_threads, \* the number of threads, each with its queue
  Tasks,     \* what the queues hold
  N,         \* TaskQueueSuper::N
  Tags,      \* how many values Age::_tag has: 2^16 or 2^32 in the code
  None       \* no task: an empty slot, and the result "false"

ASSUME TaskQueueAssumption ==
  /\ n_threads \in Nat \ {0}
  /\ N \in Nat /\ N > 2
  /\ Tags \in Nat \ {0}
  /\ None \notin Tasks

Workers == 0..n_threads - 1

VARIABLES
  bottom,    \* _bottom
  age,       \* _age
  elems,     \* _elems
  qpc,       \* where each thread is in an operation
  qof,       \* the queue it operates on
  qtask,     \* the local t
  qbot,      \* the local localBot
  qage,      \* the local oldAge
  qres       \* the result: the task, or None for false

queues  == <<bottom, age, elems>>
qlocals == <<qof, qtask, qbot, qage>>
qvars   == <<queues, qpc, qlocals, qres>>

Index == 0..N - 1
Ages  == [top : Index, tag : 0..Tags - 1]

increment_index(i) == (i + 1) % N

decrement_index(i) == (i + N - 1) % N
dirty_size(bot, top) == (bot + N - top) % N

\* The state in which bottom has passed top by one counts as empty.
size(bot, top) == IF dirty_size(bot, top) = N - 1 THEN 0 ELSE dirty_size(bot, top)

max_elems == N - 2

\* Age::increment: a wrapped top changes the tag.
increment(a) ==
  LET t == increment_index(a.top)
  IN  [top |-> t, tag |-> IF t = 0 THEN (a.tag + 1) % Tags ELSE a.tag]

\* The queues are empty at the index where earlier tasks have left them.
QInit(start) ==
  /\ bottom = [w \in Workers |-> start]
  /\ age = [w \in Workers |-> [top |-> start, tag |-> 0]]
  /\ elems = [w \in Workers |-> [i \in Index |-> None]]
  /\ qpc = [w \in Workers |-> "idle"]
  /\ qof = [w \in Workers |-> w]
  /\ qtask = [w \in Workers |-> None]
  /\ qbot = [w \in Workers |-> 0]
  /\ qage = [w \in Workers |-> [top |-> 0, tag |-> 0]]
  /\ qres = [w \in Workers |-> None]

QAt(w, l) == qpc[w] = l
QGoto(w, l) == qpc' = [qpc EXCEPT ![w] = l]

\* The operation ends with result r; the locals go out of scope.
QReturn(w, r) ==
  /\ QGoto(w, "idle")
  /\ qres' = [qres EXCEPT ![w] = r]
  /\ qof' = [qof EXCEPT ![w] = w]
  /\ qtask' = [qtask EXCEPT ![w] = None]
  /\ qbot' = [qbot EXCEPT ![w] = 0]
  /\ qage' = [qage EXCEPT ![w] = [top |-> 0, tag |-> 0]]

(***************************************************************************)
(* Calls: conjuncts of a caller's action.  The result of the last          *)
(* operation is consumed by the step that starts the next.                 *)
(***************************************************************************)

NoCall == UNCHANGED qvars

\* Forgets the result of the last operation.
Consume(w) ==
  /\ qres' = [qres EXCEPT ![w] = None]
  /\ UNCHANGED <<queues, qpc, qlocals>>

Call_push(w, t) ==
  /\ QGoto(w, "push")
  /\ qtask' = [qtask EXCEPT ![w] = t]
  /\ qres' = [qres EXCEPT ![w] = None]
  /\ UNCHANGED <<queues, qof, qbot, qage>>

Call_pop_local(w) ==
  /\ QGoto(w, "pop_local")
  /\ qres' = [qres EXCEPT ![w] = None]
  /\ UNCHANGED <<queues, qlocals>>

Call_pop_global(w, k) ==
  /\ QGoto(w, "pop_global")
  /\ qof' = [qof EXCEPT ![w] = k]
  /\ qres' = [qres EXCEPT ![w] = None]
  /\ UNCHANGED <<queues, qtask, qbot, qage>>

(***************************************************************************)
(* push                                                                    *)
(***************************************************************************)

\* Reads top; a queue that is not full gets the element above bottom.  The
\* size N - 1 means 0 (push_slow).
Push_elem(w) ==
  LET dirty_n_elems == dirty_size(bottom[w], age[w].top)
  IN  /\ QAt(w, "push")
      /\ dirty_n_elems < max_elems \/ dirty_n_elems = N - 1
      /\ elems' = [elems EXCEPT ![w][bottom[w]] = qtask[w]]
      /\ QGoto(w, "push_bottom")
      /\ UNCHANGED <<bottom, age, qlocals, qres>>

Push_full(w) ==
  /\ QAt(w, "push")
  /\ dirty_size(bottom[w], age[w].top) = max_elems
  /\ QReturn(w, None)
  /\ UNCHANGED queues

\* release_store(&_bottom): now the element can be stolen.
Push_bottom(w) ==
  /\ QAt(w, "push_bottom")
  /\ bottom' = [bottom EXCEPT ![w] = increment_index(bottom[w])]
  /\ QReturn(w, qtask[w])
  /\ UNCHANGED <<age, elems>>

(***************************************************************************)
(* pop_local                                                               *)
(***************************************************************************)

Pop_local(w) ==
  /\ QAt(w, "pop_local")
  /\ IF dirty_size(bottom[w], age[w].top) = 0
     THEN QReturn(w, None)
     ELSE QGoto(w, "pl_bottom") /\ UNCHANGED <<qlocals, qres>>
  /\ UNCHANGED queues

\* The store of _bottom and the fence after it.
Pop_local_bottom(w) ==
  /\ QAt(w, "pl_bottom")
  /\ bottom' = [bottom EXCEPT ![w] = decrement_index(bottom[w])]
  /\ QGoto(w, "pl_top")
  /\ UNCHANGED <<age, elems, qlocals, qres>>

\* Reads the element and then top again: with a further element below it, no
\* thief can be after this one.
Pop_local_top(w) ==
  /\ QAt(w, "pl_top")
  /\ IF size(bottom[w], age[w].top) > 0
     THEN QReturn(w, elems[w][bottom[w]])
     ELSE /\ QGoto(w, "pl_slow")
          /\ qtask' = [qtask EXCEPT ![w] = elems[w][bottom[w]]]
          /\ UNCHANGED <<qof, qbot, qage, qres>>
  /\ UNCHANGED queues

\* The argument _age.get() of pop_local_slow, and whether top is still at the
\* element.
Pop_local_slow(w) ==
  /\ QAt(w, "pl_slow")
  /\ qage' = [qage EXCEPT ![w] = age[w]]
  /\ QGoto(w, IF bottom[w] = age[w].top THEN "pl_cas" ELSE "pl_set")
  /\ UNCHANGED <<queues, qof, qtask, qbot, qres>>

\* Variant: the tag stays.
EmptyAge_untagged(w) == [top |-> bottom[w], tag |-> qage[w].tag]

\* The empty queue at this bottom, told from earlier ones by its tag.
EmptyAge(w) == [top |-> bottom[w], tag |-> (qage[w].tag + 1) % Tags]

Pop_local_cas(w) ==
  /\ QAt(w, "pl_cas")
  /\ IF age[w] = qage[w]
     THEN age' = [age EXCEPT ![w] = EmptyAge(w)] /\ QReturn(w, qtask[w])
     ELSE QGoto(w, "pl_set") /\ UNCHANGED <<age, qlocals, qres>>
  /\ UNCHANGED <<bottom, elems>>

\* A thief has the element: the queue is empty with top above bottom, which is
\* put right.
Pop_local_set(w) ==
  /\ QAt(w, "pl_set")
  /\ age' = [age EXCEPT ![w] = EmptyAge(w)]
  /\ QReturn(w, None)
  /\ UNCHANGED <<bottom, elems>>

(***************************************************************************)
(* pop_global                                                              *)
(***************************************************************************)

Pop_global(w) ==
  /\ QAt(w, "pop_global")
  /\ qage' = [qage EXCEPT ![w] = age[qof[w]]]
  /\ QGoto(w, "pg_bottom")
  /\ UNCHANGED <<queues, qof, qtask, qbot, qres>>

Pop_global_bottom(w) ==
  /\ QAt(w, "pg_bottom")
  /\ IF size(bottom[qof[w]], qage[w].top) = 0
     THEN QReturn(w, None)
     ELSE QGoto(w, "pg_elem") /\ qbot' = [qbot EXCEPT ![w] = bottom[qof[w]]]
          /\ UNCHANGED <<qof, qtask, qage, qres>>
  /\ UNCHANGED queues

Pop_global_elem(w) ==
  /\ QAt(w, "pg_elem")
  /\ qtask' = [qtask EXCEPT ![w] = elems[qof[w]][qage[w].top]]
  /\ QGoto(w, "pg_cas")
  /\ UNCHANGED <<queues, qof, qbot, qage, qres>>

Pop_global_cas(w) ==
  /\ QAt(w, "pg_cas")
  /\ IF age[qof[w]] = qage[w]
     THEN /\ age' = [age EXCEPT ![qof[w]] = increment(qage[w])]
          /\ QReturn(w, qtask[w])
     ELSE QReturn(w, None) /\ UNCHANGED age
  /\ UNCHANGED <<bottom, elems>>

QNext(w) ==
  \/ Push_elem(w) \/ Push_full(w) \/ Push_bottom(w)
  \/ Pop_local(w) \/ Pop_local_bottom(w) \/ Pop_local_top(w)
  \/ Pop_local_slow(w) \/ Pop_local_cas(w) \/ Pop_local_set(w)
  \/ Pop_global(w) \/ Pop_global_bottom(w) \/ Pop_global_elem(w) \/ Pop_global_cas(w)

QTypeOK ==
  /\ bottom \in [Workers -> Index]
  /\ age \in [Workers -> Ages]
  /\ elems \in [Workers -> [Index -> Tasks \cup {None}]]
  /\ qpc \in [Workers -> {"idle", "push", "push_bottom", "pop_local", "pl_bottom", "pl_top",
                          "pl_slow", "pl_cas", "pl_set", "pop_global", "pg_bottom",
                          "pg_elem", "pg_cas"}]
  /\ qof \in [Workers -> Workers]
  /\ qtask \in [Workers -> Tasks \cup {None}]
  /\ qbot \in [Workers -> Index]
  /\ qage \in [Workers -> Ages]
  /\ qres \in [Workers -> Tasks \cup {None}]

=============================================================================
