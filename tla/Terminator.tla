----------------------------- MODULE Terminator -----------------------------
(***************************************************************************)
(* ParallelTaskTerminator of utilities/taskqueue.cpp.  A thread that finds *)
(* nothing to do offers to terminate; it returns true once every thread    *)
(* offers, and withdraws its offer when it sees a queue with work.  Only   *)
(* the queues are looked at, with two unsynchronized reads for each.       *)
(*                                                                         *)
(* A caller starts offer_termination while tpc[w] = "idle" and finds the   *)
(* result in tres[w] when tpc[w] is "idle" again.  Spinning, yielding and  *)
(* sleeping between two looks leave no trace; no TerminatorTerminator is   *)
(* given (the concurrent collectors pass one, the young collection none).  *)
(***************************************************************************)
EXTENDS TaskQueue

VARIABLES
  offered,   \* _offered_termination
  tpc,       \* where each thread is in offer_termination
  tqueue,    \* the queue it looks at: the local j of peek
  tbot,      \* the _bottom it has read there
  tres       \* the result

tvars == <<offered, tpc, tqueue, tbot, tres>>

TInit ==
  /\ offered = 0
  /\ tpc = [w \in Workers |-> "idle"]
  /\ tqueue = [w \in Workers |-> 0]
  /\ tbot = [w \in Workers |-> 0]
  /\ tres = [w \in Workers |-> FALSE]

TAt(w, l) == tpc[w] = l
TGoto(w, l) == tpc' = [tpc EXCEPT ![w] = l]

TReturn(w, r) ==
  /\ TGoto(w, "idle")
  /\ tres' = [tres EXCEPT ![w] = r]
  /\ tqueue' = [tqueue EXCEPT ![w] = 0]
  /\ tbot' = [tbot EXCEPT ![w] = 0]

Call_offer_termination(w) ==
  /\ TGoto(w, "offer")
  /\ tres' = [tres EXCEPT ![w] = FALSE]
  /\ UNCHANGED <<offered, tqueue, tbot>>

Offer_inc(w) ==
  /\ TAt(w, "offer")
  /\ offered' = offered + 1
  /\ TGoto(w, "check")
  /\ UNCHANGED <<tqueue, tbot, tres>>

\* Are all threads offering termination?  If not, peek looks at every queue.
Offer_check(w) ==
  /\ TAt(w, "check")
  /\ IF offered = n_threads
     THEN TReturn(w, TRUE)
     ELSE TGoto(w, "peek") /\ UNCHANGED <<tqueue, tbot, tres>>
  /\ UNCHANGED offered

\* _bottom != _age.top() of the next queue: the first read ...
Peek_bottom(w) ==
  /\ TAt(w, "peek")
  /\ tbot' = [tbot EXCEPT ![w] = bottom[tqueue[w]]]
  /\ TGoto(w, "peek_top")
  /\ UNCHANGED <<offered, tqueue, tres>>

\* ... and the second.  After the last queue the loop begins again.
Peek_top(w) ==
  /\ TAt(w, "peek_top")
  /\ tbot' = [tbot EXCEPT ![w] = 0]
  /\ IF tbot[w] # age[tqueue[w]].top
     THEN TGoto(w, "withdraw") /\ tqueue' = [tqueue EXCEPT ![w] = 0]
     ELSE /\ tqueue' = [tqueue EXCEPT ![w] = (tqueue[w] + 1) % n_threads]
          /\ TGoto(w, IF tqueue[w] + 1 = n_threads THEN "check" ELSE "peek")
  /\ UNCHANGED <<offered, tres>>

\* Variant: returns without taking the offer back.
Offer_dec_missing(w) ==
  /\ TAt(w, "withdraw")
  /\ TReturn(w, FALSE)
  /\ UNCHANGED offered

Offer_dec(w) ==
  /\ TAt(w, "withdraw")
  /\ offered' = offered - 1
  /\ TReturn(w, FALSE)

TNext(w) ==
  \/ Offer_inc(w) \/ Offer_check(w)
  \/ Peek_bottom(w) \/ Peek_top(w)
  \/ Offer_dec(w)

TTypeOK ==
  /\ offered \in 0..n_threads
  /\ tpc \in [Workers -> {"idle", "offer", "check", "peek", "peek_top", "withdraw"}]
  /\ tqueue \in [Workers -> Workers]
  /\ tbot \in [Workers -> Index]
  /\ tres \in [Workers -> BOOLEAN]

=============================================================================
