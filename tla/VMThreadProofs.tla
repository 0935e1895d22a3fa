--------------------------- MODULE VMThreadProofs ---------------------------
(***************************************************************************)
(* Proofs about VMThread for any set of requesters, any modes of their     *)
(* operations and any limit on the safepoint operations that are taken     *)
(* before others.                                                          *)
(*                                                                         *)
(* What the VM thread has in hand, the operations that came with it and    *)
(* the queue of a priority are, put together, the operations of that       *)
(* priority that were added and not evaluated (Order).  Each route from    *)
(* the queue to the evaluation moves operations between the three parts.   *)
(* That no list is overwritten while it holds operations depends on where  *)
(* the VM thread is (Places).  The caller of execute() returns late enough *)
(* because its ticket is completed by its own operation only (Tickets).    *)
(***************************************************************************)
EXTENDS VMThread, SequenceTheorems, TLAPS

-----------------------------------------------------------------------------
(* Sequences.                                                              *)

\* A sequence is its head followed by its tail.
LEMMA Cons ==
  ASSUME NEW S, NEW s \in Seq(S), s # <<>>
  PROVE  <<Head(s)>> \o Tail(s) = s /\ Head(s) \in S /\ Tail(s) \in Seq(S)
<1>1. Head(s) \in S /\ Tail(s) \in Seq(S)
  BY HeadTailProperties
<1> QED
  BY <1>1, HeadTailProperties

\* Appending to the second part of a sequence is appending to the whole.
LEMMA AppendBehind ==
  ASSUME NEW S, NEW s \in Seq(S), NEW t \in Seq(S), NEW x \in S
  PROVE  s \o Append(t, x) = Append(s \o t, x)
OBVIOUS

-----------------------------------------------------------------------------
(* The inductive invariant, in parts.                                      *)

OpsOf(prio) == {op \in Ops : Priority(op) = prio}

\* Where the VM thread is determines whether it has an operation in hand, and
\* whether there are others that came with it.
Places ==
  /\ \A prio \in Priorities : queue[prio] \in Seq(OpsOf(prio))
  /\ safepoint_ops \in Seq(OpsOf("safepoint"))
  /\ vmpc \in {"take", "waiting", "periodic", "periodic_end", "retake", "more", "notify"} =>
       cur = None
  /\ vmpc \in {"execute", "begin", "eval"} => cur # None
  /\ vmpc \in {"begin", "eval"} => AtSafepoint(cur) /\ drain_list = safepoint_ops
  /\ vmpc \in {"take", "waiting", "periodic", "periodic_end", "retake", "notify"} =>
       safepoint_ops = <<>>
  /\ vmpc \in {"look", "execute"} =>
       (safepoint_ops = <<>> \/ (cur # None /\ AtSafepoint(cur)))

Order == \A prio \in Priorities : Held(prio) = pending[prio]

\* An operation that its requester waits for is the only one of its kind, and the
\* requester's ticket is not completed.
Waits(op) == ~Concurrently(op[2])
Tickets ==
  /\ \A p \in Priorities : \A i \in 1..Len(pending[p]) :
       Waits(pending[p][i]) =>
         /\ pc[pending[p][i][1]] \in {"request", "waiting"}
         /\ ~completed[pending[p][i][1]]
         /\ \A q \in Priorities : \A j \in 1..Len(pending[q]) :
              Waits(pending[q][j]) /\ pending[q][j][1] = pending[p][i][1] => p = q /\ i = j
  /\ \A r \in Requesters : pc[r] = "adding" =>
       mode[r] \in AllModes /\ (Concurrently(mode[r]) \/ ~completed[r])

\* Every operation has one of the two priorities.
LEMMA PriorityType == \A op : Priority(op) \in Priorities
  BY DEF Priority, Priorities

\* The operations of a priority are operations.
LEMMA OpsOfType == \A prio : OpsOf(prio) \subseteq Ops
  BY DEF OpsOf

\* VMOperationQueue::remove_next takes the first operation of a queue.
LEMMA RemoveNext ==
  ASSUME TypeOK, Places
  PROVE  /\ NextPriority \in Priorities
         /\ Rest \in [Priorities -> Seq(Ops)]
         /\ \A prio \in Priorities : Rest[prio] \in Seq(OpsOf(prio))
         /\ NextOp \in Ops \cup {None}
         /\ NextOp = None => Rest = queue
         /\ NextOp # None =>
              /\ queue[NextPriority] # <<>>
              /\ NextOp = Head(queue[NextPriority])
              /\ NextOp \in OpsOf(NextPriority)
              /\ Rest = [queue EXCEPT ![NextPriority] = Tail(@)]
<1>1. NextPriority \in Priorities
  BY DEF NextPriority, LowPriority, HighPriority, Priorities
<1>2. queue \in [Priorities -> Seq(Ops)] /\ queue[NextPriority] \in Seq(OpsOf(NextPriority))
  BY <1>1 DEF TypeOK, Places
<1>3. CASE queue[NextPriority] = <<>>
  <2>1. NextOp = None /\ Rest = queue
    BY <1>3 DEF NextOp, Rest
  <2> QED
    BY <1>1, <1>2, <2>1 DEF Places
<1>4. CASE queue[NextPriority] # <<>>
  <2>1. NextOp = Head(queue[NextPriority])
    BY <1>4 DEF NextOp
  <2>2. /\ Head(queue[NextPriority]) \in OpsOf(NextPriority)
        /\ Tail(queue[NextPriority]) \in Seq(OpsOf(NextPriority))
    BY <1>2, <1>4, Cons
  <2>3. NextOp \in Ops /\ NextOp # None
    BY <2>1, <2>2, OpsOfType, VMThreadAssumption DEF Ops
  <2>4. Rest = [queue EXCEPT ![NextPriority] = Tail(@)]
    BY <2>3 DEF Rest
  <2>5. Tail(queue[NextPriority]) \in Seq(Ops)
    BY <2>2, OpsOfType, SeqMonotonic
  <2> QED
    BY <1>1, <1>2, <1>4, <2>1, <2>2, <2>3, <2>4, <2>5 DEF Places
<1> QED
  BY <1>3, <1>4

\* The operations of a priority behind the one in hand.
Behind(prio) == (IF prio = "safepoint" THEN safepoint_ops ELSE <<>>) \o queue[prio]

\* What is held of a priority, with and without the operation in hand.
LEMMA HeldParts ==
  ASSUME TypeOK, NEW prio \in Priorities
  PROVE  /\ Behind(prio) \in Seq(Ops)
         /\ (cur = None \/ Priority(cur) # prio) => Held(prio) = Behind(prio)
         /\ (cur # None /\ Priority(cur) = prio) => Held(prio) = <<cur>> \o Behind(prio)
<1>1. Behind(prio) \in Seq(Ops)
  BY ConcatProperties, EmptySeq DEF Behind, TypeOK
<1>2. ASSUME cur = None \/ Priority(cur) # prio PROVE Held(prio) = Behind(prio)
  <2>1. Held(prio) = <<>> \o Behind(prio)
    BY <1>2 DEF Held, Behind
  <2> QED
    BY <1>1, <2>1, ConcatEmptySeq
<1>3. ASSUME cur # None, Priority(cur) = prio PROVE Held(prio) = <<cur>> \o Behind(prio)
  BY <1>3 DEF Held, Behind
<1> QED
  BY <1>1, <1>2, <1>3

\* What is evaluated is the oldest pending operation of its priority.
LEMMA Evaluated ==
  ASSUME TypeOK, Order, cur # None, Evaluate
  PROVE  /\ cur \in Ops /\ cur[1] \in Requesters /\ cur[2] \in AllModes
         /\ pending[Priority(cur)] # <<>> /\ pending[Priority(cur)][1] = cur
         /\ pending' = [pending EXCEPT ![Priority(cur)] = Tail(@)]
         /\ pending' \in [Priorities -> Seq(Ops)]
         /\ \A prio \in Priorities : pending'[prio] = Behind(prio)
         /\ completed' = [completed EXCEPT ![cur[1]] = @ \/ Waits(cur)]
         /\ completed' \in [Requesters -> BOOLEAN]
<1>1. cur \in Ops /\ cur[1] \in Requesters /\ cur[2] \in AllModes
  BY DEF TypeOK, Ops
<1>2. Priority(cur) \in Priorities
  BY PriorityType
<1>3. Behind(Priority(cur)) \in Seq(Ops) /\ pending[Priority(cur)] = <<cur>> \o Behind(Priority(cur))
  BY <1>2, HeldParts DEF Order
<1>4. pending[Priority(cur)] # <<>> /\ pending[Priority(cur)][1] = cur
      /\ Tail(pending[Priority(cur)]) = Behind(Priority(cur))
  BY <1>1, <1>3
<1>5. pending \in [Priorities -> Seq(Ops)] /\ completed \in [Requesters -> BOOLEAN]
  BY DEF TypeOK
<1>6. pending' = [pending EXCEPT ![Priority(cur)] = Tail(@)]
  BY DEF Evaluate
<1>7. pending' \in [Priorities -> Seq(Ops)]
  BY <1>2, <1>3, <1>4, <1>5, <1>6
<1>8. ASSUME NEW prio \in Priorities PROVE pending'[prio] = Behind(prio)
  <2>1. CASE prio = Priority(cur)
    BY <1>2, <1>4, <1>5, <1>6, <2>1
  <2>2. CASE prio # Priority(cur)
    BY <1>5, <1>6, <2>2, HeldParts DEF Order
  <2> QED
    BY <2>1, <2>2
<1>9. completed' = [completed EXCEPT ![cur[1]] = @ \/ Waits(cur)]
  BY DEF Evaluate, Waits
<1>10. completed' \in [Requesters -> BOOLEAN]
  <2>1. (completed[cur[1]] \/ Waits(cur)) \in BOOLEAN
    BY Zenon
  <2> QED
    BY <1>1, <1>5, <1>9, <2>1, Zenon
<1> QED
  BY <1>1, <1>4, <1>6, <1>7, <1>8, <1>9, <1>10

\* No step leaves the types.
LEMMA TypeStep ==
  ASSUME TypeOK, Places, Order, Tickets, [Next]_vars PROVE TypeOK'
<1> USE VMThreadAssumption DEF KeepRequesters, ops, term, reqs, TypeOK
<1>1. CASE Take
  BY <1>1, RemoveNext DEF Take, NextCounter
<1>2. CASE Look_terminate
  BY <1>2 DEF Look_terminate
<1>3. CASE Look_wait
  BY <1>3 DEF Look_wait
<1>4. CASE Look_found
  BY <1>4 DEF Look_found
<1>5. CASE Wait_notified
  BY <1>5 DEF Wait_notified
<1>6. CASE Wait_timeout
  BY <1>6 DEF Wait_timeout
<1>7. CASE Wait_cleanup
  BY <1>7 DEF Wait_cleanup
<1>8. CASE Periodic_reached
  BY <1>8 DEF Periodic_reached
<1>9. CASE Periodic_end
  BY <1>9 DEF Periodic_end
<1>10. CASE Retake
  <2>1. Rest["safepoint"] \in Seq(Ops) /\ Drained(Rest) \in [Priorities -> Seq(Ops)]
    BY RemoveNext, EmptySeq DEF Drained, Priorities
  <2>2. queue' \in {Rest, Drained(Rest)} /\ safepoint_ops' \in {Rest["safepoint"], <<>>}
    BY <1>10 DEF Retake
  <2>3. queue' \in [Priorities -> Seq(Ops)] /\ safepoint_ops' \in Seq(Ops)
    <3>1. Rest \in [Priorities -> Seq(Ops)]
      BY RemoveNext
    <3>2. <<>> \in Seq(Ops)
      BY EmptySeq
    <3> QED
      BY <2>1, <2>2, <3>1, <3>2, Zenon
  <2>4. cur' \in Ops \cup {None}
    BY <1>10, RemoveNext DEF Retake
  <2> QED
    BY <1>10, <2>3, <2>4 DEF Retake, NextCounter
<1>11. CASE Execute_safepoint
  BY <1>11 DEF Execute_safepoint
<1>12. CASE Safepoint_reached
  BY <1>12 DEF Safepoint_reached
<1>13. CASE Evaluate_safepoint
  <2>1. cur # None /\ Evaluate
    BY <1>13 DEF Evaluate_safepoint, Places
  <2> QED
    BY <1>13, <2>1, Evaluated DEF Evaluate_safepoint, Evaluate
<1>14. CASE More_drained
  BY <1>14, Cons DEF More_drained, Places, OpsOf
<1>15. CASE More_added
  BY <1>15, EmptySeq DEF More_added, Drained, Priorities
<1>16. CASE More_none
  BY <1>16, EmptySeq DEF More_none
<1>17. CASE Evaluate_plain
  <2>1. cur # None /\ Evaluate
    BY <1>17 DEF Evaluate_plain, Places
  <2> QED
    BY <1>17, <2>1, Evaluated DEF Evaluate_plain, Evaluate
<1>18. CASE Notify_all
  BY <1>18 DEF Notify_all
<1>19. CASE Exit_begin
  BY <1>19 DEF Exit_begin
<1>20. CASE Exit_reached
  BY <1>20 DEF Exit_reached
<1>21. CASE Exit_signal
  BY <1>21 DEF Exit_signal
<1>22. CASE Destroy
  <2>1. notified' \in BOOLEAN
    BY <1>22, Zenon DEF Destroy
  <2> QED
    BY <1>22, <2>1 DEF Destroy
<1>23. CASE Destroy_check
  BY <1>23 DEF Destroy_check
<1>24. CASE Destroy_wait
  BY <1>24 DEF Destroy_wait
<1>25. ASSUME NEW r \in Requesters, Add(r) PROVE TypeOK'
  <2>1. <<r, mode[r]>> \in Ops
    BY <1>25 DEF Add, Tickets, Ops
  <2>2. Added(queue, <<r, mode[r]>>) \in [Priorities -> Seq(Ops)]
        /\ Added(pending, <<r, mode[r]>>) \in [Priorities -> Seq(Ops)]
    BY <2>1, PriorityType, AppendProperties DEF Added
  <2>3. notified' \in BOOLEAN
    BY <1>25, Zenon DEF Add
  <2>4. queue' \in [Priorities -> Seq(Ops)] /\ pending' \in [Priorities -> Seq(Ops)]
    BY <1>25, <2>2 DEF Add
  <2>5. /\ pc' \in [Requesters -> {"idle", "adding", "request", "waiting"}]
        /\ mode' \in [Requesters -> AllModes \cup {None}]
    BY <1>25 DEF Add
  <2>6. UNCHANGED <<queue_counter, drain_list, safepoint_ops, cur, Queue_lock, timedout,
                    safepoint, term, vmpc, completed>>
    BY <1>25 DEF Add
  <2> QED
    BY <2>3, <2>4, <2>5, <2>6
<1>26. ASSUME NEW r \in Requesters, Request(r) PROVE TypeOK'
  BY <1>26 DEF Request
<1>27. ASSUME NEW r \in Requesters, NEW m \in Modes[r], Execute(r, m) PROVE TypeOK'
  <2>1. (completed[r] /\ Concurrently(m)) \in BOOLEAN
    BY Zenon
  <2>2. completed' \in [Requesters -> BOOLEAN]
    BY <1>27, <2>1, Zenon DEF Execute
  <2> QED
    BY <1>27, <2>2 DEF Execute
<1>28. CASE UNCHANGED vars
  BY <1>28 DEF vars
<1> HIDE DEF TypeOK
<1> QED
  BY <1>1, <1>2, <1>3, <1>4, <1>5, <1>6, <1>7, <1>8, <1>9, <1>10, <1>11, <1>12, <1>13,
     <1>14, <1>15, <1>16, <1>17, <1>18, <1>19, <1>20, <1>21, <1>22, <1>23, <1>24, <1>25,
     <1>26, <1>27, <1>28
  DEF Next, Loop, Destroyer

\* The VM thread takes operations along from place to place.
LEMMA PlacesStep ==
  ASSUME TypeOK, Places, Order, Tickets, [Next]_vars PROVE Places'
<1> USE VMThreadAssumption DEF KeepRequesters, ops, term, reqs, Places
<1>1. CASE Take
  <2>1. \A prio \in Priorities : queue'[prio] \in Seq(OpsOf(prio))
    BY <1>1, RemoveNext DEF Take
  <2>2. <<>> \in Seq(OpsOf("safepoint"))
    BY EmptySeq
  <2> QED
    BY <1>1, <2>1, <2>2 DEF Take
<1>2. CASE Look_terminate
  BY <1>2 DEF Look_terminate
<1>3. CASE Look_wait
  BY <1>3 DEF Look_wait
<1>4. CASE Look_found
  BY <1>4 DEF Look_found
<1>5. CASE Wait_notified
  BY <1>5 DEF Wait_notified
<1>6. CASE Wait_timeout
  BY <1>6 DEF Wait_timeout
<1>7. CASE Wait_cleanup
  BY <1>7 DEF Wait_cleanup
<1>8. CASE Periodic_reached
  BY <1>8 DEF Periodic_reached
<1>9. CASE Periodic_end
  BY <1>9 DEF Periodic_end
<1>10. CASE Retake
  <2>1. \A prio \in Priorities : <<>> \in Seq(OpsOf(prio))
    BY EmptySeq
  <2>2. "safepoint" \in Priorities
    BY DEF Priorities
  <2>3. \A prio \in Priorities : Rest[prio] \in Seq(OpsOf(prio))
    BY RemoveNext
  <2>4. \A prio \in Priorities : Drained(Rest)[prio] \in Seq(OpsOf(prio))
    BY <2>1, <2>2, <2>3, RemoveNext DEF Drained
  <2>5. queue' \in {Rest, Drained(Rest)} /\ safepoint_ops' \in {Rest["safepoint"], <<>>}
    BY <1>10 DEF Retake
  <2>6. /\ \A prio \in Priorities : queue'[prio] \in Seq(OpsOf(prio))
        /\ safepoint_ops' \in Seq(OpsOf("safepoint"))
    BY <2>1, <2>2, <2>3, <2>4, <2>5, Zenon
  <2>7. vmpc' = "look" /\ (safepoint_ops' = <<>> \/ (cur' # None /\ AtSafepoint(cur')))
    BY <1>10 DEF Retake
  <2> QED
    BY <2>6, <2>7
<1>11. CASE Execute_safepoint
  BY <1>11 DEF Execute_safepoint
<1>12. CASE Safepoint_reached
  BY <1>12 DEF Safepoint_reached
<1>13. CASE Evaluate_safepoint
  BY <1>13 DEF Evaluate_safepoint
<1>14. CASE More_drained
  <2>1. Head(safepoint_ops) \in OpsOf("safepoint") /\ Tail(safepoint_ops) \in Seq(OpsOf("safepoint"))
    BY <1>14, Cons DEF More_drained
  <2>2. Head(safepoint_ops) # None /\ AtSafepoint(Head(safepoint_ops))
    BY <2>1 DEF OpsOf, Ops, Priority
  <2> QED
    BY <1>14, <2>1, <2>2 DEF More_drained
<1>15. CASE More_added
  <2>1. "safepoint" \in Priorities
    BY DEF Priorities
  <2>2. \A prio \in Priorities : <<>> \in Seq(OpsOf(prio))
    BY EmptySeq
  <2>3. \A prio \in Priorities : Drained(queue)[prio] \in Seq(OpsOf(prio))
    BY <2>1, <2>2 DEF Drained, TypeOK
  <2> QED
    BY <1>15, <2>1, <2>3 DEF More_added
<1>16. CASE More_none
  BY <1>16 DEF More_none
<1>17. CASE Evaluate_plain
  BY <1>17 DEF Evaluate_plain
<1>18. CASE Notify_all
  BY <1>18 DEF Notify_all
<1>19. CASE Exit_begin
  BY <1>19 DEF Exit_begin
<1>20. CASE Exit_reached
  BY <1>20 DEF Exit_reached
<1>21. CASE Exit_signal
  BY <1>21 DEF Exit_signal
<1>22. CASE Destroy
  BY <1>22 DEF Destroy
<1>23. CASE Destroy_check
  BY <1>23 DEF Destroy_check
<1>24. CASE Destroy_wait
  BY <1>24 DEF Destroy_wait
<1>25. ASSUME NEW r \in Requesters, Add(r) PROVE Places'
  <2>1. <<r, mode[r]>> \in Ops
    BY <1>25 DEF Add, Tickets, Ops
  <2>2. <<r, mode[r]>> \in OpsOf(Priority(<<r, mode[r]>>))
    BY <2>1 DEF OpsOf
  <2>3. \A prio \in Priorities : Added(queue, <<r, mode[r]>>)[prio] \in Seq(OpsOf(prio))
    BY <2>2, PriorityType, AppendProperties DEF Added, TypeOK
  <2>4. UNCHANGED <<vmpc, cur, safepoint_ops, drain_list>> /\ queue' = Added(queue, <<r, mode[r]>>)
    BY <1>25 DEF Add
  <2> QED
    BY <2>3, <2>4
<1>26. ASSUME NEW r \in Requesters, Request(r) PROVE Places'
  BY <1>26 DEF Request
<1>27. ASSUME NEW r \in Requesters, NEW m \in Modes[r], Execute(r, m) PROVE Places'
  BY <1>27 DEF Execute
<1>28. CASE UNCHANGED vars
  BY <1>28 DEF vars
<1> HIDE DEF Places
<1> QED
  BY <1>1, <1>2, <1>3, <1>4, <1>5, <1>6, <1>7, <1>8, <1>9, <1>10, <1>11, <1>12, <1>13,
     <1>14, <1>15, <1>16, <1>17, <1>18, <1>19, <1>20, <1>21, <1>22, <1>23, <1>24, <1>25,
     <1>26, <1>27, <1>28
  DEF Next, Loop, Destroyer

\* An operation moves from the front of its queue into the VM thread's hand.
LEMMA Moved ==
  ASSUME TypeOK, Places, Order, cur = None, safepoint_ops = <<>>,
         cur' = NextOp, queue' = Rest, safepoint_ops' = <<>>, pending' = pending
  PROVE  Order'
<1> SUFFICES ASSUME NEW prio \in Priorities PROVE Held(prio)' = pending[prio]
  BY DEF Order
<1>1. queue[prio] \in Seq(Ops) /\ queue \in [Priorities -> Seq(Ops)]
  BY DEF TypeOK
<1>2. pending[prio] = queue[prio]
  <2>1. pending[prio] = <<>> \o queue[prio]
    BY HeldParts DEF Order, Behind
  <2> QED
    BY <1>1, <2>1, ConcatEmptySeq
<1>3. CASE NextOp # None /\ NextPriority = prio
  <2>1. /\ queue[prio] # <<>> /\ NextOp = Head(queue[prio]) /\ Rest[prio] = Tail(queue[prio])
        /\ NextOp \in OpsOf(prio)
    BY <1>1, <1>3, RemoveNext
  <2>2. Priority(NextOp) = prio
    BY <2>1 DEF OpsOf
  <2>3. Held(prio)' = <<Head(queue[prio])>> \o (<<>> \o Tail(queue[prio]))
    BY <1>3, <2>1, <2>2 DEF Held
  <2>4. Tail(queue[prio]) \in Seq(Ops) /\ <<Head(queue[prio])>> \o Tail(queue[prio]) = queue[prio]
    BY <1>1, <2>1, Cons
  <2> QED
    BY <1>2, <2>3, <2>4, ConcatEmptySeq
<1>4. CASE ~(NextOp # None /\ NextPriority = prio)
  <2>1. Rest[prio] = queue[prio] /\ (NextOp = None \/ Priority(NextOp) # prio)
    BY <1>1, <1>4, RemoveNext DEF OpsOf
  <2>2. Held(prio)' = <<>> \o (<<>> \o queue[prio])
    BY <2>1 DEF Held
  <2> QED
    BY <1>1, <1>2, <2>2, ConcatEmptySeq
<1> QED
  BY <1>3, <1>4

\* A safepoint operation moves there, and all those behind it with it.
LEMMA MovedAll ==
  ASSUME TypeOK, Places, Order, cur = None, safepoint_ops = <<>>,
         NextOp # None, AtSafepoint(NextOp),
         cur' = NextOp, queue' = Drained(Rest), safepoint_ops' = Rest["safepoint"],
         pending' = pending
  PROVE  Order'
<1> SUFFICES ASSUME NEW prio \in Priorities PROVE Held(prio)' = pending[prio]
  BY DEF Order
<1>1. queue[prio] \in Seq(Ops) /\ queue \in [Priorities -> Seq(Ops)]
  BY DEF TypeOK
<1>2. pending[prio] = queue[prio]
  <2>1. pending[prio] = <<>> \o queue[prio]
    BY HeldParts DEF Order, Behind
  <2> QED
    BY <1>1, <2>1, ConcatEmptySeq
<1>3. NextPriority = "safepoint" /\ Priority(NextOp) = "safepoint"
  BY RemoveNext DEF OpsOf, Priority
<1>4. CASE prio = "safepoint"
  <2>1. /\ queue[prio] # <<>> /\ NextOp = Head(queue[prio]) /\ Rest[prio] = Tail(queue[prio])
        /\ Drained(Rest)[prio] = <<>>
    BY <1>1, <1>3, <1>4, RemoveNext DEF Drained
  <2>2. Held(prio)' = <<Head(queue[prio])>> \o (Tail(queue[prio]) \o <<>>)
    BY <1>3, <1>4, <2>1 DEF Held
  <2>3. Tail(queue[prio]) \in Seq(Ops) /\ <<Head(queue[prio])>> \o Tail(queue[prio]) = queue[prio]
    BY <1>1, <2>1, Cons
  <2> QED
    BY <1>2, <2>2, <2>3, ConcatEmptySeq
<1>5. CASE prio # "safepoint"
  <2>1. Drained(Rest)[prio] = queue[prio]
    BY <1>1, <1>3, <1>5, RemoveNext DEF Drained
  <2>2. Held(prio)' = <<>> \o (<<>> \o queue[prio])
    BY <1>3, <1>5, <2>1 DEF Held
  <2> QED
    BY <1>1, <1>2, <2>2, ConcatEmptySeq
<1> QED
  BY <1>4, <1>5

\* The operation in hand goes, the others stay as they are.
LEMMA AfterEvaluation ==
  ASSUME TypeOK, TypeOK', Order, cur # None, Evaluate, cur' = None,
         UNCHANGED <<queue, safepoint_ops>>
  PROVE  Order'
<1> SUFFICES ASSUME NEW prio \in Priorities PROVE Held(prio)' = pending'[prio]
  BY DEF Order
<1>1. Behind(prio) \in Seq(Ops) /\ pending'[prio] = Behind(prio)
  BY HeldParts, Evaluated
<1>2. Held(prio)' = <<>> \o Behind(prio)
  BY DEF Held, Behind
<1> QED
  BY <1>1, <1>2, ConcatEmptySeq

\* Operations move between the queues without loss and without overtaking.
LEMMA OrderStep ==
  ASSUME TypeOK, Places, Order, Tickets, TypeOK', [Next]_vars PROVE Order'
<1> USE VMThreadAssumption DEF KeepRequesters, ops, term, reqs
<1>1. CASE Take
  <2>1. cur = None /\ safepoint_ops = <<>> /\ safepoint_ops' = <<>> /\ pending' = pending
    BY <1>1 DEF Take, Places
  <2>2. cur' = NextOp /\ queue' = Rest
    BY <1>1 DEF Take
  <2> QED
    BY <2>1, <2>2, Moved
<1>2. CASE Look_terminate
  BY <1>2 DEF Look_terminate, Order, Held
<1>3. CASE Look_wait
  BY <1>3 DEF Look_wait, Order, Held
<1>4. CASE Look_found
  BY <1>4 DEF Look_found, Order, Held
<1>5. CASE Wait_notified
  BY <1>5 DEF Wait_notified, Order, Held
<1>6. CASE Wait_timeout
  BY <1>6 DEF Wait_timeout, Order, Held
<1>7. CASE Wait_cleanup
  BY <1>7 DEF Wait_cleanup, Order, Held
<1>8. CASE Periodic_reached
  BY <1>8 DEF Periodic_reached, Order, Held
<1>9. CASE Periodic_end
  BY <1>9 DEF Periodic_end, Order, Held
<1>10. CASE Retake
  <2>1. cur = None /\ safepoint_ops = <<>> /\ pending' = pending /\ cur' = NextOp
    BY <1>10 DEF Retake, Places
  <2>2. CASE NextOp # None /\ AtSafepoint(NextOp)
    <3>1. queue' = Drained(Rest) /\ safepoint_ops' = Rest["safepoint"]
      BY <1>10, <2>2 DEF Retake
    <3> QED
      BY <2>1, <2>2, <3>1, MovedAll
  <2>3. CASE ~(NextOp # None /\ AtSafepoint(NextOp))
    <3>1. queue' = Rest /\ safepoint_ops' = <<>>
      BY <1>10, <2>3 DEF Retake
    <3> QED
      BY <2>1, <3>1, Moved
  <2> QED
    BY <2>2, <2>3
<1>11. CASE Execute_safepoint
  BY <1>11 DEF Execute_safepoint, Order, Held
<1>12. CASE Safepoint_reached
  BY <1>12 DEF Safepoint_reached, Order, Held
<1>13. CASE Evaluate_safepoint
  <2>1. cur # None /\ Evaluate /\ cur' = None /\ UNCHANGED <<queue, safepoint_ops>>
    BY <1>13 DEF Evaluate_safepoint, Places
  <2> QED
    BY <2>1, AfterEvaluation
<1>14. CASE More_drained
  <2> SUFFICES ASSUME NEW prio \in Priorities PROVE Held(prio)' = pending'[prio]
    BY DEF Order
  <2>1. /\ cur = None /\ cur' = Head(safepoint_ops) /\ safepoint_ops' = Tail(safepoint_ops)
        /\ safepoint_ops # <<>> /\ UNCHANGED <<queue, pending>>
    BY <1>14 DEF More_drained, Places
  <2>2. /\ Head(safepoint_ops) \in OpsOf("safepoint") /\ Tail(safepoint_ops) \in Seq(Ops)
        /\ <<Head(safepoint_ops)>> \o Tail(safepoint_ops) = safepoint_ops
    BY <2>1, Cons DEF Places, TypeOK
  <2>3. Head(safepoint_ops) \in Ops /\ cur' # None /\ Priority(cur') = "safepoint"
    BY <2>1, <2>2 DEF OpsOf, Ops
  <2>4. Held(prio) = Behind(prio) /\ pending[prio] = Held(prio)
    BY <2>1, HeldParts DEF Order
  <2>5. CASE prio = "safepoint"
    <3>1. Held(prio)' = <<Head(safepoint_ops)>> \o (Tail(safepoint_ops) \o queue["safepoint"])
      BY <2>1, <2>3, <2>5 DEF Held
    <3>2. queue["safepoint"] \in Seq(Ops) /\ <<Head(safepoint_ops)>> \in Seq(Ops)
      BY <2>3, <2>5 DEF TypeOK
    <3>3. Held(prio)' = safepoint_ops \o queue["safepoint"]
      BY <2>2, <3>1, <3>2, ConcatAssociative
    <3> QED
      BY <2>1, <2>4, <2>5, <3>3 DEF Behind
  <2>6. CASE prio # "safepoint"
    <3>1. Held(prio)' = <<>> \o (<<>> \o queue[prio])
      BY <2>1, <2>3, <2>6 DEF Held
    <3>2. Behind(prio) = <<>> \o queue[prio] /\ Behind(prio) \in Seq(Ops)
      BY <2>6, HeldParts DEF Behind
    <3> QED
      BY <2>1, <2>4, <3>1, <3>2, ConcatEmptySeq
  <2> QED
    BY <2>5, <2>6
<1>15. CASE More_added
  <2> SUFFICES ASSUME NEW prio \in Priorities PROVE Held(prio)' = pending'[prio]
    BY DEF Order
  <2>1. /\ cur = None /\ cur' = None /\ safepoint_ops = <<>> /\ pending' = pending
        /\ safepoint_ops' = queue["safepoint"] /\ queue' = Drained(queue)
    BY <1>15 DEF More_added, Places
  <2>2. queue[prio] \in Seq(Ops) /\ pending[prio] = <<>> \o (<<>> \o queue[prio])
    BY <2>1 DEF Held, Order, TypeOK
  <2>3. CASE prio = "safepoint"
    <3>1. Held(prio)' = <<>> \o (queue[prio] \o <<>>)
      BY <2>1, <2>3 DEF Held, Drained, TypeOK
    <3> QED
      BY <2>1, <2>2, <3>1, ConcatEmptySeq
  <2>4. CASE prio # "safepoint"
    BY <2>1, <2>2, <2>4 DEF Held, Drained, TypeOK
  <2> QED
    BY <2>3, <2>4
<1>16. CASE More_none
  BY <1>16 DEF More_none, Order, Held
<1>17. CASE Evaluate_plain
  <2>1. cur # None /\ Evaluate /\ cur' = None /\ UNCHANGED <<queue, safepoint_ops>>
    BY <1>17 DEF Evaluate_plain, Places
  <2> QED
    BY <2>1, AfterEvaluation
<1>18. CASE Notify_all
  BY <1>18 DEF Notify_all, Order, Held
<1>19. CASE Exit_begin
  BY <1>19 DEF Exit_begin, Order, Held
<1>20. CASE Exit_reached
  BY <1>20 DEF Exit_reached, Order, Held
<1>21. CASE Exit_signal
  BY <1>21 DEF Exit_signal, Order, Held
<1>22. CASE Destroy
  BY <1>22 DEF Destroy, Order, Held
<1>23. CASE Destroy_check
  BY <1>23 DEF Destroy_check, Order, Held
<1>24. CASE Destroy_wait
  BY <1>24 DEF Destroy_wait, Order, Held
<1>25. ASSUME NEW r \in Requesters, Add(r) PROVE Order'
  <2> SUFFICES ASSUME NEW prio \in Priorities PROVE Held(prio)' = pending'[prio]
    BY DEF Order
  <2> DEFINE op == <<r, mode[r]>>
  <2>1. op \in Ops
    BY <1>25 DEF Add, Tickets, Ops
  <2>2. /\ UNCHANGED <<cur, safepoint_ops>>
        /\ queue' = Added(queue, op) /\ pending' = Added(pending, op)
    BY <1>25 DEF Add
  <2> HIDE DEF op
  <2>3. CASE prio # Priority(op)
    <3>1. queue'[prio] = queue[prio] /\ pending'[prio] = pending[prio]
      BY <2>2, <2>3 DEF Added, TypeOK
    <3> QED
      BY <2>2, <3>1 DEF Held, Order
  <2>4. CASE prio = Priority(op)
    <3>1. queue'[prio] = Append(queue[prio], op) /\ pending'[prio] = Append(pending[prio], op)
      BY <2>2, <2>4 DEF Added, TypeOK
    <3> DEFINE A == IF cur # None /\ Priority(cur) = prio THEN <<cur>> ELSE <<>>
               B == IF prio = "safepoint" THEN safepoint_ops ELSE <<>>
    <3>2. Held(prio) = A \o (B \o queue[prio]) /\ Held(prio)' = A \o (B \o Append(queue[prio], op))
      BY <2>2, <3>1 DEF Held
    <3>3. A \in Seq(Ops) /\ B \in Seq(Ops) /\ queue[prio] \in Seq(Ops)
      BY DEF TypeOK
    <3> HIDE DEF A, B
    <3>4. B \o queue[prio] \in Seq(Ops)
      BY <3>3, ConcatProperties
    <3>5. B \o Append(queue[prio], op) = Append(B \o queue[prio], op)
      BY <2>1, <3>3, AppendBehind
    <3> DEFINE C == B \o queue[prio]
    <3>6. C \in Seq(Ops)
      BY <3>4
    <3> HIDE DEF C
    <3>7. A \o Append(C, op) = Append(A \o C, op)
      BY <2>1, <3>3, <3>6, AppendBehind
    <3> QED
      BY <3>1, <3>2, <3>5, <3>7 DEF Order, C
  <2> QED
    BY <2>3, <2>4
<1>26. ASSUME NEW r \in Requesters, Request(r) PROVE Order'
  BY <1>26 DEF Request, Order, Held
<1>27. ASSUME NEW r \in Requesters, NEW m \in Modes[r], Execute(r, m) PROVE Order'
  BY <1>27 DEF Execute, Order, Held
<1>28. CASE UNCHANGED vars
  BY <1>28 DEF vars, Order, Held
<1> QED
  BY <1>1, <1>2, <1>3, <1>4, <1>5, <1>6, <1>7, <1>8, <1>9, <1>10, <1>11, <1>12, <1>13,
     <1>14, <1>15, <1>16, <1>17, <1>18, <1>19, <1>20, <1>21, <1>22, <1>23, <1>24, <1>25,
     <1>26, <1>27, <1>28
  DEF Next, Loop, Destroyer

\* After an evaluation no operation of a thread whose ticket was completed is left.
LEMMA TicketEvaluated ==
  ASSUME TypeOK, Order, Tickets, cur # None, Evaluate PROVE Tickets'
<1> DEFINE P == Priority(cur)
<1>1. /\ P \in Priorities /\ cur[1] \in Requesters /\ cur[2] \in AllModes
      /\ pending[P] # <<>> /\ pending[P][1] = cur
      /\ pending' = [pending EXCEPT ![P] = Tail(@)]
      /\ completed' = [completed EXCEPT ![cur[1]] = @ \/ Waits(cur)]
  BY Evaluated, PriorityType
<1>2. pc' = pc /\ mode' = mode
  BY DEF Evaluate
<1> HIDE DEF P
<1>3. pending \in [Priorities -> Seq(Ops)] /\ completed \in [Requesters -> BOOLEAN]
  BY DEF TypeOK
<1>4. /\ Len(pending[P]) \in Nat \ {0} /\ Len(pending'[P]) = Len(pending[P]) - 1
      /\ \A i \in 1..Len(pending'[P]) : pending'[P][i] = pending[P][i + 1]
  BY <1>1, <1>3, HeadTailProperties
<1>5. \A p \in Priorities : p # P => pending'[p] = pending[p]
  BY <1>1, <1>3
\* Each operation that is left was there, and was not the first.
<1>6. ASSUME NEW p \in Priorities, NEW i \in 1..Len(pending'[p])
      PROVE  \E j \in 1..Len(pending[p]) :
               /\ j = (IF p = P THEN i + 1 ELSE i)
               /\ pending'[p][i] = pending[p][j]
  <2>1. CASE p = P
    <3>1. i + 1 \in 1..Len(pending[P]) /\ pending'[P][i] = pending[P][i + 1]
      BY <1>4, <2>1
    <3> QED
      BY <2>1, <3>1
  <2>2. CASE p # P
    BY <1>5, <2>2
  <2> QED
    BY <2>1, <2>2
<1>7. ASSUME NEW p \in Priorities, NEW i \in 1..Len(pending'[p]), Waits(pending'[p][i])
      PROVE  /\ pc[pending'[p][i][1]] \in {"request", "waiting"}
             /\ ~completed[pending'[p][i][1]]
             /\ Waits(cur) => pending'[p][i][1] # cur[1]
             /\ pending'[p][i][1] \in Requesters
  <2>1. PICK j \in 1..Len(pending[p]) : j = (IF p = P THEN i + 1 ELSE i) /\ pending'[p][i] = pending[p][j]
    BY <1>6
  <2>2. 1 \in 1..Len(pending[P]) /\ ~(p = P /\ j = 1)
    BY <1>4, <2>1
  <2>3. Waits(cur) => pending[p][j][1] # cur[1]
    BY <1>1, <1>7, <2>1, <2>2 DEF Tickets
  <2>4. pending[p][j] \in Ops
    BY <1>3
  <2> QED
    BY <1>7, <2>1, <2>3, <2>4 DEF Tickets, Ops
<1>8. ASSUME NEW p \in Priorities, NEW i \in 1..Len(pending'[p]), Waits(pending'[p][i])
      PROVE  ~completed'[pending'[p][i][1]]
  BY <1>1, <1>3, <1>7, <1>8
<1>9. ASSUME NEW p \in Priorities, NEW i \in 1..Len(pending'[p]), Waits(pending'[p][i]),
             NEW q \in Priorities, NEW k \in 1..Len(pending'[q]), Waits(pending'[q][k]),
             pending'[q][k][1] = pending'[p][i][1]
      PROVE  p = q /\ i = k
  <2>1. PICK j \in 1..Len(pending[p]) : j = (IF p = P THEN i + 1 ELSE i) /\ pending'[p][i] = pending[p][j]
    BY <1>6
  <2>2. PICK l \in 1..Len(pending[q]) : l = (IF q = P THEN k + 1 ELSE k) /\ pending'[q][k] = pending[q][l]
    BY <1>6
  <2>3. p = q /\ j = l
    BY <1>9, <2>1, <2>2, SMTT(30) DEF Tickets
  <2>4. Len(pending'[p]) \in Nat /\ Len(pending'[q]) \in Nat
    BY <1>3, <1>4, <1>5
  <2> QED
    BY <2>1, <2>2, <2>3, <2>4
<1>10. ASSUME NEW r \in Requesters, pc[r] = "adding"
       PROVE  mode[r] \in AllModes /\ (Concurrently(mode[r]) \/ ~completed'[r])
  <2>1. mode[r] \in AllModes /\ (Concurrently(mode[r]) \/ ~completed[r])
    BY <1>10 DEF Tickets
  <2>2. CASE r # cur[1]
    BY <1>1, <1>3, <2>1, <2>2
  <2>3. CASE r = cur[1]
    <3>1. ~Waits(cur)
      BY <1>1, <1>4, <1>10, <2>3 DEF Tickets
    <3>2. completed'[r] = completed[r]
      BY <1>1, <1>3, <2>3, <3>1
    <3> QED
      BY <2>1, <3>2
  <2> QED
    BY <2>2, <2>3
<1> QED
  BY <1>2, <1>7, <1>8, <1>9, <1>10 DEF Tickets

\* A ticket is completed by the evaluation of its operation only.
LEMMA TicketStep ==
  ASSUME TypeOK, Places, Order, Tickets, [Next]_vars PROVE Tickets'
<1> USE VMThreadAssumption DEF KeepRequesters, ops, term, reqs
<1>1. CASE Take
  BY <1>1 DEF Take, Tickets
<1>2. CASE Look_terminate
  BY <1>2 DEF Look_terminate, Tickets
<1>3. CASE Look_wait
  BY <1>3 DEF Look_wait, Tickets
<1>4. CASE Look_found
  BY <1>4 DEF Look_found, Tickets
<1>5. CASE Wait_notified
  BY <1>5 DEF Wait_notified, Tickets
<1>6. CASE Wait_timeout
  BY <1>6 DEF Wait_timeout, Tickets
<1>7. CASE Wait_cleanup
  BY <1>7 DEF Wait_cleanup, Tickets
<1>8. CASE Periodic_reached
  BY <1>8 DEF Periodic_reached, Tickets
<1>9. CASE Periodic_end
  BY <1>9 DEF Periodic_end, Tickets
<1>10. CASE Retake
  BY <1>10 DEF Retake, Tickets
<1>11. CASE Execute_safepoint
  BY <1>11 DEF Execute_safepoint, Tickets
<1>12. CASE Safepoint_reached
  BY <1>12 DEF Safepoint_reached, Tickets
<1>13. CASE Evaluate_safepoint
  <2>1. cur # None /\ Evaluate
    BY <1>13 DEF Evaluate_safepoint, Places
  <2> QED
    BY <2>1, TicketEvaluated
<1>14. CASE More_drained
  BY <1>14 DEF More_drained, Tickets
<1>15. CASE More_added
  BY <1>15 DEF More_added, Tickets
<1>16. CASE More_none
  BY <1>16 DEF More_none, Tickets
<1>17. CASE Evaluate_plain
  <2>1. cur # None /\ Evaluate
    BY <1>17 DEF Evaluate_plain, Places
  <2> QED
    BY <2>1, TicketEvaluated
<1>18. CASE Notify_all
  BY <1>18 DEF Notify_all, Tickets, TypeOK, Ops
<1>19. CASE Exit_begin
  BY <1>19 DEF Exit_begin, Tickets
<1>20. CASE Exit_reached
  BY <1>20 DEF Exit_reached, Tickets
<1>21. CASE Exit_signal
  BY <1>21 DEF Exit_signal, Tickets
<1>22. CASE Destroy
  BY <1>22 DEF Destroy, Tickets
<1>23. CASE Destroy_check
  BY <1>23 DEF Destroy_check, Tickets
<1>24. CASE Destroy_wait
  BY <1>24 DEF Destroy_wait, Tickets
<1>25. ASSUME NEW r \in Requesters, Add(r) PROVE Tickets'
  <2> DEFINE op == <<r, mode[r]>>
              P  == Priority(op)
  <2>1. op \in Ops /\ (Waits(op) => ~completed[r])
    BY <1>25 DEF Add, Tickets, Ops, Waits
  <2>2. /\ pending' = Added(pending, op) /\ pc[r] = "adding"
        /\ pc' = [pc EXCEPT ![r] = IF Waits(op) THEN "request" ELSE "idle"]
        /\ mode' = [mode EXCEPT ![r] = None] /\ completed' = completed
    BY <1>25 DEF Add, Waits
  <2>3. op[1] = r /\ P \in Priorities
    BY PriorityType
  <2> HIDE DEF op, P
  <2>4. ASSUME NEW p \in Priorities, NEW i \in 1..Len(pending[p]), Waits(pending[p][i])
        PROVE  pending[p][i][1] \in Requesters /\ pending[p][i][1] # r
    <3>1. pending[p][i] \in Ops
      BY DEF TypeOK
    <3>2. pending[p][i][1] \in Requesters
      BY <3>1 DEF Ops
    <3> QED
      BY <2>2, <2>4, <3>2 DEF Tickets
  <2>5. /\ \A p \in Priorities : p # P => pending'[p] = pending[p]
        /\ pending'[P] = Append(pending[P], op)
    BY <2>2, <2>3 DEF Added, TypeOK, P
  <2>6. /\ Len(pending'[P]) = Len(pending[P]) + 1 /\ pending'[P][Len(pending[P]) + 1] = op
        /\ \A i \in 1..Len(pending[P]) : pending'[P][i] = pending[P][i]
    BY <2>1, <2>3, <2>5, AppendProperties DEF TypeOK
  <2>7. Len(pending[P]) \in Nat
    BY <2>3 DEF TypeOK
  <2>8. ASSUME NEW p \in Priorities, NEW i \in 1..Len(pending'[p])
        PROVE  \/ i \in 1..Len(pending[p]) /\ pending'[p][i] = pending[p][i]
               \/ p = P /\ i = Len(pending[P]) + 1 /\ pending'[p][i] = op
    BY <2>5, <2>6, <2>7, <2>8
  <2>9. \A s \in Requesters : s # r => pc'[s] = pc[s] /\ mode'[s] = mode[s]
    BY <2>2 DEF TypeOK
  <2>10. pc'[r] = (IF Waits(op) THEN "request" ELSE "idle")
    BY <2>2 DEF TypeOK
  <2>11. ASSUME NEW p \in Priorities, NEW i \in 1..Len(pending'[p]), Waits(pending'[p][i])
         PROVE  /\ pc'[pending'[p][i][1]] \in {"request", "waiting"}
                /\ ~completed'[pending'[p][i][1]]
    BY <2>1, <2>2, <2>3, <2>4, <2>8, <2>9, <2>10, <2>11, SMTT(30) DEF Tickets
  <2>12. ASSUME NEW p \in Priorities, NEW i \in 1..Len(pending'[p]),
                Waits(pending'[p][i]),
                NEW q \in Priorities, NEW j \in 1..Len(pending'[q]), Waits(pending'[q][j]),
                pending'[q][j][1] = pending'[p][i][1]
         PROVE  p = q /\ i = j
    <3>1. CASE i \in 1..Len(pending[p]) /\ pending'[p][i] = pending[p][i]
      <4>1. pending[p][i][1] # r
        BY <2>4, <2>12, <3>1
      <4>2. j \in 1..Len(pending[q]) /\ pending'[q][j] = pending[q][j]
        BY <2>3, <2>8, <2>12, <3>1, <4>1
      <4> QED
        BY <2>12, <3>1, <4>2 DEF Tickets
    <3>2. CASE p = P /\ i = Len(pending[P]) + 1 /\ pending'[p][i] = op
      <4>1. q = P /\ j = Len(pending[P]) + 1
        BY <2>3, <2>4, <2>8, <2>12, <3>2
      <4> QED
        BY <3>2, <4>1
    <3> QED
      BY <2>8, <3>1, <3>2
  <2>13. ASSUME NEW s \in Requesters, pc'[s] = "adding"
         PROVE  mode'[s] \in AllModes /\ (Concurrently(mode'[s]) \/ ~completed'[s])
    BY <2>2, <2>9, <2>10, <2>13 DEF Tickets
  <2> QED
    BY <2>11, <2>12, <2>13 DEF Tickets
<1>26. ASSUME NEW r \in Requesters, Request(r) PROVE Tickets'
  BY <1>26 DEF Request, Tickets, TypeOK, Ops
<1>27. ASSUME NEW r \in Requesters, NEW m \in Modes[r], Execute(r, m) PROVE Tickets'
  <2>1. m \in AllModes
    BY <1>27
  <2>2. /\ pc' = [pc EXCEPT ![r] = "adding"] /\ mode' = [mode EXCEPT ![r] = m]
        /\ pending' = pending /\ pc[r] = "idle"
        /\ completed' = [completed EXCEPT ![r] = completed[r] /\ Concurrently(m)]
    BY <1>27 DEF Execute
  <2>3. ASSUME NEW p \in Priorities, NEW i \in 1..Len(pending[p]), Waits(pending[p][i])
        PROVE  /\ pending[p][i][1] \in Requesters /\ pending[p][i][1] # r
               /\ pc[pending[p][i][1]] \in {"request", "waiting"}
               /\ ~completed[pending[p][i][1]]
    <3>1. pending[p][i] \in Ops
      BY DEF TypeOK
    <3>2. pending[p][i][1] \in Requesters
      BY <3>1 DEF Ops
    <3> QED
      BY <2>2, <2>3, <3>2 DEF Tickets
  <2>4. \A s \in Requesters : s # r => completed'[s] = completed[s] /\ pc'[s] = pc[s]
    BY <2>2 DEF TypeOK
  <2>5. \A s \in Requesters : s # r => mode'[s] = mode[s]
    BY <2>2 DEF TypeOK
  <2>6. mode'[r] = m /\ (Concurrently(m) \/ ~completed'[r])
    BY <2>2 DEF TypeOK
  <2> QED
    BY <2>1, <2>2, <2>3, <2>4, <2>5, <2>6 DEF Tickets
<1>28. CASE UNCHANGED vars
  BY <1>28 DEF vars, Tickets
<1> QED
  BY <1>1, <1>2, <1>3, <1>4, <1>5, <1>6, <1>7, <1>8, <1>9, <1>10, <1>11, <1>12, <1>13,
     <1>14, <1>15, <1>16, <1>17, <1>18, <1>19, <1>20, <1>21, <1>22, <1>23, <1>24, <1>25,
     <1>26, <1>27, <1>28
  DEF Next, Loop, Destroyer

-----------------------------------------------------------------------------

Inv == TypeOK /\ Places /\ Order /\ Tickets

\* Initially no operation is anywhere.
LEMMA InitInv == Init => Inv
<1> SUFFICES ASSUME Init PROVE Inv
  OBVIOUS
<1> USE VMThreadAssumption DEF Init
<1>1. \A S : <<>> \in Seq(S)
  BY EmptySeq
<1>2. TypeOK
  <2>1. /\ notified \in BOOLEAN /\ timedout \in BOOLEAN
        /\ should_terminate \in BOOLEAN /\ terminated \in BOOLEAN
    OBVIOUS
  <2>2. completed \in [Requesters -> BOOLEAN]
    OBVIOUS
  <2>3. /\ queue \in [Priorities -> Seq(Ops)] /\ pending \in [Priorities -> Seq(Ops)]
        /\ drain_list \in Seq(Ops) /\ safepoint_ops \in Seq(Ops)
    BY <1>1
  <2>4. /\ pc \in [Requesters -> {"idle", "adding", "request", "waiting"}]
        /\ mode \in [Requesters -> AllModes \cup {None}]
    OBVIOUS
  <2>5. /\ queue_counter \in 0..QueueLimit /\ cur = None /\ Queue_lock \in {VM, FREE}
        /\ safepoint = "no" /\ vmpc = "take" /\ dpc = "running"
    OBVIOUS
  <2> HIDE DEF Init
  <2> QED
    BY <2>1, <2>2, <2>3, <2>4, <2>5 DEF TypeOK
<1>3. Places
  BY <1>1 DEF Places
<1>4. Order
  <2>1. \A prio \in Priorities : Held(prio) = <<>> \o (<<>> \o <<>>)
    BY DEF Held
  <2>2. <<>> \o <<>> = <<>>
    BY <1>1, ConcatEmptySeq
  <2> QED
    BY <2>1, <2>2 DEF Order
<1>5. Tickets
  BY DEF Tickets
<1> QED
  BY <1>2, <1>3, <1>4, <1>5 DEF Inv

\* The invariant holds in every reachable state.
LEMMA Invariant == Spec => []Inv
<1>1. Inv /\ [Next]_vars => Inv'
  BY TypeStep, PlacesStep, OrderStep, TicketStep DEF Inv
<1> QED
  BY <1>1, InitInv, PTL DEF Spec

\* No VM operation is lost or evaluated twice, and those of one priority are
\* evaluated in the order in which execute() added them, for any number of
\* requesters and any limit on the safepoint operations taken first.
THEOREM ExactlyOnceInOrderCorrect == Spec => []ExactlyOnceInOrder
<1>1. Inv => ExactlyOnceInOrder
  BY DEF Inv, Order, ExactlyOnceInOrder
<1> QED
  BY <1>1, Invariant, PTL

\* VMOperationQueue::oops_do reaches every operation that waits while another one is
\* evaluated at a safepoint.
THEOREM OopsReachedCorrect == Spec => []OopsReached
<1>1. ASSUME Inv PROVE OopsReached
  <2> SUFFICES ASSUME vmpc = "eval" PROVE Pending \ {cur} \subseteq OopsDo
    BY DEF OopsReached
  <2>1. cur # None /\ AtSafepoint(cur) /\ drain_list = safepoint_ops /\ cur \in Ops
    BY <1>1 DEF Inv, Places, TypeOK
  <2>2. /\ safepoint_ops \in Seq(Ops) /\ <<cur>> \in Seq(Ops)
        /\ queue["safepoint"] \in Seq(Ops) /\ queue["medium"] \in Seq(Ops)
    BY <1>1, <2>1 DEF Inv, TypeOK, Priorities
  <2>3. pending["safepoint"] = <<cur>> \o (safepoint_ops \o queue["safepoint"])
    BY <1>1, <2>1 DEF Inv, Order, Held, Priorities, Priority
  <2>4. pending["medium"] = <<>> \o (<<>> \o queue["medium"])
    BY <1>1, <2>1 DEF Inv, Order, Held, Priorities, Priority
  <2>5. pending["medium"] = queue["medium"]
    BY <2>2, <2>4, ConcatEmptySeq
  <2>6. safepoint_ops \o queue["safepoint"] \in Seq(Ops)
    BY <2>2, ConcatProperties
  <2>7. Range(safepoint_ops \o queue["safepoint"]) = Range(safepoint_ops) \cup Range(queue["safepoint"])
    BY <2>2, RangeConcatenation
  <2> DEFINE behind == safepoint_ops \o queue["safepoint"]
  <2> HIDE DEF behind
  <2>8. Range(pending["safepoint"]) = Range(<<cur>>) \cup Range(behind)
    <3>1. behind \in Seq(Ops) /\ pending["safepoint"] = <<cur>> \o behind
      BY <2>3, <2>6 DEF behind
    <3>2. Range(<<cur>> \o behind) = Range(<<cur>>) \cup Range(behind)
      BY <2>2, <3>1, RangeConcatenation, ZenonT(40)
    <3> QED
      BY <3>1, <3>2
  <2>9. Range(<<cur>>) = {cur}
    BY DEF Range
  <2> QED
    BY <2>1, <2>5, <2>7, <2>8, <2>9 DEF Pending, OopsDo, behind
<1> QED
  BY <1>1, Invariant, PTL

\* execute() does not return before a non-concurrent operation was evaluated.
THEOREM ReturnsAfterEvaluationCorrect == Spec => []ReturnsAfterEvaluation
<1>1. ASSUME Inv PROVE ReturnsAfterEvaluation
  <2> SUFFICES ASSUME NEW r \in Requesters, NEW m \in AllModes, pc[r] = "idle",
                      <<r, m>> \in Pending, ~Concurrently(m)
               PROVE  FALSE
    BY DEF ReturnsAfterEvaluation
  <2>1. PICK p \in Priorities : <<r, m>> \in Range(pending[p])
    BY DEF Pending, Priorities
  <2>2. pending[p] \in Seq(Ops)
    BY <1>1 DEF Inv, TypeOK
  <2>3. PICK i \in 1..Len(pending[p]) : pending[p][i] = <<r, m>>
    BY <2>1, <2>2 DEF Range
  <2>4. Waits(pending[p][i]) /\ pending[p][i][1] = r
    BY <2>3 DEF Waits
  <2> QED
    BY <1>1, <2>4 DEF Inv, Tickets
<1> QED
  BY <1>1, Invariant, PTL

=============================================================================
