--------------------- MODULE ObjectSynchronizerProofs ---------------------
(***************************************************************************)
(* Proofs about ObjectSynchronizer, second part: the steps on the mark     *)
(* word, inflation, deflation, the hash code and the calls keep the        *)
(* invariant of ObjectMonitorProofs; hence MutualExclusion, HashStable and *)
(* MonitorsAccounted, for every set of threads, every number of monitors   *)
(* and hash codes, every depth of nesting, and all programs whose locks    *)
(* and unlocks are paired.  Last, that the steps inside a monitor that     *)
(* move no thread from a list to another keep the invariant of the queues. *)
(***************************************************************************)
EXTENDS ObjectMonitorProofs

-----------------------------------------------------------------------------
(* Interrupts, and the unlocks that look at the mark *)

\* What is known of any thread.
LEMMA OfThread ==
  ASSUME Inv, NEW t \in Threads
  PROVE  /\ loc[t] \in LocRec /\ Control(t) /\ Depths(t) /\ Depth(t) \in Nat /\ Counted(t)
         /\ pc[t] \in Labels /\ mon[t] \in Monitors \cup {None}
BY DEF Inv, Typing, ThreadInv, Depth

\* A step of t that touches its locals only.
LEMMA Stays ==
  ASSUME Inv, NEW t \in Threads, NEW l \in Labels, Go(t, l), UNCHANGED <<loc, om, node>>
  PROVE  Shape(t) /\ pc'[t] = l /\ loc'[t] = loc[t]
BY DEF Inv, Typing, Shape, Go

\* A step of t that touches its label and locals only.
LEMMA Goes ==
  ASSUME Inv, NEW t \in Threads, NEW l \in Labels, NEW k \in LocRec, Go(t, l),
         loc' = [loc EXCEPT ![t] = k], UNCHANGED <<om, node>>
  PROVE  Shape(t) /\ pc'[t] = l /\ loc'[t] = k
BY DEF Inv, Typing, Shape, Go

\* The labels inflate() returns to.
Targets == {"enter", "exit", "wait", "notify", "notifyAll", "hash_monitor"}

\* The labels inflate() returns to.
LEMMA TargetLabels == Targets \subseteq Labels \ (Inflation \cup Outside) /\ "inflate" \in Labels
BY DEF Targets, Labels, Outside, Spinning, Preparing, Inflation, Owned, Plain, Acquiring,
   Contending,
       Entering, Last_unlock, Unlocking, Last_exit, Exiting, Released, Unlocked, Waiting, Reentered

\* inflate() returns with the monitor of the object, or starts.
LEMMA InflateFacts ==
  ASSUME Inv, NEW t \in Threads, NEW label \in Targets, Inflate(t, label), UNCHANGED <<om, node>>
  PROVE  /\ Shape(t) /\ pc'[t] \in {label, "inflate"} /\ Where(t)' = label
         /\ (pc'[t] = "inflate" => loc'[t].then = label)
         /\ loc'[t].inwait = loc[t].inwait /\ loc'[t].save = loc[t].save
         /\ loc'[t].spin = loc[t].spin
         /\ mon' \in [Threads -> Monitors \cup {None}]
         /\ (\A u \in Threads \ {t} : mon'[u] = mon[u])
         /\ (pc'[t] \notin Outside => mark = Inflated(mon'[t]))
<1>1. loc[t] \in LocRec /\ label \in Labels /\ label \notin Inflation /\ label # "clearing"
      /\ "inflate" \in Labels /\ mon \in [Threads -> Monitors \cup {None}]
  BY TargetLabels, OfThread DEF Targets, Inv, Typing
<1>2. CASE mark.kind = "inflated"
  <2>1. Go(t, label) /\ mon' = [mon EXCEPT ![t] = mark.monitor] /\ UNCHANGED loc
    BY <1>2 DEF Inflate
  <2>2. Shape(t) /\ pc'[t] = label /\ loc'[t] = loc[t]
    BY <1>1, <2>1, Stays
  <2>3. Where(t)' = label
    BY <1>1, <2>2 DEF Where
  <2>4. mark.monitor \in Monitors /\ mark = Inflated(mark.monitor)
    BY <1>2, MarkCases, MarkFacts DEF Inv
  <2>5. label # "inflate"
    BY <1>1 DEF Inflation
  <2> QED
    BY <1>1, <2>1, <2>2, <2>3, <2>4, <2>5
<1>3. CASE mark.kind # "inflated"
  <2> DEFINE k == [loc[t] EXCEPT !.then = label]
  <2>1. Go(t, "inflate") /\ loc' = [loc EXCEPT ![t] = k] /\ UNCHANGED mon
    BY <1>3 DEF Inflate
  <2>2. k \in LocRec /\ k.inwait = loc[t].inwait /\ k.save = loc[t].save /\ k.spin = loc[t].spin
        /\ k.then = label
    BY <1>1, ThenLoc
  <2> HIDE DEF k
  <2>3. Shape(t) /\ pc'[t] = "inflate" /\ loc'[t] = k
    BY <1>1, <2>1, <2>2, Goes
  <2>4. Where(t)' = label
    BY <2>2, <2>3 DEF Where, Inflation
  <2>5. "inflate" \in Outside
    BY DEF Outside
  <2> QED
    BY <1>1, <2>1, <2>2, <2>3, <2>4, <2>5
<1> QED
  BY <1>2, <1>3

\* A quiet step of t outside of the monitor.
LEMMA PlainStep ==
  ASSUME Inv, NEW t \in Threads, Shape(t), om' = om, mon' \in [Threads -> Monitors \cup {None}],
         \A u \in Threads \ {t} : mon'[u] = mon[u],
         UNCHANGED <<mark, boxes, held, seen, free, gFreeList, blocks, hashes>>,
         todo' \in [Threads -> Seq(Calls)], pc[t] \notin Preparing,
         pc'[t] \notin Preparing \cup {"omAlloc"},
         pc'[t] \notin Outside => mark = Inflated(mon'[t]), Quiet(t),
         Unboxed(t)' => Unboxed(t) \/ ~om[mark.monitor].box
  PROVE  Inv'
<1>1. Typing'
  BY DEF Typing, Inv, Shape
<1>2. \A m \in Monitors : CoreSame(om'[m], om[m])
  BY NoField
<1> QED
  BY <1>1, <1>2, QuietKeeps DEF Inv

\* A lock that was recursive is released inside another.
LEMMA RecursiveExit ==
  ASSUME Inv, NEW t \in Threads, pc[t] = "fast_exit", boxes[t][Depth(t) + 1] = Recursive
  PROVE  Depth(t) > 0
<1>1. Control(t) /\ Counted(t) /\ Depth(t) \in Nat
  BY OfThread
<1>2. Where(t) = "fast_exit" /\ ~loc[t].inwait
  BY <1>1 DEF Where, Control, Unlocking, Inflation, Preparing
<1>3. Has(t) /\ ~Extra(t) /\ ~Trying(t)
  BY <1>2 DEF Has, Extra, Trying, Acquiring, Contending, Spinning, Unlocking
<1>4. 1 \in Reals(t)
  BY <1>1, <1>3 DEF Counted
<1> QED
  BY <1>1, <1>3, <1>4 DEF Reals, Top

\* The mark of an inflated object.
LEMMA MarkAt ==
  ASSUME Inv, mark.kind = "inflated"
  PROVE  mark.monitor \in Monitors /\ mark = Inflated(mark.monitor)
BY MarkCases, MarkFacts DEF Inv

\* Interrupt sets the flag.
LEMMA Interrupt_setKeeps ==
  ASSUME Inv, NEW t \in Threads, Interrupt_set(t), UNCHANGED objectVars
  PROVE  Inv'
<1>1. pc[t] = "interrupt" /\ pc[t] \notin Preparing
  BY DEF Interrupt_set, Preparing
<1>2. loc[t] \in LocRec /\ Control(t) /\ Depths(t) /\ Depth(t) \in Nat
  BY OfThread
<1>3. "interrupt_unpark" \in Labels
  BY <1>1, <1>2 DEF Labels, Control, Spinning, Preparing, Inflation, Owned, Plain, Acquiring,
     Contending, Entering, Last_unlock, Unlocking, Last_exit, Exiting, Released, Unlocked,
     Waiting, Reentered
<1>4. /\ Shape(t) /\ pc'[t] = "interrupt_unpark" /\ loc'[t].then = loc[t].then
      /\ loc'[t].inwait = loc[t].inwait /\ loc'[t].save = loc[t].save
      /\ mon' \in [Threads -> Monitors \cup {None}]
      /\ (\A u \in Threads \ {t} : mon'[u] = mon[u])
      /\ (pc'[t] \notin Outside => mark = Inflated(mon'[t]))
  <2>1. Go(t, "interrupt_unpark") /\ UNCHANGED <<om, node>>
    BY <1>1, <1>2 DEF Interrupt_set, Hash_return, Call
  <2>2. UNCHANGED loc
    BY <1>1, <1>2 DEF Interrupt_set
  <2>4. Shape(t) /\ pc'[t] = "interrupt_unpark" /\ loc'[t] = loc[t]
    BY <1>1, <1>2, <1>3, <2>1, <2>2, Stays
  <2>5. /\ mon' \in [Threads -> Monitors \cup {None}]
        /\ (\A u \in Threads \ {t} : mon'[u] = mon[u])
        /\ ("interrupt_unpark" \notin Outside => mark = Inflated(mon'[t]))
    BY <1>1, <1>2, OfThread DEF Interrupt_set, Outside, Inv, Typing
  <2> QED
    BY <2>4, <2>5
<1>5. /\ UNCHANGED <<om, mark, boxes, held, seen, free, gFreeList, blocks, hashes>>
      /\ todo' \in [Threads -> Seq(Calls)]
  BY <1>1, <1>2 DEF Interrupt_set, objectVars, Inv, Typing, Hash_return
<1>6. Control(t)'
  BY <1>1, <1>2, <1>4, <1>5 DEF Control, Spinning, Preparing, Inflation, Owned, Plain,
     Acquiring, Contending, Entering, Last_unlock, Unlocking, Last_exit, Exiting, Released,
     Unlocked, Waiting, Reentered
<1>7. Depths(t)'
  BY <1>1, <1>2, <1>4, <1>5 DEF Control, Depths, Trying, Extra, Has, InEnterI, Where,
     Releasing, Unboxed, Top, Real, Depth, Spinning, Preparing, Inflation, Owned, Plain,
     Acquiring, Contending, Entering, Last_unlock, Unlocking, Last_exit, Exiting, Released,
     Unlocked, Waiting, Reentered
<1>8. /\ (Trying(t)' <=> Trying(t)) /\ (Extra(t)' <=> Extra(t))
      /\ (Has(t)' <=> Has(t)) /\ (InEnterI(t)' <=> InEnterI(t))
      /\ (Unboxed(t)' => Unboxed(t)) /\ pc'[t] \notin Preparing \cup {"omAlloc"}
  BY <1>1, <1>2, <1>4, <1>5 DEF Control, Depths, Trying, Extra, Has, InEnterI, Where,
     Releasing, Unboxed, Top, Real, Depth, Spinning, Preparing, Inflation, Owned, Plain,
     Acquiring, Contending, Entering, Last_unlock, Unlocking, Last_exit, Exiting, Released,
     Unlocked, Waiting, Reentered
<1>9. Quiet(t)
  BY <1>4, <1>6, <1>7, <1>8 DEF Quiet
<1> QED
  BY <1>1, <1>4, <1>5, <1>8, <1>9, PlainStep

\* Interrupt unparks its target.
LEMMA Interrupt_unparkKeeps ==
  ASSUME Inv, NEW t \in Threads, Interrupt_unpark(t), UNCHANGED objectVars
  PROVE  Inv'
<1>1. pc[t] = "interrupt_unpark" /\ pc[t] \notin Preparing
  BY DEF Interrupt_unpark, Preparing
<1>2. loc[t] \in LocRec /\ Control(t) /\ Depths(t) /\ Depth(t) \in Nat
  BY OfThread
<1>3. "java" \in Labels
  BY <1>1, <1>2 DEF Labels, Control, Spinning, Preparing, Inflation, Owned, Plain, Acquiring,
     Contending, Entering, Last_unlock, Unlocking, Last_exit, Exiting, Released, Unlocked,
     Waiting, Reentered
<1>4. /\ Shape(t) /\ pc'[t] = "java" /\ loc'[t].then = loc[t].then
      /\ loc'[t].inwait = loc[t].inwait /\ loc'[t].save = loc[t].save
      /\ mon' \in [Threads -> Monitors \cup {None}]
      /\ (\A u \in Threads \ {t} : mon'[u] = mon[u])
      /\ (pc'[t] \notin Outside => mark = Inflated(mon'[t]))
  <2>1. Go(t, "java") /\ UNCHANGED <<om, node>>
    BY <1>1, <1>2 DEF Interrupt_unpark, Hash_return, Call
  <2> DEFINE k == [loc[t] EXCEPT !.target = None]
  <2>2. /\ k \in LocRec /\ k.inwait = loc[t].inwait /\ k.save = loc[t].save /\ k.then = loc[t].then
    BY <1>1, <1>2, TargetLoc DEF NT
  <2>3. loc' = [loc EXCEPT ![t] = k]
    BY <1>1, <1>2 DEF Interrupt_unpark
  <2> HIDE DEF k
  <2>4. Shape(t) /\ pc'[t] = "java" /\ loc'[t] = k
    BY <1>1, <1>2, <1>3, <2>1, <2>2, <2>3, Goes
  <2>5. /\ mon' \in [Threads -> Monitors \cup {None}]
        /\ (\A u \in Threads \ {t} : mon'[u] = mon[u])
        /\ ("java" \notin Outside => mark = Inflated(mon'[t]))
    BY <1>1, <1>2, OfThread DEF Interrupt_unpark, Outside, Inv, Typing
  <2> QED
    BY <2>2, <2>4, <2>5
<1>5. /\ UNCHANGED <<om, mark, boxes, held, seen, free, gFreeList, blocks, hashes>>
      /\ todo' \in [Threads -> Seq(Calls)]
  BY <1>1, <1>2 DEF Interrupt_unpark, objectVars, Inv, Typing, Hash_return
<1>6. Control(t)'
  BY <1>1, <1>2, <1>4, <1>5 DEF Control, Spinning, Preparing, Inflation, Owned, Plain,
     Acquiring, Contending, Entering, Last_unlock, Unlocking, Last_exit, Exiting, Released,
     Unlocked, Waiting, Reentered
<1>7. Depths(t)'
  BY <1>1, <1>2, <1>4, <1>5 DEF Control, Depths, Trying, Extra, Has, InEnterI, Where,
     Releasing, Unboxed, Top, Real, Depth, Spinning, Preparing, Inflation, Owned, Plain,
     Acquiring, Contending, Entering, Last_unlock, Unlocking, Last_exit, Exiting, Released,
     Unlocked, Waiting, Reentered
<1>8. /\ (Trying(t)' <=> Trying(t)) /\ (Extra(t)' <=> Extra(t))
      /\ (Has(t)' <=> Has(t)) /\ (InEnterI(t)' <=> InEnterI(t))
      /\ (Unboxed(t)' => Unboxed(t)) /\ pc'[t] \notin Preparing \cup {"omAlloc"}
  BY <1>1, <1>2, <1>4, <1>5 DEF Control, Depths, Trying, Extra, Has, InEnterI, Where,
     Releasing, Unboxed, Top, Real, Depth, Spinning, Preparing, Inflation, Owned, Plain,
     Acquiring, Contending, Entering, Last_unlock, Unlocking, Last_exit, Exiting, Released,
     Unlocked, Waiting, Reentered
<1>9. Quiet(t)
  BY <1>4, <1>6, <1>7, <1>8 DEF Quiet
<1> QED
  BY <1>1, <1>4, <1>5, <1>8, <1>9, PlainStep

\* Inflate finds the object inflated.
LEMMA Inflate_inflatedKeeps ==
  ASSUME Inv, NEW t \in Threads, Inflate_inflated(t)
  PROVE  Inv'
<1>1. pc[t] = "inflate" /\ pc[t] \notin Preparing /\ mark.kind = "inflated"
  BY DEF Inflate_inflated, Preparing
<1>2. loc[t] \in LocRec /\ Control(t) /\ Depths(t) /\ Depth(t) \in Nat
  BY OfThread
<1>3. loc[t].then \in Labels
  BY <1>1, <1>2 DEF Labels, Control, Spinning, Preparing, Inflation, Owned, Plain, Acquiring,
     Contending, Entering, Last_unlock, Unlocking, Last_exit, Exiting, Released, Unlocked,
     Waiting, Reentered
<1>4. /\ Shape(t) /\ pc'[t] = loc[t].then /\ loc'[t].then = None
      /\ loc'[t].inwait = loc[t].inwait /\ loc'[t].save = loc[t].save
      /\ mon' \in [Threads -> Monitors \cup {None}]
      /\ (\A u \in Threads \ {t} : mon'[u] = mon[u])
      /\ (pc'[t] \notin Outside => mark = Inflated(mon'[t]))
  <2>1. Go(t, loc[t].then) /\ UNCHANGED <<om, node>>
    BY <1>1, <1>2 DEF Inflate_inflated, Hash_return, Call, Inflate_return
  <2> DEFINE k == [loc[t] EXCEPT !.then = None]
  <2>2. /\ k \in LocRec /\ k.inwait = loc[t].inwait /\ k.save = loc[t].save /\ k.then = None
    BY <1>1, <1>2, ThenLoc DEF NT
  <2>3. loc' = [loc EXCEPT ![t] = k]
    BY <1>1, <1>2 DEF Inflate_inflated, Inflate_return
  <2> HIDE DEF k
  <2>4. Shape(t) /\ pc'[t] = loc[t].then /\ loc'[t] = k
    BY <1>1, <1>2, <1>3, <2>1, <2>2, <2>3, Goes
  <2>5. /\ mon' \in [Threads -> Monitors \cup {None}]
        /\ (\A u \in Threads \ {t} : mon'[u] = mon[u])
        /\ (loc[t].then \notin Outside => mark = Inflated(mon'[t]))
    BY <1>1, <1>2, MarkAt DEF Inflate_inflated, Outside, Inv, Typing, Inflate_return
  <2> QED
    BY <2>2, <2>4, <2>5
<1>5. /\ UNCHANGED <<om, mark, boxes, held, seen, free, gFreeList, blocks, hashes>>
      /\ todo' \in [Threads -> Seq(Calls)]
  BY <1>1, <1>2 DEF Inflate_inflated, objectVars, Inv, Typing, Hash_return, Inflate_return
<1>6. Control(t)'
  BY <1>1, <1>2, <1>4, <1>5 DEF Control, Spinning, Preparing, Inflation, Owned, Plain,
     Acquiring, Contending, Entering, Last_unlock, Unlocking, Last_exit, Exiting, Released,
     Unlocked, Waiting, Reentered
<1>7. Depths(t)'
  BY <1>1, <1>2, <1>4, <1>5 DEF Control, Depths, Trying, Extra, Has, InEnterI, Where,
     Releasing, Unboxed, Top, Real, Depth, Spinning, Preparing, Inflation, Owned, Plain,
     Acquiring, Contending, Entering, Last_unlock, Unlocking, Last_exit, Exiting, Released,
     Unlocked, Waiting, Reentered
<1>8. /\ (Trying(t)' <=> Trying(t)) /\ (Extra(t)' <=> Extra(t))
      /\ (Has(t)' <=> Has(t)) /\ (InEnterI(t)' <=> InEnterI(t))
      /\ (Unboxed(t)' => Unboxed(t)) /\ pc'[t] \notin Preparing \cup {"omAlloc"}
  BY <1>1, <1>2, <1>4, <1>5 DEF Control, Depths, Trying, Extra, Has, InEnterI, Where,
     Releasing, Unboxed, Top, Real, Depth, Spinning, Preparing, Inflation, Owned, Plain,
     Acquiring, Contending, Entering, Last_unlock, Unlocking, Last_exit, Exiting, Released,
     Unlocked, Waiting, Reentered
<1>9. Quiet(t)
  BY <1>4, <1>6, <1>7, <1>8 DEF Quiet
<1> QED
  BY <1>1, <1>4, <1>5, <1>8, <1>9, PlainStep

\* Fast_exit looks at the box and at the mark.
LEMMA Fast_exitKeeps ==
  ASSUME Inv, NEW t \in Threads, Fast_exit(t)
  PROVE  Inv'
<1>1. pc[t] = "fast_exit" /\ pc[t] \notin Preparing
  BY DEF Fast_exit, Preparing, ExitBox, Depth
<1>2. loc[t] \in LocRec /\ Control(t) /\ Depths(t) /\ Depth(t) \in Nat
  BY OfThread
<1>3. boxes[t][Depth(t) + 1] = Recursive => Depth(t) > 0
  BY <1>1, <1>2, RecursiveExit
<1>4. CASE boxes[t][Depth(t) + 1] = Recursive
  <2>1. "java" \in Labels
    BY <1>1, <1>2, <1>3, <1>4 DEF Labels, Control, Spinning, Preparing, Inflation, Owned,
       Plain, Acquiring, Contending, Entering, Last_unlock, Unlocking, Last_exit, Exiting,
       Released, Unlocked, Waiting, Reentered
  <2>2. /\ Shape(t) /\ pc'[t] = "java" /\ loc'[t].then = loc[t].then
        /\ loc'[t].inwait = loc[t].inwait /\ loc'[t].save = loc[t].save
        /\ mon' \in [Threads -> Monitors \cup {None}]
        /\ (\A u \in Threads \ {t} : mon'[u] = mon[u])
        /\ (pc'[t] \notin Outside => mark = Inflated(mon'[t]))
    <3>1. Go(t, "java") /\ UNCHANGED <<om, node>>
      BY <1>1, <1>2, <1>3, <1>4 DEF Fast_exit, Hash_return, Call, ExitBox, Depth
    <3>2. UNCHANGED loc
      BY <1>1, <1>2, <1>3, <1>4 DEF Fast_exit, ExitBox, Depth
    <3>4. Shape(t) /\ pc'[t] = "java" /\ loc'[t] = loc[t]
      BY <1>1, <1>2, <1>3, <1>4, <2>1, <3>1, <3>2, Stays
    <3>5. /\ mon' \in [Threads -> Monitors \cup {None}]
          /\ (\A u \in Threads \ {t} : mon'[u] = mon[u])
          /\ ("java" \notin Outside => mark = Inflated(mon'[t]))
      BY <1>1, <1>2, <1>3, <1>4, OfThread DEF Fast_exit, Outside, Inv, Typing, ExitBox, Depth
    <3> QED
      BY <3>4, <3>5
  <2>3. /\ UNCHANGED <<om, mark, boxes, held, seen, free, gFreeList, blocks, hashes>>
        /\ todo' \in [Threads -> Seq(Calls)]
    BY <1>1, <1>2, <1>3, <1>4 DEF Fast_exit, objectVars, Inv, Typing, Hash_return, ExitBox,
       Depth
  <2>4. Control(t)'
    BY <1>1, <1>2, <1>3, <1>4, <2>2, <2>3 DEF Control, Spinning, Preparing, Inflation, Owned,
       Plain, Acquiring, Contending, Entering, Last_unlock, Unlocking, Last_exit, Exiting,
       Released, Unlocked, Waiting, Reentered
  <2>5. Depths(t)'
    BY <1>1, <1>2, <1>3, <1>4, <2>2, <2>3 DEF Control, Depths, Trying, Extra, Has, InEnterI,
       Where, Releasing, Unboxed, Top, Real, Depth, Spinning, Preparing, Inflation, Owned,
       Plain, Acquiring, Contending, Entering, Last_unlock, Unlocking, Last_exit, Exiting,
       Released, Unlocked, Waiting, Reentered
  <2>6. /\ (Trying(t)' <=> Trying(t)) /\ (Extra(t)' <=> Extra(t))
        /\ (Has(t)' <=> Has(t)) /\ (InEnterI(t)' <=> InEnterI(t))
        /\ (Unboxed(t)' => Unboxed(t)) /\ pc'[t] \notin Preparing \cup {"omAlloc"}
    BY <1>1, <1>2, <1>3, <1>4, <2>2, <2>3 DEF Control, Depths, Trying, Extra, Has, InEnterI,
       Where, Releasing, Unboxed, Top, Real, Depth, Spinning, Preparing, Inflation, Owned,
       Plain, Acquiring, Contending, Entering, Last_unlock, Unlocking, Last_exit, Exiting,
       Released, Unlocked, Waiting, Reentered
  <2>7. Quiet(t)
    BY <2>2, <2>4, <2>5, <2>6 DEF Quiet
  <2> QED
    BY <1>1, <2>2, <2>3, <2>6, <2>7, PlainStep
<1>5. CASE boxes[t][Depth(t) + 1] # Recursive /\ mark = Stack(t, Depth(t) + 1)
  <2>1. "stack_unlock" \in Labels
    BY <1>1, <1>2, <1>3, <1>5 DEF Labels, Control, Spinning, Preparing, Inflation, Owned,
       Plain, Acquiring, Contending, Entering, Last_unlock, Unlocking, Last_exit, Exiting,
       Released, Unlocked, Waiting, Reentered
  <2>2. /\ Shape(t) /\ pc'[t] = "stack_unlock" /\ loc'[t].then = loc[t].then
        /\ loc'[t].inwait = loc[t].inwait /\ loc'[t].save = loc[t].save
        /\ mon' \in [Threads -> Monitors \cup {None}]
        /\ (\A u \in Threads \ {t} : mon'[u] = mon[u])
        /\ (pc'[t] \notin Outside => mark = Inflated(mon'[t]))
    <3>1. Go(t, "stack_unlock") /\ UNCHANGED <<om, node>>
      BY <1>1, <1>2, <1>3, <1>5 DEF Fast_exit, Hash_return, Call, ExitBox, Depth
    <3>2. UNCHANGED loc
      BY <1>1, <1>2, <1>3, <1>5 DEF Fast_exit, ExitBox, Depth
    <3>4. Shape(t) /\ pc'[t] = "stack_unlock" /\ loc'[t] = loc[t]
      BY <1>1, <1>2, <1>3, <1>5, <2>1, <3>1, <3>2, Stays
    <3>5. /\ mon' \in [Threads -> Monitors \cup {None}]
          /\ (\A u \in Threads \ {t} : mon'[u] = mon[u])
          /\ ("stack_unlock" \notin Outside => mark = Inflated(mon'[t]))
      BY <1>1, <1>2, <1>3, <1>5, OfThread DEF Fast_exit, Outside, Inv, Typing, ExitBox, Depth
    <3> QED
      BY <3>4, <3>5
  <2>3. /\ UNCHANGED <<om, mark, boxes, held, seen, free, gFreeList, blocks, hashes>>
        /\ todo' \in [Threads -> Seq(Calls)]
    BY <1>1, <1>2, <1>3, <1>5 DEF Fast_exit, objectVars, Inv, Typing, Hash_return, ExitBox,
       Depth
  <2>4. Control(t)'
    BY <1>1, <1>2, <1>3, <1>5, <2>2, <2>3 DEF Control, Spinning, Preparing, Inflation, Owned,
       Plain, Acquiring, Contending, Entering, Last_unlock, Unlocking, Last_exit, Exiting,
       Released, Unlocked, Waiting, Reentered
  <2>5. Depths(t)'
    BY <1>1, <1>2, <1>3, <1>5, <2>2, <2>3 DEF Control, Depths, Trying, Extra, Has, InEnterI,
       Where, Releasing, Unboxed, Top, Real, Depth, Spinning, Preparing, Inflation, Owned,
       Plain, Acquiring, Contending, Entering, Last_unlock, Unlocking, Last_exit, Exiting,
       Released, Unlocked, Waiting, Reentered
  <2>6. /\ (Trying(t)' <=> Trying(t)) /\ (Extra(t)' <=> Extra(t))
        /\ (Has(t)' <=> Has(t)) /\ (InEnterI(t)' <=> InEnterI(t))
        /\ (Unboxed(t)' => Unboxed(t)) /\ pc'[t] \notin Preparing \cup {"omAlloc"}
    BY <1>1, <1>2, <1>3, <1>5, <2>2, <2>3 DEF Control, Depths, Trying, Extra, Has, InEnterI,
       Where, Releasing, Unboxed, Top, Real, Depth, Spinning, Preparing, Inflation, Owned,
       Plain, Acquiring, Contending, Entering, Last_unlock, Unlocking, Last_exit, Exiting,
       Released, Unlocked, Waiting, Reentered
  <2>7. Quiet(t)
    BY <2>2, <2>4, <2>5, <2>6 DEF Quiet
  <2> QED
    BY <1>1, <2>2, <2>3, <2>6, <2>7, PlainStep
<1>6. CASE boxes[t][Depth(t) + 1] # Recursive /\ mark # Stack(t, Depth(t) + 1)
  <2>1. Inflate(t, "exit") /\ "exit" \in Targets /\ UNCHANGED <<om, node>>
    BY <1>1, <1>2, <1>3, <1>6 DEF Fast_exit, Targets, Hash_return, Call, ExitBox, Depth
  <2>2. /\ Shape(t) /\ pc'[t] \in {"exit", "inflate"}
        /\ (pc'[t] = "inflate" => loc'[t].then = "exit")
        /\ loc'[t].inwait = loc[t].inwait /\ loc'[t].save = loc[t].save
        /\ mon' \in [Threads -> Monitors \cup {None}]
        /\ (\A u \in Threads \ {t} : mon'[u] = mon[u])
        /\ (pc'[t] \notin Outside => mark = Inflated(mon'[t]))
    BY <2>1, InflateFacts
  <2>3. /\ UNCHANGED <<om, mark, boxes, held, seen, free, gFreeList, blocks, hashes>>
        /\ todo' \in [Threads -> Seq(Calls)]
    BY <1>1, <1>2, <1>3, <1>6 DEF Fast_exit, objectVars, Inv, Typing, Hash_return, ExitBox,
       Depth
  <2>4. Control(t)'
    BY <1>1, <1>2, <1>3, <1>6, <2>2, <2>3 DEF Control, Spinning, Preparing, Inflation, Owned,
       Plain, Acquiring, Contending, Entering, Last_unlock, Unlocking, Last_exit, Exiting,
       Released, Unlocked, Waiting, Reentered
  <2>5. Depths(t)'
    BY <1>1, <1>2, <1>3, <1>6, <2>2, <2>3 DEF Control, Depths, Trying, Extra, Has, InEnterI,
       Where, Releasing, Unboxed, Top, Real, Depth, Spinning, Preparing, Inflation, Owned,
       Plain, Acquiring, Contending, Entering, Last_unlock, Unlocking, Last_exit, Exiting,
       Released, Unlocked, Waiting, Reentered
  <2>6. /\ (Trying(t)' <=> Trying(t)) /\ (Extra(t)' <=> Extra(t))
        /\ (Has(t)' <=> Has(t)) /\ (InEnterI(t)' <=> InEnterI(t))
        /\ (Unboxed(t)' => Unboxed(t)) /\ pc'[t] \notin Preparing \cup {"omAlloc"}
    BY <1>1, <1>2, <1>3, <1>6, <2>2, <2>3 DEF Control, Depths, Trying, Extra, Has, InEnterI,
       Where, Releasing, Unboxed, Top, Real, Depth, Spinning, Preparing, Inflation, Owned,
       Plain, Acquiring, Contending, Entering, Last_unlock, Unlocking, Last_exit, Exiting,
       Released, Unlocked, Waiting, Reentered
  <2>7. Quiet(t)
    BY <2>2, <2>4, <2>5, <2>6 DEF Quiet
  <2> QED
    BY <1>1, <2>2, <2>3, <2>6, <2>7, PlainStep
<1> QED
  BY <1>1, <1>4, <1>5, <1>6 DEF Fast_exit, ExitBox, Depth

\* Compiled code looks at the mark and at the box.
LEMMA Compiled_unlockKeeps ==
  ASSUME Inv, NEW t \in Threads, Compiled_unlock(t)
  PROVE  Inv'
<1>1. pc[t] = "compiled_unlock" /\ pc[t] \notin Preparing
  BY DEF Compiled_unlock, Preparing, ExitBox, Depth
<1>2. loc[t] \in LocRec /\ Control(t) /\ Depths(t) /\ Depth(t) \in Nat
  BY OfThread
<1>3. CASE mark.kind = "inflated" /\ boxes[t][Depth(t) + 1] # Recursive
  <2>1. "unlock" \in Labels
    BY <1>1, <1>2, <1>3 DEF Labels, Control, Spinning, Preparing, Inflation, Owned, Plain,
       Acquiring, Contending, Entering, Last_unlock, Unlocking, Last_exit, Exiting, Released,
       Unlocked, Waiting, Reentered
  <2>2. /\ Shape(t) /\ pc'[t] = "unlock" /\ loc'[t].then = loc[t].then
        /\ loc'[t].inwait = loc[t].inwait /\ loc'[t].save = loc[t].save
        /\ mon' \in [Threads -> Monitors \cup {None}]
        /\ (\A u \in Threads \ {t} : mon'[u] = mon[u])
        /\ (pc'[t] \notin Outside => mark = Inflated(mon'[t]))
    <3>1. Go(t, "unlock") /\ UNCHANGED <<om, node>>
      BY <1>1, <1>2, <1>3 DEF Compiled_unlock, Hash_return, Call, ExitBox, Depth
    <3>2. UNCHANGED loc
      BY <1>1, <1>2, <1>3 DEF Compiled_unlock, ExitBox, Depth
    <3>4. Shape(t) /\ pc'[t] = "unlock" /\ loc'[t] = loc[t]
      BY <1>1, <1>2, <1>3, <2>1, <3>1, <3>2, Stays
    <3>5. /\ mon' \in [Threads -> Monitors \cup {None}]
          /\ (\A u \in Threads \ {t} : mon'[u] = mon[u])
          /\ ("unlock" \notin Outside => mark = Inflated(mon'[t]))
      BY <1>1, <1>2, <1>3, MarkAt DEF Compiled_unlock, Outside, Inv, Typing, ExitBox, Depth
    <3> QED
      BY <3>4, <3>5
  <2>3. /\ UNCHANGED <<om, mark, boxes, held, seen, free, gFreeList, blocks, hashes>>
        /\ todo' \in [Threads -> Seq(Calls)]
    BY <1>1, <1>2, <1>3 DEF Compiled_unlock, objectVars, Inv, Typing, Hash_return, ExitBox,
       Depth
  <2>4. Control(t)'
    BY <1>1, <1>2, <1>3, <2>2, <2>3 DEF Control, Spinning, Preparing, Inflation, Owned, Plain,
       Acquiring, Contending, Entering, Last_unlock, Unlocking, Last_exit, Exiting, Released,
       Unlocked, Waiting, Reentered
  <2>5. Depths(t)'
    BY <1>1, <1>2, <1>3, <2>2, <2>3 DEF Control, Depths, Trying, Extra, Has, InEnterI, Where,
       Releasing, Unboxed, Top, Real, Depth, Spinning, Preparing, Inflation, Owned, Plain,
       Acquiring, Contending, Entering, Last_unlock, Unlocking, Last_exit, Exiting, Released,
       Unlocked, Waiting, Reentered
  <2>6. /\ (Trying(t)' <=> Trying(t)) /\ (Extra(t)' <=> Extra(t))
        /\ (Has(t)' <=> Has(t)) /\ (InEnterI(t)' <=> InEnterI(t))
        /\ (Unboxed(t)' => Unboxed(t)) /\ pc'[t] \notin Preparing \cup {"omAlloc"}
    BY <1>1, <1>2, <1>3, <2>2, <2>3 DEF Control, Depths, Trying, Extra, Has, InEnterI, Where,
       Releasing, Unboxed, Top, Real, Depth, Spinning, Preparing, Inflation, Owned, Plain,
       Acquiring, Contending, Entering, Last_unlock, Unlocking, Last_exit, Exiting, Released,
       Unlocked, Waiting, Reentered
  <2>7. Quiet(t)
    BY <2>2, <2>4, <2>5, <2>6 DEF Quiet
  <2> QED
    BY <1>1, <2>2, <2>3, <2>6, <2>7, PlainStep
<1>4. CASE mark.kind # "inflated" \/ boxes[t][Depth(t) + 1] = Recursive
  <2>1. "fast_exit" \in Labels
    BY <1>1, <1>2, <1>4 DEF Labels, Control, Spinning, Preparing, Inflation, Owned, Plain,
       Acquiring, Contending, Entering, Last_unlock, Unlocking, Last_exit, Exiting, Released,
       Unlocked, Waiting, Reentered
  <2>2. /\ Shape(t) /\ pc'[t] = "fast_exit" /\ loc'[t].then = loc[t].then
        /\ loc'[t].inwait = loc[t].inwait /\ loc'[t].save = loc[t].save
        /\ mon' \in [Threads -> Monitors \cup {None}]
        /\ (\A u \in Threads \ {t} : mon'[u] = mon[u])
        /\ (pc'[t] \notin Outside => mark = Inflated(mon'[t]))
    <3>1. Go(t, "fast_exit") /\ UNCHANGED <<om, node>>
      BY <1>1, <1>2, <1>4 DEF Compiled_unlock, Hash_return, Call, ExitBox, Depth
    <3>2. UNCHANGED loc
      BY <1>1, <1>2, <1>4 DEF Compiled_unlock, ExitBox, Depth
    <3>4. Shape(t) /\ pc'[t] = "fast_exit" /\ loc'[t] = loc[t]
      BY <1>1, <1>2, <1>4, <2>1, <3>1, <3>2, Stays
    <3>5. /\ mon' \in [Threads -> Monitors \cup {None}]
          /\ (\A u \in Threads \ {t} : mon'[u] = mon[u])
          /\ ("fast_exit" \notin Outside => mark = Inflated(mon'[t]))
      BY <1>1, <1>2, <1>4, OfThread DEF Compiled_unlock, Outside, Inv, Typing, ExitBox, Depth
    <3> QED
      BY <3>4, <3>5
  <2>3. /\ UNCHANGED <<om, mark, boxes, held, seen, free, gFreeList, blocks, hashes>>
        /\ todo' \in [Threads -> Seq(Calls)]
    BY <1>1, <1>2, <1>4 DEF Compiled_unlock, objectVars, Inv, Typing, Hash_return, ExitBox,
       Depth
  <2>4. Control(t)'
    BY <1>1, <1>2, <1>4, <2>2, <2>3 DEF Control, Spinning, Preparing, Inflation, Owned, Plain,
       Acquiring, Contending, Entering, Last_unlock, Unlocking, Last_exit, Exiting, Released,
       Unlocked, Waiting, Reentered
  <2>5. Depths(t)'
    BY <1>1, <1>2, <1>4, <2>2, <2>3 DEF Control, Depths, Trying, Extra, Has, InEnterI, Where,
       Releasing, Unboxed, Top, Real, Depth, Spinning, Preparing, Inflation, Owned, Plain,
       Acquiring, Contending, Entering, Last_unlock, Unlocking, Last_exit, Exiting, Released,
       Unlocked, Waiting, Reentered
  <2>6. /\ (Trying(t)' <=> Trying(t)) /\ (Extra(t)' <=> Extra(t))
        /\ (Has(t)' <=> Has(t)) /\ (InEnterI(t)' <=> InEnterI(t))
        /\ (Unboxed(t)' => Unboxed(t)) /\ pc'[t] \notin Preparing \cup {"omAlloc"}
    BY <1>1, <1>2, <1>4, <2>2, <2>3 DEF Control, Depths, Trying, Extra, Has, InEnterI, Where,
       Releasing, Unboxed, Top, Real, Depth, Spinning, Preparing, Inflation, Owned, Plain,
       Acquiring, Contending, Entering, Last_unlock, Unlocking, Last_exit, Exiting, Released,
       Unlocked, Waiting, Reentered
  <2>7. Quiet(t)
    BY <2>2, <2>4, <2>5, <2>6 DEF Quiet
  <2> QED
    BY <1>1, <2>2, <2>3, <2>6, <2>7, PlainStep
<1> QED
  BY <1>1, <1>3, <1>4 DEF Compiled_unlock, ExitBox, Depth

-----------------------------------------------------------------------------
(* The calls that lock nothing, and FastHashCode *)

\* The next call of a thread fits the locks it has, and the rest of its
\* program the locks after it.
LEMMA NextCall ==
  ASSUME Inv, NestInv, NEW t \in Threads, todo[t] # <<>>
  PROVE  /\ First(todo[t]) \in Calls /\ Tail(todo[t]) \in Seq(Calls)
         /\ \E nest \in Seq(Seq({"java", "jni"})) :
              /\ Structured(First(todo[t]), held[t], nest[1])
              /\ Nested(Tail(todo[t]), nest) /\ nest[1] \in Seq({"java", "jni"})
<1> DEFINE p == todo[t]
           D == Seq({"java", "jni"})
<1>1. p \in Seq(Calls) /\ p # <<>>
  BY DEF Inv, Typing
<1>2. PICK nest \in Seq(D) : Nested(p, nest) /\ nest[1] = held[t]
  BY DEF NestInv
<1> HIDE DEF p, D
<1>3. Len(p) \in Nat /\ Len(p) >= 1 /\ Len(nest) = Len(p) + 1
  BY <1>1, <1>2 DEF Nested
<1>4. Structured(p[1], held[t], nest[2])
  BY <1>2, <1>3 DEF Nested
<1> DEFINE rest == Tail(nest)
<1>5. /\ rest \in Seq(D) /\ Len(rest) = Len(p) /\ (\A i \in 1..Len(p) : rest[i] = nest[i + 1])
  BY <1>2, <1>3
<1>6. /\ Tail(p) \in Seq(Calls) /\ Len(Tail(p)) = Len(p) - 1
      /\ (\A i \in 1..(Len(p) - 1) : Tail(p)[i] = p[i + 1])
  BY <1>1, <1>3
<1> HIDE DEF rest
<1>7. ASSUME NEW i \in 1..(Len(p) - 1) PROVE Structured(Tail(p)[i], rest[i], rest[i + 1])
  <2>1. i + 1 \in 1..Len(p) /\ i \in 1..Len(p) BY <1>3
  <2>2. Structured(p[i + 1], nest[i + 1], nest[i + 1 + 1])
    BY <1>2, <2>1 DEF Nested
  <2> QED BY <1>5, <1>6, <2>1, <2>2
<1>8. Nested(Tail(p), rest)
  BY <1>3, <1>5, <1>6, <1>7 DEF Nested
<1>9. rest[1] = nest[2] /\ rest[1] \in D
  BY <1>3, <1>5
<1>10. First(p) = p[1] /\ p[1] \in Calls
  BY <1>1, <1>3 DEF First
<1> QED
  BY <1>4, <1>5, <1>6, <1>8, <1>9, <1>10 DEF p, D
\* BEGIN GEN
\* A call leaves the program with the locks it should leave.
LEMMA CallFacts ==
  ASSUME Inv, NestInv, NEW t \in Threads, NEW op, Call(t, op)
  PROVE  /\ pc[t] = "java" /\ First(todo[t]) \in Calls /\ First(todo[t]).op = op
         /\ todo' \in [Threads -> Seq(Calls)]
         /\ \E after \in Seq({"java", "jni"}) :
              /\ Structured(First(todo[t]), held[t], after)
              /\ held' = [held EXCEPT ![t] = after] => NestInv'
<1>1. todo[t] # <<>> /\ pc[t] = "java" /\ First(todo[t]).op = op
      /\ todo' = [todo EXCEPT ![t] = Tail(todo[t])]
  BY DEF Call
<1>2. PICK nest \in Seq(Seq({"java", "jni"})) :
         /\ Structured(First(todo[t]), held[t], nest[1])
         /\ Nested(Tail(todo[t]), nest) /\ nest[1] \in Seq({"java", "jni"})
  BY <1>1, NextCall
<1>3. First(todo[t]) \in Calls /\ Tail(todo[t]) \in Seq(Calls)
  BY <1>1, NextCall
<1>4. /\ todo' \in [Threads -> Seq(Calls)] /\ todo'[t] = Tail(todo[t])
      /\ (\A u \in Threads \ {t} : todo'[u] = todo[u])
  BY <1>1, <1>3 DEF Inv, Typing
<1>5. ASSUME held' = [held EXCEPT ![t] = nest[1]] PROVE NestInv'
  <2>1. held'[t] = nest[1] /\ (\A u \in Threads \ {t} : held'[u] = held[u])
    BY <1>5 DEF Inv, Typing
  <2>2. ASSUME NEW u \in Threads
        PROVE  \E n \in Seq(Seq({"java", "jni"})) : Nested(todo'[u], n) /\ n[1] = held'[u]
    <3>1. CASE u = t
      BY <1>2, <1>4, <2>1, <3>1
    <3>2. CASE u # t
      BY <1>4, <2>1, <3>2 DEF NestInv
    <3> QED BY <3>1, <3>2
  <2> QED
    BY <2>2 DEF NestInv, Nested, Structured
<1> QED
  BY <1>1, <1>2, <1>3, <1>4, <1>5

\* A call that leaves the locks as they are.
LEMMA CallQuiet ==
  ASSUME Inv, NestInv, NEW t \in Threads, NEW op, Call(t, op), held' = held,
         op \in {"wait", "timed_wait", "notify", "notifyAll", "hash", "interrupt", "omFlush"}
  PROVE  /\ NestInv' /\ pc[t] = "java" /\ todo' \in [Threads -> Seq(Calls)]
         /\ (op \in {"wait", "timed_wait", "notify", "notifyAll"} => Depth(t) > 0)
         /\ (op = "interrupt" => First(todo[t]).target \in Threads)
<1>1. PICK after \in Seq({"java", "jni"}) :
              /\ Structured(First(todo[t]), held[t], after)
              /\ held' = [held EXCEPT ![t] = after] => NestInv'
  BY CallFacts
<1>2. pc[t] = "java" /\ First(todo[t]).op = op /\ todo' \in [Threads -> Seq(Calls)]
  BY CallFacts
<1>3. /\ after = held[t]
      /\ (op \in {"wait", "timed_wait", "notify", "notifyAll"} => Depth(t) > 0)
      /\ (op = "interrupt" => First(todo[t]).target \in Threads)
  BY <1>1, <1>2 DEF Structured, Depth
<1>4. held' = [held EXCEPT ![t] = after]
  BY <1>3 DEF Inv, Typing
<1> QED
  BY <1>1, <1>2, <1>3, <1>4

\* A call of hashCode.
LEMMA Call_hashKeeps ==
  ASSUME Inv, NEW t \in Threads, Call_hash(t), NestInv
  PROVE  Inv'
<1>1. pc[t] = "java" /\ pc[t] \notin Preparing
  BY DEF Call_hash, Preparing, Call
<1>2. loc[t] \in LocRec /\ Control(t) /\ Depths(t) /\ Depth(t) \in Nat
  BY OfThread
<1>3. "FastHashCode" \in Labels
  BY <1>1, <1>2 DEF Labels, Control, Spinning, Preparing, Inflation, Owned, Plain, Acquiring,
     Contending, Entering, Last_unlock, Unlocking, Last_exit, Exiting, Released, Unlocked,
     Waiting, Reentered
<1>4. /\ Shape(t) /\ pc'[t] = "FastHashCode" /\ loc'[t].then = loc[t].then
      /\ loc'[t].inwait = loc[t].inwait /\ loc'[t].save = loc[t].save
      /\ mon' \in [Threads -> Monitors \cup {None}]
      /\ (\A u \in Threads \ {t} : mon'[u] = mon[u])
      /\ (pc'[t] \notin Outside => mark = Inflated(mon'[t]))
  <2>1. Go(t, "FastHashCode") /\ UNCHANGED <<om, node>>
    BY <1>1, <1>2 DEF Call_hash, Hash_return, Call, Call
  <2>2. UNCHANGED loc
    BY <1>1, <1>2 DEF Call_hash, Call
  <2>4. Shape(t) /\ pc'[t] = "FastHashCode" /\ loc'[t] = loc[t]
    BY <1>1, <1>2, <1>3, <2>1, <2>2, Stays
  <2>5. /\ mon' \in [Threads -> Monitors \cup {None}]
        /\ (\A u \in Threads \ {t} : mon'[u] = mon[u])
        /\ ("FastHashCode" \notin Outside => mark = Inflated(mon'[t]))
    BY <1>1, <1>2, OfThread DEF Call_hash, Outside, Inv, Typing, Call
  <2> QED
    BY <2>4, <2>5
<1>5. /\ UNCHANGED <<om, mark, boxes, held, seen, free, gFreeList, blocks, hashes>>
      /\ todo' \in [Threads -> Seq(Calls)]
  BY <1>1, <1>2, CallFacts DEF Call_hash, objectVars, Hash_return, Call
<1>6. Control(t)'
  BY <1>1, <1>2, <1>4, <1>5 DEF Control, Spinning, Preparing, Inflation, Owned, Plain,
     Acquiring, Contending, Entering, Last_unlock, Unlocking, Last_exit, Exiting, Released,
     Unlocked, Waiting, Reentered
<1>7. Depths(t)'
  BY <1>1, <1>2, <1>4, <1>5 DEF Control, Depths, Trying, Extra, Has, InEnterI, Where,
     Releasing, Unboxed, Top, Real, Depth, Spinning, Preparing, Inflation, Owned, Plain,
     Acquiring, Contending, Entering, Last_unlock, Unlocking, Last_exit, Exiting, Released,
     Unlocked, Waiting, Reentered
<1>8. /\ (Trying(t)' <=> Trying(t)) /\ (Extra(t)' <=> Extra(t))
      /\ (Has(t)' <=> Has(t)) /\ (InEnterI(t)' <=> InEnterI(t))
      /\ (Unboxed(t)' => Unboxed(t)) /\ pc'[t] \notin Preparing \cup {"omAlloc"}
  BY <1>1, <1>2, <1>4, <1>5 DEF Control, Depths, Trying, Extra, Has, InEnterI, Where,
     Releasing, Unboxed, Top, Real, Depth, Spinning, Preparing, Inflation, Owned, Plain,
     Acquiring, Contending, Entering, Last_unlock, Unlocking, Last_exit, Exiting, Released,
     Unlocked, Waiting, Reentered
<1>9. Quiet(t)
  BY <1>4, <1>6, <1>7, <1>8 DEF Quiet
<1> QED
  BY <1>1, <1>4, <1>5, <1>8, <1>9, PlainStep

\* A call of interrupt.
LEMMA Call_interruptKeeps ==
  ASSUME Inv, NEW t \in Threads, Call_interrupt(t), NestInv
  PROVE  Inv'
<1>1. pc[t] = "java" /\ pc[t] \notin Preparing /\ Call(t, "interrupt") /\ held' = held
  BY DEF Call_interrupt, Preparing, Call
<1>2. loc[t] \in LocRec /\ Control(t) /\ Depths(t) /\ Depth(t) \in Nat
  BY OfThread
<1>3. First(todo[t]).target \in Threads
  BY <1>1, <1>2, CallQuiet
<1>4. "interrupt" \in Labels
  BY <1>1, <1>2, <1>3 DEF Labels, Control, Spinning, Preparing, Inflation, Owned, Plain,
     Acquiring, Contending, Entering, Last_unlock, Unlocking, Last_exit, Exiting, Released,
     Unlocked, Waiting, Reentered
<1>5. /\ Shape(t) /\ pc'[t] = "interrupt" /\ loc'[t].then = loc[t].then
      /\ loc'[t].inwait = loc[t].inwait /\ loc'[t].save = loc[t].save
      /\ mon' \in [Threads -> Monitors \cup {None}]
      /\ (\A u \in Threads \ {t} : mon'[u] = mon[u])
      /\ (pc'[t] \notin Outside => mark = Inflated(mon'[t]))
  <2>1. Go(t, "interrupt") /\ UNCHANGED <<om, node>>
    BY <1>1, <1>2, <1>3 DEF Call_interrupt, Hash_return, Call, Call
  <2> DEFINE k == [loc[t] EXCEPT !.target = First(todo[t]).target]
  <2>2. /\ k \in LocRec /\ k.inwait = loc[t].inwait /\ k.save = loc[t].save /\ k.then = loc[t].then
    BY <1>1, <1>2, <1>3, TargetLoc DEF NT
  <2>3. loc' = [loc EXCEPT ![t] = k]
    BY <1>1, <1>2, <1>3 DEF Call_interrupt, Call
  <2> HIDE DEF k
  <2>4. Shape(t) /\ pc'[t] = "interrupt" /\ loc'[t] = k
    BY <1>1, <1>2, <1>3, <1>4, <2>1, <2>2, <2>3, Goes
  <2>5. /\ mon' \in [Threads -> Monitors \cup {None}]
        /\ (\A u \in Threads \ {t} : mon'[u] = mon[u])
        /\ ("interrupt" \notin Outside => mark = Inflated(mon'[t]))
    BY <1>1, <1>2, <1>3, OfThread DEF Call_interrupt, Outside, Inv, Typing, Call
  <2> QED
    BY <2>2, <2>4, <2>5
<1>6. /\ UNCHANGED <<om, mark, boxes, held, seen, free, gFreeList, blocks, hashes>>
      /\ todo' \in [Threads -> Seq(Calls)]
  BY <1>1, <1>2, <1>3, CallFacts DEF Call_interrupt, objectVars, Hash_return, Call
<1>7. Control(t)'
  BY <1>1, <1>2, <1>3, <1>5, <1>6 DEF Control, Spinning, Preparing, Inflation, Owned, Plain,
     Acquiring, Contending, Entering, Last_unlock, Unlocking, Last_exit, Exiting, Released,
     Unlocked, Waiting, Reentered
<1>8. Depths(t)'
  BY <1>1, <1>2, <1>3, <1>5, <1>6 DEF Control, Depths, Trying, Extra, Has, InEnterI, Where,
     Releasing, Unboxed, Top, Real, Depth, Spinning, Preparing, Inflation, Owned, Plain,
     Acquiring, Contending, Entering, Last_unlock, Unlocking, Last_exit, Exiting, Released,
     Unlocked, Waiting, Reentered
<1>9. /\ (Trying(t)' <=> Trying(t)) /\ (Extra(t)' <=> Extra(t))
      /\ (Has(t)' <=> Has(t)) /\ (InEnterI(t)' <=> InEnterI(t))
      /\ (Unboxed(t)' => Unboxed(t)) /\ pc'[t] \notin Preparing \cup {"omAlloc"}
  BY <1>1, <1>2, <1>3, <1>5, <1>6 DEF Control, Depths, Trying, Extra, Has, InEnterI, Where,
     Releasing, Unboxed, Top, Real, Depth, Spinning, Preparing, Inflation, Owned, Plain,
     Acquiring, Contending, Entering, Last_unlock, Unlocking, Last_exit, Exiting, Released,
     Unlocked, Waiting, Reentered
<1>10. Quiet(t)
  BY <1>5, <1>7, <1>8, <1>9 DEF Quiet
<1> QED
  BY <1>1, <1>5, <1>6, <1>9, <1>10, PlainStep

\* The label of wait() is one.
LEMMA WaitLabel == "wait" \in Labels
BY DEF Labels, Plain, Owned

\* A thread that works on a monitor works on the one of the mark.
LEMMA UseMark ==
  ASSUME Inv, NEW t \in Threads, pc[t] = "hash_monitor"
  PROVE  mark = Inflated(mon[t])
BY DEF Inv, UseInv, Outside

\* wait() is called with the lock.
LEMMA WaitFacts ==
  ASSUME Inv, NestInv, NEW t \in Threads, NEW timed \in BOOLEAN, Call_wait(t),
         Call(t, IF timed THEN "timed_wait" ELSE "wait")
  PROVE  Depth(t) > 0 /\ NestInv' /\ todo' \in [Threads -> Seq(Calls)]
BY CallQuiet DEF Call_wait

\* notify() and notifyAll() are called with the lock.
LEMMA NotifyFacts ==
  ASSUME Inv, NestInv, NEW t \in Threads, NEW op \in {"notify", "notifyAll"}, Call_notify(t), Call(t, op)
  PROVE  Depth(t) > 0 /\ NestInv' /\ todo' \in [Threads -> Seq(Calls)]
BY CallQuiet DEF Call_notify

\* The CAS of fast_exit fails: the object was inflated under the stack lock.
LEMMA Stack_unlockFails ==
  ASSUME Inv, NEW t \in Threads, Stack_unlock(t), mark # Stack(t, ExitBox(t))
  PROVE  Inv'
<1>1. pc[t] = "stack_unlock" /\ pc[t] \notin Preparing
  BY DEF Stack_unlock, Preparing
<1>2. loc[t] \in LocRec /\ Control(t) /\ Depths(t) /\ Depth(t) \in Nat
  BY OfThread
<1>3. Inflate(t, "exit") /\ "exit" \in Targets /\ UNCHANGED <<om, node>>
  BY <1>1, <1>2 DEF Stack_unlock, Targets, Hash_return, Call
<1>4. /\ Shape(t) /\ pc'[t] \in {"exit", "inflate"}
      /\ (pc'[t] = "inflate" => loc'[t].then = "exit")
      /\ loc'[t].inwait = loc[t].inwait /\ loc'[t].save = loc[t].save
      /\ mon' \in [Threads -> Monitors \cup {None}]
      /\ (\A u \in Threads \ {t} : mon'[u] = mon[u])
      /\ (pc'[t] \notin Outside => mark = Inflated(mon'[t]))
  BY <1>3, InflateFacts
<1>5. /\ UNCHANGED <<om, mark, boxes, held, seen, free, gFreeList, blocks, hashes>>
      /\ todo' \in [Threads -> Seq(Calls)]
  BY <1>1, <1>2 DEF Stack_unlock, objectVars, Inv, Typing, Hash_return
<1>6. Control(t)'
  BY <1>1, <1>2, <1>4, <1>5 DEF Control, Spinning, Preparing, Inflation, Owned, Plain,
     Acquiring, Contending, Entering, Last_unlock, Unlocking, Last_exit, Exiting, Released,
     Unlocked, Waiting, Reentered
<1>7. Depths(t)'
  BY <1>1, <1>2, <1>4, <1>5 DEF Control, Depths, Trying, Extra, Has, InEnterI, Where,
     Releasing, Unboxed, Top, Real, Depth, Spinning, Preparing, Inflation, Owned, Plain,
     Acquiring, Contending, Entering, Last_unlock, Unlocking, Last_exit, Exiting, Released,
     Unlocked, Waiting, Reentered
<1>8. /\ (Trying(t)' <=> Trying(t)) /\ (Extra(t)' <=> Extra(t))
      /\ (Has(t)' <=> Has(t)) /\ (InEnterI(t)' <=> InEnterI(t))
      /\ (Unboxed(t)' => Unboxed(t)) /\ pc'[t] \notin Preparing \cup {"omAlloc"}
  BY <1>1, <1>2, <1>4, <1>5 DEF Control, Depths, Trying, Extra, Has, InEnterI, Where,
     Releasing, Unboxed, Top, Real, Depth, Spinning, Preparing, Inflation, Owned, Plain,
     Acquiring, Contending, Entering, Last_unlock, Unlocking, Last_exit, Exiting, Released,
     Unlocked, Waiting, Reentered
<1>9. Quiet(t)
  BY <1>4, <1>6, <1>7, <1>8 DEF Quiet
<1> QED
  BY <1>1, <1>4, <1>5, <1>8, <1>9, PlainStep

\* The CAS of FastHashCode on the mark fails.
LEMMA Hash_markFails ==
  ASSUME Inv, NEW t \in Threads, Hash_mark(t), mark # Neutral(0)
  PROVE  Inv'
<1>1. pc[t] = "hash_mark" /\ pc[t] \notin Preparing
  BY DEF Hash_mark, Preparing
<1>2. loc[t] \in LocRec /\ Control(t) /\ Depths(t) /\ Depth(t) \in Nat
  BY OfThread
<1>3. Inflate(t, "hash_monitor") /\ "hash_monitor" \in Targets /\ UNCHANGED <<om, node>>
  BY <1>1, <1>2 DEF Hash_mark, Targets, Hash_return, Call
<1>4. /\ Shape(t) /\ pc'[t] \in {"hash_monitor", "inflate"}
      /\ (pc'[t] = "inflate" => loc'[t].then = "hash_monitor")
      /\ loc'[t].inwait = loc[t].inwait /\ loc'[t].save = loc[t].save
      /\ mon' \in [Threads -> Monitors \cup {None}]
      /\ (\A u \in Threads \ {t} : mon'[u] = mon[u])
      /\ (pc'[t] \notin Outside => mark = Inflated(mon'[t]))
  BY <1>3, InflateFacts
<1>5. /\ UNCHANGED <<om, mark, boxes, held, seen, free, gFreeList, blocks, hashes>>
      /\ todo' \in [Threads -> Seq(Calls)]
  BY <1>1, <1>2 DEF Hash_mark, objectVars, Inv, Typing, Hash_return
<1>6. Control(t)'
  BY <1>1, <1>2, <1>4, <1>5 DEF Control, Spinning, Preparing, Inflation, Owned, Plain,
     Acquiring, Contending, Entering, Last_unlock, Unlocking, Last_exit, Exiting, Released,
     Unlocked, Waiting, Reentered
<1>7. Depths(t)'
  BY <1>1, <1>2, <1>4, <1>5 DEF Control, Depths, Trying, Extra, Has, InEnterI, Where,
     Releasing, Unboxed, Top, Real, Depth, Spinning, Preparing, Inflation, Owned, Plain,
     Acquiring, Contending, Entering, Last_unlock, Unlocking, Last_exit, Exiting, Released,
     Unlocked, Waiting, Reentered
<1>8. /\ (Trying(t)' <=> Trying(t)) /\ (Extra(t)' <=> Extra(t))
      /\ (Has(t)' <=> Has(t)) /\ (InEnterI(t)' <=> InEnterI(t))
      /\ (Unboxed(t)' => Unboxed(t)) /\ pc'[t] \notin Preparing \cup {"omAlloc"}
  BY <1>1, <1>2, <1>4, <1>5 DEF Control, Depths, Trying, Extra, Has, InEnterI, Where,
     Releasing, Unboxed, Top, Real, Depth, Spinning, Preparing, Inflation, Owned, Plain,
     Acquiring, Contending, Entering, Last_unlock, Unlocking, Last_exit, Exiting, Released,
     Unlocked, Waiting, Reentered
<1>9. Quiet(t)
  BY <1>4, <1>6, <1>7, <1>8 DEF Quiet
<1> QED
  BY <1>1, <1>4, <1>5, <1>8, <1>9, PlainStep

\* FastHashCode finds no hash code in the header of the monitor.
LEMMA Hash_monitorUnhashed ==
  ASSUME Inv, NEW t \in Threads, Hash_monitor(t), this(t).header.hash = 0
  PROVE  Inv'
<1>1. pc[t] = "hash_monitor" /\ pc[t] \notin Preparing
  BY DEF Hash_monitor, Preparing
<1>2. loc[t] \in LocRec /\ Control(t) /\ Depths(t) /\ Depth(t) \in Nat
  BY OfThread
<1>3. "hash_header" \in Labels
  BY <1>1, <1>2 DEF Labels, Control, Spinning, Preparing, Inflation, Owned, Plain, Acquiring,
     Contending, Entering, Last_unlock, Unlocking, Last_exit, Exiting, Released, Unlocked,
     Waiting, Reentered
<1>4. /\ Shape(t) /\ pc'[t] = "hash_header" /\ loc'[t].then = loc[t].then
      /\ loc'[t].inwait = loc[t].inwait /\ loc'[t].save = loc[t].save
      /\ mon' \in [Threads -> Monitors \cup {None}]
      /\ (\A u \in Threads \ {t} : mon'[u] = mon[u])
      /\ (pc'[t] \notin Outside => mark = Inflated(mon'[t]))
  <2>1. Go(t, "hash_header") /\ UNCHANGED <<om, node>>
    BY <1>1, <1>2 DEF Hash_monitor, Hash_return, Call
  <2>2. UNCHANGED loc
    BY <1>1, <1>2 DEF Hash_monitor
  <2>4. Shape(t) /\ pc'[t] = "hash_header" /\ loc'[t] = loc[t]
    BY <1>1, <1>2, <1>3, <2>1, <2>2, Stays
  <2>5. /\ mon' \in [Threads -> Monitors \cup {None}]
        /\ (\A u \in Threads \ {t} : mon'[u] = mon[u])
        /\ ("hash_header" \notin Outside => mark = Inflated(mon'[t]))
    BY <1>1, <1>2, UseMark DEF Hash_monitor, Outside, Inv, Typing
  <2> QED
    BY <2>4, <2>5
<1>5. /\ UNCHANGED <<om, mark, boxes, held, seen, free, gFreeList, blocks, hashes>>
      /\ todo' \in [Threads -> Seq(Calls)]
  BY <1>1, <1>2 DEF Hash_monitor, objectVars, Inv, Typing, Hash_return
<1>6. Control(t)'
  BY <1>1, <1>2, <1>4, <1>5 DEF Control, Spinning, Preparing, Inflation, Owned, Plain,
     Acquiring, Contending, Entering, Last_unlock, Unlocking, Last_exit, Exiting, Released,
     Unlocked, Waiting, Reentered
<1>7. Depths(t)'
  BY <1>1, <1>2, <1>4, <1>5 DEF Control, Depths, Trying, Extra, Has, InEnterI, Where,
     Releasing, Unboxed, Top, Real, Depth, Spinning, Preparing, Inflation, Owned, Plain,
     Acquiring, Contending, Entering, Last_unlock, Unlocking, Last_exit, Exiting, Released,
     Unlocked, Waiting, Reentered
<1>8. /\ (Trying(t)' <=> Trying(t)) /\ (Extra(t)' <=> Extra(t))
      /\ (Has(t)' <=> Has(t)) /\ (InEnterI(t)' <=> InEnterI(t))
      /\ (Unboxed(t)' => Unboxed(t)) /\ pc'[t] \notin Preparing \cup {"omAlloc"}
  BY <1>1, <1>2, <1>4, <1>5 DEF Control, Depths, Trying, Extra, Has, InEnterI, Where,
     Releasing, Unboxed, Top, Real, Depth, Spinning, Preparing, Inflation, Owned, Plain,
     Acquiring, Contending, Entering, Last_unlock, Unlocking, Last_exit, Exiting, Released,
     Unlocked, Waiting, Reentered
<1>9. Quiet(t)
  BY <1>4, <1>6, <1>7, <1>8 DEF Quiet
<1> QED
  BY <1>1, <1>4, <1>5, <1>8, <1>9, PlainStep

\* wait() inflates the object.
LEMMA Call_waitOnce ==
  ASSUME Inv, NEW t \in Threads, Call_wait(t), NestInv, NEW timed \in BOOLEAN,
         Call(t, IF timed THEN "timed_wait" ELSE "wait"),
         loc' = [loc EXCEPT ![t].timed = timed, ![t].then = "wait"]
  PROVE  Inv'
<1>1. pc[t] = "java" /\ pc[t] \notin Preparing
  BY DEF Call_wait, Preparing, Call
<1>2. loc[t] \in LocRec /\ Control(t) /\ Depths(t) /\ Depth(t) \in Nat
  BY OfThread
<1>3. Depth(t) > 0
  BY <1>1, <1>2, WaitFacts
<1>4. "inflate" \in Labels
  BY <1>1, <1>2, <1>3 DEF Labels, Control, Spinning, Preparing, Inflation, Owned, Plain,
     Acquiring, Contending, Entering, Last_unlock, Unlocking, Last_exit, Exiting, Released,
     Unlocked, Waiting, Reentered
<1>5. /\ Shape(t) /\ pc'[t] = "inflate" /\ loc'[t].then = "wait"
      /\ loc'[t].inwait = loc[t].inwait /\ loc'[t].save = loc[t].save
      /\ mon' \in [Threads -> Monitors \cup {None}]
      /\ (\A u \in Threads \ {t} : mon'[u] = mon[u])
      /\ (pc'[t] \notin Outside => mark = Inflated(mon'[t]))
  <2>1. Go(t, "inflate") /\ UNCHANGED <<om, node>>
    BY <1>1, <1>2, <1>3 DEF Call_wait, Hash_return, Call
  <2> DEFINE k == [loc[t] EXCEPT !.timed = timed, !.then = "wait"]
  <2>2. /\ k \in LocRec /\ k.inwait = loc[t].inwait /\ k.save = loc[t].save /\ k.then = "wait"
    BY <1>1, <1>2, <1>3, WaitLabel DEF NT, LocRec
  <2>3. loc' = [loc EXCEPT ![t] = k]
    BY <1>1, <1>2, <1>3 DEF Call_wait
  <2> HIDE DEF k
  <2>4. Shape(t) /\ pc'[t] = "inflate" /\ loc'[t] = k
    BY <1>1, <1>2, <1>3, <1>4, <2>1, <2>2, <2>3, Goes
  <2>5. /\ mon' \in [Threads -> Monitors \cup {None}]
        /\ (\A u \in Threads \ {t} : mon'[u] = mon[u])
        /\ ("inflate" \notin Outside => mark = Inflated(mon'[t]))
    BY <1>1, <1>2, <1>3, OfThread DEF Call_wait, Outside, Inv, Typing
  <2> QED
    BY <2>2, <2>4, <2>5
<1>6. /\ UNCHANGED <<om, mark, boxes, held, seen, free, gFreeList, blocks, hashes>>
      /\ todo' \in [Threads -> Seq(Calls)]
  BY <1>1, <1>2, <1>3, CallFacts DEF Call_wait, objectVars, Hash_return
<1>7. Control(t)'
  BY <1>1, <1>2, <1>3, <1>5, <1>6 DEF Control, Spinning, Preparing, Inflation, Owned, Plain,
     Acquiring, Contending, Entering, Last_unlock, Unlocking, Last_exit, Exiting, Released,
     Unlocked, Waiting, Reentered
<1>8. Depths(t)'
  BY <1>1, <1>2, <1>3, <1>5, <1>6 DEF Control, Depths, Trying, Extra, Has, InEnterI, Where,
     Releasing, Unboxed, Top, Real, Depth, Spinning, Preparing, Inflation, Owned, Plain,
     Acquiring, Contending, Entering, Last_unlock, Unlocking, Last_exit, Exiting, Released,
     Unlocked, Waiting, Reentered
<1>9. /\ (Trying(t)' <=> Trying(t)) /\ (Extra(t)' <=> Extra(t))
      /\ (Has(t)' <=> Has(t)) /\ (InEnterI(t)' <=> InEnterI(t))
      /\ (Unboxed(t)' => Unboxed(t)) /\ pc'[t] \notin Preparing \cup {"omAlloc"}
  BY <1>1, <1>2, <1>3, <1>5, <1>6 DEF Control, Depths, Trying, Extra, Has, InEnterI, Where,
     Releasing, Unboxed, Top, Real, Depth, Spinning, Preparing, Inflation, Owned, Plain,
     Acquiring, Contending, Entering, Last_unlock, Unlocking, Last_exit, Exiting, Released,
     Unlocked, Waiting, Reentered
<1>10. Quiet(t)
  BY <1>5, <1>7, <1>8, <1>9 DEF Quiet
<1> QED
  BY <1>1, <1>5, <1>6, <1>9, <1>10, PlainStep

\* notify() and notifyAll() inflate an object not locked on the stack.
LEMMA Call_notifyInflates ==
  ASSUME Inv, NEW t \in Threads, Call_notify(t), NestInv, NEW op \in {"notify", "notifyAll"},
         Call(t, op), Inflate(t, op)
  PROVE  Inv'
<1>1. pc[t] = "java" /\ pc[t] \notin Preparing
  BY DEF Call_notify, Preparing, Call
<1>2. loc[t] \in LocRec /\ Control(t) /\ Depths(t) /\ Depth(t) \in Nat
  BY OfThread
<1>3. Depth(t) > 0
  BY <1>1, <1>2, NotifyFacts
<1>4. Inflate(t, op) /\ op \in Targets /\ UNCHANGED <<om, node>>
  BY <1>1, <1>2, <1>3 DEF Call_notify, Targets, Hash_return, Call
<1>5. /\ Shape(t) /\ pc'[t] \in {op, "inflate"}
      /\ (pc'[t] = "inflate" => loc'[t].then = op)
      /\ loc'[t].inwait = loc[t].inwait /\ loc'[t].save = loc[t].save
      /\ mon' \in [Threads -> Monitors \cup {None}]
      /\ (\A u \in Threads \ {t} : mon'[u] = mon[u])
      /\ (pc'[t] \notin Outside => mark = Inflated(mon'[t]))
  BY <1>4, InflateFacts
<1>6. /\ UNCHANGED <<om, mark, boxes, held, seen, free, gFreeList, blocks, hashes>>
      /\ todo' \in [Threads -> Seq(Calls)]
  BY <1>1, <1>2, <1>3, CallFacts DEF Call_notify, objectVars, Hash_return
<1>7. Control(t)'
  BY <1>1, <1>2, <1>3, <1>5, <1>6 DEF Control, Spinning, Preparing, Inflation, Owned, Plain,
     Acquiring, Contending, Entering, Last_unlock, Unlocking, Last_exit, Exiting, Released,
     Unlocked, Waiting, Reentered
<1>8. Depths(t)'
  BY <1>1, <1>2, <1>3, <1>5, <1>6 DEF Control, Depths, Trying, Extra, Has, InEnterI, Where,
     Releasing, Unboxed, Top, Real, Depth, Spinning, Preparing, Inflation, Owned, Plain,
     Acquiring, Contending, Entering, Last_unlock, Unlocking, Last_exit, Exiting, Released,
     Unlocked, Waiting, Reentered
<1>9. /\ (Trying(t)' <=> Trying(t)) /\ (Extra(t)' <=> Extra(t))
      /\ (Has(t)' <=> Has(t)) /\ (InEnterI(t)' <=> InEnterI(t))
      /\ (Unboxed(t)' => Unboxed(t)) /\ pc'[t] \notin Preparing \cup {"omAlloc"}
  BY <1>1, <1>2, <1>3, <1>5, <1>6 DEF Control, Depths, Trying, Extra, Has, InEnterI, Where,
     Releasing, Unboxed, Top, Real, Depth, Spinning, Preparing, Inflation, Owned, Plain,
     Acquiring, Contending, Entering, Last_unlock, Unlocking, Last_exit, Exiting, Released,
     Unlocked, Waiting, Reentered
<1>10. Quiet(t)
  BY <1>5, <1>7, <1>8, <1>9 DEF Quiet
<1> QED
  BY <1>1, <1>5, <1>6, <1>9, <1>10, PlainStep

\* The object's header, wherever it is.
Header == IF mark.kind = "neutral" THEN mark
          ELSE IF mark.kind = "inflated" THEN om[mark.monitor].header
          ELSE boxes[mark.thread][1]

\* A hash code read from the header is the one returned before.
LEMMA HashAgrees ==
  ASSUME Inv, mark # INFLATING, Header.hash # 0, hashes' = hashes \cup {Header.hash},
         UNCHANGED <<mark, boxes, om>>, \A u \in Threads : Inflater(u)' <=> Inflater(u)
  PROVE  HeaderInv' /\ Header.hash \in Hashes
<1>1. \A u \in Threads : ~Inflater(u) /\ ~Inflater(u)'
  BY DEF Inv, InflateInv
<1>2. mark.kind \in {"neutral", "inflated", "stack"} /\ Agrees(Header)
  BY MarkCases DEF Inv, HeaderInv, Header
<1>3. Header.hash \in Hashes
  BY <1>2, MarkFacts DEF Agrees, Neutrals
<1>4. Header' = Header
  BY DEF Header
<1>5. Agrees(Header)'
  BY <1>2, <1>4 DEF Agrees
<1> QED
  BY <1>1, <1>2, <1>3, <1>5 DEF HeaderInv, Header

\* FastHashCode returns the hash code that is in the header.
LEMMA HashReturned ==
  ASSUME Inv, NEW t \in Threads, pc[t] \in {"FastHashCode", "hash_monitor", "hash_header"},
         mark # INFLATING, Header.hash # 0, Hash_return(t, Header.hash),
         UNCHANGED <<om, mon, node, loc, mark, boxes, held, seen, free, gFreeList, blocks, todo>>
  PROVE  Inv'
<1>1. pc[t] \notin Preparing /\ "java" \in Labels
  BY DEF Preparing, Labels, Plain
<1>2. loc[t] \in LocRec /\ Control(t) /\ Depths(t) /\ Depth(t) \in Nat
  BY OfThread
<1>3. Shape(t) /\ pc'[t] = "java" /\ loc'[t] = loc[t]
  BY <1>1, Stays DEF Hash_return
<1>4. Control(t)'
  BY <1>2, <1>3 DEF Control, Spinning, Preparing, Inflation, Owned, Plain, Acquiring,
     Contending, Entering, Last_unlock, Unlocking, Last_exit, Exiting, Released, Unlocked,
     Waiting, Reentered
<1>5. Depths(t)'
  BY <1>2, <1>3 DEF Control, Depths, Trying, Extra, Has, InEnterI, Where, Releasing, Unboxed,
     Top, Real, Depth, Spinning, Preparing, Inflation, Owned, Plain, Acquiring, Contending,
     Entering, Last_unlock, Unlocking, Last_exit, Exiting, Released, Unlocked, Waiting,
     Reentered
<1>6. /\ (Trying(t)' <=> Trying(t)) /\ (Extra(t)' <=> Extra(t))
      /\ (Has(t)' <=> Has(t)) /\ (InEnterI(t)' <=> InEnterI(t))
      /\ (Unboxed(t)' => Unboxed(t)) /\ pc'[t] \notin Preparing \cup {"omAlloc"}
  BY <1>2, <1>3 DEF Control, Depths, Trying, Extra, Has, InEnterI, Where, Releasing, Unboxed,
     Top, Real, Depth, Spinning, Preparing, Inflation, Owned, Plain, Acquiring, Contending,
     Entering, Last_unlock, Unlocking, Last_exit, Exiting, Released, Unlocked, Waiting,
     Reentered
<1>7. Quiet(t)
  BY <1>3, <1>4, <1>5, <1>6 DEF Quiet
<1>8. \A u \in Threads : Inflater(u)' <=> Inflater(u)
  BY <1>3 DEF Inflater, Shape
<1>9. HeaderInv' /\ Header.hash \in Hashes
  BY <1>8, HashAgrees DEF Hash_return
<1>10. Typing'
  BY <1>3, <1>9 DEF Typing, Inv, Shape, Hash_return
<1>11. \A m \in Monitors : CoreSame(om'[m], om[m])
  BY NoField
<1>12. pc'[t] \in Outside
  BY <1>3 DEF Outside
<1> QED
  BY <1>1, <1>3, <1>6, <1>7, <1>9, <1>10, <1>11, <1>12, QuietRest DEF Inv

\* FastHashCode goes on to the CAS of the mark.
LEMMA Hash_readTries ==
  ASSUME Inv, NEW t \in Threads, Hash_read(t), Go(t, "hash_mark"), UNCHANGED <<loc, mon, hashes>>
  PROVE  Inv'
<1>1. pc[t] = "FastHashCode" /\ pc[t] \notin Preparing
  BY DEF Hash_read, Preparing
<1>2. loc[t] \in LocRec /\ Control(t) /\ Depths(t) /\ Depth(t) \in Nat
  BY OfThread
<1>3. "hash_mark" \in Labels
  BY <1>1, <1>2 DEF Labels, Control, Spinning, Preparing, Inflation, Owned, Plain, Acquiring,
     Contending, Entering, Last_unlock, Unlocking, Last_exit, Exiting, Released, Unlocked,
     Waiting, Reentered
<1>4. /\ Shape(t) /\ pc'[t] = "hash_mark" /\ loc'[t].then = loc[t].then
      /\ loc'[t].inwait = loc[t].inwait /\ loc'[t].save = loc[t].save
      /\ mon' \in [Threads -> Monitors \cup {None}]
      /\ (\A u \in Threads \ {t} : mon'[u] = mon[u])
      /\ (pc'[t] \notin Outside => mark = Inflated(mon'[t]))
  <2>1. Go(t, "hash_mark") /\ UNCHANGED <<om, node>>
    BY <1>1, <1>2 DEF Hash_read, Hash_return, Call
  <2>2. UNCHANGED loc
    BY <1>1, <1>2 DEF Hash_read
  <2>4. Shape(t) /\ pc'[t] = "hash_mark" /\ loc'[t] = loc[t]
    BY <1>1, <1>2, <1>3, <2>1, <2>2, Stays
  <2>5. /\ mon' \in [Threads -> Monitors \cup {None}]
        /\ (\A u \in Threads \ {t} : mon'[u] = mon[u])
        /\ ("hash_mark" \notin Outside => mark = Inflated(mon'[t]))
    BY <1>1, <1>2, OfThread DEF Hash_read, Outside, Inv, Typing
  <2> QED
    BY <2>4, <2>5
<1>5. /\ UNCHANGED <<om, mark, boxes, held, seen, free, gFreeList, blocks, hashes>>
      /\ todo' \in [Threads -> Seq(Calls)]
  BY <1>1, <1>2 DEF Hash_read, objectVars, Inv, Typing, Hash_return
<1>6. Control(t)'
  BY <1>1, <1>2, <1>4, <1>5 DEF Control, Spinning, Preparing, Inflation, Owned, Plain,
     Acquiring, Contending, Entering, Last_unlock, Unlocking, Last_exit, Exiting, Released,
     Unlocked, Waiting, Reentered
<1>7. Depths(t)'
  BY <1>1, <1>2, <1>4, <1>5 DEF Control, Depths, Trying, Extra, Has, InEnterI, Where,
     Releasing, Unboxed, Top, Real, Depth, Spinning, Preparing, Inflation, Owned, Plain,
     Acquiring, Contending, Entering, Last_unlock, Unlocking, Last_exit, Exiting, Released,
     Unlocked, Waiting, Reentered
<1>8. /\ (Trying(t)' <=> Trying(t)) /\ (Extra(t)' <=> Extra(t))
      /\ (Has(t)' <=> Has(t)) /\ (InEnterI(t)' <=> InEnterI(t))
      /\ (Unboxed(t)' => Unboxed(t)) /\ pc'[t] \notin Preparing \cup {"omAlloc"}
  BY <1>1, <1>2, <1>4, <1>5 DEF Control, Depths, Trying, Extra, Has, InEnterI, Where,
     Releasing, Unboxed, Top, Real, Depth, Spinning, Preparing, Inflation, Owned, Plain,
     Acquiring, Contending, Entering, Last_unlock, Unlocking, Last_exit, Exiting, Released,
     Unlocked, Waiting, Reentered
<1>9. Quiet(t)
  BY <1>4, <1>6, <1>7, <1>8 DEF Quiet
<1> QED
  BY <1>1, <1>4, <1>5, <1>8, <1>9, PlainStep

\* FastHashCode goes on to inflate.
LEMMA Hash_readInflates ==
  ASSUME Inv, NEW t \in Threads, Hash_read(t), Inflate(t, "hash_monitor"), UNCHANGED hashes
  PROVE  Inv'
<1>1. pc[t] = "FastHashCode" /\ pc[t] \notin Preparing
  BY DEF Hash_read, Preparing
<1>2. loc[t] \in LocRec /\ Control(t) /\ Depths(t) /\ Depth(t) \in Nat
  BY OfThread
<1>3. Inflate(t, "hash_monitor") /\ "hash_monitor" \in Targets /\ UNCHANGED <<om, node>>
  BY <1>1, <1>2 DEF Hash_read, Targets, Hash_return, Call
<1>4. /\ Shape(t) /\ pc'[t] \in {"hash_monitor", "inflate"}
      /\ (pc'[t] = "inflate" => loc'[t].then = "hash_monitor")
      /\ loc'[t].inwait = loc[t].inwait /\ loc'[t].save = loc[t].save
      /\ mon' \in [Threads -> Monitors \cup {None}]
      /\ (\A u \in Threads \ {t} : mon'[u] = mon[u])
      /\ (pc'[t] \notin Outside => mark = Inflated(mon'[t]))
  BY <1>3, InflateFacts
<1>5. /\ UNCHANGED <<om, mark, boxes, held, seen, free, gFreeList, blocks, hashes>>
      /\ todo' \in [Threads -> Seq(Calls)]
  BY <1>1, <1>2 DEF Hash_read, objectVars, Inv, Typing, Hash_return
<1>6. Control(t)'
  BY <1>1, <1>2, <1>4, <1>5 DEF Control, Spinning, Preparing, Inflation, Owned, Plain,
     Acquiring, Contending, Entering, Last_unlock, Unlocking, Last_exit, Exiting, Released,
     Unlocked, Waiting, Reentered
<1>7. Depths(t)'
  BY <1>1, <1>2, <1>4, <1>5 DEF Control, Depths, Trying, Extra, Has, InEnterI, Where,
     Releasing, Unboxed, Top, Real, Depth, Spinning, Preparing, Inflation, Owned, Plain,
     Acquiring, Contending, Entering, Last_unlock, Unlocking, Last_exit, Exiting, Released,
     Unlocked, Waiting, Reentered
<1>8. /\ (Trying(t)' <=> Trying(t)) /\ (Extra(t)' <=> Extra(t))
      /\ (Has(t)' <=> Has(t)) /\ (InEnterI(t)' <=> InEnterI(t))
      /\ (Unboxed(t)' => Unboxed(t)) /\ pc'[t] \notin Preparing \cup {"omAlloc"}
  BY <1>1, <1>2, <1>4, <1>5 DEF Control, Depths, Trying, Extra, Has, InEnterI, Where,
     Releasing, Unboxed, Top, Real, Depth, Spinning, Preparing, Inflation, Owned, Plain,
     Acquiring, Contending, Entering, Last_unlock, Unlocking, Last_exit, Exiting, Released,
     Unlocked, Waiting, Reentered
<1>9. Quiet(t)
  BY <1>4, <1>6, <1>7, <1>8 DEF Quiet
<1> QED
  BY <1>1, <1>4, <1>5, <1>8, <1>9, PlainStep

\* FastHashCode reads the mark.
LEMMA Hash_readKeeps ==
  ASSUME Inv, NEW t \in Threads, Hash_read(t)
  PROVE  Inv'
<1> DEFINE header == IF mark.kind = "neutral" THEN mark
                     ELSE IF mark.kind = "inflated" THEN om[mark.monitor].header
                     ELSE IF Own(t) THEN boxes[t][mark.box] ELSE Neutral(0)
<1>1. CASE header.hash # 0 /\ Hash_return(t, header.hash) /\ UNCHANGED <<loc, mon>>
  <2>1. header = Header
    BY <1>1, MarkCases, MarkFacts DEF Hash_read, Header, Own, Inv
  <2> HIDE DEF header
  <2> QED
    BY <1>1, <2>1, HashReturned DEF Hash_read
<1>2. CASE mark.kind = "neutral" /\ Go(t, "hash_mark") /\ UNCHANGED <<loc, mon, hashes>>
  BY <1>2, Hash_readTries
<1>3. CASE mark.kind # "neutral" /\ Inflate(t, "hash_monitor") /\ UNCHANGED hashes
  BY <1>3, Hash_readInflates
<1> QED
  BY <1>1, <1>2, <1>3 DEF Hash_read

\* In FastHashCode, the header of the monitor is the header of the object.
LEMMA AtHeader ==
  ASSUME Inv, NEW t \in Threads, pc[t] \in {"hash_monitor", "hash_header"}
  PROVE  mark # INFLATING /\ this(t).header = Header /\ mon[t] \in Monitors
         /\ mark = Inflated(mon[t])
<1>1. mark = Inflated(mon[t])
  BY DEF Inv, UseInv, Outside
<1> QED
  BY <1>1, MarkCases, MarkFacts DEF this, Header, Inv

\* FastHashCode reads the header of the monitor.
LEMMA Hash_monitorKeeps ==
  ASSUME Inv, NEW t \in Threads, Hash_monitor(t)
  PROVE  Inv'
<1>1. CASE this(t).header.hash # 0
  BY <1>1, AtHeader, HashReturned DEF Hash_monitor
<1>2. CASE this(t).header.hash = 0
  BY <1>2, Hash_monitorUnhashed
<1> QED
  BY <1>1, <1>2

\* A call of wait.
LEMMA Call_waitKeeps ==
  ASSUME Inv, NestInv, NEW t \in Threads, Call_wait(t)
  PROVE  Inv' /\ NestInv'
<1>1. PICK timed \in BOOLEAN : /\ Call(t, IF timed THEN "timed_wait" ELSE "wait")
                              /\ loc' = [loc EXCEPT ![t].timed = timed, ![t].then = "wait"]
  BY DEF Call_wait
<1>2. Inv'
  BY <1>1, Call_waitOnce
<1>3. NestInv'
  BY <1>1, WaitFacts
<1> QED
  BY <1>2, <1>3

\* A call of notify or notifyAll.
LEMMA Call_notifyKeeps ==
  ASSUME Inv, NestInv, NEW t \in Threads, Call_notify(t)
  PROVE  Inv' /\ NestInv'
<1>1. PICK op \in {"notify", "notifyAll"} :
         Call(t, op) /\ IF Own(t) THEN UNCHANGED <<pc, loc, mon>> ELSE Inflate(t, op)
  BY DEF Call_notify
<1>2. NestInv' /\ todo' \in [Threads -> Seq(Calls)] /\ pc[t] = "java"
  BY <1>1, NotifyFacts DEF Call
<1>3. CASE ~Own(t)
  <2>1. Inv'
    BY <1>1, <1>3, Call_notifyInflates
  <2> QED BY <1>2, <2>1
<1>4. CASE Own(t)
  <2>1. UNCHANGED <<pc, loc, mon, om, mark, boxes, held, seen, free, gFreeList, blocks, hashes, node>>
    BY <1>1, <1>4 DEF Call_notify
  <2>2. Shape(t) /\ mon' \in [Threads -> Monitors \cup {None}]
    BY <2>1 DEF Inv, Typing, Shape
  <2>3. Quiet(t) /\ (Unboxed(t)' => Unboxed(t))
    BY <2>1, Unmoved, OfThread DEF Quiet
  <2>4. pc[t] \notin Preparing /\ pc'[t] \notin Preparing \cup {"omAlloc"} /\ pc'[t] \in Outside
    BY <1>2, <2>1 DEF Preparing, Outside
  <2>5. Inv'
    BY <1>2, <2>1, <2>2, <2>3, <2>4, PlainStep
  <2> QED BY <1>2, <2>5
<1> QED
  BY <1>3, <1>4

-----------------------------------------------------------------------------
(* The CAS of the mark and of the header *)

\* While the object is not inflated no thread is inside a monitor.
LEMMA Flat ==
  ASSUME Inv, mark.kind # "inflated", NEW u \in Threads
  PROVE  pc[u] \in Outside /\ ~loc[u].inwait /\ ~InEnterI(u) /\ ~MonitorOwner(u)
<1>1. pc[u] \in Outside
  BY MarkFacts DEF Inv, UseInv
<1>2. ~loc[u].inwait
  BY <1>1, OfThread DEF Control, Outside, Plain, Inflation, Preparing, Unlocking
<1>3. ~InEnterI(u)
  BY <1>1 DEF InEnterI, Outside, Contending, Entering, Spinning
<1> QED
  BY <1>1, <1>2, <1>3 DEF MonitorOwner

\* The threads that did not move.
LEMMA OthersStay ==
  ASSUME Inv, NEW t \in Threads, Shape(t),
         \A u \in Threads \ {t} : held'[u] = held[u] /\ boxes'[u] = boxes[u]
  PROVE  \A u \in Threads \ {t} :
         /\ (Has(u)' <=> Has(u)) /\ (InEnterI(u)' <=> InEnterI(u))
         /\ Control(u)' /\ Depths(u)' /\ Reals(u)' = Reals(u) /\ (Unboxed(u)' <=> Unboxed(u))
         /\ loc'[u] = loc[u] /\ pc'[u] = pc[u]
<1> SUFFICES ASSUME NEW u \in Threads \ {t}
             PROVE  /\ (Has(u)' <=> Has(u)) /\ (InEnterI(u)' <=> InEnterI(u))
                    /\ Control(u)' /\ Depths(u)' /\ Reals(u)' = Reals(u)
                    /\ (Unboxed(u)' <=> Unboxed(u)) /\ loc'[u] = loc[u] /\ pc'[u] = pc[u]
  OBVIOUS
<1>1. pc'[u] = pc[u] /\ loc'[u] = loc[u] /\ held'[u] = held[u] /\ boxes'[u] = boxes[u]
  BY DEF Shape
<1> QED BY <1>1, Unmoved DEF Inv, ThreadInv

\* A step on an object that is not inflated and stays so.
LEMMA FlatKeeps ==
  ASSUME Inv, NEW t \in Threads, Shape(t), om' = om, mark.kind # "inflated", mark'.kind # "inflated",
         UNCHANGED <<seen, free, gFreeList, blocks>>,
         \A u \in Threads \ {t} : mon'[u] = mon[u] /\ held'[u] = held[u] /\ boxes'[u] = boxes[u],
         mark # INFLATING, mark' # INFLATING,
         pc[t] \notin Preparing, pc'[t] \in Outside \ (Preparing \cup {"omAlloc"}),
         Control(t)', Depths(t)',
         \A u \in Threads \ {t} : (StackOwner(u)' <=> StackOwner(u)),
         Has(t)' <=> StackOwner(t)', Has(t)' => Reals(t)' = {1}
  PROVE  ThreadInv' /\ OwnerInv' /\ InflateInv' /\ MonitorInv' /\ UseInv' /\ PoolInv'
<1>1. \A u \in Threads \ {t} :
         /\ (Has(u)' <=> Has(u)) /\ Control(u)' /\ Depths(u)' /\ Reals(u)' = Reals(u)
         /\ loc'[u] = loc[u] /\ pc'[u] = pc[u]
  BY OthersStay
<1>2. \A u \in Threads : /\ pc[u] \in Outside /\ ~loc[u].inwait /\ ~MonitorOwner(u)
                         /\ ~Inflater(u)
  BY Flat DEF Inv, InflateInv
<1>3. \A u \in Threads : pc'[u] \in Outside /\ ~loc'[u].inwait /\ ~MonitorOwner(u)'
  <2>1. ~loc'[t].inwait
    BY DEF Control, Outside, Plain, Inflation, Preparing, Unlocking
  <2> QED BY <1>1, <1>2, <2>1 DEF MonitorOwner
<1>4. \A u \in Threads : /\ ~Inflater(u)'
                         /\ pc'[u] \in Preparing <=> pc[u] \in Preparing
                         /\ pc[u] \in Preparing => pc'[u] = pc[u] /\ mon'[u] = mon[u]
                         /\ pc'[u] = "omAlloc" => pc[u] = "omAlloc"
  BY <1>1, <1>2 DEF Inflater, Preparing
<1>5. OwnerInv'
  BY <1>1, <1>2, <1>3 DEF OwnerInv, Inv
<1>6. ASSUME NEW u \in Threads PROVE Counted(u)'
  <2>1. CASE u = t
    BY <1>3, <2>1 DEF Counted
  <2>2. CASE u # t
    <3>1. Counted(u) BY DEF Inv, ThreadInv
    <3> QED BY <1>1, <1>2, <1>3, <2>2, <3>1 DEF Counted
  <2> QED BY <2>1, <2>2
<1>7. ThreadInv'
  BY <1>1, <1>6 DEF ThreadInv
<1>8. InflateInv'
  <2>1. \A u \in Threads : pc'[u] \notin {"inflate_dmw", "inflate_publish"}
    BY <1>4 DEF Inflater
  <2>2. ASSUME NEW u \in Threads
        PROVE  /\ pc'[u] \in {"omAlloc", "inflate_stack", "inflate_neutral"} =>
                    seen'[u] \in Neutrals \cup {Stack(v, 1) : v \in Threads}
               /\ pc'[u] \in {"inflate_stack", "inflate_dmw", "inflate_publish"} =>
                    \E v \in Threads : seen'[u] = Stack(v, 1)
               /\ pc'[u] = "inflate_neutral" => /\ seen'[u] \in Neutrals
                                                /\ om'[mon'[u]].header = seen'[u]
    BY <1>4, <2>1 DEF InflateInv, Inv, Preparing
  <2> QED BY <1>4, <2>1, <2>2 DEF InflateInv
<1>9. MonitorInv'
  <2> SUFFICES ASSUME NEW m \in Monitors PROVE MonitorOK(m)'
    BY DEF MonitorInv
  <2>1. MonitorOK(m) /\ mark # Inflated(m) /\ mark' # Inflated(m)
    BY MarkFacts DEF MonitorInv, Inv
  <2>2. \A u \in Threads, l \in Preparing : pc'[u] = l /\ mon'[u] = m <=> pc[u] = l /\ mon[u] = m
    BY <1>4
  <2> QED BY <2>1, <2>2 DEF MonitorOK, Preparing
<1>10. UseInv'
  BY <1>3 DEF UseInv
<1>11. PoolInv'
  <2>1. \A m : mark # Inflated(m) /\ mark' # Inflated(m)
    BY MarkFacts
  <2> QED BY <1>4, <2>1 DEF PoolInv, Placed, Inv
<1> QED BY <1>5, <1>7, <1>8, <1>9, <1>10, <1>11

\* A thread that has moved to Java code.
LEMMA InJava ==
  ASSUME NEW t, pc'[t] = "java", ~loc'[t].inwait, Depth(t)' \in Nat, Depth(t)' <= MaxDepth
  PROVE  /\ Control(t)' /\ Depths(t)' /\ ~Trying(t)' /\ ~Extra(t)' /\ ~InEnterI(t)' /\ ~Unboxed(t)'
         /\ ~Releasing(t)' /\ Top(t)' = Depth(t)' /\ (Has(t)' <=> Depth(t)' > 0)
         /\ Reals(t)' = {j \in 1..(Depth(t)') : Real(t, j)'}
<1>1. Where(t)' = "java"
  BY DEF Where, Inflation, Preparing
<1>2. ~Trying(t)' /\ ~Releasing(t)' /\ ~InEnterI(t)' /\ ~Unboxed(t)'
  BY <1>1 DEF Trying, Releasing, InEnterI, Unboxed, Spinning, Preparing, Inflation, Owned,
     Plain, Acquiring, Contending, Entering, Last_unlock, Unlocking, Last_exit, Exiting,
     Released, Unlocked, Waiting, Reentered
<1>3. Top(t)' = Depth(t)' /\ ~Extra(t)'
  BY <1>2 DEF Top, Extra
<1>4. Has(t)' <=> Depth(t)' > 0
  BY <1>1, <1>3 DEF Has, Spinning, Preparing, Inflation, Owned, Plain, Acquiring, Contending,
     Entering, Last_unlock, Unlocking, Last_exit, Exiting, Released, Unlocked, Waiting,
     Reentered
<1>5. Control(t)'
  BY DEF Control, Spinning, Preparing, Inflation, Owned, Plain, Acquiring, Contending,
     Entering, Last_unlock, Unlocking, Last_exit, Exiting, Released, Unlocked, Waiting,
     Reentered
<1>6. Depths(t)'
  BY <1>1, <1>2 DEF Depths, Spinning, Preparing, Inflation, Owned, Plain, Acquiring,
     Contending, Entering, Last_unlock, Unlocking, Last_exit, Exiting, Released, Unlocked,
     Waiting, Reentered
<1>7. Reals(t)' = {j \in 1..(Depth(t)') : Real(t, j)'}
  BY <1>3 DEF Reals
<1> QED
  BY <1>2, <1>3, <1>4, <1>5, <1>6, <1>7

\* Java code is outside of the monitor.
LEMMA JavaLabel == "java" \in Labels /\ "java" \in Outside \ (Preparing \cup {"omAlloc"})
BY DEF Labels, Outside, Plain, Preparing

\* FastHashCode swaps a hash code into the mark.
LEMMA Hash_markKeeps ==
  ASSUME Inv, NEW t \in Threads, Hash_mark(t)
  PROVE  Inv'
<1>1. CASE mark # Neutral(0)
  BY <1>1, Hash_markFails
<1>2. CASE mark = Neutral(0)
  <2>1. PICK h \in Hashes : mark' = Neutral(h) /\ hashes' = hashes \cup {h} /\ Go(t, "java")
                           /\ UNCHANGED <<loc, mon>>
    BY <1>2 DEF Hash_mark, Hash_return
  <2>2. /\ pc[t] = "hash_mark" /\ pc[t] \notin Preparing
        /\ UNCHANGED <<om, node, boxes, held, seen, free, gFreeList, blocks, todo>>
    BY DEF Hash_mark, Preparing
  <2>3. Shape(t) /\ pc'[t] = "java" /\ loc'[t] = loc[t]
    BY <2>1, <2>2, Stays, JavaLabel
  <2>4. /\ mark.kind = "neutral" /\ mark'.kind = "neutral" /\ mark # INFLATING /\ mark' # INFLATING
        /\ mark.hash = 0 /\ mark'.hash = h /\ mark' \in Neutrals
    BY <1>2, <2>1, MarkFacts DEF Neutrals
  <2>5. hashes = {}
    BY <2>4, HashesAssumption DEF Inv, HeaderInv, Agrees, Typing
  <2>6. \A u \in Threads : ~Inflater(u) /\ ~Inflater(u)' /\ ~StackOwner(u) /\ ~StackOwner(u)'
    <3>1. \A u \in Threads : ~Inflater(u)
      BY <2>4 DEF Inv, InflateInv
    <3>2. \A u \in Threads : ~Inflater(u)'
      BY <2>3, <3>1 DEF Inflater, Shape
    <3> QED BY <2>4, <3>1, <3>2 DEF StackOwner
  <2>7. HeaderInv'
    BY <2>1, <2>4, <2>5, <2>6 DEF HeaderInv, Agrees
  <2>8. ~loc[t].inwait /\ ~MonitorOwner(t)
    BY <2>4, Flat
  <2>9. ~Has(t) /\ Depth(t) \in Nat /\ Depth(t) <= MaxDepth
    BY <2>6, <2>8, OfThread DEF Inv, OwnerInv, Depths
  <2>10. ~(Depth(t) > 0)
    BY <2>2, <2>8, <2>9 DEF Has, Where, Top, Trying, Spinning, Preparing, Inflation, Owned,
       Plain, Acquiring, Contending, Entering, Last_unlock, Unlocking, Last_exit, Exiting,
       Released, Unlocked, Waiting, Reentered
  <2>11. Depth(t)' = Depth(t)
    BY <2>2 DEF Depth
  <2>12. Control(t)' /\ Depths(t)' /\ ~Has(t)'
    BY <2>3, <2>8, <2>9, <2>10, <2>11, InJava
  <2>13. Typing'
    BY <2>1, <2>2, <2>3, <2>4 DEF Inv, Typing, Shape, Marks
  <2> QED
    BY <2>1, <2>2, <2>3, <2>4, <2>6, <2>7, <2>12, <2>13, JavaLabel, FlatKeeps DEF Inv
<1> QED
  BY <1>1, <1>2

\* Fast_exit swaps the displaced header back.
LEMMA Stack_unlockKeeps ==
  ASSUME Inv, NEW t \in Threads, Stack_unlock(t)
  PROVE  Inv'
<1>1. CASE mark # Stack(t, ExitBox(t))
  BY <1>1, Stack_unlockFails
<1>2. CASE mark = Stack(t, ExitBox(t))
  <2>1. /\ mark.kind = "stack" /\ mark.thread = t /\ mark.box = ExitBox(t) /\ mark.box = 1
        /\ mark # INFLATING
    BY <1>2, MarkCases, MarkFacts DEF Inv
  <2>2. /\ pc[t] = "stack_unlock" /\ pc[t] \notin Preparing /\ Go(t, "java") /\ mark' = boxes[t][1]
        /\ UNCHANGED <<om, mon, node, loc, boxes, held, seen, free, gFreeList, blocks, hashes, todo>>
    BY <1>2, <2>1 DEF Stack_unlock, Preparing
  <2>3. Shape(t) /\ pc'[t] = "java" /\ loc'[t] = loc[t]
    BY <2>2, Stays, JavaLabel
  <2>4. Agrees(boxes[t][1])
    BY <2>1 DEF Inv, HeaderInv
  <2>5. mark' \in Neutrals /\ mark'.kind = "neutral" /\ mark' # INFLATING /\ Agrees(mark)'
    BY <2>2, <2>4, MarkFacts DEF Agrees, Neutrals
  <2>6. \A u \in Threads : ~Inflater(u) /\ ~Inflater(u)'
    <3>1. \A u \in Threads : ~Inflater(u)
      BY <2>1 DEF Inv, InflateInv
    <3> QED BY <2>3, <3>1 DEF Inflater, Shape
  <2>7. (\A u \in Threads \ {t} : ~StackOwner(u)) /\ (\A u \in Threads : ~StackOwner(u)')
    BY <2>1, <2>5, <2>6 DEF StackOwner
  <2>8. HeaderInv'
    BY <2>5, <2>6 DEF HeaderInv
  <2>9. ~loc[t].inwait
    BY <2>1, Flat
  <2>10. Depth(t) = 0 /\ Depth(t)' = 0 /\ 0 <= MaxDepth
    BY <2>1, <2>2, OfThread, DepthAssumption DEF ExitBox, Depth
  <2>11. Control(t)' /\ Depths(t)' /\ ~Has(t)'
    BY <2>3, <2>9, <2>10, InJava
  <2>12. Typing'
    BY <2>2, <2>3, <2>5 DEF Inv, Typing, Shape, Marks
  <2> QED
    BY <2>1, <2>2, <2>3, <2>5, <2>7, <2>8, <2>11, <2>12, JavaLabel, FlatKeeps DEF Inv
<1> QED
  BY <1>1, <1>2

\* The CAS of slow_enter succeeds: the displaced header is in the box.
LEMMA Stack_lockSwaps ==
  ASSUME Inv, NEW t \in Threads, Stack_lock(t), mark = boxes[t][EnterBox(t)]
  PROVE  Inv'
<1>1. /\ pc[t] = "stack_lock" /\ pc[t] \notin Preparing /\ Go(t, "java") /\ mark' = Stack(t, EnterBox(t))
      /\ UNCHANGED <<om, mon, node, loc, boxes, held, seen, free, gFreeList, blocks, hashes, todo>>
  BY DEF Stack_lock, Preparing
<1>2. Where(t) = "stack_lock" /\ ~loc[t].inwait /\ Control(t) /\ Depths(t)
  BY <1>1, OfThread DEF Where, Control, Inflation, Preparing
<1>3. Trying(t)
  BY <1>2 DEF Trying, Acquiring
<1>4. Depth(t) = 1 /\ Real(t, 1) /\ boxes[t][1] \in Neutrals
  BY <1>2, <1>3 DEF Depths
<1>5. /\ mark \in Neutrals /\ mark = boxes[t][1] /\ mark.kind = "neutral" /\ mark' = Stack(t, 1)
      /\ mark'.kind = "stack" /\ mark'.thread = t /\ mark # INFLATING /\ mark' # INFLATING
  BY <1>1, <1>4, MarkFacts DEF EnterBox, Depth, Neutrals
<1>6. Shape(t) /\ pc'[t] = "java" /\ loc'[t] = loc[t]
  BY <1>1, Stays, JavaLabel
<1>7. \A u \in Threads : ~Inflater(u) /\ ~Inflater(u)'
  <2>1. \A u \in Threads : ~Inflater(u)
    BY <1>5 DEF Inv, InflateInv
  <2> QED BY <1>6, <2>1 DEF Inflater, Shape
<1>8. /\ (\A u \in Threads : ~StackOwner(u)) /\ (\A u \in Threads \ {t} : ~StackOwner(u)')
      /\ StackOwner(t)'
  BY <1>5, <1>7 DEF StackOwner
<1>9. HeaderInv'
  <2>1. Agrees(boxes[t][1])
    BY <1>5 DEF Inv, HeaderInv
  <2> QED BY <1>1, <1>5, <1>7, <2>1 DEF HeaderInv, Agrees
<1>10. (Depth(t)' = 1) /\ Real(t, 1)' /\ 1 <= MaxDepth
  BY <1>1, <1>4, DepthAssumption DEF Depth, Real
<1>11. Control(t)' /\ Depths(t)' /\ Has(t)' /\ Reals(t)' = {j \in 1..1 : Real(t, j)'}
  BY <1>2, <1>6, <1>10, InJava
<1>12. Reals(t)' = {1}
  BY <1>10, <1>11
<1>13. Typing'
  BY <1>1, <1>5, <1>6 DEF Inv, Typing, Shape, Marks
<1> QED
  BY <1>1, <1>5, <1>6, <1>8, <1>9, <1>11, <1>12, <1>13, JavaLabel, FlatKeeps DEF Inv

\* A store into the header.
LEMMA HeaderField ==
  ASSUME NEW r \in MonitorRec, NEW x \in Headers
  PROVE  LET q == [r EXCEPT !.header = x] IN
         /\ q \in MonitorRec /\ q.header = x
         /\ q.owner = r.owner /\ q.box = r.box /\ q.recursions = r.recursions
         /\ q.count = r.count /\ q.waiters = r.waiters /\ q.object = r.object
BY DEF MonitorRec

\* FastHashCode swaps a hash code into the header of the monitor.
LEMMA Hash_headerKeeps ==
  ASSUME Inv, NEW t \in Threads, Hash_header(t)
  PROVE  Inv'
<1>0. /\ pc[t] = "hash_header" /\ pc[t] \notin Preparing /\ pc[t] \notin Outside
      /\ UNCHANGED <<mon, node, loc, mark, boxes, held, seen, free, gFreeList, blocks, todo>>
  BY DEF Hash_header, Preparing, Outside
<1>1. CASE this(t).header.hash # 0
  BY <1>0, <1>1, AtHeader, HashReturned DEF Hash_header
<1>2. CASE this(t).header.hash = 0
  <2>1. PICK h \in Hashes : /\ om' = [om EXCEPT ![mon[t]] = [om[mon[t]] EXCEPT !.header = Neutral(h)]]
                           /\ hashes' = hashes \cup {h} /\ Go(t, "java")
    BY <1>2 DEF Hash_header, Hash_return, Set, this
  <2>0. PICK m \in Monitors : m = mon[t]
    BY <1>0, AtMonitor
  <2> DEFINE q == [om[m] EXCEPT !.header = Neutral(h)]
  <2>2. /\ m \in Monitors /\ mark = Inflated(m) /\ om[m] \in MonitorRec
        /\ loc[t] \in LocRec /\ Depth(t) \in Nat /\ Depths(t) /\ Control(t)
        /\ (Has(t) <=> om[m].owner = t)
    BY <1>0, <2>0, AtMonitor
  <2>3. Neutral(h) \in Neutrals /\ Neutral(h) \in Headers
    BY DEF Headers, Neutrals
  <2>4. /\ q \in MonitorRec /\ q.header = Neutral(h)
        /\ q.owner = om[m].owner /\ q.box = om[m].box /\ q.recursions = om[m].recursions
        /\ q.count = om[m].count /\ q.waiters = om[m].waiters /\ q.object = om[m].object
    BY <2>2, <2>3, HeaderField
  <2>5. om' = [om EXCEPT ![m] = q]
    BY <2>0, <2>1
  <2> HIDE DEF q
  <2>6. /\ Shape(t) /\ pc'[t] = "java" /\ loc'[t] = loc[t] /\ om'[m] = q
        /\ \A x \in Monitors \ {m} : om'[x] = om[x]
    BY <1>0, <2>1, <2>2, <2>4, <2>5, JavaLabel DEF Shape, Go, Inv, Typing
  <2>7. ~loc[t].inwait /\ Where(t) = "hash_header"
    BY <1>0, <2>2 DEF Control, Where, Plain, Inflation, Preparing
  <2>8. ~Trying(t) /\ ~Extra(t) /\ ~InEnterI(t) /\ (Has(t) <=> Depth(t) > 0)
    BY <1>0, <2>2, <2>7 DEF Trying, Extra, Has, InEnterI, Where, Releasing, Unboxed, Top,
       Real, Depth, Spinning, Preparing, Inflation, Owned, Plain, Acquiring, Contending,
       Entering, Last_unlock, Unlocking, Last_exit, Exiting, Released, Unlocked, Waiting,
       Reentered
  <2>9. Depth(t)' = Depth(t) /\ Depth(t) <= MaxDepth
    BY <1>0, <2>2 DEF Depth, Depths
  <2>10. Control(t)' /\ Depths(t)' /\ ~Trying(t)' /\ ~Extra(t)' /\ ~InEnterI(t)' /\ ~Unboxed(t)'
         /\ (Has(t)' <=> Depth(t)' > 0)
    BY <2>2, <2>6, <2>7, <2>9, InJava
  <2>11. Reals(t)' = Reals(t)
    BY <1>0, <2>8, <2>10, RealsSame
  <2>12. mark.kind = "inflated" /\ mark.monitor = m /\ mark # INFLATING /\ mark' = mark
    BY <1>0, <2>2, MarkFacts
  <2>13. \A u \in Threads : ~Inflater(u) /\ ~Inflater(u)'
    <3>1. \A u \in Threads : ~Inflater(u)
      BY <2>12 DEF Inv, InflateInv
    <3> QED BY <2>6, <3>1 DEF Inflater, Shape
  <2>14. Has(t)' <=> om'[m].owner = t
    BY <2>2, <2>4, <2>6, <2>8, <2>9, <2>10
  <2>15. Counted(t)'
    <3>1. Counted(t) /\ ~StackOwner(t) /\ ~StackOwner(t)'
      BY <2>12, <2>13 DEF Inv, ThreadInv, StackOwner
    <3>2. (MonitorOwner(t)' <=> om'[m].owner = t) /\ (MonitorOwner(t) <=> om[m].owner = t)
      BY <2>12 DEF MonitorOwner
    <3> QED
      BY <2>2, <2>4, <2>6, <2>7, <2>10, <2>11, <2>12, <2>14, <3>1, <3>2 DEF Counted
  <2>16. MonitorOK(m)'
    <3>1. MonitorOK(m)
      BY <2>2 DEF Inv, MonitorInv
    <3>2. /\ {u \in Threads : InEnterI(u)}' = {u \in Threads : InEnterI(u)}
          /\ {u \in Threads : loc[u].inwait}' = {u \in Threads : loc[u].inwait}
      BY <1>0, <2>6, <2>8, <2>10, CountsSame
    <3> QED
      BY <2>2, <2>4, <2>6, <2>12, <3>1, <3>2 DEF MonitorOK
  <2>17. hashes = {} /\ h # 0
    <3>1. Agrees(om[m].header) /\ om[m].header.hash = 0
      BY <1>2, <2>0, <2>12 DEF Inv, HeaderInv, this
    <3> QED
      BY <3>1, HashesAssumption DEF Agrees, Inv, Typing
  <2>18. HeaderInv'
    <3>1. Agrees(om[m].header)'
      BY <2>1, <2>3, <2>4, <2>6, <2>17, MarkFacts DEF Agrees
    <3> QED
      BY <2>12, <2>13, <3>1 DEF HeaderInv
  <2>19. Typing'
    BY <1>0, <2>1, <2>6 DEF Inv, Typing, Shape
  <2>20. \A x \in Monitors \ {m} : CoreSame(om'[x], om[x])
    BY <2>6, NoField
  <2> QED
    BY <1>0, <2>2, <2>4, <2>6, <2>10, <2>14, <2>15, <2>16, <2>18, <2>19, <2>20, JavaLabel,
       MonitorRest DEF Inv
<1> QED
  BY <1>1, <1>2

-----------------------------------------------------------------------------
(* slow_enter *)

\* A step of t on its own locks that leaves the levels it has the same.
LEMMA LevelsStep ==
  ASSUME Inv, NEW t \in Threads, Shape(t), om' = om, mon' \in [Threads -> Monitors \cup {None}],
         UNCHANGED <<mark, seen, free, gFreeList, blocks, hashes>>,
         todo' \in [Threads -> Seq(Calls)], boxes' \in [Threads -> [1..MaxDepth -> Headers]],
         held' \in [Threads -> Seq({"java", "jni"})],
         \A u \in Threads \ {t} : mon'[u] = mon[u] /\ held'[u] = held[u] /\ boxes'[u] = boxes[u],
         Has(t)' <=> Has(t), InEnterI(t)' <=> InEnterI(t), Control(t)', Depths(t)',
         Reals(t)' = Reals(t), Has(t) => boxes'[t][1] = boxes[t][1],
         loc'[t].inwait = loc[t].inwait, loc'[t].save = loc[t].save,
         pc[t] \notin Preparing, pc'[t] \notin Preparing \cup {"omAlloc"},
         pc'[t] \notin Outside => mark = Inflated(mon'[t]), ~Unboxed(t)'
  PROVE  Inv'
<1>1. Typing'
  BY DEF Typing, Inv, Shape
<1>2. \A m \in Monitors : CoreSame(om'[m], om[m])
  BY NoField
<1>3. \A u \in Threads : StackOwner(u) => boxes'[u][1] = boxes[u][1]
  BY DEF Inv, OwnerInv
<1>4. \A u \in Threads : Inflater(u)' <=> Inflater(u)
  BY DEF Shape, Inflater, Preparing
<1>5. HeaderInv'
  <2>1. mark.kind = "stack" => boxes'[mark.thread][1] = boxes[mark.thread][1]
    BY <1>3, MarkCases DEF Inv, StackOwner
  <2>2. \A u \in Threads : Inflater(u) => boxes'[seen[u].thread][1] = boxes[seen[u].thread][1]
    <3> SUFFICES ASSUME NEW u \in Threads, Inflater(u)
                 PROVE  boxes'[seen[u].thread][1] = boxes[seen[u].thread][1]
      OBVIOUS
    <3>1. PICK v \in Threads : seen[u] = Stack(v, 1)
      BY DEF InflateInv, Inv, Inflater
    <3>2. seen[u].thread = v
      BY <3>1, MarkFacts
    <3> QED
      BY <1>3, <3>2 DEF StackOwner
  <2>3. HeaderInv
    BY DEF Inv
  <2>4. (mark.kind = "neutral" => Agrees(mark))' /\ (mark.kind = "inflated" => Agrees(om[mark.monitor].header))'
    BY <2>3 DEF HeaderInv, Agrees
  <2>5. (mark.kind = "stack" => Agrees(boxes[mark.thread][1]))'
    BY <2>1, <2>3 DEF HeaderInv, Agrees
  <2>6. ASSUME NEW u \in Threads, Inflater(u)' PROVE Agrees(boxes[seen[u].thread][1])'
    <3>1. Inflater(u) /\ Agrees(boxes[seen[u].thread][1])
      BY <1>4, <2>3, <2>6 DEF HeaderInv
    <3>2. boxes'[seen'[u].thread][1] = boxes[seen[u].thread][1]
      BY <2>2, <3>1
    <3> QED
      BY <3>1, <3>2 DEF Agrees
  <2> QED
    BY <2>4, <2>5, <2>6 DEF HeaderInv
<1>6. ThreadInv' /\ OwnerInv' /\ InflateInv' /\ MonitorInv' /\ UseInv' /\ PoolInv'
  BY <1>2, <1>3, SameLevels
<1> QED
  BY <1>1, <1>5, <1>6 DEF Inv

\* The levels below the innermost.
LEMMA LevelsSame ==
  ASSUME NEW t, ~Extra(t), ~Extra(t)', Top(t)' = Top(t),
         \A j \in 1..Top(t) : (Real(t, j)' <=> Real(t, j))
  PROVE  Reals(t)' = Reals(t)
BY DEF Reals

\* A displaced header is stored into the innermost box.
LEMMA BoxTyped ==
  ASSUME Inv, NEW t \in Threads, Depth(t) \in 1..MaxDepth, NEW x \in Headers,
         boxes' = [boxes EXCEPT ![t][EnterBox(t)] = x]
  PROVE  /\ boxes' \in [Threads -> [1..MaxDepth -> Headers]]
         /\ (\A u \in Threads \ {t} : boxes'[u] = boxes[u])
         /\ boxes'[t][Depth(t)] = x
         /\ (\A j \in 1..(Depth(t) - 1) : boxes'[t][j] = boxes[t][j])
<1> DEFINE d == Depth(t)
           b == [boxes[t] EXCEPT ![d] = x]
<1>0. boxes[t] \in [1..MaxDepth -> Headers] /\ boxes' = [boxes EXCEPT ![t] = b] /\ d \in 1..MaxDepth
  BY DEF Inv, Typing, EnterBox, Depth
<1> HIDE DEF d
<1>1. /\ b \in [1..MaxDepth -> Headers] /\ b[d] = x
      /\ (\A j \in 1..(d - 1) : b[j] = boxes[t][j])
  BY <1>0, DepthAssumption
<1> HIDE DEF b
<1>2. /\ boxes' \in [Threads -> [1..MaxDepth -> Headers]] /\ boxes'[t] = b
      /\ (\A u \in Threads \ {t} : boxes'[u] = boxes[u])
  BY <1>0, <1>1 DEF Inv, Typing
<1> QED
  BY <1>1, <1>2 DEF d

\* The slow path of the lock, before the lock is acquired.
LEMMA SlowFacts ==
  ASSUME Inv, NEW t \in Threads, pc[t] \in {"slow_enter", "stack_lock"}
  PROVE  /\ pc[t] \notin Preparing /\ loc[t] \in LocRec /\ ~loc[t].inwait
         /\ Depth(t) \in 1..MaxDepth /\ Top(t) = Depth(t) - 1 /\ Trying(t) /\ ~Extra(t)
         /\ ~InEnterI(t) /\ (Has(t) <=> Depth(t) > 1)
         /\ (pc[t] = "stack_lock" => Depth(t) = 1)
         /\ (pc[t] = "slow_enter" => held[t][Depth(t)] = "java")
<1>1. loc[t] \in LocRec /\ Control(t) /\ Depths(t) /\ Depth(t) \in Nat
  BY OfThread
<1>2. Where(t) = pc[t] /\ ~loc[t].inwait /\ pc[t] \notin Preparing
  BY <1>1 DEF Where, Control, Inflation, Preparing
<1>3. Trying(t) /\ ~Extra(t) /\ ~InEnterI(t) /\ Top(t) = Depth(t) - 1
  BY <1>2 DEF Trying, Extra, InEnterI, Top, Releasing, Spinning, Preparing, Inflation, Owned,
     Plain, Acquiring, Contending, Entering, Last_unlock, Unlocking, Last_exit, Exiting,
     Released, Unlocked, Waiting, Reentered
<1>4. Depth(t) \in 1..MaxDepth
  BY <1>1, <1>3, DepthAssumption DEF Depths
<1>5. Has(t) <=> Depth(t) > 1
  BY <1>2, <1>3, <1>4 DEF Has, Spinning, Preparing, Inflation, Owned, Plain, Acquiring,
     Contending, Entering, Last_unlock, Unlocking, Last_exit, Exiting, Released, Unlocked,
     Waiting, Reentered
<1> QED
  BY <1>1, <1>2, <1>3, <1>4, <1>5 DEF Depths

\* A thread that goes on acquiring.
LEMMA StillTrying ==
  ASSUME NEW t, NEW d \in 1..MaxDepth, Depth(t)' = d, ~loc'[t].inwait,
         Where(t)' \in Acquiring, pc'[t] \in Acquiring \cup {"inflate"},
         pc'[t] = "inflate" => loc'[t].then = "enter",
         Where(t)' = "stack_lock" => d = 1 /\ boxes'[t][1] \in Neutrals,
         Where(t)' = "slow_enter" => held'[t][d] = "java",
         Where(t)' # "slow_enter" => Real(t, d)'
  PROVE  /\ Control(t)' /\ Depths(t)' /\ Trying(t)' /\ ~Extra(t)' /\ ~InEnterI(t)' /\ ~Unboxed(t)'
         /\ Top(t)' = d - 1 /\ (Has(t)' <=> d > 1) /\ pc'[t] \notin Preparing \cup {"omAlloc"}
<1>1. Trying(t)' /\ ~Releasing(t)' /\ ~InEnterI(t)' /\ ~Unboxed(t)'
  BY DEF Trying, Releasing, InEnterI, Unboxed, Spinning, Preparing, Inflation, Owned, Plain,
     Acquiring, Contending, Entering, Last_unlock, Unlocking, Last_exit, Exiting, Released,
     Unlocked, Waiting, Reentered
<1>2. Top(t)' = d - 1 /\ ~Extra(t)'
  BY <1>1 DEF Top, Extra
<1>3. Has(t)' <=> d > 1
  BY <1>2 DEF Has, Spinning, Preparing, Inflation, Owned, Plain, Acquiring, Contending,
     Entering, Last_unlock, Unlocking, Last_exit, Exiting, Released, Unlocked, Waiting,
     Reentered
<1>4. Control(t)' /\ pc'[t] \notin Preparing \cup {"omAlloc"}
  BY DEF Control, Spinning, Preparing, Inflation, Owned, Plain, Acquiring, Contending,
     Entering, Last_unlock, Unlocking, Last_exit, Exiting, Released, Unlocked, Waiting,
     Reentered
<1>5. pc'[t] \notin Spinning /\ ~(Where(t)' \in Contending \cup Entering \cup Unlocking \cup Exiting
         \cup Released \cup Unlocked \cup Last_exit \cup Last_unlock \cup Owned)
  BY DEF Spinning, Preparing, Inflation, Owned, Plain, Acquiring, Contending, Entering,
     Last_unlock, Unlocking, Last_exit, Exiting, Released, Unlocked, Waiting, Reentered
<1>6. Depths(t)'
  BY <1>1, <1>5 DEF Depths, Unlocking
<1> QED
  BY <1>1, <1>2, <1>3, <1>4, <1>6

\* slow_enter goes on to inflate.
LEMMA EnterInflates ==
  ASSUME Inv, NEW t \in Threads, pc[t] \in {"slow_enter", "stack_lock"},
         boxes' = [boxes EXCEPT ![t][EnterBox(t)] = Unused], Inflate(t, "enter"),
         UNCHANGED <<om, node, mark, held, seen, free, gFreeList, blocks, todo, hashes>>
  PROVE  Inv'
<1> DEFINE d == Depth(t)
<1>1. /\ pc[t] \notin Preparing /\ ~loc[t].inwait /\ d \in 1..MaxDepth /\ Top(t) = d - 1
      /\ ~Extra(t) /\ ~InEnterI(t) /\ (Has(t) <=> d > 1)
  BY SlowFacts
<1>2. Unused \in Headers /\ Unused # Recursive /\ "enter" \in Targets /\ "enter" \in Acquiring
  BY MarkFacts DEF Headers, Targets, Acquiring
<1>3. /\ boxes' \in [Threads -> [1..MaxDepth -> Headers]]
      /\ (\A u \in Threads \ {t} : boxes'[u] = boxes[u])
      /\ boxes'[t][d] = Unused /\ (\A j \in 1..(d - 1) : boxes'[t][j] = boxes[t][j])
  BY <1>1, <1>2, BoxTyped
<1>4. /\ Shape(t) /\ pc'[t] \in {"enter", "inflate"} /\ Where(t)' = "enter"
      /\ (pc'[t] = "inflate" => loc'[t].then = "enter")
      /\ loc'[t].inwait = loc[t].inwait /\ loc'[t].save = loc[t].save
      /\ mon' \in [Threads -> Monitors \cup {None}]
      /\ (\A u \in Threads \ {t} : mon'[u] = mon[u])
      /\ (pc'[t] \notin Outside => mark = Inflated(mon'[t]))
  BY <1>2, InflateFacts
<1>5. (Depth(t)' = Depth(t)) /\ (\A j : held'[t][j] = held[t][j])
  BY DEF Depth
<1>6. Real(t, d)' /\ (\A j \in 1..(d - 1) : Real(t, j)' <=> Real(t, j))
  <2>1. held' = held OBVIOUS
  <2>2. boxes'[t][Depth(t)'] # Recursive BY <1>2, <1>3, <1>5
  <2> QED BY <1>2, <1>3, <1>5, <2>1, <2>2 DEF Real
<1>7. PICK n \in 1..MaxDepth : n = d
  BY <1>1
<1>8. /\ Control(t)' /\ Depths(t)' /\ ~Extra(t)' /\ ~InEnterI(t)' /\ ~Unboxed(t)'
      /\ Top(t)' = n - 1 /\ (Has(t)' <=> n > 1) /\ pc'[t] \notin Preparing \cup {"omAlloc"}
  <2>1. Real(t, n)' BY <1>2, <1>3, <1>5, <1>7 DEF Real
  <2>2. Depth(t)' = n BY <1>5, <1>7
  <2> HIDE DEF d
  <2> QED BY <1>1, <1>2, <1>4, <2>1, <2>2, StillTrying
<1>9. Reals(t)' = Reals(t)
  BY <1>1, <1>6, <1>7, <1>8, LevelsSame
<1>10. Has(t) => boxes'[t][1] = boxes[t][1]
  BY <1>1, <1>3
<1>11. Has(t)' <=> Has(t)
  BY <1>1, <1>7, <1>8
<1>12. todo' \in [Threads -> Seq(Calls)] /\ held' \in [Threads -> Seq({"java", "jni"})]
       /\ (\A u \in Threads \ {t} : held'[u] = held[u])
  BY DEF Inv, Typing
<1> HIDE DEF d
<1> QED
  BY <1>1, <1>3, <1>4, <1>8, <1>9, <1>10, <1>11, <1>12, LevelsStep

\* Slow_enter swaps the address of its box into the mark.
LEMMA Stack_lockKeeps ==
  ASSUME Inv, NEW t \in Threads, Stack_lock(t)
  PROVE  Inv'
<1>1. CASE mark = boxes[t][EnterBox(t)]
  BY <1>1, Stack_lockSwaps
<1>2. CASE mark # boxes[t][EnterBox(t)]
  BY <1>2, EnterInflates DEF Stack_lock
<1> QED
  BY <1>1, <1>2

\* The labels of slow_enter.
LEMMA SlowLabels == "stack_lock" \in Labels /\ "slow_enter" \in Labels /\ "stack_lock" \in Outside
                    /\ "slow_enter" \in Outside
BY DEF Labels, Acquiring, Outside

\* slow_enter on a neutral mark, and on a lock of the thread itself.
LEMMA SlowNeutral ==
  ASSUME Inv, NEW t \in Threads, pc[t] = "slow_enter", mark.kind = "neutral",
         boxes' = [boxes EXCEPT ![t][EnterBox(t)] = mark], Go(t, "stack_lock"),
         UNCHANGED <<om, mon, loc, node, mark, held, seen, free, gFreeList, blocks, todo, hashes>>
  PROVE  Inv'
<1>1. /\ pc[t] \notin Preparing /\ ~loc[t].inwait /\ Depth(t) \in 1..MaxDepth /\ Top(t) = Depth(t) - 1
      /\ ~Extra(t) /\ ~InEnterI(t) /\ (Has(t) <=> Depth(t) > 1)
  BY SlowFacts
<1>2. mark \in Neutrals /\ mark \in Headers /\ mark # Recursive /\ mark # INFLATING
  BY MarkCases, MarkFacts DEF Inv, Headers
<1>3. ~Has(t)
  <2>1. ~StackOwner(t) /\ ~MonitorOwner(t)
    BY <1>2 DEF StackOwner, MonitorOwner, Inv, InflateInv
  <2> QED BY <2>1 DEF Inv, OwnerInv
<1>4. Depth(t) = 1
  BY <1>1, <1>3
<1>5. /\ boxes' \in [Threads -> [1..MaxDepth -> Headers]]
      /\ (\A u \in Threads \ {t} : boxes'[u] = boxes[u]) /\ boxes'[t][1] = mark
  <2>1. /\ boxes' \in [Threads -> [1..MaxDepth -> Headers]]
        /\ (\A u \in Threads \ {t} : boxes'[u] = boxes[u]) /\ boxes'[t][Depth(t)] = mark
    BY <1>1, <1>2, BoxTyped
  <2> QED BY <1>4, <2>1
<1>6. Shape(t) /\ pc'[t] = "stack_lock" /\ loc'[t] = loc[t]
  BY SlowLabels, Stays
<1>7. Depth(t)' = 1 /\ Real(t, 1)' /\ Where(t)' = "stack_lock"
  BY <1>2, <1>4, <1>5, <1>6 DEF Depth, Real, Where, Inflation, Preparing
<1>8. /\ Control(t)' /\ Depths(t)' /\ ~Extra(t)' /\ ~InEnterI(t)' /\ ~Unboxed(t)'
      /\ Top(t)' = 0 /\ ~Has(t)' /\ pc'[t] \notin Preparing \cup {"omAlloc"}
  <2> DEFINE n == 1
  <2>1. n \in 1..MaxDepth /\ n = 1 BY DepthAssumption
  <2>2. "stack_lock" \in Acquiring BY DEF Acquiring
  <2> HIDE DEF n
  <2> QED BY <1>1, <1>2, <1>5, <1>6, <1>7, <2>1, <2>2, StillTrying
<1>9. Reals(t)' = Reals(t)
  BY <1>1, <1>4, <1>8, LevelsSame
<1>10. todo' \in [Threads -> Seq(Calls)] /\ held' \in [Threads -> Seq({"java", "jni"})]
       /\ (\A u \in Threads \ {t} : held'[u] = held[u] /\ mon'[u] = mon[u])
       /\ mon' \in [Threads -> Monitors \cup {None}]
  BY DEF Inv, Typing
<1> QED
  BY <1>1, <1>3, <1>5, <1>6, <1>8, <1>9, <1>10, SlowLabels, LevelsStep

\* slow_enter of a thread that has the stack lock.
LEMMA SlowRecursive ==
  ASSUME Inv, NEW t \in Threads, pc[t] = "slow_enter", Own(t),
         boxes' = [boxes EXCEPT ![t][EnterBox(t)] = Recursive], Go(t, "java"),
         UNCHANGED <<om, mon, loc, node, mark, held, seen, free, gFreeList, blocks, todo, hashes>>
  PROVE  Inv'
<1> DEFINE d == Depth(t)
<1>1. /\ pc[t] \notin Preparing /\ ~loc[t].inwait /\ d \in 1..MaxDepth /\ Top(t) = d - 1
      /\ ~Extra(t) /\ ~InEnterI(t) /\ (Has(t) <=> d > 1) /\ held[t][d] = "java"
  BY SlowFacts
<1>2. Has(t) /\ d > 1
  <2>1. StackOwner(t)
    BY DEF StackOwner, Own
  <2> QED BY <1>1, <2>1 DEF Inv, OwnerInv
<1>3. Recursive \in Headers
  BY DEF Headers
<1>4. /\ boxes' \in [Threads -> [1..MaxDepth -> Headers]]
      /\ (\A u \in Threads \ {t} : boxes'[u] = boxes[u])
      /\ boxes'[t][d] = Recursive /\ (\A j \in 1..(d - 1) : boxes'[t][j] = boxes[t][j])
  BY <1>1, <1>3, BoxTyped
<1>5. Shape(t) /\ pc'[t] = "java" /\ loc'[t] = loc[t]
  BY JavaLabel, Stays
<1>6. Depth(t)' = d /\ d \in Nat /\ d <= MaxDepth
  BY <1>1, DepthAssumption DEF Depth
<1>7. /\ Control(t)' /\ Depths(t)' /\ ~InEnterI(t)' /\ ~Unboxed(t)' /\ (Has(t)' <=> d > 0)
      /\ Reals(t)' = {j \in 1..d : Real(t, j)'}
  <2> HIDE DEF d
  <2> QED BY <1>1, <1>5, <1>6, InJava
<1>8. Reals(t)' = Reals(t)
  <2>1. Reals(t) = {j \in 1..(d - 1) : Real(t, j)}
    BY <1>1 DEF Reals
  <2>2. \A j \in 1..(d - 1) : Real(t, j)' <=> Real(t, j)
    BY <1>4 DEF Real
  <2>3. ASSUME NEW j, j = d PROVE ~Real(t, j)'
    BY <1>1, <1>4, <2>3 DEF Real
  <2> HIDE DEF d
  <2>4. \A j \in 1..d : j \in 1..(d - 1) \/ j = d
    BY <1>6
  <2>5. \A j \in 1..(d - 1) : j \in 1..d
    BY <1>6
  <2> QED
    BY <1>7, <2>1, <2>2, <2>3, <2>4, <2>5
<1>9. Has(t) => boxes'[t][1] = boxes[t][1]
  BY <1>2, <1>4, <1>1
<1>10. todo' \in [Threads -> Seq(Calls)] /\ held' \in [Threads -> Seq({"java", "jni"})]
       /\ (\A u \in Threads \ {t} : held'[u] = held[u] /\ mon'[u] = mon[u])
       /\ mon' \in [Threads -> Monitors \cup {None}]
  BY DEF Inv, Typing
<1>11. Has(t)'
  BY <1>2, <1>6, <1>7
<1> QED
  BY <1>1, <1>2, <1>4, <1>5, <1>7, <1>8, <1>9, <1>10, <1>11, JavaLabel, LevelsStep

\* Slow_enter looks at the mark.
LEMMA Slow_enterKeeps ==
  ASSUME Inv, NEW t \in Threads, Slow_enter(t)
  PROVE  Inv'
<1>1. /\ pc[t] = "slow_enter"
      /\ UNCHANGED <<om, node, mark, held, seen, free, gFreeList, blocks, todo, hashes>>
  BY DEF Slow_enter
<1>2. Recursive.kind = "recursive" /\ Unused.kind = "unused"
  BY MarkFacts
<1>3. CASE mark.kind = "neutral"
  <2>1. boxes' = [boxes EXCEPT ![t][EnterBox(t)] = mark] /\ Go(t, "stack_lock") /\ UNCHANGED <<loc, mon>>
    BY <1>3 DEF Slow_enter
  <2> QED BY <1>1, <1>3, <2>1, SlowNeutral
<1>4. CASE mark.kind # "neutral" /\ Own(t)
  <2>1. boxes' = [boxes EXCEPT ![t][EnterBox(t)] = Recursive] /\ Go(t, "java") /\ UNCHANGED <<loc, mon>>
    BY <1>2, <1>4 DEF Slow_enter
  <2> QED BY <1>1, <1>4, <2>1, SlowRecursive
<1>5. CASE mark.kind # "neutral" /\ ~Own(t)
  <2>1. boxes' = [boxes EXCEPT ![t][EnterBox(t)] = Unused] /\ Inflate(t, "enter")
    BY <1>2, <1>5 DEF Slow_enter
  <2> QED BY <1>1, <1>5, <2>1, EnterInflates
<1> QED
  BY <1>3, <1>4, <1>5

-----------------------------------------------------------------------------
(* The calls that lock and unlock *)

\* A thread in Java code.
LEMMA JavaFacts ==
  ASSUME Inv, NEW t \in Threads, pc[t] = "java"
  PROVE  /\ pc[t] \notin Preparing /\ loc[t] \in LocRec /\ ~loc[t].inwait
         /\ Depth(t) \in Nat /\ Depth(t) <= MaxDepth /\ Top(t) = Depth(t) /\ ~Extra(t)
         /\ ~InEnterI(t) /\ (Has(t) <=> Depth(t) > 0) /\ Where(t) = "java"
         /\ Reals(t) = {j \in 1..Depth(t) : Real(t, j)}
<1>1. loc[t] \in LocRec /\ Control(t) /\ Depths(t) /\ Depth(t) \in Nat
  BY OfThread
<1>2. Where(t) = "java" /\ ~loc[t].inwait /\ pc[t] \notin Preparing
  BY <1>1 DEF Where, Control, Inflation, Preparing, Plain
<1>3. ~Trying(t) /\ ~Extra(t) /\ ~InEnterI(t) /\ Top(t) = Depth(t)
  BY <1>2 DEF Trying, Extra, InEnterI, Top, Releasing, Spinning, Preparing, Inflation, Owned,
     Plain, Acquiring, Contending, Entering, Last_unlock, Unlocking, Last_exit, Exiting,
     Released, Unlocked, Waiting, Reentered
<1>4. Has(t) <=> Depth(t) > 0
  BY <1>2, <1>3 DEF Has, Spinning, Preparing, Inflation, Owned, Plain, Acquiring, Contending,
     Entering, Last_unlock, Unlocking, Last_exit, Exiting, Released, Unlocked, Waiting,
     Reentered
<1>5. Reals(t) = {j \in 1..Depth(t) : Real(t, j)}
  BY <1>3 DEF Reals
<1> QED
  BY <1>1, <1>2, <1>3, <1>4, <1>5 DEF Depths

\* A call that locks: the program has room for it.
LEMMA EnterCall ==
  ASSUME Inv, NestInv, NEW t \in Threads, NEW kind \in {"java", "jni"}, NEW op,
         Call(t, op), op = IF kind = "java" THEN "lock" ELSE "jni_enter",
         held' = [held EXCEPT ![t] = Append(@, kind)]
  PROVE  /\ NestInv' /\ pc[t] = "java" /\ Depth(t) < MaxDepth /\ todo' \in [Threads -> Seq(Calls)]
         /\ held' \in [Threads -> Seq({"java", "jni"})]
         /\ (\A u \in Threads \ {t} : held'[u] = held[u])
         /\ Depth(t)' = Depth(t) + 1 /\ held'[t][Depth(t) + 1] = kind
         /\ (\A j \in 1..Depth(t) : held'[t][j] = held[t][j])
<1>1. PICK after \in Seq({"java", "jni"}) :
              /\ Structured(First(todo[t]), held[t], after)
              /\ held' = [held EXCEPT ![t] = after] => NestInv'
  BY CallFacts
<1>2. pc[t] = "java" /\ First(todo[t]).op = op /\ todo' \in [Threads -> Seq(Calls)]
  BY CallFacts
<1>3. after = Append(held[t], kind) /\ Len(held[t]) < MaxDepth
  BY <1>1, <1>2 DEF Structured
<1>4. held[t] \in Seq({"java", "jni"}) /\ held \in [Threads -> Seq({"java", "jni"})]
  BY DEF Inv, Typing
<1>5. held'[t] = after /\ held' = [held EXCEPT ![t] = after]
      /\ held' \in [Threads -> Seq({"java", "jni"})] /\ (\A u \in Threads \ {t} : held'[u] = held[u])
  BY <1>3, <1>4
<1>6. Len(after) = Len(held[t]) + 1 /\ after[Len(held[t]) + 1] = kind
      /\ (\A j \in 1..Len(held[t]) : after[j] = held[t][j])
  BY <1>3, <1>4
<1> QED
  BY <1>1, <1>2, <1>3, <1>5, <1>6 DEF Depth

\* The lock call of Java code or JNI starts to acquire a new level.
LEMMA EnterStarts ==
  ASSUME Inv, NestInv, NEW t \in Threads, NEW kind \in {"java", "jni"}, NEW op,
         Call(t, op), op = IF kind = "java" THEN "lock" ELSE "jni_enter",
         held' = [held EXCEPT ![t] = Append(@, kind)],
         UNCHANGED <<om, node, mark, boxes, seen, free, gFreeList, blocks, hashes>>,
         Shape(t), mon' \in [Threads -> Monitors \cup {None}],
         \A u \in Threads \ {t} : mon'[u] = mon[u],
         pc'[t] \notin Outside => mark = Inflated(mon'[t]),
         loc'[t].inwait = loc[t].inwait, loc'[t].save = loc[t].save,
         pc'[t] = "inflate" => loc'[t].then = "enter",
         IF kind = "java" THEN pc'[t] = "slow_enter" ELSE pc'[t] \in {"enter", "inflate"}
  PROVE  Inv' /\ NestInv'
<1>1. /\ NestInv' /\ pc[t] = "java" /\ Depth(t) < MaxDepth /\ todo' \in [Threads -> Seq(Calls)]
      /\ held' \in [Threads -> Seq({"java", "jni"})]
      /\ (\A u \in Threads \ {t} : held'[u] = held[u])
      /\ Depth(t)' = Depth(t) + 1 /\ held'[t][Depth(t) + 1] = kind
      /\ (\A j \in 1..Depth(t) : held'[t][j] = held[t][j])
  BY EnterCall
<1>2. /\ pc[t] \notin Preparing /\ loc[t] \in LocRec /\ ~loc[t].inwait
      /\ Depth(t) \in Nat /\ Top(t) = Depth(t) /\ ~Extra(t)
      /\ ~InEnterI(t) /\ (Has(t) <=> Depth(t) > 0)
  BY <1>1, JavaFacts
<1>3. Where(t)' = IF kind = "java" THEN "slow_enter" ELSE "enter"
  BY DEF Where, Inflation, Preparing
<1>4. PICK n \in 1..MaxDepth : n = Depth(t) + 1
  BY <1>1, <1>2, DepthAssumption
<1>5. Depth(t)' = n /\ (kind = "jni" => Real(t, n)') /\ held'[t][n] = kind
  BY <1>1, <1>4 DEF Real
<1>6. /\ Control(t)' /\ Depths(t)' /\ ~Extra(t)' /\ ~InEnterI(t)' /\ ~Unboxed(t)'
      /\ Top(t)' = n - 1 /\ (Has(t)' <=> n > 1) /\ pc'[t] \notin Preparing \cup {"omAlloc"}
  <2>1. Where(t)' \in Acquiring /\ pc'[t] \in Acquiring \cup {"inflate"}
    BY <1>3 DEF Acquiring
  <2> QED
    BY <1>2, <1>3, <1>5, <2>1, StillTrying
<1>7. Top(t)' = Top(t) /\ (Has(t)' <=> Has(t))
  BY <1>2, <1>4, <1>6
<1>8. Reals(t)' = Reals(t)
  <2>1. \A j \in 1..Top(t) : Real(t, j)' <=> Real(t, j)
    BY <1>1, <1>2 DEF Real
  <2> QED
    BY <1>2, <1>6, <1>7, <2>1, LevelsSame
<1>9. boxes' \in [Threads -> [1..MaxDepth -> Headers]]
  BY DEF Inv, Typing
<1>10. Inv'
  BY <1>1, <1>2, <1>6, <1>7, <1>8, <1>9, LevelsStep
<1> QED
  BY <1>1, <1>10

\* A call that locks.
LEMMA Call_enterKeeps ==
  ASSUME Inv, NestInv, NEW t \in Threads, Call_enter(t)
  PROVE  Inv' /\ NestInv'
<1>1. UNCHANGED <<om, node, mark, boxes, seen, free, gFreeList, blocks, hashes>>
  BY DEF Call_enter
<1>2. CASE /\ Call(t, "lock") /\ held' = [held EXCEPT ![t] = Append(@, "java")]
           /\ Go(t, "slow_enter") /\ UNCHANGED <<loc, mon>>
  <2>1. Shape(t) /\ pc'[t] = "slow_enter" /\ loc'[t] = loc[t]
    BY <1>1, <1>2, SlowLabels, Stays
  <2>2. mon' \in [Threads -> Monitors \cup {None}] /\ (\A u \in Threads \ {t} : mon'[u] = mon[u])
    BY <1>2 DEF Inv, Typing
  <2>3. PICK kind \in {"java", "jni"} : kind = "java"
    OBVIOUS
  <2> QED
    BY <1>1, <1>2, <2>1, <2>2, <2>3, SlowLabels, EnterStarts
<1>3. CASE /\ Call(t, "jni_enter") /\ held' = [held EXCEPT ![t] = Append(@, "jni")]
           /\ Inflate(t, "enter")
  <2>1. /\ Shape(t) /\ pc'[t] \in {"enter", "inflate"}
        /\ (pc'[t] = "inflate" => loc'[t].then = "enter")
        /\ loc'[t].inwait = loc[t].inwait /\ loc'[t].save = loc[t].save
        /\ mon' \in [Threads -> Monitors \cup {None}]
        /\ (\A u \in Threads \ {t} : mon'[u] = mon[u])
        /\ (pc'[t] \notin Outside => mark = Inflated(mon'[t]))
    <3>1. "enter" \in Targets BY DEF Targets
    <3> QED BY <1>1, <1>3, <3>1, InflateFacts
  <2>2. PICK kind \in {"java", "jni"} : kind = "jni"
    OBVIOUS
  <2> QED
    BY <1>1, <1>3, <2>1, <2>2, EnterStarts
<1> QED
  BY <1>2, <1>3 DEF Call_enter

\* A prefix of a sequence.
LEMMA SubSeqFacts ==
  ASSUME NEW S, NEW s \in Seq(S), NEW n \in Nat, n <= Len(s)
  PROVE  Len(SubSeq(s, 1, n)) = n /\ (\A j \in 1..n : SubSeq(s, 1, n)[j] = s[j])
OBVIOUS

\* A call that unlocks: the innermost lock is of its kind.
LEMMA ExitCall ==
  ASSUME Inv, NestInv, NEW t \in Threads, NEW kind \in {"java", "jni"}, NEW op,
         Call(t, op), op \in IF kind = "java" THEN {"unlock", "compiled_unlock"} ELSE {"jni_exit"},
         held' = [held EXCEPT ![t] = Front(@)]
  PROVE  /\ NestInv' /\ pc[t] = "java" /\ Depth(t) > 0 /\ todo' \in [Threads -> Seq(Calls)]
         /\ held' \in [Threads -> Seq({"java", "jni"})]
         /\ (\A u \in Threads \ {t} : held'[u] = held[u])
         /\ Depth(t)' = Depth(t) - 1 /\ held[t][Depth(t)] = kind
         /\ (\A j \in 1..(Depth(t) - 1) : held'[t][j] = held[t][j])
<1>1. PICK after \in Seq({"java", "jni"}) :
              /\ Structured(First(todo[t]), held[t], after)
              /\ held' = [held EXCEPT ![t] = after] => NestInv'
  BY CallFacts
<1>2. pc[t] = "java" /\ First(todo[t]).op = op /\ todo' \in [Threads -> Seq(Calls)]
  BY CallFacts
<1>3. after = Front(held[t]) /\ Len(held[t]) > 0 /\ held[t][Len(held[t])] = kind
  BY <1>1, <1>2 DEF Structured
<1>4. held[t] \in Seq({"java", "jni"}) /\ held \in [Threads -> Seq({"java", "jni"})]
  BY DEF Inv, Typing
<1>5. held'[t] = after /\ held' = [held EXCEPT ![t] = after]
      /\ held' \in [Threads -> Seq({"java", "jni"})] /\ (\A u \in Threads \ {t} : held'[u] = held[u])
  BY <1>3, <1>4
<1>6. Len(after) = Len(held[t]) - 1 /\ (\A j \in 1..(Len(held[t]) - 1) : after[j] = held[t][j])
  <2> DEFINE n == Len(held[t]) - 1
  <2>1. after = SubSeq(held[t], 1, n) /\ n \in Nat /\ n <= Len(held[t])
    BY <1>3, <1>4 DEF Front
  <2>2. \A i \in 1..n : i \in 1..Len(held[t])
    BY <1>4, <2>1
  <2> HIDE DEF n
  <2>3. Len(after) = n /\ (\A j \in 1..n : after[j] = held[t][j])
    BY <1>4, <2>1, <2>2, SubSeqFacts
  <2> QED
    BY <2>3 DEF n
<1> QED
  BY <1>1, <1>2, <1>3, <1>5, <1>6 DEF Depth

\* The unlock call starts to release the innermost level.
LEMMA ExitStarts ==
  ASSUME Inv, NestInv, NEW t \in Threads, NEW kind \in {"java", "jni"}, NEW op,
         Call(t, op), op \in IF kind = "java" THEN {"unlock", "compiled_unlock"} ELSE {"jni_exit"},
         held' = [held EXCEPT ![t] = Front(@)],
         UNCHANGED <<om, node, mark, boxes, seen, free, gFreeList, blocks, hashes>>,
         Shape(t), mon' \in [Threads -> Monitors \cup {None}],
         \A u \in Threads \ {t} : mon'[u] = mon[u],
         pc'[t] \notin Outside => mark = Inflated(mon'[t]),
         loc'[t].inwait = loc[t].inwait, loc'[t].save = loc[t].save,
         pc'[t] = "inflate" => loc'[t].then = "exit",
         pc'[t] \in IF kind = "java" THEN {"fast_exit", "compiled_unlock"} ELSE {"exit", "inflate"}
  PROVE  Inv' /\ NestInv'
<1> DEFINE d == Depth(t)
<1>1. /\ NestInv' /\ pc[t] = "java" /\ d > 0 /\ todo' \in [Threads -> Seq(Calls)]
      /\ held' \in [Threads -> Seq({"java", "jni"})]
      /\ (\A u \in Threads \ {t} : held'[u] = held[u])
      /\ Depth(t)' = d - 1 /\ held[t][d] = kind
      /\ (\A j \in 1..(d - 1) : held'[t][j] = held[t][j])
  BY ExitCall
<1>2. /\ pc[t] \notin Preparing /\ loc[t] \in LocRec /\ ~loc[t].inwait
      /\ d \in Nat /\ d <= MaxDepth /\ ~InEnterI(t) /\ (Has(t) <=> d > 0)
      /\ Reals(t) = {j \in 1..d : Real(t, j)}
  BY <1>1, JavaFacts
<1>3. /\ Where(t)' \in IF kind = "java" THEN {"fast_exit", "compiled_unlock"} ELSE {"exit"}
      /\ ~loc'[t].inwait
  BY <1>2 DEF Where, Inflation, Preparing
<1>4. ~Trying(t)' /\ Releasing(t)' /\ ~InEnterI(t)' /\ ~Unboxed(t)' /\ Has(t)'
      /\ pc'[t] \notin Preparing \cup {"omAlloc"}
  BY <1>3 DEF Trying, Releasing, InEnterI, Unboxed, Has, Spinning, Preparing, Inflation,
     Owned, Plain, Acquiring, Contending, Entering, Last_unlock, Unlocking, Last_exit,
     Exiting, Released, Unlocked, Waiting, Reentered
<1>5. Control(t)'
  BY <1>3 DEF Control, Spinning, Preparing, Inflation, Owned, Plain, Acquiring, Contending,
     Entering, Last_unlock, Unlocking, Last_exit, Exiting, Released, Unlocked, Waiting,
     Reentered
<1>6. PICK n \in Nat : n = d /\ n > 0 /\ n <= MaxDepth
  BY <1>1, <1>2
<1>7. Depth(t)' = n - 1
  BY <1>1, <1>6
<1>8. Depths(t)'
  <2>1. /\ pc'[t] \notin Spinning
        /\ ~(Where(t)' \in Contending \cup Entering \cup Released \cup Unlocked \cup Last_exit
                \cup Last_unlock \cup Owned \cup {"stack_lock", "slow_enter"})
        /\ ~(Where(t)' \in (Unlocking \cup Unlocked) \ {"fast_exit", "compiled_unlock"})
    BY <1>3 DEF Spinning, Preparing, Inflation, Owned, Plain, Acquiring, Contending, Entering,
       Last_unlock, Unlocking, Last_exit, Exiting, Released, Unlocked, Waiting, Reentered
  <2>2. n - 1 <= MaxDepth /\ n - 1 < MaxDepth
    BY <1>6, DepthAssumption
  <2> HIDE DEF d
  <2> QED
    BY <1>3, <1>4, <1>7, <2>1, <2>2 DEF Depths
<1>9. Extra(t)' <=> Real(t, n)
  <2>1. Extra(t)' <=> (\/ Where(t)' \notin {"fast_exit", "compiled_unlock"} \/ boxes[t][n] # Recursive)
    <3>1. Depth(t)' + 1 = n BY <1>7, <1>6
    <3> QED BY <1>4, <3>1 DEF Extra
  <2>2. Real(t, n) <=> (kind = "jni" \/ boxes[t][n] # Recursive)
    BY <1>1, <1>6 DEF Real
  <2> QED BY <1>3, <2>1, <2>2
<1>10. Reals(t)' = Reals(t)
  <2>1. Reals(t)' = {j \in 1..(n - 1) : Real(t, j)'} \cup (IF Extra(t)' THEN {n} ELSE {})
    <3>1. Top(t)' = n - 1 /\ Depth(t)' + 1 = n BY <1>4, <1>6, <1>7 DEF Top
    <3> QED BY <3>1 DEF Reals
  <2>2. \A j \in 1..(n - 1) : Real(t, j)' <=> Real(t, j)
    BY <1>1, <1>6 DEF Real
  <2>3. \A j : j \in 1..n <=> j \in 1..(n - 1) \/ j = n
    BY <1>6
  <2>4. Reals(t) = {j \in 1..n : Real(t, j)}
    BY <1>2, <1>6
  <2> QED
    BY <1>9, <2>1, <2>2, <2>3, <2>4
<1>11. boxes' \in [Threads -> [1..MaxDepth -> Headers]] /\ (Has(t)' <=> Has(t))
  BY <1>1, <1>2, <1>4 DEF Inv, Typing
<1> HIDE DEF d
<1>12. Inv'
  BY <1>1, <1>2, <1>4, <1>5, <1>8, <1>10, <1>11, LevelsStep
<1> QED
  BY <1>1, <1>12

\* The labels of the two unlocks.
LEMMA ExitLabels == "fast_exit" \in Labels /\ "compiled_unlock" \in Labels /\ "fast_exit" \in Outside
                    /\ "compiled_unlock" \in Outside
BY DEF Labels, Unlocking, Outside

\* A call that unlocks.
LEMMA Call_exitKeeps ==
  ASSUME Inv, NestInv, NEW t \in Threads, Call_exit(t)
  PROVE  Inv' /\ NestInv'
<1>1. /\ UNCHANGED <<om, node, mark, boxes, seen, free, gFreeList, blocks, hashes>>
      /\ held' = [held EXCEPT ![t] = Front(@)]
  BY DEF Call_exit
<1>2. ASSUME NEW l \in {"fast_exit", "compiled_unlock"}, NEW op \in {"unlock", "compiled_unlock"},
             Call(t, op), Go(t, l), UNCHANGED <<loc, mon>>
      PROVE  Inv' /\ NestInv'
  <2>1. Shape(t) /\ pc'[t] = l /\ loc'[t] = loc[t]
    BY <1>1, <1>2, ExitLabels, Stays
  <2>2. mon' \in [Threads -> Monitors \cup {None}] /\ (\A u \in Threads \ {t} : mon'[u] = mon[u])
    BY <1>2 DEF Inv, Typing
  <2>3. PICK kind \in {"java", "jni"} : kind = "java"
    OBVIOUS
  <2> QED
    BY <1>1, <1>2, <2>1, <2>2, <2>3, ExitLabels, ExitStarts
<1>3. CASE Call(t, "jni_exit") /\ Inflate(t, "exit")
  <2>1. /\ Shape(t) /\ pc'[t] \in {"exit", "inflate"}
        /\ (pc'[t] = "inflate" => loc'[t].then = "exit")
        /\ loc'[t].inwait = loc[t].inwait /\ loc'[t].save = loc[t].save
        /\ mon' \in [Threads -> Monitors \cup {None}]
        /\ (\A u \in Threads \ {t} : mon'[u] = mon[u])
        /\ (pc'[t] \notin Outside => mark = Inflated(mon'[t]))
    <3>1. "exit" \in Targets BY DEF Targets
    <3> QED BY <1>1, <1>3, <3>1, InflateFacts
  <2>2. PICK kind \in {"java", "jni"} : kind = "jni"
    OBVIOUS
  <2> QED
    BY <1>1, <1>3, <2>1, <2>2, ExitStarts
<1> QED
  BY <1>2, <1>3 DEF Call_exit

-----------------------------------------------------------------------------
(* The free lists *)

\* Lists of monitors without repetition.
Listing(s, S) == s \in Seq(Monitors) /\ IsInjective(s) /\ Members(s) = S

\* The empty free list.
LEMMA ListNone == Listing(<<>>, {})
BY DEF Listing, IsInjective, Members

\* A free list of one monitor.
LEMMA ListOne ==
  ASSUME NEW m \in Monitors
  PROVE  Listing(<<m>>, {m})
BY DEF Listing, IsInjective, Members

\* A monitor is taken off a free list.
LEMMA ListTail ==
  ASSUME NEW s, NEW S, Listing(s, S), s # <<>>
  PROVE  First(s) \in S /\ First(s) \in Monitors /\ Listing(Tail(s), S \ {First(s)})
<1>1. s \in Seq(Monitors) /\ Len(s) \in Nat /\ Len(s) >= 1 /\ DOMAIN s = 1..Len(s) /\ First(s) = s[1]
  BY DEF Listing, First
<1>2. /\ Tail(s) \in Seq(Monitors) /\ Len(Tail(s)) = Len(s) - 1 /\ DOMAIN Tail(s) = 1..(Len(s) - 1)
      /\ (\A i \in 1..(Len(s) - 1) : Tail(s)[i] = s[i + 1])
  BY <1>1
<1>3. \A i, j \in 1..Len(s) : s[i] = s[j] => i = j
  BY <1>1 DEF Listing, IsInjective
<1>4. IsInjective(Tail(s))
  BY <1>1, <1>2, <1>3 DEF IsInjective
<1>5. S = {s[i] : i \in 1..Len(s)}
  BY <1>1 DEF Listing, Members
<1>6. ASSUME NEW x \in S \ {s[1]} PROVE x \in Members(Tail(s))
  <2>1. PICK i \in 1..Len(s) : x = s[i]
    BY <1>5
  <2>2. i # 1 /\ i - 1 \in 1..(Len(s) - 1) /\ (i - 1) + 1 = i
    BY <1>1, <1>6, <2>1
  <2>3. Tail(s)[i - 1] = x
    BY <1>2, <2>1, <2>2
  <2> QED
    BY <1>2, <2>2, <2>3 DEF Members
<1>7. ASSUME NEW x \in Members(Tail(s)) PROVE x \in S \ {s[1]}
  <2>1. PICK i \in 1..(Len(s) - 1) : x = s[i + 1]
    BY <1>2 DEF Members
  <2>2. i + 1 \in 1..Len(s) /\ i + 1 # 1 /\ 1 \in 1..Len(s)
    BY <1>1
  <2> QED
    BY <1>3, <1>5, <2>1, <2>2
<1>8. s[1] \in S /\ s[1] \in Monitors
  BY <1>1, <1>5
<1> QED
  BY <1>1, <1>2, <1>4, <1>6, <1>7, <1>8 DEF Listing

\* Two free lists are joined.
LEMMA ListConcat ==
  ASSUME NEW r, NEW R, Listing(r, R), NEW s, NEW S, Listing(s, S), R \cap S = {}
  PROVE  Listing(r \o s, R \cup S)
<1> DEFINE q == r \o s
           a == Len(r)
           b == Len(s)
<1>1. /\ r \in Seq(Monitors) /\ s \in Seq(Monitors) /\ a \in Nat /\ b \in Nat
      /\ DOMAIN r = 1..a /\ DOMAIN s = 1..b
  BY DEF Listing
<1>2. /\ q \in Seq(Monitors) /\ Len(q) = a + b /\ DOMAIN q = 1..(a + b)
      /\ (\A i \in 1..(a + b) : q[i] = IF i <= a THEN r[i] ELSE s[i - a])
  BY <1>1
<1>3. /\ (\A i, j \in 1..a : r[i] = r[j] => i = j) /\ (\A i, j \in 1..b : s[i] = s[j] => i = j)
      /\ R = {r[i] : i \in 1..a} /\ S = {s[i] : i \in 1..b}
  BY <1>1 DEF Listing, IsInjective, Members
<1> HIDE DEF q, a, b
<1>4. \A i \in 1..(a + b) : \/ i \in 1..a /\ q[i] = r[i]
                            \/ i - a \in 1..b /\ ~(i <= a) /\ q[i] = s[i - a]
  BY <1>1, <1>2
<1>5. \A i \in 1..a, j \in 1..b : r[i] # s[j]
  BY <1>3
<1>6. IsInjective(q)
  <2> SUFFICES ASSUME NEW i \in 1..(a + b), NEW j \in 1..(a + b), q[i] = q[j] PROVE i = j
    BY <1>2 DEF IsInjective
  <2> QED
    BY <1>1, <1>3, <1>4, <1>5
<1>7. ASSUME NEW x \in R PROVE x \in Members(q)
  <2>1. PICK i \in 1..a : x = r[i]
    BY <1>3
  <2>2. i \in 1..(a + b) /\ q[i] = x
    BY <1>1, <1>2, <2>1
  <2> QED
    BY <1>2, <2>2 DEF Members
<1>8. ASSUME NEW x \in S PROVE x \in Members(q)
  <2>1. PICK i \in 1..b : x = s[i]
    BY <1>3
  <2>2. i + a \in 1..(a + b) /\ ~(i + a <= a) /\ (i + a) - a = i
    BY <1>1
  <2>3. q[i + a] = x
    BY <1>2, <2>1, <2>2
  <2> QED
    BY <1>2, <2>2, <2>3 DEF Members
<1>9. ASSUME NEW x \in Members(q) PROVE x \in R \cup S
  BY <1>2, <1>3, <1>4, <1>9 DEF Members
<1> QED
  BY <1>2, <1>6, <1>7, <1>8, <1>9 DEF Listing, q

\* A free list is reversed.
LEMMA ListReverse ==
  ASSUME NEW s, NEW S, Listing(s, S)
  PROVE  Listing(Reverse(s), S)
<1> DEFINE q == Reverse(s)
           n == Len(s)
<1>1. s \in Seq(Monitors) /\ n \in Nat /\ DOMAIN s = 1..n
  BY DEF Listing
<1>2. q = [i \in 1..n |-> s[(n - i) + 1]]
  BY DEF Reverse
<1>3. (\A i, j \in 1..n : s[i] = s[j] => i = j) /\ S = {s[i] : i \in 1..n}
  BY <1>1 DEF Listing, IsInjective, Members
<1> HIDE DEF q, n
<1>4. \A i \in 1..n : (n - i) + 1 \in 1..n
  BY <1>1
<1>5. q \in Seq(Monitors) /\ DOMAIN q = 1..n /\ (\A i \in 1..n : q[i] = s[(n - i) + 1])
  <2>1. \A i \in 1..n : s[(n - i) + 1] \in Monitors
    BY <1>1, <1>4 DEF n
  <2> QED
    BY <1>1, <1>2, <2>1
<1>6. IsInjective(q)
  BY <1>1, <1>3, <1>4, <1>5 DEF IsInjective
<1>7. ASSUME NEW x \in S PROVE x \in Members(q)
  <2>1. PICK i \in 1..n : x = s[i]
    BY <1>3
  <2>2. (n - i) + 1 \in 1..n /\ (n - ((n - i) + 1)) + 1 = i
    BY <1>1
  <2>3. q[(n - i) + 1] = x
    BY <1>5, <2>1, <2>2
  <2> QED
    BY <1>5, <2>2, <2>3 DEF Members
<1>8. ASSUME NEW x \in Members(q) PROVE x \in S
  BY <1>3, <1>4, <1>5, <1>8 DEF Members
<1> QED
  BY <1>5, <1>6, <1>7, <1>8 DEF Listing, q

\* The free lists, as sets.
LEMMA Lists2 ==
  ASSUME Inv
  PROVE  /\ Listing(gFreeList, Members(gFreeList)) /\ Members(gFreeList) \subseteq 1..blocks
         /\ (\A t \in Threads : Listing(free[t], Members(free[t])) /\ Members(free[t]) \subseteq 1..blocks)
         /\ blocks \in Nat /\ 1..blocks \subseteq Monitors
<1>1. blocks \in 0..MaxMonitors /\ MaxMonitors \in Nat /\ Monitors = 1..MaxMonitors
  BY MonitorsAssumption DEF Inv, Typing
<1> QED
  BY <1>1 DEF Inv, Typing, PoolInv, Placed, Listing

\* A step on the free lists alone.
LEMMA OnlyPools ==
  ASSUME Inv, UNCHANGED <<om, pc, mon, loc, node, mark, boxes, held, seen, hashes>>,
         todo' \in [Threads -> Seq(Calls)], free' \in [Threads -> Seq(Monitors)],
         gFreeList' \in Seq(Monitors), blocks' \in 0..MaxMonitors, PoolInv'
  PROVE  Inv'
<1>1. Typing'
  BY DEF Inv, Typing
<1>2. \A t \in Threads : /\ (Has(t)' <=> Has(t)) /\ (InEnterI(t)' <=> InEnterI(t))
                         /\ (Control(t)' <=> Control(t)) /\ (Depths(t)' <=> Depths(t))
                         /\ (Unboxed(t)' <=> Unboxed(t)) /\ Reals(t)' = Reals(t)
  BY Unmoved
<1>3. \A t \in Threads : (Inflater(t)' <=> Inflater(t)) /\ (StackOwner(t)' <=> StackOwner(t))
                         /\ (MonitorOwner(t)' <=> MonitorOwner(t))
  BY DEF Inflater, StackOwner, MonitorOwner
<1>4. \A t \in Threads : Counted(t)' <=> Counted(t)
  BY <1>2, <1>3 DEF Counted
<1>5. ThreadInv' /\ OwnerInv'
  BY <1>2, <1>3, <1>4 DEF Inv, ThreadInv, OwnerInv
<1>6. HeaderInv' /\ InflateInv' /\ UseInv'
  BY <1>3 DEF Inv, HeaderInv, InflateInv, UseInv, Agrees
<1>7. MonitorInv'
  <2>1. /\ {t \in Threads : InEnterI(t)}' = {t \in Threads : InEnterI(t)}
        /\ {t \in Threads : loc[t].inwait}' = {t \in Threads : loc[t].inwait}
    BY <1>2
  <2> QED
    BY <2>1 DEF Inv, MonitorInv, MonitorOK
<1> QED
  BY <1>1, <1>5, <1>6, <1>7 DEF Inv

\* OmAlloc takes monitors from the global list.
LEMMA omAlloc_globalKeeps ==
  ASSUME Inv, NEW t \in Threads, omAlloc_global(t)
  PROVE  Inv'
<1>1. /\ free[t] = <<>> /\ free' = [free EXCEPT ![t] = Reverse(gFreeList)] /\ gFreeList' = <<>>
      /\ UNCHANGED <<om, pc, mon, loc, node, mark, boxes, held, seen, hashes, blocks, todo>>
  BY DEF omAlloc_global
<1>2. Listing(Reverse(gFreeList), Members(gFreeList)) /\ Members(free[t]) = {} /\ Members(gFreeList') = {}
  BY <1>1, Lists2, ListReverse, ListNone DEF Listing
<1>3. /\ free' \in [Threads -> Seq(Monitors)] /\ free'[t] = Reverse(gFreeList)
      /\ (\A u \in Threads \ {t} : free'[u] = free[u])
  BY <1>1, <1>2 DEF Inv, Typing, Listing
<1>4. /\ Members(free'[t]) = Members(gFreeList) /\ IsInjective(free'[t])
      /\ (\A u \in Threads \ {t} : Members(free'[u]) = Members(free[u]))
  BY <1>2, <1>3 DEF Listing
<1>5. IsInjective(gFreeList') /\ gFreeList' \in Seq(Monitors)
  BY <1>1, ListNone DEF Listing
<1>6. PoolInv'
  BY <1>1, <1>2, <1>3, <1>4, <1>5 DEF Inv, PoolInv, Placed
<1>7. todo' \in [Threads -> Seq(Calls)] /\ blocks' \in 0..MaxMonitors
  BY <1>1 DEF Inv, Typing
<1> QED
  BY <1>1, <1>3, <1>5, <1>6, <1>7, OnlyPools

\* OmAlloc allocates a block.
LEMMA omAlloc_blockKeeps ==
  ASSUME Inv, NEW t \in Threads, omAlloc_block(t)
  PROVE  Inv'
<1>1. /\ gFreeList = <<>> /\ blocks < MaxMonitors /\ gFreeList' = <<blocks + 1>> /\ blocks' = blocks + 1
      /\ UNCHANGED <<om, pc, mon, loc, node, mark, boxes, held, seen, hashes, free, todo>>
  BY DEF omAlloc_block
<1>2. PICK b \in Nat : b = blocks /\ b + 1 \in Monitors /\ 1..(b + 1) = 1..b \cup {b + 1} /\ b + 1 \notin 1..b
                       /\ b + 1 \in 0..MaxMonitors
  BY <1>1, MonitorsAssumption DEF Inv, Typing
<1>3. Listing(<<b + 1>>, {b + 1})
  BY <1>2, ListOne
<1>4. Members(gFreeList) = {} /\ Members(gFreeList') = {b + 1} /\ IsInjective(gFreeList')
      /\ gFreeList' \in Seq(Monitors)
  BY <1>1, <1>2, <1>3, ListNone DEF Listing
<1>5. PoolInv'
  <2>1. 1..blocks' = 1..blocks \cup {b + 1} /\ b + 1 \notin 1..blocks /\ Members(gFreeList') = {b + 1}
    BY <1>1, <1>2, <1>4
  <2>2. mark # Inflated(b + 1)
    BY <1>2, <2>1 DEF Inv, PoolInv, Placed
  <2>3. PoolInv
    BY DEF Inv
  <2>4. /\ (\A u \in Threads : b + 1 \notin Members(free[u]))
        /\ (\A u \in Threads : pc[u] \in Preparing => mon[u] # b + 1)
    BY <2>1, <2>3 DEF PoolInv, Placed
  <2>5. ASSUME NEW m \in 1..blocks'
        PROVE  /\ \A v, u \in Threads : m \in Members(free'[v]) /\ m \in Members(free'[u]) => v = u
               /\ \A v, u \in Threads : pc'[v] \in Preparing /\ mon'[v] = m /\ pc'[u] \in Preparing
                                          /\ mon'[u] = m => v = u
               /\ \A v \in Threads : m \in Members(free'[v]) =>
                    /\ m \notin Members(gFreeList') /\ mark' # Inflated(m)
                    /\ \A u \in Threads : pc'[u] \in Preparing => mon'[u] # m
               /\ m \in Members(gFreeList') => /\ mark' # Inflated(m)
                                               /\ \A u \in Threads : pc'[u] \in Preparing => mon'[u] # m
               /\ mark' = Inflated(m) => \A u \in Threads : pc'[u] \in Preparing => mon'[u] # m
               /\ \/ m \in Members(gFreeList') \/ mark' = Inflated(m)
                  \/ \E v \in Threads : m \in Members(free'[v]) \/ (pc'[v] \in Preparing /\ mon'[v] = m)
    <3>1. CASE m = b + 1
      BY <1>1, <2>1, <2>2, <2>4, <3>1
    <3>2. CASE m \in 1..blocks
      BY <1>1, <1>4, <2>1, <2>3, <3>2 DEF PoolInv, Placed
    <3> QED BY <2>1, <2>5, <3>1, <3>2
  <2> QED
    BY <1>1, <1>4, <2>1, <2>3, <2>5 DEF PoolInv, Placed
<1>6. todo' \in [Threads -> Seq(Calls)] /\ free' \in [Threads -> Seq(Monitors)] /\ blocks' \in 0..MaxMonitors
  BY <1>1, <1>2 DEF Inv, Typing
<1> QED
  BY <1>1, <1>4, <1>5, <1>6, OnlyPools

\* A thread that exits gives its free list back.
LEMMA Call_omFlushKeeps ==
  ASSUME Inv, NestInv, NEW t \in Threads, Call_omFlush(t)
  PROVE  Inv' /\ NestInv'
<1>1. /\ gFreeList' = free[t] \o gFreeList /\ free' = [free EXCEPT ![t] = <<>>]
      /\ Call(t, "omFlush") /\ held' = held
      /\ UNCHANGED <<om, pc, mon, loc, node, mark, boxes, held, seen, hashes, blocks>>
  BY DEF Call_omFlush
<1>2. NestInv' /\ todo' \in [Threads -> Seq(Calls)]
  BY <1>1, CallQuiet
<1>3. Members(free[t]) \cap Members(gFreeList) = {}
  BY DEF Inv, PoolInv, Placed
<1>4. Listing(gFreeList', Members(free[t]) \cup Members(gFreeList))
  BY <1>1, <1>3, Lists2, ListConcat
<1>5. /\ free' \in [Threads -> Seq(Monitors)] /\ free'[t] = <<>>
      /\ (\A u \in Threads \ {t} : free'[u] = free[u])
  BY <1>1, ListNone DEF Inv, Typing, Listing
<1>6. /\ Members(free'[t]) = {} /\ IsInjective(free'[t])
      /\ (\A u \in Threads \ {t} : Members(free'[u]) = Members(free[u]))
      /\ Members(gFreeList') = Members(free[t]) \cup Members(gFreeList)
      /\ IsInjective(gFreeList') /\ gFreeList' \in Seq(Monitors)
  BY <1>4, <1>5, ListNone DEF Listing
<1>7. PoolInv'
  BY <1>1, <1>5, <1>6 DEF Inv, PoolInv, Placed
<1>8. blocks' \in 0..MaxMonitors
  BY <1>1 DEF Inv, Typing
<1>9. Inv'
  BY <1>1, <1>2, <1>5, <1>6, <1>7, <1>8, OnlyPools
<1> QED
  BY <1>2, <1>9

-----------------------------------------------------------------------------
(* Inflation *)

\* What inflate() has still to do does not change where it returns to.
LEMMA InflationProfile ==
  ASSUME Inv, NEW t \in Threads, pc[t] \in Inflation, pc'[t] \in Inflation, loc'[t] = loc[t],
         held'[t] = held[t], boxes'[t] = boxes[t]
  PROVE  /\ (Has(t)' <=> Has(t)) /\ ~InEnterI(t) /\ ~InEnterI(t)' /\ Control(t)' /\ Depths(t)'
         /\ Reals(t)' = Reals(t) /\ (Unboxed(t)' <=> Unboxed(t))
<1>1. Control(t) /\ Depths(t)
  BY OfThread
<1>2. /\ Where(t) = loc[t].then /\ Where(t)' = loc[t].then /\ Depth(t)' = Depth(t)
      /\ (\A j : Real(t, j)' <=> Real(t, j))
  BY DEF Where, Depth, Real
<1>3. pc[t] \notin Spinning /\ pc'[t] \notin Spinning
  BY DEF Spinning, Inflation, Preparing
<1>4. (Trying(t)' <=> Trying(t)) /\ (Releasing(t)' <=> Releasing(t)) /\ (Unboxed(t)' <=> Unboxed(t))
  BY <1>2, <1>3 DEF Trying, Releasing, Unboxed
<1>5. Top(t)' = Top(t) /\ (Extra(t)' <=> Extra(t))
  BY <1>2, <1>4 DEF Top, Extra
<1>6. (Has(t)' <=> Has(t)) /\ Reals(t)' = Reals(t)
  BY <1>2, <1>5 DEF Has, Reals
<1>7. ~InEnterI(t) /\ ~InEnterI(t)'
  BY DEF InEnterI, Inflation, Preparing, Contending, Entering, Spinning
<1>8. Control(t)'
  BY <1>1 DEF Control, Spinning, Preparing, Inflation, Owned, Plain, Acquiring, Contending,
     Entering, Last_unlock, Unlocking, Last_exit, Exiting, Released, Unlocked, Waiting,
     Reentered
<1>9. Depths(t)'
  BY <1>1, <1>2, <1>3, <1>4 DEF Depths
<1> QED
  BY <1>4, <1>6, <1>7, <1>8, <1>9

\* A step of inflate() that prepares the monitor x, not yet the object's.
LEMMA PrepareStep ==
  ASSUME Inv, NEW t \in Threads, Shape(t), pc[t] \in Inflation, pc'[t] \in Inflation, loc'[t] = loc[t],
         UNCHANGED <<mark, boxes, held, hashes>>,
         NEW x \in Monitors, mark # Inflated(x), \A y \in Monitors \ {x} : om'[y] = om[y],
         \A u \in Threads \ {t} : mon'[u] = mon[u] /\ seen'[u] = seen[u],
         \A u \in Threads \ {t} : pc[u] \in Preparing => mon[u] # x,
         pc[t] \in Preparing => mon[t] = x, pc'[t] \in Preparing => mon'[t] = x,
         Inflater(t)' <=> Inflater(t), Inflater(t) => seen'[t] = seen[t],
         pc'[t] \in {"omAlloc", "inflate_stack", "inflate_neutral"} =>
           seen'[t] \in Neutrals \cup {Stack(u, 1) : u \in Threads},
         pc'[t] \in {"inflate_stack", "inflate_dmw", "inflate_publish"} =>
           \E u \in Threads : seen'[t] = Stack(u, 1),
         pc'[t] = "inflate_neutral" => seen'[t] \in Neutrals /\ om'[x].header = seen'[t],
         pc'[t] = "inflate_publish" => /\ om'[x].header = boxes[seen[t].thread][1]
                                       /\ om'[x].owner = seen[t].thread,
         om'[x].recursions = 0, om'[x].count = 0, om'[x].waiters = 0,
         (om'[x].owner = None /\ ~om'[x].box) \/ pc'[t] = "inflate_publish",
         om'[x].object => pc'[t] \in {"inflate_neutral", "inflate_publish"}
  PROVE  ThreadInv' /\ OwnerInv' /\ HeaderInv' /\ InflateInv' /\ MonitorInv' /\ UseInv'
<1>1. \A u \in Threads : /\ (Has(u)' <=> Has(u)) /\ (InEnterI(u)' <=> InEnterI(u))
                         /\ Control(u)' /\ Depths(u)' /\ Reals(u)' = Reals(u)
                         /\ (Unboxed(u)' <=> Unboxed(u)) /\ loc'[u] = loc[u]
  BY OthersStay, InflationProfile
<1>2. \A u \in Threads \ {t} : pc'[u] = pc[u]
  BY DEF Shape
<1>3. \A u \in Threads : /\ (Inflater(u)' <=> Inflater(u)) /\ (Inflater(u) => seen'[u] = seen[u])
  BY <1>2 DEF Inflater
<1>4. mark.kind = "inflated" => mark.monitor \in Monitors \ {x} /\ om'[mark.monitor] = om[mark.monitor]
  BY MarkAt
<1>5. \A u \in Threads : (StackOwner(u)' <=> StackOwner(u)) /\ (MonitorOwner(u)' <=> MonitorOwner(u))
  BY <1>3, <1>4 DEF StackOwner, MonitorOwner
<1>6. OwnerInv'
  BY <1>1, <1>5 DEF Inv, OwnerInv
<1>7. ASSUME NEW u \in Threads PROVE Counted(u)'
  <2>1. Counted(u) BY DEF Inv, ThreadInv
  <2> QED BY <1>1, <1>4, <1>5, <2>1 DEF Counted, MonitorOwner
<1>8. ThreadInv'
  BY <1>1, <1>7 DEF ThreadInv
<1>9. HeaderInv'
  BY <1>3, <1>4 DEF Inv, HeaderInv, Agrees
<1>10. UseInv'
  BY <1>2 DEF Inv, UseInv, Inflation, Preparing, Outside
<1>11. InflateInv'
  <2>1. \A u \in Threads \ {t} : pc[u] \in Preparing => om'[mon[u]] = om[mon[u]]
    BY MonitorsAssumption DEF Inv, PoolInv, Placed, Typing
  <2>2. ASSUME NEW u \in Threads
        PROVE  /\ pc'[u] \in {"omAlloc", "inflate_stack", "inflate_neutral"} =>
                    seen'[u] \in Neutrals \cup {Stack(v, 1) : v \in Threads}
               /\ pc'[u] \in {"inflate_stack", "inflate_dmw", "inflate_publish"} =>
                    \E v \in Threads : seen'[u] = Stack(v, 1)
               /\ pc'[u] = "inflate_neutral" => /\ seen'[u] \in Neutrals
                                                /\ om'[mon'[u]].header = seen'[u]
               /\ pc'[u] = "inflate_publish" => /\ om'[mon'[u]].header = boxes'[seen'[u].thread][1]
                                                /\ om'[mon'[u]].owner = seen'[u].thread
    <3>1. CASE u = t
      BY <1>3, <3>1 DEF Inflater, Preparing
    <3>2. CASE u # t
      BY <1>2, <2>1, <3>2 DEF Inv, InflateInv, Preparing
    <3> QED BY <3>1, <3>2
  <2> QED BY <1>3, <2>2 DEF InflateInv, Inv
<1>12. MonitorInv'
  <2> SUFFICES ASSUME NEW m \in Monitors PROVE MonitorOK(m)'
    BY DEF MonitorInv
  <2>1. CASE m = x
    BY <2>1 DEF MonitorOK, Preparing
  <2>2. CASE m # x
    <3>1. MonitorOK(m) /\ om'[m] = om[m]
      BY <2>2 DEF Inv, MonitorInv
    <3>2. /\ {u \in Threads : InEnterI(u)}' = {u \in Threads : InEnterI(u)}
          /\ {u \in Threads : loc[u].inwait}' = {u \in Threads : loc[u].inwait}
      BY <1>1
    <3>3. \A u \in Threads, l \in Preparing : pc'[u] = l /\ mon'[u] = m <=> pc[u] = l /\ mon[u] = m
      BY <1>2, <2>2
    <3> QED BY <3>1, <3>2, <3>3 DEF MonitorOK, Preparing
  <2> QED BY <2>1, <2>2
<1> QED
  BY <1>6, <1>8, <1>9, <1>10, <1>11, <1>12

\* Inflate reads a stable mark.
LEMMA Inflate_readKeeps ==
  ASSUME Inv, NEW t \in Threads, Inflate_read(t)
  PROVE  Inv'
<1>1. /\ pc[t] = "inflate" /\ mark.kind \in {"stack", "neutral"} /\ Go(t, "omAlloc")
      /\ seen' = [seen EXCEPT ![t] = mark]
      /\ UNCHANGED <<om, mon, node, loc, mark, boxes, held, free, gFreeList, blocks, todo, hashes>>
  BY DEF Inflate_read
<1>2. "omAlloc" \in Labels /\ pc[t] \in Inflation /\ "omAlloc" \in Inflation /\ pc[t] \notin Preparing
      /\ "omAlloc" \notin Preparing
  BY <1>1 DEF Labels, Inflation, Preparing
<1>3. Shape(t) /\ pc'[t] = "omAlloc" /\ loc'[t] = loc[t]
  BY <1>1, <1>2, Stays
<1>4. mark \in Neutrals \cup {Stack(u, 1) : u \in Threads} /\ mark \in Marks
  BY <1>1, MarkCases, MarkFacts DEF Inv, Typing
<1>5. /\ seen'[t] = mark /\ seen' \in [Threads -> Marks \cup {None}]
      /\ (\A u \in Threads \ {t} : seen'[u] = seen[u])
  BY <1>1, <1>4 DEF Inv, Typing
<1>6. ~Inflater(t) /\ ~Inflater(t)'
  BY <1>1, <1>3 DEF Inflater
<1>7. ThreadInv' /\ OwnerInv' /\ HeaderInv' /\ UseInv' /\ InflateInv' /\ MonitorInv' /\ PoolInv'
  <2>1. \A u \in Threads : /\ (Has(u)' <=> Has(u)) /\ (InEnterI(u)' <=> InEnterI(u))
                           /\ Control(u)' /\ Depths(u)' /\ Reals(u)' = Reals(u)
                           /\ (Unboxed(u)' <=> Unboxed(u)) /\ loc'[u] = loc[u]
    BY <1>1, <1>2, <1>3, OthersStay, InflationProfile
  <2>2. \A u \in Threads \ {t} : pc'[u] = pc[u]
    BY <1>3 DEF Shape
  <2>3. \A u \in Threads : /\ (Inflater(u)' <=> Inflater(u)) /\ (Inflater(u) => seen'[u] = seen[u])
                           /\ (pc'[u] \in Preparing <=> pc[u] \in Preparing)
                           /\ (pc[u] \in Preparing => pc'[u] = pc[u] /\ seen'[u] = seen[u])
    BY <1>2, <1>3, <1>5, <1>6, <2>2 DEF Inflater
  <2>4. \A u \in Threads : (StackOwner(u)' <=> StackOwner(u)) /\ (MonitorOwner(u)' <=> MonitorOwner(u))
    BY <1>1, <2>3 DEF StackOwner, MonitorOwner
  <2>5. OwnerInv'
    BY <2>1, <2>4 DEF Inv, OwnerInv
  <2>6. ASSUME NEW u \in Threads PROVE Counted(u)'
    <3>1. Counted(u) BY DEF Inv, ThreadInv
    <3> QED BY <1>1, <2>1, <2>4, <3>1 DEF Counted
  <2>7. ThreadInv'
    BY <2>1, <2>6 DEF ThreadInv
  <2>8. HeaderInv'
    BY <1>1, <2>3 DEF Inv, HeaderInv, Agrees
  <2>9. UseInv'
    BY <1>1, <1>3, <2>2 DEF Inv, UseInv, Outside
  <2>10. InflateInv'
    <3>1. ASSUME NEW u \in Threads
          PROVE  /\ pc'[u] \in {"omAlloc", "inflate_stack", "inflate_neutral"} =>
                      seen'[u] \in Neutrals \cup {Stack(v, 1) : v \in Threads}
                 /\ pc'[u] \in {"inflate_stack", "inflate_dmw", "inflate_publish"} =>
                      \E v \in Threads : seen'[u] = Stack(v, 1)
                 /\ pc'[u] = "inflate_neutral" => /\ seen'[u] \in Neutrals
                                                  /\ om'[mon'[u]].header = seen'[u]
                 /\ pc'[u] = "inflate_publish" => /\ om'[mon'[u]].header = boxes'[seen'[u].thread][1]
                                                  /\ om'[mon'[u]].owner = seen'[u].thread
      <4>1. CASE u = t
        BY <1>3, <1>4, <1>5, <4>1
      <4>2. CASE u # t
        BY <1>1, <1>5, <2>2, <4>2 DEF Inv, InflateInv
      <4> QED BY <4>1, <4>2
    <3> QED BY <1>1, <2>3, <3>1 DEF InflateInv, Inv
  <2>11. MonitorInv'
    <3> SUFFICES ASSUME NEW m \in Monitors PROVE MonitorOK(m)'
      BY DEF MonitorInv
    <3>1. MonitorOK(m)
      BY DEF Inv, MonitorInv
    <3>2. /\ {u \in Threads : InEnterI(u)}' = {u \in Threads : InEnterI(u)}
          /\ {u \in Threads : loc[u].inwait}' = {u \in Threads : loc[u].inwait}
      BY <2>1
    <3>3. \A u \in Threads, l \in Preparing : pc'[u] = l <=> pc[u] = l
      BY <2>3
    <3> QED BY <1>1, <3>1, <3>2, <3>3 DEF MonitorOK, Preparing
  <2>12. PoolInv'
    BY <1>1, <2>3 DEF Inv, PoolInv, Placed
  <2> QED
    BY <2>5, <2>7, <2>8, <2>9, <2>10, <2>11, <2>12
<1>8. Typing'
  BY <1>1, <1>3, <1>5 DEF Inv, Typing, Shape
<1> QED
  BY <1>7, <1>8 DEF Inv

\* Recycle() keeps the owner and the counts.
LEMMA RecycledFacts ==
  ASSUME NEW m, om[m] \in MonitorRec
  PROVE  /\ Recycled(m) \in MonitorRec /\ Recycled(m).recursions = 0
         /\ Recycled(m).owner = om[m].owner /\ Recycled(m).box = om[m].box
         /\ Recycled(m).count = om[m].count /\ Recycled(m).waiters = om[m].waiters
         /\ Recycled(m).header = om[m].header /\ Recycled(m).object = om[m].object
<1> DEFINE n == None
           e == <<>>
           z == 0
           r == om[m]
<1>1. n \in NT /\ e \in Seq(NT) /\ z \in Int /\ z = 0 /\ r \in MonitorRec
  BY DEF NT
<1>2. Recycled(m) = [r EXCEPT !.succ = n, !.EntryList = e, !.cxq = e, !.WaitSet = e,
                              !.recursions = z, !.Responsible = n]
  BY DEF Recycled
<1> HIDE DEF n, e, z
<1> QED
  BY <1>1, <1>2 DEF MonitorRec

\* The monitor prepared for a neutral object.
LEMMA NeutralFields ==
  ASSUME NEW r \in MonitorRec, NEW x \in Headers
  PROVE  LET q == [r EXCEPT !.header = x, !.owner = None, !.count = 0, !.object = TRUE] IN
         /\ q \in MonitorRec /\ q.recursions = r.recursions /\ q.waiters = r.waiters /\ q.box = r.box
         /\ q.header = x /\ q.owner = None /\ q.count = 0 /\ q.object
<1> DEFINE n == None
           z == 0
           b == TRUE
<1>1. n \in NT /\ z \in Int /\ z = 0 /\ b \in BOOLEAN /\ n = None /\ b = TRUE
  BY DEF NT
<1>2. [r EXCEPT !.header = x, !.owner = None, !.count = 0, !.object = TRUE]
        = [r EXCEPT !.header = x, !.owner = n, !.count = z, !.object = b]
  OBVIOUS
<1> HIDE DEF n, z, b
<1> QED
  BY <1>1, <1>2, ZenonT(40) DEF MonitorRec

\* The monitor given back when inflate() fails.
LEMMA FailedFields ==
  ASSUME NEW r \in MonitorRec
  PROVE  LET q == [r EXCEPT !.object = FALSE, !.owner = None] IN
         /\ q \in MonitorRec /\ q.recursions = r.recursions /\ q.waiters = r.waiters /\ q.box = r.box
         /\ q.header = r.header /\ q.owner = None /\ q.count = r.count /\ ~q.object
<1> DEFINE n == None
           b == FALSE
<1>1. n \in NT /\ b \in BOOLEAN /\ n = None /\ b = FALSE
  BY DEF NT
<1>2. [r EXCEPT !.object = FALSE, !.owner = None] = [r EXCEPT !.object = b, !.owner = n]
  OBVIOUS
<1> HIDE DEF n, b
<1> QED
  BY <1>1, <1>2, ZenonT(40) DEF MonitorRec

\* The labels of inflate().
LEMMA InflateLabels == Preparing \cup {"omAlloc", "inflate"} \subseteq Labels \cap Inflation
                       /\ "omAlloc" \notin Preparing /\ "inflate" \notin Preparing
BY DEF Labels, Inflation, Preparing

\* A monitor that no thread prepares and the object does not use.
LEMMA Spare ==
  ASSUME Inv, NEW m \in Monitors, mark # Inflated(m),
         \A u \in Threads : pc[u] = "inflate_publish" => mon[u] # m
  PROVE  /\ om[m].recursions = 0 /\ om[m].count = 0 /\ om[m].waiters = 0 /\ om[m].owner = None /\ ~om[m].box
         /\ om[m].object => \E u \in Threads : pc[u] = "inflate_neutral" /\ mon[u] = m
BY DEF Inv, MonitorInv, MonitorOK

\* OmAlloc takes a monitor of the thread's own list.
LEMMA omAlloc_ownKeeps ==
  ASSUME Inv, NEW t \in Threads, omAlloc_own(t)
  PROVE  Inv'
<1>1. PICK m : m = First(free[t])
  OBVIOUS
<1> DEFINE q == IF seen[t].kind = "neutral"
                THEN [Recycled(m) EXCEPT !.header = seen[t], !.owner = None, !.count = 0, !.object = TRUE]
                ELSE Recycled(m)
           l == IF seen[t].kind = "neutral" THEN "inflate_neutral" ELSE "inflate_stack"
<1>2. /\ pc[t] = "omAlloc" /\ free[t] # <<>> /\ mon' = [mon EXCEPT ![t] = m] /\ om' = [om EXCEPT ![m] = q]
      /\ free' = [free EXCEPT ![t] = Tail(@)] /\ Go(t, l)
      /\ UNCHANGED <<node, loc, mark, boxes, held, seen, gFreeList, blocks, todo, hashes>>
  BY <1>1 DEF omAlloc_own
<1>3. /\ m \in Members(free[t]) /\ m \in Monitors /\ Listing(Tail(free[t]), Members(free[t]) \ {m})
      /\ m \in 1..blocks
  BY <1>1, <1>2, Lists2, ListTail
<1>4. mark # Inflated(m) /\ (\A u \in Threads : pc[u] \in Preparing => mon[u] # m)
  BY <1>3 DEF Inv, PoolInv, Placed
<1>5. /\ om[m].recursions = 0 /\ om[m].count = 0 /\ om[m].waiters = 0 /\ om[m].owner = None
      /\ ~om[m].box /\ ~om[m].object /\ om[m] \in MonitorRec
  BY <1>3, <1>4, Spare DEF Preparing, Inv, Typing
<1>6. seen[t] \in Neutrals \cup {Stack(u, 1) : u \in Threads}
  BY <1>2 DEF Inv, InflateInv
<1>7. /\ q \in MonitorRec /\ q.recursions = 0 /\ q.count = 0 /\ q.waiters = 0 /\ q.owner = None /\ ~q.box
      /\ (seen[t].kind = "neutral" => seen[t] \in Neutrals /\ q.header = seen[t])
      /\ (seen[t].kind # "neutral" => ~q.object /\ \E u \in Threads : seen[t] = Stack(u, 1))
  <2>1. CASE seen[t].kind = "neutral"
    <3>1. seen[t] \in Neutrals /\ seen[t] \in Headers
      BY <1>6, <2>1, MarkFacts DEF Headers
    <3>2. /\ Recycled(m) \in MonitorRec /\ Recycled(m).recursions = 0 /\ ~Recycled(m).box
          /\ Recycled(m).waiters = 0
      BY <1>5, RecycledFacts
    <3>3. q = [Recycled(m) EXCEPT !.header = seen[t], !.owner = None, !.count = 0, !.object = TRUE]
      BY <2>1
    <3> HIDE DEF q
    <3> QED
      BY <2>1, <3>1, <3>2, <3>3, NeutralFields
  <2>2. CASE seen[t].kind # "neutral"
    <3>1. \E u \in Threads : seen[t] = Stack(u, 1)
      BY <1>6, <2>2, MarkFacts DEF Neutrals
    <3>2. q = Recycled(m)
      BY <2>2
    <3> HIDE DEF q
    <3> QED
      BY <1>5, <2>2, <3>1, <3>2, RecycledFacts
  <2> HIDE DEF q
  <2> QED BY <2>1, <2>2
<1>8. l \in Labels /\ l \in Inflation /\ l \in Preparing /\ pc[t] \in Inflation /\ pc[t] \notin Preparing
      /\ l \in {"inflate_neutral", "inflate_stack"} /\ (l = "inflate_neutral" <=> seen[t].kind = "neutral")
  BY <1>2, InflateLabels DEF Preparing
<1> HIDE DEF q, l
<1>9. /\ Shape(t) /\ pc'[t] = l /\ loc'[t] = loc[t] /\ om'[m] = q /\ mon'[t] = m
      /\ (\A y \in Monitors \ {m} : om'[y] = om[y]) /\ (\A u \in Threads \ {t} : mon'[u] = mon[u])
      /\ mon' \in [Threads -> Monitors \cup {None}]
  BY <1>2, <1>3, <1>7, <1>8 DEF Shape, Go, Inv, Typing
<1>10. ~Inflater(t) /\ ~Inflater(t)'
  BY <1>2, <1>8, <1>9 DEF Inflater
<1>11. ThreadInv' /\ OwnerInv' /\ HeaderInv' /\ InflateInv' /\ MonitorInv' /\ UseInv'
  BY <1>2, <1>3, <1>4, <1>6, <1>7, <1>8, <1>9, <1>10, PrepareStep
<1>12. /\ free' \in [Threads -> Seq(Monitors)] /\ IsInjective(free'[t])
       /\ Members(free'[t]) = Members(free[t]) \ {m}
       /\ (\A u \in Threads \ {t} : free'[u] = free[u])
  <2>1. free'[t] = Tail(free[t]) /\ (\A u \in Threads \ {t} : free'[u] = free[u])
        /\ free' \in [Threads -> Seq(Monitors)]
    BY <1>2, <1>3 DEF Inv, Typing, Listing
  <2> QED BY <1>3, <2>1 DEF Listing
<1>13. PoolInv'
  <2>1. \A u \in Threads \ {t} : pc'[u] = pc[u]
    BY <1>9 DEF Shape
  <2>2. PoolInv
    BY DEF Inv
  <2>3. \A x \in 1..blocks : x # m => 
           /\ (\A u \in Threads : x \in Members(free'[u]) <=> x \in Members(free[u]))
           /\ (\A u \in Threads : pc'[u] \in Preparing /\ mon'[u] = x <=> pc[u] \in Preparing /\ mon[u] = x)
    BY <1>8, <1>9, <1>12, <2>1
  <2>4. /\ (\A u \in Threads : m \notin Members(free'[u])) /\ m \notin Members(gFreeList)
        /\ (\A u \in Threads : pc'[u] \in Preparing /\ mon'[u] = m <=> u = t)
    BY <1>3, <1>4, <1>8, <1>9, <1>12, <2>1, <2>2, ZenonT(40) DEF PoolInv, Placed
  <2>5. ASSUME NEW x \in 1..blocks
        PROVE  /\ \A v, u \in Threads : x \in Members(free'[v]) /\ x \in Members(free'[u]) => v = u
               /\ \A v, u \in Threads : pc'[v] \in Preparing /\ mon'[v] = x /\ pc'[u] \in Preparing
                                          /\ mon'[u] = x => v = u
               /\ \A v \in Threads : x \in Members(free'[v]) =>
                    /\ x \notin Members(gFreeList) /\ mark # Inflated(x)
                    /\ \A u \in Threads : pc'[u] \in Preparing => mon'[u] # x
               /\ x \in Members(gFreeList) => /\ mark # Inflated(x)
                                              /\ \A u \in Threads : pc'[u] \in Preparing => mon'[u] # x
               /\ mark = Inflated(x) => \A u \in Threads : pc'[u] \in Preparing => mon'[u] # x
               /\ \/ x \in Members(gFreeList) \/ mark = Inflated(x)
                  \/ \E v \in Threads : x \in Members(free'[v]) \/ (pc'[v] \in Preparing /\ mon'[v] = x)
    <3>1. CASE x = m
      BY <1>4, <2>4, <3>1
    <3>2. CASE x # m
      BY <2>2, <2>3, <3>2 DEF PoolInv, Placed
    <3> QED BY <3>1, <3>2
  <2>6. /\ (\A u \in Threads : IsInjective(free'[u]) /\ Members(free'[u]) \subseteq 1..blocks)
        /\ (\A u \in Threads : pc'[u] \in Preparing => mon'[u] \in 1..blocks)
    BY <1>3, <1>9, <1>12, <2>1, <2>2 DEF PoolInv, Placed
  <2> QED
    BY <1>2, <2>2, <2>5, <2>6 DEF PoolInv, Placed
<1>14. Typing'
  BY <1>2, <1>9, <1>12 DEF Inv, Typing, Shape
<1> QED
  BY <1>11, <1>13, <1>14 DEF Inv

\* The monitor m moves, and no other.
LEMMA PoolMoves ==
  ASSUME Inv, NEW m \in 1..blocks, blocks' = blocks, Placed(m)',
         \A x \in 1..blocks \ {m} :
           /\ (x \in Members(gFreeList') <=> x \in Members(gFreeList))
           /\ (mark' = Inflated(x) <=> mark = Inflated(x))
           /\ (\A u \in Threads : x \in Members(free'[u]) <=> x \in Members(free[u]))
           /\ (\A u \in Threads : (pc'[u] \in Preparing /\ mon'[u] = x)
                                     <=> (pc[u] \in Preparing /\ mon[u] = x)),
         IsInjective(gFreeList'), Members(gFreeList') \subseteq 1..blocks,
         \A u \in Threads : IsInjective(free'[u]) /\ Members(free'[u]) \subseteq 1..blocks,
         \A u \in Threads : pc'[u] \in Preparing => mon'[u] \in 1..blocks,
         \A x \in Monitors : mark' = Inflated(x) => x \in 1..blocks
  PROVE  PoolInv'
<1>1. ASSUME NEW x \in 1..blocks PROVE Placed(x)'
  <2>1. CASE x = m
    BY <2>1
  <2>2. CASE x # m
    <3>1. Placed(x)
      BY DEF Inv, PoolInv
    <3> QED BY <2>2, <3>1 DEF Placed
  <2> QED BY <2>1, <2>2
<1> QED
  BY <1>1 DEF PoolInv

\* A thread in the second half of inflate() and the monitor it prepares.
LEMMA Prepared ==
  ASSUME Inv, NEW t \in Threads, pc[t] \in Preparing
  PROVE  /\ mon[t] \in 1..blocks /\ mon[t] \in Monitors /\ mark # Inflated(mon[t])
         /\ (\A u \in Threads \ {t} : pc[u] \in Preparing => mon[u] # mon[t])
         /\ mon[t] \notin Members(gFreeList) /\ (\A u \in Threads : mon[t] \notin Members(free[u]))
         /\ om[mon[t]] \in MonitorRec
<1>1. mon[t] \in 1..blocks /\ mon[t] \in Monitors
  BY Lists2 DEF Inv, PoolInv
<1>2. Placed(mon[t])
  BY <1>1 DEF Inv, PoolInv
<1> QED
  BY <1>1, <1>2 DEF Placed, Inv, Typing

\* Inflate loses the race and gives its monitor back.
LEMMA Inflate_failedKeeps ==
  ASSUME Inv, NEW t \in Threads, Inflate_failed(t)
  PROVE  Inv'
<1>0. pc[t] \in {"inflate_stack", "inflate_neutral"} /\ pc[t] \in Preparing
  BY DEF Inflate_failed, Preparing
<1>1. PICK m \in Monitors : m = mon[t]
  BY <1>0, Prepared
<1> DEFINE q == [Recycled(m) EXCEPT !.object = FALSE, !.owner = None]
<1>2. /\ om' = [om EXCEPT ![m] = q] /\ free' = [free EXCEPT ![t] = <<m>> \o free[t]]
      /\ seen' = [seen EXCEPT ![t] = None] /\ Go(t, "inflate")
      /\ UNCHANGED <<mon, node, loc, mark, boxes, held, gFreeList, blocks, todo, hashes>>
  BY <1>1 DEF Inflate_failed, omRelease
<1>3. /\ m \in 1..blocks /\ mark # Inflated(m) /\ (\A u \in Threads \ {t} : pc[u] \in Preparing => mon[u] # m)
      /\ m \notin Members(gFreeList) /\ (\A u \in Threads : m \notin Members(free[u]))
      /\ om[m] \in MonitorRec
  BY <1>0, <1>1, Prepared
<1>4. om[m].count = 0 /\ om[m].waiters = 0 /\ ~om[m].box
  BY <1>0, <1>3, Spare DEF Preparing
<1>5. /\ q \in MonitorRec /\ q.recursions = 0 /\ q.count = 0 /\ q.waiters = 0 /\ q.owner = None /\ ~q.box
      /\ ~q.object
  <2>1. /\ Recycled(m) \in MonitorRec /\ Recycled(m).recursions = 0 /\ ~Recycled(m).box
        /\ Recycled(m).waiters = 0 /\ Recycled(m).count = 0
    BY <1>3, <1>4, RecycledFacts
  <2> QED
    BY <2>1, FailedFields
<1>6. "inflate" \in Labels /\ "inflate" \in Inflation /\ "inflate" \notin Preparing /\ pc[t] \in Inflation
  BY <1>0, InflateLabels
<1> HIDE DEF q
<1>7. /\ Shape(t) /\ pc'[t] = "inflate" /\ loc'[t] = loc[t] /\ om'[m] = q
      /\ (\A y \in Monitors \ {m} : om'[y] = om[y]) /\ (\A u \in Threads \ {t} : seen'[u] = seen[u])
      /\ seen' \in [Threads -> Marks \cup {None}]
  BY <1>2, <1>5, <1>6 DEF Shape, Go, Inv, Typing
<1>8. ~Inflater(t) /\ ~Inflater(t)'
  BY <1>0, <1>7 DEF Inflater
<1>9. ThreadInv' /\ OwnerInv' /\ HeaderInv' /\ InflateInv' /\ MonitorInv' /\ UseInv'
  BY <1>1, <1>2, <1>3, <1>5, <1>6, <1>7, <1>8, PrepareStep
<1>10. Listing(<<m>> \o free[t], {m} \cup Members(free[t]))
  <2>1. Listing(<<m>>, {m}) /\ Listing(free[t], Members(free[t])) /\ {m} \cap Members(free[t]) = {}
    BY <1>3, ListOne, Lists2
  <2> QED BY <2>1, ListConcat
<1>11. /\ free' \in [Threads -> Seq(Monitors)] /\ IsInjective(free'[t])
       /\ Members(free'[t]) = {m} \cup Members(free[t])
       /\ (\A u \in Threads \ {t} : free'[u] = free[u])
  <2>1. free'[t] = <<m>> \o free[t] /\ (\A u \in Threads \ {t} : free'[u] = free[u])
        /\ free' \in [Threads -> Seq(Monitors)]
    BY <1>2, <1>10 DEF Inv, Typing, Listing
  <2> QED BY <1>10, <2>1 DEF Listing
<1>12. PoolInv'
  <2>1. \A u \in Threads \ {t} : pc'[u] = pc[u]
    BY <1>7 DEF Shape
  <2>2. PoolInv
    BY DEF Inv
  <2>3. Placed(m)'
    <3>1. /\ (\A u \in Threads : pc'[u] \in Preparing => mon'[u] # m)
          /\ m \notin Members(gFreeList') /\ mark' # Inflated(m)
      BY <1>1, <1>2, <1>3, <1>6, <1>7, <2>1
    <3>2. \A u \in Threads : m \in Members(free'[u]) <=> u = t
      BY <1>3, <1>11
    <3> QED
      BY <3>1, <3>2 DEF Placed
  <2>4. \A x \in 1..blocks \ {m} :
           /\ (x \in Members(gFreeList') <=> x \in Members(gFreeList))
           /\ (mark' = Inflated(x) <=> mark = Inflated(x))
           /\ (\A u \in Threads : x \in Members(free'[u]) <=> x \in Members(free[u]))
           /\ (\A u \in Threads : (pc'[u] \in Preparing /\ mon'[u] = x)
                                     <=> (pc[u] \in Preparing /\ mon[u] = x))
    BY <1>1, <1>2, <1>6, <1>7, <1>11, <2>1
  <2>5. /\ IsInjective(gFreeList') /\ Members(gFreeList') \subseteq 1..blocks
        /\ (\A u \in Threads : IsInjective(free'[u]) /\ Members(free'[u]) \subseteq 1..blocks)
        /\ (\A u \in Threads : pc'[u] \in Preparing => mon'[u] \in 1..blocks)
        /\ (\A x \in Monitors : mark' = Inflated(x) => x \in 1..blocks)
    <3>1. \A u \in Threads : IsInjective(free'[u]) /\ Members(free'[u]) \subseteq 1..blocks
      BY <1>3, <1>11, <2>2 DEF PoolInv
    <3>2. \A u \in Threads : pc'[u] \in Preparing => mon'[u] \in 1..blocks
      BY <1>2, <1>6, <1>7, <2>1, <2>2 DEF PoolInv
    <3> QED
      BY <1>2, <2>2, <3>1, <3>2 DEF PoolInv
  <2> QED
    BY <1>2, <1>3, <2>3, <2>4, <2>5, PoolMoves
<1>13. Typing'
  BY <1>2, <1>7, <1>11 DEF Inv, Typing, Shape
<1> QED
  BY <1>9, <1>12, <1>13 DEF Inv

\* Inflate copies the displaced header into the monitor.
LEMMA Inflate_dmwKeeps ==
  ASSUME Inv, NEW t \in Threads, Inflate_dmw(t)
  PROVE  Inv'
<1>0. pc[t] = "inflate_dmw" /\ pc[t] \in Preparing /\ Inflater(t)
  BY DEF Inflate_dmw, Preparing, Inflater
<1>1. PICK m \in Monitors : m = mon[t]
  BY <1>0, Prepared
<1>2. PICK v \in Threads : seen[t] = Stack(v, 1)
  BY <1>0 DEF Inv, InflateInv
<1>3. seen[t].thread = v /\ seen[t].box = 1
  BY <1>2, MarkFacts
<1> DEFINE q == [om[m] EXCEPT !.header = boxes[v][1], !.owner = v, !.box = TRUE, !.count = 0, !.object = TRUE]
<1>4. om' = [om EXCEPT ![m].header = boxes[v][1], ![m].owner = v, ![m].box = TRUE, ![m].count = 0,
                       ![m].object = TRUE]
  BY <1>1, <1>3 DEF Inflate_dmw
<1>5. om \in [Monitors -> MonitorRec] /\ om[m] \in MonitorRec
  BY DEF Inv, Typing
<1>6. om' = [om EXCEPT ![m] = q]
  BY <1>4, <1>5
<1>7. /\ Go(t, "inflate_publish")
      /\ UNCHANGED <<mon, node, loc, mark, boxes, held, seen, free, gFreeList, blocks, todo, hashes>>
  BY DEF Inflate_dmw, objectVars
<1>8. /\ mark # Inflated(m) /\ (\A u \in Threads \ {t} : pc[u] \in Preparing => mon[u] # m)
  BY <1>0, <1>1, Prepared
<1>9. om[m].recursions = 0 /\ om[m].waiters = 0
  BY <1>8 DEF Inv, MonitorInv, MonitorOK
<1>10. boxes[v][1] \in Headers /\ v \in NT
  BY DepthAssumption DEF Inv, Typing, NT
<1>11. /\ q \in MonitorRec /\ q.recursions = 0 /\ q.count = 0 /\ q.waiters = 0 /\ q.owner = v
       /\ q.header = boxes[v][1]
  <2> DEFINE z == 0
             b == TRUE
  <2>1. z \in Int /\ z = 0 /\ b \in BOOLEAN
    OBVIOUS
  <2>2. q = [om[m] EXCEPT !.header = boxes[v][1], !.owner = v, !.box = b, !.count = z, !.object = b]
    OBVIOUS
  <2> HIDE DEF z, b, q
  <2> QED
    BY <1>5, <1>9, <1>10, <2>1, <2>2 DEF MonitorRec
<1>12. "inflate_publish" \in Labels /\ "inflate_publish" \in Inflation /\ pc[t] \in Inflation
       /\ "inflate_publish" \in Preparing
  BY <1>0, InflateLabels DEF Preparing
<1> HIDE DEF q
<1>13. /\ Shape(t) /\ pc'[t] = "inflate_publish" /\ loc'[t] = loc[t] /\ om'[m] = q
       /\ (\A y \in Monitors \ {m} : om'[y] = om[y])
  BY <1>5, <1>6, <1>7, <1>11, <1>12 DEF Shape, Go, Inv, Typing
<1>14. Inflater(t)'
  BY <1>13 DEF Inflater
<1>15. ThreadInv' /\ OwnerInv' /\ HeaderInv' /\ InflateInv' /\ MonitorInv' /\ UseInv'
  BY <1>0, <1>1, <1>2, <1>3, <1>7, <1>8, <1>11, <1>12, <1>13, <1>14, PrepareStep
<1>16. PoolInv'
  <2>1. \A u \in Threads : pc'[u] \in Preparing <=> pc[u] \in Preparing
    BY <1>0, <1>12, <1>13 DEF Shape
  <2> QED
    BY <1>7, <2>1 DEF Inv, PoolInv, Placed
<1>17. Typing'
  BY <1>7, <1>13 DEF Inv, Typing, Shape
<1> QED
  BY <1>15, <1>16, <1>17 DEF Inv

\* inflate() returns to its caller.
LEMMA ReturnFacts ==
  ASSUME Inv, NEW t \in Threads, pc[t] \in Inflation, Inflate_return(t), UNCHANGED <<om, node, held, boxes>>
  PROVE  /\ Shape(t) /\ pc'[t] = loc[t].then /\ pc'[t] \in Targets
         /\ loc'[t].inwait = loc[t].inwait /\ loc'[t].save = loc[t].save
         /\ (Has(t)' <=> Has(t)) /\ ~InEnterI(t) /\ ~InEnterI(t)' /\ Control(t)' /\ Depths(t)'
         /\ Reals(t)' = Reals(t) /\ ~Unboxed(t)'
<1>1. Control(t) /\ Depths(t) /\ loc[t] \in LocRec
  BY OfThread
<1>2. loc[t].then \in Targets /\ loc[t].then \in Labels /\ ~loc[t].inwait
  BY <1>1, TargetLabels DEF Control, Targets
<1> DEFINE k == [loc[t] EXCEPT !.then = None]
<1>3. k \in LocRec /\ k.inwait = loc[t].inwait /\ k.save = loc[t].save
  BY <1>1, ThenLoc
<1>4. Go(t, loc[t].then) /\ loc' = [loc EXCEPT ![t] = k]
  BY DEF Inflate_return
<1> HIDE DEF k
<1>5. Shape(t) /\ pc'[t] = loc[t].then /\ loc'[t] = k
  BY <1>2, <1>3, <1>4, Goes
<1>6. /\ Where(t) = loc[t].then /\ Where(t)' = loc[t].then /\ Depth(t)' = Depth(t)
      /\ (\A j : Real(t, j)' <=> Real(t, j))
  BY <1>2, <1>5, TargetLabels DEF Where, Depth, Real, Targets
<1>7. pc[t] \notin Spinning /\ pc'[t] \notin Spinning
  BY <1>2, <1>5 DEF Spinning, Inflation, Preparing, Targets
<1>8. (Trying(t)' <=> Trying(t)) /\ (Releasing(t)' <=> Releasing(t))
  BY <1>3, <1>5, <1>6, <1>7 DEF Trying, Releasing
<1>9. Top(t)' = Top(t) /\ (Extra(t)' <=> Extra(t))
  BY <1>6, <1>8 DEF Top, Extra
<1>10. (Has(t)' <=> Has(t)) /\ Reals(t)' = Reals(t)
  BY <1>3, <1>5, <1>6, <1>9 DEF Has, Reals
<1>11. ~InEnterI(t) /\ ~InEnterI(t)' /\ ~Unboxed(t)'
  BY <1>2, <1>5, <1>6 DEF InEnterI, Unboxed, Targets, Spinning, Preparing, Inflation, Owned,
     Plain, Acquiring, Contending, Entering, Last_unlock, Unlocking, Last_exit, Exiting,
     Released, Unlocked, Waiting, Reentered
<1>12. Control(t)'
  BY <1>2, <1>3, <1>5 DEF Control, Targets, Spinning, Preparing, Inflation, Owned, Plain,
     Acquiring, Contending, Entering, Last_unlock, Unlocking, Last_exit, Exiting, Released,
     Unlocked, Waiting, Reentered
<1>13. Depths(t)'
  BY <1>1, <1>3, <1>5, <1>6, <1>7, <1>8 DEF Depths
<1> QED
  BY <1>2, <1>3, <1>5, <1>10, <1>11, <1>12, <1>13

\* Inflate swaps INFLATING into the mark of a stack lock.
LEMMA Inflate_stackKeeps ==
  ASSUME Inv, NEW t \in Threads, Inflate_stack(t)
  PROVE  Inv'
<1>1. /\ pc[t] = "inflate_stack" /\ mark = seen[t] /\ mark' = INFLATING /\ Go(t, "inflate_dmw")
      /\ UNCHANGED <<om, mon, node, loc, boxes, held, seen, free, gFreeList, blocks, todo, hashes>>
  BY DEF Inflate_stack
<1>2. PICK v \in Threads : mark = Stack(v, 1)
  BY <1>1 DEF Inv, InflateInv
<1>3. /\ mark.kind = "stack" /\ mark.thread = v /\ mark # INFLATING /\ mark'.kind = "inflating"
      /\ (\A x : mark # Inflated(x) /\ mark' # Inflated(x)) /\ seen[t].thread = v
  BY <1>1, <1>2, MarkFacts
<1>4. "inflate_dmw" \in Labels /\ "inflate_dmw" \in Inflation /\ pc[t] \in Inflation
      /\ "inflate_dmw" \in Preparing /\ pc[t] \in Preparing
  BY <1>1, InflateLabels DEF Preparing
<1>5. Shape(t) /\ pc'[t] = "inflate_dmw" /\ loc'[t] = loc[t]
  BY <1>1, <1>4, Stays
<1>6. \A u \in Threads : /\ (Has(u)' <=> Has(u)) /\ Control(u)' /\ Depths(u)' /\ Reals(u)' = Reals(u)
                         /\ loc'[u] = loc[u]
  BY <1>1, <1>4, <1>5, OthersStay, InflationProfile
<1>7. \A u \in Threads \ {t} : pc'[u] = pc[u]
  BY <1>5 DEF Shape
<1>8. (\A u \in Threads : ~Inflater(u)) /\ (\A u \in Threads : Inflater(u)' <=> u = t)
  <2>1. \A u \in Threads : ~Inflater(u)
    BY <1>3 DEF Inv, InflateInv
  <2> QED BY <1>5, <1>7, <2>1 DEF Inflater
<1>9. \A u \in Threads : (StackOwner(u)' <=> StackOwner(u)) /\ ~MonitorOwner(u) /\ ~MonitorOwner(u)'
  BY <1>1, <1>3, <1>8 DEF StackOwner, MonitorOwner
<1>10. OwnerInv'
  BY <1>6, <1>9 DEF Inv, OwnerInv
<1>11. ASSUME NEW u \in Threads PROVE Counted(u)'
  <2>1. Counted(u) BY DEF Inv, ThreadInv
  <2> QED BY <1>6, <1>9, <2>1 DEF Counted
<1>12. ThreadInv'
  BY <1>6, <1>11 DEF ThreadInv
<1>13. HeaderInv'
  <2>1. Agrees(boxes[v][1])
    BY <1>3 DEF Inv, HeaderInv
  <2> QED BY <1>1, <1>3, <1>8, <2>1 DEF HeaderInv, Agrees
<1>14. InflateInv'
  <2>1. ASSUME NEW u \in Threads
        PROVE  /\ pc'[u] \in {"omAlloc", "inflate_stack", "inflate_neutral"} =>
                    seen'[u] \in Neutrals \cup {Stack(w, 1) : w \in Threads}
               /\ pc'[u] \in {"inflate_stack", "inflate_dmw", "inflate_publish"} =>
                    \E w \in Threads : seen'[u] = Stack(w, 1)
               /\ pc'[u] = "inflate_neutral" => /\ seen'[u] \in Neutrals
                                                /\ om'[mon'[u]].header = seen'[u]
               /\ pc'[u] = "inflate_publish" => /\ om'[mon'[u]].header = boxes'[seen'[u].thread][1]
                                                /\ om'[mon'[u]].owner = seen'[u].thread
    <3>1. CASE u = t
      BY <1>1, <1>2, <1>5, <3>1
    <3>2. CASE u # t
      BY <1>1, <1>7, <3>2 DEF Inv, InflateInv
    <3> QED BY <3>1, <3>2
  <2> QED BY <1>1, <1>8, <2>1 DEF InflateInv
<1>15. MonitorInv'
  <2> SUFFICES ASSUME NEW m \in Monitors PROVE MonitorOK(m)'
    BY DEF MonitorInv
  <2>1. MonitorOK(m)
    BY DEF Inv, MonitorInv
  <2>2. \A u \in Threads, l \in {"inflate_neutral", "inflate_publish"} : pc'[u] = l <=> pc[u] = l
    BY <1>1, <1>5, <1>7
  <2> QED BY <1>1, <1>3, <2>1, <2>2 DEF MonitorOK
<1>16. UseInv'
  BY <1>3, <1>5, <1>7 DEF Inv, UseInv, Outside
<1>17. PoolInv'
  <2>1. \A u \in Threads : pc'[u] \in Preparing <=> pc[u] \in Preparing
    BY <1>4, <1>5, <1>7
  <2> QED
    BY <1>1, <1>3, <2>1 DEF Inv, PoolInv, Placed
<1>18. Typing'
  BY <1>1, <1>5 DEF Inv, Typing, Shape, Marks
<1> QED
  BY <1>10, <1>12, <1>13, <1>14, <1>15, <1>16, <1>17, <1>18 DEF Inv

\* inflate() makes the monitor it has prepared the object's.
LEMMA PublishStep ==
  ASSUME Inv, NEW t \in Threads, pc[t] \in {"inflate_neutral", "inflate_publish"},
         NEW m \in Monitors, m = mon[t], mark.kind # "inflated", mark' = Inflated(m), Inflate_return(t),
         \A u \in Threads \ {t} : ~Inflater(u), Agrees(om[m].header),
         om[m].owner = None => ~om[m].box,
         \A u \in Threads : StackOwner(u) <=> om[m].owner = u,
         seen' = [seen EXCEPT ![t] = None],
         UNCHANGED <<om, mon, node, boxes, held, free, gFreeList, blocks, todo, hashes>>
  PROVE  Inv'
<1>1. pc[t] \in Preparing /\ pc[t] \in Inflation
  BY InflateLabels DEF Preparing
<1>2. /\ Shape(t) /\ pc'[t] \in Targets /\ loc'[t].inwait = loc[t].inwait /\ loc'[t].save = loc[t].save
      /\ (Has(t)' <=> Has(t)) /\ ~InEnterI(t) /\ ~InEnterI(t)' /\ Control(t)' /\ Depths(t)'
      /\ Reals(t)' = Reals(t) /\ ~Unboxed(t)'
  BY <1>1, ReturnFacts
<1>3. \A u \in Threads \ {t} :
         /\ (Has(u)' <=> Has(u)) /\ (InEnterI(u)' <=> InEnterI(u)) /\ Control(u)' /\ Depths(u)'
         /\ Reals(u)' = Reals(u) /\ loc'[u] = loc[u] /\ pc'[u] = pc[u] /\ (Unboxed(u)' <=> Unboxed(u))
  BY <1>2, OthersStay
<1>4. \A u \in Threads : pc[u] \in Outside /\ ~loc[u].inwait /\ ~InEnterI(u) /\ ~MonitorOwner(u)
  BY Flat
<1>5. \A u \in Threads : ~InEnterI(u)' /\ ~loc'[u].inwait /\ (Has(u)' <=> Has(u)) /\ Control(u)' /\ Depths(u)'
                         /\ Reals(u)' = Reals(u)
  BY <1>2, <1>3, <1>4
<1>6. \A u \in Threads : ~Unboxed(u)'
  <2> SUFFICES ASSUME NEW u \in Threads \ {t} PROVE ~Unboxed(u)
    BY <1>2, <1>3
  <2> QED
    BY <1>4, OfThread DEF Unboxed, Where, Control, Outside, Last_exit, Last_unlock, Inflation,
       Preparing
<1>7. /\ mark'.kind = "inflated" /\ mark'.monitor = m /\ mark' # INFLATING
      /\ (\A x \in Monitors : mark # Inflated(x)) /\ (\A x \in Monitors : mark' = Inflated(x) <=> x = m)
  BY MarkFacts
<1>8. pc'[t] \notin Outside /\ pc'[t] \notin Inflation /\ pc'[t] \notin Preparing
  BY <1>2, TargetLabels DEF Inflation
<1>9. \A u \in Threads : ~Inflater(u)'
  BY <1>2, <1>3, <1>8 DEF Inflater, Preparing
<1>10. \A u \in Threads : ~StackOwner(u)' /\ (MonitorOwner(u)' <=> om[m].owner = u)
  BY <1>7, <1>9 DEF StackOwner, MonitorOwner
<1>11. OwnerInv'
  BY <1>4, <1>5, <1>10 DEF Inv, OwnerInv
<1>12. MonitorOK(m) /\ mark # Inflated(m)
  BY <1>7 DEF Inv, MonitorInv
<1>13. om[m].recursions = 0 /\ om[m].count = 0 /\ om[m].waiters = 0
  BY <1>12 DEF MonitorOK
<1>14. ASSUME NEW u \in Threads PROVE Counted(u)'
  <2>1. Counted(u) BY DEF Inv, ThreadInv
  <2>2. Cardinality({1}) = 1 BY FS_Singleton
  <2>3. MonitorOwner(u)' => Reals(u)' = {1}
    BY <1>5, <1>10, <2>1 DEF Counted
  <2>4. om'[mark'.monitor].recursions = 0
    BY <1>7, <1>13
  <2>5. Has(u)' => 1 \in Reals(u)'
    BY <1>5, <2>1 DEF Counted
  <2>6. MonitorOwner(u)' => Cardinality(Reals(u)') = om'[mark'.monitor].recursions + 1
    BY <2>2, <2>3, <2>4
  <2>7. ~loc'[u].inwait /\ ~StackOwner(u)' /\ ~Unboxed(u)'
    BY <1>5, <1>6, <1>10
  <2> QED
    BY <2>5, <2>6, <2>7, Zenon DEF Counted
<1>15. ThreadInv'
  BY <1>5, <1>14 DEF ThreadInv
<1>16. HeaderInv'
  BY <1>7, <1>9 DEF HeaderInv, Agrees
<1>17. \A u \in Threads \ {t} : seen'[u] = seen[u]
  BY DEF Inv, Typing
<1>18. InflateInv'
  <2>1. ASSUME NEW u \in Threads
        PROVE  /\ pc'[u] \in {"omAlloc", "inflate_stack", "inflate_neutral"} =>
                    seen'[u] \in Neutrals \cup {Stack(w, 1) : w \in Threads}
               /\ pc'[u] \in {"inflate_stack", "inflate_dmw", "inflate_publish"} =>
                    \E w \in Threads : seen'[u] = Stack(w, 1)
               /\ pc'[u] = "inflate_neutral" => /\ seen'[u] \in Neutrals
                                                /\ om'[mon'[u]].header = seen'[u]
               /\ pc'[u] = "inflate_publish" => /\ om'[mon'[u]].header = boxes'[seen'[u].thread][1]
                                                /\ om'[mon'[u]].owner = seen'[u].thread
    <3>1. CASE u = t
      BY <1>8, <3>1 DEF Inflation, Preparing
    <3>2. CASE u # t
      BY <1>3, <1>17, <3>2 DEF Inv, InflateInv
    <3> QED BY <3>1, <3>2
  <2> QED BY <1>7, <1>9, <2>1 DEF InflateInv
<1>19. /\ m \in 1..blocks /\ (\A u \in Threads \ {t} : pc[u] \in Preparing => mon[u] # m)
       /\ m \notin Members(gFreeList) /\ (\A u \in Threads : m \notin Members(free[u]))
  BY <1>1, Prepared
<1>20. MonitorInv'
  <2> SUFFICES ASSUME NEW x \in Monitors PROVE MonitorOK(x)'
    BY DEF MonitorInv
  <2>1. CASE x = m
    <3>1. {u \in Threads : InEnterI(u)}' = {} /\ {u \in Threads : loc[u].inwait}' = {}
      BY <1>5
    <3>2. Cardinality({}) = 0
      BY FS_EmptySet
    <3> QED
      BY <1>7, <1>13, <2>1, <3>1, <3>2 DEF MonitorOK
  <2>2. CASE x # m
    <3>1. MonitorOK(x) /\ mark # Inflated(x) /\ mark' # Inflated(x)
      BY <1>7, <2>2 DEF Inv, MonitorInv
    <3>2. \A u \in Threads, l \in Preparing : (pc'[u] = l /\ mon'[u] = x) <=> (pc[u] = l /\ mon[u] = x)
      BY <1>3, <1>8, <2>2
    <3> QED
      BY <3>1, <3>2 DEF MonitorOK, Preparing
  <2> QED BY <2>1, <2>2
<1>21. UseInv'
  BY <1>3, <1>4 DEF UseInv
<1>22. PoolInv'
  <2>1. PoolInv
    BY DEF Inv
  <2>2. Placed(m)'
    <3>1. /\ (\A u \in Threads : pc'[u] \in Preparing => mon'[u] # m)
          /\ m \notin Members(gFreeList') /\ mark' = Inflated(m)
          /\ (\A u \in Threads : m \notin Members(free'[u]))
      BY <1>3, <1>8, <1>19
    <3> QED BY <3>1 DEF Placed
  <2>3. \A x \in 1..blocks \ {m} :
           /\ (x \in Members(gFreeList') <=> x \in Members(gFreeList))
           /\ (mark' = Inflated(x) <=> mark = Inflated(x))
           /\ (\A u \in Threads : x \in Members(free'[u]) <=> x \in Members(free[u]))
           /\ (\A u \in Threads : (pc'[u] \in Preparing /\ mon'[u] = x)
                                     <=> (pc[u] \in Preparing /\ mon[u] = x))
    BY <1>3, <1>7, <1>8, Lists2
  <2>4. /\ IsInjective(gFreeList') /\ Members(gFreeList') \subseteq 1..blocks
        /\ (\A u \in Threads : IsInjective(free'[u]) /\ Members(free'[u]) \subseteq 1..blocks)
        /\ (\A u \in Threads : pc'[u] \in Preparing => mon'[u] \in 1..blocks)
        /\ (\A x \in Monitors : mark' = Inflated(x) => x \in 1..blocks)
    <3>1. \A u \in Threads : pc'[u] \in Preparing => mon'[u] \in 1..blocks
      BY <1>3, <1>8, <2>1 DEF PoolInv
    <3>2. \A x \in Monitors : mark' = Inflated(x) => x \in 1..blocks
      BY <1>7, <1>19
    <3> QED
      BY <2>1, <3>1, <3>2 DEF PoolInv
  <2> QED
    BY <1>19, <2>2, <2>3, <2>4, PoolMoves
<1>23. Typing'
  BY <1>2 DEF Inv, Typing, Shape, Marks
<1> QED
  BY <1>11, <1>15, <1>16, <1>18, <1>20, <1>21, <1>22, <1>23 DEF Inv

\* Inflate swaps the monitor into a neutral mark.
LEMMA Inflate_neutralKeeps ==
  ASSUME Inv, NEW t \in Threads, Inflate_neutral(t)
  PROVE  Inv'
<1>1. pc[t] = "inflate_neutral" /\ mark = seen[t] /\ mark' = Inflated(mon[t]) /\ Inflate_return(t)
      /\ seen' = [seen EXCEPT ![t] = None]
      /\ UNCHANGED <<om, mon, node, boxes, held, free, gFreeList, blocks, todo, hashes>>
  BY DEF Inflate_neutral
<1>2. pc[t] \in Preparing
  BY <1>1 DEF Preparing
<1>3. PICK m \in Monitors : m = mon[t]
  BY <1>2, Prepared
<1>4. mark \in Neutrals /\ om[m].header = mark
  BY <1>1, <1>3 DEF Inv, InflateInv
<1>5. mark.kind = "neutral" /\ mark # INFLATING /\ Agrees(mark)
  BY <1>4, MarkFacts DEF Neutrals, Inv, HeaderInv
<1>6. \A u \in Threads : ~Inflater(u) /\ ~StackOwner(u)
  BY <1>5 DEF Inv, InflateInv, StackOwner
<1>7. om[m].owner = None /\ ~om[m].box
  BY <1>1, <1>2, <1>3, Prepared, Spare DEF Preparing
<1> QED
  BY <1>1, <1>3, <1>4, <1>5, <1>6, <1>7, PublishStep, ThreadsAssumption

\* Inflate stores the monitor over INFLATING.
LEMMA Inflate_publishKeeps ==
  ASSUME Inv, NEW t \in Threads, Inflate_publish(t)
  PROVE  Inv'
<1>1. pc[t] = "inflate_publish" /\ mark' = Inflated(mon[t]) /\ Inflate_return(t)
      /\ seen' = [seen EXCEPT ![t] = None]
      /\ UNCHANGED <<om, mon, node, boxes, held, free, gFreeList, blocks, todo, hashes>>
  BY DEF Inflate_publish
<1>2. pc[t] \in Preparing /\ Inflater(t)
  BY <1>1 DEF Preparing, Inflater
<1>3. PICK m \in Monitors : m = mon[t]
  BY <1>2, Prepared
<1>4. mark = INFLATING /\ (\A u \in Threads : Inflater(u) => u = t)
  BY <1>2 DEF Inv, InflateInv
<1>5. PICK v \in Threads : seen[t] = Stack(v, 1)
  BY <1>1 DEF Inv, InflateInv
<1>6. seen[t].thread = v /\ mark.kind = "inflating"
  BY <1>4, <1>5, MarkFacts
<1>7. om[m].owner = v /\ om[m].header = boxes[v][1]
  BY <1>1, <1>3, <1>6 DEF Inv, InflateInv
<1>8. Agrees(om[m].header)
  BY <1>2, <1>6, <1>7 DEF Inv, HeaderInv
<1>9. \A u \in Threads : StackOwner(u) <=> u = v
  BY <1>2, <1>4, <1>6 DEF StackOwner
<1> QED
  BY <1>1, <1>3, <1>4, <1>6, <1>7, <1>8, <1>9, PublishStep, ThreadsAssumption

-----------------------------------------------------------------------------
(* Deflation *)

\* What Deflate stores in the monitor.
LEMMA DeflatedFields ==
  ASSUME NEW r \in MonitorRec
  PROVE  LET q == [r EXCEPT !.header = None, !.object = FALSE] IN
         /\ q \in MonitorRec /\ ~q.object /\ q.owner = r.owner /\ q.box = r.box
         /\ q.recursions = r.recursions /\ q.count = r.count /\ q.waiters = r.waiters
<1> DEFINE n == None
           b == FALSE
           q == [r EXCEPT !.header = n, !.object = b]
<1>1. n \in Headers \cup {None} /\ b \in BOOLEAN /\ ~b
  OBVIOUS
<1> HIDE DEF n, b
<1>2. /\ q \in MonitorRec /\ q.object = b /\ q.owner = r.owner /\ q.box = r.box
      /\ q.recursions = r.recursions /\ q.count = r.count /\ q.waiters = r.waiters
  BY <1>1 DEF MonitorRec
<1> QED
  BY <1>1, <1>2 DEF n, b

\* At a safepoint, an idle monitor of the object leaves every thread in Java
\* code, outside of its blocks.
LEMMA AllQuiet ==
  ASSUME Inv, NEW m \in Monitors, Safe, om[m].object, ~is_busy(m)
  PROVE  /\ mark = Inflated(m) /\ (\A t \in Threads : pc[t] = "java" /\ ~loc[t].inwait /\ ~Has(t))
         /\ om[m].owner = None /\ om[m].count = 0 /\ om[m].waiters = 0
<1>1. om[m].owner = None /\ om[m].count = 0 /\ om[m].waiters = 0
  BY DEF is_busy
<1>2. MonitorOK(m)
  BY DEF Inv, MonitorInv
<1>3. \A t \in Threads : pc[t] \notin {"inflate_neutral", "inflate_publish", "inflate_dmw"}
  BY DEF Safe, Blocked
<1>4. mark = Inflated(m)
  BY <1>2, <1>3 DEF MonitorOK
<1>5. Cardinality(Enterers) = 0 /\ Cardinality(Waiters) = 0
  BY <1>1, <1>2, <1>4 DEF MonitorOK, Enterers, Waiters
<1>6. Enterers = {} /\ Waiters = {}
  BY <1>5, CountsFinite, FS_EmptySet
<1>7. \A t \in Threads : ~InEnterI(t) /\ ~loc[t].inwait
  BY <1>6 DEF Enterers, Waiters
<1>8. ASSUME NEW t \in Threads PROVE pc[t] = "java"
  <2>1. Control(t)
    BY OfThread
  <2>2. pc[t] \notin {"wait_check", "wait_notified", "wait_park", "repark"}
    BY <1>7, <2>1 DEF Control, Waiting
  <2>3. ~Blocked(t)
    BY <1>7, <2>2 DEF Blocked, InEnterI, Contending, Entering, Spinning
  <2> QED BY <2>3 DEF Safe
<1>9. ASSUME NEW t \in Threads PROVE ~Has(t)
  <2>1. mark.kind = "inflated" /\ mark.monitor = m
    BY <1>4, MarkFacts
  <2>2. ~StackOwner(t)
    BY <1>3, <2>1 DEF StackOwner, Inflater
  <2>3. ~MonitorOwner(t)
    BY <1>1, <2>1, ThreadsAssumption DEF MonitorOwner
  <2> QED BY <2>2, <2>3 DEF Inv, OwnerInv
<1> QED
  BY <1>1, <1>4, <1>7, <1>8, <1>9

\* Deflation gives the object its header back, and no thread notices.
LEMMA DeflateKeeps ==
  ASSUME Inv, NEW m \in Monitors, Deflate(m)
  PROVE  Inv'
<1>1. /\ mark = Inflated(m) /\ (\A t \in Threads : pc[t] = "java" /\ ~loc[t].inwait /\ ~Has(t))
      /\ om[m].owner = None /\ om[m].count = 0 /\ om[m].waiters = 0
  BY AllQuiet DEF Deflate
<1> DEFINE q == [om[m] EXCEPT !.header = None, !.object = FALSE]
<1>2. /\ om' = [om EXCEPT ![m] = q] /\ mark' = om[m].header /\ gFreeList' = <<m>> \o gFreeList
      /\ UNCHANGED <<pc, mon, node, loc, boxes, held, seen, free, blocks, todo, hashes>>
  BY DEF Deflate
<1>3. MonitorOK(m) /\ om[m] \in MonitorRec /\ mark.kind = "inflated" /\ mark.monitor = m
  BY <1>1, MarkFacts DEF Inv, MonitorInv, Typing
<1>4. /\ q \in MonitorRec /\ ~q.object /\ q.owner = None /\ ~q.box
      /\ q.recursions = 0 /\ q.count = 0 /\ q.waiters = 0
  BY <1>1, <1>3, DeflatedFields DEF MonitorOK
<1> HIDE DEF q
<1>5. om' \in [Monitors -> MonitorRec] /\ om'[m] = q /\ (\A x \in Monitors \ {m} : om'[x] = om[x])
  BY <1>2, <1>4 DEF Inv, Typing
<1>6. Agrees(om[m].header)
  BY <1>3 DEF Inv, HeaderInv
<1>7. mark' \in Neutrals /\ mark'.kind = "neutral" /\ mark' # INFLATING /\ (\A x \in Monitors : mark' # Inflated(x))
  <2>1. PICK h : mark' = Neutral(h) /\ mark' \in Neutrals
    BY <1>2, <1>6 DEF Agrees, Neutrals
  <2> QED BY <2>1, MarkFacts
<1>8. \A t \in Threads : /\ pc'[t] = "java" /\ ~Inflater(t) /\ ~Inflater(t)' /\ pc[t] \notin Preparing
                         /\ pc[t] # "omAlloc" /\ pc[t] \in Outside
  BY <1>1, <1>2 DEF Inflater, Preparing, Outside
<1>9. \A t \in Threads : (Has(t)' <=> Has(t)) /\ (Control(t)' <=> Control(t)) /\ (Depths(t)' <=> Depths(t))
  BY <1>2, Unmoved
<1>10. \A t \in Threads : ~StackOwner(t)' /\ ~MonitorOwner(t)'
  BY <1>7, <1>8 DEF StackOwner, MonitorOwner
<1>11. OwnerInv'
  BY <1>1, <1>9, <1>10 DEF OwnerInv
<1>12. \A t \in Threads : Counted(t)'
  BY <1>1, <1>2, <1>9, <1>10 DEF Counted
<1>13. ThreadInv'
  BY <1>9, <1>12 DEF Inv, ThreadInv
<1>14. HeaderInv'
  BY <1>2, <1>6, <1>7, <1>8 DEF HeaderInv, Agrees
<1>15. InflateInv'
  BY <1>2, <1>7, <1>8 DEF InflateInv, Preparing, Inflater
<1>16. MonitorInv'
  <2> SUFFICES ASSUME NEW x \in Monitors PROVE MonitorOK(x)'
    BY DEF MonitorInv
  <2>1. CASE x = m
    BY <1>2, <1>4, <1>5, <1>7, <2>1 DEF MonitorOK
  <2>2. CASE x # m
    <3>1. MonitorOK(x) /\ mark # Inflated(x)
      BY <1>3, <2>2, MarkFacts DEF Inv, MonitorInv
    <3>2. \A t \in Threads : pc[t] \notin {"inflate_neutral", "inflate_publish"}
      BY <1>1
    <3> QED BY <1>2, <1>5, <1>7, <2>2, <3>1, <3>2 DEF MonitorOK
  <2> QED BY <2>1, <2>2
<1>17. UseInv'
  BY <1>2, <1>8 DEF UseInv
<1>18. /\ m \in 1..blocks /\ m \notin Members(gFreeList) /\ (\A t \in Threads : m \notin Members(free[t]))
  <2>1. m \in 1..blocks
    BY <1>1 DEF Inv, PoolInv
  <2>2. Placed(m)
    BY <2>1 DEF Inv, PoolInv
  <2> QED BY <1>1, <2>1, <2>2 DEF Placed
<1>19. Listing(gFreeList', {m} \cup Members(gFreeList))
  <2>1. Listing(<<m>>, {m}) /\ Listing(gFreeList, Members(gFreeList)) /\ {m} \cap Members(gFreeList) = {}
    BY <1>18, ListOne, Lists2
  <2> QED BY <1>2, <2>1, ListConcat
<1>20. /\ gFreeList' \in Seq(Monitors) /\ IsInjective(gFreeList')
       /\ Members(gFreeList') = {m} \cup Members(gFreeList)
  BY <1>19 DEF Listing
<1>21. PoolInv'
  <2>1. Placed(m)'
    BY <1>2, <1>7, <1>8, <1>18, <1>20 DEF Placed
  <2>2. \A x \in 1..blocks \ {m} :
           /\ (x \in Members(gFreeList') <=> x \in Members(gFreeList))
           /\ (mark' = Inflated(x) <=> mark = Inflated(x))
           /\ (\A u \in Threads : x \in Members(free'[u]) <=> x \in Members(free[u]))
           /\ (\A u \in Threads : (pc'[u] \in Preparing /\ mon'[u] = x)
                                     <=> (pc[u] \in Preparing /\ mon[u] = x))
    <3>1. \A x \in 1..blocks : mark' # Inflated(x)
      BY <1>7, Lists2
    <3>2. \A x \in 1..blocks \ {m} : mark # Inflated(x)
      BY <1>3, MarkFacts
    <3> QED BY <1>2, <1>20, <3>1, <3>2
  <2>3. /\ IsInjective(gFreeList') /\ Members(gFreeList') \subseteq 1..blocks
        /\ (\A u \in Threads : IsInjective(free'[u]) /\ Members(free'[u]) \subseteq 1..blocks)
        /\ (\A u \in Threads : pc'[u] \in Preparing => mon'[u] \in 1..blocks)
        /\ (\A x \in Monitors : mark' = Inflated(x) => x \in 1..blocks)
    BY <1>2, <1>7, <1>8, <1>18, <1>20 DEF Inv, PoolInv
  <2> QED
    BY <1>2, <1>18, <2>1, <2>2, <2>3, PoolMoves
<1>22. Typing'
  <2>1. mark' \in Marks
    BY <1>7 DEF Marks
  <2> QED BY <1>2, <1>5, <1>20, <2>1 DEF Inv, Typing
<1> QED
  BY <1>11, <1>13, <1>14, <1>15, <1>16, <1>17, <1>21, <1>22 DEF Inv

-----------------------------------------------------------------------------
(* The first state *)

\* A list without repetitions has as many elements as entries.
LEMMA LenOfMembers ==
  ASSUME NEW s \in Seq(Threads), IsInjective(s)
  PROVE  Cardinality(Members(s)) = Len(s)
<1> DEFINE n == Len(s)
<1>1. n \in Nat /\ s \in [1..n -> Members(s)]
  BY DEF Members
<1>2. s \in Injection(1..n, Members(s)) /\ s \in Surjection(1..n, Members(s))
  BY <1>1 DEF Injection, Surjection, Members
<1> HIDE DEF n
<1>3. ExistsBijection(1..n, Members(s))
  BY <1>2 DEF ExistsBijection, Bijection
<1>4. IsFiniteSet(1..n) /\ Cardinality(1..n) = n
  BY <1>1, FS_Interval
<1> QED
  BY <1>3, <1>4, FS_Bijection DEF n

\* The two kinds of monitors and of locals at the start.
LEMMA FirstRecords ==
  ASSUME NEW s \in Seq(Threads), NEW b \in BOOLEAN
  PROVE  /\ Idle \in MonitorRec /\ Idle.owner = None /\ ~Idle.box /\ Idle.recursions = 0
         /\ Idle.count = 0 /\ Idle.waiters = 0 /\ ~Idle.object
         /\ Waited(s) \in MonitorRec /\ Waited(s).owner = None /\ ~Waited(s).box
         /\ Waited(s).recursions = 0 /\ Waited(s).count = 0 /\ Waited(s).waiters = Len(s)
         /\ Waited(s).header = Neutral(0)
         /\ LET k == [NoLocals EXCEPT !.inwait = b, !.timed = b] IN
              k \in LocRec /\ k.inwait = b /\ k.save = 0
<1>1. /\ Idle \in MonitorRec /\ Idle.owner = None /\ ~Idle.box /\ Idle.recursions = 0
      /\ Idle.count = 0 /\ Idle.waiters = 0 /\ ~Idle.object
  BY DEF Idle, MonitorRec, NT
<1>2. /\ NoLocals \in LocRec /\ NoLocals.save = 0
  BY DEF NoLocals, LocRec, NT
<1> DEFINE h == Neutral(0)
           n == Len(s)
           o == TRUE
<1>3. h \in Headers \cup {None} /\ n \in Int /\ s \in Seq(NT) /\ o \in BOOLEAN
  BY DEF Headers, Neutrals, NT
<1> HIDE DEF h, n, o
<1>4. LET q == [Idle EXCEPT !.header = h, !.object = o, !.WaitSet = s, !.waiters = n] IN
      /\ q \in MonitorRec /\ q.owner = Idle.owner /\ q.box = Idle.box
      /\ q.recursions = Idle.recursions /\ q.count = Idle.count /\ q.waiters = n /\ q.header = h
  BY <1>1, <1>3 DEF MonitorRec
<1>5. LET k == [NoLocals EXCEPT !.inwait = b, !.timed = b] IN
      k \in LocRec /\ k.inwait = b /\ k.save = NoLocals.save
  BY <1>2 DEF LocRec
<1> QED
  BY <1>1, <1>2, <1>4, <1>5 DEF Waited, h, n, o

\* A thread at the start: in Java code with no lock, or in a wait().
LEMMA FirstThread ==
  ASSUME NEW t, loc[t].save = 0, boxes[t] = [i \in 1..MaxDepth |-> Unused],
         \/ pc[t] = "java" /\ ~loc[t].inwait /\ held[t] = <<>>
         \/ pc[t] = "wait_park" /\ loc[t].inwait /\ held[t] = <<"java">>
  PROVE  /\ Control(t) /\ Depths(t) /\ ~Has(t) /\ ~InEnterI(t)
         /\ (loc[t].inwait => Reals(t) = {1})
<1>0. MaxDepth \in Nat /\ MaxDepth >= 1
  BY DepthAssumption
<1>1. CASE pc[t] = "java" /\ ~loc[t].inwait /\ held[t] = <<>>
  <2>1. Where(t) = "java" /\ Depth(t) = 0
    BY <1>1 DEF Where, Depth, Inflation, Preparing
  <2>2. ~Trying(t) /\ ~Releasing(t) /\ ~InEnterI(t)
    BY <1>1, <2>1 DEF Trying, Releasing, InEnterI, Spinning, Preparing, Inflation, Owned,
       Plain, Acquiring, Contending, Entering, Last_unlock, Unlocking, Last_exit, Exiting,
       Released, Unlocked, Waiting, Reentered
  <2>3. Top(t) = 0
    BY <2>1, <2>2 DEF Top
  <2>4. ~Has(t)
    BY <1>1, <2>1, <2>3 DEF Has, Spinning, Preparing, Inflation, Owned, Plain, Acquiring,
       Contending, Entering, Last_unlock, Unlocking, Last_exit, Exiting, Released, Unlocked,
       Waiting, Reentered
  <2>5. Control(t)
    BY <1>1 DEF Control, Spinning, Preparing, Inflation, Owned, Plain, Acquiring, Contending,
       Entering, Last_unlock, Unlocking, Last_exit, Exiting, Released, Unlocked, Waiting,
       Reentered
  <2>6. Depths(t)
    BY <1>0, <1>1, <2>1, <2>2 DEF Depths, Spinning, Preparing, Inflation, Owned, Plain,
       Acquiring, Contending, Entering, Last_unlock, Unlocking, Last_exit, Exiting, Released,
       Unlocked, Waiting, Reentered
  <2> QED BY <1>1, <2>2, <2>4, <2>5, <2>6
<1>2. CASE pc[t] = "wait_park" /\ loc[t].inwait /\ held[t] = <<"java">>
  <2>1. Where(t) = "wait_park" /\ Depth(t) = 1
    BY <1>2 DEF Where, Depth, Inflation, Preparing
  <2>2. ~Trying(t) /\ ~Releasing(t) /\ ~InEnterI(t)
    BY <1>2, <2>1 DEF Trying, Releasing, InEnterI, Spinning, Preparing, Inflation, Owned,
       Plain, Acquiring, Contending, Entering, Last_unlock, Unlocking, Last_exit, Exiting,
       Released, Unlocked, Waiting, Reentered
  <2>3. Top(t) = 1 /\ ~Extra(t)
    BY <2>1, <2>2 DEF Top, Extra
  <2>4. ~Has(t)
    BY <1>2, <2>1, <2>3 DEF Has, Spinning, Preparing, Inflation, Owned, Plain, Acquiring,
       Contending, Entering, Last_unlock, Unlocking, Last_exit, Exiting, Released, Unlocked,
       Waiting, Reentered
  <2>5. Control(t)
    BY <1>2 DEF Control, Spinning, Preparing, Inflation, Owned, Plain, Acquiring, Contending,
       Entering, Last_unlock, Unlocking, Last_exit, Exiting, Released, Unlocked, Waiting,
       Reentered
  <2>6. Depths(t)
    BY <1>0, <1>2, <2>1, <2>2 DEF Depths, Spinning, Preparing, Inflation, Owned, Plain,
       Acquiring, Contending, Entering, Last_unlock, Unlocking, Last_exit, Exiting, Released,
       Unlocked, Waiting, Reentered
  <2>7. Real(t, 1)
    BY <1>0, MarkFacts DEF Real
  <2>8. Reals(t) = {1}
    BY <2>3, <2>7 DEF Reals
  <2> QED BY <2>2, <2>4, <2>5, <2>6, <2>8
<1> QED BY <1>1, <1>2

\* The first state.
LEMMA InitInv == Init => Inv /\ NestInv
<1> SUFFICES ASSUME Init PROVE Inv /\ NestInv
  OBVIOUS
<1> USE MonitorsAssumption, DepthAssumption
<1>1. PICK s \in Scenarios :
        LET W == Members(s.waiters) IN
        /\ todo = s.prog
        /\ blocks = (IF s.inflated THEN 1 ELSE 0)
        /\ mark = (IF s.inflated THEN Inflated(1) ELSE Neutral(0))
        /\ om = [m \in Monitors |-> IF s.inflated /\ m = 1 THEN Waited(s.waiters) ELSE Idle]
        /\ pc = [t \in Threads |-> IF t \in W THEN "wait_park" ELSE "java"]
        /\ mon = [t \in Threads |-> IF t \in W THEN 1 ELSE None]
        /\ node = [t \in Threads |-> IF t \in W THEN [TState |-> "WAIT", notified |-> 0]
                                     ELSE NoNode]
        /\ loc = [t \in Threads |-> [NoLocals EXCEPT !.inwait = t \in W, !.timed = t \in W]]
        /\ boxes = [t \in Threads |-> [i \in 1..MaxDepth |-> Unused]]
        /\ held = [t \in Threads |-> s.nest[t][1]]
        /\ seen = [t \in Threads |-> None]
        /\ free = [t \in Threads |-> <<>>]
        /\ gFreeList = <<>>
        /\ hashes = {}
  BY DEF Init
<1> DEFINE W == Members(s.waiters)
<1>2. /\ s.inflated \in BOOLEAN /\ s.waiters \in Seq(Threads) /\ IsInjective(s.waiters)
      /\ (s.waiters # <<>> => s.inflated) /\ s.prog \in [Threads -> Seq(Calls)]
      /\ s.nest \in [Threads -> Seq(Seq({"java", "jni"}))]
      /\ (\A t \in Threads : /\ Nested(s.prog[t], s.nest[t])
                             /\ s.nest[t][1] = IF t \in W THEN <<"java">> ELSE <<>>)
  BY ScenariosAssumption
<1>3. W \subseteq Threads /\ Cardinality(W) = Len(s.waiters) /\ (W # {} => s.inflated)
  <2>1. Cardinality(W) = Len(s.waiters)
    BY <1>2, LenOfMembers
  <2>2. W \subseteq Threads /\ (W # {} => s.waiters # <<>>)
    BY <1>2 DEF Members
  <2> QED BY <1>2, <2>1, <2>2
<1> HIDE DEF W
<1>4. \A t \in Threads : loc[t] \in LocRec /\ (loc[t].inwait <=> t \in W) /\ loc[t].save = 0
  <2> SUFFICES ASSUME NEW t \in Threads
               PROVE  loc[t] \in LocRec /\ (loc[t].inwait <=> t \in W) /\ loc[t].save = 0
    OBVIOUS
  <2>1. PICK b \in BOOLEAN : b <=> t \in W
    OBVIOUS
  <2>2. loc[t] = [NoLocals EXCEPT !.inwait = b, !.timed = b]
    BY <1>1, <2>1 DEF W
  <2> QED BY <1>2, <2>1, <2>2, FirstRecords
<1>5. \A t \in Threads :
         /\ pc[t] = (IF t \in W THEN "wait_park" ELSE "java") /\ mon[t] = (IF t \in W THEN 1 ELSE None)
         /\ held[t] = (IF t \in W THEN <<"java">> ELSE <<>>) /\ free[t] = <<>>
         /\ boxes[t] = [i \in 1..MaxDepth |-> Unused]
  BY <1>1, <1>2 DEF W
<1>6. ASSUME NEW t \in Threads
      PROVE  /\ Control(t) /\ Depths(t) /\ ~Has(t) /\ ~InEnterI(t)
             /\ (loc[t].inwait => Reals(t) = {1})
  BY <1>4, <1>5, FirstThread
<1>7. \A t \in Threads : pc[t] \notin Inflation /\ pc[t] \notin Preparing /\ ~Inflater(t)
  BY <1>5 DEF Inflation, Preparing, Inflater
<1>8. /\ 1 \in Monitors /\ Inflated(1) \in Marks /\ Neutral(0) \in Neutrals /\ Neutral(0) \in Marks
      /\ Unused \in Headers
  BY DEF Marks, Neutrals, Headers
<1>9. /\ (\A m \in Monitors : om[m] \in MonitorRec /\ om[m].owner = None /\ ~om[m].box
                              /\ om[m].recursions = 0 /\ om[m].count = 0)
      /\ (\A m \in Monitors : ~(s.inflated /\ m = 1) => ~om[m].object /\ om[m].waiters = 0)
      /\ (s.inflated => om[1].waiters = Len(s.waiters) /\ om[1].header = Neutral(0))
  BY <1>1, <1>2, <1>8, FirstRecords
<1>10. \A m \in Monitors : (mark = Inflated(m) <=> (s.inflated /\ m = 1))
  <2>1. CASE s.inflated
    <3>1. mark = Inflated(1)
      BY <1>1, <2>1
    <3> QED BY <2>1, <3>1, MarkFacts
  <2>2. CASE ~s.inflated
    <3>1. mark = Neutral(0)
      BY <1>1, <2>2
    <3> QED BY <2>2, <3>1, MarkFacts
  <2> QED BY <2>1, <2>2
<1>11. Typing
  <2>1. node \in [Threads -> NodeRec]
    BY <1>1 DEF NodeRec, NoNode
  <2>2. om \in [Monitors -> MonitorRec]
    BY <1>1, <1>9
  <2>3. pc \in [Threads -> Labels]
    BY <1>1 DEF Labels, Waiting, Plain
  <2>4. loc \in [Threads -> LocRec]
    BY <1>1, <1>4
  <2>5. mark \in Marks /\ boxes \in [Threads -> [1..MaxDepth -> Headers]]
    BY <1>1, <1>8
  <2>6. mon \in [Threads -> Monitors \cup {None}] /\ seen \in [Threads -> Marks \cup {None}]
    BY <1>1, <1>8
  <2>7. held \in [Threads -> Seq({"java", "jni"})]
    <3>1. held = [t \in Threads |-> held[t]]
      BY <1>1
    <3>2. <<"java">> \in Seq({"java", "jni"}) /\ <<>> \in Seq({"java", "jni"})
      OBVIOUS
    <3> QED BY <1>5, <3>1, <3>2
  <2>8. /\ free \in [Threads -> Seq(Monitors)] /\ gFreeList \in Seq(Monitors) /\ blocks \in 0..MaxMonitors
        /\ todo \in [Threads -> Seq(Calls)] /\ hashes \in SUBSET Hashes
    <3>1. blocks \in 0..MaxMonitors
      <4>1. blocks = 0 \/ blocks = 1
        BY <1>1
      <4> QED BY <4>1
    <3>2. free \in [Threads -> Seq(Monitors)] /\ gFreeList \in Seq(Monitors)
      <4>1. free = [t \in Threads |-> <<>>] /\ gFreeList = <<>>
        BY <1>1
      <4> QED BY <4>1
    <3> QED BY <1>1, <1>2, <3>1, <3>2
  <2> QED BY <2>1, <2>2, <2>3, <2>4, <2>5, <2>6, <2>7, <2>8 DEF Typing
<1>12. \A t \in Threads : ~StackOwner(t) /\ ~MonitorOwner(t)
  <2>1. mark.kind # "stack" /\ (mark.kind = "inflated" => mark.monitor \in Monitors)
    BY <1>1, <1>8, MarkFacts
  <2>2. \A t \in Threads : ~MonitorOwner(t)
    BY <1>9, <2>1, ThreadsAssumption DEF MonitorOwner
  <2> QED BY <1>7, <2>1, <2>2 DEF StackOwner
<1>13. OwnerInv
  BY <1>6, <1>12 DEF OwnerInv
<1>14. ThreadInv
  <2>1. ASSUME NEW t \in Threads PROVE Counted(t)
    <3>1. loc[t].inwait => Cardinality(Reals(t)) = 1
      BY <1>6, FS_Singleton
    <3> QED BY <1>4, <1>6, <1>12, <3>1 DEF Counted
  <2> QED BY <1>6, <2>1 DEF ThreadInv
<1>15. HeaderInv
  <2>1. Agrees(Neutral(0))
    BY <1>1, <1>8 DEF Agrees
  <2> QED BY <1>1, <1>7, <1>9, <2>1, MarkFacts, ZenonT(40) DEF HeaderInv
<1>16. InflateInv
  <2>1. mark # INFLATING
    BY <1>1, MarkFacts
  <2> QED BY <1>7, <2>1 DEF InflateInv, Inflation, Preparing
<1>17. MonitorInv
  <2>1. Cardinality({t \in Threads : InEnterI(t)}) = 0
    <3>1. {t \in Threads : InEnterI(t)} = {}
      BY <1>6
    <3> QED BY <3>1, FS_EmptySet
  <2>2. Cardinality({t \in Threads : loc[t].inwait}) = Len(s.waiters)
    <3>1. {t \in Threads : loc[t].inwait} = W
      BY <1>3, <1>4
    <3> QED BY <1>3, <3>1
  <2> SUFFICES ASSUME NEW m \in Monitors PROVE MonitorOK(m)
    BY DEF MonitorInv
  <2> QED BY <1>9, <1>10, <2>1, <2>2 DEF MonitorOK
<1>18. UseInv
  <2> SUFFICES ASSUME NEW t \in Threads, pc[t] \notin Outside PROVE mark = Inflated(mon[t])
    BY DEF UseInv
  <2>1. t \in W
    BY <1>5 DEF Outside
  <2> QED BY <1>1, <1>3, <1>5, <2>1
<1>19. PoolInv
  <2>1. Members(<<>>) = {} /\ IsInjective(<<>>)
    BY DEF Members, IsInjective
  <2>2. \A m \in 1..blocks : m = 1 /\ s.inflated /\ m \in Monitors
    <3>1. CASE s.inflated
      <4>1. blocks = 1 BY <1>1, <3>1
      <4> QED BY <3>1, <4>1
    <3>2. CASE ~s.inflated
      <4>1. blocks = 0 BY <1>1, <3>2
      <4> QED BY <4>1
    <3> QED BY <3>1, <3>2
  <2>0. s.inflated => 1 \in 1..blocks
    <3>1. s.inflated => blocks = 1
      BY <1>1
    <3> QED BY <3>1
  <2>3. \A m \in 1..blocks : Placed(m)
    <3> SUFFICES ASSUME NEW m \in 1..blocks PROVE Placed(m)
      OBVIOUS
    <3>1. mark = Inflated(m) /\ m \notin Members(gFreeList) /\ (\A t \in Threads : m \notin Members(free[t]))
      BY <1>1, <1>5, <1>10, <2>1, <2>2
    <3> QED BY <1>7, <3>1 DEF Placed
  <2> QED BY <1>1, <1>5, <1>7, <1>10, <2>0, <2>1, <2>3 DEF PoolInv
<1>20. NestInv
  <2> SUFFICES ASSUME NEW t \in Threads
               PROVE  \E nest \in Seq(Seq({"java", "jni"})) : Nested(todo[t], nest) /\ nest[1] = held[t]
    BY DEF NestInv
  <2>1. s.nest[t] \in Seq(Seq({"java", "jni"})) /\ Nested(todo[t], s.nest[t]) /\ s.nest[t][1] = held[t]
    BY <1>1, <1>2
  <2> QED BY <2>1
<1> QED
  BY <1>11, <1>13, <1>14, <1>15, <1>16, <1>17, <1>18, <1>19, <1>20 DEF Inv

-----------------------------------------------------------------------------
(* Every step, and the theorems *)

\* A step of TrySpin.
LEMMA TrySpinKeeps ==
  ASSUME Inv, NEW t \in Threads, TrySpin(t), UNCHANGED objectVars
  PROVE  Inv'
BY Spin_tryKeeps, Spin_succKeeps, Spin_storeKeeps, Spin_againKeeps, Spin_gotKeeps,
   Spin_abortKeeps, Spin_clearKeeps, Spin_retryKeeps, Clear_storeKeeps
   DEF TrySpin

\* A step of enter.
LEMMA EnterKeeps ==
  ASSUME Inv, NEW t \in Threads, Enter(t), UNCHANGED objectVars
  PROVE  Inv'
BY Enter_casKeeps, Enter_recursiveKeeps, Enter_contendedKeeps, EnterIKeeps, EnqueueKeeps,
   PushKeeps, Push_failedKeeps, Responsible_readKeeps, Responsible_casKeeps, ContendKeeps,
   Park_kindKeeps, ParkKeeps, WokenKeeps, FutileKeeps, EgressKeeps, EnteredKeeps
   DEF Enter

\* A step of exit.
LEMMA ExitKeeps ==
  ASSUME Inv, NEW t \in Threads, Exit(t), UNCHANGED objectVars
  PROVE  Inv'
BY Exit_prologKeeps, DropKeeps, Exit_EntryListKeeps, Exit_cxqKeeps, Exit_succKeeps,
   Exit_casKeeps, Drain_noneKeeps, DrainKeeps, DrainedKeeps, Epilog_succKeeps,
   Epilog_dropKeeps, Epilog_unparkKeeps
   DEF Exit

\* A step of the unlock of compiled code.
LEMMA Fast_UnlockKeeps ==
  ASSUME Inv, NEW t \in Threads, Fast_Unlock(t), UNCHANGED objectVars
  PROVE  Inv'
BY Unlock_cxqKeeps, Unlock_EntryListKeeps, Unlock_storeKeeps, Unlock_succKeeps,
   Unlock_dropKeeps, Unlock_recheckKeeps, Unlock_casKeeps
   DEF Fast_Unlock

\* A step of wait.
LEMMA WaitKeeps ==
  ASSUME Inv, NEW t \in Threads, Wait(t), UNCHANGED objectVars
  PROVE  Inv'
BY Wait_interruptedKeeps, Wait_nodeKeeps, Wait_addKeeps, Wait_exitedKeeps, Wait_checkKeeps,
   Wait_notifiedKeeps, Wait_parkKeeps, Wait_stateKeeps, Wait_unlinkKeeps, Wait_wasKeeps,
   ReenterKeeps, Reenter_parkKeeps, Reenter_wokenKeeps, Reenter_egressKeeps, Wait_endKeeps
   DEF Wait

\* A step of notify or notifyAll.
LEMMA NotifyKeeps ==
  ASSUME Inv, NEW t \in Threads, Notify(t), UNCHANGED objectVars
  PROVE  Inv'
BY Notify_beginKeeps, Notify_dequeueKeeps, Notify_setKeeps, Notify_linkKeeps,
   NotifyAll_lockKeeps, NotifyAll_dequeueKeeps, NotifyAll_linkKeeps
   DEF Notify

\* A step of interrupt.
LEMMA InterruptKeeps ==
  ASSUME Inv, NEW t \in Threads, Interrupt(t), UNCHANGED objectVars
  PROVE  Inv'
BY Interrupt_setKeeps, Interrupt_unparkKeeps
   DEF Interrupt

\* A step of a thread in its monitor.
LEMMA MonitorStepKeeps ==
  ASSUME Inv, NestInv, NEW t \in Threads, MonitorStep(t), UNCHANGED objectVars
  PROVE  Inv' /\ NestInv'
<1>1. Inv'
  BY TrySpinKeeps, EnterKeeps, ExitKeeps, Fast_UnlockKeeps, WaitKeeps, NotifyKeeps,
     InterruptKeeps
     DEF MonitorStep
<1>2. NestInv'
  BY DEF NestInv, objectVars
<1> QED BY <1>1, <1>2

\* A step of inflate.
LEMMA InflateStepKeeps ==
  ASSUME Inv, NestInv, NEW t \in Threads, InflateStep(t)
  PROVE  Inv' /\ NestInv'
<1>1. Inv'
  BY Inflate_inflatedKeeps, Inflate_readKeeps, omAlloc_ownKeeps, omAlloc_globalKeeps,
     omAlloc_blockKeeps, Inflate_failedKeeps, Inflate_neutralKeeps, Inflate_stackKeeps,
     Inflate_dmwKeeps, Inflate_publishKeeps
     DEF InflateStep
<1>2. UNCHANGED <<todo, held>>
  BY DEF InflateStep, objectVars, Inflate_inflated, Inflate_read, omAlloc_own, omAlloc_global,
     omAlloc_block, Inflate_failed, Inflate_neutral, Inflate_stack, Inflate_dmw,
     Inflate_publish
<1> QED
  BY <1>1, <1>2 DEF NestInv

\* A step of the locking of the mark.
LEMMA LockStepKeeps ==
  ASSUME Inv, NestInv, NEW t \in Threads, LockStep(t)
  PROVE  Inv' /\ NestInv'
<1>1. Inv'
  BY Slow_enterKeeps, Stack_lockKeeps, Fast_exitKeeps, Stack_unlockKeeps, Compiled_unlockKeeps
     DEF LockStep
<1>2. UNCHANGED <<todo, held>>
  BY DEF LockStep, objectVars, Slow_enter, Stack_lock, Fast_exit, Stack_unlock, Compiled_unlock
<1> QED
  BY <1>1, <1>2 DEF NestInv

\* A step of FastHashCode.
LEMMA HashStepKeeps ==
  ASSUME Inv, NestInv, NEW t \in Threads, HashStep(t)
  PROVE  Inv' /\ NestInv'
<1>1. Inv'
  BY Hash_readKeeps, Hash_markKeeps, Hash_monitorKeeps, Hash_headerKeeps
     DEF HashStep
<1>2. UNCHANGED <<todo, held>>
  BY DEF HashStep, objectVars, Hash_read, Hash_mark, Hash_monitor, Hash_header
<1> QED
  BY <1>1, <1>2 DEF NestInv

\* A call of a thread.
LEMMA CallStepKeeps ==
  ASSUME Inv, NestInv, NEW t \in Threads, CallStep(t)
  PROVE  Inv' /\ NestInv'
<1>1. CASE Call_enter(t) \/ Call_exit(t) \/ Call_wait(t) \/ Call_notify(t) \/ Call_omFlush(t)
  BY <1>1, Call_enterKeeps, Call_exitKeeps, Call_waitKeeps, Call_notifyKeeps, Call_omFlushKeeps
<1>2. CASE Call_hash(t)
  <2>1. Call(t, "hash") /\ held' = held
    BY <1>2 DEF Call_hash
  <2> QED BY <1>2, <2>1, Call_hashKeeps, CallQuiet
<1>3. CASE Call_interrupt(t)
  <2>1. Call(t, "interrupt") /\ held' = held
    BY <1>3 DEF Call_interrupt
  <2> QED BY <1>3, <2>1, Call_interruptKeeps, CallQuiet
<1> QED
  BY <1>1, <1>2, <1>3 DEF CallStep

\* A step that changes nothing.
LEMMA StutterKeeps ==
  ASSUME Inv, NestInv, UNCHANGED vars
  PROVE  Inv' /\ NestInv'
<1>1. /\ UNCHANGED <<om, pc, mon, node, loc>>
      /\ UNCHANGED <<mark, boxes, held, seen, free, gFreeList, blocks, todo, hashes>>
  BY DEF vars
<1>2. NestInv'
  BY <1>1 DEF NestInv
<1>3. \A u \in Threads :
         /\ (Has(u)' <=> Has(u)) /\ (InEnterI(u)' <=> InEnterI(u)) /\ Control(u)' /\ Depths(u)'
         /\ Reals(u)' = Reals(u) /\ (Unboxed(u)' <=> Unboxed(u))
  BY <1>1, Unmoved DEF Inv, ThreadInv
<1>4. Typing' /\ PoolInv' /\ UseInv'
  <2>1. Typing'
    BY <1>1 DEF Inv, Typing
  <2>2. PoolInv'
    BY <1>1 DEF Inv, PoolInv, Placed
  <2>3. UseInv'
    BY <1>1 DEF Inv, UseInv
  <2> QED BY <2>1, <2>2, <2>3
<1>5. \A u \in Threads : /\ (Inflater(u)' <=> Inflater(u)) /\ (StackOwner(u)' <=> StackOwner(u))
                         /\ (MonitorOwner(u)' <=> MonitorOwner(u))
  BY <1>1 DEF Inflater, StackOwner, MonitorOwner
<1>6. HeaderInv' /\ InflateInv'
  <2>1. HeaderInv'
    BY <1>1, <1>5 DEF Inv, HeaderInv, Agrees
  <2>2. InflateInv'
    BY <1>1, <1>5 DEF Inv, InflateInv
  <2> QED BY <2>1, <2>2
<1>7. OwnerInv'
  BY <1>3, <1>5 DEF Inv, OwnerInv
<1>8. ThreadInv'
  <2>1. ASSUME NEW u \in Threads PROVE Counted(u)'
    <3>1. Counted(u) BY OfThread
    <3> QED BY <1>1, <1>3, <1>5, <3>1 DEF Counted
  <2> QED BY <1>3, <2>1 DEF ThreadInv
<1>9. MonitorInv'
  <2> SUFFICES ASSUME NEW m \in Monitors PROVE MonitorOK(m)'
    BY DEF MonitorInv
  <2>1. MonitorOK(m) BY DEF Inv, MonitorInv
  <2>2. {u \in Threads : InEnterI(u)'} = {u \in Threads : InEnterI(u)}
    BY <1>3
  <2> QED BY <1>1, <2>1, <2>2 DEF MonitorOK
<1> QED
  BY <1>2, <1>4, <1>6, <1>7, <1>8, <1>9 DEF Inv

\* Every step.
LEMMA NextKeeps == Inv /\ NestInv /\ [Next]_vars => Inv' /\ NestInv'
<1> SUFFICES ASSUME Inv, NestInv, [Next]_vars PROVE Inv' /\ NestInv'
  OBVIOUS
<1>1. ASSUME NEW t \in Threads,
             \/ MonitorStep(t) /\ UNCHANGED objectVars
             \/ InflateStep(t) \/ LockStep(t) \/ HashStep(t) \/ CallStep(t)
      PROVE  Inv' /\ NestInv'
  BY <1>1, MonitorStepKeeps, InflateStepKeeps, LockStepKeeps, HashStepKeeps, CallStepKeeps
<1>2. ASSUME NEW m \in Monitors, Deflate(m) PROVE Inv' /\ NestInv'
  <2>1. UNCHANGED <<todo, held>>
    BY <1>2 DEF Deflate
  <2>2. NestInv'
    BY <2>1 DEF NestInv
  <2> QED BY <1>2, <2>2, DeflateKeeps
<1> QED
  BY <1>1, <1>2, StutterKeeps DEF Next

\* The places of the threads in enter, exit, wait and inflate, the owner word,
\* _recursions, _count, _waiters, the mark word with its displaced headers and
\* the free lists of monitors fit together in every reachable state.
THEOREM InvariantHolds == Spec => [](Inv /\ NestInv)
BY InitInv, NextKeeps, PTL DEF Spec

\* A thread in a synchronized block is the owner the mark or the monitor names.
LEMMA HolderOwns ==
  ASSUME Inv, NEW t \in Threads, Holds(t)
  PROVE  StackOwner(t) \/ MonitorOwner(t)
<1>1. pc[t] = "java" /\ Depth(t) > 0
  <2>1. held[t] \in Seq({"java", "jni"}) /\ held[t] # <<>>
    BY DEF Inv, Typing, Holds
  <2> QED BY <2>1 DEF Holds, Depth
<1> QED
  BY <1>1, JavaFacts DEF Inv, OwnerInv

\* There is one owner.
LEMMA OneOwner ==
  ASSUME Inv, NEW t \in Threads, NEW u \in Threads,
         StackOwner(t) \/ MonitorOwner(t), StackOwner(u) \/ MonitorOwner(u)
  PROVE  t = u
<1>1. \A w \in Threads : Inflater(w) => mark.kind = "inflating" /\ (\A x \in Threads : Inflater(x) => x = w)
  BY MarkFacts DEF Inv, InflateInv
<1> QED
  BY <1>1 DEF StackOwner, MonitorOwner

\* At most one thread is in a block synchronized on the object, and the mark word
\* or the _owner of the monitor names it, while inflate() replaces its stack lock,
\* Fast_Unlock drops the lock by a plain store, and monitors are deflated.
THEOREM MutualExclusionCorrect == Spec => []MutualExclusion
<1>1. Inv => MutualExclusion
  <2> SUFFICES ASSUME Inv, NEW t \in Threads, Holds(t)
               PROVE  /\ \A u \in Threads \ {t} : ~Holds(u)
                      /\ \/ Own(t)
                         \/ mark = INFLATING
                         \/ mark.kind = "inflated" /\ om[mark.monitor].owner = t
    BY DEF MutualExclusion
  <2>1. StackOwner(t) \/ MonitorOwner(t)
    BY HolderOwns
  <2>2. \A u \in Threads \ {t} : ~Holds(u)
    BY <2>1, HolderOwns, OneOwner
  <2>3. \A u \in Threads : Inflater(u) => mark = INFLATING
    BY DEF Inv, InflateInv
  <2> QED BY <2>1, <2>2, <2>3 DEF StackOwner, MonitorOwner, Own
<1> QED BY <1>1, InvariantHolds, PTL

\* All calls of FastHashCode return one value, however stack locks, inflate() and
\* deflation have moved the header between the object, a BasicLock and a monitor.
THEOREM HashStableCorrect == Spec => []HashStable
<1>1. Inv => HashStable
  <2> SUFFICES ASSUME Inv PROVE Cardinality(hashes) <= 1
    BY DEF HashStable
  <2>1. \E header : Agrees(header)
    <3>1. CASE mark.kind \in {"neutral", "stack", "inflated"}
      BY <3>1 DEF Inv, HeaderInv
    <3>2. CASE mark = INFLATING
      BY <3>2 DEF Inv, HeaderInv, InflateInv
    <3> QED BY <3>1, <3>2, MarkCases DEF Inv
  <2>2. PICK x : \A h \in hashes : x = h
    BY <2>1 DEF Agrees
  <2>3. hashes = {} \/ hashes = {x}
    BY <2>2
  <2>4. Cardinality({}) = 0 /\ Cardinality({x}) = 1
    BY FS_EmptySet, FS_Singleton
  <2>5. CASE hashes = {}
    BY <2>4, <2>5
  <2>6. CASE hashes = {x}
    BY <2>4, <2>6
  <2> QED BY <2>3, <2>5, <2>6
<1> QED BY <1>1, InvariantHolds, PTL

\* A set of threads with at most one element.
LEMMA AtMostOne ==
  ASSUME NEW S, \A t, u \in S : t = u
  PROVE  Cardinality(S) = IF S = {} THEN 0 ELSE 1
<1>1. CASE S = {}
  BY <1>1, FS_EmptySet
<1>2. CASE S # {}
  <2>1. PICK x : S = {x}
    BY <1>2
  <2> QED BY <1>2, <2>1, FS_Singleton
<1> QED BY <1>1, <1>2

\* omAlloc, omRelease, omFlush, inflate() and deflation neither lose a monitor nor
\* give it to two, and no monitor is deflated under a thread that enters, exits,
\* waits on or notifies it.
THEOREM MonitorsAccountedCorrect == Spec => []MonitorsAccounted
<1>1. Inv => MonitorsAccounted
  <2> SUFFICES ASSUME Inv PROVE MonitorsAccounted
    OBVIOUS
  <2>1. ASSUME NEW m \in 1..blocks
        PROVE  Cardinality({t \in Threads : mon[t] = m /\ pc[t] \in
                              {"inflate_stack", "inflate_neutral", "inflate_dmw", "inflate_publish"}})
               + Cardinality({t \in Threads : m \in Members(free[t])})
               + (IF m \in Members(gFreeList) THEN 1 ELSE 0)
               + (IF mark = Inflated(m) THEN 1 ELSE 0) = 1
    <3> DEFINE A == {t \in Threads : mon[t] = m /\ pc[t] \in
                       {"inflate_stack", "inflate_neutral", "inflate_dmw", "inflate_publish"}}
               B == {t \in Threads : m \in Members(free[t])}
    <3>1. Placed(m)
      BY DEF Inv, PoolInv
    <3>2. (\A t, u \in A : t = u) /\ (\A t, u \in B : t = u)
      BY <3>1 DEF Placed, Preparing
    <3>3. /\ A # {} => B = {} /\ m \notin Members(gFreeList) /\ mark # Inflated(m)
          /\ B # {} => A = {} /\ m \notin Members(gFreeList) /\ mark # Inflated(m)
          /\ m \in Members(gFreeList) => A = {} /\ B = {} /\ mark # Inflated(m)
          /\ mark = Inflated(m) => A = {} /\ B = {} /\ m \notin Members(gFreeList)
          /\ A # {} \/ B # {} \/ m \in Members(gFreeList) \/ mark = Inflated(m)
      BY <3>1 DEF Placed, Preparing
    <3> HIDE DEF A, B
    <3>4. /\ Cardinality(A) = (IF A = {} THEN 0 ELSE 1) /\ Cardinality(B) = (IF B = {} THEN 0 ELSE 1)
      BY <3>2, AtMostOne
    <3>5. Cardinality(A) + Cardinality(B) + (IF m \in Members(gFreeList) THEN 1 ELSE 0)
            + (IF mark = Inflated(m) THEN 1 ELSE 0) = 1
      BY <3>3, <3>4
    <3> QED BY <3>5 DEF A, B
  <2>2. \A t \in Threads : pc[t] \notin Outside => mark = Inflated(mon[t])
    BY DEF Inv, UseInv
  <2> QED BY <2>1, <2>2 DEF MonitorsAccounted, Outside
<1> QED BY <1>1, InvariantHolds, PTL

-----------------------------------------------------------------------------
(* The steps that move no node *)

\* The owner, by its place.
LEMMA OwnerAt ==
  ASSUME Inv, NEW t \in Threads,
         pc[t] \in Exiting \cup Last_unlock \cup Owned \cup Entering \cup Reentered
  PROVE  Owner = t /\ Heavy
<1>1. pc[t] \notin Outside
  BY DEF Exiting, Last_exit, Last_unlock, Owned, Entering, Reentered, Outside
<1>2. Where(t) = pc[t] /\ loc[t] \in LocRec /\ Control(t) /\ Depths(t) /\ Depth(t) \in Nat
  <2>1. Where(t) = pc[t]
    BY DEF Where, Inflation, Preparing, Exiting, Last_exit, Last_unlock, Owned, Entering, Reentered
  <2> QED BY <2>1, OfThread
<1>3. Has(t)
  <2>1. CASE pc[t] \in Owned
    <3>1. ~loc[t].inwait /\ Depth(t) > 0 BY <2>1, <1>2 DEF Control, Depths, Plain
    <3>2. pc[t] \notin Acquiring \cup Contending \cup Spinning
      BY <2>1 DEF Owned, Acquiring, Contending, Spinning
    <3>3. Top(t) = Depth(t) BY <3>2, <1>2 DEF Top, Trying
    <3> QED BY <3>1, <3>3, <2>1, <1>2 DEF Has, Plain
  <2>2. CASE pc[t] \in Last_unlock
    BY <2>2, <1>2 DEF Has, Control, Unlocking
  <2>3. CASE pc[t] \in Reentered
    BY <2>3, <1>2 DEF Has, Control
  <2>4. CASE pc[t] \in Exiting \cup Entering
    BY <2>4, <1>2 DEF Has
  <2> QED BY <2>1, <2>2, <2>3, <2>4
<1>4. Heavy /\ mark = Inflated(mon[t]) /\ mark.monitor = mon[t]
  BY <1>1, AtThe
<1>5. ~StackOwner(t)
  BY <1>4, MarkFacts DEF StackOwner, Inv, InflateInv, Heavy
<1> QED
  BY <1>3, <1>4, <1>5 DEF Inv, OwnerInv, MonitorOwner, Owner

\* The types of the words and of the lists.
LEMMA WordTypes ==
  ASSUME Inv, Heavy
  PROVE  /\ Owner \in NT /\ Succ \in NT /\ Resp \in NT /\ WaitLock \in NT
         /\ Cxq \in Seq(NT) /\ Entries \in Seq(NT) /\ Waits \in Seq(NT)
         /\ mark.monitor \in Monitors /\ mark = Inflated(mark.monitor)
<1>1. mark.monitor \in Monitors /\ mark = Inflated(mark.monitor)
  BY MarkAt DEF Heavy
<1>2. om[mark.monitor] \in MonitorRec
  BY <1>1 DEF Inv, Typing
<1> QED
  BY <1>1, <1>2 DEF MonitorRec, Owner, Succ, Resp, WaitLock, Cxq, Entries, Waits

\* The other monitors, and what says that they are used, are as they were.
LEMMA StepFresh ==
  ASSUME Inv, FreshInv, ObjectInv, NEW t \in Threads, Step(t),
         pc'[t] \notin {"inflate_neutral", "inflate_publish"}
  PROVE  FreshInv' /\ ObjectInv'
<1>1. FreshInv'
  BY DEF Step, Rest, FreshInv
<1>2. mark.monitor \in Monitors /\ mark = Inflated(mark.monitor)
  BY WordTypes DEF Step
<1>3. ASSUME NEW m \in Monitors, mark' = Inflated(m) PROVE om'[m].object
  <2>1. m = mark.monitor
    BY <1>3, MarkFacts DEF Step
  <2> QED BY <2>1, <1>2 DEF Step, Rest, ObjectInv
<1>4. ASSUME NEW u \in Threads, pc'[u] \in {"inflate_neutral", "inflate_publish"}
      PROVE  om'[mon'[u]].object
  <2>1. u # t BY <1>4
  <2>2. pc[u] \in {"inflate_neutral", "inflate_publish"} /\ mon'[u] = mon[u]
    BY <1>4, <2>1 DEF Step
  <2>3. mon[u] \in Monitors /\ mark # Inflated(mon[u])
    BY <2>2, Prepared DEF Preparing
  <2> QED BY <2>2, <2>3 DEF Step, Rest, ObjectInv
<1> QED BY <1>1, <1>3, <1>4 DEF ObjectInv

\* The place of a thread that did not move.
LEMMA SiteSame ==
  ASSUME NEW t \in Threads, Step(t), NEW u \in Threads \ {t}
  PROVE  /\ Site(u)' = Site(u) /\ States(u)' = States(u) /\ pc'[u] = pc[u] /\ loc'[u] = loc[u]
         /\ \A v : Hand(u, v)' <=> Hand(u, v)
<1>1. pc'[u] = pc[u] /\ loc'[u] = loc[u]
  BY DEF Step
<1>2. Site(u)' = Site(u)
  BY <1>1 DEF Site, Where
<1> QED
  BY <1>1, <1>2 DEF States, Hand

\* Who is in the hands of a notifier.
LEMMA CarriedSame ==
  ASSUME NEW t \in Threads, Step(t), NEW u, Hand(t, u)' <=> Hand(t, u)
  PROVE  Carried(u)' <=> Carried(u)
<1>1. \A v \in Threads : Hand(v, u)' <=> Hand(v, u)
  BY SiteSame
<1> QED BY <1>1 DEF Carried

\* Whoever has no step, and whose node and notifier are as they were, is on
\* the list it was on.
LEMMA OthersOn ==
  ASSUME NEW t \in Threads, Step(t), NEW u \in Threads \ {t}, TState(u)' = TState(u),
         Hand(t, u)' <=> Hand(t, u)
  PROVE  /\ (OnCxq(u)' <=> OnCxq(u)) /\ (OnEntries(u)' <=> OnEntries(u))
         /\ (OnWaits(u)' <=> OnWaits(u))
<1>1. (Carried(u)' <=> Carried(u)) /\ Site(u)' = Site(u)
  BY CarriedSame, SiteSame
<1> QED BY <1>1 DEF OnCxq, OnEntries, OnWaits

\* The lists of the next state.
LEMMA ListsAre ==
  ASSUME NEW C, NEW E, NEW W, ListOf(Cxq', C), ListOf(Entries', E), ListOf(Waits', W),
         C \subseteq Threads, E \subseteq Threads, W \subseteq Threads,
         \A u \in Threads : /\ (OnCxq(u)' <=> u \in C) /\ (OnEntries(u)' <=> u \in E)
                            /\ (OnWaits(u)' <=> u \in W)
  PROVE  ListInv'
<1>1. {u \in Threads : OnCxq(u)}' = C /\ {u \in Threads : OnEntries(u)}' = E
      /\ {u \in Threads : OnWaits(u)}' = W
  OBVIOUS
<1>2. ListOf(Cxq, {u \in Threads : OnCxq(u)})' /\ ListOf(Entries, {u \in Threads : OnEntries(u)})'
      /\ ListOf(Waits, {u \in Threads : OnWaits(u)})'
  BY <1>1 DEF ListOf
<1> QED BY <1>2 DEF ListInv

\* A notifier that has the lock of the WaitSet.
Handing == {"notify_set", "notify_link", "notifyAll_dequeue", "notifyAll_link"}

\* A step of t that moves no node and no list.
Calm(t) ==
  /\ Step(t) /\ SameLists /\ (\A u \in Threads : TState(u)' = TState(u))
  /\ TState(t) \in States(t)'
  /\ (TState(t) = "CXQ" => (Site(t)' \in {"push", "entered"} <=> Site(t) \in {"push", "entered"}))
  /\ (TState(t) = "WAIT" => (Site(t)' = "wait_add" <=> Site(t) = "wait_add"))
  /\ (TState(t) # "CXQ" /\ Site(t)' \in Linked => Site(t) \in Linked)
  /\ pc[t] \notin Handing /\ pc'[t] \notin Handing
  /\ (pc'[t] = "drain" => Entries = <<>>) /\ pc'[t] # "drained"
  /\ (pc'[t] \in {"epilog", "epilog_drop"} => loc'[t].w \in Members(Entries))
  /\ pc'[t] \notin {"inflate_neutral", "inflate_publish"}

\* _succ is kept, cleared, or names someone it may name.
CalmSucc(t) ==
  \A u \in Threads : Succ' = u =>
    IF u = t THEN OnEntries(t) \/ pc'[t] \in Naming ELSE Succ = u \/ OnEntries(u)

\* The same of _Responsible.
CalmResp(t) ==
  \A u \in Threads : Resp' = u =>
    IF u = t THEN Site(t)' \in Linked \cup {"entered"} /\ pc'[t] # "park" ELSE Resp = u

\* A calm step keeps the invariant of the queues.
LEMMA CalmKeeps ==
  ASSUME Inv, QInv, NEW t \in Threads, Calm(t), CalmSucc(t), CalmResp(t)
  PROVE  QInv'
<1>0. Step(t) /\ SameLists /\ (\A u \in Threads : TState(u)' = TState(u)) /\ Heavy /\ Heavy'
  BY DEF Calm, Step
<1>1. \A u \in Threads : ~Hand(t, u) /\ ~Hand(t, u)'
  BY DEF Calm, Hand, Handing
<1>2. NodeInv'
  <2> SUFFICES ASSUME NEW u \in Threads PROVE TState(u)' \in States(u)'
    BY DEF NodeInv
  <2>1. CASE u = t
    BY <2>1, <1>0 DEF Calm
  <2>2. CASE u # t
    <3>1. States(u)' = States(u) BY <1>0, <2>2, SiteSame
    <3> QED BY <3>1, <1>0 DEF QInv, NodeInv
  <2> QED BY <2>1, <2>2
<1>3. HandInv'
  <2> SUFFICES ASSUME NEW u \in Threads
               PROVE  /\ pc'[u] \in Handing => WaitLock' = u
                      /\ (pc'[u] \in {"notify_set", "notify_link"} =>
                            loc'[u].w \in Threads /\ node'[loc'[u].w].TState = "ENTER")
                      /\ (pc'[u] = "notifyAll_link" =>
                            loc'[u].w \in Threads /\ node'[loc'[u].w].TState = "WAIT")
    BY DEF HandInv, Handing, TState
  <2>1. CASE u = t
    BY <2>1 DEF Calm, Handing
  <2>2. CASE u # t
    <3>1. pc'[u] = pc[u] /\ loc'[u] = loc[u] BY <1>0, <2>2, SiteSame
    <3> QED BY <3>1, <1>0 DEF QInv, HandInv, Handing, SameLists, TState
  <2> QED BY <2>1, <2>2
<1>10. FarInv'
  <2> SUFFICES ASSUME NEW u \in Threads, NEW w \in Threads, Hand(u, w)' PROVE Site(w)' \notin Linked
    BY DEF FarInv
  <2>1. u # t /\ Hand(u, w)
    <3>1. u # t BY <1>1
    <3> QED BY <1>0, <3>1, SiteSame
  <2>2. CASE w = t
    <3>1. TState(t) # "CXQ" BY <2>1, <2>2 DEF QInv, HandInv, Hand
    <3> QED BY <2>1, <2>2, <3>1 DEF Calm, QInv, FarInv
  <2>3. CASE w # t
    <3>1. Site(w)' = Site(w) BY <1>0, <2>3, SiteSame
    <3> QED BY <2>1, <3>1 DEF QInv, FarInv
  <2> QED BY <2>2, <2>3
<1>9. ASSUME NEW u \in Threads
      PROVE  /\ (OnCxq(u)' <=> OnCxq(u)) /\ (OnEntries(u)' <=> OnEntries(u))
             /\ (OnWaits(u)' <=> OnWaits(u))
  <2>1. CASE u = t
    <3>1. Carried(t)' <=> Carried(t)
      BY <1>0, <1>1, CarriedSame
    <3> QED BY <2>1, <3>1, <1>0 DEF Calm, OnCxq, OnEntries, OnWaits
  <2>2. CASE u # t
    BY <2>2, <1>0, <1>1, OthersOn
  <2> QED BY <2>1, <2>2
<1>4. ListInv'
  <2> DEFINE C == {u \in Threads : OnCxq(u)}
             E == {u \in Threads : OnEntries(u)}
             W == {u \in Threads : OnWaits(u)}
  <2>1. ListOf(Cxq', C) /\ ListOf(Entries', E) /\ ListOf(Waits', W)
    BY <1>0 DEF QInv, ListInv, SameLists
  <2>3. \A u \in Threads : /\ (OnCxq(u)' <=> u \in C) /\ (OnEntries(u)' <=> u \in E)
                           /\ (OnWaits(u)' <=> u \in W)
    BY <1>9
  <2>4. C \subseteq Threads /\ E \subseteq Threads /\ W \subseteq Threads
    OBVIOUS
  <2> HIDE DEF C, E, W
  <2> QED BY <2>1, <2>3, <2>4, ListsAre
<1>5. ExitInv'
  <2> SUFFICES ASSUME NEW u \in Threads
               PROVE  /\ pc'[u] = "drain" => Entries' = <<>>
                      /\ (pc'[u] = "drained" => Entries' # <<>>)
                      /\ (pc'[u] \in {"epilog", "epilog_drop"} => loc'[u].w \in Members(Entries'))
    BY DEF ExitInv, Members
  <2>1. CASE u = t
    BY <2>1, <1>0 DEF Calm, SameLists
  <2>2. CASE u # t
    <3>1. pc'[u] = pc[u] /\ loc'[u] = loc[u] BY <1>0, <2>2, SiteSame
    <3> QED BY <3>1, <1>0 DEF QInv, ExitInv, SameLists
  <2> QED BY <2>1, <2>2
<1>6. SuccInv'
  <2> SUFFICES ASSUME NEW u \in Threads, Succ' = u PROVE OnEntries(u)' \/ pc'[u] \in Naming
    BY DEF SuccInv
  <2>1. CASE u = t
    BY <2>1, <1>0, <1>9 DEF CalmSucc
  <2>2. CASE u # t
    <3>1. pc'[u] = pc[u] BY <1>0, <2>2, SiteSame
    <3> QED BY <3>1, <2>2, <1>0, <1>9 DEF CalmSucc, QInv, SuccInv
  <2> QED BY <2>1, <2>2
<1>7. RespInv'
  <2> SUFFICES ASSUME NEW u \in Threads, Resp' = u
               PROVE  Site(u)' \in Linked \cup {"entered"} /\ pc'[u] # "park"
    BY DEF RespInv
  <2>1. CASE u = t
    BY <2>1 DEF CalmResp
  <2>2. CASE u # t
    <3>1. pc'[u] = pc[u] /\ Site(u)' = Site(u) BY <1>0, <2>2, SiteSame
    <3> QED BY <3>1, <2>2, <1>0 DEF CalmResp, QInv, RespInv
  <2> QED BY <2>1, <2>2
<1>8. FreshInv' /\ ObjectInv'
  BY <1>0, StepFresh DEF Calm, QInv
<1> QED BY <1>10, <1>2, <1>3, <1>4, <1>5, <1>6, <1>7, <1>8 DEF QInv

\* What is known of a thread inside the monitor.
LEMMA Here ==
  ASSUME Inv, QInv, NEW t \in Threads, pc[t] \notin Outside
  PROVE  /\ Heavy /\ loc[t] \in LocRec /\ Control(t) /\ TState(t) \in States(t) /\ None \notin Threads
         /\ (\A u \in Threads : Succ = u => OnEntries(u) \/ pc[u] \in Naming)
         /\ (\A u \in Threads : OnEntries(u) => TState(u) = "ENTER")
         /\ (\A u \in Threads : Resp = u => Site(u) \in Linked \cup {"entered"} /\ pc[u] # "park")
         /\ (pc[t] = "drain" => Entries = <<>>) /\ (pc[t] = "drained" => Entries # <<>>)
         /\ (pc[t] \in {"epilog", "epilog_drop"} => loc[t].w \in Members(Entries))
         /\ (\A u \in Members(Entries) : u \in Threads /\ OnEntries(u))
         /\ (Entries # <<>> => First(Entries) \in Members(Entries))
<1>1. Heavy /\ loc[t] \in LocRec /\ Control(t)
  BY AtThe
<1>2. \A u \in Members(Entries) : u \in Threads /\ OnEntries(u)
  BY <1>1 DEF QInv, ListInv, ListOf
<1>3. Entries # <<>> => First(Entries) \in Members(Entries)
  <2>1. Entries \in Seq(NT) BY <1>1, WordTypes
  <2>2. Entries # <<>> => 1 \in DOMAIN Entries BY <2>1
  <2> QED BY <2>2 DEF First, Members
<1> QED
  BY <1>1, <1>2, <1>3, ThreadsAssumption DEF QInv, NodeInv, SuccInv, RespInv, ExitInv, OnEntries

\* The first tries of TrySpin.
LEMMA Spin_tryCalm ==
  ASSUME Inv, QInv, NEW t \in Threads, Spin_try(t), UNCHANGED objectVars
  PROVE  QInv'
<1>1. pc[t] \notin Outside
  BY Spin_tryDoes DEF Outside
<1>2. Calm(t) /\ CalmSucc(t) /\ CalmResp(t)
    <2> USE <1>1, Spin_tryDoes, Here DEF Calm, CalmSucc, CalmResp, Site, Where, Spinning, Inflation,
      Preparing, Linked, Relinked, Asleep, Exiting, Released, Last_exit, States, TState, SameLists,
      SameWords, Naming, Handing, LocRec, Control, Plain, Owned, Unlocking, Unlocked, Last_unlock,
      Waiting, Reentered, Entering, SpinGot, SpinFailed, EnterReturn
  <2>1. Calm(t) OBVIOUS
  <2>2. CalmSucc(t) OBVIOUS
  <2>3. CalmResp(t) OBVIOUS
  <2> QED BY <2>1, <2>2, <2>3
<1> QED BY <1>2, CalmKeeps

\* TrySpin reads _succ.
LEMMA Spin_succCalm ==
  ASSUME Inv, QInv, NEW t \in Threads, Spin_succ(t), UNCHANGED objectVars
  PROVE  QInv'
<1>1. pc[t] \notin Outside
  BY Spin_succDoes DEF Outside
<1>2. Calm(t) /\ CalmSucc(t) /\ CalmResp(t)
    <2> USE <1>1, Spin_succDoes, Here DEF Calm, CalmSucc, CalmResp, Site, Where, Spinning,
      Inflation, Preparing, Linked, Relinked, Asleep, Exiting, Released, Last_exit, States, TState,
      SameLists, SameWords, Naming, Handing, LocRec, Control, Plain, Owned, Unlocking, Unlocked,
      Last_unlock, Waiting, Reentered, Entering
  <2>1. Calm(t) OBVIOUS
  <2>2. CalmSucc(t) OBVIOUS
  <2>3. CalmResp(t) OBVIOUS
  <2> QED BY <2>1, <2>2, <2>3
<1> QED BY <1>2, CalmKeeps

\* TrySpin stores _succ.
LEMMA Spin_storeCalm ==
  ASSUME Inv, QInv, NEW t \in Threads, Spin_store(t), UNCHANGED objectVars
  PROVE  QInv'
<1>1. pc[t] \notin Outside
  BY Spin_storeDoes DEF Outside
<1>2. Calm(t) /\ CalmSucc(t) /\ CalmResp(t)
    <2> USE <1>1, Spin_storeDoes, Here DEF Calm, CalmSucc, CalmResp, Site, Where, Spinning,
      Inflation, Preparing, Linked, Relinked, Asleep, Exiting, Released, Last_exit, States, TState,
      SameLists, SameWords, Naming, Handing, LocRec, Control, Plain, Owned, Unlocking, Unlocked,
      Last_unlock, Waiting, Reentered, Entering
  <2>1. Calm(t) OBVIOUS
  <2>2. CalmSucc(t) OBVIOUS
  <2>3. CalmResp(t) OBVIOUS
  <2> QED BY <2>1, <2>2, <2>3
<1> QED BY <1>2, CalmKeeps

\* TrySpin goes on.
LEMMA Spin_againCalm ==
  ASSUME Inv, QInv, NEW t \in Threads, Spin_again(t), UNCHANGED objectVars
  PROVE  QInv'
<1>1. pc[t] \notin Outside
  BY Spin_againDoes DEF Outside
<1>2. Calm(t) /\ CalmSucc(t) /\ CalmResp(t)
    <2> USE <1>1, Spin_againDoes, Here DEF Calm, CalmSucc, CalmResp, Site, Where, Spinning,
      Inflation, Preparing, Linked, Relinked, Asleep, Exiting, Released, Last_exit, States, TState,
      SameLists, SameWords, Naming, Handing, LocRec, Control, Plain, Owned, Unlocking, Unlocked,
      Last_unlock, Waiting, Reentered, Entering
  <2>1. Calm(t) OBVIOUS
  <2>2. CalmSucc(t) OBVIOUS
  <2>3. CalmResp(t) OBVIOUS
  <2> QED BY <2>1, <2>2, <2>3
<1> QED BY <1>2, CalmKeeps

\* TrySpin takes the lock.
LEMMA Spin_gotCalm ==
  ASSUME Inv, QInv, NEW t \in Threads, Spin_got(t), UNCHANGED objectVars
  PROVE  QInv'
<1>1. pc[t] \notin Outside
  BY Spin_gotDoes DEF Outside
<1>2. Calm(t) /\ CalmSucc(t) /\ CalmResp(t)
    <2> USE <1>1, Spin_gotDoes, Here DEF Calm, CalmSucc, CalmResp, Site, Where, Spinning, Inflation,
      Preparing, Linked, Relinked, Asleep, Exiting, Released, Last_exit, States, TState, SameLists,
      SameWords, Naming, Handing, LocRec, Control, Plain, Owned, Unlocking, Unlocked, Last_unlock,
      Waiting, Reentered, Entering, SpinGot, EnterReturn
  <2>1. Calm(t) OBVIOUS
  <2>2. CalmSucc(t) OBVIOUS
  <2>3. CalmResp(t) OBVIOUS
  <2> QED BY <2>1, <2>2, <2>3
<1> QED BY <1>2, CalmKeeps

\* TrySpin gives up.
LEMMA Spin_abortCalm ==
  ASSUME Inv, QInv, NEW t \in Threads, Spin_abort(t), UNCHANGED objectVars
  PROVE  QInv'
<1>1. pc[t] \notin Outside
  BY Spin_abortDoes DEF Outside
<1>2. Calm(t) /\ CalmSucc(t) /\ CalmResp(t)
    <2> USE <1>1, Spin_abortDoes, Here DEF Calm, CalmSucc, CalmResp, Site, Where, Spinning,
      Inflation, Preparing, Linked, Relinked, Asleep, Exiting, Released, Last_exit, States, TState,
      SameLists, SameWords, Naming, Handing, LocRec, Control, Plain, Owned, Unlocking, Unlocked,
      Last_unlock, Waiting, Reentered, Entering, SpinFailed
  <2>1. Calm(t) OBVIOUS
  <2>2. CalmSucc(t) OBVIOUS
  <2>3. CalmResp(t) OBVIOUS
  <2> QED BY <2>1, <2>2, <2>3
<1> QED BY <1>2, CalmKeeps

\* TrySpin clears _succ.
LEMMA Spin_clearCalm ==
  ASSUME Inv, QInv, NEW t \in Threads, Spin_clear(t), UNCHANGED objectVars
  PROVE  QInv'
<1>1. pc[t] \notin Outside
  BY Spin_clearDoes DEF Outside
<1>2. Calm(t) /\ CalmSucc(t) /\ CalmResp(t)
    <2> USE <1>1, Spin_clearDoes, Here DEF Calm, CalmSucc, CalmResp, Site, Where, Spinning,
      Inflation, Preparing, Linked, Relinked, Asleep, Exiting, Released, Last_exit, States, TState,
      SameLists, SameWords, Naming, Handing, LocRec, Control, Plain, Owned, Unlocking, Unlocked,
      Last_unlock, Waiting, Reentered, Entering
  <2>1. Calm(t) OBVIOUS
  <2>2. CalmSucc(t) OBVIOUS
  <2>3. CalmResp(t) OBVIOUS
  <2> QED BY <2>1, <2>2, <2>3
<1> QED BY <1>2, CalmKeeps

\* The last try of TrySpin.
LEMMA Spin_retryCalm ==
  ASSUME Inv, QInv, NEW t \in Threads, Spin_retry(t), UNCHANGED objectVars
  PROVE  QInv'
<1>1. pc[t] \notin Outside
  BY Spin_retryDoes DEF Outside
<1>2. Calm(t) /\ CalmSucc(t) /\ CalmResp(t)
    <2> USE <1>1, Spin_retryDoes, Here DEF Calm, CalmSucc, CalmResp, Site, Where, Spinning,
      Inflation, Preparing, Linked, Relinked, Asleep, Exiting, Released, Last_exit, States, TState,
      SameLists, SameWords, Naming, Handing, LocRec, Control, Plain, Owned, Unlocking, Unlocked,
      Last_unlock, Waiting, Reentered, Entering, SpinGot, SpinFailed, EnterReturn
  <2>1. Calm(t) OBVIOUS
  <2>2. CalmSucc(t) OBVIOUS
  <2>3. CalmResp(t) OBVIOUS
  <2> QED BY <2>1, <2>2, <2>3
<1> QED BY <1>2, CalmKeeps

\* _succ is cleared.
LEMMA Clear_storeCalm ==
  ASSUME Inv, QInv, NEW t \in Threads, Clear_store(t), UNCHANGED objectVars
  PROVE  QInv'
<1>1. pc[t] \notin Outside
  BY Clear_storeDoes DEF Outside
<1>2. Calm(t) /\ CalmSucc(t) /\ CalmResp(t)
    <2> USE <1>1, Clear_storeDoes, Here DEF Calm, CalmSucc, CalmResp, Site, Where, Spinning,
      Inflation, Preparing, Linked, Relinked, Asleep, Exiting, Released, Last_exit, States, TState,
      SameLists, SameWords, Naming, Handing, LocRec, Control, Plain, Owned, Unlocking, Unlocked,
      Last_unlock, Waiting, Reentered, Entering
  <2>1. Calm(t) OBVIOUS
  <2>2. CalmSucc(t) OBVIOUS
  <2>3. CalmResp(t) OBVIOUS
  <2> QED BY <2>1, <2>2, <2>3
<1> QED BY <1>2, CalmKeeps

\* enter() takes a free lock.
LEMMA Enter_casCalm ==
  ASSUME Inv, QInv, NEW t \in Threads, Enter_cas(t), UNCHANGED objectVars
  PROVE  QInv'
<1>1. pc[t] \notin Outside
  BY Enter_casDoes DEF Outside
<1>2. Calm(t) /\ CalmSucc(t) /\ CalmResp(t)
    <2> USE <1>1, Enter_casDoes, Here DEF Calm, CalmSucc, CalmResp, Site, Where, Spinning,
      Inflation, Preparing, Linked, Relinked, Asleep, Exiting, Released, Last_exit, States, TState,
      SameLists, SameWords, Naming, Handing, LocRec, Control, Plain, Owned, Unlocking, Unlocked,
      Last_unlock, Waiting, Reentered, Entering, EnterReturn
  <2>1. Calm(t) OBVIOUS
  <2>2. CalmSucc(t) OBVIOUS
  <2>3. CalmResp(t) OBVIOUS
  <2> QED BY <2>1, <2>2, <2>3
<1> QED BY <1>2, CalmKeeps

\* A recursive enter().
LEMMA Enter_recursiveCalm ==
  ASSUME Inv, QInv, NEW t \in Threads, Enter_recursive(t), UNCHANGED objectVars
  PROVE  QInv'
<1>1. pc[t] \notin Outside
  BY Enter_recursiveDoes DEF Outside
<1>2. Calm(t) /\ CalmSucc(t) /\ CalmResp(t)
    <2> USE <1>1, Enter_recursiveDoes, Here DEF Calm, CalmSucc, CalmResp, Site, Where, Spinning,
      Inflation, Preparing, Linked, Relinked, Asleep, Exiting, Released, Last_exit, States, TState,
      SameLists, SameWords, Naming, Handing, LocRec, Control, Plain, Owned, Unlocking, Unlocked,
      Last_unlock, Waiting, Reentered, Entering, EnterReturn
  <2>1. Calm(t) OBVIOUS
  <2>2. CalmSucc(t) OBVIOUS
  <2>3. CalmResp(t) OBVIOUS
  <2> QED BY <2>1, <2>2, <2>3
<1> QED BY <1>2, CalmKeeps

\* enter() finds the lock held.
LEMMA Enter_contendedCalm ==
  ASSUME Inv, QInv, NEW t \in Threads, Enter_contended(t), UNCHANGED objectVars
  PROVE  QInv'
<1>1. pc[t] \notin Outside
  BY Enter_contendedDoes DEF Outside
<1>2. Calm(t) /\ CalmSucc(t) /\ CalmResp(t)
    <2> USE <1>1, Enter_contendedDoes, Here DEF Calm, CalmSucc, CalmResp, Site, Where, Spinning,
      Inflation, Preparing, Linked, Relinked, Asleep, Exiting, Released, Last_exit, States, TState,
      SameLists, SameWords, Naming, Handing, LocRec, Control, Plain, Owned, Unlocking, Unlocked,
      Last_unlock, Waiting, Reentered, Entering
  <2>1. Calm(t) OBVIOUS
  <2>2. CalmSucc(t) OBVIOUS
  <2>3. CalmResp(t) OBVIOUS
  <2> QED BY <2>1, <2>2, <2>3
<1> QED BY <1>2, CalmKeeps

\* EnterI tries the lock.
LEMMA EnterICalm ==
  ASSUME Inv, QInv, NEW t \in Threads, EnterI(t), UNCHANGED objectVars
  PROVE  QInv'
<1>1. pc[t] \notin Outside
  BY EnterIDoes DEF Outside
<1>2. Calm(t) /\ CalmSucc(t) /\ CalmResp(t)
    <2> USE <1>1, EnterIDoes, Here DEF Calm, CalmSucc, CalmResp, Site, Where, Spinning, Inflation,
      Preparing, Linked, Relinked, Asleep, Exiting, Released, Last_exit, States, TState, SameLists,
      SameWords, Naming, Handing, LocRec, Control, Plain, Owned, Unlocking, Unlocked, Last_unlock,
      Waiting, Reentered, Entering
  <2>1. Calm(t) OBVIOUS
  <2>2. CalmSucc(t) OBVIOUS
  <2>3. CalmResp(t) OBVIOUS
  <2> QED BY <2>1, <2>2, <2>3
<1> QED BY <1>2, CalmKeeps

\* The push fails.
LEMMA Push_failedCalm ==
  ASSUME Inv, QInv, NEW t \in Threads, Push_failed(t), UNCHANGED objectVars
  PROVE  QInv'
<1>1. pc[t] \notin Outside
  BY Push_failedDoes DEF Outside
<1>2. Calm(t) /\ CalmSucc(t) /\ CalmResp(t)
    <2> USE <1>1, Push_failedDoes, Here DEF Calm, CalmSucc, CalmResp, Site, Where, Spinning,
      Inflation, Preparing, Linked, Relinked, Asleep, Exiting, Released, Last_exit, States, TState,
      SameLists, SameWords, Naming, Handing, LocRec, Control, Plain, Owned, Unlocking, Unlocked,
      Last_unlock, Waiting, Reentered, Entering
  <2>1. Calm(t) OBVIOUS
  <2>2. CalmSucc(t) OBVIOUS
  <2>3. CalmResp(t) OBVIOUS
  <2> QED BY <2>1, <2>2, <2>3
<1> QED BY <1>2, CalmKeeps

\* EntryList is read.
LEMMA Responsible_readCalm ==
  ASSUME Inv, QInv, NEW t \in Threads, Responsible_read(t), UNCHANGED objectVars
  PROVE  QInv'
<1>1. pc[t] \notin Outside
  BY Responsible_readDoes DEF Outside
<1>2. Calm(t) /\ CalmSucc(t) /\ CalmResp(t)
    <2> USE <1>1, Responsible_readDoes, Here DEF Calm, CalmSucc, CalmResp, Site, Where, Spinning,
      Inflation, Preparing, Linked, Relinked, Asleep, Exiting, Released, Last_exit, States, TState,
      SameLists, SameWords, Naming, Handing, LocRec, Control, Plain, Owned, Unlocking, Unlocked,
      Last_unlock, Waiting, Reentered, Entering
  <2>1. Calm(t) OBVIOUS
  <2>2. CalmSucc(t) OBVIOUS
  <2>3. CalmResp(t) OBVIOUS
  <2> QED BY <2>1, <2>2, <2>3
<1> QED BY <1>2, CalmKeeps

\* The role of the Responsible is taken.
LEMMA Responsible_casCalm ==
  ASSUME Inv, QInv, NEW t \in Threads, Responsible_cas(t), UNCHANGED objectVars
  PROVE  QInv'
<1>1. pc[t] \notin Outside
  BY Responsible_casDoes DEF Outside
<1>2. Calm(t) /\ CalmSucc(t) /\ CalmResp(t)
    <2> USE <1>1, Responsible_casDoes, Here DEF Calm, CalmSucc, CalmResp, Site, Where, Spinning,
      Inflation, Preparing, Linked, Relinked, Asleep, Exiting, Released, Last_exit, States, TState,
      SameLists, SameWords, Naming, Handing, LocRec, Control, Plain, Owned, Unlocking, Unlocked,
      Last_unlock, Waiting, Reentered, Entering
  <2>1. Calm(t) OBVIOUS
  <2>2. CalmSucc(t) OBVIOUS
  <2>3. CalmResp(t) OBVIOUS
  <2> QED BY <2>1, <2>2, <2>3
<1> QED BY <1>2, CalmKeeps

\* A queued thread tries the lock.
LEMMA ContendCalm ==
  ASSUME Inv, QInv, NEW t \in Threads, Contend(t), UNCHANGED objectVars
  PROVE  QInv'
<1>1. pc[t] \notin Outside
  BY ContendDoes DEF Outside
<1>2. Calm(t) /\ CalmSucc(t) /\ CalmResp(t)
    <2> USE <1>1, ContendDoes, Here DEF Calm, CalmSucc, CalmResp, Site, Where, Spinning, Inflation,
      Preparing, Linked, Relinked, Asleep, Exiting, Released, Last_exit, States, TState, SameLists,
      SameWords, Naming, Handing, LocRec, Control, Plain, Owned, Unlocking, Unlocked, Last_unlock,
      Waiting, Reentered, Entering
  <2>1. Calm(t) OBVIOUS
  <2>2. CalmSucc(t) OBVIOUS
  <2>3. CalmResp(t) OBVIOUS
  <2> QED BY <2>1, <2>2, <2>3
<1> QED BY <1>2, CalmKeeps

\* The park is timed or not.
LEMMA Park_kindCalm ==
  ASSUME Inv, QInv, NEW t \in Threads, Park_kind(t), UNCHANGED objectVars
  PROVE  QInv'
<1>1. pc[t] \notin Outside
  BY Park_kindDoes DEF Outside
<1>2. Calm(t) /\ CalmSucc(t) /\ CalmResp(t)
    <2> USE <1>1, Park_kindDoes, Here DEF Calm, CalmSucc, CalmResp, Site, Where, Spinning,
      Inflation, Preparing, Linked, Relinked, Asleep, Exiting, Released, Last_exit, States, TState,
      SameLists, SameWords, Naming, Handing, LocRec, Control, Plain, Owned, Unlocking, Unlocked,
      Last_unlock, Waiting, Reentered, Entering
  <2>1. Calm(t) OBVIOUS
  <2>2. CalmSucc(t) OBVIOUS
  <2>3. CalmResp(t) OBVIOUS
  <2> QED BY <2>1, <2>2, <2>3
<1> QED BY <1>2, CalmKeeps

\* A thread parks and is woken.
LEMMA ParkCalm ==
  ASSUME Inv, QInv, NEW t \in Threads, Park(t), UNCHANGED objectVars
  PROVE  QInv'
<1>1. pc[t] \notin Outside
  BY ParkDoes DEF Outside
<1>2. Calm(t) /\ CalmSucc(t) /\ CalmResp(t)
    <2> USE <1>1, ParkDoes, Here DEF Calm, CalmSucc, CalmResp, Site, Where, Spinning, Inflation,
      Preparing, Linked, Relinked, Asleep, Exiting, Released, Last_exit, States, TState, SameLists,
      SameWords, Naming, Handing, LocRec, Control, Plain, Owned, Unlocking, Unlocked, Last_unlock,
      Waiting, Reentered, Entering
  <2>1. Calm(t) OBVIOUS
  <2>2. CalmSucc(t) OBVIOUS
  <2>3. CalmResp(t) OBVIOUS
  <2> QED BY <2>1, <2>2, <2>3
<1> QED BY <1>2, CalmKeeps

\* A thread woken tries the lock.
LEMMA WokenCalm ==
  ASSUME Inv, QInv, NEW t \in Threads, Woken(t), UNCHANGED objectVars
  PROVE  QInv'
<1>1. pc[t] \notin Outside
  BY WokenDoes DEF Outside
<1>2. Calm(t) /\ CalmSucc(t) /\ CalmResp(t)
    <2> USE <1>1, WokenDoes, Here DEF Calm, CalmSucc, CalmResp, Site, Where, Spinning, Inflation,
      Preparing, Linked, Relinked, Asleep, Exiting, Released, Last_exit, States, TState, SameLists,
      SameWords, Naming, Handing, LocRec, Control, Plain, Owned, Unlocking, Unlocked, Last_unlock,
      Waiting, Reentered, Entering
  <2>1. Calm(t) OBVIOUS
  <2>2. CalmSucc(t) OBVIOUS
  <2>3. CalmResp(t) OBVIOUS
  <2> QED BY <2>1, <2>2, <2>3
<1> QED BY <1>2, CalmKeeps

\* A futile wakeup.
LEMMA FutileCalm ==
  ASSUME Inv, QInv, NEW t \in Threads, Futile(t), UNCHANGED objectVars
  PROVE  QInv'
<1>1. pc[t] \notin Outside
  BY FutileDoes DEF Outside
<1>2. Calm(t) /\ CalmSucc(t) /\ CalmResp(t)
    <2> USE <1>1, FutileDoes, Here DEF Calm, CalmSucc, CalmResp, Site, Where, Spinning, Inflation,
      Preparing, Linked, Relinked, Asleep, Exiting, Released, Last_exit, States, TState, SameLists,
      SameWords, Naming, Handing, LocRec, Control, Plain, Owned, Unlocking, Unlocked, Last_unlock,
      Waiting, Reentered, Entering
  <2>1. Calm(t) OBVIOUS
  <2>2. CalmSucc(t) OBVIOUS
  <2>3. CalmResp(t) OBVIOUS
  <2> QED BY <2>1, <2>2, <2>3
<1> QED BY <1>2, CalmKeeps

\* exit() up to its loop.
LEMMA Exit_prologCalm ==
  ASSUME Inv, QInv, NEW t \in Threads, Exit_prolog(t), UNCHANGED objectVars
  PROVE  QInv'
<1>1. pc[t] \notin Outside
  BY Exit_prologDoes DEF Outside
<1>2. Calm(t) /\ CalmSucc(t) /\ CalmResp(t)
    <2> USE <1>1, Exit_prologDoes, Here DEF Calm, CalmSucc, CalmResp, Site, Where, Spinning,
      Inflation, Preparing, Linked, Relinked, Asleep, Exiting, Released, Last_exit, States, TState,
      SameLists, SameWords, Naming, Handing, LocRec, Control, Plain, Owned, Unlocking, Unlocked,
      Last_unlock, Waiting, Reentered, Entering, ExitReturn
  <2>1. Calm(t) OBVIOUS
  <2>2. CalmSucc(t) OBVIOUS
  <2>3. CalmResp(t) OBVIOUS
  <2> QED BY <2>1, <2>2, <2>3
<1> QED BY <1>2, CalmKeeps

\* exit() drops the lock.
LEMMA DropCalm ==
  ASSUME Inv, QInv, NEW t \in Threads, Drop(t), UNCHANGED objectVars
  PROVE  QInv'
<1>1. pc[t] \notin Outside
  BY DropDoes DEF Outside
<1>2. Calm(t) /\ CalmSucc(t) /\ CalmResp(t)
    <2> USE <1>1, DropDoes, Here DEF Calm, CalmSucc, CalmResp, Site, Where, Spinning, Inflation,
      Preparing, Linked, Relinked, Asleep, Exiting, Released, Last_exit, States, TState, SameLists,
      SameWords, Naming, Handing, LocRec, Control, Plain, Owned, Unlocking, Unlocked, Last_unlock,
      Waiting, Reentered, Entering
  <2>1. Calm(t) OBVIOUS
  <2>2. CalmSucc(t) OBVIOUS
  <2>3. CalmResp(t) OBVIOUS
  <2> QED BY <2>1, <2>2, <2>3
<1> QED BY <1>2, CalmKeeps

\* exit() reads EntryList.
LEMMA Exit_EntryListCalm ==
  ASSUME Inv, QInv, NEW t \in Threads, Exit_EntryList(t), UNCHANGED objectVars
  PROVE  QInv'
<1>1. pc[t] \notin Outside
  BY Exit_EntryListDoes DEF Outside
<1>2. Calm(t) /\ CalmSucc(t) /\ CalmResp(t)
    <2> USE <1>1, Exit_EntryListDoes, Here DEF Calm, CalmSucc, CalmResp, Site, Where, Spinning,
      Inflation, Preparing, Linked, Relinked, Asleep, Exiting, Released, Last_exit, States, TState,
      SameLists, SameWords, Naming, Handing, LocRec, Control, Plain, Owned, Unlocking, Unlocked,
      Last_unlock, Waiting, Reentered, Entering
  <2>1. Calm(t) OBVIOUS
  <2>2. CalmSucc(t) OBVIOUS
  <2>3. CalmResp(t) OBVIOUS
  <2> QED BY <2>1, <2>2, <2>3
<1> QED BY <1>2, CalmKeeps

\* exit() reads cxq.
LEMMA Exit_cxqCalm ==
  ASSUME Inv, QInv, NEW t \in Threads, Exit_cxq(t), UNCHANGED objectVars
  PROVE  QInv'
<1>1. pc[t] \notin Outside
  BY Exit_cxqDoes DEF Outside
<1>2. Calm(t) /\ CalmSucc(t) /\ CalmResp(t)
    <2> USE <1>1, Exit_cxqDoes, Here DEF Calm, CalmSucc, CalmResp, Site, Where, Spinning, Inflation,
      Preparing, Linked, Relinked, Asleep, Exiting, Released, Last_exit, States, TState, SameLists,
      SameWords, Naming, Handing, LocRec, Control, Plain, Owned, Unlocking, Unlocked, Last_unlock,
      Waiting, Reentered, Entering, ExitReturn
  <2>1. Calm(t) OBVIOUS
  <2>2. CalmSucc(t) OBVIOUS
  <2>3. CalmResp(t) OBVIOUS
  <2> QED BY <2>1, <2>2, <2>3
<1> QED BY <1>2, CalmKeeps

\* exit() reads _succ.
LEMMA Exit_succCalm ==
  ASSUME Inv, QInv, NEW t \in Threads, Exit_succ(t), UNCHANGED objectVars
  PROVE  QInv'
<1>1. pc[t] \notin Outside
  BY Exit_succDoes DEF Outside
<1>2. Calm(t) /\ CalmSucc(t) /\ CalmResp(t)
    <2> USE <1>1, Exit_succDoes, Here DEF Calm, CalmSucc, CalmResp, Site, Where, Spinning,
      Inflation, Preparing, Linked, Relinked, Asleep, Exiting, Released, Last_exit, States, TState,
      SameLists, SameWords, Naming, Handing, LocRec, Control, Plain, Owned, Unlocking, Unlocked,
      Last_unlock, Waiting, Reentered, Entering, ExitReturn
  <2>1. Calm(t) OBVIOUS
  <2>2. CalmSucc(t) OBVIOUS
  <2>3. CalmResp(t) OBVIOUS
  <2> QED BY <2>1, <2>2, <2>3
<1> QED BY <1>2, CalmKeeps

\* exit() takes the lock again.
LEMMA Exit_casCalm ==
  ASSUME Inv, QInv, NEW t \in Threads, Exit_cas(t), UNCHANGED objectVars
  PROVE  QInv'
<1>1. pc[t] \notin Outside
  BY Exit_casDoes DEF Outside
<1>2. Calm(t) /\ CalmSucc(t) /\ CalmResp(t)
    <2> USE <1>1, Exit_casDoes, Here DEF Calm, CalmSucc, CalmResp, Site, Where, Spinning, Inflation,
      Preparing, Linked, Relinked, Asleep, Exiting, Released, Last_exit, States, TState, SameLists,
      SameWords, Naming, Handing, LocRec, Control, Plain, Owned, Unlocking, Unlocked, Last_unlock,
      Waiting, Reentered, Entering, ExitReturn
  <2>1. Calm(t) OBVIOUS
  <2>2. CalmSucc(t) OBVIOUS
  <2>3. CalmResp(t) OBVIOUS
  <2> QED BY <2>1, <2>2, <2>3
<1> QED BY <1>2, CalmKeeps

\* cxq is empty.
LEMMA Drain_noneCalm ==
  ASSUME Inv, QInv, NEW t \in Threads, Drain_none(t), UNCHANGED objectVars
  PROVE  QInv'
<1>1. pc[t] \notin Outside
  BY Drain_noneDoes DEF Outside
<1>2. Calm(t) /\ CalmSucc(t) /\ CalmResp(t)
    <2> USE <1>1, Drain_noneDoes, Here DEF Calm, CalmSucc, CalmResp, Site, Where, Spinning,
      Inflation, Preparing, Linked, Relinked, Asleep, Exiting, Released, Last_exit, States, TState,
      SameLists, SameWords, Naming, Handing, LocRec, Control, Plain, Owned, Unlocking, Unlocked,
      Last_unlock, Waiting, Reentered, Entering
  <2>1. Calm(t) OBVIOUS
  <2>2. CalmSucc(t) OBVIOUS
  <2>3. CalmResp(t) OBVIOUS
  <2> QED BY <2>1, <2>2, <2>3
<1> QED BY <1>2, CalmKeeps

\* exit() chooses a successor.
LEMMA DrainedCalm ==
  ASSUME Inv, QInv, NEW t \in Threads, Drained(t), UNCHANGED objectVars
  PROVE  QInv'
<1>1. pc[t] \notin Outside
  BY DrainedDoes DEF Outside
<1>2. Calm(t) /\ CalmSucc(t) /\ CalmResp(t)
    <2> USE <1>1, DrainedDoes, Here DEF Calm, CalmSucc, CalmResp, Site, Where, Spinning, Inflation,
      Preparing, Linked, Relinked, Asleep, Exiting, Released, Last_exit, States, TState, SameLists,
      SameWords, Naming, Handing, LocRec, Control, Plain, Owned, Unlocking, Unlocked, Last_unlock,
      Waiting, Reentered, Entering
  <2>1. Calm(t) OBVIOUS
  <2>2. CalmSucc(t) OBVIOUS
  <2>3. CalmResp(t) OBVIOUS
  <2> QED BY <2>1, <2>2, <2>3
<1> QED BY <1>2, CalmKeeps

\* ExitEpilog names the successor.
LEMMA Epilog_succCalm ==
  ASSUME Inv, QInv, NEW t \in Threads, Epilog_succ(t), UNCHANGED objectVars
  PROVE  QInv'
<1>1. pc[t] \notin Outside
  BY Epilog_succDoes DEF Outside
<1>2. Calm(t) /\ CalmSucc(t) /\ CalmResp(t)
    <2> USE <1>1, Epilog_succDoes, Here DEF Calm, CalmSucc, CalmResp, Site, Where, Spinning,
      Inflation, Preparing, Linked, Relinked, Asleep, Exiting, Released, Last_exit, States, TState,
      SameLists, SameWords, Naming, Handing, LocRec, Control, Plain, Owned, Unlocking, Unlocked,
      Last_unlock, Waiting, Reentered, Entering
  <2>1. Calm(t) OBVIOUS
  <2>2. CalmSucc(t) OBVIOUS
  <2>3. CalmResp(t) OBVIOUS
  <2> QED BY <2>1, <2>2, <2>3
<1> QED BY <1>2, CalmKeeps

\* ExitEpilog drops the lock.
LEMMA Epilog_dropCalm ==
  ASSUME Inv, QInv, NEW t \in Threads, Epilog_drop(t), UNCHANGED objectVars
  PROVE  QInv'
<1>1. pc[t] \notin Outside
  BY Epilog_dropDoes DEF Outside
<1>2. Calm(t) /\ CalmSucc(t) /\ CalmResp(t)
    <2> USE <1>1, Epilog_dropDoes, Here DEF Calm, CalmSucc, CalmResp, Site, Where, Spinning,
      Inflation, Preparing, Linked, Relinked, Asleep, Exiting, Released, Last_exit, States, TState,
      SameLists, SameWords, Naming, Handing, LocRec, Control, Plain, Owned, Unlocking, Unlocked,
      Last_unlock, Waiting, Reentered, Entering
  <2>1. Calm(t) OBVIOUS
  <2>2. CalmSucc(t) OBVIOUS
  <2>3. CalmResp(t) OBVIOUS
  <2> QED BY <2>1, <2>2, <2>3
<1> QED BY <1>2, CalmKeeps

\* ExitEpilog unparks the successor.
LEMMA Epilog_unparkCalm ==
  ASSUME Inv, QInv, NEW t \in Threads, Epilog_unpark(t), UNCHANGED objectVars
  PROVE  QInv'
<1>1. pc[t] \notin Outside
  BY Epilog_unparkDoes DEF Outside
<1>2. Calm(t) /\ CalmSucc(t) /\ CalmResp(t)
    <2> USE <1>1, Epilog_unparkDoes, Here DEF Calm, CalmSucc, CalmResp, Site, Where, Spinning,
      Inflation, Preparing, Linked, Relinked, Asleep, Exiting, Released, Last_exit, States, TState,
      SameLists, SameWords, Naming, Handing, LocRec, Control, Plain, Owned, Unlocking, Unlocked,
      Last_unlock, Waiting, Reentered, Entering, ExitReturn
  <2>1. Calm(t) OBVIOUS
  <2>2. CalmSucc(t) OBVIOUS
  <2>3. CalmResp(t) OBVIOUS
  <2> QED BY <2>1, <2>2, <2>3
<1> QED BY <1>2, CalmKeeps

\* Compiled code reads cxq.
LEMMA Unlock_cxqCalm ==
  ASSUME Inv, QInv, NEW t \in Threads, Unlock_cxq(t), UNCHANGED objectVars
  PROVE  QInv'
<1>1. pc[t] \notin Outside
  BY Unlock_cxqDoes DEF Outside
<1>2. Calm(t) /\ CalmSucc(t) /\ CalmResp(t)
    <2> USE <1>1, Unlock_cxqDoes, Here DEF Calm, CalmSucc, CalmResp, Site, Where, Spinning,
      Inflation, Preparing, Linked, Relinked, Asleep, Exiting, Released, Last_exit, States, TState,
      SameLists, SameWords, Naming, Handing, LocRec, Control, Plain, Owned, Unlocking, Unlocked,
      Last_unlock, Waiting, Reentered, Entering
  <2>1. Calm(t) OBVIOUS
  <2>2. CalmSucc(t) OBVIOUS
  <2>3. CalmResp(t) OBVIOUS
  <2> QED BY <2>1, <2>2, <2>3
<1> QED BY <1>2, CalmKeeps

\* Compiled code reads EntryList.
LEMMA Unlock_EntryListCalm ==
  ASSUME Inv, QInv, NEW t \in Threads, Unlock_EntryList(t), UNCHANGED objectVars
  PROVE  QInv'
<1>1. pc[t] \notin Outside
  BY Unlock_EntryListDoes DEF Outside
<1>2. Calm(t) /\ CalmSucc(t) /\ CalmResp(t)
    <2> USE <1>1, Unlock_EntryListDoes, Here DEF Calm, CalmSucc, CalmResp, Site, Where, Spinning,
      Inflation, Preparing, Linked, Relinked, Asleep, Exiting, Released, Last_exit, States, TState,
      SameLists, SameWords, Naming, Handing, LocRec, Control, Plain, Owned, Unlocking, Unlocked,
      Last_unlock, Waiting, Reentered, Entering
  <2>1. Calm(t) OBVIOUS
  <2>2. CalmSucc(t) OBVIOUS
  <2>3. CalmResp(t) OBVIOUS
  <2> QED BY <2>1, <2>2, <2>3
<1> QED BY <1>2, CalmKeeps

\* The 1-0 store.
LEMMA Unlock_storeCalm ==
  ASSUME Inv, QInv, NEW t \in Threads, Unlock_store(t), UNCHANGED objectVars
  PROVE  QInv'
<1>1. pc[t] \notin Outside
  BY Unlock_storeDoes DEF Outside
<1>2. Calm(t) /\ CalmSucc(t) /\ CalmResp(t)
    <2> USE <1>1, Unlock_storeDoes, Here DEF Calm, CalmSucc, CalmResp, Site, Where, Spinning,
      Inflation, Preparing, Linked, Relinked, Asleep, Exiting, Released, Last_exit, States, TState,
      SameLists, SameWords, Naming, Handing, LocRec, Control, Plain, Owned, Unlocking, Unlocked,
      Last_unlock, Waiting, Reentered, Entering
  <2>1. Calm(t) OBVIOUS
  <2>2. CalmSucc(t) OBVIOUS
  <2>3. CalmResp(t) OBVIOUS
  <2> QED BY <2>1, <2>2, <2>3
<1> QED BY <1>2, CalmKeeps

\* Compiled code reads _succ.
LEMMA Unlock_succCalm ==
  ASSUME Inv, QInv, NEW t \in Threads, Unlock_succ(t), UNCHANGED objectVars
  PROVE  QInv'
<1>1. pc[t] \notin Outside
  BY Unlock_succDoes DEF Outside
<1>2. Calm(t) /\ CalmSucc(t) /\ CalmResp(t)
    <2> USE <1>1, Unlock_succDoes, Here DEF Calm, CalmSucc, CalmResp, Site, Where, Spinning,
      Inflation, Preparing, Linked, Relinked, Asleep, Exiting, Released, Last_exit, States, TState,
      SameLists, SameWords, Naming, Handing, LocRec, Control, Plain, Owned, Unlocking, Unlocked,
      Last_unlock, Waiting, Reentered, Entering
  <2>1. Calm(t) OBVIOUS
  <2>2. CalmSucc(t) OBVIOUS
  <2>3. CalmResp(t) OBVIOUS
  <2> QED BY <2>1, <2>2, <2>3
<1> QED BY <1>2, CalmKeeps

\* Compiled code drops the lock.
LEMMA Unlock_dropCalm ==
  ASSUME Inv, QInv, NEW t \in Threads, Unlock_drop(t), UNCHANGED objectVars
  PROVE  QInv'
<1>1. pc[t] \notin Outside
  BY Unlock_dropDoes DEF Outside
<1>2. Calm(t) /\ CalmSucc(t) /\ CalmResp(t)
    <2> USE <1>1, Unlock_dropDoes, Here DEF Calm, CalmSucc, CalmResp, Site, Where, Spinning,
      Inflation, Preparing, Linked, Relinked, Asleep, Exiting, Released, Last_exit, States, TState,
      SameLists, SameWords, Naming, Handing, LocRec, Control, Plain, Owned, Unlocking, Unlocked,
      Last_unlock, Waiting, Reentered, Entering
  <2>1. Calm(t) OBVIOUS
  <2>2. CalmSucc(t) OBVIOUS
  <2>3. CalmResp(t) OBVIOUS
  <2> QED BY <2>1, <2>2, <2>3
<1> QED BY <1>2, CalmKeeps

\* Compiled code reads _succ again.
LEMMA Unlock_recheckCalm ==
  ASSUME Inv, QInv, NEW t \in Threads, Unlock_recheck(t), UNCHANGED objectVars
  PROVE  QInv'
<1>1. pc[t] \notin Outside
  BY Unlock_recheckDoes DEF Outside
<1>2. Calm(t) /\ CalmSucc(t) /\ CalmResp(t)
    <2> USE <1>1, Unlock_recheckDoes, Here DEF Calm, CalmSucc, CalmResp, Site, Where, Spinning,
      Inflation, Preparing, Linked, Relinked, Asleep, Exiting, Released, Last_exit, States, TState,
      SameLists, SameWords, Naming, Handing, LocRec, Control, Plain, Owned, Unlocking, Unlocked,
      Last_unlock, Waiting, Reentered, Entering
  <2>1. Calm(t) OBVIOUS
  <2>2. CalmSucc(t) OBVIOUS
  <2>3. CalmResp(t) OBVIOUS
  <2> QED BY <2>1, <2>2, <2>3
<1> QED BY <1>2, CalmKeeps

\* Compiled code takes the lock again.
LEMMA Unlock_casCalm ==
  ASSUME Inv, QInv, NEW t \in Threads, Unlock_cas(t), UNCHANGED objectVars
  PROVE  QInv'
<1>1. pc[t] \notin Outside
  BY Unlock_casDoes DEF Outside
<1>2. Calm(t) /\ CalmSucc(t) /\ CalmResp(t)
    <2> USE <1>1, Unlock_casDoes, Here DEF Calm, CalmSucc, CalmResp, Site, Where, Spinning,
      Inflation, Preparing, Linked, Relinked, Asleep, Exiting, Released, Last_exit, States, TState,
      SameLists, SameWords, Naming, Handing, LocRec, Control, Plain, Owned, Unlocking, Unlocked,
      Last_unlock, Waiting, Reentered, Entering
  <2>1. Calm(t) OBVIOUS
  <2>2. CalmSucc(t) OBVIOUS
  <2>3. CalmResp(t) OBVIOUS
  <2> QED BY <2>1, <2>2, <2>3
<1> QED BY <1>2, CalmKeeps

\* wait() finds an interrupt pending.
LEMMA Wait_interruptedCalm ==
  ASSUME Inv, QInv, NEW t \in Threads, Wait_interrupted(t), UNCHANGED objectVars
  PROVE  QInv'
<1>1. pc[t] \notin Outside
  BY Wait_interruptedDoes DEF Outside
<1>2. Calm(t) /\ CalmSucc(t) /\ CalmResp(t)
    <2> USE <1>1, Wait_interruptedDoes, Here DEF Calm, CalmSucc, CalmResp, Site, Where, Spinning,
      Inflation, Preparing, Linked, Relinked, Asleep, Exiting, Released, Last_exit, States, TState,
      SameLists, SameWords, Naming, Handing, LocRec, Control, Plain, Owned, Unlocking, Unlocked,
      Last_unlock, Waiting, Reentered, Entering
  <2>1. Calm(t) OBVIOUS
  <2>2. CalmSucc(t) OBVIOUS
  <2>3. CalmResp(t) OBVIOUS
  <2> QED BY <2>1, <2>2, <2>3
<1> QED BY <1>2, CalmKeeps

\* wait() after its exit.
LEMMA Wait_exitedCalm ==
  ASSUME Inv, QInv, NEW t \in Threads, Wait_exited(t), UNCHANGED objectVars
  PROVE  QInv'
<1>1. pc[t] \notin Outside
  BY Wait_exitedDoes DEF Outside
<1>2. Calm(t) /\ CalmSucc(t) /\ CalmResp(t)
    <2> USE <1>1, Wait_exitedDoes, Here DEF Calm, CalmSucc, CalmResp, Site, Where, Spinning,
      Inflation, Preparing, Linked, Relinked, Asleep, Exiting, Released, Last_exit, States, TState,
      SameLists, SameWords, Naming, Handing, LocRec, Control, Plain, Owned, Unlocking, Unlocked,
      Last_unlock, Waiting, Reentered, Entering
  <2>1. Calm(t) OBVIOUS
  <2>2. CalmSucc(t) OBVIOUS
  <2>3. CalmResp(t) OBVIOUS
  <2> QED BY <2>1, <2>2, <2>3
<1> QED BY <1>2, CalmKeeps

\* wait() looks for an interrupt.
LEMMA Wait_checkCalm ==
  ASSUME Inv, QInv, NEW t \in Threads, Wait_check(t), UNCHANGED objectVars
  PROVE  QInv'
<1>1. pc[t] \notin Outside
  BY Wait_checkDoes DEF Outside
<1>2. Calm(t) /\ CalmSucc(t) /\ CalmResp(t)
    <2> USE <1>1, Wait_checkDoes, Here DEF Calm, CalmSucc, CalmResp, Site, Where, Spinning,
      Inflation, Preparing, Linked, Relinked, Asleep, Exiting, Released, Last_exit, States, TState,
      SameLists, SameWords, Naming, Handing, LocRec, Control, Plain, Owned, Unlocking, Unlocked,
      Last_unlock, Waiting, Reentered, Entering
  <2>1. Calm(t) OBVIOUS
  <2>2. CalmSucc(t) OBVIOUS
  <2>3. CalmResp(t) OBVIOUS
  <2> QED BY <2>1, <2>2, <2>3
<1> QED BY <1>2, CalmKeeps

\* wait() looks for a notify.
LEMMA Wait_notifiedCalm ==
  ASSUME Inv, QInv, NEW t \in Threads, Wait_notified(t), UNCHANGED objectVars
  PROVE  QInv'
<1>1. pc[t] \notin Outside
  BY Wait_notifiedDoes DEF Outside
<1>2. Calm(t) /\ CalmSucc(t) /\ CalmResp(t)
    <2> USE <1>1, Wait_notifiedDoes, Here DEF Calm, CalmSucc, CalmResp, Site, Where, Spinning,
      Inflation, Preparing, Linked, Relinked, Asleep, Exiting, Released, Last_exit, States, TState,
      SameLists, SameWords, Naming, Handing, LocRec, Control, Plain, Owned, Unlocking, Unlocked,
      Last_unlock, Waiting, Reentered, Entering
  <2>1. Calm(t) OBVIOUS
  <2>2. CalmSucc(t) OBVIOUS
  <2>3. CalmResp(t) OBVIOUS
  <2> QED BY <2>1, <2>2, <2>3
<1> QED BY <1>2, CalmKeeps

\* wait() parks.
LEMMA Wait_parkCalm ==
  ASSUME Inv, QInv, NEW t \in Threads, Wait_park(t), UNCHANGED objectVars
  PROVE  QInv'
<1>1. pc[t] \notin Outside
  BY Wait_parkDoes DEF Outside
<1>2. Calm(t) /\ CalmSucc(t) /\ CalmResp(t)
    <2> USE <1>1, Wait_parkDoes, Here DEF Calm, CalmSucc, CalmResp, Site, Where, Spinning,
      Inflation, Preparing, Linked, Relinked, Asleep, Exiting, Released, Last_exit, States, TState,
      SameLists, SameWords, Naming, Handing, LocRec, Control, Plain, Owned, Unlocking, Unlocked,
      Last_unlock, Waiting, Reentered, Entering
  <2>1. Calm(t) OBVIOUS
  <2>2. CalmSucc(t) OBVIOUS
  <2>3. CalmResp(t) OBVIOUS
  <2> QED BY <2>1, <2>2, <2>3
<1> QED BY <1>2, CalmKeeps

\* wait() looks at its node.
LEMMA Wait_stateCalm ==
  ASSUME Inv, QInv, NEW t \in Threads, Wait_state(t), UNCHANGED objectVars
  PROVE  QInv'
<1>1. pc[t] \notin Outside
  BY Wait_stateDoes DEF Outside
<1>2. Calm(t) /\ CalmSucc(t) /\ CalmResp(t)
    <2> USE <1>1, Wait_stateDoes, Here DEF Calm, CalmSucc, CalmResp, Site, Where, Spinning,
      Inflation, Preparing, Linked, Relinked, Asleep, Exiting, Released, Last_exit, States, TState,
      SameLists, SameWords, Naming, Handing, LocRec, Control, Plain, Owned, Unlocking, Unlocked,
      Last_unlock, Waiting, Reentered, Entering
  <2>1. Calm(t) OBVIOUS
  <2>2. CalmSucc(t) OBVIOUS
  <2>3. CalmResp(t) OBVIOUS
  <2> QED BY <2>1, <2>2, <2>3
<1> QED BY <1>2, CalmKeeps

\* wait() chooses how to reenter.
LEMMA Wait_wasCalm ==
  ASSUME Inv, QInv, NEW t \in Threads, Wait_was(t), UNCHANGED objectVars
  PROVE  QInv'
<1>1. pc[t] \notin Outside
  BY Wait_wasDoes DEF Outside
<1>2. Calm(t) /\ CalmSucc(t) /\ CalmResp(t)
    <2> USE <1>1, Wait_wasDoes, Here DEF Calm, CalmSucc, CalmResp, Site, Where, Spinning, Inflation,
      Preparing, Linked, Relinked, Asleep, Exiting, Released, Last_exit, States, TState, SameLists,
      SameWords, Naming, Handing, LocRec, Control, Plain, Owned, Unlocking, Unlocked, Last_unlock,
      Waiting, Reentered, Entering
  <2>1. Calm(t) OBVIOUS
  <2>2. CalmSucc(t) OBVIOUS
  <2>3. CalmResp(t) OBVIOUS
  <2> QED BY <2>1, <2>2, <2>3
<1> QED BY <1>2, CalmKeeps

\* ReenterI tries the lock.
LEMMA ReenterCalm ==
  ASSUME Inv, QInv, NEW t \in Threads, Reenter(t), UNCHANGED objectVars
  PROVE  QInv'
<1>1. pc[t] \notin Outside
  BY ReenterDoes DEF Outside
<1>2. Calm(t) /\ CalmSucc(t) /\ CalmResp(t)
    <2> USE <1>1, ReenterDoes, Here DEF Calm, CalmSucc, CalmResp, Site, Where, Spinning, Inflation,
      Preparing, Linked, Relinked, Asleep, Exiting, Released, Last_exit, States, TState, SameLists,
      SameWords, Naming, Handing, LocRec, Control, Plain, Owned, Unlocking, Unlocked, Last_unlock,
      Waiting, Reentered, Entering
  <2>1. Calm(t) OBVIOUS
  <2>2. CalmSucc(t) OBVIOUS
  <2>3. CalmResp(t) OBVIOUS
  <2> QED BY <2>1, <2>2, <2>3
<1> QED BY <1>2, CalmKeeps

\* ReenterI parks.
LEMMA Reenter_parkCalm ==
  ASSUME Inv, QInv, NEW t \in Threads, Reenter_park(t), UNCHANGED objectVars
  PROVE  QInv'
<1>1. pc[t] \notin Outside
  BY Reenter_parkDoes DEF Outside
<1>2. Calm(t) /\ CalmSucc(t) /\ CalmResp(t)
    <2> USE <1>1, Reenter_parkDoes, Here DEF Calm, CalmSucc, CalmResp, Site, Where, Spinning,
      Inflation, Preparing, Linked, Relinked, Asleep, Exiting, Released, Last_exit, States, TState,
      SameLists, SameWords, Naming, Handing, LocRec, Control, Plain, Owned, Unlocking, Unlocked,
      Last_unlock, Waiting, Reentered, Entering
  <2>1. Calm(t) OBVIOUS
  <2>2. CalmSucc(t) OBVIOUS
  <2>3. CalmResp(t) OBVIOUS
  <2> QED BY <2>1, <2>2, <2>3
<1> QED BY <1>2, CalmKeeps

\* ReenterI is woken.
LEMMA Reenter_wokenCalm ==
  ASSUME Inv, QInv, NEW t \in Threads, Reenter_woken(t), UNCHANGED objectVars
  PROVE  QInv'
<1>1. pc[t] \notin Outside
  BY Reenter_wokenDoes DEF Outside
<1>2. Calm(t) /\ CalmSucc(t) /\ CalmResp(t)
    <2> USE <1>1, Reenter_wokenDoes, Here DEF Calm, CalmSucc, CalmResp, Site, Where, Spinning,
      Inflation, Preparing, Linked, Relinked, Asleep, Exiting, Released, Last_exit, States, TState,
      SameLists, SameWords, Naming, Handing, LocRec, Control, Plain, Owned, Unlocking, Unlocked,
      Last_unlock, Waiting, Reentered, Entering
  <2>1. Calm(t) OBVIOUS
  <2>2. CalmSucc(t) OBVIOUS
  <2>3. CalmResp(t) OBVIOUS
  <2> QED BY <2>1, <2>2, <2>3
<1> QED BY <1>2, CalmKeeps

\* The end of wait().
LEMMA Wait_endCalm ==
  ASSUME Inv, QInv, NEW t \in Threads, Wait_end(t), UNCHANGED objectVars
  PROVE  QInv'
<1>1. pc[t] \notin Outside
  BY Wait_endDoes DEF Outside
<1>2. Calm(t) /\ CalmSucc(t) /\ CalmResp(t)
    <2> USE <1>1, Wait_endDoes, Here DEF Calm, CalmSucc, CalmResp, Site, Where, Spinning, Inflation,
      Preparing, Linked, Relinked, Asleep, Exiting, Released, Last_exit, States, TState, SameLists,
      SameWords, Naming, Handing, LocRec, Control, Plain, Owned, Unlocking, Unlocked, Last_unlock,
      Waiting, Reentered, Entering
  <2>1. Calm(t) OBVIOUS
  <2>2. CalmSucc(t) OBVIOUS
  <2>3. CalmResp(t) OBVIOUS
  <2> QED BY <2>1, <2>2, <2>3
<1> QED BY <1>2, CalmKeeps

\* notify() and notifyAll() begin.
LEMMA Notify_beginCalm ==
  ASSUME Inv, QInv, NEW t \in Threads, Notify_begin(t), UNCHANGED objectVars
  PROVE  QInv'
<1>1. pc[t] \notin Outside
  BY Notify_beginDoes DEF Outside
<1>2. Calm(t) /\ CalmSucc(t) /\ CalmResp(t)
    <2> USE <1>1, Notify_beginDoes, Here DEF Calm, CalmSucc, CalmResp, Site, Where, Spinning,
      Inflation, Preparing, Linked, Relinked, Asleep, Exiting, Released, Last_exit, States, TState,
      SameLists, SameWords, Naming, Handing, LocRec, Control, Plain, Owned, Unlocking, Unlocked,
      Last_unlock, Waiting, Reentered, Entering
  <2>1. Calm(t) OBVIOUS
  <2>2. CalmSucc(t) OBVIOUS
  <2>3. CalmResp(t) OBVIOUS
  <2> QED BY <2>1, <2>2, <2>3
<1> QED BY <1>2, CalmKeeps

=============================================================================
