------------------------- MODULE ObjectSynchronizer -------------------------
(***************************************************************************)
(* The locking of one Java object through its mark word: stack locks,      *)
(* inflation into an ObjectMonitor, the identity hash that the mark word   *)
(* shares with them, deflation at a safepoint, and the free lists of       *)
(* monitors (ObjectSynchronizer of runtime/synchronizer.cpp).  Biased      *)
(* locking is off.                                                         *)
(*                                                                         *)
(* A thread runs a program of calls.  Its BasicLocks are boxes[t], one per *)
(* nested lock; held[t] lists the locks its Java code holds or is          *)
(* acquiring, less the one it is releasing: "java" for a synchronized      *)
(* block, "jni" for a MonitorEnter of JNI.                                 *)
(***************************************************************************)
EXTENDS ObjectMonitor, FiniteSets

CONSTANTS Scenarios,   \* the programs the threads run, and the first mark
          MaxDepth,    \* bound: nested locks of a thread
          MaxMonitors, \* bound: blocks of monitors, one usable monitor each
          Hashes       \* what get_next_hash may return

ASSUME MonitorsAssumption == MaxMonitors \in Nat \ {0} /\ Monitors = 1..MaxMonitors

ASSUME HashesAssumption == 0 \notin Hashes

ASSUME ThreadsAssumption ==
  IsFiniteSet(Threads) /\ None \notin Threads \cup {"enter", "EnterI", "woken", "reenter"}

ASSUME DepthAssumption == MaxDepth \in Nat \ {0}

Calls == [op : {"lock", "jni_enter", "unlock", "compiled_unlock", "jni_exit", "wait",
                "timed_wait", "notify", "notifyAll", "hash", "interrupt", "omFlush"},
          target : Threads \cup {None}]

\* Java code locks and unlocks in pairs, and so does JNI: a call that is made
\* with the locks before and leaves after.
Structured(call, before, after) ==
  LET top == Len(before) IN
  \/ call.op = "lock" /\ top < MaxDepth /\ after = Append(before, "java")
  \/ call.op = "jni_enter" /\ top < MaxDepth /\ after = Append(before, "jni")
  \/ /\ call.op \in {"unlock", "compiled_unlock"}
     /\ top > 0 /\ before[top] = "java" /\ after = Front(before)
  \/ call.op = "jni_exit" /\ top > 0 /\ before[top] = "jni" /\ after = Front(before)
  \/ call.op \in {"wait", "timed_wait", "notify", "notifyAll"} /\ top > 0 /\ after = before
  \/ call.op \in {"hash", "omFlush"} /\ after = before
  \/ call.op = "interrupt" /\ call.target \in Threads /\ after = before

\* nest has the locks before each call of the program, and after the last.
Nested(prog, nest) ==
  /\ Len(nest) = Len(prog) + 1
  /\ \A i \in 1..Len(prog) : Structured(prog[i], nest[i], nest[i + 1])

Members(s) == {s[i] : i \in DOMAIN s}

\* A scenario: the program of each thread, with the locks before each call of
\* it; whether the object starts inflated, and who waits on it then.
ASSUME ScenariosAssumption ==
  \A s \in Scenarios :
    /\ s.inflated \in BOOLEAN
    /\ s.waiters \in Seq(Threads) /\ IsInjective(s.waiters)
    /\ s.waiters # <<>> => s.inflated
    /\ s.prog \in [Threads -> Seq(Calls)]
    /\ s.nest \in [Threads -> Seq(Seq({"java", "jni"}))]
    /\ \A t \in Threads :
         /\ Nested(s.prog[t], s.nest[t])
         /\ s.nest[t][1] = IF t \in Members(s.waiters) THEN <<"java">> ELSE <<>>

VARIABLES mark,      \* the mark word of the object
          boxes,     \* the displaced headers of each thread's BasicLocks
          held,      \* the locks of each thread, outermost first
          seen,      \* the mark a thread has read
          free,      \* omFreeList of each thread
          gFreeList, \* the global free list
          blocks,    \* blocks of monitors allocated
          todo,      \* the calls left to each thread
          hashes     \* history: the hash codes returned

vars == <<om, pc, mon, node, event, interrupted, loc,
          mark, boxes, held, seen, free, gFreeList, blocks, todo, hashes>>

objectVars == <<mark, boxes, held, seen, free, gFreeList, blocks, todo, hashes>>

Neutral(h) == [kind |-> "neutral", hash |-> h]

Stack(t, i) == [kind |-> "stack", thread |-> t, box |-> i]

INFLATING == [kind |-> "inflating"]

Inflated(m) == [kind |-> "inflated", monitor |-> m]

Recursive == [kind |-> "recursive"]

Unused == [kind |-> "unused"]

\* The monitor of an object that starts inflated, with threads in a
\* timed wait().
Waited(waiters) == [Idle EXCEPT !.header = Neutral(0), !.object = TRUE,
                                !.WaitSet = waiters, !.waiters = Len(waiters)]

Init ==
  \E s \in Scenarios :
    LET W == Members(s.waiters) IN
    /\ todo = s.prog
    /\ blocks = IF s.inflated THEN 1 ELSE 0
    /\ mark = IF s.inflated THEN Inflated(1) ELSE Neutral(0)
    /\ om = [m \in Monitors |-> IF s.inflated /\ m = 1 THEN Waited(s.waiters) ELSE Idle]
    /\ pc = [t \in Threads |-> IF t \in W THEN "wait_park" ELSE "java"]
    /\ mon = [t \in Threads |-> IF t \in W THEN 1 ELSE None]
    /\ node = [t \in Threads |-> IF t \in W THEN [TState |-> "WAIT", notified |-> 0]
                                 ELSE NoNode]
    /\ event = [t \in Threads |-> 0]
    /\ interrupted = [t \in Threads |-> FALSE]
    /\ loc = [t \in Threads |-> [NoLocals EXCEPT !.inwait = t \in W, !.timed = t \in W]]
    /\ boxes = [t \in Threads |-> [i \in 1..MaxDepth |-> Unused]]
    /\ held = [t \in Threads |-> s.nest[t][1]]
    /\ seen = [t \in Threads |-> None]
    /\ free = [t \in Threads |-> <<>>]
    /\ gFreeList = <<>>
    /\ hashes = {}

-----------------------------------------------------------------------------
(* Inflation *)

\* inflate(), to return to label with mon[t] the monitor: at once when the
\* object is inflated, for it stays so until a safepoint.
Inflate(t, label) ==
  IF mark.kind = "inflated"
  THEN Go(t, label) /\ mon' = [mon EXCEPT ![t] = mark.monitor] /\ UNCHANGED loc
  ELSE Go(t, "inflate") /\ loc' = [loc EXCEPT ![t].then = label] /\ UNCHANGED mon

Inflate_return(t) == Go(t, loc[t].then) /\ loc' = [loc EXCEPT ![t].then = None]

Inflate_inflated(t) ==
  /\ pc[t] = "inflate"
  /\ mark.kind = "inflated"
  /\ mon' = [mon EXCEPT ![t] = mark.monitor]
  /\ Inflate_return(t)
  /\ UNCHANGED <<om, node, event, interrupted, objectVars>>

\* A mark of INFLATING is waited for (ReadStableMark).
Inflate_read(t) ==
  /\ pc[t] = "inflate"
  /\ mark.kind \in {"stack", "neutral"}
  /\ seen' = [seen EXCEPT ![t] = mark]
  /\ Go(t, "omAlloc")
  /\ UNCHANGED <<om, mon, node, event, interrupted, loc,
                 mark, boxes, held, free, gFreeList, blocks, todo, hashes>>

\* Recycle(), and the fields inflate() resets with it.
Recycled(m) ==
  [om[m] EXCEPT !.succ = None, !.EntryList = <<>>, !.cxq = <<>>, !.WaitSet = <<>>,
                !.recursions = 0, !.Responsible = None]

\* omAlloc from the thread's own list; the monitor is prepared.
omAlloc_own(t) ==
  /\ pc[t] = "omAlloc"
  /\ free[t] # <<>>
  /\ LET m == First(free[t]) IN
     /\ mon' = [mon EXCEPT ![t] = m]
     /\ om' = [om EXCEPT ![m] =
                 IF seen[t].kind = "neutral"
                 THEN [Recycled(m) EXCEPT !.header = seen[t], !.owner = None,
                                          !.count = 0, !.object = TRUE]
                 ELSE Recycled(m)]
  /\ free' = [free EXCEPT ![t] = Tail(@)]
  /\ Go(t, IF seen[t].kind = "neutral" THEN "inflate_neutral" ELSE "inflate_stack")
  /\ UNCHANGED <<node, event, interrupted, loc,
                 mark, boxes, held, seen, gFreeList, blocks, todo, hashes>>

\* Under the ListLock: the thread's provision covers the whole list.
omAlloc_global(t) ==
  /\ pc[t] = "omAlloc"
  /\ free[t] = <<>>
  /\ gFreeList # <<>>
  /\ free' = [free EXCEPT ![t] = Reverse(gFreeList)]
  /\ gFreeList' = <<>>
  /\ UNCHANGED <<om, pc, mon, node, event, interrupted, loc,
                 mark, boxes, held, seen, blocks, todo, hashes>>

omAlloc_block(t) ==
  /\ pc[t] = "omAlloc"
  /\ free[t] = <<>>
  /\ gFreeList = <<>>
  /\ blocks < MaxMonitors
  /\ blocks' = blocks + 1
  /\ gFreeList' = <<blocks + 1>>
  /\ UNCHANGED <<om, pc, mon, node, event, interrupted, loc,
                 mark, boxes, held, seen, free, todo, hashes>>

omRelease(t) == free' = [free EXCEPT ![t] = <<mon[t]>> \o @]

Inflate_failed(t) ==
  /\ pc[t] \in {"inflate_stack", "inflate_neutral"}
  /\ mark # seen[t]
  /\ om' = [om EXCEPT ![mon[t]] = [Recycled(mon[t]) EXCEPT !.object = FALSE,
                                                           !.owner = None]]
  /\ omRelease(t)
  /\ seen' = [seen EXCEPT ![t] = None]
  /\ Go(t, "inflate")
  /\ UNCHANGED <<mon, node, event, interrupted, loc,
                 mark, boxes, held, gFreeList, blocks, todo, hashes>>

Inflate_neutral(t) ==
  /\ pc[t] = "inflate_neutral"
  /\ mark = seen[t]
  /\ mark' = Inflated(mon[t])
  /\ seen' = [seen EXCEPT ![t] = None]
  /\ Inflate_return(t)
  /\ UNCHANGED <<om, mon, node, event, interrupted,
                 boxes, held, free, gFreeList, blocks, todo, hashes>>

\* Variant: the monitor is published without the INFLATING interval, with
\* the header that was displaced when the mark was read.
InflateInOneStep(t) ==
  /\ pc[t] = "inflate_stack"
  /\ mark = seen[t]
  /\ Go(t, "inflate_dmw")
  /\ UNCHANGED <<om, mon, node, event, interrupted, loc, objectVars>>

Inflate_stack(t) ==
  /\ pc[t] = "inflate_stack"
  /\ mark = seen[t]
  /\ mark' = INFLATING
  /\ Go(t, "inflate_dmw")
  /\ UNCHANGED <<om, mon, node, event, interrupted, loc,
                 boxes, held, seen, free, gFreeList, blocks, todo, hashes>>

\* The displaced mark is fetched from the stack of the owner.
Inflate_dmw(t) ==
  /\ pc[t] = "inflate_dmw"
  /\ om' = [om EXCEPT ![mon[t]].header = boxes[seen[t].thread][seen[t].box],
                      ![mon[t]].owner = seen[t].thread, ![mon[t]].box = TRUE,
                      ![mon[t]].count = 0, ![mon[t]].object = TRUE]
  /\ Go(t, "inflate_publish")
  /\ UNCHANGED <<mon, node, event, interrupted, loc, objectVars>>

Inflate_publish(t) ==
  /\ pc[t] = "inflate_publish"
  /\ mark' = Inflated(mon[t])
  /\ seen' = [seen EXCEPT ![t] = None]
  /\ Inflate_return(t)
  /\ UNCHANGED <<om, mon, node, event, interrupted,
                 boxes, held, free, gFreeList, blocks, todo, hashes>>

InflateStep(t) ==
  \/ Inflate_inflated(t)
  \/ Inflate_read(t)
  \/ omAlloc_own(t)
  \/ omAlloc_global(t)
  \/ omAlloc_block(t)
  \/ Inflate_failed(t)
  \/ Inflate_neutral(t)
  \/ Inflate_stack(t)
  \/ Inflate_dmw(t)
  \/ Inflate_publish(t)

-----------------------------------------------------------------------------
(* slow_enter, fast_exit: the lock and unlock of Java code *)

Own(t) == mark.kind = "stack" /\ mark.thread = t

\* The box of the lock being acquired, and of the lock being released.
EnterBox(t) == Len(held[t])

ExitBox(t) == Len(held[t]) + 1

Slow_enter(t) ==
  /\ pc[t] = "slow_enter"
  /\ LET dhw == IF mark.kind = "neutral" THEN mark
                ELSE IF Own(t) THEN Recursive ELSE Unused IN
     /\ boxes' = [boxes EXCEPT ![t][EnterBox(t)] = dhw]
     /\ \/ /\ dhw.kind = "neutral"
           /\ Go(t, "stack_lock")
           /\ UNCHANGED <<loc, mon>>
        \/ /\ dhw.kind = "recursive"
           /\ Go(t, "java")
           /\ UNCHANGED <<loc, mon>>
        \/ /\ dhw.kind = "unused"
           /\ Inflate(t, "enter")
  /\ UNCHANGED <<om, node, event, interrupted,
                 mark, held, seen, free, gFreeList, blocks, todo, hashes>>

\* The CAS of the mark that was displaced.
Stack_lock(t) ==
  /\ pc[t] = "stack_lock"
  /\ LET dhw == boxes[t][EnterBox(t)] IN
     \/ /\ mark = dhw
        /\ mark' = Stack(t, EnterBox(t))
        /\ Go(t, "java")
        /\ UNCHANGED <<loc, mon, boxes>>
     \/ /\ mark # dhw
        /\ boxes' = [boxes EXCEPT ![t][EnterBox(t)] = Unused]
        /\ Inflate(t, "enter")
        /\ UNCHANGED mark
  /\ UNCHANGED <<om, node, event, interrupted,
                 held, seen, free, gFreeList, blocks, todo, hashes>>

Fast_exit(t) ==
  /\ pc[t] = "fast_exit"
  /\ \/ /\ boxes[t][ExitBox(t)] = Recursive
        /\ Go(t, "java")
        /\ UNCHANGED <<loc, mon>>
     \/ /\ boxes[t][ExitBox(t)] # Recursive
        /\ mark = Stack(t, ExitBox(t))
        /\ Go(t, "stack_unlock")
        /\ UNCHANGED <<loc, mon>>
     \/ /\ boxes[t][ExitBox(t)] # Recursive
        /\ mark # Stack(t, ExitBox(t))
        /\ Inflate(t, "exit")
  /\ UNCHANGED <<om, node, event, interrupted, objectVars>>

\* The CAS that swings the displaced header back into the mark.
Stack_unlock(t) ==
  /\ pc[t] = "stack_unlock"
  /\ \/ /\ mark = Stack(t, ExitBox(t))
        /\ mark' = boxes[t][ExitBox(t)]
        /\ Go(t, "java")
        /\ UNCHANGED <<loc, mon>>
     \/ /\ mark # Stack(t, ExitBox(t))
        /\ Inflate(t, "exit")
        /\ UNCHANGED mark
  /\ UNCHANGED <<om, node, event, interrupted,
                 boxes, held, seen, free, gFreeList, blocks, todo, hashes>>

\* Compiled code looks at the mark and at the box itself.
Compiled_unlock(t) ==
  /\ pc[t] = "compiled_unlock"
  /\ \/ /\ mark.kind = "inflated"
        /\ boxes[t][ExitBox(t)] # Recursive
        /\ mon' = [mon EXCEPT ![t] = mark.monitor]
        /\ Go(t, "unlock")
     \/ /\ mark.kind # "inflated" \/ boxes[t][ExitBox(t)] = Recursive
        /\ Go(t, "fast_exit")
        /\ UNCHANGED mon
  /\ UNCHANGED <<om, node, event, interrupted, loc, objectVars>>

LockStep(t) ==
  \/ Slow_enter(t)
  \/ Stack_lock(t)
  \/ Fast_exit(t)
  \/ Stack_unlock(t)
  \/ Compiled_unlock(t)

-----------------------------------------------------------------------------
(* FastHashCode *)

Hash_return(t, h) ==
  /\ hashes' = hashes \cup {h}
  /\ Go(t, "java")

\* ReadStableMark waits while the mark is INFLATING.  A hash code already
\* there is returned; a neutral mark without one is tried by CAS.
Hash_read(t) ==
  /\ pc[t] = "FastHashCode"
  /\ mark # INFLATING
  /\ LET header == IF mark.kind = "neutral" THEN mark
                   ELSE IF mark.kind = "inflated" THEN om[mark.monitor].header
                   ELSE IF Own(t) THEN boxes[t][mark.box] ELSE Neutral(0) IN
     \/ /\ header.hash # 0
        /\ Hash_return(t, header.hash)
        /\ UNCHANGED <<loc, mon>>
     \/ /\ header.hash = 0
        /\ mark.kind = "neutral"
        /\ Go(t, "hash_mark")
        /\ UNCHANGED <<loc, mon, hashes>>
     \/ /\ header.hash = 0
        /\ mark.kind # "neutral"
        /\ Inflate(t, "hash_monitor")
        /\ UNCHANGED hashes
  /\ UNCHANGED <<om, node, event, interrupted,
                 mark, boxes, held, seen, free, gFreeList, blocks, todo>>

\* Variant: the hash code is stored into the mark instead of swapped in.
HashStored(t) ==
  /\ pc[t] = "hash_mark"
  /\ \E h \in Hashes :
       /\ mark' = IF mark.kind = "neutral" THEN Neutral(h) ELSE mark
       /\ Hash_return(t, h)
  /\ UNCHANGED <<om, mon, node, event, interrupted, loc,
                 boxes, held, seen, free, gFreeList, blocks, todo>>

Hash_mark(t) ==
  /\ pc[t] = "hash_mark"
  /\ \/ /\ mark = Neutral(0)
        /\ \E h \in Hashes : mark' = Neutral(h) /\ Hash_return(t, h)
        /\ UNCHANGED <<loc, mon>>
     \/ /\ mark # Neutral(0)
        /\ Inflate(t, "hash_monitor")
        /\ UNCHANGED <<mark, hashes>>
  /\ UNCHANGED <<om, node, event, interrupted,
                 boxes, held, seen, free, gFreeList, blocks, todo>>

\* The header of the monitor is read, and swapped if it has no hash code.
Hash_monitor(t) ==
  /\ pc[t] = "hash_monitor"
  /\ IF this(t).header.hash # 0
     THEN Hash_return(t, this(t).header.hash)
     ELSE Go(t, "hash_header") /\ UNCHANGED hashes
  /\ UNCHANGED <<om, mon, node, event, interrupted, loc,
                 mark, boxes, held, seen, free, gFreeList, blocks, todo>>

\* A CAS that fails returns the hash code that is there.
Hash_header(t) ==
  /\ pc[t] = "hash_header"
  /\ \/ /\ this(t).header.hash = 0
        /\ \E h \in Hashes : /\ Set(t, [this(t) EXCEPT !.header = Neutral(h)])
                             /\ Hash_return(t, h)
     \/ /\ this(t).header.hash # 0
        /\ Hash_return(t, this(t).header.hash)
        /\ UNCHANGED om
  /\ UNCHANGED <<mon, node, event, interrupted, loc,
                 mark, boxes, held, seen, free, gFreeList, blocks, todo>>

HashStep(t) ==
  \/ Hash_read(t)
  \/ Hash_mark(t)
  \/ Hash_monitor(t)
  \/ Hash_header(t)

-----------------------------------------------------------------------------
(* Deflation *)

\* Inside EnterI a thread is _thread_blocked throughout, spins included.
Blocked(t) ==
  \/ pc[t] \in {"enqueue", "push", "responsible", "responsible_cas", "contend",
                "park?", "park", "park_timed", "woken", "futile", "egress",
                "wait_check", "wait_notified", "wait_park", "repark"}
  \/ /\ pc[t] \in {"spin", "spin_succ", "spin_store", "spinning", "spin_clear",
                   "spin_retry"}
     /\ loc[t].spin \in {"EnterI", "woken"}
  \/ pc[t] = "clearing" /\ loc[t].then \in {"contend", "egress", "entered"}

\* A safepoint: every thread is blocked, or in Java code at a poll.
Safe == \A t \in Threads : pc[t] = "java" \/ Blocked(t)

is_busy(m) == \/ om[m].count # 0
              \/ om[m].waiters # 0
              \/ om[m].owner # None
              \/ om[m].cxq # <<>>
              \/ om[m].EntryList # <<>>

\* deflate_idle_monitors: the header goes back to the object.
Deflate(m) ==
  /\ Safe
  /\ om[m].object
  /\ ~is_busy(m)
  /\ mark' = om[m].header
  /\ om' = [om EXCEPT ![m].header = None, ![m].object = FALSE]
  /\ gFreeList' = <<m>> \o gFreeList
  /\ UNCHANGED <<pc, mon, node, event, interrupted, loc,
                 boxes, held, seen, free, blocks, todo, hashes>>

-----------------------------------------------------------------------------
(* The calls of a thread *)

Call(t, op) ==
  /\ pc[t] = "java"
  /\ todo[t] # <<>>
  /\ First(todo[t]).op = op
  /\ todo' = [todo EXCEPT ![t] = Tail(@)]

\* The lock of Java code; JNI MonitorEnter always inflates.
Call_enter(t) ==
  /\ \/ /\ Call(t, "lock")
        /\ held' = [held EXCEPT ![t] = Append(@, "java")]
        /\ Go(t, "slow_enter")
        /\ UNCHANGED <<loc, mon>>
     \/ /\ Call(t, "jni_enter")
        /\ held' = [held EXCEPT ![t] = Append(@, "jni")]
        /\ Inflate(t, "enter")
  /\ UNCHANGED <<om, node, event, interrupted,
                 mark, boxes, seen, free, gFreeList, blocks, hashes>>

Call_exit(t) ==
  /\ held' = [held EXCEPT ![t] = Front(@)]
  /\ \/ /\ Call(t, "unlock")
        /\ Go(t, "fast_exit")
        /\ UNCHANGED <<loc, mon>>
     \/ /\ Call(t, "compiled_unlock")
        /\ Go(t, "compiled_unlock")
        /\ UNCHANGED <<loc, mon>>
     \/ /\ Call(t, "jni_exit")
        /\ Inflate(t, "exit")
  /\ UNCHANGED <<om, node, event, interrupted,
                 mark, boxes, seen, free, gFreeList, blocks, hashes>>

Call_wait(t) ==
  /\ \E timed \in BOOLEAN :
       /\ Call(t, IF timed THEN "timed_wait" ELSE "wait")
       /\ loc' = [loc EXCEPT ![t].timed = timed, ![t].then = "wait"]
  /\ Go(t, "inflate")
  /\ UNCHANGED <<om, mon, node, event, interrupted,
                 mark, boxes, held, seen, free, gFreeList, blocks, hashes>>

\* A stack-locked object has no waiters.
Call_notify(t) ==
  /\ \E op \in {"notify", "notifyAll"} :
       /\ Call(t, op)
       /\ IF Own(t) THEN UNCHANGED <<pc, loc, mon>> ELSE Inflate(t, op)
  /\ UNCHANGED <<om, node, event, interrupted,
                 mark, boxes, held, seen, free, gFreeList, blocks, hashes>>

Call_hash(t) ==
  /\ Call(t, "hash")
  /\ Go(t, "FastHashCode")
  /\ UNCHANGED <<om, mon, node, event, interrupted, loc,
                 mark, boxes, held, seen, free, gFreeList, blocks, hashes>>

Call_interrupt(t) ==
  /\ Call(t, "interrupt")
  /\ loc' = [loc EXCEPT ![t].target = First(todo[t]).target]
  /\ Go(t, "interrupt")
  /\ UNCHANGED <<om, mon, node, event, interrupted,
                 mark, boxes, held, seen, free, gFreeList, blocks, hashes>>

\* The thread exits: omFlush gives its monitors back.
Call_omFlush(t) ==
  /\ Call(t, "omFlush")
  /\ gFreeList' = free[t] \o gFreeList
  /\ free' = [free EXCEPT ![t] = <<>>]
  /\ UNCHANGED <<om, pc, mon, node, event, interrupted, loc,
                 mark, boxes, held, seen, blocks, hashes>>

CallStep(t) ==
  \/ Call_enter(t)
  \/ Call_exit(t)
  \/ Call_wait(t)
  \/ Call_notify(t)
  \/ Call_hash(t)
  \/ Call_interrupt(t)
  \/ Call_omFlush(t)

Finished == \A t \in Threads : pc[t] = "java" /\ todo[t] = <<>>

Next ==
  \/ \E t \in Threads :
       \/ MonitorStep(t) /\ UNCHANGED objectVars
       \/ InflateStep(t)
       \/ LockStep(t)
       \/ HashStep(t)
       \/ CallStep(t)
  \/ \E m \in Monitors : Deflate(m)
  \/ Finished /\ UNCHANGED vars

Spec == Init /\ [][Next]_vars

-----------------------------------------------------------------------------
(* Properties *)

\* The Java code of t runs inside a synchronized block on the object.
Holds(t) == pc[t] = "java" /\ held[t] # <<>>

(* MutualExclusion: at most one thread is in a block synchronized on the   *)
(* object, whether it locked the mark, a BasicLock that was inflated under *)
(* it, or a monitor; and the mark word or the monitor says that it is.     *)
MutualExclusion ==
  \A t \in Threads : Holds(t) =>
    /\ \A u \in Threads \ {t} : ~Holds(u)
    /\ \/ Own(t)
       \/ mark = INFLATING
       \/ mark.kind = "inflated" /\ om[mark.monitor].owner = t

Queued(m) == Members(om[m].cxq) \cup Members(om[m].EntryList)

\* t will try the lock of m before it can park for good.
WillTry(t) ==
  \/ pc[t] \in {"enter", "EnterI", "enqueue", "push", "responsible", "responsible_cas", "contend", "woken", "futile",
                "wait_exited", "wait_check", "wait_state", "wait_unlink", "wait_was",
                "reenter", "rewoken", "spin", "spin_clear", "spin_retry"}
  \/ pc[t] = "clearing" /\ loc[t].then \in {"contend", "reenter", "wait_was"}
  \/ /\ pc[t] \in {"spin_succ", "spin_store", "spinning"}
     /\ loc[t].spin # "reenter" \/ this(t).succ = t \/ event[t] = 1
  \/ pc[t] \in {"park?", "park", "repark", "wait_notified", "wait_park"} /\ event[t] = 1
  \/ pc[t] = "wait_notified" /\ node[t].notified = 1
  \/ pc[t] = "park?" /\ this(t).Responsible = t
  \/ pc[t] = "park_timed"

\* t has dropped the lock of m and has yet to look for a successor, or to
\* unpark the one it has chosen.
WillWake(t) ==
  pc[t] \in {"exit_EntryList", "exit_cxq", "exit_succ", "exit_cas", "epilog_unpark",
             "unlock_recheck", "unlock_cas"}

(* NoStranding: a free monitor with threads on cxq or EntryList always has *)
(* a thread that will try the lock, by itself, by a pending unpark or by   *)
(* the timer of the Responsible thread, or an exiting thread that will     *)
(* wake one.  This is the recovery from the 1-0 unlock of compiled code    *)
(* and the use of _succ to avoid needless wakeups.                         *)
NoStranding ==
  \A m \in Monitors :
    (om[m].owner = None /\ Queued(m) # {}) =>
      \E t \in Threads : mon[t] = m /\ (WillTry(t) \/ WillWake(t))

(* QueuesAgree: a thread is on at most one list of one monitor, its        *)
(* ObjectWaiter's TState names that list, and a thread that has acquired   *)
(* the lock after queueing finds its node there to unlink it.              *)
QueuesAgree ==
  /\ \A m \in Monitors :
       /\ IsInjective(om[m].cxq \o om[m].EntryList \o om[m].WaitSet)
       /\ \A t \in Members(om[m].cxq)       : node[t].TState = "CXQ" /\ mon[t] = m
       /\ \A t \in Members(om[m].EntryList) : node[t].TState = "ENTER" /\ mon[t] = m
       /\ \A t \in Members(om[m].WaitSet)   : node[t].TState = "WAIT" /\ mon[t] = m
       /\ om[m].waiters = Cardinality({t \in Threads : loc[t].inwait /\ mon[t] = m})
  /\ \A t \in Threads :
       /\ pc[t] \in {"contend", "park?", "park", "park_timed", "egress", "reegress"}
            => t \in Queued(mon[t])
       /\ node[t].TState = "RUN" => \A m \in Monitors : t \notin Queued(m)

(* MonitorsAccounted: every monitor is in one place, the object, one free  *)
(* list, or the hands of one inflating thread; the object's monitor is not *)
(* deflated under a thread that enters, exits, waits on or notifies it.    *)
MonitorsAccounted ==
  LET Preparing(m) == {t \in Threads : mon[t] = m /\ pc[t] \in
                         {"inflate_stack", "inflate_neutral", "inflate_dmw",
                          "inflate_publish"}}
      Places(m) == Cardinality(Preparing(m))
                   + Cardinality({t \in Threads : m \in Members(free[t])})
                   + (IF m \in Members(gFreeList) THEN 1 ELSE 0)
                   + (IF mark = Inflated(m) THEN 1 ELSE 0)
      Outside == {"java", "slow_enter", "stack_lock", "fast_exit", "stack_unlock",
                  "compiled_unlock", "FastHashCode", "hash_mark", "inflate", "omAlloc",
                  "inflate_stack", "inflate_neutral", "inflate_dmw",
                  "inflate_publish", "interrupt", "interrupt_unpark"}
  IN  /\ \A m \in 1..blocks : Places(m) = 1
      /\ \A t \in Threads : pc[t] \notin Outside => mark = Inflated(mon[t])

(* HashStable: every call of FastHashCode returns the same value, wherever *)
(* the header is while the object is locked, inflated and deflated.        *)
HashStable == Cardinality(hashes) <= 1

(* Asserts: assertions and guarantees of enter, EnterI, exit, wait,        *)
(* ReenterI, inflate, FastHashCode and deflate_idle_monitors: on _owner,   *)
(* _recursions, _succ, _Responsible, TState, INFLATING and the header.     *)
Asserts ==
  /\ \A t \in Threads :
       /\ pc[t] \in {"EnterI", "enqueue"} => this(t).succ # t /\ this(t).owner # t
       /\ pc[t] = "enqueue" => this(t).Responsible # t
       /\ pc[t] \in {"entered", "wait_reentered"} =>
            /\ this(t).succ # t /\ this(t).owner = t /\ this(t).recursions = 0
            /\ node[t].TState \in {"RUN", "CXQ"}
       /\ pc[t] \in {"exit", "drop", "drain", "drained", "epilog"} =>
            this(t).owner = t
       /\ pc[t] \in {"reenter", "repark", "rewoken"} =>
            node[t].TState \in {"ENTER", "CXQ"} /\ this(t).owner # t
       /\ pc[t] = "inflate_publish" => mark = INFLATING
       /\ pc[t] \in {"FastHashCode", "hash_monitor"} /\ mark.kind = "inflated" =>
            om[mark.monitor].header.kind = "neutral"
  /\ \A m \in Monitors : ~om[m].object => ~is_busy(m)

(* NotifyPrecedence: "Monitor notify has precedence over thread            *)
(* interrupt": a wait() that a notify() has taken off the WaitSet does not *)
(* end in InterruptedException.                                            *)
NotifyPrecedence ==
  \A t \in Threads : pc[t] = "wait_reentered" /\ node[t].notified = 1 => ~Throws(t)

=============================================================================
