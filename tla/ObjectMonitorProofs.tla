------------------------ MODULE ObjectMonitorProofs ------------------------
(***************************************************************************)
(* Proofs about ObjectSynchronizer, first part: the inductive invariant,   *)
(* and that the steps of a thread inside its ObjectMonitor keep it. The    *)
(* heart of the invariant is OwnerInv: a thread has the lock, as its own   *)
(* place in enter, exit or wait tells, exactly when the mark word or the   *)
(* owner word names it. To keep it across a recursive exit the invariant   *)
(* has to know that the recursions of the monitor are the locks of the     *)
(* thread that count (Counted), through a wait() too; and that the monitor *)
(* a thread works on is the monitor of the object (UseInv), which          *)
(* deflation respects because _count and _waiters count the threads inside *)
(* (MonitorOK). A step inside a monitor is of one of four kinds: quiet     *)
(* (QuietStep), the owner word taken (AcquireStep) or dropped              *)
(* (ReleaseStep), or a count changed (MonitorMove).                        *)
(*                                                                         *)
(* Then the invariant of the queues, QInv, what each step inside a monitor *)
(* does to the words, the lists and the ObjectWaiters (the lemmas named    *)
(* Does), and facts about lists of threads.                                *)
(***************************************************************************)
EXTENDS ObjectSynchronizer, FiniteSetTheorems, TLAPS

-----------------------------------------------------------------------------
(* The inductive invariant *)

\* The places of a thread, by what it has to do with the lock: where it
\* spins for it (a spin is a subroutine of enter and of wait),
Spinning == {"spin", "spin_succ", "spin_store", "spinning", "spin_clear", "spin_retry"}

\* where inflate() has a monitor in its hands, and where it is at all,
Preparing == {"inflate_stack", "inflate_neutral", "inflate_dmw", "inflate_publish"}

Inflation == {"inflate", "omAlloc"} \cup Preparing

\* where the caller of wait, notify or notifyAll has the lock,
Owned == {"wait", "wait_add", "notify", "notifyAll", "notify_dequeue", "notify_set",
          "notify_link", "notifyAll_lock", "notifyAll_dequeue", "notifyAll_link"}

\* where nothing is done to the locks a thread has,
Plain == {"java", "FastHashCode", "hash_mark", "hash_monitor", "hash_header",
          "interrupt", "interrupt_unpark"} \cup Owned

\* where it is about to add one to them,
Acquiring == {"slow_enter", "stack_lock", "enter"}

\* where it waits for its first one in EnterI, and where it has just got it,
Contending == {"EnterI", "enqueue", "push", "responsible", "responsible_cas", "contend",
               "park?", "park", "park_timed", "woken", "futile"}

Entering == {"entered", "egress"}

\* where it gives one up; "last" once it is known to be the only one,
Last_unlock == {"unlock_EntryList", "unlock_store", "unlock_succ", "unlock_drop"}

Unlocking == {"fast_exit", "stack_unlock", "compiled_unlock", "unlock"} \cup Last_unlock

Last_exit == {"drop", "drain", "drained", "epilog", "epilog_drop"}

Exiting == {"exit"} \cup Last_exit

\* where it has given it up and looks after a successor,
Released == {"exit_EntryList", "exit_cxq", "exit_succ", "exit_cas", "epilog_unpark"}

Unlocked == {"unlock_recheck", "unlock_cas"}

\* and in wait(), without the lock and with it again.
Waiting == {"wait_exited", "wait_check", "wait_notified", "wait_park", "wait_state",
            "wait_unlink", "wait_was", "reenter", "repark", "rewoken"}

Reentered == {"reegress", "wait_reentered"}

Labels == Spinning \cup Inflation \cup Plain \cup Acquiring \cup Contending \cup Entering
            \cup Unlocking \cup Exiting \cup Released \cup Unlocked \cup Waiting
            \cup Reentered \cup {"clearing"}

\* The places where a thread uses no monitor: it has to find the one of the
\* object in the mark first.
Outside == {"java", "slow_enter", "stack_lock", "fast_exit", "stack_unlock",
                  "compiled_unlock", "FastHashCode", "hash_mark", "inflate", "omAlloc",
                  "inflate_stack", "inflate_neutral", "inflate_dmw",
                  "inflate_publish", "interrupt", "interrupt_unpark"}

\* The place of a thread, looked at through the subroutines that return to it.
Where(t) == IF pc[t] \in Inflation \cup {"clearing"} THEN loc[t].then ELSE pc[t]

\* The words that the mark, a box and the header of a monitor can hold.
Neutrals == {Neutral(h) : h \in Hashes \cup {0}}

Marks == Neutrals \cup {INFLATING} \cup {Stack(t, 1) : t \in Threads}
           \cup {Inflated(m) : m \in Monitors}

Headers == Neutrals \cup {Recursive, Unused}

NT == Threads \cup {None}

\* The types of the fields of monitors, of locals and of nodes.
MonitorRec == [owner : NT, box : BOOLEAN, recursions : Int, count : Int, waiters : Int,
               succ : NT, Responsible : NT, cxq : Seq(NT), EntryList : Seq(NT),
               WaitSet : Seq(NT), WaitSetLock : NT,
               header : Headers \cup {None}, object : BOOLEAN]

LocRec == [spin : {None, "enter", "EnterI", "woken", "reenter"}, then : Labels \cup {None},
           nxt : NT, w : NT, save : Int,
           wasNotified : Int, timed : BOOLEAN, inwait : BOOLEAN, target : NT]

NodeRec == [TState : {"RUN", "CXQ", "ENTER", "WAIT"}, notified : {0, 1}]

\* The types of the variables.
Typing ==
  /\ node \in [Threads -> NodeRec]
  /\ om \in [Monitors -> MonitorRec]
  /\ pc \in [Threads -> Labels]
  /\ mon \in [Threads -> Monitors \cup {None}]
  /\ loc \in [Threads -> LocRec]
  /\ mark \in Marks
  /\ boxes \in [Threads -> [1..MaxDepth -> Headers]]
  /\ held \in [Threads -> Seq({"java", "jni"})]
  /\ seen \in [Threads -> Marks \cup {None}]
  /\ free \in [Threads -> Seq(Monitors)]
  /\ gFreeList \in Seq(Monitors)
  /\ blocks \in 0..MaxMonitors
  /\ todo \in [Threads -> Seq(Calls)]
  /\ hashes \in SUBSET Hashes

\* The subroutines return to where they were called from, and wait() is where
\* loc[t].inwait says it is.
Control(t) ==
  /\ pc[t] \in Spinning => /\ loc[t].spin # None
                           /\ loc[t].spin = "reenter" => loc[t].inwait
  /\ pc[t] = "clearing" =>
       /\ loc[t].then \in {"java", "contend"} \cup Entering \cup Reentered \cup {"reenter", "wait_was"}
       /\ loc[t].then = "java" => ~loc[t].inwait
       /\ loc[t].then \in Reentered \cup {"reenter", "wait_was"} => loc[t].inwait
  /\ pc[t] \in Inflation => /\ loc[t].then \in {"enter", "exit", "wait", "notify",
                                                "notifyAll", "hash_monitor"}
                            /\ ~loc[t].inwait
  /\ pc[t] \in Plain \cup {"slow_enter", "stack_lock"} \cup Unlocking \cup Unlocked
       => ~loc[t].inwait
  /\ pc[t] \in Waiting \cup Reentered => loc[t].inwait

\* The locks of t, with the one it is acquiring, without the one it releases.
Depth(t) == Len(held[t])

\* The innermost lock of t is not acquired yet.
Trying(t) == ~loc[t].inwait /\ (Where(t) \in Acquiring \cup Contending \/ pc[t] \in Spinning)

\* t is giving its innermost lock up, and may have it still.
Releasing(t) == ~loc[t].inwait /\ Where(t) \in Unlocking \cup Exiting

\* The owner word is the thread itself, no longer one of its BasicLocks.
Unboxed(t) == Where(t) \in Last_exit \cup Last_unlock \cup {"wait_add"}

\* The number of locks that t has acquired and is not releasing.
Top(t) == IF Trying(t) THEN Depth(t) - 1 ELSE Depth(t)

\* t is the owner of the object, as its own code sees it.
Has(t) ==
  IF loc[t].inwait THEN Where(t) \in Entering \cup Exiting \cup Reentered
  ELSE \/ Where(t) \in Plain \cup Acquiring /\ Top(t) > 0
       \/ Where(t) \in Entering \cup Unlocking \cup Exiting

\* A lock that is not a recursive stack lock: it is counted by whoever keeps
\* the count, the mark for one and the monitor for _recursions + 1 of them.
Real(t, j) == held[t][j] = "jni" \/ boxes[t][j] # Recursive

\* The lock being released still counts.
Extra(t) == /\ Releasing(t)
            /\ \/ Where(t) \notin {"fast_exit", "compiled_unlock"}
               \/ boxes[t][Depth(t) + 1] # Recursive

\* The locks of t that count.
Reals(t) == {j \in 1..Top(t) : Real(t, j)} \cup (IF Extra(t) THEN {Depth(t) + 1} ELSE {})

\* How many locks a thread has, by its place, and what is in their boxes.
Depths(t) ==
  /\ Depth(t) <= MaxDepth
  /\ Releasing(t) => Depth(t) < MaxDepth
  /\ Trying(t) => Depth(t) > 0
  /\ ~loc[t].inwait /\ (\/ Where(t) \in Contending \cup Entering \cup {"stack_lock"}
                        \/ pc[t] \in Spinning) => Depth(t) = 1
  /\ ~loc[t].inwait /\ Where(t) \in Released \cup Unlocked \cup Last_exit \cup Last_unlock
       => Depth(t) = 0
  /\ Where(t) \in Owned \/ loc[t].inwait => Depth(t) > 0
  /\ Trying(t) /\ Where(t) # "slow_enter" => Real(t, Depth(t))
  /\ Where(t) = "stack_lock" => boxes[t][1] \in Neutrals
  /\ Where(t) = "slow_enter" => held[t][Depth(t)] = "java"
  /\ Where(t) \in (Unlocking \cup Unlocked) \ {"fast_exit", "compiled_unlock"}
       => boxes[t][Depth(t) + 1] # Recursive

\* Threads between the CAS of INFLATING and the store of the monitor.
Inflater(u) == pc[u] \in {"inflate_dmw", "inflate_publish"}

\* The owner of a BasicLock.
StackOwner(t) ==
  \/ mark.kind = "stack" /\ mark.thread = t
  \/ \E u \in Threads : Inflater(u) /\ seen[u].thread = t

\* The owner of the monitor of the object.
MonitorOwner(t) == mark.kind = "inflated" /\ om[mark.monitor].owner = t

\* A thread has the lock exactly when the mark or the monitor says so.
OwnerInv == \A t \in Threads : Has(t) <=> StackOwner(t) \/ MonitorOwner(t)

\* The locks that count are those the monitor has counted, or the one that a
\* stack lock stands for; wait() keeps the number to restore.
Counted(t) ==
  /\ Has(t) \/ loc[t].inwait => 1 \in Reals(t)
  /\ loc[t].inwait => loc[t].save \in Nat /\ Cardinality(Reals(t)) = loc[t].save + 1
  /\ MonitorOwner(t) =>
       IF loc[t].inwait THEN om[mark.monitor].recursions = 0 /\ ~om[mark.monitor].box
       ELSE /\ Cardinality(Reals(t)) = om[mark.monitor].recursions + 1
            /\ Unboxed(t) => ~om[mark.monitor].box
  /\ StackOwner(t) => Reals(t) = {1}

\* A header with the hash code that was returned, if one was.
Agrees(header) == header \in Neutrals /\ \A h \in hashes : header.hash = h

\* The header of the object agrees, wherever it is.
HeaderInv ==
  /\ mark.kind = "neutral" => Agrees(mark)
  /\ mark.kind = "stack" => Agrees(boxes[mark.thread][1])
  /\ mark.kind = "inflated" => Agrees(om[mark.monitor].header)
  /\ \A u \in Threads : Inflater(u) => Agrees(boxes[seen[u].thread][1])

\* What inflate() has read is still so when its last store depends on it; one
\* thread at most is between INFLATING and the monitor.
InflateInv ==
  /\ \A t \in Threads :
       /\ pc[t] \in {"omAlloc", "inflate_stack", "inflate_neutral"} =>
            seen[t] \in Neutrals \cup {Stack(u, 1) : u \in Threads}
       /\ pc[t] \in {"inflate_stack", "inflate_dmw", "inflate_publish"} =>
            \E u \in Threads : seen[t] = Stack(u, 1)
       /\ pc[t] = "inflate_neutral" => /\ seen[t] \in Neutrals
                                       /\ om[mon[t]].header = seen[t]
       /\ pc[t] = "inflate_publish" => /\ om[mon[t]].header = boxes[seen[t].thread][1]
                                       /\ om[mon[t]].owner = seen[t].thread
       /\ Inflater(t) => mark = INFLATING /\ \A u \in Threads : Inflater(u) => u = t
  /\ mark = INFLATING => \E u \in Threads : Inflater(u)

\* The threads that _count counts.
InEnterI(t) ==
  \/ pc[t] \in (Contending \ {"EnterI"}) \cup Entering
  \/ pc[t] \in Spinning /\ loc[t].spin \in {"EnterI", "woken"}
  \/ pc[t] = "clearing" /\ loc[t].then \in {"contend"} \cup Entering

\* The monitor of the object counts its contenders and its waiters; a monitor
\* that is not in use is idle, but for what inflate() has stored.
MonitorOK(m) ==
    /\ IF mark = Inflated(m)
       THEN /\ om[m].owner = None => om[m].recursions = 0 /\ ~om[m].box
            /\ om[m].box => om[m].recursions = 0
            /\ om[m].count = Cardinality({t \in Threads : InEnterI(t)})
            /\ om[m].waiters = Cardinality({t \in Threads : loc[t].inwait})
       ELSE /\ om[m].recursions = 0
            /\ om[m].count = 0
            /\ om[m].waiters = 0
            /\ \/ om[m].owner = None /\ ~om[m].box
               \/ \E t \in Threads : pc[t] = "inflate_publish" /\ mon[t] = m
    /\ om[m].object => \/ mark = Inflated(m)
                       \/ \E t \in Threads : /\ pc[t] \in {"inflate_neutral", "inflate_publish"}
                                             /\ mon[t] = m

\* Every monitor.
MonitorInv == \A m \in Monitors : MonitorOK(m)

\* A thread inside a monitor is inside the one of the object.
UseInv == \A t \in Threads : pc[t] \notin Outside => mark = Inflated(mon[t])

\* A monitor of the blocks allocated is in one place: on one free list, in the
\* hands of one inflating thread, or in the mark.
Placed(m) ==
  /\ \A t, u \in Threads : m \in Members(free[t]) /\ m \in Members(free[u]) => t = u
  /\ \A t, u \in Threads : pc[t] \in Preparing /\ mon[t] = m /\ pc[u] \in Preparing
                             /\ mon[u] = m => t = u
  /\ \A t \in Threads : m \in Members(free[t]) =>
       /\ m \notin Members(gFreeList) /\ mark # Inflated(m)
       /\ \A u \in Threads : pc[u] \in Preparing => mon[u] # m
  /\ m \in Members(gFreeList) => /\ mark # Inflated(m)
                                 /\ \A u \in Threads : pc[u] \in Preparing => mon[u] # m
  /\ mark = Inflated(m) => \A u \in Threads : pc[u] \in Preparing => mon[u] # m
  /\ \/ m \in Members(gFreeList) \/ mark = Inflated(m)
     \/ \E t \in Threads : m \in Members(free[t]) \/ (pc[t] \in Preparing /\ mon[t] = m)

\* The free lists have no repetitions, and every monitor of the blocks
\* allocated is in its place.
PoolInv ==
  /\ IsInjective(gFreeList) /\ Members(gFreeList) \subseteq 1..blocks
  /\ \A t \in Threads : IsInjective(free[t]) /\ Members(free[t]) \subseteq 1..blocks
  /\ \A t \in Threads : pc[t] \in Preparing => mon[t] \in 1..blocks
  /\ \A m \in Monitors : mark = Inflated(m) => m \in 1..blocks
  /\ \A m \in 1..blocks : Placed(m)

\* Every thread.
ThreadInv == \A t \in Threads : Control(t) /\ Depths(t) /\ Counted(t)

\* The inductive invariant, together with NestInv.
Inv == /\ Typing /\ ThreadInv /\ OwnerInv /\ HeaderInv /\ InflateInv /\ MonitorInv /\ UseInv
       /\ PoolInv

\* The calls left to a thread fit the locks it has.
NestInv ==
  \A t \in Threads :
    \E nest \in Seq(Seq({"java", "jni"})) : Nested(todo[t], nest) /\ nest[1] = held[t]

\* Two states of a monitor that differ in its queues only.
CoreSame(q, r) ==
  /\ q.owner = r.owner /\ q.box = r.box /\ q.recursions = r.recursions
  /\ q.count = r.count /\ q.waiters = r.waiters
  /\ q.header = r.header /\ q.object = r.object

\* A step that moves t only.
Shape(t) ==
  /\ om' \in [Monitors -> MonitorRec] /\ loc' \in [Threads -> LocRec]
  /\ pc' \in [Threads -> Labels] /\ node' \in [Threads -> NodeRec]
  /\ \A u \in Threads \ {t} : pc'[u] = pc[u] /\ loc'[u] = loc[u]

\* A step of t that takes no lock and drops none, and keeps its place in the
\* counts.
Quiet(t) ==
  /\ Trying(t)' <=> Trying(t)
  /\ Extra(t)' <=> Extra(t)
  /\ Has(t)' <=> Has(t)
  /\ InEnterI(t)' <=> InEnterI(t)
  /\ Control(t)' /\ Depths(t)'
  /\ loc'[t].inwait = loc[t].inwait /\ loc'[t].save = loc[t].save

-----------------------------------------------------------------------------
(* Marks, levels and the threads that do not move *)

\* The kinds of mark words are distinct, and carry what they are built from.
LEMMA MarkFacts ==
  /\ \A h : Neutral(h).kind = "neutral" /\ Neutral(h).hash = h
  /\ \A t, i : Stack(t, i).kind = "stack" /\ Stack(t, i).thread = t /\ Stack(t, i).box = i
  /\ \A m : Inflated(m).kind = "inflated" /\ Inflated(m).monitor = m
  /\ INFLATING.kind = "inflating" /\ Recursive.kind = "recursive" /\ Unused.kind = "unused"
BY DEF Neutral, Stack, Inflated, INFLATING, Recursive, Unused

\* A thread that did not move.
LEMMA Unmoved ==
  ASSUME NEW u, pc'[u] = pc[u], loc'[u] = loc[u], held'[u] = held[u], boxes'[u] = boxes[u]
  PROVE  /\ (Trying(u)' <=> Trying(u)) /\ (Extra(u)' <=> Extra(u))
         /\ (Has(u)' <=> Has(u)) /\ (InEnterI(u)' <=> InEnterI(u))
         /\ (Control(u)' <=> Control(u)) /\ (Depths(u)' <=> Depths(u))
         /\ (Unboxed(u)' <=> Unboxed(u)) /\ Reals(u)' = Reals(u)
<1>1. (Where(u)' = Where(u)) /\ (Depth(u)' = Depth(u)) /\ (\A j : Real(u, j)' <=> Real(u, j))
  BY DEF Where, Depth, Real
<1>2. (Trying(u)' <=> Trying(u)) /\ (Releasing(u)' <=> Releasing(u))
  BY <1>1 DEF Trying, Releasing
<1>3. Top(u)' = Top(u)
  BY <1>1, <1>2 DEF Top
<1>4. (Extra(u)' <=> Extra(u)) /\ (Has(u)' <=> Has(u)) /\ (InEnterI(u)' <=> InEnterI(u))
      /\ (Unboxed(u)' <=> Unboxed(u))
  BY <1>1, <1>2, <1>3 DEF Extra, Has, InEnterI, Unboxed
<1>5. Control(u)' <=> Control(u)
  BY DEF Control
<1>6. Depths(u)' <=> Depths(u)
  BY <1>1, <1>2 DEF Depths
<1>7. Reals(u)' = Reals(u)
  BY <1>1, <1>3, <1>4 DEF Reals
<1> QED BY <1>2, <1>4, <1>5, <1>6, <1>7

\* The levels of a thread depend on its locks and on what it does to the innermost.
LEMMA RealsSame ==
  ASSUME NEW t, held'[t] = held[t], boxes'[t] = boxes[t], Trying(t)' <=> Trying(t), Extra(t)' <=> Extra(t)
  PROVE  Reals(t)' = Reals(t)
<1>1. Top(t)' = Top(t) /\ Depth(t)' = Depth(t) /\ \A j : Real(t, j)' <=> Real(t, j)
  BY DEF Top, Depth, Real
<1> QED BY <1>1 DEF Reals

\* The mark word is of one of four kinds.
LEMMA MarkCases ==
  ASSUME Typing
  PROVE  \/ mark \in Neutrals /\ mark.kind = "neutral"
         \/ mark = INFLATING /\ mark.kind = "inflating"
         \/ mark.kind = "stack" /\ mark.thread \in Threads /\ mark = Stack(mark.thread, 1)
         \/ mark.kind = "inflated" /\ mark.monitor \in Monitors /\ mark = Inflated(mark.monitor)
BY MarkFacts DEF Typing, Marks, Neutrals

\* A step of t that changes neither what it has nor how many levels it has.
LEMMA SameLevels ==
  ASSUME Inv, NEW t \in Threads, Shape(t), \A m \in Monitors : CoreSame(om'[m], om[m]),
         UNCHANGED <<mark, seen, free, gFreeList, blocks>>,
         \A u \in Threads \ {t} : mon'[u] = mon[u] /\ held'[u] = held[u] /\ boxes'[u] = boxes[u],
         Has(t)' <=> Has(t), InEnterI(t)' <=> InEnterI(t), Control(t)', Depths(t)',
         Reals(t)' = Reals(t), StackOwner(t) => boxes'[t][1] = boxes[t][1],
         loc'[t].inwait = loc[t].inwait, loc'[t].save = loc[t].save, pc[t] \notin Preparing, pc'[t] \notin Preparing \cup {"omAlloc"},
         pc'[t] \notin Outside => mark = Inflated(mon'[t]),
         Unboxed(t)' => Unboxed(t) \/ ~om[mark.monitor].box
  PROVE  ThreadInv' /\ OwnerInv' /\ InflateInv' /\ MonitorInv' /\ UseInv' /\ PoolInv'
<1>1. \A u \in Threads :
         /\ (Has(u)' <=> Has(u)) /\ (InEnterI(u)' <=> InEnterI(u))
         /\ Control(u)' /\ Depths(u)' /\ Reals(u)' = Reals(u)
         /\ loc'[u].inwait = loc[u].inwait /\ loc'[u].save = loc[u].save
  <2> SUFFICES ASSUME NEW u \in Threads
               PROVE  /\ (Has(u)' <=> Has(u)) /\ (InEnterI(u)' <=> InEnterI(u))
                      /\ Control(u)' /\ Depths(u)' /\ Reals(u)' = Reals(u)
                      /\ loc'[u].inwait = loc[u].inwait /\ loc'[u].save = loc[u].save
    OBVIOUS
  <2>1. CASE u = t
    BY <2>1
  <2>2. CASE u # t
    <3>1. pc'[u] = pc[u] /\ loc'[u] = loc[u] /\ held'[u] = held[u] /\ boxes'[u] = boxes[u]
      BY <2>2 DEF Shape
    <3> QED BY <3>1, Unmoved DEF Inv, ThreadInv
  <2> QED BY <2>1, <2>2
<1>2. \A u \in Threads : /\ Inflater(u)' <=> Inflater(u)
                         /\ pc'[u] \in Preparing <=> pc[u] \in Preparing
                         /\ pc[u] \in Preparing => pc'[u] = pc[u] /\ mon'[u] = mon[u]
  BY DEF Shape, Inflater, Preparing
<1>20. \A u \in Threads : pc'[u] = "omAlloc" => pc[u] = "omAlloc"
  BY DEF Shape
<1>21. \A u \in Threads : Unboxed(u)' => Unboxed(u) \/ ~om[mark.monitor].box
  <2> SUFFICES ASSUME NEW u \in Threads, u # t, Unboxed(u)' PROVE Unboxed(u)
    OBVIOUS
  <2> QED BY Unmoved DEF Shape
<1>3. \A u \in Threads : (StackOwner(u)' <=> StackOwner(u)) /\ (MonitorOwner(u)' <=> MonitorOwner(u))
  BY <1>2, MarkCases DEF StackOwner, MonitorOwner, CoreSame, Inv
<1>4. OwnerInv'
  BY <1>1, <1>3 DEF OwnerInv, Inv
<1>5. ASSUME NEW u \in Threads PROVE Counted(u)'
  <2>1. Counted(u) BY DEF Inv, ThreadInv
  <2>2. mark.kind = "inflated" => CoreSame(om'[mark.monitor], om[mark.monitor])
    BY MarkCases DEF Inv
  <2> QED BY <1>1, <1>21, <1>3, <2>1, <2>2, MarkCases DEF Counted, CoreSame, MonitorOwner
<1>6. ThreadInv'
  BY <1>1, <1>5 DEF ThreadInv
<1>8. InflateInv'
  <2>1. \A u \in Threads : pc[u] \in Preparing => mon[u] \in Monitors
    BY MonitorsAssumption DEF Inv, PoolInv, Placed, Typing
  <2>0. \A u \in Threads : pc[u] = "inflate_publish" =>
                                boxes'[seen[u].thread][1] = boxes[seen[u].thread][1]
    <3> SUFFICES ASSUME NEW u \in Threads, pc[u] = "inflate_publish"
                 PROVE  boxes'[seen[u].thread][1] = boxes[seen[u].thread][1]
      OBVIOUS
    <3>1. PICK v \in Threads : seen[u] = Stack(v, 1)
      BY DEF InflateInv, Inv
    <3>2. seen[u].thread = v /\ Inflater(u)
      BY <3>1, MarkFacts DEF Inflater
    <3> QED
      BY <3>2 DEF StackOwner
  <2>2. ASSUME NEW u \in Threads
        PROVE  /\ pc'[u] \in {"omAlloc", "inflate_stack", "inflate_neutral"} =>
                    seen'[u] \in Neutrals \cup {Stack(v, 1) : v \in Threads}
               /\ pc'[u] \in {"inflate_stack", "inflate_dmw", "inflate_publish"} =>
                    \E v \in Threads : seen'[u] = Stack(v, 1)
               /\ pc'[u] = "inflate_neutral" => /\ seen'[u] \in Neutrals
                                                /\ om'[mon'[u]].header = seen'[u]
               /\ pc'[u] = "inflate_publish" => /\ om'[mon'[u]].header = boxes'[seen'[u].thread][1]
                                                /\ om'[mon'[u]].owner = seen'[u].thread
    BY <1>2, <1>20, <2>0, <2>1 DEF InflateInv, Inv, CoreSame, Preparing
  <2> QED BY <1>2, <2>2 DEF InflateInv, Inv
<1>9. MonitorInv'
  <2>1. /\ {u \in Threads : InEnterI(u)}' = {u \in Threads : InEnterI(u)}
        /\ {u \in Threads : loc[u].inwait}' = {u \in Threads : loc[u].inwait}
    BY <1>1
  <2> SUFFICES ASSUME NEW m \in Monitors PROVE MonitorOK(m)'
    BY DEF MonitorInv
  <2>2. MonitorOK(m) /\ CoreSame(om'[m], om[m])
    BY DEF MonitorInv, Inv
  <2>3. \A u \in Threads, l \in Preparing : pc'[u] = l /\ mon'[u] = m <=> pc[u] = l /\ mon[u] = m
    BY <1>2
  <2> QED BY <2>1, <2>2, <2>3, ZenonT(40) DEF MonitorOK, CoreSame, Preparing
<1>10. UseInv'
  BY DEF UseInv, Inv, Shape
<1>11. PoolInv'
  BY <1>2 DEF PoolInv, Placed, Inv
<1> QED BY <1>4, <1>6, <1>8, <1>9, <1>10, <1>11

\* A quiet step of t, the header aside.
LEMMA QuietRest ==
  ASSUME Inv, NEW t \in Threads, Shape(t), \A m \in Monitors : CoreSame(om'[m], om[m]),
         UNCHANGED <<mark, boxes, held, seen, free, gFreeList, blocks>>,
         \A u \in Threads \ {t} : mon'[u] = mon[u],
         Quiet(t), pc[t] \notin Preparing, pc'[t] \notin Preparing \cup {"omAlloc"},
         pc'[t] \notin Outside => mark = Inflated(mon'[t]),
         Unboxed(t)' => Unboxed(t) \/ ~om[mark.monitor].box
  PROVE  ThreadInv' /\ OwnerInv' /\ InflateInv' /\ MonitorInv' /\ UseInv' /\ PoolInv'
<1>1. Reals(t)' = Reals(t)
  BY RealsSame DEF Quiet
<1> QED
  BY <1>1, SameLevels DEF Quiet

\* A quiet step of t: no lock is taken or dropped, no count changes.
LEMMA QuietKeeps ==
  ASSUME Inv, NEW t \in Threads, Shape(t), \A m \in Monitors : CoreSame(om'[m], om[m]),
         UNCHANGED <<mark, boxes, held, seen, free, gFreeList, blocks, hashes>>,
         \A u \in Threads \ {t} : mon'[u] = mon[u],
         Quiet(t), pc[t] \notin Preparing, pc'[t] \notin Preparing \cup {"omAlloc"},
         pc'[t] \notin Outside => mark = Inflated(mon'[t]),
         Unboxed(t)' => Unboxed(t) \/ ~om[mark.monitor].box
  PROVE  ThreadInv' /\ OwnerInv' /\ HeaderInv' /\ InflateInv' /\ MonitorInv' /\ UseInv' /\ PoolInv'
<1>1. \A u \in Threads : Inflater(u)' <=> Inflater(u)
  BY DEF Shape, Inflater, Preparing
<1>2. HeaderInv'
  BY <1>1, MarkCases DEF HeaderInv, Inv, CoreSame, Agrees
<1> QED
  BY <1>2, QuietRest

\* A step of t on the monitor of the object, the header aside: what has to be
\* shown of t and of the monitor.
LEMMA MonitorRest ==
  ASSUME Inv, NEW t \in Threads, NEW m \in Monitors, mark = Inflated(m), Shape(t),
         \A x \in Monitors \ {m} : CoreSame(om'[x], om[x]),
         om'[m].object = om[m].object,
         UNCHANGED <<mark, boxes, held, seen, free, gFreeList, blocks>>,
         \A u \in Threads \ {t} : mon'[u] = mon[u],
         pc[t] \notin Preparing, pc'[t] \notin Preparing \cup {"omAlloc"},
         pc'[t] \notin Outside => mark = Inflated(mon'[t]),
         Control(t)', Depths(t)', Counted(t)', MonitorOK(m)',
         Has(t)' <=> om'[m].owner = t,
         \A u \in Threads \ {t} : om'[m].owner = u <=> om[m].owner = u,
         om[m].owner \notin {t, None} => om'[m].recursions = om[m].recursions /\ om'[m].box = om[m].box
  PROVE  ThreadInv' /\ OwnerInv' /\ InflateInv' /\ MonitorInv' /\ UseInv' /\ PoolInv'
<1>1. \A u \in Threads \ {t} :
         /\ (Has(u)' <=> Has(u)) /\ (InEnterI(u)' <=> InEnterI(u))
         /\ Control(u)' /\ Depths(u)' /\ Reals(u)' = Reals(u) /\ (Unboxed(u)' <=> Unboxed(u))
         /\ loc'[u].inwait = loc[u].inwait /\ loc'[u].save = loc[u].save
  <2> SUFFICES ASSUME NEW u \in Threads \ {t}
               PROVE  /\ (Has(u)' <=> Has(u)) /\ (InEnterI(u)' <=> InEnterI(u))
                      /\ Control(u)' /\ Depths(u)' /\ Reals(u)' = Reals(u)
                      /\ (Unboxed(u)' <=> Unboxed(u))
                      /\ loc'[u].inwait = loc[u].inwait /\ loc'[u].save = loc[u].save
    OBVIOUS
  <2>1. pc'[u] = pc[u] /\ loc'[u] = loc[u] /\ held'[u] = held[u] /\ boxes'[u] = boxes[u]
    BY DEF Shape
  <2> QED BY <2>1, Unmoved DEF Inv, ThreadInv
<1>2. \A u \in Threads : /\ Inflater(u)' <=> Inflater(u)
                         /\ pc'[u] \in Preparing <=> pc[u] \in Preparing
                         /\ pc[u] \in Preparing => pc'[u] = pc[u] /\ mon'[u] = mon[u]
  BY DEF Shape, Inflater, Preparing
<1>3. \A u \in Threads : pc'[u] = "omAlloc" => pc[u] = "omAlloc"
  BY DEF Shape
<1>4. mark.kind = "inflated" /\ mark.monitor = m /\ mark # INFLATING
  BY MarkFacts
<1>5. \A u \in Threads : ~Inflater(u) /\ ~Inflater(u)' /\ ~StackOwner(u) /\ ~StackOwner(u)'
  BY <1>2, <1>4 DEF Inv, InflateInv, StackOwner
<1>6. \A u \in Threads : /\ MonitorOwner(u) <=> om[m].owner = u
                         /\ MonitorOwner(u)' <=> om'[m].owner = u
  BY <1>4 DEF MonitorOwner
<1>7. OwnerInv'
  BY <1>1, <1>5, <1>6 DEF OwnerInv, Inv
<1>8. ASSUME NEW u \in Threads \ {t} PROVE Counted(u)'
  <2>1. Counted(u) BY DEF Inv, ThreadInv
  <2>2. om'[m].owner = u => om[m].owner \notin {t, None} BY ThreadsAssumption
  <2> QED BY <1>1, <1>4, <1>5, <1>6, <2>1, <2>2 DEF Counted
<1>9. ThreadInv'
  BY <1>1, <1>8 DEF ThreadInv
<1>11. InflateInv'
  <2>1. \A u \in Threads : pc[u] \in Preparing => mon[u] \in Monitors \ {m}
    BY MonitorsAssumption DEF Inv, PoolInv, Placed, Typing
  <2>2. ASSUME NEW u \in Threads
        PROVE  /\ pc'[u] \in {"omAlloc", "inflate_stack", "inflate_neutral"} =>
                    seen'[u] \in Neutrals \cup {Stack(v, 1) : v \in Threads}
               /\ pc'[u] \in {"inflate_stack", "inflate_dmw", "inflate_publish"} =>
                    \E v \in Threads : seen'[u] = Stack(v, 1)
               /\ pc'[u] = "inflate_neutral" => /\ seen'[u] \in Neutrals
                                                /\ om'[mon'[u]].header = seen'[u]
               /\ pc'[u] = "inflate_publish" => /\ om'[mon'[u]].header = boxes'[seen'[u].thread][1]
                                                /\ om'[mon'[u]].owner = seen'[u].thread
    BY <1>2, <1>3, <2>1 DEF InflateInv, Inv, CoreSame, Preparing
  <2> QED BY <1>4, <1>5, <2>2 DEF InflateInv
<1>12. MonitorInv'
  <2> SUFFICES ASSUME NEW x \in Monitors \ {m} PROVE MonitorOK(x)'
    BY DEF MonitorInv
  <2>1. mark # Inflated(x) /\ mark' # Inflated(x) BY <1>4, MarkFacts
  <2>2. MonitorOK(x) /\ CoreSame(om'[x], om[x])
    BY DEF MonitorInv, Inv
  <2>3. \A u \in Threads, l \in Preparing : pc'[u] = l /\ mon'[u] = x <=> pc[u] = l /\ mon[u] = x
    BY <1>2
  <2> QED BY <2>1, <2>2, <2>3, ZenonT(40) DEF MonitorOK, CoreSame, Preparing
<1>13. UseInv'
  BY DEF UseInv, Inv, Shape
<1>14. PoolInv'
  BY <1>2 DEF PoolInv, Placed, Inv
<1> QED BY <1>7, <1>9, <1>11, <1>12, <1>13, <1>14

\* The same, for a step that leaves the header alone.
LEMMA MonitorKeeps ==
  ASSUME Inv, NEW t \in Threads, NEW m \in Monitors, mark = Inflated(m), Shape(t),
         \A x \in Monitors \ {m} : CoreSame(om'[x], om[x]),
         om'[m].header = om[m].header, om'[m].object = om[m].object,
         UNCHANGED <<mark, boxes, held, seen, free, gFreeList, blocks, hashes>>,
         \A u \in Threads \ {t} : mon'[u] = mon[u],
         pc[t] \notin Preparing, pc'[t] \notin Preparing \cup {"omAlloc"},
         pc'[t] \notin Outside => mark = Inflated(mon'[t]),
         Control(t)', Depths(t)', Counted(t)', MonitorOK(m)',
         Has(t)' <=> om'[m].owner = t,
         \A u \in Threads \ {t} : om'[m].owner = u <=> om[m].owner = u,
         om[m].owner \notin {t, None} => om'[m].recursions = om[m].recursions /\ om'[m].box = om[m].box
  PROVE  ThreadInv' /\ OwnerInv' /\ HeaderInv' /\ InflateInv' /\ MonitorInv' /\ UseInv' /\ PoolInv'
<1>1. \A u \in Threads : ~Inflater(u) /\ ~Inflater(u)'
  <2>1. mark # INFLATING
    BY MarkFacts
  <2>2. \A u \in Threads : ~Inflater(u)
    BY <2>1 DEF Inv, InflateInv
  <2> QED
    BY <2>2 DEF Inflater, Shape, Preparing
<1>2. HeaderInv'
  BY <1>1, MarkFacts DEF HeaderInv, Inv, Agrees
<1> QED
  BY <1>2, MonitorRest

-----------------------------------------------------------------------------
(* The lock is taken and dropped *)

\* The sets that _count and _waiters count.
LEMMA CountsSame ==
  ASSUME NEW t \in Threads, Shape(t), held' = held, boxes' = boxes,
         InEnterI(t)' <=> InEnterI(t), loc'[t].inwait = loc[t].inwait
  PROVE  /\ {u \in Threads : InEnterI(u)}' = {u \in Threads : InEnterI(u)}
         /\ {u \in Threads : loc[u].inwait}' = {u \in Threads : loc[u].inwait}
<1>1. \A u \in Threads : (InEnterI(u)' <=> InEnterI(u)) /\ loc'[u].inwait = loc[u].inwait
  BY Unmoved DEF Shape
<1> QED BY <1>1

\* The levels of a thread in wait().
LEMMA WaitReals ==
  ASSUME NEW t, held'[t] = held[t], boxes'[t] = boxes[t], loc[t].inwait, loc'[t].inwait
  PROVE  Reals(t)' = Reals(t)
<1>1. ~Trying(t) /\ ~Trying(t)' /\ ~Extra(t) /\ ~Extra(t)'
  BY DEF Trying, Extra, Releasing
<1> QED BY <1>1, RealsSame

\* A thread with one lock that counts.
LEMMA OneLevel ==
  ASSUME NEW t, \/ Depth(t) = 1 /\ Real(t, 1) /\ ~Trying(t) /\ ~Extra(t)
                \/ Depth(t) = 0 /\ Extra(t) /\ ~Trying(t)
  PROVE  Reals(t) = {1}
BY DEF Reals, Top

\* t finds the owner word NULL and takes the monitor.
LEMMA AcquireKeeps ==
  ASSUME Inv, NEW t \in Threads, NEW m \in Monitors, mark = Inflated(m), Shape(t),
         \A x \in Monitors \ {m} : CoreSame(om'[x], om[x]),
         om[m].owner = None, CoreSame(om'[m], [om[m] EXCEPT !.owner = t]),
         UNCHANGED <<mark, boxes, held, seen, free, gFreeList, blocks, hashes, mon>>,
         pc[t] \notin Preparing, pc[t] \notin Outside, pc'[t] \notin Preparing \cup {"omAlloc"},
         Control(t)', Depths(t)', Has(t)', InEnterI(t)' <=> InEnterI(t),
         loc'[t].inwait = loc[t].inwait, loc'[t].save = loc[t].save,
         ~loc[t].inwait => \/ Depth(t) = 1 /\ Real(t, 1) /\ ~Trying(t)' /\ ~Extra(t)'
                           \/ Depth(t) = 0 /\ Extra(t)' /\ ~Trying(t)'
  PROVE  ThreadInv' /\ OwnerInv' /\ HeaderInv' /\ InflateInv' /\ MonitorInv' /\ UseInv' /\ PoolInv'
<1>1. /\ om'[m].owner = t /\ om'[m].box = om[m].box /\ om'[m].recursions = om[m].recursions
      /\ om'[m].count = om[m].count /\ om'[m].waiters = om[m].waiters
      /\ om'[m].header = om[m].header /\ om'[m].object = om[m].object
  BY DEF CoreSame, Inv, Typing, MonitorRec
<1>2. mark.kind = "inflated" /\ mark.monitor = m /\ mark # INFLATING
  BY MarkFacts
<1>3. om[m].recursions = 0 /\ ~om[m].box
  BY DEF Inv, MonitorInv, MonitorOK
<1>4. ~Inflater(t)' /\ ~StackOwner(t)'
  <2>1. \A u \in Threads : ~Inflater(u)
    BY <1>2 DEF Inv, InflateInv
  <2>2. \A u \in Threads : ~Inflater(u)'
    BY <2>1 DEF Inflater, Shape, Preparing
  <2> QED BY <2>2, <1>2 DEF StackOwner
<1>5. Counted(t)'
  <2>1. CASE loc[t].inwait
    <3>1. Reals(t)' = Reals(t) /\ loc'[t].inwait BY <2>1, WaitReals
    <3>2. Counted(t) BY DEF Inv, ThreadInv
    <3> QED BY <1>1, <1>2, <1>3, <1>4, <2>1, <3>1, <3>2 DEF Counted
  <2>2. CASE ~loc[t].inwait
    <3>1. (Depth(t)' = Depth(t)) /\ (Real(t, 1)' <=> Real(t, 1))
      BY DEF Depth, Real
    <3>2. Reals(t)' = {1}
      <4>1. (\/ Depth(t) = 1 /\ Real(t, 1) /\ ~Trying(t) /\ ~Extra(t)
             \/ Depth(t) = 0 /\ Extra(t) /\ ~Trying(t))'
        BY <2>2, <3>1
      <4> QED BY <4>1, <3>1 DEF Reals, Top
    <3>3. Cardinality({1}) = 1 BY FS_Singleton
    <3> QED BY <1>1, <1>2, <1>3, <1>4, <2>2, <3>2, <3>3 DEF Counted
  <2> QED BY <2>1, <2>2
<1>6. MonitorOK(m)'
  <2>1. MonitorOK(m) BY DEF Inv, MonitorInv
  <2> QED BY <1>1, <1>2, <1>3, <2>1, CountsSame, ThreadsAssumption DEF MonitorOK
<1>7. pc'[t] \notin Outside => mark = Inflated(mon'[t])
  BY DEF Inv, UseInv
<1> QED BY <1>1, <1>5, <1>6, <1>7, MonitorKeeps, ThreadsAssumption

\* t stores NULL into the owner word.
LEMMA ReleaseKeeps ==
  ASSUME Inv, NEW t \in Threads, NEW m \in Monitors, mark = Inflated(m), Shape(t),
         \A x \in Monitors \ {m} : CoreSame(om'[x], om[x]),
         CoreSame(om'[m], [om[m] EXCEPT !.owner = None]),
         UNCHANGED <<mark, boxes, held, seen, free, gFreeList, blocks, hashes, mon>>,
         pc[t] \notin Preparing, pc[t] \notin Outside, pc'[t] \notin Preparing \cup {"omAlloc"},
         Unboxed(t), Has(t), ~Has(t)', Control(t)', Depths(t)', InEnterI(t)' <=> InEnterI(t),
         loc'[t].inwait = loc[t].inwait, loc'[t].save = loc[t].save,
         ~loc[t].inwait => Depth(t) = 0 /\ Extra(t) /\ ~Trying(t)
  PROVE  ThreadInv' /\ OwnerInv' /\ HeaderInv' /\ InflateInv' /\ MonitorInv' /\ UseInv' /\ PoolInv'
<1>1. /\ om'[m].owner = None /\ om'[m].box = om[m].box /\ om'[m].recursions = om[m].recursions
      /\ om'[m].count = om[m].count /\ om'[m].waiters = om[m].waiters
      /\ om'[m].header = om[m].header /\ om'[m].object = om[m].object
  BY DEF CoreSame, Inv, Typing, MonitorRec
<1>2. mark.kind = "inflated" /\ mark.monitor = m /\ mark # INFLATING
  BY MarkFacts
<1>3. \A u \in Threads : ~Inflater(u)
  BY <1>2 DEF Inv, InflateInv
<1>4. ~StackOwner(t) /\ ~StackOwner(t)'
  <2>2. \A u \in Threads : ~Inflater(u)'
    BY <1>3 DEF Inflater, Shape, Preparing
  <2> QED BY <1>3, <2>2, <1>2 DEF StackOwner
<1>5. om[m].owner = t /\ MonitorOwner(t)
  BY <1>2, <1>4 DEF Inv, OwnerInv, MonitorOwner
<1>6. om[m].recursions = 0 /\ ~om[m].box
  <2>1. Counted(t) BY DEF Inv, ThreadInv
  <2>2. CASE loc[t].inwait BY <1>2, <1>5, <2>1, <2>2 DEF Counted
  <2>3. CASE ~loc[t].inwait
    <3>1. Reals(t) = {1} BY <2>3, OneLevel
    <3>2. Cardinality({1}) = 1 BY FS_Singleton
    <3>3. om[m].recursions \in Int BY DEF Inv, Typing, MonitorRec
    <3> QED BY <1>2, <1>5, <2>1, <2>3, <3>1, <3>2, <3>3 DEF Counted
  <2> QED BY <2>2, <2>3
<1>7. Counted(t)'
  <2>1. CASE loc[t].inwait
    <3>1. Reals(t)' = Reals(t) /\ loc'[t].inwait BY <2>1, WaitReals
    <3>2. Counted(t) BY DEF Inv, ThreadInv
    <3> QED BY <1>1, <1>2, <1>4, <2>1, <3>1, <3>2, ThreadsAssumption DEF Counted, MonitorOwner
  <2>2. CASE ~loc[t].inwait
    BY <1>1, <1>2, <1>4, <2>2, ThreadsAssumption DEF Counted, MonitorOwner
  <2> QED BY <2>1, <2>2
<1>8. MonitorOK(m)'
  <2>1. MonitorOK(m) BY DEF Inv, MonitorInv
  <2> QED BY <1>1, <1>2, <1>6, <2>1, CountsSame DEF MonitorOK
<1>9. pc'[t] \notin Outside => mark = Inflated(mon'[t])
  BY DEF Inv, UseInv
<1>10. Has(t)' <=> om'[m].owner = t
  BY <1>1, ThreadsAssumption
<1> QED BY <1>1, <1>5, <1>7, <1>8, <1>9, <1>10, MonitorKeeps, ThreadsAssumption

-----------------------------------------------------------------------------
(* Fields of monitors and locals, and the three kinds of steps *)

\* The fields of a monitor that concern its queues.
LEMMA ListFields ==
  ASSUME NEW r \in MonitorRec
  PROVE  /\ r.cxq \in Seq(NT) /\ r.EntryList \in Seq(NT) /\ r.WaitSet \in Seq(NT)
         /\ r.Responsible \in NT
BY DEF MonitorRec

\* The owner word has its type.
LEMMA OwnerField ==
  ASSUME NEW r \in MonitorRec, NEW x \in NT
  PROVE  [r EXCEPT !.owner = x] \in MonitorRec
BY DEF MonitorRec

\* The fields the proof looks at, unchanged.
LEMMA NoField ==
  ASSUME NEW r PROVE CoreSame(r, r)
BY DEF CoreSame

\* A store into _succ.
LEMMA SuccField ==
  ASSUME NEW r \in MonitorRec, NEW x \in NT
  PROVE  [r EXCEPT !.succ = x] \in MonitorRec /\ CoreSame([r EXCEPT !.succ = x], r)
BY DEF MonitorRec, CoreSame

\* A store into _Responsible.
LEMMA ResponsibleField ==
  ASSUME NEW r \in MonitorRec, NEW x \in NT
  PROVE  [r EXCEPT !.Responsible = x] \in MonitorRec /\ CoreSame([r EXCEPT !.Responsible = x], r)
BY DEF MonitorRec, CoreSame

\* The WaitSetLock is taken or dropped.
LEMMA WaitSetLockField ==
  ASSUME NEW r \in MonitorRec, NEW x \in NT
  PROVE  [r EXCEPT !.WaitSetLock = x] \in MonitorRec /\ CoreSame([r EXCEPT !.WaitSetLock = x], r)
BY DEF MonitorRec, CoreSame

\* A store into _cxq.
LEMMA CxqField ==
  ASSUME NEW r \in MonitorRec, NEW a \in Seq(NT)
  PROVE  [r EXCEPT !.cxq = a] \in MonitorRec /\ CoreSame([r EXCEPT !.cxq = a], r)
BY DEF MonitorRec, CoreSame

\* A store into _EntryList.
LEMMA EntryListField ==
  ASSUME NEW r \in MonitorRec, NEW a \in Seq(NT)
  PROVE  [r EXCEPT !.EntryList = a] \in MonitorRec /\ CoreSame([r EXCEPT !.EntryList = a], r)
BY DEF MonitorRec, CoreSame

\* A store into _WaitSet.
LEMMA WaitSetField ==
  ASSUME NEW r \in MonitorRec, NEW a \in Seq(NT)
  PROVE  [r EXCEPT !.WaitSet = a] \in MonitorRec /\ CoreSame([r EXCEPT !.WaitSet = a], r)
BY DEF MonitorRec, CoreSame

\* _cxq is moved to _EntryList.
LEMMA DrainFields ==
  ASSUME NEW r \in MonitorRec, NEW a \in Seq(NT), NEW b \in Seq(NT)
  PROVE  [r EXCEPT !.EntryList = a, !.cxq = b] \in MonitorRec /\ CoreSame([r EXCEPT !.EntryList = a, !.cxq = b], r)
BY DEF MonitorRec, CoreSame

\* A waiter leaves _WaitSet under the WaitSetLock.
LEMMA DequeueFields ==
  ASSUME NEW r \in MonitorRec, NEW a \in Seq(NT), NEW x \in NT
  PROVE  [r EXCEPT !.WaitSet = a, !.WaitSetLock = x] \in MonitorRec /\ CoreSame([r EXCEPT !.WaitSet = a, !.WaitSetLock = x], r)
BY DEF MonitorRec, CoreSame

\* A notified waiter goes to _EntryList.
LEMMA LinkEntryFields ==
  ASSUME NEW r \in MonitorRec, NEW a \in Seq(NT), NEW x \in NT
  PROVE  [r EXCEPT !.EntryList = a, !.WaitSetLock = x] \in MonitorRec /\ CoreSame([r EXCEPT !.EntryList = a, !.WaitSetLock = x], r)
BY DEF MonitorRec, CoreSame

\* A notified waiter goes to _cxq.
LEMMA LinkCxqFields ==
  ASSUME NEW r \in MonitorRec, NEW a \in Seq(NT), NEW x \in NT
  PROVE  [r EXCEPT !.cxq = a, !.WaitSetLock = x] \in MonitorRec /\ CoreSame([r EXCEPT !.cxq = a, !.WaitSetLock = x], r)
BY DEF MonitorRec, CoreSame

\* The operations on the lists of a monitor keep their type.
LEMMA Lists ==
  ASSUME NEW s \in Seq(NT), NEW x \in NT
  PROVE  /\ First(s) \in NT /\ <<x>> \o s \in Seq(NT) /\ <<>> \in Seq(NT) /\ <<x>> \in Seq(NT)
         /\ s # <<>> => Tail(s) \in Seq(NT)
         /\ Without(s, x) \in Seq(NT)
<1>1. First(s) \in NT
  BY DEF First, NT
<1>2. Without(s, x) \in Seq(NT)
  <2> DEFINE k == CHOOSE i \in 1..Len(s) : s[i] = x
  <2>1. CASE \E i \in 1..Len(s) : s[i] = x
    <3>1. k \in 1..Len(s) /\ Len(s) \in Nat
      BY <2>1
    <3> HIDE DEF k
    <3>2. \A i \in 1..Len(s) - 1 : (IF i < k THEN s[i] ELSE s[i + 1]) \in NT
      BY <3>1
    <3>3. [i \in 1..Len(s) - 1 |-> IF i < k THEN s[i] ELSE s[i + 1]] \in Seq(NT)
      BY <3>1, <3>2
    <3> QED
      BY <2>1, <3>3 DEF Without, k
  <2>2. CASE ~\E i \in 1..Len(s) : s[i] = x
    BY <2>2 DEF Without
  <2> QED
    BY <2>1, <2>2
<1> QED
  BY <1>1, <1>2

\* The locals that concern the control.
LEMMA SpinLoc ==
  ASSUME NEW r \in LocRec, NEW s \in {None, "enter", "EnterI", "woken", "reenter"}
  PROVE  LET k == [r EXCEPT !.spin = s] IN
         k \in LocRec /\ k.inwait = r.inwait /\ k.save = r.save /\ k.spin = s /\ k.then = r.then
BY DEF LocRec

\* The end of a spin that has yet to clear _succ.
LEMMA SpinThenLoc ==
  ASSUME NEW r \in LocRec, NEW l \in Labels
  PROVE  LET k == [r EXCEPT !.spin = None, !.then = l] IN
         k \in LocRec /\ k.inwait = r.inwait /\ k.save = r.save /\ k.spin = None /\ k.then = l
BY DEF LocRec

\* The label to return to.
LEMMA ThenLoc ==
  ASSUME NEW r \in LocRec, NEW l \in Labels \cup {None}
  PROVE  LET k == [r EXCEPT !.then = l] IN
         k \in LocRec /\ k.inwait = r.inwait /\ k.save = r.save /\ k.spin = r.spin /\ k.then = l
BY DEF LocRec

\* The head of _cxq that was read.
LEMMA NxtLoc ==
  ASSUME NEW r \in LocRec, NEW x \in NT
  PROVE  LET k == [r EXCEPT !.nxt = x] IN
         k \in LocRec /\ k.inwait = r.inwait /\ k.save = r.save /\ k.spin = r.spin /\ k.then = r.then
BY DEF LocRec

\* The thread chosen to be woken.
LEMMA WLoc ==
  ASSUME NEW r \in LocRec, NEW x \in NT
  PROVE  LET k == [r EXCEPT !.w = x] IN
         k \in LocRec /\ k.inwait = r.inwait /\ k.save = r.save /\ k.spin = r.spin /\ k.then = r.then
BY DEF LocRec

\* The thread to interrupt.
LEMMA TargetLoc ==
  ASSUME NEW r \in LocRec, NEW x \in NT
  PROVE  LET k == [r EXCEPT !.target = x] IN
         k \in LocRec /\ k.inwait = r.inwait /\ k.save = r.save /\ k.spin = r.spin /\ k.then = r.then
BY DEF LocRec

\* WasNotified of wait().
LEMMA NotifiedLoc ==
  ASSUME NEW r \in LocRec, NEW n \in Int
  PROVE  LET k == [r EXCEPT !.wasNotified = n] IN
         k \in LocRec /\ k.inwait = r.inwait /\ k.save = r.save /\ k.spin = r.spin /\ k.then = r.then
BY DEF LocRec

\* A thread that works on the monitor of the object.
LEMMA AtMonitor ==
  ASSUME Inv, NEW t \in Threads, pc[t] \notin Outside
  PROVE  /\ mon[t] \in Monitors /\ mark = Inflated(mon[t])
         /\ om[mon[t]] \in MonitorRec /\ loc[t] \in LocRec
         /\ Control(t) /\ Depths(t) /\ Depth(t) \in Nat
         /\ (Has(t) <=> om[mon[t]].owner = t)
<1>1. mark = Inflated(mon[t]) BY DEF Inv, UseInv
<1>2. mon[t] \in Monitors /\ mark.kind = "inflated" /\ mark.monitor = mon[t] /\ mark # INFLATING
  BY <1>1, MarkCases, MarkFacts DEF Inv
<1>3. ~StackOwner(t) BY <1>2 DEF StackOwner, Inv, InflateInv
<1>4. Has(t) <=> om[mon[t]].owner = t BY <1>2, <1>3 DEF Inv, OwnerInv, MonitorOwner
<1>5. Depth(t) \in Nat BY DEF Inv, Typing, Depth
<1> QED BY <1>1, <1>2, <1>4, <1>5 DEF Inv, Typing, ThreadInv

\* A step of t on its monitor keeps the types.
LEMMA TypingKeeps ==
  ASSUME Typing, UNCHANGED objectVars, mon' = mon, NEW t, Shape(t)
  PROVE  Typing'
BY DEF Typing, objectVars, Shape

\* A step of t on its monitor.
Moves(t, l, q, k) ==
  /\ pc' = [pc EXCEPT ![t] = l]
  /\ om' = [om EXCEPT ![mon[t]] = q]
  /\ loc' = [loc EXCEPT ![t] = k]
  /\ node' \in [Threads -> NodeRec]
  /\ UNCHANGED <<mon, objectVars>>

\* Moves writes the monitor, the label and the locals of t and nothing else.
LEMMA MovesShape ==
  ASSUME Inv, NEW t \in Threads, pc[t] \notin Outside, NEW l \in Labels, NEW q \in MonitorRec,
         NEW k \in LocRec, Moves(t, l, q, k)
  PROVE  /\ Shape(t) /\ Typing' /\ pc'[t] = l /\ loc'[t] = k /\ om'[mon[t]] = q
         /\ \A m \in Monitors \ {mon[t]} : CoreSame(om'[m], om[m])
<1>1. /\ om' \in [Monitors -> MonitorRec] /\ loc' \in [Threads -> LocRec]
      /\ pc' \in [Threads -> Labels] /\ node' \in [Threads -> NodeRec]
      /\ \A u \in Threads \ {t} : pc'[u] = pc[u] /\ loc'[u] = loc[u]
      /\ pc'[t] = l /\ loc'[t] = k /\ om'[mon[t]] = q
      /\ \A m \in Monitors \ {mon[t]} : om'[m] = om[m]
  BY AtMonitor DEF Moves, Inv, Typing
<1> QED BY <1>1, TypingKeeps DEF Shape, Moves, CoreSame, Inv

\* A step inside the monitor that neither takes nor drops it.
LEMMA QuietStep ==
  ASSUME Inv, NEW t \in Threads, pc[t] \notin Outside, NEW l \in Labels \ Inflation,
         NEW q \in MonitorRec, NEW k \in LocRec, Moves(t, l, q, k),
         CoreSame(q, om[mon[t]]), Quiet(t),
         Unboxed(t)' => Unboxed(t) \/ ~om[mon[t]].box
  PROVE  Inv'
<1>1. /\ Shape(t) /\ Typing' /\ pc'[t] = l
      /\ \A m \in Monitors : CoreSame(om'[m], om[m])
  BY MovesShape
<1>2. mark = Inflated(mon[t]) /\ mark.monitor = mon[t] BY AtMonitor, MarkFacts
<1>3. pc[t] \notin Preparing /\ pc'[t] \notin Preparing \cup {"omAlloc"}
  BY <1>1 DEF Outside, Preparing, Inflation
<1>4. UNCHANGED <<mark, boxes, held, seen, free, gFreeList, blocks, hashes, mon>>
  BY DEF Moves, objectVars
<1> QED BY <1>1, <1>2, <1>3, <1>4, QuietKeeps DEF Inv

\* A step inside the monitor that takes it.
LEMMA AcquireStep ==
  ASSUME Inv, NEW t \in Threads, pc[t] \notin Outside, NEW l \in Labels \ Inflation,
         NEW k \in LocRec, Moves(t, l, [om[mon[t]] EXCEPT !.owner = t], k),
         om[mon[t]].owner = None,
         Control(t)', Depths(t)', Has(t)', InEnterI(t)' <=> InEnterI(t),
         k.inwait = loc[t].inwait, k.save = loc[t].save,
         ~loc[t].inwait => \/ Depth(t) = 1 /\ Real(t, 1) /\ ~Trying(t)' /\ ~Extra(t)'
                           \/ Depth(t) = 0 /\ Extra(t)' /\ ~Trying(t)'
  PROVE  Inv'
<1> DEFINE q == [om[mon[t]] EXCEPT !.owner = t]
<1>1. q \in MonitorRec /\ CoreSame(q, q)
  BY AtMonitor, OwnerField, NoField DEF NT
<1>2. /\ Shape(t) /\ Typing' /\ pc'[t] = l /\ loc'[t] = k /\ om'[mon[t]] = q
      /\ \A m \in Monitors \ {mon[t]} : CoreSame(om'[m], om[m])
  BY <1>1, MovesShape
<1>3. mark = Inflated(mon[t]) /\ mon[t] \in Monitors BY AtMonitor
<1>4. pc[t] \notin Preparing /\ pc'[t] \notin Preparing \cup {"omAlloc"}
  BY <1>2 DEF Outside, Preparing, Inflation
<1>5. UNCHANGED <<mark, boxes, held, seen, free, gFreeList, blocks, hashes, mon>>
  BY DEF Moves, objectVars
<1>6. CoreSame(om'[mon[t]], q) BY <1>1, <1>2
<1> QED BY <1>2, <1>3, <1>4, <1>5, <1>6, AcquireKeeps DEF Inv

\* A step inside the monitor that drops it.
LEMMA ReleaseStep ==
  ASSUME Inv, NEW t \in Threads, pc[t] \notin Outside, NEW l \in Labels \ Inflation,
         Moves(t, l, [om[mon[t]] EXCEPT !.owner = None], loc[t]),
         Unboxed(t), Has(t), ~Has(t)', Control(t)', Depths(t)', InEnterI(t)' <=> InEnterI(t),
         ~loc[t].inwait => Depth(t) = 0 /\ Extra(t) /\ ~Trying(t)
  PROVE  Inv'
<1> DEFINE q == [om[mon[t]] EXCEPT !.owner = None]
<1>1. q \in MonitorRec /\ CoreSame(q, q) /\ loc[t] \in LocRec
  BY AtMonitor, OwnerField, NoField DEF NT
<1>2. /\ Shape(t) /\ Typing' /\ pc'[t] = l /\ loc'[t] = loc[t] /\ om'[mon[t]] = q
      /\ \A m \in Monitors \ {mon[t]} : CoreSame(om'[m], om[m])
  BY <1>1, MovesShape
<1>3. mark = Inflated(mon[t]) /\ mon[t] \in Monitors BY AtMonitor
<1>4. pc[t] \notin Preparing /\ pc'[t] \notin Preparing \cup {"omAlloc"}
  BY <1>2 DEF Outside, Preparing, Inflation
<1>5. UNCHANGED <<mark, boxes, held, seen, free, gFreeList, blocks, hashes, mon>>
  BY DEF Moves, objectVars
<1>6. CoreSame(om'[mon[t]], q) BY <1>1, <1>2
<1> QED BY <1>2, <1>3, <1>4, <1>5, <1>6, ReleaseKeeps DEF Inv

\* The thread chosen to be woken is one.
LEMMA LocW ==
  ASSUME NEW r \in LocRec PROVE r.w \in NT
BY DEF LocRec

\* _notified is a number.
LEMMA NodeNotified ==
  ASSUME Inv, NEW t \in Threads PROVE node[t].notified \in Int
BY DEF Inv, Typing, NodeRec

\* A store into TState.
LEMMA NodeState ==
  ASSUME Inv, NEW w, NEW x \in {"RUN", "CXQ", "ENTER", "WAIT"}
  PROVE  [node EXCEPT ![w].TState = x] \in [Threads -> NodeRec]
<1>1. \A r \in NodeRec : [r EXCEPT !.TState = x] \in NodeRec
  BY DEF NodeRec
<1>2. [node EXCEPT ![w].TState = x] = [node EXCEPT ![w] = [node[w] EXCEPT !.TState = x]]
  OBVIOUS
<1> QED
  BY <1>1, <1>2 DEF Inv, Typing

\* A store into _notified.
LEMMA NodeNotify ==
  ASSUME Inv, NEW w
  PROVE  [node EXCEPT ![w].notified = 1] \in [Threads -> NodeRec]
<1>1. \A r \in NodeRec : [r EXCEPT !.notified = 1] \in NodeRec
  BY DEF NodeRec
<1>2. [node EXCEPT ![w].notified = 1] = [node EXCEPT ![w] = [node[w] EXCEPT !.notified = 1]]
  OBVIOUS
<1> QED
  BY <1>1, <1>2 DEF Inv, Typing

\* UnlinkAfterAcquire changes a list only.
LEMMA UnlinkedFields ==
  ASSUME NEW t \in Threads, om[mon[t]] \in MonitorRec
  PROVE  Unlinked(t) \in MonitorRec /\ CoreSame(Unlinked(t), om[mon[t]])
<1>1. t \in NT BY DEF NT
<1>2. CASE node[t].TState = "ENTER"
  BY <1>1, <1>2, EntryListField, ListFields, Lists DEF Unlinked, this
<1>3. CASE node[t].TState # "ENTER"
  BY <1>1, <1>3, CxqField, ListFields, Lists DEF Unlinked, this
<1> QED BY <1>2, <1>3

\* The labels outside of inflate(), by class.
LEMMA LabelSets ==
  ASSUME NEW l PROVE l \in Labels \ Inflation <=> l \in Spinning \cup Plain \cup Acquiring \cup Contending \cup Entering
            \cup Unlocking \cup Exiting \cup Released \cup Unlocked \cup Waiting
            \cup Reentered \cup {"clearing"}
BY DEF Labels, Spinning, Preparing, Inflation, Owned, Plain, Acquiring, Contending, Entering,
   Last_unlock, Unlocking, Last_exit, Exiting, Released, Unlocked, Waiting, Reentered

\* Where a spin leads, by the place it was called from.
LEMMA SpinTargets ==
  ASSUME NEW t \in Threads, loc[t] \in LocRec, Control(t), pc[t] \in Spinning
  PROVE  /\ SpinGot(t) \in {"java", "wait_reentered", "entered", "egress", "reegress"}
         /\ SpinGot(t) \in Labels
         /\ (SpinGot(t) = "java" => ~loc[t].inwait)
         /\ (SpinGot(t) \in {"wait_reentered", "reegress"} => loc[t].inwait)
         /\ (SpinGot(t) \in {"entered", "egress"} <=> loc[t].spin \in {"EnterI", "woken"})
         /\ SpinFailed(t) \in {"EnterI", "enqueue", "futile", "repark"}
         /\ (SpinFailed(t) = "repark" => loc[t].inwait)
         /\ (SpinFailed(t) \in {"enqueue", "futile"} <=> loc[t].spin \in {"EnterI", "woken"})
<1>1. loc[t].spin \in {"enter", "EnterI", "woken", "reenter"} /\ (loc[t].spin = "reenter" => loc[t].inwait)
  BY DEF Control, LocRec
<1>2. SpinGot(t) \in {"java", "wait_reentered", "entered", "egress", "reegress"}
  BY <1>1 DEF SpinGot, EnterReturn
<1>3. SpinGot(t) \in Labels
  BY <1>2 DEF Labels, Plain, Reentered, Entering
<1> QED
  BY <1>1, <1>2, <1>3 DEF SpinGot, SpinFailed, EnterReturn

\* A thread that enters and does not own the monitor enters it for the first time.
LEMMA EnterDepth ==
  ASSUME NEW t \in Threads, pc[t] = "enter", Depths(t), Depth(t) \in Nat, ~Has(t), ~loc[t].inwait
  PROVE  Depth(t) = 1 /\ Real(t, 1)
<1>1. Where(t) = "enter"
  BY DEF Where, Inflation, Preparing
<1>2. Trying(t)
  BY <1>1 DEF Trying, Acquiring
<1>3. ~(Top(t) > 0)
  BY <1>1 DEF Has, Acquiring
<1>4. Depth(t) > 0 /\ Real(t, Depth(t))
  BY <1>1, <1>2 DEF Depths
<1>5. Depth(t) = 1
  BY <1>2, <1>3, <1>4 DEF Top
<1> QED
  BY <1>4, <1>5

USE DEF Spinning, Preparing, Inflation, Owned, Plain, Acquiring, Contending, Entering,
        Last_unlock, Unlocking, Last_exit, Exiting, Released, Unlocked, Waiting, Reentered

-----------------------------------------------------------------------------
(* TrySpin *)

\* TrySpin: the first tries, then the spin proper or none.
LEMMA Spin_tryKeeps ==
  ASSUME Inv, NEW t \in Threads, Spin_try(t), UNCHANGED objectVars
  PROVE  Inv'
<1>1. pc[t] = "spin" /\ pc[t] \notin Outside
  BY DEF Spin_try, Outside, this
<1>2. /\ mon[t] \in Monitors /\ om[mon[t]] \in MonitorRec /\ loc[t] \in LocRec
      /\ Control(t) /\ Depths(t) /\ Depth(t) \in Nat /\ (Has(t) <=> om[mon[t]].owner = t)
  BY <1>1, AtMonitor
<1>3. /\ SpinGot(t) \in {"java", "wait_reentered", "entered", "egress", "reegress"}
      /\ SpinGot(t) \in Labels /\ (SpinGot(t) = "java" => ~loc[t].inwait)
      /\ (SpinGot(t) \in {"wait_reentered", "reegress"} => loc[t].inwait)
      /\ (SpinGot(t) \in {"entered", "egress"} <=> loc[t].spin \in {"EnterI", "woken"})
      /\ SpinFailed(t) \in {"EnterI", "enqueue", "futile", "repark"}
      /\ (SpinFailed(t) = "repark" => loc[t].inwait)
      /\ (SpinFailed(t) \in {"enqueue", "futile"} <=> loc[t].spin \in {"EnterI", "woken"})
  BY <1>1, <1>2, SpinTargets DEF Spinning
<1>4. CASE om[mon[t]].owner = None
  <2> DEFINE l == SpinGot(t)
             k == [loc[t] EXCEPT !.spin = None]
  <2>2. /\ k \in LocRec /\ k.inwait = loc[t].inwait /\ k.save = loc[t].save
          /\ k.spin = None /\ k.then = loc[t].then
    BY <1>1, <1>2, <1>3, <1>4, SpinLoc DEF NT
  <2>3. Moves(t, l, [om[mon[t]] EXCEPT !.owner = t], k)
    BY <1>1, <1>2, <1>3, <1>4 DEF Moves, Spin_try, Go, Set, this, TryLock, SpinEnd, Inv, Typing
  <2> HIDE DEF k
  <2>4. l \in Labels \ Inflation
    BY <1>1, <1>2, <1>3, <1>4, LabelSets DEF Control, TryLock, SpinEnd
  <2>5. pc'[t] = l /\ loc'[t] = k /\ held' = held /\ boxes' = boxes
    BY <2>3, <1>1, <1>2, <1>3, <1>4 DEF Moves, objectVars, Inv, Typing
  <2>6. Control(t)'
    BY <1>1, <1>2, <1>3, <1>4, <2>2, <2>5, ThreadsAssumption DEF Control, TryLock, SpinEnd
  <2>7. Depths(t)'
    BY <1>1, <1>2, <1>3, <1>4, <2>2, <2>5, ThreadsAssumption, DepthAssumption DEF Control,
       Depths, Trying, Extra, Has, InEnterI, Where, Releasing, Unboxed, Top, Real, Depth,
       TryLock, SpinEnd
  <2>8. /\ Has(t)' /\ (InEnterI(t)' <=> InEnterI(t))
          /\ (~loc[t].inwait => \/ Depth(t) = 1 /\ Real(t, 1) /\ ~Trying(t)' /\ ~Extra(t)'
                                \/ Depth(t) = 0 /\ Extra(t)' /\ ~Trying(t)')
    BY <1>1, <1>2, <1>3, <1>4, <2>2, <2>5, ThreadsAssumption, DepthAssumption DEF Control,
       Depths, Trying, Extra, Has, InEnterI, Where, Releasing, Unboxed, Top, Real, Depth,
       TryLock, SpinEnd
  <2> HIDE DEF l
  <2> QED
    BY <1>1, <1>2, <1>3, <1>4, <2>2, <2>3, <2>4, <2>6, <2>7, <2>8, AcquireStep
<1>5. CASE om[mon[t]].owner # None /\ pc'[t] # "spin_succ"
  <2> DEFINE l == SpinFailed(t)
             q == om[mon[t]]
             k == [loc[t] EXCEPT !.spin = None]
  <2>1. q \in MonitorRec /\ CoreSame(q, om[mon[t]])
    BY <1>1, <1>2, <1>3, <1>5, NoField DEF NT
  <2>2. /\ k \in LocRec /\ k.inwait = loc[t].inwait /\ k.save = loc[t].save
          /\ k.spin = None /\ k.then = loc[t].then
    BY <1>1, <1>2, <1>3, <1>5, SpinLoc DEF NT
  <2>3. Moves(t, l, q, k)
    BY <1>1, <1>2, <1>3, <1>5 DEF Moves, Spin_try, Go, Set, this, TryLock, SpinEnd, Inv, Typing
  <2> HIDE DEF q, k
  <2>4. l \in Labels \ Inflation
    BY <1>1, <1>2, <1>3, <1>5, LabelSets DEF Control, TryLock, SpinEnd
  <2>5. pc'[t] = l /\ loc'[t] = k /\ held' = held /\ boxes' = boxes
    BY <2>3, <1>1, <1>2, <1>3, <1>5 DEF Moves, objectVars, Inv, Typing
  <2>6. Control(t)'
    BY <1>1, <1>2, <1>3, <1>5, <2>2, <2>5, ThreadsAssumption DEF Control, TryLock, SpinEnd
  <2>7. Depths(t)'
    BY <1>1, <1>2, <1>3, <1>5, <2>2, <2>5, ThreadsAssumption, DepthAssumption DEF Control,
       Depths, Trying, Extra, Has, InEnterI, Where, Releasing, Unboxed, Top, Real, Depth,
       TryLock, SpinEnd
  <2>8. /\ (Trying(t)' <=> Trying(t)) /\ (Extra(t)' <=> Extra(t))
          /\ (Has(t)' <=> Has(t)) /\ (InEnterI(t)' <=> InEnterI(t))
          /\ (Unboxed(t)' => Unboxed(t))
    BY <1>1, <1>2, <1>3, <1>5, <2>2, <2>5 DEF Control, Depths, Trying, Extra, Has, InEnterI,
       Where, Releasing, Unboxed, Top, Real, Depth, TryLock, SpinEnd
  <2>9. Quiet(t)
    BY <2>2, <2>5, <2>6, <2>7, <2>8 DEF Quiet
  <2> HIDE DEF l
  <2> QED
    BY <1>1, <2>1, <2>2, <2>3, <2>4, <2>8, <2>9, QuietStep
<1>6. CASE om[mon[t]].owner # None /\ pc'[t] = "spin_succ"
  <2> DEFINE l == "spin_succ"
             q == om[mon[t]]
             k == loc[t]
  <2>1. q \in MonitorRec /\ CoreSame(q, om[mon[t]])
    BY <1>1, <1>2, <1>3, <1>6, NoField DEF NT
  <2>2. /\ k \in LocRec /\ k.inwait = loc[t].inwait /\ k.save = loc[t].save
          /\ k.spin = loc[t].spin /\ k.then = loc[t].then
    BY <1>1, <1>2, <1>3, <1>6
  <2>3. Moves(t, l, q, k)
    BY <1>1, <1>2, <1>3, <1>6 DEF Moves, Spin_try, Go, Set, this, TryLock, Inv, Typing
  <2> HIDE DEF q, k
  <2>4. l \in Labels \ Inflation
    BY <1>1, <1>2, <1>3, <1>6, LabelSets DEF Control, TryLock
  <2>5. pc'[t] = l /\ loc'[t] = k /\ held' = held /\ boxes' = boxes
    BY <2>3, <1>1, <1>2, <1>3, <1>6 DEF Moves, objectVars, Inv, Typing
  <2>6. Control(t)'
    BY <1>1, <1>2, <1>3, <1>6, <2>2, <2>5, ThreadsAssumption DEF Control, TryLock
  <2>7. Depths(t)'
    BY <1>1, <1>2, <1>3, <1>6, <2>2, <2>5, ThreadsAssumption, DepthAssumption DEF Control,
       Depths, Trying, Extra, Has, InEnterI, Where, Releasing, Unboxed, Top, Real, Depth,
       TryLock
  <2>8. /\ (Trying(t)' <=> Trying(t)) /\ (Extra(t)' <=> Extra(t))
          /\ (Has(t)' <=> Has(t)) /\ (InEnterI(t)' <=> InEnterI(t))
          /\ (Unboxed(t)' => Unboxed(t))
    BY <1>1, <1>2, <1>3, <1>6, <2>2, <2>5 DEF Control, Depths, Trying, Extra, Has, InEnterI,
       Where, Releasing, Unboxed, Top, Real, Depth, TryLock
  <2>9. Quiet(t)
    BY <2>2, <2>5, <2>6, <2>7, <2>8 DEF Quiet
  <2> HIDE DEF l
  <2> QED
    BY <1>1, <2>1, <2>2, <2>3, <2>4, <2>8, <2>9, QuietStep
<1> QED
  BY <1>1, <1>2, <1>4, <1>5, <1>6 DEF Spin_try, this

\* TrySpin reads _succ.
LEMMA Spin_succKeeps ==
  ASSUME Inv, NEW t \in Threads, Spin_succ(t), UNCHANGED objectVars
  PROVE  Inv'
<1>1. pc[t] = "spin_succ" /\ pc[t] \notin Outside
  BY DEF Spin_succ, Outside, this
<1>2. /\ mon[t] \in Monitors /\ om[mon[t]] \in MonitorRec /\ loc[t] \in LocRec
      /\ Control(t) /\ Depths(t) /\ Depth(t) \in Nat /\ (Has(t) <=> om[mon[t]].owner = t)
  BY <1>1, AtMonitor
<1> DEFINE l == IF om[mon[t]].succ = None THEN "spin_store" ELSE "spinning"
           q == om[mon[t]]
           k == loc[t]
<1>3. q \in MonitorRec /\ CoreSame(q, om[mon[t]])
  BY <1>1, <1>2, NoField DEF NT
<1>4. /\ k \in LocRec /\ k.inwait = loc[t].inwait /\ k.save = loc[t].save
        /\ k.spin = loc[t].spin /\ k.then = loc[t].then
  BY <1>1, <1>2
<1>5. Moves(t, l, q, k)
  BY <1>1, <1>2 DEF Moves, Spin_succ, Go, Set, this, Inv, Typing
<1> HIDE DEF q, k
<1>6. l \in Labels \ Inflation
  BY <1>1, <1>2, LabelSets DEF Control
<1>7. pc'[t] = l /\ loc'[t] = k /\ held' = held /\ boxes' = boxes
  BY <1>5, <1>1, <1>2 DEF Moves, objectVars, Inv, Typing
<1>8. Control(t)'
  BY <1>1, <1>2, <1>4, <1>7, ThreadsAssumption DEF Control
<1>9. Depths(t)'
  BY <1>1, <1>2, <1>4, <1>7, ThreadsAssumption, DepthAssumption DEF Control, Depths, Trying,
     Extra, Has, InEnterI, Where, Releasing, Unboxed, Top, Real, Depth
<1>10. /\ (Trying(t)' <=> Trying(t)) /\ (Extra(t)' <=> Extra(t))
        /\ (Has(t)' <=> Has(t)) /\ (InEnterI(t)' <=> InEnterI(t))
        /\ (Unboxed(t)' => Unboxed(t))
  BY <1>1, <1>2, <1>4, <1>7 DEF Control, Depths, Trying, Extra, Has, InEnterI, Where,
     Releasing, Unboxed, Top, Real, Depth
<1>11. Quiet(t)
  BY <1>4, <1>7, <1>8, <1>9, <1>10 DEF Quiet
<1> HIDE DEF l
<1> QED
  BY <1>1, <1>3, <1>4, <1>5, <1>6, <1>10, <1>11, QuietStep

\* TrySpin stores _succ.
LEMMA Spin_storeKeeps ==
  ASSUME Inv, NEW t \in Threads, Spin_store(t), UNCHANGED objectVars
  PROVE  Inv'
<1>1. pc[t] = "spin_store" /\ pc[t] \notin Outside
  BY DEF Spin_store, Outside, this
<1>2. /\ mon[t] \in Monitors /\ om[mon[t]] \in MonitorRec /\ loc[t] \in LocRec
      /\ Control(t) /\ Depths(t) /\ Depth(t) \in Nat /\ (Has(t) <=> om[mon[t]].owner = t)
  BY <1>1, AtMonitor
<1> DEFINE l == "spinning"
           q == [om[mon[t]] EXCEPT !.succ = t]
           k == loc[t]
<1>3. q \in MonitorRec /\ CoreSame(q, om[mon[t]])
  BY <1>1, <1>2, SuccField DEF NT
<1>4. /\ k \in LocRec /\ k.inwait = loc[t].inwait /\ k.save = loc[t].save
        /\ k.spin = loc[t].spin /\ k.then = loc[t].then
  BY <1>1, <1>2
<1>5. Moves(t, l, q, k)
  BY <1>1, <1>2 DEF Moves, Spin_store, Go, Set, this, Inv, Typing
<1> HIDE DEF q, k
<1>6. l \in Labels \ Inflation
  BY <1>1, <1>2, LabelSets DEF Control
<1>7. pc'[t] = l /\ loc'[t] = k /\ held' = held /\ boxes' = boxes
  BY <1>5, <1>1, <1>2 DEF Moves, objectVars, Inv, Typing
<1>8. Control(t)'
  BY <1>1, <1>2, <1>4, <1>7, ThreadsAssumption DEF Control
<1>9. Depths(t)'
  BY <1>1, <1>2, <1>4, <1>7, ThreadsAssumption, DepthAssumption DEF Control, Depths, Trying,
     Extra, Has, InEnterI, Where, Releasing, Unboxed, Top, Real, Depth
<1>10. /\ (Trying(t)' <=> Trying(t)) /\ (Extra(t)' <=> Extra(t))
        /\ (Has(t)' <=> Has(t)) /\ (InEnterI(t)' <=> InEnterI(t))
        /\ (Unboxed(t)' => Unboxed(t))
  BY <1>1, <1>2, <1>4, <1>7 DEF Control, Depths, Trying, Extra, Has, InEnterI, Where,
     Releasing, Unboxed, Top, Real, Depth
<1>11. Quiet(t)
  BY <1>4, <1>7, <1>8, <1>9, <1>10 DEF Quiet
<1> HIDE DEF l
<1> QED
  BY <1>1, <1>3, <1>4, <1>5, <1>6, <1>10, <1>11, QuietStep

\* TrySpin goes on.
LEMMA Spin_againKeeps ==
  ASSUME Inv, NEW t \in Threads, Spin_again(t), UNCHANGED objectVars
  PROVE  Inv'
<1>1. pc[t] = "spinning" /\ pc[t] \notin Outside
  BY DEF Spin_again, Outside, this
<1>2. /\ mon[t] \in Monitors /\ om[mon[t]] \in MonitorRec /\ loc[t] \in LocRec
      /\ Control(t) /\ Depths(t) /\ Depth(t) \in Nat /\ (Has(t) <=> om[mon[t]].owner = t)
  BY <1>1, AtMonitor
<1> DEFINE l == "spin_succ"
           q == om[mon[t]]
           k == loc[t]
<1>3. q \in MonitorRec /\ CoreSame(q, om[mon[t]])
  BY <1>1, <1>2, NoField DEF NT
<1>4. /\ k \in LocRec /\ k.inwait = loc[t].inwait /\ k.save = loc[t].save
        /\ k.spin = loc[t].spin /\ k.then = loc[t].then
  BY <1>1, <1>2
<1>5. Moves(t, l, q, k)
  BY <1>1, <1>2 DEF Moves, Spin_again, Go, Set, this, Inv, Typing
<1> HIDE DEF q, k
<1>6. l \in Labels \ Inflation
  BY <1>1, <1>2, LabelSets DEF Control
<1>7. pc'[t] = l /\ loc'[t] = k /\ held' = held /\ boxes' = boxes
  BY <1>5, <1>1, <1>2 DEF Moves, objectVars, Inv, Typing
<1>8. Control(t)'
  BY <1>1, <1>2, <1>4, <1>7, ThreadsAssumption DEF Control
<1>9. Depths(t)'
  BY <1>1, <1>2, <1>4, <1>7, ThreadsAssumption, DepthAssumption DEF Control, Depths, Trying,
     Extra, Has, InEnterI, Where, Releasing, Unboxed, Top, Real, Depth
<1>10. /\ (Trying(t)' <=> Trying(t)) /\ (Extra(t)' <=> Extra(t))
        /\ (Has(t)' <=> Has(t)) /\ (InEnterI(t)' <=> InEnterI(t))
        /\ (Unboxed(t)' => Unboxed(t))
  BY <1>1, <1>2, <1>4, <1>7 DEF Control, Depths, Trying, Extra, Has, InEnterI, Where,
     Releasing, Unboxed, Top, Real, Depth
<1>11. Quiet(t)
  BY <1>4, <1>7, <1>8, <1>9, <1>10 DEF Quiet
<1> HIDE DEF l
<1> QED
  BY <1>1, <1>3, <1>4, <1>5, <1>6, <1>10, <1>11, QuietStep

\* TrySpin finds the lock free.
LEMMA Spin_gotKeeps ==
  ASSUME Inv, NEW t \in Threads, Spin_got(t), UNCHANGED objectVars
  PROVE  Inv'
<1>1. pc[t] = "spinning" /\ pc[t] \notin Outside /\ om[mon[t]].owner = None
  BY DEF Spin_got, Outside, this
<1>2. /\ mon[t] \in Monitors /\ om[mon[t]] \in MonitorRec /\ loc[t] \in LocRec
      /\ Control(t) /\ Depths(t) /\ Depth(t) \in Nat /\ (Has(t) <=> om[mon[t]].owner = t)
  BY <1>1, AtMonitor
<1>3. /\ SpinGot(t) \in {"java", "wait_reentered", "entered", "egress", "reegress"}
      /\ SpinGot(t) \in Labels /\ (SpinGot(t) = "java" => ~loc[t].inwait)
      /\ (SpinGot(t) \in {"wait_reentered", "reegress"} => loc[t].inwait)
      /\ (SpinGot(t) \in {"entered", "egress"} <=> loc[t].spin \in {"EnterI", "woken"})
      /\ SpinFailed(t) \in {"EnterI", "enqueue", "futile", "repark"}
      /\ (SpinFailed(t) = "repark" => loc[t].inwait)
      /\ (SpinFailed(t) \in {"enqueue", "futile"} <=> loc[t].spin \in {"EnterI", "woken"})
  BY <1>1, <1>2, SpinTargets DEF Spinning
<1>4. CASE om[mon[t]].succ = t
  <2> DEFINE l == "clearing"
             k == [loc[t] EXCEPT !.spin = None, !.then = SpinGot(t)]
  <2>2. /\ k \in LocRec /\ k.inwait = loc[t].inwait /\ k.save = loc[t].save
          /\ k.spin = None /\ k.then = SpinGot(t)
    BY <1>1, <1>2, <1>3, <1>4, SpinThenLoc DEF NT
  <2>3. Moves(t, l, [om[mon[t]] EXCEPT !.owner = t], k)
    BY <1>1, <1>2, <1>3, <1>4 DEF Moves, Spin_got, Go, Set, this, ClearSucc, Inv, Typing
  <2> HIDE DEF k
  <2>4. l \in Labels \ Inflation
    BY <1>1, <1>2, <1>3, <1>4, LabelSets DEF Control, ClearSucc
  <2>5. pc'[t] = l /\ loc'[t] = k /\ held' = held /\ boxes' = boxes
    BY <2>3, <1>1, <1>2, <1>3, <1>4 DEF Moves, objectVars, Inv, Typing
  <2>6. Control(t)'
    BY <1>1, <1>2, <1>3, <1>4, <2>2, <2>5, ThreadsAssumption DEF Control, ClearSucc
  <2>7. Depths(t)'
    BY <1>1, <1>2, <1>3, <1>4, <2>2, <2>5, ThreadsAssumption, DepthAssumption DEF Control,
       Depths, Trying, Extra, Has, InEnterI, Where, Releasing, Unboxed, Top, Real, Depth,
       ClearSucc
  <2>8. /\ Has(t)' /\ (InEnterI(t)' <=> InEnterI(t))
          /\ (~loc[t].inwait => \/ Depth(t) = 1 /\ Real(t, 1) /\ ~Trying(t)' /\ ~Extra(t)'
                                \/ Depth(t) = 0 /\ Extra(t)' /\ ~Trying(t)')
    BY <1>1, <1>2, <1>3, <1>4, <2>2, <2>5, ThreadsAssumption, DepthAssumption DEF Control,
       Depths, Trying, Extra, Has, InEnterI, Where, Releasing, Unboxed, Top, Real, Depth,
       ClearSucc
  <2> HIDE DEF l
  <2> QED
    BY <1>1, <1>2, <1>3, <1>4, <2>2, <2>3, <2>4, <2>6, <2>7, <2>8, AcquireStep
<1>5. CASE om[mon[t]].succ # t
  <2> DEFINE l == SpinGot(t)
             k == [loc[t] EXCEPT !.spin = None]
  <2>2. /\ k \in LocRec /\ k.inwait = loc[t].inwait /\ k.save = loc[t].save
          /\ k.spin = None /\ k.then = loc[t].then
    BY <1>1, <1>2, <1>3, <1>5, SpinLoc DEF NT
  <2>3. Moves(t, l, [om[mon[t]] EXCEPT !.owner = t], k)
    BY <1>1, <1>2, <1>3, <1>5 DEF Moves, Spin_got, Go, Set, this, ClearSucc, Inv, Typing
  <2> HIDE DEF k
  <2>4. l \in Labels \ Inflation
    BY <1>1, <1>2, <1>3, <1>5, LabelSets DEF Control, ClearSucc
  <2>5. pc'[t] = l /\ loc'[t] = k /\ held' = held /\ boxes' = boxes
    BY <2>3, <1>1, <1>2, <1>3, <1>5 DEF Moves, objectVars, Inv, Typing
  <2>6. Control(t)'
    BY <1>1, <1>2, <1>3, <1>5, <2>2, <2>5, ThreadsAssumption DEF Control, ClearSucc
  <2>7. Depths(t)'
    BY <1>1, <1>2, <1>3, <1>5, <2>2, <2>5, ThreadsAssumption, DepthAssumption DEF Control,
       Depths, Trying, Extra, Has, InEnterI, Where, Releasing, Unboxed, Top, Real, Depth,
       ClearSucc
  <2>8. /\ Has(t)' /\ (InEnterI(t)' <=> InEnterI(t))
          /\ (~loc[t].inwait => \/ Depth(t) = 1 /\ Real(t, 1) /\ ~Trying(t)' /\ ~Extra(t)'
                                \/ Depth(t) = 0 /\ Extra(t)' /\ ~Trying(t)')
    BY <1>1, <1>2, <1>3, <1>5, <2>2, <2>5, ThreadsAssumption, DepthAssumption DEF Control,
       Depths, Trying, Extra, Has, InEnterI, Where, Releasing, Unboxed, Top, Real, Depth,
       ClearSucc
  <2> HIDE DEF l
  <2> QED
    BY <1>1, <1>2, <1>3, <1>5, <2>2, <2>3, <2>4, <2>6, <2>7, <2>8, AcquireStep
<1> QED
  BY <1>1, <1>2, <1>4, <1>5 DEF Spin_got, this

\* TrySpin gives up.
LEMMA Spin_abortKeeps ==
  ASSUME Inv, NEW t \in Threads, Spin_abort(t), UNCHANGED objectVars
  PROVE  Inv'
<1>1. pc[t] = "spinning" /\ pc[t] \notin Outside
  BY DEF Spin_abort, Outside, this
<1>2. /\ mon[t] \in Monitors /\ om[mon[t]] \in MonitorRec /\ loc[t] \in LocRec
      /\ Control(t) /\ Depths(t) /\ Depth(t) \in Nat /\ (Has(t) <=> om[mon[t]].owner = t)
  BY <1>1, AtMonitor
<1>3. /\ SpinGot(t) \in {"java", "wait_reentered", "entered", "egress", "reegress"}
      /\ SpinGot(t) \in Labels /\ (SpinGot(t) = "java" => ~loc[t].inwait)
      /\ (SpinGot(t) \in {"wait_reentered", "reegress"} => loc[t].inwait)
      /\ (SpinGot(t) \in {"entered", "egress"} <=> loc[t].spin \in {"EnterI", "woken"})
      /\ SpinFailed(t) \in {"EnterI", "enqueue", "futile", "repark"}
      /\ (SpinFailed(t) = "repark" => loc[t].inwait)
      /\ (SpinFailed(t) \in {"enqueue", "futile"} <=> loc[t].spin \in {"EnterI", "woken"})
  BY <1>1, <1>2, SpinTargets DEF Spinning
<1>4. CASE om[mon[t]].succ = t
  <2> DEFINE l == "spin_clear"
             q == om[mon[t]]
             k == loc[t]
  <2>1. q \in MonitorRec /\ CoreSame(q, om[mon[t]])
    BY <1>1, <1>2, <1>3, <1>4, NoField DEF NT
  <2>2. /\ k \in LocRec /\ k.inwait = loc[t].inwait /\ k.save = loc[t].save
          /\ k.spin = loc[t].spin /\ k.then = loc[t].then
    BY <1>1, <1>2, <1>3, <1>4
  <2>3. Moves(t, l, q, k)
    BY <1>1, <1>2, <1>3, <1>4 DEF Moves, Spin_abort, Go, Set, this, Inv, Typing
  <2> HIDE DEF q, k
  <2>4. l \in Labels \ Inflation
    BY <1>1, <1>2, <1>3, <1>4, LabelSets DEF Control
  <2>5. pc'[t] = l /\ loc'[t] = k /\ held' = held /\ boxes' = boxes
    BY <2>3, <1>1, <1>2, <1>3, <1>4 DEF Moves, objectVars, Inv, Typing
  <2>6. Control(t)'
    BY <1>1, <1>2, <1>3, <1>4, <2>2, <2>5, ThreadsAssumption DEF Control
  <2>7. Depths(t)'
    BY <1>1, <1>2, <1>3, <1>4, <2>2, <2>5, ThreadsAssumption, DepthAssumption DEF Control,
       Depths, Trying, Extra, Has, InEnterI, Where, Releasing, Unboxed, Top, Real, Depth
  <2>8. /\ (Trying(t)' <=> Trying(t)) /\ (Extra(t)' <=> Extra(t))
          /\ (Has(t)' <=> Has(t)) /\ (InEnterI(t)' <=> InEnterI(t))
          /\ (Unboxed(t)' => Unboxed(t))
    BY <1>1, <1>2, <1>3, <1>4, <2>2, <2>5 DEF Control, Depths, Trying, Extra, Has, InEnterI,
       Where, Releasing, Unboxed, Top, Real, Depth
  <2>9. Quiet(t)
    BY <2>2, <2>5, <2>6, <2>7, <2>8 DEF Quiet
  <2> HIDE DEF l
  <2> QED
    BY <1>1, <2>1, <2>2, <2>3, <2>4, <2>8, <2>9, QuietStep
<1>5. CASE om[mon[t]].succ # t
  <2> DEFINE l == SpinFailed(t)
             q == om[mon[t]]
             k == [loc[t] EXCEPT !.spin = None]
  <2>1. q \in MonitorRec /\ CoreSame(q, om[mon[t]])
    BY <1>1, <1>2, <1>3, <1>5, NoField DEF NT
  <2>2. /\ k \in LocRec /\ k.inwait = loc[t].inwait /\ k.save = loc[t].save
          /\ k.spin = None /\ k.then = loc[t].then
    BY <1>1, <1>2, <1>3, <1>5, SpinLoc DEF NT
  <2>3. Moves(t, l, q, k)
    BY <1>1, <1>2, <1>3, <1>5 DEF Moves, Spin_abort, Go, Set, this, SpinEnd, Inv, Typing
  <2> HIDE DEF q, k
  <2>4. l \in Labels \ Inflation
    BY <1>1, <1>2, <1>3, <1>5, LabelSets DEF Control, SpinEnd
  <2>5. pc'[t] = l /\ loc'[t] = k /\ held' = held /\ boxes' = boxes
    BY <2>3, <1>1, <1>2, <1>3, <1>5 DEF Moves, objectVars, Inv, Typing
  <2>6. Control(t)'
    BY <1>1, <1>2, <1>3, <1>5, <2>2, <2>5, ThreadsAssumption DEF Control, SpinEnd
  <2>7. Depths(t)'
    BY <1>1, <1>2, <1>3, <1>5, <2>2, <2>5, ThreadsAssumption, DepthAssumption DEF Control,
       Depths, Trying, Extra, Has, InEnterI, Where, Releasing, Unboxed, Top, Real, Depth,
       SpinEnd
  <2>8. /\ (Trying(t)' <=> Trying(t)) /\ (Extra(t)' <=> Extra(t))
          /\ (Has(t)' <=> Has(t)) /\ (InEnterI(t)' <=> InEnterI(t))
          /\ (Unboxed(t)' => Unboxed(t))
    BY <1>1, <1>2, <1>3, <1>5, <2>2, <2>5 DEF Control, Depths, Trying, Extra, Has, InEnterI,
       Where, Releasing, Unboxed, Top, Real, Depth, SpinEnd
  <2>9. Quiet(t)
    BY <2>2, <2>5, <2>6, <2>7, <2>8 DEF Quiet
  <2> HIDE DEF l
  <2> QED
    BY <1>1, <2>1, <2>2, <2>3, <2>4, <2>8, <2>9, QuietStep
<1> QED
  BY <1>1, <1>2, <1>4, <1>5 DEF Spin_abort, this

\* TrySpin withdraws _succ.
LEMMA Spin_clearKeeps ==
  ASSUME Inv, NEW t \in Threads, Spin_clear(t), UNCHANGED objectVars
  PROVE  Inv'
<1>1. pc[t] = "spin_clear" /\ pc[t] \notin Outside
  BY DEF Spin_clear, Outside, this
<1>2. /\ mon[t] \in Monitors /\ om[mon[t]] \in MonitorRec /\ loc[t] \in LocRec
      /\ Control(t) /\ Depths(t) /\ Depth(t) \in Nat /\ (Has(t) <=> om[mon[t]].owner = t)
  BY <1>1, AtMonitor
<1> DEFINE l == "spin_retry"
           q == [om[mon[t]] EXCEPT !.succ = None]
           k == loc[t]
<1>3. q \in MonitorRec /\ CoreSame(q, om[mon[t]])
  BY <1>1, <1>2, SuccField DEF NT
<1>4. /\ k \in LocRec /\ k.inwait = loc[t].inwait /\ k.save = loc[t].save
        /\ k.spin = loc[t].spin /\ k.then = loc[t].then
  BY <1>1, <1>2
<1>5. Moves(t, l, q, k)
  BY <1>1, <1>2 DEF Moves, Spin_clear, Go, Set, this, Inv, Typing
<1> HIDE DEF q, k
<1>6. l \in Labels \ Inflation
  BY <1>1, <1>2, LabelSets DEF Control
<1>7. pc'[t] = l /\ loc'[t] = k /\ held' = held /\ boxes' = boxes
  BY <1>5, <1>1, <1>2 DEF Moves, objectVars, Inv, Typing
<1>8. Control(t)'
  BY <1>1, <1>2, <1>4, <1>7, ThreadsAssumption DEF Control
<1>9. Depths(t)'
  BY <1>1, <1>2, <1>4, <1>7, ThreadsAssumption, DepthAssumption DEF Control, Depths, Trying,
     Extra, Has, InEnterI, Where, Releasing, Unboxed, Top, Real, Depth
<1>10. /\ (Trying(t)' <=> Trying(t)) /\ (Extra(t)' <=> Extra(t))
        /\ (Has(t)' <=> Has(t)) /\ (InEnterI(t)' <=> InEnterI(t))
        /\ (Unboxed(t)' => Unboxed(t))
  BY <1>1, <1>2, <1>4, <1>7 DEF Control, Depths, Trying, Extra, Has, InEnterI, Where,
     Releasing, Unboxed, Top, Real, Depth
<1>11. Quiet(t)
  BY <1>4, <1>7, <1>8, <1>9, <1>10 DEF Quiet
<1> HIDE DEF l
<1> QED
  BY <1>1, <1>3, <1>4, <1>5, <1>6, <1>10, <1>11, QuietStep

\* TrySpin tries once more.
LEMMA Spin_retryKeeps ==
  ASSUME Inv, NEW t \in Threads, Spin_retry(t), UNCHANGED objectVars
  PROVE  Inv'
<1>1. pc[t] = "spin_retry" /\ pc[t] \notin Outside
  BY DEF Spin_retry, Outside, this
<1>2. /\ mon[t] \in Monitors /\ om[mon[t]] \in MonitorRec /\ loc[t] \in LocRec
      /\ Control(t) /\ Depths(t) /\ Depth(t) \in Nat /\ (Has(t) <=> om[mon[t]].owner = t)
  BY <1>1, AtMonitor
<1>3. /\ SpinGot(t) \in {"java", "wait_reentered", "entered", "egress", "reegress"}
      /\ SpinGot(t) \in Labels /\ (SpinGot(t) = "java" => ~loc[t].inwait)
      /\ (SpinGot(t) \in {"wait_reentered", "reegress"} => loc[t].inwait)
      /\ (SpinGot(t) \in {"entered", "egress"} <=> loc[t].spin \in {"EnterI", "woken"})
      /\ SpinFailed(t) \in {"EnterI", "enqueue", "futile", "repark"}
      /\ (SpinFailed(t) = "repark" => loc[t].inwait)
      /\ (SpinFailed(t) \in {"enqueue", "futile"} <=> loc[t].spin \in {"EnterI", "woken"})
  BY <1>1, <1>2, SpinTargets DEF Spinning
<1>4. CASE om[mon[t]].owner = None
  <2> DEFINE l == SpinGot(t)
             k == [loc[t] EXCEPT !.spin = None]
  <2>2. /\ k \in LocRec /\ k.inwait = loc[t].inwait /\ k.save = loc[t].save
          /\ k.spin = None /\ k.then = loc[t].then
    BY <1>1, <1>2, <1>3, <1>4, SpinLoc DEF NT
  <2>3. Moves(t, l, [om[mon[t]] EXCEPT !.owner = t], k)
    BY <1>1, <1>2, <1>3, <1>4 DEF Moves, Spin_retry, Go, Set, this, TryLock, SpinEnd, Inv,
       Typing
  <2> HIDE DEF k
  <2>4. l \in Labels \ Inflation
    BY <1>1, <1>2, <1>3, <1>4, LabelSets DEF Control, TryLock, SpinEnd
  <2>5. pc'[t] = l /\ loc'[t] = k /\ held' = held /\ boxes' = boxes
    BY <2>3, <1>1, <1>2, <1>3, <1>4 DEF Moves, objectVars, Inv, Typing
  <2>6. Control(t)'
    BY <1>1, <1>2, <1>3, <1>4, <2>2, <2>5, ThreadsAssumption DEF Control, TryLock, SpinEnd
  <2>7. Depths(t)'
    BY <1>1, <1>2, <1>3, <1>4, <2>2, <2>5, ThreadsAssumption, DepthAssumption DEF Control,
       Depths, Trying, Extra, Has, InEnterI, Where, Releasing, Unboxed, Top, Real, Depth,
       TryLock, SpinEnd
  <2>8. /\ Has(t)' /\ (InEnterI(t)' <=> InEnterI(t))
          /\ (~loc[t].inwait => \/ Depth(t) = 1 /\ Real(t, 1) /\ ~Trying(t)' /\ ~Extra(t)'
                                \/ Depth(t) = 0 /\ Extra(t)' /\ ~Trying(t)')
    BY <1>1, <1>2, <1>3, <1>4, <2>2, <2>5, ThreadsAssumption, DepthAssumption DEF Control,
       Depths, Trying, Extra, Has, InEnterI, Where, Releasing, Unboxed, Top, Real, Depth,
       TryLock, SpinEnd
  <2> HIDE DEF l
  <2> QED
    BY <1>1, <1>2, <1>3, <1>4, <2>2, <2>3, <2>4, <2>6, <2>7, <2>8, AcquireStep
<1>5. CASE om[mon[t]].owner # None
  <2> DEFINE l == SpinFailed(t)
             q == om[mon[t]]
             k == [loc[t] EXCEPT !.spin = None]
  <2>1. q \in MonitorRec /\ CoreSame(q, om[mon[t]])
    BY <1>1, <1>2, <1>3, <1>5, NoField DEF NT
  <2>2. /\ k \in LocRec /\ k.inwait = loc[t].inwait /\ k.save = loc[t].save
          /\ k.spin = None /\ k.then = loc[t].then
    BY <1>1, <1>2, <1>3, <1>5, SpinLoc DEF NT
  <2>3. Moves(t, l, q, k)
    BY <1>1, <1>2, <1>3, <1>5 DEF Moves, Spin_retry, Go, Set, this, TryLock, SpinEnd, Inv,
       Typing
  <2> HIDE DEF q, k
  <2>4. l \in Labels \ Inflation
    BY <1>1, <1>2, <1>3, <1>5, LabelSets DEF Control, TryLock, SpinEnd
  <2>5. pc'[t] = l /\ loc'[t] = k /\ held' = held /\ boxes' = boxes
    BY <2>3, <1>1, <1>2, <1>3, <1>5 DEF Moves, objectVars, Inv, Typing
  <2>6. Control(t)'
    BY <1>1, <1>2, <1>3, <1>5, <2>2, <2>5, ThreadsAssumption DEF Control, TryLock, SpinEnd
  <2>7. Depths(t)'
    BY <1>1, <1>2, <1>3, <1>5, <2>2, <2>5, ThreadsAssumption, DepthAssumption DEF Control,
       Depths, Trying, Extra, Has, InEnterI, Where, Releasing, Unboxed, Top, Real, Depth,
       TryLock, SpinEnd
  <2>8. /\ (Trying(t)' <=> Trying(t)) /\ (Extra(t)' <=> Extra(t))
          /\ (Has(t)' <=> Has(t)) /\ (InEnterI(t)' <=> InEnterI(t))
          /\ (Unboxed(t)' => Unboxed(t))
    BY <1>1, <1>2, <1>3, <1>5, <2>2, <2>5 DEF Control, Depths, Trying, Extra, Has, InEnterI,
       Where, Releasing, Unboxed, Top, Real, Depth, TryLock, SpinEnd
  <2>9. Quiet(t)
    BY <2>2, <2>5, <2>6, <2>7, <2>8 DEF Quiet
  <2> HIDE DEF l
  <2> QED
    BY <1>1, <2>1, <2>2, <2>3, <2>4, <2>8, <2>9, QuietStep
<1> QED
  BY <1>1, <1>2, <1>4, <1>5 DEF Spin_retry, this

\* _succ is cleared after the lock was taken.
LEMMA Clear_storeKeeps ==
  ASSUME Inv, NEW t \in Threads, Clear_store(t), UNCHANGED objectVars
  PROVE  Inv'
<1>1. pc[t] = "clearing" /\ pc[t] \notin Outside
  BY DEF Clear_store, Outside, this
<1>2. /\ mon[t] \in Monitors /\ om[mon[t]] \in MonitorRec /\ loc[t] \in LocRec
      /\ Control(t) /\ Depths(t) /\ Depth(t) \in Nat /\ (Has(t) <=> om[mon[t]].owner = t)
  BY <1>1, AtMonitor
<1> DEFINE l == loc[t].then
           q == [om[mon[t]] EXCEPT !.succ = None]
           k == [loc[t] EXCEPT !.then = None]
<1>3. q \in MonitorRec /\ CoreSame(q, om[mon[t]])
  BY <1>1, <1>2, SuccField DEF NT
<1>4. /\ k \in LocRec /\ k.inwait = loc[t].inwait /\ k.save = loc[t].save
        /\ k.spin = loc[t].spin /\ k.then = None
  BY <1>1, <1>2, ThenLoc DEF NT
<1>5. Moves(t, l, q, k)
  BY <1>1, <1>2 DEF Moves, Clear_store, Go, Set, this, Inv, Typing
<1> HIDE DEF q, k
<1>6. l \in Labels \ Inflation
  BY <1>1, <1>2, LabelSets DEF Control
<1>7. pc'[t] = l /\ loc'[t] = k /\ held' = held /\ boxes' = boxes
  BY <1>5, <1>1, <1>2 DEF Moves, objectVars, Inv, Typing
<1>8. Control(t)'
  BY <1>1, <1>2, <1>4, <1>7, ThreadsAssumption DEF Control
<1>9. Depths(t)'
  BY <1>1, <1>2, <1>4, <1>7, ThreadsAssumption, DepthAssumption DEF Control, Depths, Trying,
     Extra, Has, InEnterI, Where, Releasing, Unboxed, Top, Real, Depth
<1>10. /\ (Trying(t)' <=> Trying(t)) /\ (Extra(t)' <=> Extra(t))
        /\ (Has(t)' <=> Has(t)) /\ (InEnterI(t)' <=> InEnterI(t))
        /\ (Unboxed(t)' => Unboxed(t))
  BY <1>1, <1>2, <1>4, <1>7 DEF Control, Depths, Trying, Extra, Has, InEnterI, Where,
     Releasing, Unboxed, Top, Real, Depth
<1>11. Quiet(t)
  BY <1>4, <1>7, <1>8, <1>9, <1>10 DEF Quiet
<1> HIDE DEF l
<1> QED
  BY <1>1, <1>3, <1>4, <1>5, <1>6, <1>10, <1>11, QuietStep

-----------------------------------------------------------------------------
(* enter *)

\* Enter finds another owner.
LEMMA Enter_contendedKeeps ==
  ASSUME Inv, NEW t \in Threads, Enter_contended(t), UNCHANGED objectVars
  PROVE  Inv'
<1>1. pc[t] = "enter" /\ pc[t] \notin Outside /\ om[mon[t]].owner # t
  BY DEF Enter_contended, Outside, this
<1>2. /\ mon[t] \in Monitors /\ om[mon[t]] \in MonitorRec /\ loc[t] \in LocRec
      /\ Control(t) /\ Depths(t) /\ Depth(t) \in Nat /\ (Has(t) <=> om[mon[t]].owner = t)
  BY <1>1, AtMonitor
<1>3. ~loc[t].inwait => Depth(t) = 1 /\ Real(t, 1)
  BY <1>1, <1>2, EnterDepth, ThreadsAssumption
<1> DEFINE l == "spin"
           q == om[mon[t]]
           k == [loc[t] EXCEPT !.spin = "enter"]
<1>4. q \in MonitorRec /\ CoreSame(q, om[mon[t]])
  BY <1>1, <1>2, <1>3, NoField DEF NT
<1>5. /\ k \in LocRec /\ k.inwait = loc[t].inwait /\ k.save = loc[t].save
        /\ k.spin = "enter" /\ k.then = loc[t].then
  BY <1>1, <1>2, <1>3, SpinLoc DEF NT
<1>6. Moves(t, l, q, k)
  BY <1>1, <1>2, <1>3 DEF Moves, Enter_contended, Go, Set, this, Spin, Inv, Typing
<1> HIDE DEF q, k
<1>7. l \in Labels \ Inflation
  BY <1>1, <1>2, <1>3, LabelSets DEF Control, Spin
<1>8. pc'[t] = l /\ loc'[t] = k /\ held' = held /\ boxes' = boxes
  BY <1>6, <1>1, <1>2, <1>3 DEF Moves, objectVars, Inv, Typing
<1>9. Control(t)'
  BY <1>1, <1>2, <1>3, <1>5, <1>8, ThreadsAssumption DEF Control, Spin
<1>10. Depths(t)'
  BY <1>1, <1>2, <1>3, <1>5, <1>8, ThreadsAssumption, DepthAssumption DEF Control, Depths,
     Trying, Extra, Has, InEnterI, Where, Releasing, Unboxed, Top, Real, Depth, Spin
<1>11. /\ (Trying(t)' <=> Trying(t)) /\ (Extra(t)' <=> Extra(t))
        /\ (Has(t)' <=> Has(t)) /\ (InEnterI(t)' <=> InEnterI(t))
        /\ (Unboxed(t)' => Unboxed(t))
  BY <1>1, <1>2, <1>3, <1>5, <1>8 DEF Control, Depths, Trying, Extra, Has, InEnterI, Where,
     Releasing, Unboxed, Top, Real, Depth, Spin
<1>12. Quiet(t)
  BY <1>5, <1>8, <1>9, <1>10, <1>11 DEF Quiet
<1> HIDE DEF l
<1> QED
  BY <1>1, <1>4, <1>5, <1>6, <1>7, <1>11, <1>12, QuietStep

\* Enter takes a free monitor.
LEMMA Enter_casKeeps ==
  ASSUME Inv, NEW t \in Threads, Enter_cas(t), UNCHANGED objectVars
  PROVE  Inv'
<1>1. pc[t] = "enter" /\ pc[t] \notin Outside /\ om[mon[t]].owner = None
  BY DEF Enter_cas, Outside, this
<1>2. /\ mon[t] \in Monitors /\ om[mon[t]] \in MonitorRec /\ loc[t] \in LocRec
      /\ Control(t) /\ Depths(t) /\ Depth(t) \in Nat /\ (Has(t) <=> om[mon[t]].owner = t)
  BY <1>1, AtMonitor
<1>3. ~loc[t].inwait => Depth(t) = 1 /\ Real(t, 1)
  BY <1>1, <1>2, EnterDepth, ThreadsAssumption
<1> DEFINE l == EnterReturn(t)
           k == loc[t]
<1>5. /\ k \in LocRec /\ k.inwait = loc[t].inwait /\ k.save = loc[t].save
        /\ k.spin = loc[t].spin /\ k.then = loc[t].then
  BY <1>1, <1>2, <1>3
<1>6. Moves(t, l, [om[mon[t]] EXCEPT !.owner = t], k)
  BY <1>1, <1>2, <1>3 DEF Moves, Enter_cas, Go, Set, this, EnterReturn, Inv, Typing
<1> HIDE DEF k
<1>7. l \in Labels \ Inflation
  BY <1>1, <1>2, <1>3, LabelSets DEF Control, EnterReturn
<1>8. pc'[t] = l /\ loc'[t] = k /\ held' = held /\ boxes' = boxes
  BY <1>6, <1>1, <1>2, <1>3 DEF Moves, objectVars, Inv, Typing
<1>9. Control(t)'
  BY <1>1, <1>2, <1>3, <1>5, <1>8, ThreadsAssumption DEF Control, EnterReturn
<1>10. Depths(t)'
  BY <1>1, <1>2, <1>3, <1>5, <1>8, ThreadsAssumption, DepthAssumption DEF Control, Depths,
     Trying, Extra, Has, InEnterI, Where, Releasing, Unboxed, Top, Real, Depth, EnterReturn
<1>11. /\ Has(t)' /\ (InEnterI(t)' <=> InEnterI(t))
        /\ (~loc[t].inwait => \/ Depth(t) = 1 /\ Real(t, 1) /\ ~Trying(t)' /\ ~Extra(t)'
                              \/ Depth(t) = 0 /\ Extra(t)' /\ ~Trying(t)')
  BY <1>1, <1>2, <1>3, <1>5, <1>8, ThreadsAssumption, DepthAssumption DEF Control, Depths,
     Trying, Extra, Has, InEnterI, Where, Releasing, Unboxed, Top, Real, Depth, EnterReturn
<1> HIDE DEF l
<1> QED
  BY <1>1, <1>2, <1>3, <1>5, <1>6, <1>7, <1>9, <1>10, <1>11, AcquireStep

\* EnterI prepares its node.
LEMMA EnqueueKeeps ==
  ASSUME Inv, NEW t \in Threads, Enqueue(t), UNCHANGED objectVars
  PROVE  Inv'
<1>1. pc[t] = "enqueue" /\ pc[t] \notin Outside
  BY DEF Enqueue, Outside, this
<1>2. /\ mon[t] \in Monitors /\ om[mon[t]] \in MonitorRec /\ loc[t] \in LocRec
      /\ Control(t) /\ Depths(t) /\ Depth(t) \in Nat /\ (Has(t) <=> om[mon[t]].owner = t)
  BY <1>1, AtMonitor
<1> DEFINE l == "push"
           q == om[mon[t]]
           k == [loc[t] EXCEPT !.nxt = First(om[mon[t]].cxq)]
<1>3. q \in MonitorRec /\ CoreSame(q, om[mon[t]])
  BY <1>1, <1>2, NoField DEF NT
<1>4. /\ k \in LocRec /\ k.inwait = loc[t].inwait /\ k.save = loc[t].save
        /\ k.spin = loc[t].spin /\ k.then = loc[t].then
  BY <1>1, <1>2, NxtLoc, ListFields, Lists DEF NT
<1>5. Moves(t, l, q, k)
  <2>1. node' \in [Threads -> NodeRec]
    BY <1>1, <1>2 DEF Enqueue, NodeRec, Inv, Typing, this
  <2> QED
    BY <1>1, <1>2, <2>1 DEF Moves, Enqueue, Go, Set, this, Inv, Typing
<1> HIDE DEF q, k
<1>6. l \in Labels \ Inflation
  BY <1>1, <1>2, LabelSets DEF Control
<1>7. pc'[t] = l /\ loc'[t] = k /\ held' = held /\ boxes' = boxes
  BY <1>5, <1>1, <1>2 DEF Moves, objectVars, Inv, Typing
<1>8. Control(t)'
  BY <1>1, <1>2, <1>4, <1>7, ThreadsAssumption DEF Control
<1>9. Depths(t)'
  BY <1>1, <1>2, <1>4, <1>7, ThreadsAssumption, DepthAssumption DEF Control, Depths, Trying,
     Extra, Has, InEnterI, Where, Releasing, Unboxed, Top, Real, Depth
<1>10. /\ (Trying(t)' <=> Trying(t)) /\ (Extra(t)' <=> Extra(t))
        /\ (Has(t)' <=> Has(t)) /\ (InEnterI(t)' <=> InEnterI(t))
        /\ (Unboxed(t)' => Unboxed(t))
  BY <1>1, <1>2, <1>4, <1>7 DEF Control, Depths, Trying, Extra, Has, InEnterI, Where,
     Releasing, Unboxed, Top, Real, Depth
<1>11. Quiet(t)
  BY <1>4, <1>7, <1>8, <1>9, <1>10 DEF Quiet
<1> HIDE DEF l
<1> QED
  BY <1>1, <1>3, <1>4, <1>5, <1>6, <1>10, <1>11, QuietStep

\* EnterI pushes its node on _cxq.
LEMMA PushKeeps ==
  ASSUME Inv, NEW t \in Threads, Push(t), UNCHANGED objectVars
  PROVE  Inv'
<1>1. pc[t] = "push" /\ pc[t] \notin Outside
  BY DEF Push, Outside, this
<1>2. /\ mon[t] \in Monitors /\ om[mon[t]] \in MonitorRec /\ loc[t] \in LocRec
      /\ Control(t) /\ Depths(t) /\ Depth(t) \in Nat /\ (Has(t) <=> om[mon[t]].owner = t)
  BY <1>1, AtMonitor
<1> DEFINE l == IF loc[t].nxt = None THEN "responsible" ELSE "contend"
           q == [om[mon[t]] EXCEPT !.cxq = <<t>> \o @]
           k == loc[t]
<1>3. q \in MonitorRec /\ CoreSame(q, om[mon[t]])
  BY <1>1, <1>2, CxqField, ListFields, Lists DEF NT
<1>4. /\ k \in LocRec /\ k.inwait = loc[t].inwait /\ k.save = loc[t].save
        /\ k.spin = loc[t].spin /\ k.then = loc[t].then
  BY <1>1, <1>2
<1>5. Moves(t, l, q, k)
  BY <1>1, <1>2 DEF Moves, Push, Go, Set, this, Inv, Typing
<1> HIDE DEF q, k
<1>6. l \in Labels \ Inflation
  BY <1>1, <1>2, LabelSets DEF Control
<1>7. pc'[t] = l /\ loc'[t] = k /\ held' = held /\ boxes' = boxes
  BY <1>5, <1>1, <1>2 DEF Moves, objectVars, Inv, Typing
<1>8. Control(t)'
  BY <1>1, <1>2, <1>4, <1>7, ThreadsAssumption DEF Control
<1>9. Depths(t)'
  BY <1>1, <1>2, <1>4, <1>7, ThreadsAssumption, DepthAssumption DEF Control, Depths, Trying,
     Extra, Has, InEnterI, Where, Releasing, Unboxed, Top, Real, Depth
<1>10. /\ (Trying(t)' <=> Trying(t)) /\ (Extra(t)' <=> Extra(t))
        /\ (Has(t)' <=> Has(t)) /\ (InEnterI(t)' <=> InEnterI(t))
        /\ (Unboxed(t)' => Unboxed(t))
  BY <1>1, <1>2, <1>4, <1>7 DEF Control, Depths, Trying, Extra, Has, InEnterI, Where,
     Releasing, Unboxed, Top, Real, Depth
<1>11. Quiet(t)
  BY <1>4, <1>7, <1>8, <1>9, <1>10 DEF Quiet
<1> HIDE DEF l
<1> QED
  BY <1>1, <1>3, <1>4, <1>5, <1>6, <1>10, <1>11, QuietStep

\* The push fails and the lock is tried.
LEMMA Push_failedKeeps ==
  ASSUME Inv, NEW t \in Threads, Push_failed(t), UNCHANGED objectVars
  PROVE  Inv'
<1>1. pc[t] = "push" /\ pc[t] \notin Outside
  BY DEF Push_failed, Outside, this
<1>2. /\ mon[t] \in Monitors /\ om[mon[t]] \in MonitorRec /\ loc[t] \in LocRec
      /\ Control(t) /\ Depths(t) /\ Depth(t) \in Nat /\ (Has(t) <=> om[mon[t]].owner = t)
  BY <1>1, AtMonitor
<1>3. CASE om[mon[t]].owner = None
  <2> DEFINE l == "entered"
             k == [loc[t] EXCEPT !.nxt = First(om[mon[t]].cxq)]
  <2>2. /\ k \in LocRec /\ k.inwait = loc[t].inwait /\ k.save = loc[t].save
          /\ k.spin = loc[t].spin /\ k.then = loc[t].then
    BY <1>1, <1>2, <1>3, NxtLoc, ListFields, Lists DEF NT
  <2>3. Moves(t, l, [om[mon[t]] EXCEPT !.owner = t], k)
    BY <1>1, <1>2, <1>3 DEF Moves, Push_failed, Go, Set, this, TryLock, Inv, Typing
  <2> HIDE DEF k
  <2>4. l \in Labels \ Inflation
    BY <1>1, <1>2, <1>3, LabelSets DEF Control, TryLock
  <2>5. pc'[t] = l /\ loc'[t] = k /\ held' = held /\ boxes' = boxes
    BY <2>3, <1>1, <1>2, <1>3 DEF Moves, objectVars, Inv, Typing
  <2>6. Control(t)'
    BY <1>1, <1>2, <1>3, <2>2, <2>5, ThreadsAssumption DEF Control, TryLock
  <2>7. Depths(t)'
    BY <1>1, <1>2, <1>3, <2>2, <2>5, ThreadsAssumption, DepthAssumption DEF Control, Depths,
       Trying, Extra, Has, InEnterI, Where, Releasing, Unboxed, Top, Real, Depth, TryLock
  <2>8. /\ Has(t)' /\ (InEnterI(t)' <=> InEnterI(t))
          /\ (~loc[t].inwait => \/ Depth(t) = 1 /\ Real(t, 1) /\ ~Trying(t)' /\ ~Extra(t)'
                                \/ Depth(t) = 0 /\ Extra(t)' /\ ~Trying(t)')
    BY <1>1, <1>2, <1>3, <2>2, <2>5, ThreadsAssumption, DepthAssumption DEF Control, Depths,
       Trying, Extra, Has, InEnterI, Where, Releasing, Unboxed, Top, Real, Depth, TryLock
  <2> HIDE DEF l
  <2> QED
    BY <1>1, <1>2, <1>3, <2>2, <2>3, <2>4, <2>6, <2>7, <2>8, AcquireStep
<1>4. CASE om[mon[t]].owner # None
  <2> DEFINE l == "push"
             q == om[mon[t]]
             k == [loc[t] EXCEPT !.nxt = First(om[mon[t]].cxq)]
  <2>1. q \in MonitorRec /\ CoreSame(q, om[mon[t]])
    BY <1>1, <1>2, <1>4, NoField DEF NT
  <2>2. /\ k \in LocRec /\ k.inwait = loc[t].inwait /\ k.save = loc[t].save
          /\ k.spin = loc[t].spin /\ k.then = loc[t].then
    BY <1>1, <1>2, <1>4, NxtLoc, ListFields, Lists DEF NT
  <2>3. Moves(t, l, q, k)
    BY <1>1, <1>2, <1>4 DEF Moves, Push_failed, Go, Set, this, TryLock, Inv, Typing
  <2> HIDE DEF q, k
  <2>4. l \in Labels \ Inflation
    BY <1>1, <1>2, <1>4, LabelSets DEF Control, TryLock
  <2>5. pc'[t] = l /\ loc'[t] = k /\ held' = held /\ boxes' = boxes
    BY <2>3, <1>1, <1>2, <1>4 DEF Moves, objectVars, Inv, Typing
  <2>6. Control(t)'
    BY <1>1, <1>2, <1>4, <2>2, <2>5, ThreadsAssumption DEF Control, TryLock
  <2>7. Depths(t)'
    BY <1>1, <1>2, <1>4, <2>2, <2>5, ThreadsAssumption, DepthAssumption DEF Control, Depths,
       Trying, Extra, Has, InEnterI, Where, Releasing, Unboxed, Top, Real, Depth, TryLock
  <2>8. /\ (Trying(t)' <=> Trying(t)) /\ (Extra(t)' <=> Extra(t))
          /\ (Has(t)' <=> Has(t)) /\ (InEnterI(t)' <=> InEnterI(t))
          /\ (Unboxed(t)' => Unboxed(t))
    BY <1>1, <1>2, <1>4, <2>2, <2>5 DEF Control, Depths, Trying, Extra, Has, InEnterI, Where,
       Releasing, Unboxed, Top, Real, Depth, TryLock
  <2>9. Quiet(t)
    BY <2>2, <2>5, <2>6, <2>7, <2>8 DEF Quiet
  <2> HIDE DEF l
  <2> QED
    BY <1>1, <2>1, <2>2, <2>3, <2>4, <2>8, <2>9, QuietStep
<1> QED
  BY <1>1, <1>2, <1>3, <1>4 DEF Push_failed, this

\* EnterI looks whether it is the first to contend.
LEMMA Responsible_readKeeps ==
  ASSUME Inv, NEW t \in Threads, Responsible_read(t), UNCHANGED objectVars
  PROVE  Inv'
<1>1. pc[t] = "responsible" /\ pc[t] \notin Outside
  BY DEF Responsible_read, Outside, this
<1>2. /\ mon[t] \in Monitors /\ om[mon[t]] \in MonitorRec /\ loc[t] \in LocRec
      /\ Control(t) /\ Depths(t) /\ Depth(t) \in Nat /\ (Has(t) <=> om[mon[t]].owner = t)
  BY <1>1, AtMonitor
<1> DEFINE l == IF om[mon[t]].EntryList = <<>> THEN "responsible_cas" ELSE "contend"
           q == om[mon[t]]
           k == loc[t]
<1>3. q \in MonitorRec /\ CoreSame(q, om[mon[t]])
  BY <1>1, <1>2, NoField DEF NT
<1>4. /\ k \in LocRec /\ k.inwait = loc[t].inwait /\ k.save = loc[t].save
        /\ k.spin = loc[t].spin /\ k.then = loc[t].then
  BY <1>1, <1>2
<1>5. Moves(t, l, q, k)
  BY <1>1, <1>2 DEF Moves, Responsible_read, Go, Set, this, Inv, Typing
<1> HIDE DEF q, k
<1>6. l \in Labels \ Inflation
  BY <1>1, <1>2, LabelSets DEF Control
<1>7. pc'[t] = l /\ loc'[t] = k /\ held' = held /\ boxes' = boxes
  BY <1>5, <1>1, <1>2 DEF Moves, objectVars, Inv, Typing
<1>8. Control(t)'
  BY <1>1, <1>2, <1>4, <1>7, ThreadsAssumption DEF Control
<1>9. Depths(t)'
  BY <1>1, <1>2, <1>4, <1>7, ThreadsAssumption, DepthAssumption DEF Control, Depths, Trying,
     Extra, Has, InEnterI, Where, Releasing, Unboxed, Top, Real, Depth
<1>10. /\ (Trying(t)' <=> Trying(t)) /\ (Extra(t)' <=> Extra(t))
        /\ (Has(t)' <=> Has(t)) /\ (InEnterI(t)' <=> InEnterI(t))
        /\ (Unboxed(t)' => Unboxed(t))
  BY <1>1, <1>2, <1>4, <1>7 DEF Control, Depths, Trying, Extra, Has, InEnterI, Where,
     Releasing, Unboxed, Top, Real, Depth
<1>11. Quiet(t)
  BY <1>4, <1>7, <1>8, <1>9, <1>10 DEF Quiet
<1> HIDE DEF l
<1> QED
  BY <1>1, <1>3, <1>4, <1>5, <1>6, <1>10, <1>11, QuietStep

\* EnterI offers to be the Responsible thread.
LEMMA Responsible_casKeeps ==
  ASSUME Inv, NEW t \in Threads, Responsible_cas(t), UNCHANGED objectVars
  PROVE  Inv'
<1>1. pc[t] = "responsible_cas" /\ pc[t] \notin Outside
  BY DEF Responsible_cas, Outside, this
<1>2. /\ mon[t] \in Monitors /\ om[mon[t]] \in MonitorRec /\ loc[t] \in LocRec
      /\ Control(t) /\ Depths(t) /\ Depth(t) \in Nat /\ (Has(t) <=> om[mon[t]].owner = t)
  BY <1>1, AtMonitor
<1> DEFINE l == "contend"
           q == [om[mon[t]] EXCEPT !.Responsible = IF @ = None THEN t ELSE @]
           k == loc[t]
<1>3. q \in MonitorRec /\ CoreSame(q, om[mon[t]])
  BY <1>1, <1>2, ResponsibleField, ListFields DEF NT
<1>4. /\ k \in LocRec /\ k.inwait = loc[t].inwait /\ k.save = loc[t].save
        /\ k.spin = loc[t].spin /\ k.then = loc[t].then
  BY <1>1, <1>2
<1>5. Moves(t, l, q, k)
  BY <1>1, <1>2 DEF Moves, Responsible_cas, Go, Set, this, Inv, Typing
<1> HIDE DEF q, k
<1>6. l \in Labels \ Inflation
  BY <1>1, <1>2, LabelSets DEF Control
<1>7. pc'[t] = l /\ loc'[t] = k /\ held' = held /\ boxes' = boxes
  BY <1>5, <1>1, <1>2 DEF Moves, objectVars, Inv, Typing
<1>8. Control(t)'
  BY <1>1, <1>2, <1>4, <1>7, ThreadsAssumption DEF Control
<1>9. Depths(t)'
  BY <1>1, <1>2, <1>4, <1>7, ThreadsAssumption, DepthAssumption DEF Control, Depths, Trying,
     Extra, Has, InEnterI, Where, Releasing, Unboxed, Top, Real, Depth
<1>10. /\ (Trying(t)' <=> Trying(t)) /\ (Extra(t)' <=> Extra(t))
        /\ (Has(t)' <=> Has(t)) /\ (InEnterI(t)' <=> InEnterI(t))
        /\ (Unboxed(t)' => Unboxed(t))
  BY <1>1, <1>2, <1>4, <1>7 DEF Control, Depths, Trying, Extra, Has, InEnterI, Where,
     Releasing, Unboxed, Top, Real, Depth
<1>11. Quiet(t)
  BY <1>4, <1>7, <1>8, <1>9, <1>10 DEF Quiet
<1> HIDE DEF l
<1> QED
  BY <1>1, <1>3, <1>4, <1>5, <1>6, <1>10, <1>11, QuietStep

\* EnterI tries the lock before it parks.
LEMMA ContendKeeps ==
  ASSUME Inv, NEW t \in Threads, Contend(t), UNCHANGED objectVars
  PROVE  Inv'
<1>1. pc[t] = "contend" /\ pc[t] \notin Outside
  BY DEF Contend, Outside, this
<1>2. /\ mon[t] \in Monitors /\ om[mon[t]] \in MonitorRec /\ loc[t] \in LocRec
      /\ Control(t) /\ Depths(t) /\ Depth(t) \in Nat /\ (Has(t) <=> om[mon[t]].owner = t)
  BY <1>1, AtMonitor
<1>3. CASE om[mon[t]].owner = None
  <2> DEFINE l == "egress"
             k == loc[t]
  <2>2. /\ k \in LocRec /\ k.inwait = loc[t].inwait /\ k.save = loc[t].save
          /\ k.spin = loc[t].spin /\ k.then = loc[t].then
    BY <1>1, <1>2, <1>3
  <2>3. Moves(t, l, [om[mon[t]] EXCEPT !.owner = t], k)
    BY <1>1, <1>2, <1>3 DEF Moves, Contend, Go, Set, this, TryLock, Inv, Typing
  <2> HIDE DEF k
  <2>4. l \in Labels \ Inflation
    BY <1>1, <1>2, <1>3, LabelSets DEF Control, TryLock
  <2>5. pc'[t] = l /\ loc'[t] = k /\ held' = held /\ boxes' = boxes
    BY <2>3, <1>1, <1>2, <1>3 DEF Moves, objectVars, Inv, Typing
  <2>6. Control(t)'
    BY <1>1, <1>2, <1>3, <2>2, <2>5, ThreadsAssumption DEF Control, TryLock
  <2>7. Depths(t)'
    BY <1>1, <1>2, <1>3, <2>2, <2>5, ThreadsAssumption, DepthAssumption DEF Control, Depths,
       Trying, Extra, Has, InEnterI, Where, Releasing, Unboxed, Top, Real, Depth, TryLock
  <2>8. /\ Has(t)' /\ (InEnterI(t)' <=> InEnterI(t))
          /\ (~loc[t].inwait => \/ Depth(t) = 1 /\ Real(t, 1) /\ ~Trying(t)' /\ ~Extra(t)'
                                \/ Depth(t) = 0 /\ Extra(t)' /\ ~Trying(t)')
    BY <1>1, <1>2, <1>3, <2>2, <2>5, ThreadsAssumption, DepthAssumption DEF Control, Depths,
       Trying, Extra, Has, InEnterI, Where, Releasing, Unboxed, Top, Real, Depth, TryLock
  <2> HIDE DEF l
  <2> QED
    BY <1>1, <1>2, <1>3, <2>2, <2>3, <2>4, <2>6, <2>7, <2>8, AcquireStep
<1>4. CASE om[mon[t]].owner # None
  <2> DEFINE l == "park?"
             q == om[mon[t]]
             k == loc[t]
  <2>1. q \in MonitorRec /\ CoreSame(q, om[mon[t]])
    BY <1>1, <1>2, <1>4, NoField DEF NT
  <2>2. /\ k \in LocRec /\ k.inwait = loc[t].inwait /\ k.save = loc[t].save
          /\ k.spin = loc[t].spin /\ k.then = loc[t].then
    BY <1>1, <1>2, <1>4
  <2>3. Moves(t, l, q, k)
    BY <1>1, <1>2, <1>4 DEF Moves, Contend, Go, Set, this, TryLock, Inv, Typing
  <2> HIDE DEF q, k
  <2>4. l \in Labels \ Inflation
    BY <1>1, <1>2, <1>4, LabelSets DEF Control, TryLock
  <2>5. pc'[t] = l /\ loc'[t] = k /\ held' = held /\ boxes' = boxes
    BY <2>3, <1>1, <1>2, <1>4 DEF Moves, objectVars, Inv, Typing
  <2>6. Control(t)'
    BY <1>1, <1>2, <1>4, <2>2, <2>5, ThreadsAssumption DEF Control, TryLock
  <2>7. Depths(t)'
    BY <1>1, <1>2, <1>4, <2>2, <2>5, ThreadsAssumption, DepthAssumption DEF Control, Depths,
       Trying, Extra, Has, InEnterI, Where, Releasing, Unboxed, Top, Real, Depth, TryLock
  <2>8. /\ (Trying(t)' <=> Trying(t)) /\ (Extra(t)' <=> Extra(t))
          /\ (Has(t)' <=> Has(t)) /\ (InEnterI(t)' <=> InEnterI(t))
          /\ (Unboxed(t)' => Unboxed(t))
    BY <1>1, <1>2, <1>4, <2>2, <2>5 DEF Control, Depths, Trying, Extra, Has, InEnterI, Where,
       Releasing, Unboxed, Top, Real, Depth, TryLock
  <2>9. Quiet(t)
    BY <2>2, <2>5, <2>6, <2>7, <2>8 DEF Quiet
  <2> HIDE DEF l
  <2> QED
    BY <1>1, <2>1, <2>2, <2>3, <2>4, <2>8, <2>9, QuietStep
<1> QED
  BY <1>1, <1>2, <1>3, <1>4 DEF Contend, this

\* EnterI chooses how to park.
LEMMA Park_kindKeeps ==
  ASSUME Inv, NEW t \in Threads, Park_kind(t), UNCHANGED objectVars
  PROVE  Inv'
<1>1. pc[t] = "park?" /\ pc[t] \notin Outside
  BY DEF Park_kind, Outside, this
<1>2. /\ mon[t] \in Monitors /\ om[mon[t]] \in MonitorRec /\ loc[t] \in LocRec
      /\ Control(t) /\ Depths(t) /\ Depth(t) \in Nat /\ (Has(t) <=> om[mon[t]].owner = t)
  BY <1>1, AtMonitor
<1> DEFINE l == IF om[mon[t]].Responsible = t THEN "park_timed" ELSE "park"
           q == om[mon[t]]
           k == loc[t]
<1>3. q \in MonitorRec /\ CoreSame(q, om[mon[t]])
  BY <1>1, <1>2, NoField DEF NT
<1>4. /\ k \in LocRec /\ k.inwait = loc[t].inwait /\ k.save = loc[t].save
        /\ k.spin = loc[t].spin /\ k.then = loc[t].then
  BY <1>1, <1>2
<1>5. Moves(t, l, q, k)
  BY <1>1, <1>2 DEF Moves, Park_kind, Go, Set, this, Inv, Typing
<1> HIDE DEF q, k
<1>6. l \in Labels \ Inflation
  BY <1>1, <1>2, LabelSets DEF Control
<1>7. pc'[t] = l /\ loc'[t] = k /\ held' = held /\ boxes' = boxes
  BY <1>5, <1>1, <1>2 DEF Moves, objectVars, Inv, Typing
<1>8. Control(t)'
  BY <1>1, <1>2, <1>4, <1>7, ThreadsAssumption DEF Control
<1>9. Depths(t)'
  BY <1>1, <1>2, <1>4, <1>7, ThreadsAssumption, DepthAssumption DEF Control, Depths, Trying,
     Extra, Has, InEnterI, Where, Releasing, Unboxed, Top, Real, Depth
<1>10. /\ (Trying(t)' <=> Trying(t)) /\ (Extra(t)' <=> Extra(t))
        /\ (Has(t)' <=> Has(t)) /\ (InEnterI(t)' <=> InEnterI(t))
        /\ (Unboxed(t)' => Unboxed(t))
  BY <1>1, <1>2, <1>4, <1>7 DEF Control, Depths, Trying, Extra, Has, InEnterI, Where,
     Releasing, Unboxed, Top, Real, Depth
<1>11. Quiet(t)
  BY <1>4, <1>7, <1>8, <1>9, <1>10 DEF Quiet
<1> HIDE DEF l
<1> QED
  BY <1>1, <1>3, <1>4, <1>5, <1>6, <1>10, <1>11, QuietStep

\* EnterI parks.
LEMMA ParkKeeps ==
  ASSUME Inv, NEW t \in Threads, Park(t), UNCHANGED objectVars
  PROVE  Inv'
<1>1. pc[t] \in {"park", "park_timed"} /\ pc[t] \notin Outside
  BY DEF Park, Outside, this
<1>2. /\ mon[t] \in Monitors /\ om[mon[t]] \in MonitorRec /\ loc[t] \in LocRec
      /\ Control(t) /\ Depths(t) /\ Depth(t) \in Nat /\ (Has(t) <=> om[mon[t]].owner = t)
  BY <1>1, AtMonitor
<1> DEFINE l == "woken"
           q == om[mon[t]]
           k == loc[t]
<1>3. q \in MonitorRec /\ CoreSame(q, om[mon[t]])
  BY <1>1, <1>2, NoField DEF NT
<1>4. /\ k \in LocRec /\ k.inwait = loc[t].inwait /\ k.save = loc[t].save
        /\ k.spin = loc[t].spin /\ k.then = loc[t].then
  BY <1>1, <1>2
<1>5. Moves(t, l, q, k)
  BY <1>1, <1>2 DEF Moves, Park, Go, Set, this, Inv, Typing
<1> HIDE DEF q, k
<1>6. l \in Labels \ Inflation
  BY <1>1, <1>2, LabelSets DEF Control
<1>7. pc'[t] = l /\ loc'[t] = k /\ held' = held /\ boxes' = boxes
  BY <1>5, <1>1, <1>2 DEF Moves, objectVars, Inv, Typing
<1>8. Control(t)'
  BY <1>1, <1>2, <1>4, <1>7, ThreadsAssumption DEF Control
<1>9. Depths(t)'
  BY <1>1, <1>2, <1>4, <1>7, ThreadsAssumption, DepthAssumption DEF Control, Depths, Trying,
     Extra, Has, InEnterI, Where, Releasing, Unboxed, Top, Real, Depth
<1>10. /\ (Trying(t)' <=> Trying(t)) /\ (Extra(t)' <=> Extra(t))
        /\ (Has(t)' <=> Has(t)) /\ (InEnterI(t)' <=> InEnterI(t))
        /\ (Unboxed(t)' => Unboxed(t))
  BY <1>1, <1>2, <1>4, <1>7 DEF Control, Depths, Trying, Extra, Has, InEnterI, Where,
     Releasing, Unboxed, Top, Real, Depth
<1>11. Quiet(t)
  BY <1>4, <1>7, <1>8, <1>9, <1>10 DEF Quiet
<1> HIDE DEF l
<1> QED
  BY <1>1, <1>3, <1>4, <1>5, <1>6, <1>10, <1>11, QuietStep

\* EnterI tries the lock and spins after a wakeup.
LEMMA WokenKeeps ==
  ASSUME Inv, NEW t \in Threads, Woken(t), UNCHANGED objectVars
  PROVE  Inv'
<1>1. pc[t] = "woken" /\ pc[t] \notin Outside
  BY DEF Woken, Outside, this
<1>2. /\ mon[t] \in Monitors /\ om[mon[t]] \in MonitorRec /\ loc[t] \in LocRec
      /\ Control(t) /\ Depths(t) /\ Depth(t) \in Nat /\ (Has(t) <=> om[mon[t]].owner = t)
  BY <1>1, AtMonitor
<1>3. CASE om[mon[t]].owner = None
  <2> DEFINE l == "egress"
             k == loc[t]
  <2>2. /\ k \in LocRec /\ k.inwait = loc[t].inwait /\ k.save = loc[t].save
          /\ k.spin = loc[t].spin /\ k.then = loc[t].then
    BY <1>1, <1>2, <1>3
  <2>3. Moves(t, l, [om[mon[t]] EXCEPT !.owner = t], k)
    BY <1>1, <1>2, <1>3 DEF Moves, Woken, Go, Set, this, Inv, Typing
  <2> HIDE DEF k
  <2>4. l \in Labels \ Inflation
    BY <1>1, <1>2, <1>3, LabelSets DEF Control
  <2>5. pc'[t] = l /\ loc'[t] = k /\ held' = held /\ boxes' = boxes
    BY <2>3, <1>1, <1>2, <1>3 DEF Moves, objectVars, Inv, Typing
  <2>6. Control(t)'
    BY <1>1, <1>2, <1>3, <2>2, <2>5, ThreadsAssumption DEF Control
  <2>7. Depths(t)'
    BY <1>1, <1>2, <1>3, <2>2, <2>5, ThreadsAssumption, DepthAssumption DEF Control, Depths,
       Trying, Extra, Has, InEnterI, Where, Releasing, Unboxed, Top, Real, Depth
  <2>8. /\ Has(t)' /\ (InEnterI(t)' <=> InEnterI(t))
          /\ (~loc[t].inwait => \/ Depth(t) = 1 /\ Real(t, 1) /\ ~Trying(t)' /\ ~Extra(t)'
                                \/ Depth(t) = 0 /\ Extra(t)' /\ ~Trying(t)')
    BY <1>1, <1>2, <1>3, <2>2, <2>5, ThreadsAssumption, DepthAssumption DEF Control, Depths,
       Trying, Extra, Has, InEnterI, Where, Releasing, Unboxed, Top, Real, Depth
  <2> HIDE DEF l
  <2> QED
    BY <1>1, <1>2, <1>3, <2>2, <2>3, <2>4, <2>6, <2>7, <2>8, AcquireStep
<1>4. CASE om[mon[t]].owner # None
  <2> DEFINE l == "spin"
             q == om[mon[t]]
             k == [loc[t] EXCEPT !.spin = "woken"]
  <2>1. q \in MonitorRec /\ CoreSame(q, om[mon[t]])
    BY <1>1, <1>2, <1>4, NoField DEF NT
  <2>2. /\ k \in LocRec /\ k.inwait = loc[t].inwait /\ k.save = loc[t].save
          /\ k.spin = "woken" /\ k.then = loc[t].then
    BY <1>1, <1>2, <1>4, SpinLoc DEF NT
  <2>3. Moves(t, l, q, k)
    BY <1>1, <1>2, <1>4 DEF Moves, Woken, Go, Set, this, Spin, Inv, Typing
  <2> HIDE DEF q, k
  <2>4. l \in Labels \ Inflation
    BY <1>1, <1>2, <1>4, LabelSets DEF Control, Spin
  <2>5. pc'[t] = l /\ loc'[t] = k /\ held' = held /\ boxes' = boxes
    BY <2>3, <1>1, <1>2, <1>4 DEF Moves, objectVars, Inv, Typing
  <2>6. Control(t)'
    BY <1>1, <1>2, <1>4, <2>2, <2>5, ThreadsAssumption DEF Control, Spin
  <2>7. Depths(t)'
    BY <1>1, <1>2, <1>4, <2>2, <2>5, ThreadsAssumption, DepthAssumption DEF Control, Depths,
       Trying, Extra, Has, InEnterI, Where, Releasing, Unboxed, Top, Real, Depth, Spin
  <2>8. /\ (Trying(t)' <=> Trying(t)) /\ (Extra(t)' <=> Extra(t))
          /\ (Has(t)' <=> Has(t)) /\ (InEnterI(t)' <=> InEnterI(t))
          /\ (Unboxed(t)' => Unboxed(t))
    BY <1>1, <1>2, <1>4, <2>2, <2>5 DEF Control, Depths, Trying, Extra, Has, InEnterI, Where,
       Releasing, Unboxed, Top, Real, Depth, Spin
  <2>9. Quiet(t)
    BY <2>2, <2>5, <2>6, <2>7, <2>8 DEF Quiet
  <2> HIDE DEF l
  <2> QED
    BY <1>1, <2>1, <2>2, <2>3, <2>4, <2>8, <2>9, QuietStep
<1> QED
  BY <1>1, <1>2, <1>3, <1>4 DEF Woken, this

\* A futile wakeup clears _succ.
LEMMA FutileKeeps ==
  ASSUME Inv, NEW t \in Threads, Futile(t), UNCHANGED objectVars
  PROVE  Inv'
<1>1. pc[t] = "futile" /\ pc[t] \notin Outside
  BY DEF Futile, Outside, this
<1>2. /\ mon[t] \in Monitors /\ om[mon[t]] \in MonitorRec /\ loc[t] \in LocRec
      /\ Control(t) /\ Depths(t) /\ Depth(t) \in Nat /\ (Has(t) <=> om[mon[t]].owner = t)
  BY <1>1, AtMonitor
<1>3. CASE om[mon[t]].succ = t
  <2> DEFINE l == "clearing"
             q == om[mon[t]]
             k == [loc[t] EXCEPT !.spin = None, !.then = "contend"]
  <2>1. q \in MonitorRec /\ CoreSame(q, om[mon[t]])
    BY <1>1, <1>2, <1>3, NoField DEF NT
  <2>2. /\ k \in LocRec /\ k.inwait = loc[t].inwait /\ k.save = loc[t].save
          /\ k.spin = None /\ k.then = "contend"
    <3>1. "contend" \in Labels BY DEF Labels
    <3> QED
      BY <1>1, <1>2, <1>3, <3>1, SpinThenLoc DEF NT
  <2>3. Moves(t, l, q, k)
    BY <1>1, <1>2, <1>3 DEF Moves, Futile, Go, Set, this, ClearSucc, Inv, Typing
  <2> HIDE DEF q, k
  <2>4. l \in Labels \ Inflation
    BY <1>1, <1>2, <1>3, LabelSets DEF Control, ClearSucc
  <2>5. pc'[t] = l /\ loc'[t] = k /\ held' = held /\ boxes' = boxes
    BY <2>3, <1>1, <1>2, <1>3 DEF Moves, objectVars, Inv, Typing
  <2>6. Control(t)'
    BY <1>1, <1>2, <1>3, <2>2, <2>5, ThreadsAssumption DEF Control, ClearSucc
  <2>7. Depths(t)'
    BY <1>1, <1>2, <1>3, <2>2, <2>5, ThreadsAssumption, DepthAssumption DEF Control, Depths,
       Trying, Extra, Has, InEnterI, Where, Releasing, Unboxed, Top, Real, Depth, ClearSucc
  <2>8. /\ (Trying(t)' <=> Trying(t)) /\ (Extra(t)' <=> Extra(t))
          /\ (Has(t)' <=> Has(t)) /\ (InEnterI(t)' <=> InEnterI(t))
          /\ (Unboxed(t)' => Unboxed(t))
    BY <1>1, <1>2, <1>3, <2>2, <2>5 DEF Control, Depths, Trying, Extra, Has, InEnterI, Where,
       Releasing, Unboxed, Top, Real, Depth, ClearSucc
  <2>9. Quiet(t)
    BY <2>2, <2>5, <2>6, <2>7, <2>8 DEF Quiet
  <2> HIDE DEF l
  <2> QED
    BY <1>1, <2>1, <2>2, <2>3, <2>4, <2>8, <2>9, QuietStep
<1>4. CASE om[mon[t]].succ # t
  <2> DEFINE l == "contend"
             q == om[mon[t]]
             k == [loc[t] EXCEPT !.spin = None]
  <2>1. q \in MonitorRec /\ CoreSame(q, om[mon[t]])
    BY <1>1, <1>2, <1>4, NoField DEF NT
  <2>2. /\ k \in LocRec /\ k.inwait = loc[t].inwait /\ k.save = loc[t].save
          /\ k.spin = None /\ k.then = loc[t].then
    BY <1>1, <1>2, <1>4, SpinLoc DEF NT
  <2>3. Moves(t, l, q, k)
    BY <1>1, <1>2, <1>4 DEF Moves, Futile, Go, Set, this, ClearSucc, Inv, Typing
  <2> HIDE DEF q, k
  <2>4. l \in Labels \ Inflation
    BY <1>1, <1>2, <1>4, LabelSets DEF Control, ClearSucc
  <2>5. pc'[t] = l /\ loc'[t] = k /\ held' = held /\ boxes' = boxes
    BY <2>3, <1>1, <1>2, <1>4 DEF Moves, objectVars, Inv, Typing
  <2>6. Control(t)'
    BY <1>1, <1>2, <1>4, <2>2, <2>5, ThreadsAssumption DEF Control, ClearSucc
  <2>7. Depths(t)'
    BY <1>1, <1>2, <1>4, <2>2, <2>5, ThreadsAssumption, DepthAssumption DEF Control, Depths,
       Trying, Extra, Has, InEnterI, Where, Releasing, Unboxed, Top, Real, Depth, ClearSucc
  <2>8. /\ (Trying(t)' <=> Trying(t)) /\ (Extra(t)' <=> Extra(t))
          /\ (Has(t)' <=> Has(t)) /\ (InEnterI(t)' <=> InEnterI(t))
          /\ (Unboxed(t)' => Unboxed(t))
    BY <1>1, <1>2, <1>4, <2>2, <2>5 DEF Control, Depths, Trying, Extra, Has, InEnterI, Where,
       Releasing, Unboxed, Top, Real, Depth, ClearSucc
  <2>9. Quiet(t)
    BY <2>2, <2>5, <2>6, <2>7, <2>8 DEF Quiet
  <2> HIDE DEF l
  <2> QED
    BY <1>1, <2>1, <2>2, <2>3, <2>4, <2>8, <2>9, QuietStep
<1> QED
  BY <1>1, <1>2, <1>3, <1>4 DEF Futile, this

\* EnterI unlinks its node.
LEMMA EgressKeeps ==
  ASSUME Inv, NEW t \in Threads, Egress(t), UNCHANGED objectVars
  PROVE  Inv'
<1>1. pc[t] = "egress" /\ pc[t] \notin Outside
  BY DEF Egress, Outside, this
<1>2. /\ mon[t] \in Monitors /\ om[mon[t]] \in MonitorRec /\ loc[t] \in LocRec
      /\ Control(t) /\ Depths(t) /\ Depth(t) \in Nat /\ (Has(t) <=> om[mon[t]].owner = t)
  BY <1>1, AtMonitor
<1>3. CASE om[mon[t]].succ = t
  <2> DEFINE l == "clearing"
             q == Unlinked(t)
             k == [loc[t] EXCEPT !.spin = None, !.then = "entered"]
  <2>1. q \in MonitorRec /\ CoreSame(q, om[mon[t]])
    BY <1>1, <1>2, <1>3, UnlinkedFields DEF NT
  <2>2. /\ k \in LocRec /\ k.inwait = loc[t].inwait /\ k.save = loc[t].save
          /\ k.spin = None /\ k.then = "entered"
    <3>1. "entered" \in Labels BY DEF Labels
    <3> QED
      BY <1>1, <1>2, <1>3, <3>1, SpinThenLoc DEF NT
  <2>3. Moves(t, l, q, k)
    <3>2. node' = [node EXCEPT ![t].TState = "RUN"]
      BY <1>1, <1>2, <1>3 DEF Egress, this
    <3>1. node' \in [Threads -> NodeRec]
      BY <3>2, NodeState, NodeNotify
    <3> QED
      BY <1>1, <1>2, <1>3, <3>1 DEF Moves, Egress, Go, Set, this, ClearSucc, Inv, Typing
  <2> HIDE DEF q, k
  <2>4. l \in Labels \ Inflation
    BY <1>1, <1>2, <1>3, LabelSets DEF Control, ClearSucc
  <2>5. pc'[t] = l /\ loc'[t] = k /\ held' = held /\ boxes' = boxes
    BY <2>3, <1>1, <1>2, <1>3 DEF Moves, objectVars, Inv, Typing
  <2>6. Control(t)'
    BY <1>1, <1>2, <1>3, <2>2, <2>5, ThreadsAssumption DEF Control, ClearSucc
  <2>7. Depths(t)'
    BY <1>1, <1>2, <1>3, <2>2, <2>5, ThreadsAssumption, DepthAssumption DEF Control, Depths,
       Trying, Extra, Has, InEnterI, Where, Releasing, Unboxed, Top, Real, Depth, ClearSucc
  <2>8. /\ (Trying(t)' <=> Trying(t)) /\ (Extra(t)' <=> Extra(t))
          /\ (Has(t)' <=> Has(t)) /\ (InEnterI(t)' <=> InEnterI(t))
          /\ (Unboxed(t)' => Unboxed(t))
    BY <1>1, <1>2, <1>3, <2>2, <2>5 DEF Control, Depths, Trying, Extra, Has, InEnterI, Where,
       Releasing, Unboxed, Top, Real, Depth, ClearSucc
  <2>9. Quiet(t)
    BY <2>2, <2>5, <2>6, <2>7, <2>8 DEF Quiet
  <2> HIDE DEF l
  <2> QED
    BY <1>1, <2>1, <2>2, <2>3, <2>4, <2>8, <2>9, QuietStep
<1>4. CASE om[mon[t]].succ # t
  <2> DEFINE l == "entered"
             q == Unlinked(t)
             k == [loc[t] EXCEPT !.spin = None]
  <2>1. q \in MonitorRec /\ CoreSame(q, om[mon[t]])
    BY <1>1, <1>2, <1>4, UnlinkedFields DEF NT
  <2>2. /\ k \in LocRec /\ k.inwait = loc[t].inwait /\ k.save = loc[t].save
          /\ k.spin = None /\ k.then = loc[t].then
    BY <1>1, <1>2, <1>4, SpinLoc DEF NT
  <2>3. Moves(t, l, q, k)
    <3>2. node' = [node EXCEPT ![t].TState = "RUN"]
      BY <1>1, <1>2, <1>4 DEF Egress, this
    <3>1. node' \in [Threads -> NodeRec]
      BY <3>2, NodeState, NodeNotify
    <3> QED
      BY <1>1, <1>2, <1>4, <3>1 DEF Moves, Egress, Go, Set, this, ClearSucc, Inv, Typing
  <2> HIDE DEF q, k
  <2>4. l \in Labels \ Inflation
    BY <1>1, <1>2, <1>4, LabelSets DEF Control, ClearSucc
  <2>5. pc'[t] = l /\ loc'[t] = k /\ held' = held /\ boxes' = boxes
    BY <2>3, <1>1, <1>2, <1>4 DEF Moves, objectVars, Inv, Typing
  <2>6. Control(t)'
    BY <1>1, <1>2, <1>4, <2>2, <2>5, ThreadsAssumption DEF Control, ClearSucc
  <2>7. Depths(t)'
    BY <1>1, <1>2, <1>4, <2>2, <2>5, ThreadsAssumption, DepthAssumption DEF Control, Depths,
       Trying, Extra, Has, InEnterI, Where, Releasing, Unboxed, Top, Real, Depth, ClearSucc
  <2>8. /\ (Trying(t)' <=> Trying(t)) /\ (Extra(t)' <=> Extra(t))
          /\ (Has(t)' <=> Has(t)) /\ (InEnterI(t)' <=> InEnterI(t))
          /\ (Unboxed(t)' => Unboxed(t))
    BY <1>1, <1>2, <1>4, <2>2, <2>5 DEF Control, Depths, Trying, Extra, Has, InEnterI, Where,
       Releasing, Unboxed, Top, Real, Depth, ClearSucc
  <2>9. Quiet(t)
    BY <2>2, <2>5, <2>6, <2>7, <2>8 DEF Quiet
  <2> HIDE DEF l
  <2> QED
    BY <1>1, <2>1, <2>2, <2>3, <2>4, <2>8, <2>9, QuietStep
<1> QED
  BY <1>1, <1>2, <1>3, <1>4 DEF Egress, this

-----------------------------------------------------------------------------
(* exit *)

\* Exit drops the lock.
LEMMA DropKeeps ==
  ASSUME Inv, NEW t \in Threads, Drop(t), UNCHANGED objectVars
  PROVE  Inv'
<1>1. pc[t] = "drop" /\ pc[t] \notin Outside
  BY DEF Drop, Outside, this
<1>2. /\ mon[t] \in Monitors /\ om[mon[t]] \in MonitorRec /\ loc[t] \in LocRec
      /\ Control(t) /\ Depths(t) /\ Depth(t) \in Nat /\ (Has(t) <=> om[mon[t]].owner = t)
  BY <1>1, AtMonitor
<1> DEFINE l == "exit_EntryList"
<1>5. Moves(t, l, [om[mon[t]] EXCEPT !.owner = None], loc[t])
  BY <1>1, <1>2 DEF Moves, Drop, Go, Set, this, Inv, Typing
<1>6. l \in Labels \ Inflation
  BY <1>1, <1>2, LabelSets DEF Control
<1>7. pc'[t] = l /\ loc'[t] = loc[t] /\ held' = held /\ boxes' = boxes
  BY <1>5, <1>1, <1>2 DEF Moves, objectVars, Inv, Typing
<1>8. Control(t)'
  BY <1>1, <1>2, <1>7, ThreadsAssumption DEF Control
<1>9. Depths(t)'
  BY <1>1, <1>2, <1>7, ThreadsAssumption, DepthAssumption DEF Control, Depths, Trying, Extra,
     Has, InEnterI, Where, Releasing, Unboxed, Top, Real, Depth
<1>10. /\ Has(t) /\ ~Has(t)' /\ Unboxed(t) /\ (InEnterI(t)' <=> InEnterI(t))
        /\ (~loc[t].inwait => Depth(t) = 0 /\ Extra(t) /\ ~Trying(t))
  BY <1>1, <1>2, <1>7 DEF Control, Depths, Trying, Extra, Has, InEnterI, Where, Releasing,
     Unboxed, Top, Real, Depth
<1> HIDE DEF l
<1> QED
  BY <1>1, <1>5, <1>6, <1>8, <1>9, <1>10, ReleaseStep

\* Exit looks at _EntryList.
LEMMA Exit_EntryListKeeps ==
  ASSUME Inv, NEW t \in Threads, Exit_EntryList(t), UNCHANGED objectVars
  PROVE  Inv'
<1>1. pc[t] = "exit_EntryList" /\ pc[t] \notin Outside
  BY DEF Exit_EntryList, Outside, this
<1>2. /\ mon[t] \in Monitors /\ om[mon[t]] \in MonitorRec /\ loc[t] \in LocRec
      /\ Control(t) /\ Depths(t) /\ Depth(t) \in Nat /\ (Has(t) <=> om[mon[t]].owner = t)
  BY <1>1, AtMonitor
<1> DEFINE l == IF om[mon[t]].EntryList = <<>> THEN "exit_cxq" ELSE "exit_succ"
           q == om[mon[t]]
           k == loc[t]
<1>3. q \in MonitorRec /\ CoreSame(q, om[mon[t]])
  BY <1>1, <1>2, NoField DEF NT
<1>4. /\ k \in LocRec /\ k.inwait = loc[t].inwait /\ k.save = loc[t].save
        /\ k.spin = loc[t].spin /\ k.then = loc[t].then
  BY <1>1, <1>2
<1>5. Moves(t, l, q, k)
  BY <1>1, <1>2 DEF Moves, Exit_EntryList, Go, Set, this, Inv, Typing
<1> HIDE DEF q, k
<1>6. l \in Labels \ Inflation
  BY <1>1, <1>2, LabelSets DEF Control
<1>7. pc'[t] = l /\ loc'[t] = k /\ held' = held /\ boxes' = boxes
  BY <1>5, <1>1, <1>2 DEF Moves, objectVars, Inv, Typing
<1>8. Control(t)'
  BY <1>1, <1>2, <1>4, <1>7, ThreadsAssumption DEF Control
<1>9. Depths(t)'
  BY <1>1, <1>2, <1>4, <1>7, ThreadsAssumption, DepthAssumption DEF Control, Depths, Trying,
     Extra, Has, InEnterI, Where, Releasing, Unboxed, Top, Real, Depth
<1>10. /\ (Trying(t)' <=> Trying(t)) /\ (Extra(t)' <=> Extra(t))
        /\ (Has(t)' <=> Has(t)) /\ (InEnterI(t)' <=> InEnterI(t))
        /\ (Unboxed(t)' => Unboxed(t))
  BY <1>1, <1>2, <1>4, <1>7 DEF Control, Depths, Trying, Extra, Has, InEnterI, Where,
     Releasing, Unboxed, Top, Real, Depth
<1>11. Quiet(t)
  BY <1>4, <1>7, <1>8, <1>9, <1>10 DEF Quiet
<1> HIDE DEF l
<1> QED
  BY <1>1, <1>3, <1>4, <1>5, <1>6, <1>10, <1>11, QuietStep

\* Exit looks at _cxq.
LEMMA Exit_cxqKeeps ==
  ASSUME Inv, NEW t \in Threads, Exit_cxq(t), UNCHANGED objectVars
  PROVE  Inv'
<1>1. pc[t] = "exit_cxq" /\ pc[t] \notin Outside
  BY DEF Exit_cxq, Outside, this
<1>2. /\ mon[t] \in Monitors /\ om[mon[t]] \in MonitorRec /\ loc[t] \in LocRec
      /\ Control(t) /\ Depths(t) /\ Depth(t) \in Nat /\ (Has(t) <=> om[mon[t]].owner = t)
  BY <1>1, AtMonitor
<1> DEFINE l == IF om[mon[t]].cxq = <<>> THEN ExitReturn(t) ELSE "exit_succ"
           q == om[mon[t]]
           k == loc[t]
<1>3. q \in MonitorRec /\ CoreSame(q, om[mon[t]])
  BY <1>1, <1>2, NoField DEF NT
<1>4. /\ k \in LocRec /\ k.inwait = loc[t].inwait /\ k.save = loc[t].save
        /\ k.spin = loc[t].spin /\ k.then = loc[t].then
  BY <1>1, <1>2
<1>5. Moves(t, l, q, k)
  BY <1>1, <1>2 DEF Moves, Exit_cxq, Go, Set, this, ExitReturn, Inv, Typing
<1> HIDE DEF q, k
<1>6. l \in Labels \ Inflation
  BY <1>1, <1>2, LabelSets DEF Control, ExitReturn
<1>7. pc'[t] = l /\ loc'[t] = k /\ held' = held /\ boxes' = boxes
  BY <1>5, <1>1, <1>2 DEF Moves, objectVars, Inv, Typing
<1>8. Control(t)'
  BY <1>1, <1>2, <1>4, <1>7, ThreadsAssumption DEF Control, ExitReturn
<1>9. Depths(t)'
  BY <1>1, <1>2, <1>4, <1>7, ThreadsAssumption, DepthAssumption DEF Control, Depths, Trying,
     Extra, Has, InEnterI, Where, Releasing, Unboxed, Top, Real, Depth, ExitReturn
<1>10. /\ (Trying(t)' <=> Trying(t)) /\ (Extra(t)' <=> Extra(t))
        /\ (Has(t)' <=> Has(t)) /\ (InEnterI(t)' <=> InEnterI(t))
        /\ (Unboxed(t)' => Unboxed(t))
  BY <1>1, <1>2, <1>4, <1>7 DEF Control, Depths, Trying, Extra, Has, InEnterI, Where,
     Releasing, Unboxed, Top, Real, Depth, ExitReturn
<1>11. Quiet(t)
  BY <1>4, <1>7, <1>8, <1>9, <1>10 DEF Quiet
<1> HIDE DEF l
<1> QED
  BY <1>1, <1>3, <1>4, <1>5, <1>6, <1>10, <1>11, QuietStep

\* Exit looks at _succ.
LEMMA Exit_succKeeps ==
  ASSUME Inv, NEW t \in Threads, Exit_succ(t), UNCHANGED objectVars
  PROVE  Inv'
<1>1. pc[t] = "exit_succ" /\ pc[t] \notin Outside
  BY DEF Exit_succ, Outside, this
<1>2. /\ mon[t] \in Monitors /\ om[mon[t]] \in MonitorRec /\ loc[t] \in LocRec
      /\ Control(t) /\ Depths(t) /\ Depth(t) \in Nat /\ (Has(t) <=> om[mon[t]].owner = t)
  BY <1>1, AtMonitor
<1> DEFINE l == IF om[mon[t]].succ # None THEN ExitReturn(t) ELSE "exit_cas"
           q == om[mon[t]]
           k == loc[t]
<1>3. q \in MonitorRec /\ CoreSame(q, om[mon[t]])
  BY <1>1, <1>2, NoField DEF NT
<1>4. /\ k \in LocRec /\ k.inwait = loc[t].inwait /\ k.save = loc[t].save
        /\ k.spin = loc[t].spin /\ k.then = loc[t].then
  BY <1>1, <1>2
<1>5. Moves(t, l, q, k)
  BY <1>1, <1>2 DEF Moves, Exit_succ, Go, Set, this, ExitReturn, Inv, Typing
<1> HIDE DEF q, k
<1>6. l \in Labels \ Inflation
  BY <1>1, <1>2, LabelSets DEF Control, ExitReturn
<1>7. pc'[t] = l /\ loc'[t] = k /\ held' = held /\ boxes' = boxes
  BY <1>5, <1>1, <1>2 DEF Moves, objectVars, Inv, Typing
<1>8. Control(t)'
  BY <1>1, <1>2, <1>4, <1>7, ThreadsAssumption DEF Control, ExitReturn
<1>9. Depths(t)'
  BY <1>1, <1>2, <1>4, <1>7, ThreadsAssumption, DepthAssumption DEF Control, Depths, Trying,
     Extra, Has, InEnterI, Where, Releasing, Unboxed, Top, Real, Depth, ExitReturn
<1>10. /\ (Trying(t)' <=> Trying(t)) /\ (Extra(t)' <=> Extra(t))
        /\ (Has(t)' <=> Has(t)) /\ (InEnterI(t)' <=> InEnterI(t))
        /\ (Unboxed(t)' => Unboxed(t))
  BY <1>1, <1>2, <1>4, <1>7 DEF Control, Depths, Trying, Extra, Has, InEnterI, Where,
     Releasing, Unboxed, Top, Real, Depth, ExitReturn
<1>11. Quiet(t)
  BY <1>4, <1>7, <1>8, <1>9, <1>10 DEF Quiet
<1> HIDE DEF l
<1> QED
  BY <1>1, <1>3, <1>4, <1>5, <1>6, <1>10, <1>11, QuietStep

\* Exit takes the lock again to wake a successor.
LEMMA Exit_casKeeps ==
  ASSUME Inv, NEW t \in Threads, Exit_cas(t), UNCHANGED objectVars
  PROVE  Inv'
<1>1. pc[t] = "exit_cas" /\ pc[t] \notin Outside
  BY DEF Exit_cas, Outside, this
<1>2. /\ mon[t] \in Monitors /\ om[mon[t]] \in MonitorRec /\ loc[t] \in LocRec
      /\ Control(t) /\ Depths(t) /\ Depth(t) \in Nat /\ (Has(t) <=> om[mon[t]].owner = t)
  BY <1>1, AtMonitor
<1>3. CASE om[mon[t]].owner # None
  <2> DEFINE l == ExitReturn(t)
             q == om[mon[t]]
             k == loc[t]
  <2>1. q \in MonitorRec /\ CoreSame(q, om[mon[t]])
    BY <1>1, <1>2, <1>3, NoField DEF NT
  <2>2. /\ k \in LocRec /\ k.inwait = loc[t].inwait /\ k.save = loc[t].save
          /\ k.spin = loc[t].spin /\ k.then = loc[t].then
    BY <1>1, <1>2, <1>3
  <2>3. Moves(t, l, q, k)
    BY <1>1, <1>2, <1>3 DEF Moves, Exit_cas, Go, Set, this, TryLock, ExitReturn, Inv, Typing
  <2> HIDE DEF q, k
  <2>4. l \in Labels \ Inflation
    BY <1>1, <1>2, <1>3, LabelSets DEF Control, TryLock, ExitReturn
  <2>5. pc'[t] = l /\ loc'[t] = k /\ held' = held /\ boxes' = boxes
    BY <2>3, <1>1, <1>2, <1>3 DEF Moves, objectVars, Inv, Typing
  <2>6. Control(t)'
    BY <1>1, <1>2, <1>3, <2>2, <2>5, ThreadsAssumption DEF Control, TryLock, ExitReturn
  <2>7. Depths(t)'
    BY <1>1, <1>2, <1>3, <2>2, <2>5, ThreadsAssumption, DepthAssumption DEF Control, Depths,
       Trying, Extra, Has, InEnterI, Where, Releasing, Unboxed, Top, Real, Depth, TryLock,
       ExitReturn
  <2>8. /\ (Trying(t)' <=> Trying(t)) /\ (Extra(t)' <=> Extra(t))
          /\ (Has(t)' <=> Has(t)) /\ (InEnterI(t)' <=> InEnterI(t))
          /\ (Unboxed(t)' => Unboxed(t))
    BY <1>1, <1>2, <1>3, <2>2, <2>5 DEF Control, Depths, Trying, Extra, Has, InEnterI, Where,
       Releasing, Unboxed, Top, Real, Depth, TryLock, ExitReturn
  <2>9. Quiet(t)
    BY <2>2, <2>5, <2>6, <2>7, <2>8 DEF Quiet
  <2> HIDE DEF l
  <2> QED
    BY <1>1, <2>1, <2>2, <2>3, <2>4, <2>8, <2>9, QuietStep
<1>4. CASE om[mon[t]].owner = None /\ om[mon[t]].EntryList = <<>>
  <2> DEFINE l == "drain"
             k == loc[t]
  <2>2. /\ k \in LocRec /\ k.inwait = loc[t].inwait /\ k.save = loc[t].save
          /\ k.spin = loc[t].spin /\ k.then = loc[t].then
    BY <1>1, <1>2, <1>4
  <2>3. Moves(t, l, [om[mon[t]] EXCEPT !.owner = t], k)
    BY <1>1, <1>2, <1>4 DEF Moves, Exit_cas, Go, Set, this, TryLock, Inv, Typing
  <2> HIDE DEF k
  <2>4. l \in Labels \ Inflation
    BY <1>1, <1>2, <1>4, LabelSets DEF Control, TryLock
  <2>5. pc'[t] = l /\ loc'[t] = k /\ held' = held /\ boxes' = boxes
    BY <2>3, <1>1, <1>2, <1>4 DEF Moves, objectVars, Inv, Typing
  <2>6. Control(t)'
    BY <1>1, <1>2, <1>4, <2>2, <2>5, ThreadsAssumption DEF Control, TryLock
  <2>7. Depths(t)'
    BY <1>1, <1>2, <1>4, <2>2, <2>5, ThreadsAssumption, DepthAssumption DEF Control, Depths,
       Trying, Extra, Has, InEnterI, Where, Releasing, Unboxed, Top, Real, Depth, TryLock
  <2>8. /\ Has(t)' /\ (InEnterI(t)' <=> InEnterI(t))
          /\ (~loc[t].inwait => \/ Depth(t) = 1 /\ Real(t, 1) /\ ~Trying(t)' /\ ~Extra(t)'
                                \/ Depth(t) = 0 /\ Extra(t)' /\ ~Trying(t)')
    BY <1>1, <1>2, <1>4, <2>2, <2>5, ThreadsAssumption, DepthAssumption DEF Control, Depths,
       Trying, Extra, Has, InEnterI, Where, Releasing, Unboxed, Top, Real, Depth, TryLock
  <2> HIDE DEF l
  <2> QED
    BY <1>1, <1>2, <1>4, <2>2, <2>3, <2>4, <2>6, <2>7, <2>8, AcquireStep
<1>5. CASE om[mon[t]].owner = None /\ om[mon[t]].EntryList # <<>>
  <2> DEFINE l == "epilog"
             k == [loc[t] EXCEPT !.w = First(om[mon[t]].EntryList)]
  <2>2. /\ k \in LocRec /\ k.inwait = loc[t].inwait /\ k.save = loc[t].save
          /\ k.spin = loc[t].spin /\ k.then = loc[t].then
    BY <1>1, <1>2, <1>5, WLoc, ListFields, Lists DEF NT
  <2>3. Moves(t, l, [om[mon[t]] EXCEPT !.owner = t], k)
    BY <1>1, <1>2, <1>5 DEF Moves, Exit_cas, Go, Set, this, TryLock, Inv, Typing
  <2> HIDE DEF k
  <2>4. l \in Labels \ Inflation
    BY <1>1, <1>2, <1>5, LabelSets DEF Control, TryLock
  <2>5. pc'[t] = l /\ loc'[t] = k /\ held' = held /\ boxes' = boxes
    BY <2>3, <1>1, <1>2, <1>5 DEF Moves, objectVars, Inv, Typing
  <2>6. Control(t)'
    BY <1>1, <1>2, <1>5, <2>2, <2>5, ThreadsAssumption DEF Control, TryLock
  <2>7. Depths(t)'
    BY <1>1, <1>2, <1>5, <2>2, <2>5, ThreadsAssumption, DepthAssumption DEF Control, Depths,
       Trying, Extra, Has, InEnterI, Where, Releasing, Unboxed, Top, Real, Depth, TryLock
  <2>8. /\ Has(t)' /\ (InEnterI(t)' <=> InEnterI(t))
          /\ (~loc[t].inwait => \/ Depth(t) = 1 /\ Real(t, 1) /\ ~Trying(t)' /\ ~Extra(t)'
                                \/ Depth(t) = 0 /\ Extra(t)' /\ ~Trying(t)')
    BY <1>1, <1>2, <1>5, <2>2, <2>5, ThreadsAssumption, DepthAssumption DEF Control, Depths,
       Trying, Extra, Has, InEnterI, Where, Releasing, Unboxed, Top, Real, Depth, TryLock
  <2> HIDE DEF l
  <2> QED
    BY <1>1, <1>2, <1>5, <2>2, <2>3, <2>4, <2>6, <2>7, <2>8, AcquireStep
<1> QED
  BY <1>1, <1>2, <1>3, <1>4, <1>5 DEF Exit_cas, this

\* Exit moves _cxq to _EntryList.
LEMMA DrainKeeps ==
  ASSUME Inv, NEW t \in Threads, Drain(t), UNCHANGED objectVars
  PROVE  Inv'
<1>1. pc[t] = "drain" /\ pc[t] \notin Outside
  BY DEF Drain, Outside, this
<1>2. /\ mon[t] \in Monitors /\ om[mon[t]] \in MonitorRec /\ loc[t] \in LocRec
      /\ Control(t) /\ Depths(t) /\ Depth(t) \in Nat /\ (Has(t) <=> om[mon[t]].owner = t)
  BY <1>1, AtMonitor
<1> DEFINE l == "drained"
           q == [om[mon[t]] EXCEPT !.EntryList = om[mon[t]].cxq, !.cxq = <<>>]
           k == loc[t]
<1>3. q \in MonitorRec /\ CoreSame(q, om[mon[t]])
  BY <1>1, <1>2, DrainFields, ListFields, Lists DEF NT
<1>4. /\ k \in LocRec /\ k.inwait = loc[t].inwait /\ k.save = loc[t].save
        /\ k.spin = loc[t].spin /\ k.then = loc[t].then
  BY <1>1, <1>2
<1>5. Moves(t, l, q, k)
  <2>1. node' \in [Threads -> NodeRec]
    BY <1>1, <1>2, ZenonT(40) DEF Drain, NodeRec, Inv, Typing, this
  <2> QED
    BY <1>1, <1>2, <2>1 DEF Moves, Drain, Go, Set, this, Inv, Typing
<1> HIDE DEF q, k
<1>6. l \in Labels \ Inflation
  BY <1>1, <1>2, LabelSets DEF Control
<1>7. pc'[t] = l /\ loc'[t] = k /\ held' = held /\ boxes' = boxes
  BY <1>5, <1>1, <1>2 DEF Moves, objectVars, Inv, Typing
<1>8. Control(t)'
  BY <1>1, <1>2, <1>4, <1>7, ThreadsAssumption DEF Control
<1>9. Depths(t)'
  BY <1>1, <1>2, <1>4, <1>7, ThreadsAssumption, DepthAssumption DEF Control, Depths, Trying,
     Extra, Has, InEnterI, Where, Releasing, Unboxed, Top, Real, Depth
<1>10. /\ (Trying(t)' <=> Trying(t)) /\ (Extra(t)' <=> Extra(t))
        /\ (Has(t)' <=> Has(t)) /\ (InEnterI(t)' <=> InEnterI(t))
        /\ (Unboxed(t)' => Unboxed(t))
  BY <1>1, <1>2, <1>4, <1>7 DEF Control, Depths, Trying, Extra, Has, InEnterI, Where,
     Releasing, Unboxed, Top, Real, Depth
<1>11. Quiet(t)
  BY <1>4, <1>7, <1>8, <1>9, <1>10 DEF Quiet
<1> HIDE DEF l
<1> QED
  BY <1>1, <1>3, <1>4, <1>5, <1>6, <1>10, <1>11, QuietStep

\* Exit finds nothing to drain.
LEMMA Drain_noneKeeps ==
  ASSUME Inv, NEW t \in Threads, Drain_none(t), UNCHANGED objectVars
  PROVE  Inv'
<1>1. pc[t] = "drain" /\ pc[t] \notin Outside
  BY DEF Drain_none, Outside, this
<1>2. /\ mon[t] \in Monitors /\ om[mon[t]] \in MonitorRec /\ loc[t] \in LocRec
      /\ Control(t) /\ Depths(t) /\ Depth(t) \in Nat /\ (Has(t) <=> om[mon[t]].owner = t)
  BY <1>1, AtMonitor
<1> DEFINE l == "drop"
           q == om[mon[t]]
           k == loc[t]
<1>3. q \in MonitorRec /\ CoreSame(q, om[mon[t]])
  BY <1>1, <1>2, NoField DEF NT
<1>4. /\ k \in LocRec /\ k.inwait = loc[t].inwait /\ k.save = loc[t].save
        /\ k.spin = loc[t].spin /\ k.then = loc[t].then
  BY <1>1, <1>2
<1>5. Moves(t, l, q, k)
  BY <1>1, <1>2 DEF Moves, Drain_none, Go, Set, this, Inv, Typing
<1> HIDE DEF q, k
<1>6. l \in Labels \ Inflation
  BY <1>1, <1>2, LabelSets DEF Control
<1>7. pc'[t] = l /\ loc'[t] = k /\ held' = held /\ boxes' = boxes
  BY <1>5, <1>1, <1>2 DEF Moves, objectVars, Inv, Typing
<1>8. Control(t)'
  BY <1>1, <1>2, <1>4, <1>7, ThreadsAssumption DEF Control
<1>9. Depths(t)'
  BY <1>1, <1>2, <1>4, <1>7, ThreadsAssumption, DepthAssumption DEF Control, Depths, Trying,
     Extra, Has, InEnterI, Where, Releasing, Unboxed, Top, Real, Depth
<1>10. /\ (Trying(t)' <=> Trying(t)) /\ (Extra(t)' <=> Extra(t))
        /\ (Has(t)' <=> Has(t)) /\ (InEnterI(t)' <=> InEnterI(t))
        /\ (Unboxed(t)' => Unboxed(t))
  BY <1>1, <1>2, <1>4, <1>7 DEF Control, Depths, Trying, Extra, Has, InEnterI, Where,
     Releasing, Unboxed, Top, Real, Depth
<1>11. Quiet(t)
  BY <1>4, <1>7, <1>8, <1>9, <1>10 DEF Quiet
<1> HIDE DEF l
<1> QED
  BY <1>1, <1>3, <1>4, <1>5, <1>6, <1>10, <1>11, QuietStep

\* Exit chooses the thread to wake.
LEMMA DrainedKeeps ==
  ASSUME Inv, NEW t \in Threads, Drained(t), UNCHANGED objectVars
  PROVE  Inv'
<1>1. pc[t] = "drained" /\ pc[t] \notin Outside
  BY DEF Drained, Outside, this
<1>2. /\ mon[t] \in Monitors /\ om[mon[t]] \in MonitorRec /\ loc[t] \in LocRec
      /\ Control(t) /\ Depths(t) /\ Depth(t) \in Nat /\ (Has(t) <=> om[mon[t]].owner = t)
  BY <1>1, AtMonitor
<1>3. CASE om[mon[t]].succ # None
  <2> DEFINE l == "drop"
             q == om[mon[t]]
             k == loc[t]
  <2>1. q \in MonitorRec /\ CoreSame(q, om[mon[t]])
    BY <1>1, <1>2, <1>3, NoField DEF NT
  <2>2. /\ k \in LocRec /\ k.inwait = loc[t].inwait /\ k.save = loc[t].save
          /\ k.spin = loc[t].spin /\ k.then = loc[t].then
    BY <1>1, <1>2, <1>3
  <2>3. Moves(t, l, q, k)
    BY <1>1, <1>2, <1>3 DEF Moves, Drained, Go, Set, this, Inv, Typing
  <2> HIDE DEF q, k
  <2>4. l \in Labels \ Inflation
    BY <1>1, <1>2, <1>3, LabelSets DEF Control
  <2>5. pc'[t] = l /\ loc'[t] = k /\ held' = held /\ boxes' = boxes
    BY <2>3, <1>1, <1>2, <1>3 DEF Moves, objectVars, Inv, Typing
  <2>6. Control(t)'
    BY <1>1, <1>2, <1>3, <2>2, <2>5, ThreadsAssumption DEF Control
  <2>7. Depths(t)'
    BY <1>1, <1>2, <1>3, <2>2, <2>5, ThreadsAssumption, DepthAssumption DEF Control, Depths,
       Trying, Extra, Has, InEnterI, Where, Releasing, Unboxed, Top, Real, Depth
  <2>8. /\ (Trying(t)' <=> Trying(t)) /\ (Extra(t)' <=> Extra(t))
          /\ (Has(t)' <=> Has(t)) /\ (InEnterI(t)' <=> InEnterI(t))
          /\ (Unboxed(t)' => Unboxed(t))
    BY <1>1, <1>2, <1>3, <2>2, <2>5 DEF Control, Depths, Trying, Extra, Has, InEnterI, Where,
       Releasing, Unboxed, Top, Real, Depth
  <2>9. Quiet(t)
    BY <2>2, <2>5, <2>6, <2>7, <2>8 DEF Quiet
  <2> HIDE DEF l
  <2> QED
    BY <1>1, <2>1, <2>2, <2>3, <2>4, <2>8, <2>9, QuietStep
<1>4. CASE om[mon[t]].succ = None
  <2> DEFINE l == "epilog"
             q == om[mon[t]]
             k == [loc[t] EXCEPT !.w = First(om[mon[t]].EntryList)]
  <2>1. q \in MonitorRec /\ CoreSame(q, om[mon[t]])
    BY <1>1, <1>2, <1>4, NoField DEF NT
  <2>2. /\ k \in LocRec /\ k.inwait = loc[t].inwait /\ k.save = loc[t].save
          /\ k.spin = loc[t].spin /\ k.then = loc[t].then
    BY <1>1, <1>2, <1>4, WLoc, ListFields, Lists DEF NT
  <2>3. Moves(t, l, q, k)
    BY <1>1, <1>2, <1>4 DEF Moves, Drained, Go, Set, this, Inv, Typing
  <2> HIDE DEF q, k
  <2>4. l \in Labels \ Inflation
    BY <1>1, <1>2, <1>4, LabelSets DEF Control
  <2>5. pc'[t] = l /\ loc'[t] = k /\ held' = held /\ boxes' = boxes
    BY <2>3, <1>1, <1>2, <1>4 DEF Moves, objectVars, Inv, Typing
  <2>6. Control(t)'
    BY <1>1, <1>2, <1>4, <2>2, <2>5, ThreadsAssumption DEF Control
  <2>7. Depths(t)'
    BY <1>1, <1>2, <1>4, <2>2, <2>5, ThreadsAssumption, DepthAssumption DEF Control, Depths,
       Trying, Extra, Has, InEnterI, Where, Releasing, Unboxed, Top, Real, Depth
  <2>8. /\ (Trying(t)' <=> Trying(t)) /\ (Extra(t)' <=> Extra(t))
          /\ (Has(t)' <=> Has(t)) /\ (InEnterI(t)' <=> InEnterI(t))
          /\ (Unboxed(t)' => Unboxed(t))
    BY <1>1, <1>2, <1>4, <2>2, <2>5 DEF Control, Depths, Trying, Extra, Has, InEnterI, Where,
       Releasing, Unboxed, Top, Real, Depth
  <2>9. Quiet(t)
    BY <2>2, <2>5, <2>6, <2>7, <2>8 DEF Quiet
  <2> HIDE DEF l
  <2> QED
    BY <1>1, <2>1, <2>2, <2>3, <2>4, <2>8, <2>9, QuietStep
<1> QED
  BY <1>1, <1>2, <1>3, <1>4 DEF Drained, this

\* ExitEpilog names the successor.
LEMMA Epilog_succKeeps ==
  ASSUME Inv, NEW t \in Threads, Epilog_succ(t), UNCHANGED objectVars
  PROVE  Inv'
<1>1. pc[t] = "epilog" /\ pc[t] \notin Outside
  BY DEF Epilog_succ, Outside, this
<1>2. /\ mon[t] \in Monitors /\ om[mon[t]] \in MonitorRec /\ loc[t] \in LocRec
      /\ Control(t) /\ Depths(t) /\ Depth(t) \in Nat /\ (Has(t) <=> om[mon[t]].owner = t)
  BY <1>1, AtMonitor
<1> DEFINE l == "epilog_drop"
           q == [om[mon[t]] EXCEPT !.succ = loc[t].w]
           k == loc[t]
<1>3. q \in MonitorRec /\ CoreSame(q, om[mon[t]])
  BY <1>1, <1>2, SuccField, LocW DEF NT
<1>4. /\ k \in LocRec /\ k.inwait = loc[t].inwait /\ k.save = loc[t].save
        /\ k.spin = loc[t].spin /\ k.then = loc[t].then
  BY <1>1, <1>2
<1>5. Moves(t, l, q, k)
  BY <1>1, <1>2 DEF Moves, Epilog_succ, Go, Set, this, Inv, Typing
<1> HIDE DEF q, k
<1>6. l \in Labels \ Inflation
  BY <1>1, <1>2, LabelSets DEF Control
<1>7. pc'[t] = l /\ loc'[t] = k /\ held' = held /\ boxes' = boxes
  BY <1>5, <1>1, <1>2 DEF Moves, objectVars, Inv, Typing
<1>8. Control(t)'
  BY <1>1, <1>2, <1>4, <1>7, ThreadsAssumption DEF Control
<1>9. Depths(t)'
  BY <1>1, <1>2, <1>4, <1>7, ThreadsAssumption, DepthAssumption DEF Control, Depths, Trying,
     Extra, Has, InEnterI, Where, Releasing, Unboxed, Top, Real, Depth
<1>10. /\ (Trying(t)' <=> Trying(t)) /\ (Extra(t)' <=> Extra(t))
        /\ (Has(t)' <=> Has(t)) /\ (InEnterI(t)' <=> InEnterI(t))
        /\ (Unboxed(t)' => Unboxed(t))
  BY <1>1, <1>2, <1>4, <1>7 DEF Control, Depths, Trying, Extra, Has, InEnterI, Where,
     Releasing, Unboxed, Top, Real, Depth
<1>11. Quiet(t)
  BY <1>4, <1>7, <1>8, <1>9, <1>10 DEF Quiet
<1> HIDE DEF l
<1> QED
  BY <1>1, <1>3, <1>4, <1>5, <1>6, <1>10, <1>11, QuietStep

\* ExitEpilog drops the lock.
LEMMA Epilog_dropKeeps ==
  ASSUME Inv, NEW t \in Threads, Epilog_drop(t), UNCHANGED objectVars
  PROVE  Inv'
<1>1. pc[t] = "epilog_drop" /\ pc[t] \notin Outside
  BY DEF Epilog_drop, Outside, this
<1>2. /\ mon[t] \in Monitors /\ om[mon[t]] \in MonitorRec /\ loc[t] \in LocRec
      /\ Control(t) /\ Depths(t) /\ Depth(t) \in Nat /\ (Has(t) <=> om[mon[t]].owner = t)
  BY <1>1, AtMonitor
<1> DEFINE l == "epilog_unpark"
<1>5. Moves(t, l, [om[mon[t]] EXCEPT !.owner = None], loc[t])
  BY <1>1, <1>2 DEF Moves, Epilog_drop, Go, Set, this, Inv, Typing
<1>6. l \in Labels \ Inflation
  BY <1>1, <1>2, LabelSets DEF Control
<1>7. pc'[t] = l /\ loc'[t] = loc[t] /\ held' = held /\ boxes' = boxes
  BY <1>5, <1>1, <1>2 DEF Moves, objectVars, Inv, Typing
<1>8. Control(t)'
  BY <1>1, <1>2, <1>7, ThreadsAssumption DEF Control
<1>9. Depths(t)'
  BY <1>1, <1>2, <1>7, ThreadsAssumption, DepthAssumption DEF Control, Depths, Trying, Extra,
     Has, InEnterI, Where, Releasing, Unboxed, Top, Real, Depth
<1>10. /\ Has(t) /\ ~Has(t)' /\ Unboxed(t) /\ (InEnterI(t)' <=> InEnterI(t))
        /\ (~loc[t].inwait => Depth(t) = 0 /\ Extra(t) /\ ~Trying(t))
  BY <1>1, <1>2, <1>7 DEF Control, Depths, Trying, Extra, Has, InEnterI, Where, Releasing,
     Unboxed, Top, Real, Depth
<1> HIDE DEF l
<1> QED
  BY <1>1, <1>5, <1>6, <1>8, <1>9, <1>10, ReleaseStep

\* ExitEpilog unparks the successor.
LEMMA Epilog_unparkKeeps ==
  ASSUME Inv, NEW t \in Threads, Epilog_unpark(t), UNCHANGED objectVars
  PROVE  Inv'
<1>1. pc[t] = "epilog_unpark" /\ pc[t] \notin Outside
  BY DEF Epilog_unpark, Outside, this
<1>2. /\ mon[t] \in Monitors /\ om[mon[t]] \in MonitorRec /\ loc[t] \in LocRec
      /\ Control(t) /\ Depths(t) /\ Depth(t) \in Nat /\ (Has(t) <=> om[mon[t]].owner = t)
  BY <1>1, AtMonitor
<1> DEFINE l == ExitReturn(t)
           q == om[mon[t]]
           k == [loc[t] EXCEPT !.w = None]
<1>3. q \in MonitorRec /\ CoreSame(q, om[mon[t]])
  BY <1>1, <1>2, NoField DEF NT
<1>4. /\ k \in LocRec /\ k.inwait = loc[t].inwait /\ k.save = loc[t].save
        /\ k.spin = loc[t].spin /\ k.then = loc[t].then
  BY <1>1, <1>2, WLoc, ListFields, Lists DEF NT
<1>5. Moves(t, l, q, k)
  BY <1>1, <1>2 DEF Moves, Epilog_unpark, Go, Set, this, ExitReturn, Inv, Typing
<1> HIDE DEF q, k
<1>6. l \in Labels \ Inflation
  BY <1>1, <1>2, LabelSets DEF Control, ExitReturn
<1>7. pc'[t] = l /\ loc'[t] = k /\ held' = held /\ boxes' = boxes
  BY <1>5, <1>1, <1>2 DEF Moves, objectVars, Inv, Typing
<1>8. Control(t)'
  BY <1>1, <1>2, <1>4, <1>7, ThreadsAssumption DEF Control, ExitReturn
<1>9. Depths(t)'
  BY <1>1, <1>2, <1>4, <1>7, ThreadsAssumption, DepthAssumption DEF Control, Depths, Trying,
     Extra, Has, InEnterI, Where, Releasing, Unboxed, Top, Real, Depth, ExitReturn
<1>10. /\ (Trying(t)' <=> Trying(t)) /\ (Extra(t)' <=> Extra(t))
        /\ (Has(t)' <=> Has(t)) /\ (InEnterI(t)' <=> InEnterI(t))
        /\ (Unboxed(t)' => Unboxed(t))
  BY <1>1, <1>2, <1>4, <1>7 DEF Control, Depths, Trying, Extra, Has, InEnterI, Where,
     Releasing, Unboxed, Top, Real, Depth, ExitReturn
<1>11. Quiet(t)
  BY <1>4, <1>7, <1>8, <1>9, <1>10 DEF Quiet
<1> HIDE DEF l
<1> QED
  BY <1>1, <1>3, <1>4, <1>5, <1>6, <1>10, <1>11, QuietStep

-----------------------------------------------------------------------------
(* The unlock of compiled code *)

\* The unlock of compiled code looks at _EntryList.
LEMMA Unlock_EntryListKeeps ==
  ASSUME Inv, NEW t \in Threads, Unlock_EntryList(t), UNCHANGED objectVars
  PROVE  Inv'
<1>1. pc[t] = "unlock_EntryList" /\ pc[t] \notin Outside
  BY DEF Unlock_EntryList, Outside, this
<1>2. /\ mon[t] \in Monitors /\ om[mon[t]] \in MonitorRec /\ loc[t] \in LocRec
      /\ Control(t) /\ Depths(t) /\ Depth(t) \in Nat /\ (Has(t) <=> om[mon[t]].owner = t)
  BY <1>1, AtMonitor
<1> DEFINE l == IF om[mon[t]].EntryList = <<>> THEN "unlock_store" ELSE "unlock_succ"
           q == om[mon[t]]
           k == loc[t]
<1>3. q \in MonitorRec /\ CoreSame(q, om[mon[t]])
  BY <1>1, <1>2, NoField DEF NT
<1>4. /\ k \in LocRec /\ k.inwait = loc[t].inwait /\ k.save = loc[t].save
        /\ k.spin = loc[t].spin /\ k.then = loc[t].then
  BY <1>1, <1>2
<1>5. Moves(t, l, q, k)
  BY <1>1, <1>2 DEF Moves, Unlock_EntryList, Go, Set, this, Inv, Typing
<1> HIDE DEF q, k
<1>6. l \in Labels \ Inflation
  BY <1>1, <1>2, LabelSets DEF Control
<1>7. pc'[t] = l /\ loc'[t] = k /\ held' = held /\ boxes' = boxes
  BY <1>5, <1>1, <1>2 DEF Moves, objectVars, Inv, Typing
<1>8. Control(t)'
  BY <1>1, <1>2, <1>4, <1>7, ThreadsAssumption DEF Control
<1>9. Depths(t)'
  BY <1>1, <1>2, <1>4, <1>7, ThreadsAssumption, DepthAssumption DEF Control, Depths, Trying,
     Extra, Has, InEnterI, Where, Releasing, Unboxed, Top, Real, Depth
<1>10. /\ (Trying(t)' <=> Trying(t)) /\ (Extra(t)' <=> Extra(t))
        /\ (Has(t)' <=> Has(t)) /\ (InEnterI(t)' <=> InEnterI(t))
        /\ (Unboxed(t)' => Unboxed(t))
  BY <1>1, <1>2, <1>4, <1>7 DEF Control, Depths, Trying, Extra, Has, InEnterI, Where,
     Releasing, Unboxed, Top, Real, Depth
<1>11. Quiet(t)
  BY <1>4, <1>7, <1>8, <1>9, <1>10 DEF Quiet
<1> HIDE DEF l
<1> QED
  BY <1>1, <1>3, <1>4, <1>5, <1>6, <1>10, <1>11, QuietStep

\* The unlock of compiled code drops the lock.
LEMMA Unlock_storeKeeps ==
  ASSUME Inv, NEW t \in Threads, Unlock_store(t), UNCHANGED objectVars
  PROVE  Inv'
<1>1. pc[t] = "unlock_store" /\ pc[t] \notin Outside
  BY DEF Unlock_store, Outside, this
<1>2. /\ mon[t] \in Monitors /\ om[mon[t]] \in MonitorRec /\ loc[t] \in LocRec
      /\ Control(t) /\ Depths(t) /\ Depth(t) \in Nat /\ (Has(t) <=> om[mon[t]].owner = t)
  BY <1>1, AtMonitor
<1> DEFINE l == "java"
<1>5. Moves(t, l, [om[mon[t]] EXCEPT !.owner = None], loc[t])
  BY <1>1, <1>2 DEF Moves, Unlock_store, Go, Set, this, Inv, Typing
<1>6. l \in Labels \ Inflation
  BY <1>1, <1>2, LabelSets DEF Control
<1>7. pc'[t] = l /\ loc'[t] = loc[t] /\ held' = held /\ boxes' = boxes
  BY <1>5, <1>1, <1>2 DEF Moves, objectVars, Inv, Typing
<1>8. Control(t)'
  BY <1>1, <1>2, <1>7, ThreadsAssumption DEF Control
<1>9. Depths(t)'
  BY <1>1, <1>2, <1>7, ThreadsAssumption, DepthAssumption DEF Control, Depths, Trying, Extra,
     Has, InEnterI, Where, Releasing, Unboxed, Top, Real, Depth
<1>10. /\ Has(t) /\ ~Has(t)' /\ Unboxed(t) /\ (InEnterI(t)' <=> InEnterI(t))
        /\ (~loc[t].inwait => Depth(t) = 0 /\ Extra(t) /\ ~Trying(t))
  BY <1>1, <1>2, <1>7 DEF Control, Depths, Trying, Extra, Has, InEnterI, Where, Releasing,
     Unboxed, Top, Real, Depth
<1> HIDE DEF l
<1> QED
  BY <1>1, <1>5, <1>6, <1>8, <1>9, <1>10, ReleaseStep

\* The unlock of compiled code looks at _succ.
LEMMA Unlock_succKeeps ==
  ASSUME Inv, NEW t \in Threads, Unlock_succ(t), UNCHANGED objectVars
  PROVE  Inv'
<1>1. pc[t] = "unlock_succ" /\ pc[t] \notin Outside
  BY DEF Unlock_succ, Outside, this
<1>2. /\ mon[t] \in Monitors /\ om[mon[t]] \in MonitorRec /\ loc[t] \in LocRec
      /\ Control(t) /\ Depths(t) /\ Depth(t) \in Nat /\ (Has(t) <=> om[mon[t]].owner = t)
  BY <1>1, AtMonitor
<1> DEFINE l == IF om[mon[t]].succ = None THEN "fast_exit" ELSE "unlock_drop"
           q == om[mon[t]]
           k == loc[t]
<1>3. q \in MonitorRec /\ CoreSame(q, om[mon[t]])
  BY <1>1, <1>2, NoField DEF NT
<1>4. /\ k \in LocRec /\ k.inwait = loc[t].inwait /\ k.save = loc[t].save
        /\ k.spin = loc[t].spin /\ k.then = loc[t].then
  BY <1>1, <1>2
<1>5. Moves(t, l, q, k)
  BY <1>1, <1>2 DEF Moves, Unlock_succ, Go, Set, this, Inv, Typing
<1> HIDE DEF q, k
<1>6. l \in Labels \ Inflation
  BY <1>1, <1>2, LabelSets DEF Control
<1>7. pc'[t] = l /\ loc'[t] = k /\ held' = held /\ boxes' = boxes
  BY <1>5, <1>1, <1>2 DEF Moves, objectVars, Inv, Typing
<1>8. Control(t)'
  BY <1>1, <1>2, <1>4, <1>7, ThreadsAssumption DEF Control
<1>9. Depths(t)'
  BY <1>1, <1>2, <1>4, <1>7, ThreadsAssumption, DepthAssumption DEF Control, Depths, Trying,
     Extra, Has, InEnterI, Where, Releasing, Unboxed, Top, Real, Depth
<1>10. /\ (Trying(t)' <=> Trying(t)) /\ (Extra(t)' <=> Extra(t))
        /\ (Has(t)' <=> Has(t)) /\ (InEnterI(t)' <=> InEnterI(t))
        /\ (Unboxed(t)' => Unboxed(t))
  BY <1>1, <1>2, <1>4, <1>7 DEF Control, Depths, Trying, Extra, Has, InEnterI, Where,
     Releasing, Unboxed, Top, Real, Depth
<1>11. Quiet(t)
  BY <1>4, <1>7, <1>8, <1>9, <1>10 DEF Quiet
<1> HIDE DEF l
<1> QED
  BY <1>1, <1>3, <1>4, <1>5, <1>6, <1>10, <1>11, QuietStep

\* The unlock of compiled code drops the lock to the successor.
LEMMA Unlock_dropKeeps ==
  ASSUME Inv, NEW t \in Threads, Unlock_drop(t), UNCHANGED objectVars
  PROVE  Inv'
<1>1. pc[t] = "unlock_drop" /\ pc[t] \notin Outside
  BY DEF Unlock_drop, Outside, this
<1>2. /\ mon[t] \in Monitors /\ om[mon[t]] \in MonitorRec /\ loc[t] \in LocRec
      /\ Control(t) /\ Depths(t) /\ Depth(t) \in Nat /\ (Has(t) <=> om[mon[t]].owner = t)
  BY <1>1, AtMonitor
<1> DEFINE l == "unlock_recheck"
<1>5. Moves(t, l, [om[mon[t]] EXCEPT !.owner = None], loc[t])
  BY <1>1, <1>2 DEF Moves, Unlock_drop, Go, Set, this, Inv, Typing
<1>6. l \in Labels \ Inflation
  BY <1>1, <1>2, LabelSets DEF Control
<1>7. pc'[t] = l /\ loc'[t] = loc[t] /\ held' = held /\ boxes' = boxes
  BY <1>5, <1>1, <1>2 DEF Moves, objectVars, Inv, Typing
<1>8. Control(t)'
  BY <1>1, <1>2, <1>7, ThreadsAssumption DEF Control
<1>9. Depths(t)'
  BY <1>1, <1>2, <1>7, ThreadsAssumption, DepthAssumption DEF Control, Depths, Trying, Extra,
     Has, InEnterI, Where, Releasing, Unboxed, Top, Real, Depth
<1>10. /\ Has(t) /\ ~Has(t)' /\ Unboxed(t) /\ (InEnterI(t)' <=> InEnterI(t))
        /\ (~loc[t].inwait => Depth(t) = 0 /\ Extra(t) /\ ~Trying(t))
  BY <1>1, <1>2, <1>7 DEF Control, Depths, Trying, Extra, Has, InEnterI, Where, Releasing,
     Unboxed, Top, Real, Depth
<1> HIDE DEF l
<1> QED
  BY <1>1, <1>5, <1>6, <1>8, <1>9, <1>10, ReleaseStep

\* It looks whether the successor is still named.
LEMMA Unlock_recheckKeeps ==
  ASSUME Inv, NEW t \in Threads, Unlock_recheck(t), UNCHANGED objectVars
  PROVE  Inv'
<1>1. pc[t] = "unlock_recheck" /\ pc[t] \notin Outside
  BY DEF Unlock_recheck, Outside, this
<1>2. /\ mon[t] \in Monitors /\ om[mon[t]] \in MonitorRec /\ loc[t] \in LocRec
      /\ Control(t) /\ Depths(t) /\ Depth(t) \in Nat /\ (Has(t) <=> om[mon[t]].owner = t)
  BY <1>1, AtMonitor
<1> DEFINE l == IF om[mon[t]].succ # None THEN "java" ELSE "unlock_cas"
           q == om[mon[t]]
           k == loc[t]
<1>3. q \in MonitorRec /\ CoreSame(q, om[mon[t]])
  BY <1>1, <1>2, NoField DEF NT
<1>4. /\ k \in LocRec /\ k.inwait = loc[t].inwait /\ k.save = loc[t].save
        /\ k.spin = loc[t].spin /\ k.then = loc[t].then
  BY <1>1, <1>2
<1>5. Moves(t, l, q, k)
  BY <1>1, <1>2 DEF Moves, Unlock_recheck, Go, Set, this, Inv, Typing
<1> HIDE DEF q, k
<1>6. l \in Labels \ Inflation
  BY <1>1, <1>2, LabelSets DEF Control
<1>7. pc'[t] = l /\ loc'[t] = k /\ held' = held /\ boxes' = boxes
  BY <1>5, <1>1, <1>2 DEF Moves, objectVars, Inv, Typing
<1>8. Control(t)'
  BY <1>1, <1>2, <1>4, <1>7, ThreadsAssumption DEF Control
<1>9. Depths(t)'
  BY <1>1, <1>2, <1>4, <1>7, ThreadsAssumption, DepthAssumption DEF Control, Depths, Trying,
     Extra, Has, InEnterI, Where, Releasing, Unboxed, Top, Real, Depth
<1>10. /\ (Trying(t)' <=> Trying(t)) /\ (Extra(t)' <=> Extra(t))
        /\ (Has(t)' <=> Has(t)) /\ (InEnterI(t)' <=> InEnterI(t))
        /\ (Unboxed(t)' => Unboxed(t))
  BY <1>1, <1>2, <1>4, <1>7 DEF Control, Depths, Trying, Extra, Has, InEnterI, Where,
     Releasing, Unboxed, Top, Real, Depth
<1>11. Quiet(t)
  BY <1>4, <1>7, <1>8, <1>9, <1>10 DEF Quiet
<1> HIDE DEF l
<1> QED
  BY <1>1, <1>3, <1>4, <1>5, <1>6, <1>10, <1>11, QuietStep

\* It takes the lock again for the slow path.
LEMMA Unlock_casKeeps ==
  ASSUME Inv, NEW t \in Threads, Unlock_cas(t), UNCHANGED objectVars
  PROVE  Inv'
<1>1. pc[t] = "unlock_cas" /\ pc[t] \notin Outside
  BY DEF Unlock_cas, Outside, this
<1>2. /\ mon[t] \in Monitors /\ om[mon[t]] \in MonitorRec /\ loc[t] \in LocRec
      /\ Control(t) /\ Depths(t) /\ Depth(t) \in Nat /\ (Has(t) <=> om[mon[t]].owner = t)
  BY <1>1, AtMonitor
<1>3. CASE om[mon[t]].owner = None
  <2> DEFINE l == "fast_exit"
             k == loc[t]
  <2>2. /\ k \in LocRec /\ k.inwait = loc[t].inwait /\ k.save = loc[t].save
          /\ k.spin = loc[t].spin /\ k.then = loc[t].then
    BY <1>1, <1>2, <1>3
  <2>3. Moves(t, l, [om[mon[t]] EXCEPT !.owner = t], k)
    BY <1>1, <1>2, <1>3 DEF Moves, Unlock_cas, Go, Set, this, TryLock, Inv, Typing
  <2> HIDE DEF k
  <2>4. l \in Labels \ Inflation
    BY <1>1, <1>2, <1>3, LabelSets DEF Control, TryLock
  <2>5. pc'[t] = l /\ loc'[t] = k /\ held' = held /\ boxes' = boxes
    BY <2>3, <1>1, <1>2, <1>3 DEF Moves, objectVars, Inv, Typing
  <2>6. Control(t)'
    BY <1>1, <1>2, <1>3, <2>2, <2>5, ThreadsAssumption DEF Control, TryLock
  <2>7. Depths(t)'
    BY <1>1, <1>2, <1>3, <2>2, <2>5, ThreadsAssumption, DepthAssumption DEF Control, Depths,
       Trying, Extra, Has, InEnterI, Where, Releasing, Unboxed, Top, Real, Depth, TryLock
  <2>8. /\ Has(t)' /\ (InEnterI(t)' <=> InEnterI(t))
          /\ (~loc[t].inwait => \/ Depth(t) = 1 /\ Real(t, 1) /\ ~Trying(t)' /\ ~Extra(t)'
                                \/ Depth(t) = 0 /\ Extra(t)' /\ ~Trying(t)')
    BY <1>1, <1>2, <1>3, <2>2, <2>5, ThreadsAssumption, DepthAssumption DEF Control, Depths,
       Trying, Extra, Has, InEnterI, Where, Releasing, Unboxed, Top, Real, Depth, TryLock
  <2> HIDE DEF l
  <2> QED
    BY <1>1, <1>2, <1>3, <2>2, <2>3, <2>4, <2>6, <2>7, <2>8, AcquireStep
<1>4. CASE om[mon[t]].owner # None
  <2> DEFINE l == "java"
             q == om[mon[t]]
             k == loc[t]
  <2>1. q \in MonitorRec /\ CoreSame(q, om[mon[t]])
    BY <1>1, <1>2, <1>4, NoField DEF NT
  <2>2. /\ k \in LocRec /\ k.inwait = loc[t].inwait /\ k.save = loc[t].save
          /\ k.spin = loc[t].spin /\ k.then = loc[t].then
    BY <1>1, <1>2, <1>4
  <2>3. Moves(t, l, q, k)
    BY <1>1, <1>2, <1>4 DEF Moves, Unlock_cas, Go, Set, this, TryLock, Inv, Typing
  <2> HIDE DEF q, k
  <2>4. l \in Labels \ Inflation
    BY <1>1, <1>2, <1>4, LabelSets DEF Control, TryLock
  <2>5. pc'[t] = l /\ loc'[t] = k /\ held' = held /\ boxes' = boxes
    BY <2>3, <1>1, <1>2, <1>4 DEF Moves, objectVars, Inv, Typing
  <2>6. Control(t)'
    BY <1>1, <1>2, <1>4, <2>2, <2>5, ThreadsAssumption DEF Control, TryLock
  <2>7. Depths(t)'
    BY <1>1, <1>2, <1>4, <2>2, <2>5, ThreadsAssumption, DepthAssumption DEF Control, Depths,
       Trying, Extra, Has, InEnterI, Where, Releasing, Unboxed, Top, Real, Depth, TryLock
  <2>8. /\ (Trying(t)' <=> Trying(t)) /\ (Extra(t)' <=> Extra(t))
          /\ (Has(t)' <=> Has(t)) /\ (InEnterI(t)' <=> InEnterI(t))
          /\ (Unboxed(t)' => Unboxed(t))
    BY <1>1, <1>2, <1>4, <2>2, <2>5 DEF Control, Depths, Trying, Extra, Has, InEnterI, Where,
       Releasing, Unboxed, Top, Real, Depth, TryLock
  <2>9. Quiet(t)
    BY <2>2, <2>5, <2>6, <2>7, <2>8 DEF Quiet
  <2> HIDE DEF l
  <2> QED
    BY <1>1, <2>1, <2>2, <2>3, <2>4, <2>8, <2>9, QuietStep
<1> QED
  BY <1>1, <1>2, <1>3, <1>4 DEF Unlock_cas, this

-----------------------------------------------------------------------------
(* wait *)

\* Wait has given the lock up.
LEMMA Wait_exitedKeeps ==
  ASSUME Inv, NEW t \in Threads, Wait_exited(t), UNCHANGED objectVars
  PROVE  Inv'
<1>1. pc[t] = "wait_exited" /\ pc[t] \notin Outside
  BY DEF Wait_exited, Outside, this
<1>2. /\ mon[t] \in Monitors /\ om[mon[t]] \in MonitorRec /\ loc[t] \in LocRec
      /\ Control(t) /\ Depths(t) /\ Depth(t) \in Nat /\ (Has(t) <=> om[mon[t]].owner = t)
  BY <1>1, AtMonitor
<1> DEFINE l == "wait_check"
           q == om[mon[t]]
           k == loc[t]
<1>3. q \in MonitorRec /\ CoreSame(q, om[mon[t]])
  BY <1>1, <1>2, NoField DEF NT
<1>4. /\ k \in LocRec /\ k.inwait = loc[t].inwait /\ k.save = loc[t].save
        /\ k.spin = loc[t].spin /\ k.then = loc[t].then
  BY <1>1, <1>2
<1>5. Moves(t, l, q, k)
  BY <1>1, <1>2 DEF Moves, Wait_exited, Go, Set, this, Inv, Typing
<1> HIDE DEF q, k
<1>6. l \in Labels \ Inflation
  BY <1>1, <1>2, LabelSets DEF Control
<1>7. pc'[t] = l /\ loc'[t] = k /\ held' = held /\ boxes' = boxes
  BY <1>5, <1>1, <1>2 DEF Moves, objectVars, Inv, Typing
<1>8. Control(t)'
  BY <1>1, <1>2, <1>4, <1>7, ThreadsAssumption DEF Control
<1>9. Depths(t)'
  BY <1>1, <1>2, <1>4, <1>7, ThreadsAssumption, DepthAssumption DEF Control, Depths, Trying,
     Extra, Has, InEnterI, Where, Releasing, Unboxed, Top, Real, Depth
<1>10. /\ (Trying(t)' <=> Trying(t)) /\ (Extra(t)' <=> Extra(t))
        /\ (Has(t)' <=> Has(t)) /\ (InEnterI(t)' <=> InEnterI(t))
        /\ (Unboxed(t)' => Unboxed(t))
  BY <1>1, <1>2, <1>4, <1>7 DEF Control, Depths, Trying, Extra, Has, InEnterI, Where,
     Releasing, Unboxed, Top, Real, Depth
<1>11. Quiet(t)
  BY <1>4, <1>7, <1>8, <1>9, <1>10 DEF Quiet
<1> HIDE DEF l
<1> QED
  BY <1>1, <1>3, <1>4, <1>5, <1>6, <1>10, <1>11, QuietStep

\* Wait looks for an interrupt.
LEMMA Wait_checkKeeps ==
  ASSUME Inv, NEW t \in Threads, Wait_check(t), UNCHANGED objectVars
  PROVE  Inv'
<1>1. pc[t] = "wait_check" /\ pc[t] \notin Outside
  BY DEF Wait_check, Outside, this
<1>2. /\ mon[t] \in Monitors /\ om[mon[t]] \in MonitorRec /\ loc[t] \in LocRec
      /\ Control(t) /\ Depths(t) /\ Depth(t) \in Nat /\ (Has(t) <=> om[mon[t]].owner = t)
  BY <1>1, AtMonitor
<1> DEFINE l == IF interrupted[t] THEN "wait_state" ELSE "wait_notified"
           q == om[mon[t]]
           k == loc[t]
<1>3. q \in MonitorRec /\ CoreSame(q, om[mon[t]])
  BY <1>1, <1>2, NoField DEF NT
<1>4. /\ k \in LocRec /\ k.inwait = loc[t].inwait /\ k.save = loc[t].save
        /\ k.spin = loc[t].spin /\ k.then = loc[t].then
  BY <1>1, <1>2
<1>5. Moves(t, l, q, k)
  BY <1>1, <1>2 DEF Moves, Wait_check, Go, Set, this, Inv, Typing
<1> HIDE DEF q, k
<1>6. l \in Labels \ Inflation
  BY <1>1, <1>2, LabelSets DEF Control
<1>7. pc'[t] = l /\ loc'[t] = k /\ held' = held /\ boxes' = boxes
  BY <1>5, <1>1, <1>2 DEF Moves, objectVars, Inv, Typing
<1>8. Control(t)'
  BY <1>1, <1>2, <1>4, <1>7, ThreadsAssumption DEF Control
<1>9. Depths(t)'
  BY <1>1, <1>2, <1>4, <1>7, ThreadsAssumption, DepthAssumption DEF Control, Depths, Trying,
     Extra, Has, InEnterI, Where, Releasing, Unboxed, Top, Real, Depth
<1>10. /\ (Trying(t)' <=> Trying(t)) /\ (Extra(t)' <=> Extra(t))
        /\ (Has(t)' <=> Has(t)) /\ (InEnterI(t)' <=> InEnterI(t))
        /\ (Unboxed(t)' => Unboxed(t))
  BY <1>1, <1>2, <1>4, <1>7 DEF Control, Depths, Trying, Extra, Has, InEnterI, Where,
     Releasing, Unboxed, Top, Real, Depth
<1>11. Quiet(t)
  BY <1>4, <1>7, <1>8, <1>9, <1>10 DEF Quiet
<1> HIDE DEF l
<1> QED
  BY <1>1, <1>3, <1>4, <1>5, <1>6, <1>10, <1>11, QuietStep

\* Wait looks for a notify.
LEMMA Wait_notifiedKeeps ==
  ASSUME Inv, NEW t \in Threads, Wait_notified(t), UNCHANGED objectVars
  PROVE  Inv'
<1>1. pc[t] = "wait_notified" /\ pc[t] \notin Outside
  BY DEF Wait_notified, Outside, this
<1>2. /\ mon[t] \in Monitors /\ om[mon[t]] \in MonitorRec /\ loc[t] \in LocRec
      /\ Control(t) /\ Depths(t) /\ Depth(t) \in Nat /\ (Has(t) <=> om[mon[t]].owner = t)
  BY <1>1, AtMonitor
<1> DEFINE l == IF node[t].notified = 0 THEN "wait_park" ELSE "wait_state"
           q == om[mon[t]]
           k == loc[t]
<1>3. q \in MonitorRec /\ CoreSame(q, om[mon[t]])
  BY <1>1, <1>2, NoField DEF NT
<1>4. /\ k \in LocRec /\ k.inwait = loc[t].inwait /\ k.save = loc[t].save
        /\ k.spin = loc[t].spin /\ k.then = loc[t].then
  BY <1>1, <1>2
<1>5. Moves(t, l, q, k)
  BY <1>1, <1>2 DEF Moves, Wait_notified, Go, Set, this, Inv, Typing
<1> HIDE DEF q, k
<1>6. l \in Labels \ Inflation
  BY <1>1, <1>2, LabelSets DEF Control
<1>7. pc'[t] = l /\ loc'[t] = k /\ held' = held /\ boxes' = boxes
  BY <1>5, <1>1, <1>2 DEF Moves, objectVars, Inv, Typing
<1>8. Control(t)'
  BY <1>1, <1>2, <1>4, <1>7, ThreadsAssumption DEF Control
<1>9. Depths(t)'
  BY <1>1, <1>2, <1>4, <1>7, ThreadsAssumption, DepthAssumption DEF Control, Depths, Trying,
     Extra, Has, InEnterI, Where, Releasing, Unboxed, Top, Real, Depth
<1>10. /\ (Trying(t)' <=> Trying(t)) /\ (Extra(t)' <=> Extra(t))
        /\ (Has(t)' <=> Has(t)) /\ (InEnterI(t)' <=> InEnterI(t))
        /\ (Unboxed(t)' => Unboxed(t))
  BY <1>1, <1>2, <1>4, <1>7 DEF Control, Depths, Trying, Extra, Has, InEnterI, Where,
     Releasing, Unboxed, Top, Real, Depth
<1>11. Quiet(t)
  BY <1>4, <1>7, <1>8, <1>9, <1>10 DEF Quiet
<1> HIDE DEF l
<1> QED
  BY <1>1, <1>3, <1>4, <1>5, <1>6, <1>10, <1>11, QuietStep

\* Wait parks.
LEMMA Wait_parkKeeps ==
  ASSUME Inv, NEW t \in Threads, Wait_park(t), UNCHANGED objectVars
  PROVE  Inv'
<1>1. pc[t] = "wait_park" /\ pc[t] \notin Outside
  BY DEF Wait_park, Outside, this
<1>2. /\ mon[t] \in Monitors /\ om[mon[t]] \in MonitorRec /\ loc[t] \in LocRec
      /\ Control(t) /\ Depths(t) /\ Depth(t) \in Nat /\ (Has(t) <=> om[mon[t]].owner = t)
  BY <1>1, AtMonitor
<1> DEFINE l == "wait_state"
           q == om[mon[t]]
           k == loc[t]
<1>3. q \in MonitorRec /\ CoreSame(q, om[mon[t]])
  BY <1>1, <1>2, NoField DEF NT
<1>4. /\ k \in LocRec /\ k.inwait = loc[t].inwait /\ k.save = loc[t].save
        /\ k.spin = loc[t].spin /\ k.then = loc[t].then
  BY <1>1, <1>2
<1>5. Moves(t, l, q, k)
  BY <1>1, <1>2 DEF Moves, Wait_park, Go, Set, this, Inv, Typing
<1> HIDE DEF q, k
<1>6. l \in Labels \ Inflation
  BY <1>1, <1>2, LabelSets DEF Control
<1>7. pc'[t] = l /\ loc'[t] = k /\ held' = held /\ boxes' = boxes
  BY <1>5, <1>1, <1>2 DEF Moves, objectVars, Inv, Typing
<1>8. Control(t)'
  BY <1>1, <1>2, <1>4, <1>7, ThreadsAssumption DEF Control
<1>9. Depths(t)'
  BY <1>1, <1>2, <1>4, <1>7, ThreadsAssumption, DepthAssumption DEF Control, Depths, Trying,
     Extra, Has, InEnterI, Where, Releasing, Unboxed, Top, Real, Depth
<1>10. /\ (Trying(t)' <=> Trying(t)) /\ (Extra(t)' <=> Extra(t))
        /\ (Has(t)' <=> Has(t)) /\ (InEnterI(t)' <=> InEnterI(t))
        /\ (Unboxed(t)' => Unboxed(t))
  BY <1>1, <1>2, <1>4, <1>7 DEF Control, Depths, Trying, Extra, Has, InEnterI, Where,
     Releasing, Unboxed, Top, Real, Depth
<1>11. Quiet(t)
  BY <1>4, <1>7, <1>8, <1>9, <1>10 DEF Quiet
<1> HIDE DEF l
<1> QED
  BY <1>1, <1>3, <1>4, <1>5, <1>6, <1>10, <1>11, QuietStep

\* Wait looks where its node is.
LEMMA Wait_stateKeeps ==
  ASSUME Inv, NEW t \in Threads, Wait_state(t), UNCHANGED objectVars
  PROVE  Inv'
<1>1. pc[t] = "wait_state" /\ pc[t] \notin Outside
  BY DEF Wait_state, Outside, this
<1>2. /\ mon[t] \in Monitors /\ om[mon[t]] \in MonitorRec /\ loc[t] \in LocRec
      /\ Control(t) /\ Depths(t) /\ Depth(t) \in Nat /\ (Has(t) <=> om[mon[t]].owner = t)
  BY <1>1, AtMonitor
<1>3. CASE node[t].TState = "WAIT"
  <2> DEFINE l == "wait_unlink"
             q == om[mon[t]]
             k == loc[t]
  <2>1. q \in MonitorRec /\ CoreSame(q, om[mon[t]])
    BY <1>1, <1>2, <1>3, NoField DEF NT
  <2>2. /\ k \in LocRec /\ k.inwait = loc[t].inwait /\ k.save = loc[t].save
          /\ k.spin = loc[t].spin /\ k.then = loc[t].then
    BY <1>1, <1>2, <1>3
  <2>3. Moves(t, l, q, k)
    BY <1>1, <1>2, <1>3 DEF Moves, Wait_state, Go, Set, this, Inv, Typing
  <2> HIDE DEF q, k
  <2>4. l \in Labels \ Inflation
    BY <1>1, <1>2, <1>3, LabelSets DEF Control
  <2>5. pc'[t] = l /\ loc'[t] = k /\ held' = held /\ boxes' = boxes
    BY <2>3, <1>1, <1>2, <1>3 DEF Moves, objectVars, Inv, Typing
  <2>6. Control(t)'
    BY <1>1, <1>2, <1>3, <2>2, <2>5, ThreadsAssumption DEF Control
  <2>7. Depths(t)'
    BY <1>1, <1>2, <1>3, <2>2, <2>5, ThreadsAssumption, DepthAssumption DEF Control, Depths,
       Trying, Extra, Has, InEnterI, Where, Releasing, Unboxed, Top, Real, Depth
  <2>8. /\ (Trying(t)' <=> Trying(t)) /\ (Extra(t)' <=> Extra(t))
          /\ (Has(t)' <=> Has(t)) /\ (InEnterI(t)' <=> InEnterI(t))
          /\ (Unboxed(t)' => Unboxed(t))
    BY <1>1, <1>2, <1>3, <2>2, <2>5 DEF Control, Depths, Trying, Extra, Has, InEnterI, Where,
       Releasing, Unboxed, Top, Real, Depth
  <2>9. Quiet(t)
    BY <2>2, <2>5, <2>6, <2>7, <2>8 DEF Quiet
  <2> HIDE DEF l
  <2> QED
    BY <1>1, <2>1, <2>2, <2>3, <2>4, <2>8, <2>9, QuietStep
<1>4. CASE node[t].TState # "WAIT" /\ om[mon[t]].succ = t
  <2> DEFINE l == "clearing"
             q == om[mon[t]]
             k == [loc[t] EXCEPT !.spin = None, !.then = "wait_was"]
  <2>1. q \in MonitorRec /\ CoreSame(q, om[mon[t]])
    BY <1>1, <1>2, <1>4, NoField DEF NT
  <2>2. /\ k \in LocRec /\ k.inwait = loc[t].inwait /\ k.save = loc[t].save
          /\ k.spin = None /\ k.then = "wait_was"
    <3>1. "wait_was" \in Labels BY DEF Labels
    <3> QED
      BY <1>1, <1>2, <1>4, <3>1, SpinThenLoc DEF NT
  <2>3. Moves(t, l, q, k)
    BY <1>1, <1>2, <1>4 DEF Moves, Wait_state, Go, Set, this, ClearSucc, Inv, Typing
  <2> HIDE DEF q, k
  <2>4. l \in Labels \ Inflation
    BY <1>1, <1>2, <1>4, LabelSets DEF Control, ClearSucc
  <2>5. pc'[t] = l /\ loc'[t] = k /\ held' = held /\ boxes' = boxes
    BY <2>3, <1>1, <1>2, <1>4 DEF Moves, objectVars, Inv, Typing
  <2>6. Control(t)'
    BY <1>1, <1>2, <1>4, <2>2, <2>5, ThreadsAssumption DEF Control, ClearSucc
  <2>7. Depths(t)'
    BY <1>1, <1>2, <1>4, <2>2, <2>5, ThreadsAssumption, DepthAssumption DEF Control, Depths,
       Trying, Extra, Has, InEnterI, Where, Releasing, Unboxed, Top, Real, Depth, ClearSucc
  <2>8. /\ (Trying(t)' <=> Trying(t)) /\ (Extra(t)' <=> Extra(t))
          /\ (Has(t)' <=> Has(t)) /\ (InEnterI(t)' <=> InEnterI(t))
          /\ (Unboxed(t)' => Unboxed(t))
    BY <1>1, <1>2, <1>4, <2>2, <2>5 DEF Control, Depths, Trying, Extra, Has, InEnterI, Where,
       Releasing, Unboxed, Top, Real, Depth, ClearSucc
  <2>9. Quiet(t)
    BY <2>2, <2>5, <2>6, <2>7, <2>8 DEF Quiet
  <2> HIDE DEF l
  <2> QED
    BY <1>1, <2>1, <2>2, <2>3, <2>4, <2>8, <2>9, QuietStep
<1>5. CASE node[t].TState # "WAIT" /\ om[mon[t]].succ # t
  <2> DEFINE l == "wait_was"
             q == om[mon[t]]
             k == [loc[t] EXCEPT !.spin = None]
  <2>1. q \in MonitorRec /\ CoreSame(q, om[mon[t]])
    BY <1>1, <1>2, <1>5, NoField DEF NT
  <2>2. /\ k \in LocRec /\ k.inwait = loc[t].inwait /\ k.save = loc[t].save
          /\ k.spin = None /\ k.then = loc[t].then
    BY <1>1, <1>2, <1>5, SpinLoc DEF NT
  <2>3. Moves(t, l, q, k)
    BY <1>1, <1>2, <1>5 DEF Moves, Wait_state, Go, Set, this, ClearSucc, Inv, Typing
  <2> HIDE DEF q, k
  <2>4. l \in Labels \ Inflation
    BY <1>1, <1>2, <1>5, LabelSets DEF Control, ClearSucc
  <2>5. pc'[t] = l /\ loc'[t] = k /\ held' = held /\ boxes' = boxes
    BY <2>3, <1>1, <1>2, <1>5 DEF Moves, objectVars, Inv, Typing
  <2>6. Control(t)'
    BY <1>1, <1>2, <1>5, <2>2, <2>5, ThreadsAssumption DEF Control, ClearSucc
  <2>7. Depths(t)'
    BY <1>1, <1>2, <1>5, <2>2, <2>5, ThreadsAssumption, DepthAssumption DEF Control, Depths,
       Trying, Extra, Has, InEnterI, Where, Releasing, Unboxed, Top, Real, Depth, ClearSucc
  <2>8. /\ (Trying(t)' <=> Trying(t)) /\ (Extra(t)' <=> Extra(t))
          /\ (Has(t)' <=> Has(t)) /\ (InEnterI(t)' <=> InEnterI(t))
          /\ (Unboxed(t)' => Unboxed(t))
    BY <1>1, <1>2, <1>5, <2>2, <2>5 DEF Control, Depths, Trying, Extra, Has, InEnterI, Where,
       Releasing, Unboxed, Top, Real, Depth, ClearSucc
  <2>9. Quiet(t)
    BY <2>2, <2>5, <2>6, <2>7, <2>8 DEF Quiet
  <2> HIDE DEF l
  <2> QED
    BY <1>1, <2>1, <2>2, <2>3, <2>4, <2>8, <2>9, QuietStep
<1> QED
  BY <1>1, <1>2, <1>3, <1>4, <1>5 DEF Wait_state, this

\* Wait takes its node off _WaitSet.
LEMMA Wait_unlinkKeeps ==
  ASSUME Inv, NEW t \in Threads, Wait_unlink(t), UNCHANGED objectVars
  PROVE  Inv'
<1>1. pc[t] = "wait_unlink" /\ pc[t] \notin Outside
  BY DEF Wait_unlink, Outside, this
<1>2. /\ mon[t] \in Monitors /\ om[mon[t]] \in MonitorRec /\ loc[t] \in LocRec
      /\ Control(t) /\ Depths(t) /\ Depth(t) \in Nat /\ (Has(t) <=> om[mon[t]].owner = t)
  BY <1>1, AtMonitor
<1>3. CASE node[t].TState = "WAIT" /\ om[mon[t]].succ = t
  <2> DEFINE l == "clearing"
             q == [om[mon[t]] EXCEPT !.WaitSet = Without(@, t)]
             k == [loc[t] EXCEPT !.spin = None, !.then = "wait_was"]
  <2>1. q \in MonitorRec /\ CoreSame(q, om[mon[t]])
    BY <1>1, <1>2, <1>3, WaitSetField, ListFields, Lists DEF NT
  <2>2. /\ k \in LocRec /\ k.inwait = loc[t].inwait /\ k.save = loc[t].save
          /\ k.spin = None /\ k.then = "wait_was"
    <3>1. "wait_was" \in Labels BY DEF Labels
    <3> QED
      BY <1>1, <1>2, <1>3, <3>1, SpinThenLoc DEF NT
  <2>3. Moves(t, l, q, k)
    <3>2. node' = [node EXCEPT ![t].TState = "RUN"]
      BY <1>1, <1>2, <1>3 DEF Wait_unlink, this
    <3>1. node' \in [Threads -> NodeRec]
      BY <3>2, NodeState, NodeNotify
    <3> QED
      BY <1>1, <1>2, <1>3, <3>1 DEF Moves, Wait_unlink, Go, Set, this, ClearSucc, Inv, Typing
  <2> HIDE DEF q, k
  <2>4. l \in Labels \ Inflation
    BY <1>1, <1>2, <1>3, LabelSets DEF Control, ClearSucc
  <2>5. pc'[t] = l /\ loc'[t] = k /\ held' = held /\ boxes' = boxes
    BY <2>3, <1>1, <1>2, <1>3 DEF Moves, objectVars, Inv, Typing
  <2>6. Control(t)'
    BY <1>1, <1>2, <1>3, <2>2, <2>5, ThreadsAssumption DEF Control, ClearSucc
  <2>7. Depths(t)'
    BY <1>1, <1>2, <1>3, <2>2, <2>5, ThreadsAssumption, DepthAssumption DEF Control, Depths,
       Trying, Extra, Has, InEnterI, Where, Releasing, Unboxed, Top, Real, Depth, ClearSucc
  <2>8. /\ (Trying(t)' <=> Trying(t)) /\ (Extra(t)' <=> Extra(t))
          /\ (Has(t)' <=> Has(t)) /\ (InEnterI(t)' <=> InEnterI(t))
          /\ (Unboxed(t)' => Unboxed(t))
    BY <1>1, <1>2, <1>3, <2>2, <2>5 DEF Control, Depths, Trying, Extra, Has, InEnterI, Where,
       Releasing, Unboxed, Top, Real, Depth, ClearSucc
  <2>9. Quiet(t)
    BY <2>2, <2>5, <2>6, <2>7, <2>8 DEF Quiet
  <2> HIDE DEF l
  <2> QED
    BY <1>1, <2>1, <2>2, <2>3, <2>4, <2>8, <2>9, QuietStep
<1>4. CASE node[t].TState = "WAIT" /\ om[mon[t]].succ # t
  <2> DEFINE l == "wait_was"
             q == [om[mon[t]] EXCEPT !.WaitSet = Without(@, t)]
             k == [loc[t] EXCEPT !.spin = None]
  <2>1. q \in MonitorRec /\ CoreSame(q, om[mon[t]])
    BY <1>1, <1>2, <1>4, WaitSetField, ListFields, Lists DEF NT
  <2>2. /\ k \in LocRec /\ k.inwait = loc[t].inwait /\ k.save = loc[t].save
          /\ k.spin = None /\ k.then = loc[t].then
    BY <1>1, <1>2, <1>4, SpinLoc DEF NT
  <2>3. Moves(t, l, q, k)
    <3>2. node' = [node EXCEPT ![t].TState = "RUN"]
      BY <1>1, <1>2, <1>4 DEF Wait_unlink, this
    <3>1. node' \in [Threads -> NodeRec]
      BY <3>2, NodeState, NodeNotify
    <3> QED
      BY <1>1, <1>2, <1>4, <3>1 DEF Moves, Wait_unlink, Go, Set, this, ClearSucc, Inv, Typing
  <2> HIDE DEF q, k
  <2>4. l \in Labels \ Inflation
    BY <1>1, <1>2, <1>4, LabelSets DEF Control, ClearSucc
  <2>5. pc'[t] = l /\ loc'[t] = k /\ held' = held /\ boxes' = boxes
    BY <2>3, <1>1, <1>2, <1>4 DEF Moves, objectVars, Inv, Typing
  <2>6. Control(t)'
    BY <1>1, <1>2, <1>4, <2>2, <2>5, ThreadsAssumption DEF Control, ClearSucc
  <2>7. Depths(t)'
    BY <1>1, <1>2, <1>4, <2>2, <2>5, ThreadsAssumption, DepthAssumption DEF Control, Depths,
       Trying, Extra, Has, InEnterI, Where, Releasing, Unboxed, Top, Real, Depth, ClearSucc
  <2>8. /\ (Trying(t)' <=> Trying(t)) /\ (Extra(t)' <=> Extra(t))
          /\ (Has(t)' <=> Has(t)) /\ (InEnterI(t)' <=> InEnterI(t))
          /\ (Unboxed(t)' => Unboxed(t))
    BY <1>1, <1>2, <1>4, <2>2, <2>5 DEF Control, Depths, Trying, Extra, Has, InEnterI, Where,
       Releasing, Unboxed, Top, Real, Depth, ClearSucc
  <2>9. Quiet(t)
    BY <2>2, <2>5, <2>6, <2>7, <2>8 DEF Quiet
  <2> HIDE DEF l
  <2> QED
    BY <1>1, <2>1, <2>2, <2>3, <2>4, <2>8, <2>9, QuietStep
<1>5. CASE node[t].TState # "WAIT" /\ om[mon[t]].succ = t
  <2> DEFINE l == "clearing"
             q == om[mon[t]]
             k == [loc[t] EXCEPT !.spin = None, !.then = "wait_was"]
  <2>1. q \in MonitorRec /\ CoreSame(q, om[mon[t]])
    BY <1>1, <1>2, <1>5, NoField DEF NT
  <2>2. /\ k \in LocRec /\ k.inwait = loc[t].inwait /\ k.save = loc[t].save
          /\ k.spin = None /\ k.then = "wait_was"
    <3>1. "wait_was" \in Labels BY DEF Labels
    <3> QED
      BY <1>1, <1>2, <1>5, <3>1, SpinThenLoc DEF NT
  <2>3. Moves(t, l, q, k)
    BY <1>1, <1>2, <1>5 DEF Moves, Wait_unlink, Go, Set, this, ClearSucc, Inv, Typing
  <2> HIDE DEF q, k
  <2>4. l \in Labels \ Inflation
    BY <1>1, <1>2, <1>5, LabelSets DEF Control, ClearSucc
  <2>5. pc'[t] = l /\ loc'[t] = k /\ held' = held /\ boxes' = boxes
    BY <2>3, <1>1, <1>2, <1>5 DEF Moves, objectVars, Inv, Typing
  <2>6. Control(t)'
    BY <1>1, <1>2, <1>5, <2>2, <2>5, ThreadsAssumption DEF Control, ClearSucc
  <2>7. Depths(t)'
    BY <1>1, <1>2, <1>5, <2>2, <2>5, ThreadsAssumption, DepthAssumption DEF Control, Depths,
       Trying, Extra, Has, InEnterI, Where, Releasing, Unboxed, Top, Real, Depth, ClearSucc
  <2>8. /\ (Trying(t)' <=> Trying(t)) /\ (Extra(t)' <=> Extra(t))
          /\ (Has(t)' <=> Has(t)) /\ (InEnterI(t)' <=> InEnterI(t))
          /\ (Unboxed(t)' => Unboxed(t))
    BY <1>1, <1>2, <1>5, <2>2, <2>5 DEF Control, Depths, Trying, Extra, Has, InEnterI, Where,
       Releasing, Unboxed, Top, Real, Depth, ClearSucc
  <2>9. Quiet(t)
    BY <2>2, <2>5, <2>6, <2>7, <2>8 DEF Quiet
  <2> HIDE DEF l
  <2> QED
    BY <1>1, <2>1, <2>2, <2>3, <2>4, <2>8, <2>9, QuietStep
<1>6. CASE node[t].TState # "WAIT" /\ om[mon[t]].succ # t
  <2> DEFINE l == "wait_was"
             q == om[mon[t]]
             k == [loc[t] EXCEPT !.spin = None]
  <2>1. q \in MonitorRec /\ CoreSame(q, om[mon[t]])
    BY <1>1, <1>2, <1>6, NoField DEF NT
  <2>2. /\ k \in LocRec /\ k.inwait = loc[t].inwait /\ k.save = loc[t].save
          /\ k.spin = None /\ k.then = loc[t].then
    BY <1>1, <1>2, <1>6, SpinLoc DEF NT
  <2>3. Moves(t, l, q, k)
    BY <1>1, <1>2, <1>6 DEF Moves, Wait_unlink, Go, Set, this, ClearSucc, Inv, Typing
  <2> HIDE DEF q, k
  <2>4. l \in Labels \ Inflation
    BY <1>1, <1>2, <1>6, LabelSets DEF Control, ClearSucc
  <2>5. pc'[t] = l /\ loc'[t] = k /\ held' = held /\ boxes' = boxes
    BY <2>3, <1>1, <1>2, <1>6 DEF Moves, objectVars, Inv, Typing
  <2>6. Control(t)'
    BY <1>1, <1>2, <1>6, <2>2, <2>5, ThreadsAssumption DEF Control, ClearSucc
  <2>7. Depths(t)'
    BY <1>1, <1>2, <1>6, <2>2, <2>5, ThreadsAssumption, DepthAssumption DEF Control, Depths,
       Trying, Extra, Has, InEnterI, Where, Releasing, Unboxed, Top, Real, Depth, ClearSucc
  <2>8. /\ (Trying(t)' <=> Trying(t)) /\ (Extra(t)' <=> Extra(t))
          /\ (Has(t)' <=> Has(t)) /\ (InEnterI(t)' <=> InEnterI(t))
          /\ (Unboxed(t)' => Unboxed(t))
    BY <1>1, <1>2, <1>6, <2>2, <2>5 DEF Control, Depths, Trying, Extra, Has, InEnterI, Where,
       Releasing, Unboxed, Top, Real, Depth, ClearSucc
  <2>9. Quiet(t)
    BY <2>2, <2>5, <2>6, <2>7, <2>8 DEF Quiet
  <2> HIDE DEF l
  <2> QED
    BY <1>1, <2>1, <2>2, <2>3, <2>4, <2>8, <2>9, QuietStep
<1> QED
  BY <1>1, <1>2, <1>3, <1>4, <1>5, <1>6 DEF Wait_unlink, this

\* Wait finds out whether it was notified.
LEMMA Wait_wasKeeps ==
  ASSUME Inv, NEW t \in Threads, Wait_was(t), UNCHANGED objectVars
  PROVE  Inv'
<1>1. pc[t] = "wait_was" /\ pc[t] \notin Outside
  BY DEF Wait_was, Outside, this
<1>2. /\ mon[t] \in Monitors /\ om[mon[t]] \in MonitorRec /\ loc[t] \in LocRec
      /\ Control(t) /\ Depths(t) /\ Depth(t) \in Nat /\ (Has(t) <=> om[mon[t]].owner = t)
  BY <1>1, AtMonitor
<1> DEFINE l == IF node[t].TState = "RUN" THEN "enter" ELSE "reenter"
           q == om[mon[t]]
           k == [loc[t] EXCEPT !.wasNotified = node[t].notified]
<1>3. q \in MonitorRec /\ CoreSame(q, om[mon[t]])
  BY <1>1, <1>2, NoField DEF NT
<1>4. /\ k \in LocRec /\ k.inwait = loc[t].inwait /\ k.save = loc[t].save
        /\ k.spin = loc[t].spin /\ k.then = loc[t].then
  BY <1>1, <1>2, NotifiedLoc, NodeNotified DEF NT
<1>5. Moves(t, l, q, k)
  BY <1>1, <1>2 DEF Moves, Wait_was, Go, Set, this, Inv, Typing
<1> HIDE DEF q, k
<1>6. l \in Labels \ Inflation
  BY <1>1, <1>2, LabelSets DEF Control
<1>7. pc'[t] = l /\ loc'[t] = k /\ held' = held /\ boxes' = boxes
  BY <1>5, <1>1, <1>2 DEF Moves, objectVars, Inv, Typing
<1>8. Control(t)'
  BY <1>1, <1>2, <1>4, <1>7, ThreadsAssumption DEF Control
<1>9. Depths(t)'
  BY <1>1, <1>2, <1>4, <1>7, ThreadsAssumption, DepthAssumption DEF Control, Depths, Trying,
     Extra, Has, InEnterI, Where, Releasing, Unboxed, Top, Real, Depth
<1>10. /\ (Trying(t)' <=> Trying(t)) /\ (Extra(t)' <=> Extra(t))
        /\ (Has(t)' <=> Has(t)) /\ (InEnterI(t)' <=> InEnterI(t))
        /\ (Unboxed(t)' => Unboxed(t))
  BY <1>1, <1>2, <1>4, <1>7 DEF Control, Depths, Trying, Extra, Has, InEnterI, Where,
     Releasing, Unboxed, Top, Real, Depth
<1>11. Quiet(t)
  BY <1>4, <1>7, <1>8, <1>9, <1>10 DEF Quiet
<1> HIDE DEF l
<1> QED
  BY <1>1, <1>3, <1>4, <1>5, <1>6, <1>10, <1>11, QuietStep

\* ReenterI tries the lock.
LEMMA ReenterKeeps ==
  ASSUME Inv, NEW t \in Threads, Reenter(t), UNCHANGED objectVars
  PROVE  Inv'
<1>1. pc[t] = "reenter" /\ pc[t] \notin Outside
  BY DEF Reenter, Outside, this
<1>2. /\ mon[t] \in Monitors /\ om[mon[t]] \in MonitorRec /\ loc[t] \in LocRec
      /\ Control(t) /\ Depths(t) /\ Depth(t) \in Nat /\ (Has(t) <=> om[mon[t]].owner = t)
  BY <1>1, AtMonitor
<1>3. CASE om[mon[t]].owner = None
  <2> DEFINE l == "reegress"
             k == loc[t]
  <2>2. /\ k \in LocRec /\ k.inwait = loc[t].inwait /\ k.save = loc[t].save
          /\ k.spin = loc[t].spin /\ k.then = loc[t].then
    BY <1>1, <1>2, <1>3
  <2>3. Moves(t, l, [om[mon[t]] EXCEPT !.owner = t], k)
    BY <1>1, <1>2, <1>3 DEF Moves, Reenter, Go, Set, this, Inv, Typing
  <2> HIDE DEF k
  <2>4. l \in Labels \ Inflation
    BY <1>1, <1>2, <1>3, LabelSets DEF Control
  <2>5. pc'[t] = l /\ loc'[t] = k /\ held' = held /\ boxes' = boxes
    BY <2>3, <1>1, <1>2, <1>3 DEF Moves, objectVars, Inv, Typing
  <2>6. Control(t)'
    BY <1>1, <1>2, <1>3, <2>2, <2>5, ThreadsAssumption DEF Control
  <2>7. Depths(t)'
    BY <1>1, <1>2, <1>3, <2>2, <2>5, ThreadsAssumption, DepthAssumption DEF Control, Depths,
       Trying, Extra, Has, InEnterI, Where, Releasing, Unboxed, Top, Real, Depth
  <2>8. /\ Has(t)' /\ (InEnterI(t)' <=> InEnterI(t))
          /\ (~loc[t].inwait => \/ Depth(t) = 1 /\ Real(t, 1) /\ ~Trying(t)' /\ ~Extra(t)'
                                \/ Depth(t) = 0 /\ Extra(t)' /\ ~Trying(t)')
    BY <1>1, <1>2, <1>3, <2>2, <2>5, ThreadsAssumption, DepthAssumption DEF Control, Depths,
       Trying, Extra, Has, InEnterI, Where, Releasing, Unboxed, Top, Real, Depth
  <2> HIDE DEF l
  <2> QED
    BY <1>1, <1>2, <1>3, <2>2, <2>3, <2>4, <2>6, <2>7, <2>8, AcquireStep
<1>4. CASE om[mon[t]].owner # None
  <2> DEFINE l == "spin"
             q == om[mon[t]]
             k == [loc[t] EXCEPT !.spin = "reenter"]
  <2>1. q \in MonitorRec /\ CoreSame(q, om[mon[t]])
    BY <1>1, <1>2, <1>4, NoField DEF NT
  <2>2. /\ k \in LocRec /\ k.inwait = loc[t].inwait /\ k.save = loc[t].save
          /\ k.spin = "reenter" /\ k.then = loc[t].then
    BY <1>1, <1>2, <1>4, SpinLoc DEF NT
  <2>3. Moves(t, l, q, k)
    BY <1>1, <1>2, <1>4 DEF Moves, Reenter, Go, Set, this, Spin, Inv, Typing
  <2> HIDE DEF q, k
  <2>4. l \in Labels \ Inflation
    BY <1>1, <1>2, <1>4, LabelSets DEF Control, Spin
  <2>5. pc'[t] = l /\ loc'[t] = k /\ held' = held /\ boxes' = boxes
    BY <2>3, <1>1, <1>2, <1>4 DEF Moves, objectVars, Inv, Typing
  <2>6. Control(t)'
    BY <1>1, <1>2, <1>4, <2>2, <2>5, ThreadsAssumption DEF Control, Spin
  <2>7. Depths(t)'
    BY <1>1, <1>2, <1>4, <2>2, <2>5, ThreadsAssumption, DepthAssumption DEF Control, Depths,
       Trying, Extra, Has, InEnterI, Where, Releasing, Unboxed, Top, Real, Depth, Spin
  <2>8. /\ (Trying(t)' <=> Trying(t)) /\ (Extra(t)' <=> Extra(t))
          /\ (Has(t)' <=> Has(t)) /\ (InEnterI(t)' <=> InEnterI(t))
          /\ (Unboxed(t)' => Unboxed(t))
    BY <1>1, <1>2, <1>4, <2>2, <2>5 DEF Control, Depths, Trying, Extra, Has, InEnterI, Where,
       Releasing, Unboxed, Top, Real, Depth, Spin
  <2>9. Quiet(t)
    BY <2>2, <2>5, <2>6, <2>7, <2>8 DEF Quiet
  <2> HIDE DEF l
  <2> QED
    BY <1>1, <2>1, <2>2, <2>3, <2>4, <2>8, <2>9, QuietStep
<1> QED
  BY <1>1, <1>2, <1>3, <1>4 DEF Reenter, this

\* ReenterI parks.
LEMMA Reenter_parkKeeps ==
  ASSUME Inv, NEW t \in Threads, Reenter_park(t), UNCHANGED objectVars
  PROVE  Inv'
<1>1. pc[t] = "repark" /\ pc[t] \notin Outside
  BY DEF Reenter_park, Outside, this
<1>2. /\ mon[t] \in Monitors /\ om[mon[t]] \in MonitorRec /\ loc[t] \in LocRec
      /\ Control(t) /\ Depths(t) /\ Depth(t) \in Nat /\ (Has(t) <=> om[mon[t]].owner = t)
  BY <1>1, AtMonitor
<1> DEFINE l == "rewoken"
           q == om[mon[t]]
           k == loc[t]
<1>3. q \in MonitorRec /\ CoreSame(q, om[mon[t]])
  BY <1>1, <1>2, NoField DEF NT
<1>4. /\ k \in LocRec /\ k.inwait = loc[t].inwait /\ k.save = loc[t].save
        /\ k.spin = loc[t].spin /\ k.then = loc[t].then
  BY <1>1, <1>2
<1>5. Moves(t, l, q, k)
  BY <1>1, <1>2 DEF Moves, Reenter_park, Go, Set, this, Inv, Typing
<1> HIDE DEF q, k
<1>6. l \in Labels \ Inflation
  BY <1>1, <1>2, LabelSets DEF Control
<1>7. pc'[t] = l /\ loc'[t] = k /\ held' = held /\ boxes' = boxes
  BY <1>5, <1>1, <1>2 DEF Moves, objectVars, Inv, Typing
<1>8. Control(t)'
  BY <1>1, <1>2, <1>4, <1>7, ThreadsAssumption DEF Control
<1>9. Depths(t)'
  BY <1>1, <1>2, <1>4, <1>7, ThreadsAssumption, DepthAssumption DEF Control, Depths, Trying,
     Extra, Has, InEnterI, Where, Releasing, Unboxed, Top, Real, Depth
<1>10. /\ (Trying(t)' <=> Trying(t)) /\ (Extra(t)' <=> Extra(t))
        /\ (Has(t)' <=> Has(t)) /\ (InEnterI(t)' <=> InEnterI(t))
        /\ (Unboxed(t)' => Unboxed(t))
  BY <1>1, <1>2, <1>4, <1>7 DEF Control, Depths, Trying, Extra, Has, InEnterI, Where,
     Releasing, Unboxed, Top, Real, Depth
<1>11. Quiet(t)
  BY <1>4, <1>7, <1>8, <1>9, <1>10 DEF Quiet
<1> HIDE DEF l
<1> QED
  BY <1>1, <1>3, <1>4, <1>5, <1>6, <1>10, <1>11, QuietStep

\* ReenterI clears _succ after a wakeup.
LEMMA Reenter_wokenKeeps ==
  ASSUME Inv, NEW t \in Threads, Reenter_woken(t), UNCHANGED objectVars
  PROVE  Inv'
<1>1. pc[t] = "rewoken" /\ pc[t] \notin Outside
  BY DEF Reenter_woken, Outside, this
<1>2. /\ mon[t] \in Monitors /\ om[mon[t]] \in MonitorRec /\ loc[t] \in LocRec
      /\ Control(t) /\ Depths(t) /\ Depth(t) \in Nat /\ (Has(t) <=> om[mon[t]].owner = t)
  BY <1>1, AtMonitor
<1>3. CASE om[mon[t]].owner = None
  <2> DEFINE l == "reegress"
             k == loc[t]
  <2>2. /\ k \in LocRec /\ k.inwait = loc[t].inwait /\ k.save = loc[t].save
          /\ k.spin = loc[t].spin /\ k.then = loc[t].then
    BY <1>1, <1>2, <1>3
  <2>3. Moves(t, l, [om[mon[t]] EXCEPT !.owner = t], k)
    BY <1>1, <1>2, <1>3 DEF Moves, Reenter_woken, Go, Set, this, Inv, Typing
  <2> HIDE DEF k
  <2>4. l \in Labels \ Inflation
    BY <1>1, <1>2, <1>3, LabelSets DEF Control
  <2>5. pc'[t] = l /\ loc'[t] = k /\ held' = held /\ boxes' = boxes
    BY <2>3, <1>1, <1>2, <1>3 DEF Moves, objectVars, Inv, Typing
  <2>6. Control(t)'
    BY <1>1, <1>2, <1>3, <2>2, <2>5, ThreadsAssumption DEF Control
  <2>7. Depths(t)'
    BY <1>1, <1>2, <1>3, <2>2, <2>5, ThreadsAssumption, DepthAssumption DEF Control, Depths,
       Trying, Extra, Has, InEnterI, Where, Releasing, Unboxed, Top, Real, Depth
  <2>8. /\ Has(t)' /\ (InEnterI(t)' <=> InEnterI(t))
          /\ (~loc[t].inwait => \/ Depth(t) = 1 /\ Real(t, 1) /\ ~Trying(t)' /\ ~Extra(t)'
                                \/ Depth(t) = 0 /\ Extra(t)' /\ ~Trying(t)')
    BY <1>1, <1>2, <1>3, <2>2, <2>5, ThreadsAssumption, DepthAssumption DEF Control, Depths,
       Trying, Extra, Has, InEnterI, Where, Releasing, Unboxed, Top, Real, Depth
  <2> HIDE DEF l
  <2> QED
    BY <1>1, <1>2, <1>3, <2>2, <2>3, <2>4, <2>6, <2>7, <2>8, AcquireStep
<1>4. CASE om[mon[t]].owner # None /\ om[mon[t]].succ = t
  <2> DEFINE l == "clearing"
             q == om[mon[t]]
             k == [loc[t] EXCEPT !.spin = None, !.then = "reenter"]
  <2>1. q \in MonitorRec /\ CoreSame(q, om[mon[t]])
    BY <1>1, <1>2, <1>4, NoField DEF NT
  <2>2. /\ k \in LocRec /\ k.inwait = loc[t].inwait /\ k.save = loc[t].save
          /\ k.spin = None /\ k.then = "reenter"
    <3>1. "reenter" \in Labels BY DEF Labels
    <3> QED
      BY <1>1, <1>2, <1>4, <3>1, SpinThenLoc DEF NT
  <2>3. Moves(t, l, q, k)
    BY <1>1, <1>2, <1>4 DEF Moves, Reenter_woken, Go, Set, this, ClearSucc, Inv, Typing
  <2> HIDE DEF q, k
  <2>4. l \in Labels \ Inflation
    BY <1>1, <1>2, <1>4, LabelSets DEF Control, ClearSucc
  <2>5. pc'[t] = l /\ loc'[t] = k /\ held' = held /\ boxes' = boxes
    BY <2>3, <1>1, <1>2, <1>4 DEF Moves, objectVars, Inv, Typing
  <2>6. Control(t)'
    BY <1>1, <1>2, <1>4, <2>2, <2>5, ThreadsAssumption DEF Control, ClearSucc
  <2>7. Depths(t)'
    BY <1>1, <1>2, <1>4, <2>2, <2>5, ThreadsAssumption, DepthAssumption DEF Control, Depths,
       Trying, Extra, Has, InEnterI, Where, Releasing, Unboxed, Top, Real, Depth, ClearSucc
  <2>8. /\ (Trying(t)' <=> Trying(t)) /\ (Extra(t)' <=> Extra(t))
          /\ (Has(t)' <=> Has(t)) /\ (InEnterI(t)' <=> InEnterI(t))
          /\ (Unboxed(t)' => Unboxed(t))
    BY <1>1, <1>2, <1>4, <2>2, <2>5 DEF Control, Depths, Trying, Extra, Has, InEnterI, Where,
       Releasing, Unboxed, Top, Real, Depth, ClearSucc
  <2>9. Quiet(t)
    BY <2>2, <2>5, <2>6, <2>7, <2>8 DEF Quiet
  <2> HIDE DEF l
  <2> QED
    BY <1>1, <2>1, <2>2, <2>3, <2>4, <2>8, <2>9, QuietStep
<1>5. CASE om[mon[t]].owner # None /\ om[mon[t]].succ # t
  <2> DEFINE l == "reenter"
             q == om[mon[t]]
             k == [loc[t] EXCEPT !.spin = None]
  <2>1. q \in MonitorRec /\ CoreSame(q, om[mon[t]])
    BY <1>1, <1>2, <1>5, NoField DEF NT
  <2>2. /\ k \in LocRec /\ k.inwait = loc[t].inwait /\ k.save = loc[t].save
          /\ k.spin = None /\ k.then = loc[t].then
    BY <1>1, <1>2, <1>5, SpinLoc DEF NT
  <2>3. Moves(t, l, q, k)
    BY <1>1, <1>2, <1>5 DEF Moves, Reenter_woken, Go, Set, this, ClearSucc, Inv, Typing
  <2> HIDE DEF q, k
  <2>4. l \in Labels \ Inflation
    BY <1>1, <1>2, <1>5, LabelSets DEF Control, ClearSucc
  <2>5. pc'[t] = l /\ loc'[t] = k /\ held' = held /\ boxes' = boxes
    BY <2>3, <1>1, <1>2, <1>5 DEF Moves, objectVars, Inv, Typing
  <2>6. Control(t)'
    BY <1>1, <1>2, <1>5, <2>2, <2>5, ThreadsAssumption DEF Control, ClearSucc
  <2>7. Depths(t)'
    BY <1>1, <1>2, <1>5, <2>2, <2>5, ThreadsAssumption, DepthAssumption DEF Control, Depths,
       Trying, Extra, Has, InEnterI, Where, Releasing, Unboxed, Top, Real, Depth, ClearSucc
  <2>8. /\ (Trying(t)' <=> Trying(t)) /\ (Extra(t)' <=> Extra(t))
          /\ (Has(t)' <=> Has(t)) /\ (InEnterI(t)' <=> InEnterI(t))
          /\ (Unboxed(t)' => Unboxed(t))
    BY <1>1, <1>2, <1>5, <2>2, <2>5 DEF Control, Depths, Trying, Extra, Has, InEnterI, Where,
       Releasing, Unboxed, Top, Real, Depth, ClearSucc
  <2>9. Quiet(t)
    BY <2>2, <2>5, <2>6, <2>7, <2>8 DEF Quiet
  <2> HIDE DEF l
  <2> QED
    BY <1>1, <2>1, <2>2, <2>3, <2>4, <2>8, <2>9, QuietStep
<1> QED
  BY <1>1, <1>2, <1>3, <1>4, <1>5 DEF Reenter_woken, this

\* ReenterI unlinks its node.
LEMMA Reenter_egressKeeps ==
  ASSUME Inv, NEW t \in Threads, Reenter_egress(t), UNCHANGED objectVars
  PROVE  Inv'
<1>1. pc[t] = "reegress" /\ pc[t] \notin Outside
  BY DEF Reenter_egress, Outside, this
<1>2. /\ mon[t] \in Monitors /\ om[mon[t]] \in MonitorRec /\ loc[t] \in LocRec
      /\ Control(t) /\ Depths(t) /\ Depth(t) \in Nat /\ (Has(t) <=> om[mon[t]].owner = t)
  BY <1>1, AtMonitor
<1>3. CASE om[mon[t]].succ = t
  <2> DEFINE l == "clearing"
             q == Unlinked(t)
             k == [loc[t] EXCEPT !.spin = None, !.then = "wait_reentered"]
  <2>1. q \in MonitorRec /\ CoreSame(q, om[mon[t]])
    BY <1>1, <1>2, <1>3, UnlinkedFields DEF NT
  <2>2. /\ k \in LocRec /\ k.inwait = loc[t].inwait /\ k.save = loc[t].save
          /\ k.spin = None /\ k.then = "wait_reentered"
    <3>1. "wait_reentered" \in Labels BY DEF Labels
    <3> QED
      BY <1>1, <1>2, <1>3, <3>1, SpinThenLoc DEF NT
  <2>3. Moves(t, l, q, k)
    <3>2. node' = [node EXCEPT ![t].TState = "RUN"]
      BY <1>1, <1>2, <1>3 DEF Reenter_egress, this
    <3>1. node' \in [Threads -> NodeRec]
      BY <3>2, NodeState, NodeNotify
    <3> QED
      BY <1>1, <1>2, <1>3, <3>1 DEF Moves, Reenter_egress, Go, Set, this, ClearSucc, Inv, Typing
  <2> HIDE DEF q, k
  <2>4. l \in Labels \ Inflation
    BY <1>1, <1>2, <1>3, LabelSets DEF Control, ClearSucc
  <2>5. pc'[t] = l /\ loc'[t] = k /\ held' = held /\ boxes' = boxes
    BY <2>3, <1>1, <1>2, <1>3 DEF Moves, objectVars, Inv, Typing
  <2>6. Control(t)'
    BY <1>1, <1>2, <1>3, <2>2, <2>5, ThreadsAssumption DEF Control, ClearSucc
  <2>7. Depths(t)'
    BY <1>1, <1>2, <1>3, <2>2, <2>5, ThreadsAssumption, DepthAssumption DEF Control, Depths,
       Trying, Extra, Has, InEnterI, Where, Releasing, Unboxed, Top, Real, Depth, ClearSucc
  <2>8. /\ (Trying(t)' <=> Trying(t)) /\ (Extra(t)' <=> Extra(t))
          /\ (Has(t)' <=> Has(t)) /\ (InEnterI(t)' <=> InEnterI(t))
          /\ (Unboxed(t)' => Unboxed(t))
    BY <1>1, <1>2, <1>3, <2>2, <2>5 DEF Control, Depths, Trying, Extra, Has, InEnterI, Where,
       Releasing, Unboxed, Top, Real, Depth, ClearSucc
  <2>9. Quiet(t)
    BY <2>2, <2>5, <2>6, <2>7, <2>8 DEF Quiet
  <2> HIDE DEF l
  <2> QED
    BY <1>1, <2>1, <2>2, <2>3, <2>4, <2>8, <2>9, QuietStep
<1>4. CASE om[mon[t]].succ # t
  <2> DEFINE l == "wait_reentered"
             q == Unlinked(t)
             k == [loc[t] EXCEPT !.spin = None]
  <2>1. q \in MonitorRec /\ CoreSame(q, om[mon[t]])
    BY <1>1, <1>2, <1>4, UnlinkedFields DEF NT
  <2>2. /\ k \in LocRec /\ k.inwait = loc[t].inwait /\ k.save = loc[t].save
          /\ k.spin = None /\ k.then = loc[t].then
    BY <1>1, <1>2, <1>4, SpinLoc DEF NT
  <2>3. Moves(t, l, q, k)
    <3>2. node' = [node EXCEPT ![t].TState = "RUN"]
      BY <1>1, <1>2, <1>4 DEF Reenter_egress, this
    <3>1. node' \in [Threads -> NodeRec]
      BY <3>2, NodeState, NodeNotify
    <3> QED
      BY <1>1, <1>2, <1>4, <3>1 DEF Moves, Reenter_egress, Go, Set, this, ClearSucc, Inv, Typing
  <2> HIDE DEF q, k
  <2>4. l \in Labels \ Inflation
    BY <1>1, <1>2, <1>4, LabelSets DEF Control, ClearSucc
  <2>5. pc'[t] = l /\ loc'[t] = k /\ held' = held /\ boxes' = boxes
    BY <2>3, <1>1, <1>2, <1>4 DEF Moves, objectVars, Inv, Typing
  <2>6. Control(t)'
    BY <1>1, <1>2, <1>4, <2>2, <2>5, ThreadsAssumption DEF Control, ClearSucc
  <2>7. Depths(t)'
    BY <1>1, <1>2, <1>4, <2>2, <2>5, ThreadsAssumption, DepthAssumption DEF Control, Depths,
       Trying, Extra, Has, InEnterI, Where, Releasing, Unboxed, Top, Real, Depth, ClearSucc
  <2>8. /\ (Trying(t)' <=> Trying(t)) /\ (Extra(t)' <=> Extra(t))
          /\ (Has(t)' <=> Has(t)) /\ (InEnterI(t)' <=> InEnterI(t))
          /\ (Unboxed(t)' => Unboxed(t))
    BY <1>1, <1>2, <1>4, <2>2, <2>5 DEF Control, Depths, Trying, Extra, Has, InEnterI, Where,
       Releasing, Unboxed, Top, Real, Depth, ClearSucc
  <2>9. Quiet(t)
    BY <2>2, <2>5, <2>6, <2>7, <2>8 DEF Quiet
  <2> HIDE DEF l
  <2> QED
    BY <1>1, <2>1, <2>2, <2>3, <2>4, <2>8, <2>9, QuietStep
<1> QED
  BY <1>1, <1>2, <1>3, <1>4 DEF Reenter_egress, this

-----------------------------------------------------------------------------
(* notify and notifyAll *)

\* Notify marks the waiter.
LEMMA Notify_setKeeps ==
  ASSUME Inv, NEW t \in Threads, Notify_set(t), UNCHANGED objectVars
  PROVE  Inv'
<1>1. pc[t] = "notify_set" /\ pc[t] \notin Outside
  BY DEF Notify_set, Outside, this
<1>2. /\ mon[t] \in Monitors /\ om[mon[t]] \in MonitorRec /\ loc[t] \in LocRec
      /\ Control(t) /\ Depths(t) /\ Depth(t) \in Nat /\ (Has(t) <=> om[mon[t]].owner = t)
  BY <1>1, AtMonitor
<1> DEFINE l == "notify_link"
           q == om[mon[t]]
           k == loc[t]
<1>3. q \in MonitorRec /\ CoreSame(q, om[mon[t]])
  BY <1>1, <1>2, NoField DEF NT
<1>4. /\ k \in LocRec /\ k.inwait = loc[t].inwait /\ k.save = loc[t].save
        /\ k.spin = loc[t].spin /\ k.then = loc[t].then
  BY <1>1, <1>2
<1>5. Moves(t, l, q, k)
  <2>2. node' = [node EXCEPT ![loc[t].w].notified = 1]
    BY <1>1, <1>2 DEF Notify_set, this
  <2>1. node' \in [Threads -> NodeRec]
    BY <2>2, NodeState, NodeNotify
  <2> QED
    BY <1>1, <1>2, <2>1 DEF Moves, Notify_set, Go, Set, this, Inv, Typing
<1> HIDE DEF q, k
<1>6. l \in Labels \ Inflation
  BY <1>1, <1>2, LabelSets DEF Control
<1>7. pc'[t] = l /\ loc'[t] = k /\ held' = held /\ boxes' = boxes
  BY <1>5, <1>1, <1>2 DEF Moves, objectVars, Inv, Typing
<1>8. Control(t)'
  BY <1>1, <1>2, <1>4, <1>7, ThreadsAssumption DEF Control
<1>9. Depths(t)'
  BY <1>1, <1>2, <1>4, <1>7, ThreadsAssumption, DepthAssumption DEF Control, Depths, Trying,
     Extra, Has, InEnterI, Where, Releasing, Unboxed, Top, Real, Depth
<1>10. /\ (Trying(t)' <=> Trying(t)) /\ (Extra(t)' <=> Extra(t))
        /\ (Has(t)' <=> Has(t)) /\ (InEnterI(t)' <=> InEnterI(t))
        /\ (Unboxed(t)' => Unboxed(t))
  BY <1>1, <1>2, <1>4, <1>7 DEF Control, Depths, Trying, Extra, Has, InEnterI, Where,
     Releasing, Unboxed, Top, Real, Depth
<1>11. Quiet(t)
  BY <1>4, <1>7, <1>8, <1>9, <1>10 DEF Quiet
<1> HIDE DEF l
<1> QED
  BY <1>1, <1>3, <1>4, <1>5, <1>6, <1>10, <1>11, QuietStep

\* Notify takes a waiter off _WaitSet.
LEMMA Notify_dequeueKeeps ==
  ASSUME Inv, NEW t \in Threads, Notify_dequeue(t), UNCHANGED objectVars
  PROVE  Inv'
<1>1. pc[t] = "notify_dequeue" /\ pc[t] \notin Outside
  BY DEF Notify_dequeue, Outside, this
<1>2. /\ mon[t] \in Monitors /\ om[mon[t]] \in MonitorRec /\ loc[t] \in LocRec
      /\ Control(t) /\ Depths(t) /\ Depth(t) \in Nat /\ (Has(t) <=> om[mon[t]].owner = t)
  BY <1>1, AtMonitor
<1>3. CASE om[mon[t]].WaitSet = <<>>
  <2> DEFINE l == "java"
             q == om[mon[t]]
             k == loc[t]
  <2>1. q \in MonitorRec /\ CoreSame(q, om[mon[t]])
    BY <1>1, <1>2, <1>3, NoField DEF NT
  <2>2. /\ k \in LocRec /\ k.inwait = loc[t].inwait /\ k.save = loc[t].save
          /\ k.spin = loc[t].spin /\ k.then = loc[t].then
    BY <1>1, <1>2, <1>3
  <2>3. Moves(t, l, q, k)
    BY <1>1, <1>2, <1>3 DEF Moves, Notify_dequeue, Go, Set, this, Inv, Typing
  <2> HIDE DEF q, k
  <2>4. l \in Labels \ Inflation
    BY <1>1, <1>2, <1>3, LabelSets DEF Control
  <2>5. pc'[t] = l /\ loc'[t] = k /\ held' = held /\ boxes' = boxes
    BY <2>3, <1>1, <1>2, <1>3 DEF Moves, objectVars, Inv, Typing
  <2>6. Control(t)'
    BY <1>1, <1>2, <1>3, <2>2, <2>5, ThreadsAssumption DEF Control
  <2>7. Depths(t)'
    BY <1>1, <1>2, <1>3, <2>2, <2>5, ThreadsAssumption, DepthAssumption DEF Control, Depths,
       Trying, Extra, Has, InEnterI, Where, Releasing, Unboxed, Top, Real, Depth
  <2>8. /\ (Trying(t)' <=> Trying(t)) /\ (Extra(t)' <=> Extra(t))
          /\ (Has(t)' <=> Has(t)) /\ (InEnterI(t)' <=> InEnterI(t))
          /\ (Unboxed(t)' => Unboxed(t))
    BY <1>1, <1>2, <1>3, <2>2, <2>5 DEF Control, Depths, Trying, Extra, Has, InEnterI, Where,
       Releasing, Unboxed, Top, Real, Depth
  <2>9. Quiet(t)
    BY <2>2, <2>5, <2>6, <2>7, <2>8 DEF Quiet
  <2> HIDE DEF l
  <2> QED
    BY <1>1, <2>1, <2>2, <2>3, <2>4, <2>8, <2>9, QuietStep
<1>4. CASE om[mon[t]].WaitSet # <<>>
  <2> DEFINE l == "notify_set"
             q == [om[mon[t]] EXCEPT !.WaitSet = Tail(@), !.WaitSetLock = t]
             k == [loc[t] EXCEPT !.w = First(om[mon[t]].WaitSet)]
  <2>1. q \in MonitorRec /\ CoreSame(q, om[mon[t]])
    BY <1>1, <1>2, <1>4, DequeueFields, ListFields, Lists DEF NT
  <2>2. /\ k \in LocRec /\ k.inwait = loc[t].inwait /\ k.save = loc[t].save
          /\ k.spin = loc[t].spin /\ k.then = loc[t].then
    BY <1>1, <1>2, <1>4, WLoc, ListFields, Lists DEF NT
  <2>3. Moves(t, l, q, k)
    <3>2. node' = [node EXCEPT ![First(om[mon[t]].WaitSet)].TState = "ENTER"]
      BY <1>1, <1>2, <1>4 DEF Notify_dequeue, this
    <3>1. node' \in [Threads -> NodeRec]
      BY <3>2, NodeState, NodeNotify
    <3> QED
      BY <1>1, <1>2, <1>4, <3>1 DEF Moves, Notify_dequeue, Go, Set, this, Inv, Typing
  <2> HIDE DEF q, k
  <2>4. l \in Labels \ Inflation
    BY <1>1, <1>2, <1>4, LabelSets DEF Control
  <2>5. pc'[t] = l /\ loc'[t] = k /\ held' = held /\ boxes' = boxes
    BY <2>3, <1>1, <1>2, <1>4 DEF Moves, objectVars, Inv, Typing
  <2>6. Control(t)'
    BY <1>1, <1>2, <1>4, <2>2, <2>5, ThreadsAssumption DEF Control
  <2>7. Depths(t)'
    BY <1>1, <1>2, <1>4, <2>2, <2>5, ThreadsAssumption, DepthAssumption DEF Control, Depths,
       Trying, Extra, Has, InEnterI, Where, Releasing, Unboxed, Top, Real, Depth
  <2>8. /\ (Trying(t)' <=> Trying(t)) /\ (Extra(t)' <=> Extra(t))
          /\ (Has(t)' <=> Has(t)) /\ (InEnterI(t)' <=> InEnterI(t))
          /\ (Unboxed(t)' => Unboxed(t))
    BY <1>1, <1>2, <1>4, <2>2, <2>5 DEF Control, Depths, Trying, Extra, Has, InEnterI, Where,
       Releasing, Unboxed, Top, Real, Depth
  <2>9. Quiet(t)
    BY <2>2, <2>5, <2>6, <2>7, <2>8 DEF Quiet
  <2> HIDE DEF l
  <2> QED
    BY <1>1, <2>1, <2>2, <2>3, <2>4, <2>8, <2>9, QuietStep
<1> QED
  BY <1>1, <1>2, <1>3, <1>4 DEF Notify_dequeue, this

\* Notify links the waiter to be woken by exit.
LEMMA Notify_linkKeeps ==
  ASSUME Inv, NEW t \in Threads, Notify_link(t), UNCHANGED objectVars
  PROVE  Inv'
<1>1. pc[t] = "notify_link" /\ pc[t] \notin Outside
  BY DEF Notify_link, Outside, this
<1>2. /\ mon[t] \in Monitors /\ om[mon[t]] \in MonitorRec /\ loc[t] \in LocRec
      /\ Control(t) /\ Depths(t) /\ Depth(t) \in Nat /\ (Has(t) <=> om[mon[t]].owner = t)
  BY <1>1, AtMonitor
<1>3. CASE om[mon[t]].EntryList = <<>>
  <2> DEFINE l == "java"
             q == [om[mon[t]] EXCEPT !.EntryList = <<loc[t].w>>, !.WaitSetLock = None]
             k == [loc[t] EXCEPT !.w = None]
  <2>1. q \in MonitorRec /\ CoreSame(q, om[mon[t]])
    BY <1>1, <1>2, <1>3, LinkEntryFields, ListFields, Lists, LocW, Lists DEF NT
  <2>2. /\ k \in LocRec /\ k.inwait = loc[t].inwait /\ k.save = loc[t].save
          /\ k.spin = loc[t].spin /\ k.then = loc[t].then
    BY <1>1, <1>2, <1>3, WLoc, ListFields, Lists DEF NT
  <2>3. Moves(t, l, q, k)
    BY <1>1, <1>2, <1>3 DEF Moves, Notify_link, Go, Set, this, Inv, Typing
  <2> HIDE DEF q, k
  <2>4. l \in Labels \ Inflation
    BY <1>1, <1>2, <1>3, LabelSets DEF Control
  <2>5. pc'[t] = l /\ loc'[t] = k /\ held' = held /\ boxes' = boxes
    BY <2>3, <1>1, <1>2, <1>3 DEF Moves, objectVars, Inv, Typing
  <2>6. Control(t)'
    BY <1>1, <1>2, <1>3, <2>2, <2>5, ThreadsAssumption DEF Control
  <2>7. Depths(t)'
    BY <1>1, <1>2, <1>3, <2>2, <2>5, ThreadsAssumption, DepthAssumption DEF Control, Depths,
       Trying, Extra, Has, InEnterI, Where, Releasing, Unboxed, Top, Real, Depth
  <2>8. /\ (Trying(t)' <=> Trying(t)) /\ (Extra(t)' <=> Extra(t))
          /\ (Has(t)' <=> Has(t)) /\ (InEnterI(t)' <=> InEnterI(t))
          /\ (Unboxed(t)' => Unboxed(t))
    BY <1>1, <1>2, <1>3, <2>2, <2>5 DEF Control, Depths, Trying, Extra, Has, InEnterI, Where,
       Releasing, Unboxed, Top, Real, Depth
  <2>9. Quiet(t)
    BY <2>2, <2>5, <2>6, <2>7, <2>8 DEF Quiet
  <2> HIDE DEF l
  <2> QED
    BY <1>1, <2>1, <2>2, <2>3, <2>4, <2>8, <2>9, QuietStep
<1>4. CASE om[mon[t]].EntryList # <<>>
  <2> DEFINE l == "java"
             q == [om[mon[t]] EXCEPT !.cxq = <<loc[t].w>> \o @, !.WaitSetLock = None]
             k == [loc[t] EXCEPT !.w = None]
  <2>1. q \in MonitorRec /\ CoreSame(q, om[mon[t]])
    BY <1>1, <1>2, <1>4, LinkCxqFields, ListFields, Lists, LocW DEF NT
  <2>2. /\ k \in LocRec /\ k.inwait = loc[t].inwait /\ k.save = loc[t].save
          /\ k.spin = loc[t].spin /\ k.then = loc[t].then
    BY <1>1, <1>2, <1>4, WLoc, ListFields, Lists DEF NT
  <2>3. Moves(t, l, q, k)
    <3>2. node' = [node EXCEPT ![loc[t].w].TState = "CXQ"]
      BY <1>1, <1>2, <1>4 DEF Notify_link, this
    <3>1. node' \in [Threads -> NodeRec]
      BY <3>2, NodeState, NodeNotify
    <3> QED
      BY <1>1, <1>2, <1>4, <3>1 DEF Moves, Notify_link, Go, Set, this, Inv, Typing
  <2> HIDE DEF q, k
  <2>4. l \in Labels \ Inflation
    BY <1>1, <1>2, <1>4, LabelSets DEF Control
  <2>5. pc'[t] = l /\ loc'[t] = k /\ held' = held /\ boxes' = boxes
    BY <2>3, <1>1, <1>2, <1>4 DEF Moves, objectVars, Inv, Typing
  <2>6. Control(t)'
    BY <1>1, <1>2, <1>4, <2>2, <2>5, ThreadsAssumption DEF Control
  <2>7. Depths(t)'
    BY <1>1, <1>2, <1>4, <2>2, <2>5, ThreadsAssumption, DepthAssumption DEF Control, Depths,
       Trying, Extra, Has, InEnterI, Where, Releasing, Unboxed, Top, Real, Depth
  <2>8. /\ (Trying(t)' <=> Trying(t)) /\ (Extra(t)' <=> Extra(t))
          /\ (Has(t)' <=> Has(t)) /\ (InEnterI(t)' <=> InEnterI(t))
          /\ (Unboxed(t)' => Unboxed(t))
    BY <1>1, <1>2, <1>4, <2>2, <2>5 DEF Control, Depths, Trying, Extra, Has, InEnterI, Where,
       Releasing, Unboxed, Top, Real, Depth
  <2>9. Quiet(t)
    BY <2>2, <2>5, <2>6, <2>7, <2>8 DEF Quiet
  <2> HIDE DEF l
  <2> QED
    BY <1>1, <2>1, <2>2, <2>3, <2>4, <2>8, <2>9, QuietStep
<1> QED
  BY <1>1, <1>2, <1>3, <1>4 DEF Notify_link, this

\* NotifyAll takes the WaitSetLock.
LEMMA NotifyAll_lockKeeps ==
  ASSUME Inv, NEW t \in Threads, NotifyAll_lock(t), UNCHANGED objectVars
  PROVE  Inv'
<1>1. pc[t] = "notifyAll_lock" /\ pc[t] \notin Outside
  BY DEF NotifyAll_lock, Outside, this
<1>2. /\ mon[t] \in Monitors /\ om[mon[t]] \in MonitorRec /\ loc[t] \in LocRec
      /\ Control(t) /\ Depths(t) /\ Depth(t) \in Nat /\ (Has(t) <=> om[mon[t]].owner = t)
  BY <1>1, AtMonitor
<1> DEFINE l == "notifyAll_dequeue"
           q == [om[mon[t]] EXCEPT !.WaitSetLock = t]
           k == loc[t]
<1>3. q \in MonitorRec /\ CoreSame(q, om[mon[t]])
  BY <1>1, <1>2, WaitSetLockField DEF NT
<1>4. /\ k \in LocRec /\ k.inwait = loc[t].inwait /\ k.save = loc[t].save
        /\ k.spin = loc[t].spin /\ k.then = loc[t].then
  BY <1>1, <1>2
<1>5. Moves(t, l, q, k)
  BY <1>1, <1>2 DEF Moves, NotifyAll_lock, Go, Set, this, Inv, Typing
<1> HIDE DEF q, k
<1>6. l \in Labels \ Inflation
  BY <1>1, <1>2, LabelSets DEF Control
<1>7. pc'[t] = l /\ loc'[t] = k /\ held' = held /\ boxes' = boxes
  BY <1>5, <1>1, <1>2 DEF Moves, objectVars, Inv, Typing
<1>8. Control(t)'
  BY <1>1, <1>2, <1>4, <1>7, ThreadsAssumption DEF Control
<1>9. Depths(t)'
  BY <1>1, <1>2, <1>4, <1>7, ThreadsAssumption, DepthAssumption DEF Control, Depths, Trying,
     Extra, Has, InEnterI, Where, Releasing, Unboxed, Top, Real, Depth
<1>10. /\ (Trying(t)' <=> Trying(t)) /\ (Extra(t)' <=> Extra(t))
        /\ (Has(t)' <=> Has(t)) /\ (InEnterI(t)' <=> InEnterI(t))
        /\ (Unboxed(t)' => Unboxed(t))
  BY <1>1, <1>2, <1>4, <1>7 DEF Control, Depths, Trying, Extra, Has, InEnterI, Where,
     Releasing, Unboxed, Top, Real, Depth
<1>11. Quiet(t)
  BY <1>4, <1>7, <1>8, <1>9, <1>10 DEF Quiet
<1> HIDE DEF l
<1> QED
  BY <1>1, <1>3, <1>4, <1>5, <1>6, <1>10, <1>11, QuietStep

\* NotifyAll takes a waiter off _WaitSet.
LEMMA NotifyAll_dequeueKeeps ==
  ASSUME Inv, NEW t \in Threads, NotifyAll_dequeue(t), UNCHANGED objectVars
  PROVE  Inv'
<1>1. pc[t] = "notifyAll_dequeue" /\ pc[t] \notin Outside
  BY DEF NotifyAll_dequeue, Outside, this
<1>2. /\ mon[t] \in Monitors /\ om[mon[t]] \in MonitorRec /\ loc[t] \in LocRec
      /\ Control(t) /\ Depths(t) /\ Depth(t) \in Nat /\ (Has(t) <=> om[mon[t]].owner = t)
  BY <1>1, AtMonitor
<1>3. CASE om[mon[t]].WaitSet = <<>>
  <2> DEFINE l == "java"
             q == [om[mon[t]] EXCEPT !.WaitSetLock = None]
             k == loc[t]
  <2>1. q \in MonitorRec /\ CoreSame(q, om[mon[t]])
    BY <1>1, <1>2, <1>3, WaitSetLockField DEF NT
  <2>2. /\ k \in LocRec /\ k.inwait = loc[t].inwait /\ k.save = loc[t].save
          /\ k.spin = loc[t].spin /\ k.then = loc[t].then
    BY <1>1, <1>2, <1>3
  <2>3. Moves(t, l, q, k)
    BY <1>1, <1>2, <1>3 DEF Moves, NotifyAll_dequeue, Go, Set, this, Inv, Typing
  <2> HIDE DEF q, k
  <2>4. l \in Labels \ Inflation
    BY <1>1, <1>2, <1>3, LabelSets DEF Control
  <2>5. pc'[t] = l /\ loc'[t] = k /\ held' = held /\ boxes' = boxes
    BY <2>3, <1>1, <1>2, <1>3 DEF Moves, objectVars, Inv, Typing
  <2>6. Control(t)'
    BY <1>1, <1>2, <1>3, <2>2, <2>5, ThreadsAssumption DEF Control
  <2>7. Depths(t)'
    BY <1>1, <1>2, <1>3, <2>2, <2>5, ThreadsAssumption, DepthAssumption DEF Control, Depths,
       Trying, Extra, Has, InEnterI, Where, Releasing, Unboxed, Top, Real, Depth
  <2>8. /\ (Trying(t)' <=> Trying(t)) /\ (Extra(t)' <=> Extra(t))
          /\ (Has(t)' <=> Has(t)) /\ (InEnterI(t)' <=> InEnterI(t))
          /\ (Unboxed(t)' => Unboxed(t))
    BY <1>1, <1>2, <1>3, <2>2, <2>5 DEF Control, Depths, Trying, Extra, Has, InEnterI, Where,
       Releasing, Unboxed, Top, Real, Depth
  <2>9. Quiet(t)
    BY <2>2, <2>5, <2>6, <2>7, <2>8 DEF Quiet
  <2> HIDE DEF l
  <2> QED
    BY <1>1, <2>1, <2>2, <2>3, <2>4, <2>8, <2>9, QuietStep
<1>4. CASE om[mon[t]].WaitSet # <<>>
  <2> DEFINE l == "notifyAll_link"
             q == [om[mon[t]] EXCEPT !.WaitSet = Tail(@)]
             k == [loc[t] EXCEPT !.w = First(om[mon[t]].WaitSet)]
  <2>1. q \in MonitorRec /\ CoreSame(q, om[mon[t]])
    BY <1>1, <1>2, <1>4, WaitSetField, ListFields, Lists DEF NT
  <2>2. /\ k \in LocRec /\ k.inwait = loc[t].inwait /\ k.save = loc[t].save
          /\ k.spin = loc[t].spin /\ k.then = loc[t].then
    BY <1>1, <1>2, <1>4, WLoc, ListFields, Lists DEF NT
  <2>3. Moves(t, l, q, k)
    <3>2. node' = [node EXCEPT ![First(om[mon[t]].WaitSet)].notified = 1]
      BY <1>1, <1>2, <1>4 DEF NotifyAll_dequeue, this
    <3>1. node' \in [Threads -> NodeRec]
      BY <3>2, NodeState, NodeNotify
    <3> QED
      BY <1>1, <1>2, <1>4, <3>1 DEF Moves, NotifyAll_dequeue, Go, Set, this, Inv, Typing
  <2> HIDE DEF q, k
  <2>4. l \in Labels \ Inflation
    BY <1>1, <1>2, <1>4, LabelSets DEF Control
  <2>5. pc'[t] = l /\ loc'[t] = k /\ held' = held /\ boxes' = boxes
    BY <2>3, <1>1, <1>2, <1>4 DEF Moves, objectVars, Inv, Typing
  <2>6. Control(t)'
    BY <1>1, <1>2, <1>4, <2>2, <2>5, ThreadsAssumption DEF Control
  <2>7. Depths(t)'
    BY <1>1, <1>2, <1>4, <2>2, <2>5, ThreadsAssumption, DepthAssumption DEF Control, Depths,
       Trying, Extra, Has, InEnterI, Where, Releasing, Unboxed, Top, Real, Depth
  <2>8. /\ (Trying(t)' <=> Trying(t)) /\ (Extra(t)' <=> Extra(t))
          /\ (Has(t)' <=> Has(t)) /\ (InEnterI(t)' <=> InEnterI(t))
          /\ (Unboxed(t)' => Unboxed(t))
    BY <1>1, <1>2, <1>4, <2>2, <2>5 DEF Control, Depths, Trying, Extra, Has, InEnterI, Where,
       Releasing, Unboxed, Top, Real, Depth
  <2>9. Quiet(t)
    BY <2>2, <2>5, <2>6, <2>7, <2>8 DEF Quiet
  <2> HIDE DEF l
  <2> QED
    BY <1>1, <2>1, <2>2, <2>3, <2>4, <2>8, <2>9, QuietStep
<1> QED
  BY <1>1, <1>2, <1>3, <1>4 DEF NotifyAll_dequeue, this

\* NotifyAll links a waiter to be woken by exit.
LEMMA NotifyAll_linkKeeps ==
  ASSUME Inv, NEW t \in Threads, NotifyAll_link(t), UNCHANGED objectVars
  PROVE  Inv'
<1>1. pc[t] = "notifyAll_link" /\ pc[t] \notin Outside
  BY DEF NotifyAll_link, Outside, this
<1>2. /\ mon[t] \in Monitors /\ om[mon[t]] \in MonitorRec /\ loc[t] \in LocRec
      /\ Control(t) /\ Depths(t) /\ Depth(t) \in Nat /\ (Has(t) <=> om[mon[t]].owner = t)
  BY <1>1, AtMonitor
<1> DEFINE l == "notifyAll_dequeue"
           q == [om[mon[t]] EXCEPT !.cxq = <<loc[t].w>> \o @]
           k == [loc[t] EXCEPT !.w = None]
<1>3. q \in MonitorRec /\ CoreSame(q, om[mon[t]])
  BY <1>1, <1>2, CxqField, ListFields, Lists, LocW DEF NT
<1>4. /\ k \in LocRec /\ k.inwait = loc[t].inwait /\ k.save = loc[t].save
        /\ k.spin = loc[t].spin /\ k.then = loc[t].then
  BY <1>1, <1>2, WLoc, ListFields, Lists DEF NT
<1>5. Moves(t, l, q, k)
  <2>2. node' = [node EXCEPT ![loc[t].w].TState = "CXQ"]
    BY <1>1, <1>2 DEF NotifyAll_link, this
  <2>1. node' \in [Threads -> NodeRec]
    BY <2>2, NodeState, NodeNotify
  <2> QED
    BY <1>1, <1>2, <2>1 DEF Moves, NotifyAll_link, Go, Set, this, Inv, Typing
<1> HIDE DEF q, k
<1>6. l \in Labels \ Inflation
  BY <1>1, <1>2, LabelSets DEF Control
<1>7. pc'[t] = l /\ loc'[t] = k /\ held' = held /\ boxes' = boxes
  BY <1>5, <1>1, <1>2 DEF Moves, objectVars, Inv, Typing
<1>8. Control(t)'
  BY <1>1, <1>2, <1>4, <1>7, ThreadsAssumption DEF Control
<1>9. Depths(t)'
  BY <1>1, <1>2, <1>4, <1>7, ThreadsAssumption, DepthAssumption DEF Control, Depths, Trying,
     Extra, Has, InEnterI, Where, Releasing, Unboxed, Top, Real, Depth
<1>10. /\ (Trying(t)' <=> Trying(t)) /\ (Extra(t)' <=> Extra(t))
        /\ (Has(t)' <=> Has(t)) /\ (InEnterI(t)' <=> InEnterI(t))
        /\ (Unboxed(t)' => Unboxed(t))
  BY <1>1, <1>2, <1>4, <1>7 DEF Control, Depths, Trying, Extra, Has, InEnterI, Where,
     Releasing, Unboxed, Top, Real, Depth
<1>11. Quiet(t)
  BY <1>4, <1>7, <1>8, <1>9, <1>10 DEF Quiet
<1> HIDE DEF l
<1> QED
  BY <1>1, <1>3, <1>4, <1>5, <1>6, <1>10, <1>11, QuietStep

HIDE DEF Spinning, Preparing, Inflation, Owned, Plain, Acquiring, Contending, Entering,
         Last_unlock, Unlocking, Last_exit, Exiting, Released, Unlocked, Waiting, Reentered

-----------------------------------------------------------------------------
(* Steps that change a count or the recursions *)

\* The threads that _count and _waiters count.
Enterers == {u \in Threads : InEnterI(u)}

Waiters == {u \in Threads : loc[u].inwait}

\* A step of t on its monitor that counts it in or out of its threads.
LEMMA MonitorMove ==
  ASSUME Inv, NEW t \in Threads, pc[t] \notin Outside, NEW l \in Labels \ Inflation,
         NEW q \in MonitorRec, NEW k \in LocRec, Moves(t, l, q, k),
         q.header = om[mon[t]].header, q.object = om[mon[t]].object,
         Control(t)', Depths(t)', Has(t)' <=> q.owner = t,
         \A u \in Threads \ {t} : q.owner = u <=> om[mon[t]].owner = u,
         om[mon[t]].owner \notin {t, None} =>
            q.recursions = om[mon[t]].recursions /\ q.box = om[mon[t]].box,
         q.owner = None => q.recursions = 0 /\ ~q.box,
         q.box => q.recursions = 0,
         q.count = Cardinality(Enterers'), q.waiters = Cardinality(Waiters'),
         Has(t)' \/ k.inwait => 1 \in Reals(t)',
         k.inwait => k.save \in Nat /\ Cardinality(Reals(t)') = k.save + 1,
         q.owner = t => IF k.inwait THEN q.recursions = 0 /\ ~q.box
                        ELSE /\ Cardinality(Reals(t)') = q.recursions + 1
                             /\ Unboxed(t)' => ~q.box
  PROVE  Inv'
<1>1. /\ Shape(t) /\ Typing' /\ pc'[t] = l /\ loc'[t] = k /\ om'[mon[t]] = q
      /\ \A m \in Monitors \ {mon[t]} : CoreSame(om'[m], om[m])
  BY MovesShape
<1>2. mark = Inflated(mon[t]) /\ mark.monitor = mon[t] /\ mark.kind = "inflated" /\ mark # INFLATING
  BY AtMonitor, MarkFacts
<1>3. pc[t] \notin Preparing /\ pc'[t] \notin Preparing \cup {"omAlloc"}
  BY <1>1 DEF Outside, Preparing, Inflation
<1>4. UNCHANGED <<mark, boxes, held, seen, free, gFreeList, blocks, hashes, mon>>
  BY DEF Moves, objectVars
<1>5. \A u \in Threads : ~Inflater(u)'
  <2>1. \A u \in Threads : ~Inflater(u)
    BY <1>2 DEF Inv, InflateInv
  <2> QED
    BY <2>1, <1>1, <1>3 DEF Inflater, Shape, Preparing
<1>6. ~StackOwner(t)' /\ (MonitorOwner(t)' <=> q.owner = t)
  BY <1>1, <1>2, <1>4, <1>5 DEF StackOwner, MonitorOwner
<1>7. Counted(t)'
  BY <1>1, <1>2, <1>4, <1>6 DEF Counted
<1>8. MonitorOK(mon[t])'
  <2>1. MonitorOK(mon[t]) /\ mon[t] \in Monitors
    BY AtMonitor DEF Inv, MonitorInv
  <2> QED
    BY <2>1, <1>1, <1>2, <1>4 DEF MonitorOK, Enterers, Waiters
<1>9. mon[t] \in Monitors
  BY AtMonitor
<1> QED
  BY <1>1, <1>2, <1>3, <1>4, <1>7, <1>8, <1>9, MonitorKeeps DEF Inv

\* What is known of the monitor when t works on it.
LEMMA Known ==
  ASSUME Inv, NEW t \in Threads, pc[t] \notin Outside
  PROVE  LET r == om[mon[t]] IN
         /\ r.owner = None => r.recursions = 0 /\ ~r.box
         /\ r.box => r.recursions = 0
         /\ r.count = Cardinality(Enterers) /\ r.waiters = Cardinality(Waiters)
         /\ r.recursions \in Int
         /\ Has(t) \/ loc[t].inwait => 1 \in Reals(t)
         /\ loc[t].inwait => loc[t].save \in Nat /\ Cardinality(Reals(t)) = loc[t].save + 1
         /\ r.owner = t => IF loc[t].inwait THEN r.recursions = 0 /\ ~r.box
                           ELSE /\ Cardinality(Reals(t)) = r.recursions + 1
                                /\ Unboxed(t) => ~r.box
<1>1. mark = Inflated(mon[t]) /\ mark.monitor = mon[t] /\ mark.kind = "inflated"
  BY AtMonitor, MarkFacts
<1>2. om[mon[t]].owner = t => MonitorOwner(t)
  BY <1>1 DEF MonitorOwner
<1>3. MonitorOK(mon[t]) /\ Counted(t) /\ om[mon[t]].recursions \in Int
  BY AtMonitor DEF Inv, MonitorInv, ThreadInv, MonitorRec
<1>4. /\ (Has(t) \/ loc[t].inwait => 1 \in Reals(t))
      /\ (loc[t].inwait => loc[t].save \in Nat /\ Cardinality(Reals(t)) = loc[t].save + 1)
      /\ (om[mon[t]].owner = t => IF loc[t].inwait THEN om[mon[t]].recursions = 0 /\ ~om[mon[t]].box
                           ELSE /\ Cardinality(Reals(t)) = om[mon[t]].recursions + 1
                                /\ Unboxed(t) => ~om[mon[t]].box)
  BY <1>1, <1>2, <1>3 DEF Counted
<1> QED
  BY <1>1, <1>3, <1>4 DEF MonitorOK, Enterers, Waiters

\* The threads that _count and _waiters count are finitely many.
LEMMA CountsFinite == IsFiniteSet(Enterers) /\ IsFiniteSet(Waiters)
BY ThreadsAssumption, FS_Subset DEF Enterers, Waiters

\* t is counted in or out; the others are where they were.
LEMMA EnterersUp ==
  ASSUME NEW t \in Threads, Shape(t), held' = held, boxes' = boxes, ~InEnterI(t), InEnterI(t)'
  PROVE  Cardinality(Enterers') = Cardinality(Enterers) + 1
<1>1. \A u \in Threads \ {t} : InEnterI(u)' <=> InEnterI(u)
  BY Unmoved DEF Shape
<1>2. Enterers' = Enterers \cup {t} /\ t \notin Enterers
  BY <1>1 DEF Enterers
<1> QED
  BY <1>2, CountsFinite, FS_AddElement

\* t leaves EnterI.
LEMMA EnterersDown ==
  ASSUME NEW t \in Threads, Shape(t), held' = held, boxes' = boxes, InEnterI(t), ~InEnterI(t)'
  PROVE  Cardinality(Enterers') = Cardinality(Enterers) - 1
<1>1. \A u \in Threads \ {t} : InEnterI(u)' <=> InEnterI(u)
  BY Unmoved DEF Shape
<1>2. Enterers' = Enterers \ {t} /\ t \in Enterers
  BY <1>1 DEF Enterers
<1> QED
  BY <1>2, CountsFinite, FS_RemoveElement

\* t stays in or out of EnterI.
LEMMA EnterersSame ==
  ASSUME NEW t \in Threads, Shape(t), held' = held, boxes' = boxes, InEnterI(t)' <=> InEnterI(t)
  PROVE  Cardinality(Enterers') = Cardinality(Enterers)
<1>1. \A u \in Threads : InEnterI(u)' <=> InEnterI(u)
  BY Unmoved DEF Shape
<1>2. Enterers' = Enterers
  BY <1>1 DEF Enterers
<1> QED
  BY <1>2

\* t begins a wait().
LEMMA WaitersUp ==
  ASSUME NEW t \in Threads, Shape(t), ~loc[t].inwait, loc'[t].inwait
  PROVE  Cardinality(Waiters') = Cardinality(Waiters) + 1
<1>1. \A u \in Threads \ {t} : loc'[u].inwait <=> loc[u].inwait
  BY DEF Shape
<1>2. Waiters' = Waiters \cup {t} /\ t \notin Waiters
  BY <1>1 DEF Waiters
<1> QED
  BY <1>2, CountsFinite, FS_AddElement

\* t ends a wait().
LEMMA WaitersDown ==
  ASSUME NEW t \in Threads, Shape(t), loc[t].inwait, ~loc'[t].inwait
  PROVE  Cardinality(Waiters') = Cardinality(Waiters) - 1
<1>1. \A u \in Threads \ {t} : loc'[u].inwait <=> loc[u].inwait
  BY DEF Shape
<1>2. Waiters' = Waiters \ {t} /\ t \in Waiters
  BY <1>1 DEF Waiters
<1> QED
  BY <1>2, CountsFinite, FS_RemoveElement

\* t stays in or out of wait().
LEMMA WaitersSame ==
  ASSUME NEW t \in Threads, Shape(t), loc'[t].inwait = loc[t].inwait
  PROVE  Cardinality(Waiters') = Cardinality(Waiters)
<1>1. \A u \in Threads : loc'[u].inwait = loc[u].inwait
  BY DEF Shape
<1>2. Waiters' = Waiters
  BY <1>1 DEF Waiters
<1> QED
  BY <1>2

\* A thread has finitely many levels.
LEMMA RealsFinite ==
  ASSUME NEW t, Depth(t) \in Nat
  PROVE  IsFiniteSet(Reals(t))
<1>1. Top(t) \in Int
  BY DEF Top
<1>2. IsFiniteSet(1..Top(t))
  BY <1>1, FS_Interval
<1>3. IsFiniteSet({j \in 1..Top(t) : Real(t, j)})
  BY <1>2, FS_Subset
<1>4. IsFiniteSet({j \in 1..Top(t) : Real(t, j)} \cup {Depth(t) + 1})
  BY <1>3, FS_AddElement
<1> QED
  BY <1>3, <1>4 DEF Reals

\* The innermost lock is acquired.
LEMMA RealsPush ==
  ASSUME NEW t, held' = held, boxes' = boxes, Depth(t) \in Nat, Depth(t) > 0, Real(t, Depth(t)),
         Trying(t), ~Extra(t), ~Trying(t)', ~Extra(t)'
  PROVE  /\ Reals(t) \subseteq Reals(t)' /\ Cardinality(Reals(t)') = Cardinality(Reals(t)) + 1
<1> DEFINE d == Depth(t)
<1>1. (Depth(t)' = d) /\ (\A j : Real(t, j)' <=> Real(t, j))
  BY DEF Depth, Real
<1>2. Reals(t) = {j \in 1..d - 1 : Real(t, j)}
  BY DEF Reals, Top
<1>3. Reals(t)' = {j \in 1..d : Real(t, j)}
  BY <1>1 DEF Reals, Top
<1>4. Reals(t)' = Reals(t) \cup {d} /\ d \notin Reals(t)
  BY <1>2, <1>3
<1>5. IsFiniteSet(Reals(t))
  BY RealsFinite
<1> HIDE DEF d
<1> QED
  BY <1>4, <1>5, FS_AddElement

\* The innermost lock is released.
LEMMA RealsPop ==
  ASSUME NEW t, held' = held, boxes' = boxes, Depth(t) \in Nat, Extra(t), ~Trying(t),
         ~Trying(t)', ~Extra(t)'
  PROVE  /\ Reals(t)' = Reals(t) \ {Depth(t) + 1}
         /\ Cardinality(Reals(t)') = Cardinality(Reals(t)) - 1
<1> DEFINE d == Depth(t)
<1>1. (Depth(t)' = d) /\ (\A j : Real(t, j)' <=> Real(t, j))
  BY DEF Depth, Real
<1>2. Reals(t) = {j \in 1..d : Real(t, j)} \cup {d + 1}
  BY DEF Reals, Top
<1>3. Reals(t)' = {j \in 1..d : Real(t, j)}
  BY <1>1 DEF Reals, Top
<1>4. Reals(t)' = Reals(t) \ {d + 1} /\ d + 1 \in Reals(t)
  BY <1>2, <1>3
<1>5. IsFiniteSet(Reals(t))
  BY RealsFinite
<1> HIDE DEF d
<1>6. Cardinality(Reals(t)') = Cardinality(Reals(t)) - 1
  BY <1>4, <1>5, FS_RemoveElement
<1> QED
  BY <1>4, <1>6 DEF d

\* A thread with one level releases its only lock, one with more an inner one.
LEMMA LastLevel ==
  ASSUME NEW t, Depth(t) \in Nat, Extra(t), ~Trying(t), 1 \in Reals(t)
  PROVE  /\ Cardinality(Reals(t)) = 1 => Depth(t) = 0
         /\ Cardinality(Reals(t)) # 1 => Depth(t) > 0
<1> DEFINE d == Depth(t)
<1>1. Reals(t) = {j \in 1..d : Real(t, j)} \cup {d + 1}
  BY DEF Reals, Top
<1>2. d = 0 => Reals(t) = {1}
  BY <1>1
<1>3. Cardinality({1}) = 1
  BY FS_Singleton
<1>4. ASSUME Cardinality(Reals(t)) = 1 PROVE d = 0
  <2>1. IsFiniteSet(Reals(t))
    BY RealsFinite
  <2>2. \E x : Reals(t) = {x}
    BY <2>1, <1>4, FS_Singleton
  <2>3. d + 1 \in Reals(t)
    BY <1>1
  <2> QED
    BY <2>2, <2>3
<1> QED
  BY <1>2, <1>3, <1>4

\* What the steps below do to the counters of a monitor.
LEMMA CountFields ==
  ASSUME NEW r \in MonitorRec, NEW n \in Int
  PROVE  LET q == [r EXCEPT !.count = n] IN
         /\ q \in MonitorRec /\ q.owner = r.owner /\ q.box = r.box /\ q.recursions = r.recursions
         /\ q.count = n /\ q.waiters = r.waiters /\ q.header = r.header /\ q.object = r.object
BY DEF MonitorRec

\* A store into _recursions.
LEMMA RecursionsFields ==
  ASSUME NEW r \in MonitorRec, NEW n \in Int
  PROVE  LET q == [r EXCEPT !.recursions = n] IN
         /\ q \in MonitorRec /\ q.owner = r.owner /\ q.box = r.box /\ q.recursions = n
         /\ q.count = r.count /\ q.waiters = r.waiters /\ q.header = r.header /\ q.object = r.object
BY DEF MonitorRec

\* The owner word becomes the thread.
LEMMA BoxFields ==
  ASSUME NEW r \in MonitorRec, NEW n \in Int
  PROVE  LET q == [r EXCEPT !.box = FALSE, !.recursions = n] IN
         /\ q \in MonitorRec /\ q.owner = r.owner /\ ~q.box /\ q.recursions = n
         /\ q.count = r.count /\ q.waiters = r.waiters /\ q.header = r.header /\ q.object = r.object
BY DEF MonitorRec

\* The stores of the prolog of exit().
LEMMA PrologFields ==
  ASSUME NEW r \in MonitorRec
  PROVE  LET q == [r EXCEPT !.box = FALSE, !.Responsible = None] IN
         /\ q \in MonitorRec /\ q.owner = r.owner /\ ~q.box /\ q.recursions = r.recursions
         /\ q.count = r.count /\ q.waiters = r.waiters /\ q.header = r.header /\ q.object = r.object
BY DEF MonitorRec, NT

\* wait() begins, with _recursions saved.
LEMMA InwaitLoc ==
  ASSUME NEW r \in LocRec, NEW n \in Int
  PROVE  LET k == [r EXCEPT !.save = n, !.inwait = TRUE] IN
         k \in LocRec /\ k.inwait /\ k.save = n /\ k.spin = r.spin /\ k.then = r.then
BY DEF LocRec

\* wait() ends.
LEMMA LeftLoc ==
  ASSUME NEW r \in LocRec, NEW n \in Int
  PROVE  LET k == [r EXCEPT !.inwait = FALSE, !.save = n, !.wasNotified = n, !.timed = FALSE] IN
         k \in LocRec /\ ~k.inwait /\ k.save = n /\ k.spin = r.spin /\ k.then = r.then
BY DEF LocRec

\* wait() ends, its locals cleared.
LEMMA EndLoc ==
  ASSUME NEW r \in LocRec
  PROVE  LET k == [r EXCEPT !.inwait = FALSE, !.save = 0, !.wasNotified = 0, !.timed = FALSE] IN
         k \in LocRec /\ ~k.inwait /\ k.save = 0 /\ k.spin = r.spin /\ k.then = r.then
<1>1. 0 \in Int
  OBVIOUS
<1> QED
  BY <1>1, LeftLoc, Zenon

\* The counters of a monitor are numbers.
LEMMA CountInts ==
  ASSUME NEW r \in MonitorRec
  PROVE  r.count \in Int /\ r.waiters \in Int /\ r.recursions \in Int
BY DEF MonitorRec

\* The one level of a thread, after a step.
LEMMA OneLevelNow ==
  ASSUME NEW t, (Depth(t) = 1)', Real(t, 1)', ~Trying(t)', ~Extra(t)'
  PROVE  Reals(t)' = {1} /\ Cardinality(Reals(t)') = 1
<1>1. Reals(t)' = {1}
  BY DEF Reals, Top
<1> QED
  BY <1>1, FS_Singleton

\* A thread that has the lock has a level.
LEMMA RealsPositive ==
  ASSUME NEW t, Depth(t) \in Nat, 1 \in Reals(t)
  PROVE  Cardinality(Reals(t)) \in Nat \ {0}
BY RealsFinite, FS_CardinalityType, FS_EmptySet

\* A list grows at its end.
LEMMA Appended ==
  ASSUME NEW s \in Seq(NT), NEW x \in NT PROVE Append(s, x) \in Seq(NT)
OBVIOUS

USE DEF Spinning, Preparing, Inflation, Owned, Plain, Acquiring, Contending, Entering,
        Last_unlock, Unlocking, Last_exit, Exiting, Released, Unlocked, Waiting, Reentered

\* Enter of the owner counts a recursion.
LEMMA Enter_recursiveKeeps ==
  ASSUME Inv, NEW t \in Threads, Enter_recursive(t), UNCHANGED objectVars
  PROVE  Inv'
<1>1. pc[t] = "enter" /\ pc[t] \notin Outside /\ om[mon[t]].owner = t
  BY DEF Enter_recursive, Outside, this
<1>2. /\ mon[t] \in Monitors /\ om[mon[t]] \in MonitorRec /\ loc[t] \in LocRec
      /\ Control(t) /\ Depths(t) /\ Depth(t) \in Nat /\ (Has(t) <=> om[mon[t]].owner = t)
  BY <1>1, AtMonitor
<1>3. /\ (om[mon[t]].owner = None => om[mon[t]].recursions = 0 /\ ~om[mon[t]].box)
      /\ (om[mon[t]].box => om[mon[t]].recursions = 0)
      /\ om[mon[t]].count = Cardinality(Enterers) /\ om[mon[t]].waiters = Cardinality(Waiters)
      /\ om[mon[t]].recursions \in Int /\ om[mon[t]].count \in Int /\ om[mon[t]].waiters \in Int
      /\ (Has(t) \/ loc[t].inwait => 1 \in Reals(t))
      /\ (loc[t].inwait => loc[t].save \in Nat /\ Cardinality(Reals(t)) = loc[t].save + 1)
      /\ (om[mon[t]].owner = t => IF loc[t].inwait THEN om[mon[t]].recursions = 0 /\ ~om[mon[t]].box
                                  ELSE /\ Cardinality(Reals(t)) = om[mon[t]].recursions + 1
                                       /\ Unboxed(t) => ~om[mon[t]].box)
  BY <1>1, <1>2, Known, CountInts
<1>4. ~loc[t].inwait /\ Depth(t) > 0 /\ Real(t, Depth(t)) /\ Trying(t) /\ ~Extra(t)
  BY <1>1, <1>2, <1>3, ThreadsAssumption DEF Control, Depths, Trying, Extra, Has, InEnterI,
     Where, Releasing, Unboxed, Top, Real, Depth
<1> DEFINE l == EnterReturn(t)
           a == IF om[mon[t]].box THEN 1 ELSE om[mon[t]].recursions + 1
           q == [om[mon[t]] EXCEPT !.box = FALSE, !.recursions = a]
           k == loc[t]
<1>5. /\ q \in MonitorRec /\ q.owner = om[mon[t]].owner /\ ~q.box /\ q.recursions = om[mon[t]].recursions + 1
      /\ q.count = om[mon[t]].count /\ q.waiters = om[mon[t]].waiters /\ q.header = om[mon[t]].header /\ q.object = om[mon[t]].object
  <2>1. a \in Int /\ a = om[mon[t]].recursions + 1
    BY <1>1, <1>2, <1>3, <1>4 DEF NT
  <2> HIDE DEF a
  <2>2. /\ q \in MonitorRec /\ q.owner = om[mon[t]].owner /\ ~q.box /\ q.recursions = a
        /\ q.count = om[mon[t]].count /\ q.waiters = om[mon[t]].waiters /\ q.header = om[mon[t]].header /\ q.object = om[mon[t]].object
    BY <1>2, <2>1, BoxFields
  <2> HIDE DEF q
  <2> QED
    BY <1>1, <1>2, <1>3, <1>4, <2>1, <2>2
<1>6. /\ k \in LocRec /\ k.inwait = loc[t].inwait /\ k.save = loc[t].save
        /\ k.spin = loc[t].spin /\ k.then = loc[t].then
  BY <1>1, <1>2, <1>3, <1>4 DEF NT
<1>7. Moves(t, l, q, k)
  BY <1>1, <1>2, <1>3, <1>4 DEF Moves, Enter_recursive, Go, Set, this, EnterReturn, Inv, Typing
<1> HIDE DEF q, k
<1>8. l \in Labels \ Inflation
  BY <1>1, <1>2, <1>3, <1>4, LabelSets DEF Control, EnterReturn
<1>9. pc'[t] = l /\ loc'[t] = k /\ held' = held /\ boxes' = boxes
  BY <1>7, <1>1, <1>2, <1>3, <1>4 DEF Moves, objectVars, Inv, Typing
<1>10. Control(t)'
  BY <1>1, <1>2, <1>3, <1>4, <1>6, <1>9, ThreadsAssumption DEF Control, EnterReturn
<1>11. Depths(t)'
  BY <1>1, <1>2, <1>3, <1>4, <1>6, <1>9, ThreadsAssumption, DepthAssumption DEF Control,
     Depths, Trying, Extra, Has, InEnterI, Where, Releasing, Unboxed, Top, Real, Depth,
     EnterReturn
<1>12. Has(t)' /\ ~Trying(t)' /\ ~Extra(t)' /\ (InEnterI(t)' <=> InEnterI(t)) /\ ~Unboxed(t)'
  BY <1>1, <1>2, <1>3, <1>4, <1>6, <1>9, ThreadsAssumption, DepthAssumption DEF Control,
     Depths, Trying, Extra, Has, InEnterI, Where, Releasing, Unboxed, Top, Real, Depth,
     EnterReturn
<1>13. Reals(t) \subseteq Reals(t)' /\ Cardinality(Reals(t)') = Cardinality(Reals(t)) + 1
  BY <1>1, <1>2, <1>3, <1>4, <1>6, <1>9, <1>12, RealsPush
<1> HIDE DEF l
<1>14. Shape(t)
  BY <1>1, <1>2, <1>3, <1>4, <1>5, <1>6, <1>7, <1>8, MovesShape
<1>15. /\ Cardinality(Enterers') = Cardinality(Enterers)
       /\ Cardinality(Waiters') = Cardinality(Waiters)
  BY <1>1, <1>2, <1>3, <1>4, <1>6, <1>9, <1>12, <1>14, EnterersSame, WaitersSame
<1>16. /\ (Has(t)' <=> q.owner = t) /\ (\A u \in Threads \ {t} : q.owner = u <=> om[mon[t]].owner = u)
       /\ (om[mon[t]].owner \notin {t, None} => q.recursions = om[mon[t]].recursions /\ q.box = om[mon[t]].box)
       /\ (q.owner = None => q.recursions = 0 /\ ~q.box) /\ (q.box => q.recursions = 0)
       /\ q.count = Cardinality(Enterers') /\ q.waiters = Cardinality(Waiters')
  BY <1>1, <1>2, <1>3, <1>4, <1>5, <1>12, <1>15, ThreadsAssumption
<1>17. /\ (Has(t)' \/ k.inwait => 1 \in Reals(t)')
       /\ (k.inwait => k.save \in Nat /\ Cardinality(Reals(t)') = k.save + 1)
       /\ (q.owner = t => IF k.inwait THEN q.recursions = 0 /\ ~q.box
                          ELSE /\ Cardinality(Reals(t)') = q.recursions + 1
                               /\ Unboxed(t)' => ~q.box)
  BY <1>1, <1>2, <1>3, <1>4, <1>5, <1>6, <1>12, <1>13, ThreadsAssumption
<1> QED
  BY <1>1, <1>5, <1>6, <1>7, <1>8, <1>10, <1>11, <1>16, <1>17, MonitorMove

\* Enter counts itself in and tries the lock.
LEMMA EnterIKeeps ==
  ASSUME Inv, NEW t \in Threads, EnterI(t), UNCHANGED objectVars
  PROVE  Inv'
<1>1. pc[t] = "EnterI" /\ pc[t] \notin Outside
  BY DEF EnterI, Outside, this
<1>2. /\ mon[t] \in Monitors /\ om[mon[t]] \in MonitorRec /\ loc[t] \in LocRec
      /\ Control(t) /\ Depths(t) /\ Depth(t) \in Nat /\ (Has(t) <=> om[mon[t]].owner = t)
  BY <1>1, AtMonitor
<1>3. /\ (om[mon[t]].owner = None => om[mon[t]].recursions = 0 /\ ~om[mon[t]].box)
      /\ (om[mon[t]].box => om[mon[t]].recursions = 0)
      /\ om[mon[t]].count = Cardinality(Enterers) /\ om[mon[t]].waiters = Cardinality(Waiters)
      /\ om[mon[t]].recursions \in Int /\ om[mon[t]].count \in Int /\ om[mon[t]].waiters \in Int
      /\ (Has(t) \/ loc[t].inwait => 1 \in Reals(t))
      /\ (loc[t].inwait => loc[t].save \in Nat /\ Cardinality(Reals(t)) = loc[t].save + 1)
      /\ (om[mon[t]].owner = t => IF loc[t].inwait THEN om[mon[t]].recursions = 0 /\ ~om[mon[t]].box
                                  ELSE /\ Cardinality(Reals(t)) = om[mon[t]].recursions + 1
                                       /\ Unboxed(t) => ~om[mon[t]].box)
  BY <1>1, <1>2, Known, CountInts
<1>4. CASE om[mon[t]].owner = None
  <2> DEFINE l == "entered"
             a == om[mon[t]].count + 1
             q == [om[mon[t]] EXCEPT !.count = a, !.owner = t]
             k == loc[t]
  <2>1. /\ q \in MonitorRec /\ q.owner = t /\ q.box = om[mon[t]].box /\ q.recursions = om[mon[t]].recursions
        /\ q.count = om[mon[t]].count + 1 /\ q.waiters = om[mon[t]].waiters /\ q.header = om[mon[t]].header /\ q.object = om[mon[t]].object
    <3>1. a \in Int /\ a = om[mon[t]].count + 1 /\ t \in NT
      BY <1>1, <1>2, <1>3, <1>4 DEF NT
    <3> HIDE DEF a
    <3>2. /\ q \in MonitorRec /\ q.owner = t /\ q.box = om[mon[t]].box /\ q.recursions = om[mon[t]].recursions
          /\ q.count = a /\ q.waiters = om[mon[t]].waiters /\ q.header = om[mon[t]].header /\ q.object = om[mon[t]].object
      BY <1>2, <3>1 DEF MonitorRec, NT
    <3> HIDE DEF q
    <3> QED
      BY <1>1, <1>2, <1>3, <1>4, <3>1, <3>2
  <2>2. /\ k \in LocRec /\ k.inwait = loc[t].inwait /\ k.save = loc[t].save
          /\ k.spin = loc[t].spin /\ k.then = loc[t].then
    BY <1>1, <1>2, <1>3, <1>4 DEF NT
  <2>3. Moves(t, l, q, k)
    BY <1>1, <1>2, <1>3, <1>4 DEF Moves, EnterI, Go, Set, this, Inv, Typing
  <2> HIDE DEF q, k
  <2>4. l \in Labels \ Inflation
    BY <1>1, <1>2, <1>3, <1>4, LabelSets DEF Control
  <2>5. pc'[t] = l /\ loc'[t] = k /\ held' = held /\ boxes' = boxes
    BY <2>3, <1>1, <1>2, <1>3, <1>4 DEF Moves, objectVars, Inv, Typing
  <2>6. Control(t)'
    BY <1>1, <1>2, <1>3, <1>4, <2>2, <2>5, ThreadsAssumption DEF Control
  <2>7. Depths(t)'
    BY <1>1, <1>2, <1>3, <1>4, <2>2, <2>5, ThreadsAssumption, DepthAssumption DEF Control,
       Depths, Trying, Extra, Has, InEnterI, Where, Releasing, Unboxed, Top, Real, Depth
  <2>8. Has(t)' /\ ~Trying(t)' /\ ~Extra(t)' /\ ~InEnterI(t) /\ InEnterI(t)' /\ ~Unboxed(t)'
          /\ (~loc[t].inwait => Depth(t)' = 1 /\ Real(t, 1)')
    BY <1>1, <1>2, <1>3, <1>4, <2>2, <2>5, ThreadsAssumption, DepthAssumption DEF Control,
       Depths, Trying, Extra, Has, InEnterI, Where, Releasing, Unboxed, Top, Real, Depth
  <2>9. /\ (loc[t].inwait => Reals(t)' = Reals(t))
          /\ (~loc[t].inwait => Reals(t)' = {1} /\ Cardinality(Reals(t)') = 1)
    BY <1>1, <1>2, <1>3, <1>4, <2>2, <2>5, <2>8, WaitReals, OneLevelNow
  <2> HIDE DEF l
  <2>10. Shape(t)
    BY <1>1, <1>2, <1>3, <1>4, <2>1, <2>2, <2>3, <2>4, MovesShape
  <2>11. /\ Cardinality(Enterers') = Cardinality(Enterers) + 1
         /\ Cardinality(Waiters') = Cardinality(Waiters)
    BY <1>1, <1>2, <1>3, <1>4, <2>2, <2>5, <2>8, <2>10, EnterersUp, WaitersSame
  <2>12. /\ (Has(t)' <=> q.owner = t) /\ (\A u \in Threads \ {t} : q.owner = u <=> om[mon[t]].owner = u)
         /\ (om[mon[t]].owner \notin {t, None} => q.recursions = om[mon[t]].recursions /\ q.box = om[mon[t]].box)
         /\ (q.owner = None => q.recursions = 0 /\ ~q.box) /\ (q.box => q.recursions = 0)
         /\ q.count = Cardinality(Enterers') /\ q.waiters = Cardinality(Waiters')
    BY <1>1, <1>2, <1>3, <1>4, <2>1, <2>8, <2>11, ThreadsAssumption
  <2>13. /\ (Has(t)' \/ k.inwait => 1 \in Reals(t)')
         /\ (k.inwait => k.save \in Nat /\ Cardinality(Reals(t)') = k.save + 1)
         /\ (q.owner = t => IF k.inwait THEN q.recursions = 0 /\ ~q.box
                            ELSE /\ Cardinality(Reals(t)') = q.recursions + 1
                                 /\ Unboxed(t)' => ~q.box)
    BY <1>1, <1>2, <1>3, <1>4, <2>1, <2>2, <2>8, <2>9, ThreadsAssumption
  <2> QED
    BY <1>1, <2>1, <2>2, <2>3, <2>4, <2>6, <2>7, <2>12, <2>13, MonitorMove
<1>5. CASE om[mon[t]].owner # None
  <2> DEFINE l == "spin"
             a == om[mon[t]].count + 1
             q == [om[mon[t]] EXCEPT !.count = a]
             k == [loc[t] EXCEPT !.spin = "EnterI"]
  <2>1. /\ q \in MonitorRec /\ q.owner = om[mon[t]].owner /\ q.box = om[mon[t]].box /\ q.recursions = om[mon[t]].recursions
        /\ q.count = om[mon[t]].count + 1 /\ q.waiters = om[mon[t]].waiters /\ q.header = om[mon[t]].header /\ q.object = om[mon[t]].object
    <3>1. a \in Int /\ a = om[mon[t]].count + 1
      BY <1>1, <1>2, <1>3, <1>5 DEF NT
    <3> HIDE DEF a
    <3>2. /\ q \in MonitorRec /\ q.owner = om[mon[t]].owner /\ q.box = om[mon[t]].box /\ q.recursions = om[mon[t]].recursions
          /\ q.count = a /\ q.waiters = om[mon[t]].waiters /\ q.header = om[mon[t]].header /\ q.object = om[mon[t]].object
      BY <1>2, <3>1, CountFields
    <3> HIDE DEF q
    <3> QED
      BY <1>1, <1>2, <1>3, <1>5, <3>1, <3>2
  <2>2. /\ k \in LocRec /\ k.inwait = loc[t].inwait /\ k.save = loc[t].save
          /\ k.spin = "EnterI" /\ k.then = loc[t].then
    BY <1>1, <1>2, <1>3, <1>5, SpinLoc DEF NT
  <2>3. Moves(t, l, q, k)
    BY <1>1, <1>2, <1>3, <1>5 DEF Moves, EnterI, Go, Set, this, Spin, Inv, Typing
  <2> HIDE DEF q, k
  <2>4. l \in Labels \ Inflation
    BY <1>1, <1>2, <1>3, <1>5, LabelSets DEF Control, Spin
  <2>5. pc'[t] = l /\ loc'[t] = k /\ held' = held /\ boxes' = boxes
    BY <2>3, <1>1, <1>2, <1>3, <1>5 DEF Moves, objectVars, Inv, Typing
  <2>6. Control(t)'
    BY <1>1, <1>2, <1>3, <1>5, <2>2, <2>5, ThreadsAssumption DEF Control, Spin
  <2>7. Depths(t)'
    BY <1>1, <1>2, <1>3, <1>5, <2>2, <2>5, ThreadsAssumption, DepthAssumption DEF Control,
       Depths, Trying, Extra, Has, InEnterI, Where, Releasing, Unboxed, Top, Real, Depth, Spin
  <2>8. /\ (Trying(t)' <=> Trying(t)) /\ (Extra(t)' <=> Extra(t)) /\ ~InEnterI(t) /\ InEnterI(t)'
          /\ (Has(t)' <=> Has(t)) /\ (Unboxed(t)' <=> Unboxed(t))
    BY <1>1, <1>2, <1>3, <1>5, <2>2, <2>5, ThreadsAssumption, DepthAssumption DEF Control,
       Depths, Trying, Extra, Has, InEnterI, Where, Releasing, Unboxed, Top, Real, Depth, Spin
  <2>9. Reals(t)' = Reals(t)
    BY <1>1, <1>2, <1>3, <1>5, <2>2, <2>5, <2>8, RealsSame
  <2> HIDE DEF l
  <2>10. Shape(t)
    BY <1>1, <1>2, <1>3, <1>5, <2>1, <2>2, <2>3, <2>4, MovesShape
  <2>11. /\ Cardinality(Enterers') = Cardinality(Enterers) + 1
         /\ Cardinality(Waiters') = Cardinality(Waiters)
    BY <1>1, <1>2, <1>3, <1>5, <2>2, <2>5, <2>8, <2>10, EnterersUp, WaitersSame
  <2>12. /\ (Has(t)' <=> q.owner = t) /\ (\A u \in Threads \ {t} : q.owner = u <=> om[mon[t]].owner = u)
         /\ (om[mon[t]].owner \notin {t, None} => q.recursions = om[mon[t]].recursions /\ q.box = om[mon[t]].box)
         /\ (q.owner = None => q.recursions = 0 /\ ~q.box) /\ (q.box => q.recursions = 0)
         /\ q.count = Cardinality(Enterers') /\ q.waiters = Cardinality(Waiters')
    BY <1>1, <1>2, <1>3, <1>5, <2>1, <2>8, <2>11, ThreadsAssumption
  <2>13. /\ (Has(t)' \/ k.inwait => 1 \in Reals(t)')
         /\ (k.inwait => k.save \in Nat /\ Cardinality(Reals(t)') = k.save + 1)
         /\ (q.owner = t => IF k.inwait THEN q.recursions = 0 /\ ~q.box
                            ELSE /\ Cardinality(Reals(t)') = q.recursions + 1
                                 /\ Unboxed(t)' => ~q.box)
    BY <1>1, <1>2, <1>3, <1>5, <2>1, <2>2, <2>8, <2>9, ThreadsAssumption
  <2> QED
    BY <1>1, <2>1, <2>2, <2>3, <2>4, <2>6, <2>7, <2>12, <2>13, MonitorMove
<1> QED
  BY <1>1, <1>2, <1>4, <1>5 DEF EnterI, this

\* Enter ends, no longer counted.
LEMMA EnteredKeeps ==
  ASSUME Inv, NEW t \in Threads, Entered(t), UNCHANGED objectVars
  PROVE  Inv'
<1>1. pc[t] = "entered" /\ pc[t] \notin Outside
  BY DEF Entered, Outside, this
<1>2. /\ mon[t] \in Monitors /\ om[mon[t]] \in MonitorRec /\ loc[t] \in LocRec
      /\ Control(t) /\ Depths(t) /\ Depth(t) \in Nat /\ (Has(t) <=> om[mon[t]].owner = t)
  BY <1>1, AtMonitor
<1>3. /\ (om[mon[t]].owner = None => om[mon[t]].recursions = 0 /\ ~om[mon[t]].box)
      /\ (om[mon[t]].box => om[mon[t]].recursions = 0)
      /\ om[mon[t]].count = Cardinality(Enterers) /\ om[mon[t]].waiters = Cardinality(Waiters)
      /\ om[mon[t]].recursions \in Int /\ om[mon[t]].count \in Int /\ om[mon[t]].waiters \in Int
      /\ (Has(t) \/ loc[t].inwait => 1 \in Reals(t))
      /\ (loc[t].inwait => loc[t].save \in Nat /\ Cardinality(Reals(t)) = loc[t].save + 1)
      /\ (om[mon[t]].owner = t => IF loc[t].inwait THEN om[mon[t]].recursions = 0 /\ ~om[mon[t]].box
                                  ELSE /\ Cardinality(Reals(t)) = om[mon[t]].recursions + 1
                                       /\ Unboxed(t) => ~om[mon[t]].box)
  BY <1>1, <1>2, Known, CountInts
<1>4. ~loc[t].inwait => Depth(t) = 1
  BY <1>1, <1>2, <1>3, ThreadsAssumption DEF Control, Depths, Trying, Extra, Has, InEnterI,
     Where, Releasing, Unboxed, Top, Real, Depth
<1> DEFINE l == EnterReturn(t)
           a == om[mon[t]].count - 1
           b == IF om[mon[t]].Responsible = t THEN None ELSE om[mon[t]].Responsible
           q == [om[mon[t]] EXCEPT !.Responsible = b, !.count = a]
           k == [loc[t] EXCEPT !.nxt = None]
<1>5. /\ q \in MonitorRec /\ q.owner = om[mon[t]].owner /\ q.box = om[mon[t]].box /\ q.recursions = om[mon[t]].recursions
      /\ q.count = om[mon[t]].count - 1 /\ q.waiters = om[mon[t]].waiters /\ q.header = om[mon[t]].header /\ q.object = om[mon[t]].object
  <2>1. a \in Int /\ a = om[mon[t]].count - 1 /\ b \in NT
    BY <1>1, <1>2, <1>3, <1>4, ListFields DEF NT
  <2> HIDE DEF a, b
  <2>2. /\ q \in MonitorRec /\ q.owner = om[mon[t]].owner /\ q.box = om[mon[t]].box /\ q.recursions = om[mon[t]].recursions
        /\ q.count = a /\ q.waiters = om[mon[t]].waiters /\ q.header = om[mon[t]].header /\ q.object = om[mon[t]].object
    BY <1>2, <2>1 DEF MonitorRec, NT
  <2> HIDE DEF q
  <2> QED
    BY <1>1, <1>2, <1>3, <1>4, <2>1, <2>2 DEF b
<1>6. /\ k \in LocRec /\ k.inwait = loc[t].inwait /\ k.save = loc[t].save
        /\ k.spin = loc[t].spin /\ k.then = loc[t].then
  BY <1>1, <1>2, <1>3, <1>4, NxtLoc DEF NT
<1>7. Moves(t, l, q, k)
  <2>2. node' = [node EXCEPT ![t].TState = "RUN"]
    BY <1>1, <1>2, <1>3, <1>4 DEF Entered, this
  <2>1. node' \in [Threads -> NodeRec]
    BY <2>2, NodeState
  <2> QED
    BY <1>1, <1>2, <1>3, <1>4, <2>1 DEF Moves, Entered, Go, Set, this, EnterReturn, Inv, Typing
<1> HIDE DEF q, k
<1>8. l \in Labels \ Inflation
  BY <1>1, <1>2, <1>3, <1>4, LabelSets DEF Control, EnterReturn
<1>9. pc'[t] = l /\ loc'[t] = k /\ held' = held /\ boxes' = boxes
  BY <1>7, <1>1, <1>2, <1>3, <1>4 DEF Moves, objectVars, Inv, Typing
<1>10. Control(t)'
  BY <1>1, <1>2, <1>3, <1>4, <1>6, <1>9, ThreadsAssumption DEF Control, EnterReturn
<1>11. Depths(t)'
  BY <1>1, <1>2, <1>3, <1>4, <1>6, <1>9, ThreadsAssumption, DepthAssumption DEF Control,
     Depths, Trying, Extra, Has, InEnterI, Where, Releasing, Unboxed, Top, Real, Depth,
     EnterReturn
<1>12. /\ ~Trying(t) /\ ~Extra(t) /\ InEnterI(t) /\ Has(t)
       /\ ~Trying(t)' /\ ~Extra(t)' /\ ~InEnterI(t)' /\ Has(t)' /\ ~Unboxed(t)'
  <2>1. ~Trying(t) /\ ~Extra(t) /\ InEnterI(t) /\ Has(t)
    BY <1>1, <1>2, <1>3, <1>4, <1>6, <1>9, ThreadsAssumption, DepthAssumption DEF Control,
       Depths, Trying, Extra, Has, InEnterI, Where, Releasing, Unboxed, Top, Real, Depth,
       EnterReturn
  <2>2. ~Trying(t)' /\ ~Extra(t)' /\ ~InEnterI(t)' /\ ~Unboxed(t)'
    BY <1>1, <1>2, <1>3, <1>4, <1>6, <1>9, ThreadsAssumption, DepthAssumption DEF Control,
       Depths, Trying, Extra, Has, InEnterI, Where, Releasing, Unboxed, Top, Real, Depth,
       EnterReturn
  <2>3. ~loc[t].inwait => Top(t)' = 1
    BY <1>1, <1>2, <1>3, <1>4, <1>6, <1>9, <2>2 DEF Top, Depth
  <2>4. Has(t)'
    BY <1>1, <1>2, <1>3, <1>4, <1>6, <1>9, <2>3 DEF Has, Where, EnterReturn
  <2> QED
    BY <2>1, <2>2, <2>3, <2>4
<1>13. Reals(t)' = Reals(t)
  BY <1>1, <1>2, <1>3, <1>4, <1>6, <1>9, <1>12, RealsSame
<1> HIDE DEF l
<1>14. Shape(t)
  BY <1>1, <1>2, <1>3, <1>4, <1>5, <1>6, <1>7, <1>8, MovesShape
<1>15. /\ Cardinality(Enterers') = Cardinality(Enterers) - 1
       /\ Cardinality(Waiters') = Cardinality(Waiters)
  BY <1>1, <1>2, <1>3, <1>4, <1>6, <1>9, <1>12, <1>14, EnterersDown, WaitersSame
<1>16. /\ (Has(t)' <=> q.owner = t) /\ (\A u \in Threads \ {t} : q.owner = u <=> om[mon[t]].owner = u)
       /\ (om[mon[t]].owner \notin {t, None} => q.recursions = om[mon[t]].recursions /\ q.box = om[mon[t]].box)
       /\ (q.owner = None => q.recursions = 0 /\ ~q.box) /\ (q.box => q.recursions = 0)
       /\ q.count = Cardinality(Enterers') /\ q.waiters = Cardinality(Waiters')
  BY <1>1, <1>2, <1>3, <1>4, <1>5, <1>12, <1>15, ThreadsAssumption
<1>17. /\ (Has(t)' \/ k.inwait => 1 \in Reals(t)')
       /\ (k.inwait => k.save \in Nat /\ Cardinality(Reals(t)') = k.save + 1)
       /\ (q.owner = t => IF k.inwait THEN q.recursions = 0 /\ ~q.box
                          ELSE /\ Cardinality(Reals(t)') = q.recursions + 1
                               /\ Unboxed(t)' => ~q.box)
  BY <1>1, <1>2, <1>3, <1>4, <1>5, <1>6, <1>12, <1>13, ThreadsAssumption
<1> QED
  BY <1>1, <1>5, <1>6, <1>7, <1>8, <1>10, <1>11, <1>16, <1>17, MonitorMove

\* Exit of a recursion counts it down, the last goes on.
LEMMA Exit_prologKeeps ==
  ASSUME Inv, NEW t \in Threads, Exit_prolog(t), UNCHANGED objectVars
  PROVE  Inv'
<1>1. pc[t] = "exit" /\ pc[t] \notin Outside /\ om[mon[t]].owner = t
  BY DEF Exit_prolog, Outside, this
<1>2. /\ mon[t] \in Monitors /\ om[mon[t]] \in MonitorRec /\ loc[t] \in LocRec
      /\ Control(t) /\ Depths(t) /\ Depth(t) \in Nat /\ (Has(t) <=> om[mon[t]].owner = t)
  BY <1>1, AtMonitor
<1>3. /\ (om[mon[t]].owner = None => om[mon[t]].recursions = 0 /\ ~om[mon[t]].box)
      /\ (om[mon[t]].box => om[mon[t]].recursions = 0)
      /\ om[mon[t]].count = Cardinality(Enterers) /\ om[mon[t]].waiters = Cardinality(Waiters)
      /\ om[mon[t]].recursions \in Int /\ om[mon[t]].count \in Int /\ om[mon[t]].waiters \in Int
      /\ (Has(t) \/ loc[t].inwait => 1 \in Reals(t))
      /\ (loc[t].inwait => loc[t].save \in Nat /\ Cardinality(Reals(t)) = loc[t].save + 1)
      /\ (om[mon[t]].owner = t => IF loc[t].inwait THEN om[mon[t]].recursions = 0 /\ ~om[mon[t]].box
                                  ELSE /\ Cardinality(Reals(t)) = om[mon[t]].recursions + 1
                                       /\ Unboxed(t) => ~om[mon[t]].box)
  BY <1>1, <1>2, Known, CountInts
<1>4. /\ (~loc[t].inwait => Extra(t) /\ ~Trying(t))
      /\ (~loc[t].inwait /\ om[mon[t]].recursions # 0 => Depth(t) > 0)
      /\ (~loc[t].inwait /\ om[mon[t]].recursions = 0 => Depth(t) = 0)
  BY <1>1, <1>2, <1>3, ThreadsAssumption, LastLevel DEF Control, Depths, Trying, Extra, Has,
     InEnterI, Where, Releasing, Unboxed, Top, Real, Depth
<1>5. CASE om[mon[t]].recursions # 0
  <2> DEFINE l == ExitReturn(t)
             a == om[mon[t]].recursions - 1
             q == [om[mon[t]] EXCEPT !.recursions = a]
             k == loc[t]
  <2>1. /\ q \in MonitorRec /\ q.owner = om[mon[t]].owner /\ ~q.box /\ q.recursions = om[mon[t]].recursions - 1
        /\ q.count = om[mon[t]].count /\ q.waiters = om[mon[t]].waiters /\ q.header = om[mon[t]].header /\ q.object = om[mon[t]].object
    <3>1. a \in Int /\ a = om[mon[t]].recursions - 1
      BY <1>1, <1>2, <1>3, <1>4, <1>5 DEF NT
    <3> HIDE DEF a
    <3>2. /\ q \in MonitorRec /\ q.owner = om[mon[t]].owner /\ q.box = om[mon[t]].box /\ q.recursions = a
          /\ q.count = om[mon[t]].count /\ q.waiters = om[mon[t]].waiters /\ q.header = om[mon[t]].header /\ q.object = om[mon[t]].object
      BY <1>2, <3>1, RecursionsFields
    <3> HIDE DEF q
    <3> QED
      BY <1>1, <1>2, <1>3, <1>4, <1>5, <3>1, <3>2
  <2>2. /\ k \in LocRec /\ k.inwait = loc[t].inwait /\ k.save = loc[t].save
          /\ k.spin = loc[t].spin /\ k.then = loc[t].then
    BY <1>1, <1>2, <1>3, <1>4, <1>5 DEF NT
  <2>3. Moves(t, l, q, k)
    BY <1>1, <1>2, <1>3, <1>4, <1>5 DEF Moves, Exit_prolog, Go, Set, this, ExitReturn, Inv,
       Typing
  <2> HIDE DEF q, k
  <2>4. l \in Labels \ Inflation
    BY <1>1, <1>2, <1>3, <1>4, <1>5, LabelSets DEF Control, ExitReturn
  <2>5. pc'[t] = l /\ loc'[t] = k /\ held' = held /\ boxes' = boxes
    BY <2>3, <1>1, <1>2, <1>3, <1>4, <1>5 DEF Moves, objectVars, Inv, Typing
  <2>6. Control(t)'
    BY <1>1, <1>2, <1>3, <1>4, <1>5, <2>2, <2>5, ThreadsAssumption DEF Control, ExitReturn
  <2>7. Depths(t)'
    BY <1>1, <1>2, <1>3, <1>4, <1>5, <2>2, <2>5, ThreadsAssumption, DepthAssumption
       DEF Control, Depths, Trying, Extra, Has, InEnterI, Where, Releasing, Unboxed, Top,
       Real, Depth, ExitReturn
  <2>8. Has(t)' /\ Extra(t) /\ ~Trying(t) /\ ~Trying(t)' /\ ~Extra(t)' /\ (InEnterI(t)' <=> InEnterI(t))
          /\ ~Unboxed(t)' /\ Depth(t) + 1 # 1 /\ ~loc[t].inwait
    BY <1>1, <1>2, <1>3, <1>4, <1>5, <2>2, <2>5, ThreadsAssumption, DepthAssumption
       DEF Control, Depths, Trying, Extra, Has, InEnterI, Where, Releasing, Unboxed, Top,
       Real, Depth, ExitReturn
  <2>9. Reals(t)' = Reals(t) \ {Depth(t) + 1} /\ Cardinality(Reals(t)') = Cardinality(Reals(t)) - 1
    BY <1>1, <1>2, <1>3, <1>4, <1>5, <2>2, <2>5, <2>8, RealsPop
  <2> HIDE DEF l
  <2>10. Shape(t)
    BY <1>1, <1>2, <1>3, <1>4, <1>5, <2>1, <2>2, <2>3, <2>4, MovesShape
  <2>11. /\ Cardinality(Enterers') = Cardinality(Enterers)
         /\ Cardinality(Waiters') = Cardinality(Waiters)
    BY <1>1, <1>2, <1>3, <1>4, <1>5, <2>2, <2>5, <2>8, <2>10, EnterersSame, WaitersSame
  <2>12. /\ (Has(t)' <=> q.owner = t) /\ (\A u \in Threads \ {t} : q.owner = u <=> om[mon[t]].owner = u)
         /\ (om[mon[t]].owner \notin {t, None} => q.recursions = om[mon[t]].recursions /\ q.box = om[mon[t]].box)
         /\ (q.owner = None => q.recursions = 0 /\ ~q.box) /\ (q.box => q.recursions = 0)
         /\ q.count = Cardinality(Enterers') /\ q.waiters = Cardinality(Waiters')
    BY <1>1, <1>2, <1>3, <1>4, <1>5, <2>1, <2>8, <2>11, ThreadsAssumption
  <2>13. /\ (Has(t)' \/ k.inwait => 1 \in Reals(t)')
         /\ (k.inwait => k.save \in Nat /\ Cardinality(Reals(t)') = k.save + 1)
         /\ (q.owner = t => IF k.inwait THEN q.recursions = 0 /\ ~q.box
                            ELSE /\ Cardinality(Reals(t)') = q.recursions + 1
                                 /\ Unboxed(t)' => ~q.box)
    BY <1>1, <1>2, <1>3, <1>4, <1>5, <2>1, <2>2, <2>8, <2>9, ThreadsAssumption
  <2> QED
    BY <1>1, <2>1, <2>2, <2>3, <2>4, <2>6, <2>7, <2>12, <2>13, MonitorMove
<1>6. CASE om[mon[t]].recursions = 0
  <2> DEFINE l == "drop"
             q == [om[mon[t]] EXCEPT !.box = FALSE, !.Responsible = None]
             k == loc[t]
  <2>1. /\ q \in MonitorRec /\ q.owner = om[mon[t]].owner /\ ~q.box /\ q.recursions = om[mon[t]].recursions
        /\ q.count = om[mon[t]].count /\ q.waiters = om[mon[t]].waiters /\ q.header = om[mon[t]].header /\ q.object = om[mon[t]].object
    BY <1>1, <1>2, <1>3, <1>4, <1>6, PrologFields DEF NT
  <2>2. /\ k \in LocRec /\ k.inwait = loc[t].inwait /\ k.save = loc[t].save
          /\ k.spin = loc[t].spin /\ k.then = loc[t].then
    BY <1>1, <1>2, <1>3, <1>4, <1>6 DEF NT
  <2>3. Moves(t, l, q, k)
    BY <1>1, <1>2, <1>3, <1>4, <1>6 DEF Moves, Exit_prolog, Go, Set, this, Inv, Typing
  <2> HIDE DEF q, k
  <2>4. l \in Labels \ Inflation
    BY <1>1, <1>2, <1>3, <1>4, <1>6, LabelSets DEF Control
  <2>5. pc'[t] = l /\ loc'[t] = k /\ held' = held /\ boxes' = boxes
    BY <2>3, <1>1, <1>2, <1>3, <1>4, <1>6 DEF Moves, objectVars, Inv, Typing
  <2>6. Control(t)'
    BY <1>1, <1>2, <1>3, <1>4, <1>6, <2>2, <2>5, ThreadsAssumption DEF Control
  <2>7. Depths(t)'
    BY <1>1, <1>2, <1>3, <1>4, <1>6, <2>2, <2>5, ThreadsAssumption, DepthAssumption
       DEF Control, Depths, Trying, Extra, Has, InEnterI, Where, Releasing, Unboxed, Top,
       Real, Depth
  <2>8. (Trying(t)' <=> Trying(t)) /\ (Extra(t)' <=> Extra(t)) /\ (InEnterI(t)' <=> InEnterI(t)) /\ (Has(t)' <=> Has(t))
    BY <1>1, <1>2, <1>3, <1>4, <1>6, <2>2, <2>5, ThreadsAssumption, DepthAssumption
       DEF Control, Depths, Trying, Extra, Has, InEnterI, Where, Releasing, Unboxed, Top,
       Real, Depth
  <2>9. Reals(t)' = Reals(t)
    BY <1>1, <1>2, <1>3, <1>4, <1>6, <2>2, <2>5, <2>8, RealsSame
  <2> HIDE DEF l
  <2>10. Shape(t)
    BY <1>1, <1>2, <1>3, <1>4, <1>6, <2>1, <2>2, <2>3, <2>4, MovesShape
  <2>11. /\ Cardinality(Enterers') = Cardinality(Enterers)
         /\ Cardinality(Waiters') = Cardinality(Waiters)
    BY <1>1, <1>2, <1>3, <1>4, <1>6, <2>2, <2>5, <2>8, <2>10, EnterersSame, WaitersSame
  <2>12. /\ (Has(t)' <=> q.owner = t) /\ (\A u \in Threads \ {t} : q.owner = u <=> om[mon[t]].owner = u)
         /\ (om[mon[t]].owner \notin {t, None} => q.recursions = om[mon[t]].recursions /\ q.box = om[mon[t]].box)
         /\ (q.owner = None => q.recursions = 0 /\ ~q.box) /\ (q.box => q.recursions = 0)
         /\ q.count = Cardinality(Enterers') /\ q.waiters = Cardinality(Waiters')
    BY <1>1, <1>2, <1>3, <1>4, <1>6, <2>1, <2>8, <2>11, ThreadsAssumption
  <2>13. /\ (Has(t)' \/ k.inwait => 1 \in Reals(t)')
         /\ (k.inwait => k.save \in Nat /\ Cardinality(Reals(t)') = k.save + 1)
         /\ (q.owner = t => IF k.inwait THEN q.recursions = 0 /\ ~q.box
                            ELSE /\ Cardinality(Reals(t)') = q.recursions + 1
                                 /\ Unboxed(t)' => ~q.box)
    BY <1>1, <1>2, <1>3, <1>4, <1>6, <2>1, <2>2, <2>8, <2>9, ThreadsAssumption
  <2> QED
    BY <1>1, <2>1, <2>2, <2>3, <2>4, <2>6, <2>7, <2>12, <2>13, MonitorMove
<1> QED
  BY <1>1, <1>2, <1>5, <1>6 DEF Exit_prolog, this

\* Wait ends at once when an interrupt is pending.
LEMMA Wait_interruptedKeeps ==
  ASSUME Inv, NEW t \in Threads, Wait_interrupted(t), UNCHANGED objectVars
  PROVE  Inv'
<1>1. pc[t] = "wait" /\ pc[t] \notin Outside /\ om[mon[t]].owner = t
  BY DEF Wait_interrupted, Outside, this
<1>2. /\ mon[t] \in Monitors /\ om[mon[t]] \in MonitorRec /\ loc[t] \in LocRec
      /\ Control(t) /\ Depths(t) /\ Depth(t) \in Nat /\ (Has(t) <=> om[mon[t]].owner = t)
  BY <1>1, AtMonitor
<1>3. /\ (om[mon[t]].owner = None => om[mon[t]].recursions = 0 /\ ~om[mon[t]].box)
      /\ (om[mon[t]].box => om[mon[t]].recursions = 0)
      /\ om[mon[t]].count = Cardinality(Enterers) /\ om[mon[t]].waiters = Cardinality(Waiters)
      /\ om[mon[t]].recursions \in Int /\ om[mon[t]].count \in Int /\ om[mon[t]].waiters \in Int
      /\ (Has(t) \/ loc[t].inwait => 1 \in Reals(t))
      /\ (loc[t].inwait => loc[t].save \in Nat /\ Cardinality(Reals(t)) = loc[t].save + 1)
      /\ (om[mon[t]].owner = t => IF loc[t].inwait THEN om[mon[t]].recursions = 0 /\ ~om[mon[t]].box
                                  ELSE /\ Cardinality(Reals(t)) = om[mon[t]].recursions + 1
                                       /\ Unboxed(t) => ~om[mon[t]].box)
  BY <1>1, <1>2, Known, CountInts
<1> DEFINE l == "java"
           a == IF om[mon[t]].box THEN 0 ELSE om[mon[t]].recursions
           q == [om[mon[t]] EXCEPT !.box = FALSE, !.recursions = a]
           k == loc[t]
<1>4. /\ q \in MonitorRec /\ q.owner = om[mon[t]].owner /\ ~q.box /\ q.recursions = om[mon[t]].recursions
      /\ q.count = om[mon[t]].count /\ q.waiters = om[mon[t]].waiters /\ q.header = om[mon[t]].header /\ q.object = om[mon[t]].object
  <2>1. a \in Int /\ a = om[mon[t]].recursions
    BY <1>1, <1>2, <1>3 DEF NT
  <2> HIDE DEF a
  <2>2. /\ q \in MonitorRec /\ q.owner = om[mon[t]].owner /\ ~q.box /\ q.recursions = a
        /\ q.count = om[mon[t]].count /\ q.waiters = om[mon[t]].waiters /\ q.header = om[mon[t]].header /\ q.object = om[mon[t]].object
    BY <1>2, <2>1, BoxFields
  <2> HIDE DEF q
  <2> QED
    BY <1>1, <1>2, <1>3, <2>1, <2>2
<1>5. /\ k \in LocRec /\ k.inwait = loc[t].inwait /\ k.save = loc[t].save
        /\ k.spin = loc[t].spin /\ k.then = loc[t].then
  BY <1>1, <1>2, <1>3 DEF NT
<1>6. Moves(t, l, q, k)
  BY <1>1, <1>2, <1>3 DEF Moves, Wait_interrupted, Go, Set, this, Checked, Inv, Typing
<1> HIDE DEF q, k
<1>7. l \in Labels \ Inflation
  BY <1>1, <1>2, <1>3, LabelSets DEF Control, Checked
<1>8. pc'[t] = l /\ loc'[t] = k /\ held' = held /\ boxes' = boxes
  BY <1>6, <1>1, <1>2, <1>3 DEF Moves, objectVars, Inv, Typing
<1>9. Control(t)'
  BY <1>1, <1>2, <1>3, <1>5, <1>8, ThreadsAssumption DEF Control, Checked
<1>10. Depths(t)'
  BY <1>1, <1>2, <1>3, <1>5, <1>8, ThreadsAssumption, DepthAssumption DEF Control, Depths,
     Trying, Extra, Has, InEnterI, Where, Releasing, Unboxed, Top, Real, Depth, Checked
<1>11. (Trying(t)' <=> Trying(t)) /\ (Extra(t)' <=> Extra(t)) /\ (InEnterI(t)' <=> InEnterI(t)) /\ (Has(t)' <=> Has(t))
  BY <1>1, <1>2, <1>3, <1>5, <1>8, ThreadsAssumption, DepthAssumption DEF Control, Depths,
     Trying, Extra, Has, InEnterI, Where, Releasing, Unboxed, Top, Real, Depth, Checked
<1>12. Reals(t)' = Reals(t)
  BY <1>1, <1>2, <1>3, <1>5, <1>8, <1>11, RealsSame
<1> HIDE DEF l
<1>13. Shape(t)
  BY <1>1, <1>2, <1>3, <1>4, <1>5, <1>6, <1>7, MovesShape
<1>14. /\ Cardinality(Enterers') = Cardinality(Enterers)
       /\ Cardinality(Waiters') = Cardinality(Waiters)
  BY <1>1, <1>2, <1>3, <1>5, <1>8, <1>11, <1>13, EnterersSame, WaitersSame
<1>15. /\ (Has(t)' <=> q.owner = t) /\ (\A u \in Threads \ {t} : q.owner = u <=> om[mon[t]].owner = u)
       /\ (om[mon[t]].owner \notin {t, None} => q.recursions = om[mon[t]].recursions /\ q.box = om[mon[t]].box)
       /\ (q.owner = None => q.recursions = 0 /\ ~q.box) /\ (q.box => q.recursions = 0)
       /\ q.count = Cardinality(Enterers') /\ q.waiters = Cardinality(Waiters')
  BY <1>1, <1>2, <1>3, <1>4, <1>11, <1>14, ThreadsAssumption
<1>16. /\ (Has(t)' \/ k.inwait => 1 \in Reals(t)')
       /\ (k.inwait => k.save \in Nat /\ Cardinality(Reals(t)') = k.save + 1)
       /\ (q.owner = t => IF k.inwait THEN q.recursions = 0 /\ ~q.box
                          ELSE /\ Cardinality(Reals(t)') = q.recursions + 1
                               /\ Unboxed(t)' => ~q.box)
  BY <1>1, <1>2, <1>3, <1>4, <1>5, <1>11, <1>12, ThreadsAssumption
<1> QED
  BY <1>1, <1>4, <1>5, <1>6, <1>7, <1>9, <1>10, <1>15, <1>16, MonitorMove

\* Wait prepares its node.
LEMMA Wait_nodeKeeps ==
  ASSUME Inv, NEW t \in Threads, Wait_node(t), UNCHANGED objectVars
  PROVE  Inv'
<1>1. pc[t] = "wait" /\ pc[t] \notin Outside /\ om[mon[t]].owner = t
  BY DEF Wait_node, Outside, this
<1>2. /\ mon[t] \in Monitors /\ om[mon[t]] \in MonitorRec /\ loc[t] \in LocRec
      /\ Control(t) /\ Depths(t) /\ Depth(t) \in Nat /\ (Has(t) <=> om[mon[t]].owner = t)
  BY <1>1, AtMonitor
<1>3. /\ (om[mon[t]].owner = None => om[mon[t]].recursions = 0 /\ ~om[mon[t]].box)
      /\ (om[mon[t]].box => om[mon[t]].recursions = 0)
      /\ om[mon[t]].count = Cardinality(Enterers) /\ om[mon[t]].waiters = Cardinality(Waiters)
      /\ om[mon[t]].recursions \in Int /\ om[mon[t]].count \in Int /\ om[mon[t]].waiters \in Int
      /\ (Has(t) \/ loc[t].inwait => 1 \in Reals(t))
      /\ (loc[t].inwait => loc[t].save \in Nat /\ Cardinality(Reals(t)) = loc[t].save + 1)
      /\ (om[mon[t]].owner = t => IF loc[t].inwait THEN om[mon[t]].recursions = 0 /\ ~om[mon[t]].box
                                  ELSE /\ Cardinality(Reals(t)) = om[mon[t]].recursions + 1
                                       /\ Unboxed(t) => ~om[mon[t]].box)
  BY <1>1, <1>2, Known, CountInts
<1> DEFINE l == "wait_add"
           a == IF om[mon[t]].box THEN 0 ELSE om[mon[t]].recursions
           q == [om[mon[t]] EXCEPT !.box = FALSE, !.recursions = a]
           k == loc[t]
<1>4. /\ q \in MonitorRec /\ q.owner = om[mon[t]].owner /\ ~q.box /\ q.recursions = om[mon[t]].recursions
      /\ q.count = om[mon[t]].count /\ q.waiters = om[mon[t]].waiters /\ q.header = om[mon[t]].header /\ q.object = om[mon[t]].object
  <2>1. a \in Int /\ a = om[mon[t]].recursions
    BY <1>1, <1>2, <1>3 DEF NT
  <2> HIDE DEF a
  <2>2. /\ q \in MonitorRec /\ q.owner = om[mon[t]].owner /\ ~q.box /\ q.recursions = a
        /\ q.count = om[mon[t]].count /\ q.waiters = om[mon[t]].waiters /\ q.header = om[mon[t]].header /\ q.object = om[mon[t]].object
    BY <1>2, <2>1, BoxFields
  <2> HIDE DEF q
  <2> QED
    BY <1>1, <1>2, <1>3, <2>1, <2>2
<1>5. /\ k \in LocRec /\ k.inwait = loc[t].inwait /\ k.save = loc[t].save
        /\ k.spin = loc[t].spin /\ k.then = loc[t].then
  BY <1>1, <1>2, <1>3 DEF NT
<1>6. Moves(t, l, q, k)
  <2>1. node' \in [Threads -> NodeRec]
    BY <1>1, <1>2, <1>3 DEF Wait_node, NodeRec, Inv, Typing, this
  <2> QED
    BY <1>1, <1>2, <1>3, <2>1 DEF Moves, Wait_node, Go, Set, this, Checked, Inv, Typing
<1> HIDE DEF q, k
<1>7. l \in Labels \ Inflation
  BY <1>1, <1>2, <1>3, LabelSets DEF Control, Checked
<1>8. pc'[t] = l /\ loc'[t] = k /\ held' = held /\ boxes' = boxes
  BY <1>6, <1>1, <1>2, <1>3 DEF Moves, objectVars, Inv, Typing
<1>9. Control(t)'
  BY <1>1, <1>2, <1>3, <1>5, <1>8, ThreadsAssumption DEF Control, Checked
<1>10. Depths(t)'
  BY <1>1, <1>2, <1>3, <1>5, <1>8, ThreadsAssumption, DepthAssumption DEF Control, Depths,
     Trying, Extra, Has, InEnterI, Where, Releasing, Unboxed, Top, Real, Depth, Checked
<1>11. (Trying(t)' <=> Trying(t)) /\ (Extra(t)' <=> Extra(t)) /\ (InEnterI(t)' <=> InEnterI(t)) /\ (Has(t)' <=> Has(t))
  BY <1>1, <1>2, <1>3, <1>5, <1>8, ThreadsAssumption, DepthAssumption DEF Control, Depths,
     Trying, Extra, Has, InEnterI, Where, Releasing, Unboxed, Top, Real, Depth, Checked
<1>12. Reals(t)' = Reals(t)
  BY <1>1, <1>2, <1>3, <1>5, <1>8, <1>11, RealsSame
<1> HIDE DEF l
<1>13. Shape(t)
  BY <1>1, <1>2, <1>3, <1>4, <1>5, <1>6, <1>7, MovesShape
<1>14. /\ Cardinality(Enterers') = Cardinality(Enterers)
       /\ Cardinality(Waiters') = Cardinality(Waiters)
  BY <1>1, <1>2, <1>3, <1>5, <1>8, <1>11, <1>13, EnterersSame, WaitersSame
<1>15. /\ (Has(t)' <=> q.owner = t) /\ (\A u \in Threads \ {t} : q.owner = u <=> om[mon[t]].owner = u)
       /\ (om[mon[t]].owner \notin {t, None} => q.recursions = om[mon[t]].recursions /\ q.box = om[mon[t]].box)
       /\ (q.owner = None => q.recursions = 0 /\ ~q.box) /\ (q.box => q.recursions = 0)
       /\ q.count = Cardinality(Enterers') /\ q.waiters = Cardinality(Waiters')
  BY <1>1, <1>2, <1>3, <1>4, <1>11, <1>14, ThreadsAssumption
<1>16. /\ (Has(t)' \/ k.inwait => 1 \in Reals(t)')
       /\ (k.inwait => k.save \in Nat /\ Cardinality(Reals(t)') = k.save + 1)
       /\ (q.owner = t => IF k.inwait THEN q.recursions = 0 /\ ~q.box
                          ELSE /\ Cardinality(Reals(t)') = q.recursions + 1
                               /\ Unboxed(t)' => ~q.box)
  BY <1>1, <1>2, <1>3, <1>4, <1>5, <1>11, <1>12, ThreadsAssumption
<1> QED
  BY <1>1, <1>4, <1>5, <1>6, <1>7, <1>9, <1>10, <1>15, <1>16, MonitorMove

\* Notify and notifyAll look at _WaitSet.
LEMMA Notify_beginKeeps ==
  ASSUME Inv, NEW t \in Threads, Notify_begin(t), UNCHANGED objectVars
  PROVE  Inv'
<1>1. pc[t] \in {"notify", "notifyAll"} /\ pc[t] \notin Outside /\ om[mon[t]].owner = t
  BY DEF Notify_begin, Outside, this
<1>2. /\ mon[t] \in Monitors /\ om[mon[t]] \in MonitorRec /\ loc[t] \in LocRec
      /\ Control(t) /\ Depths(t) /\ Depth(t) \in Nat /\ (Has(t) <=> om[mon[t]].owner = t)
  BY <1>1, AtMonitor
<1>3. /\ (om[mon[t]].owner = None => om[mon[t]].recursions = 0 /\ ~om[mon[t]].box)
      /\ (om[mon[t]].box => om[mon[t]].recursions = 0)
      /\ om[mon[t]].count = Cardinality(Enterers) /\ om[mon[t]].waiters = Cardinality(Waiters)
      /\ om[mon[t]].recursions \in Int /\ om[mon[t]].count \in Int /\ om[mon[t]].waiters \in Int
      /\ (Has(t) \/ loc[t].inwait => 1 \in Reals(t))
      /\ (loc[t].inwait => loc[t].save \in Nat /\ Cardinality(Reals(t)) = loc[t].save + 1)
      /\ (om[mon[t]].owner = t => IF loc[t].inwait THEN om[mon[t]].recursions = 0 /\ ~om[mon[t]].box
                                  ELSE /\ Cardinality(Reals(t)) = om[mon[t]].recursions + 1
                                       /\ Unboxed(t) => ~om[mon[t]].box)
  BY <1>1, <1>2, Known, CountInts
<1> DEFINE l == IF om[mon[t]].WaitSet = <<>> THEN "java"
               ELSE IF pc[t] = "notify" THEN "notify_dequeue" ELSE "notifyAll_lock"
           a == IF om[mon[t]].box THEN 0 ELSE om[mon[t]].recursions
           q == [om[mon[t]] EXCEPT !.box = FALSE, !.recursions = a]
           k == loc[t]
<1>4. /\ q \in MonitorRec /\ q.owner = om[mon[t]].owner /\ ~q.box /\ q.recursions = om[mon[t]].recursions
      /\ q.count = om[mon[t]].count /\ q.waiters = om[mon[t]].waiters /\ q.header = om[mon[t]].header /\ q.object = om[mon[t]].object
  <2>1. a \in Int /\ a = om[mon[t]].recursions
    BY <1>1, <1>2, <1>3 DEF NT
  <2> HIDE DEF a
  <2>2. /\ q \in MonitorRec /\ q.owner = om[mon[t]].owner /\ ~q.box /\ q.recursions = a
        /\ q.count = om[mon[t]].count /\ q.waiters = om[mon[t]].waiters /\ q.header = om[mon[t]].header /\ q.object = om[mon[t]].object
    BY <1>2, <2>1, BoxFields
  <2> HIDE DEF q
  <2> QED
    BY <1>1, <1>2, <1>3, <2>1, <2>2
<1>5. /\ k \in LocRec /\ k.inwait = loc[t].inwait /\ k.save = loc[t].save
        /\ k.spin = loc[t].spin /\ k.then = loc[t].then
  BY <1>1, <1>2, <1>3 DEF NT
<1>6. Moves(t, l, q, k)
  BY <1>1, <1>2, <1>3 DEF Moves, Notify_begin, Go, Set, this, Checked, Inv, Typing
<1> HIDE DEF q, k
<1>7. l \in Labels \ Inflation
  BY <1>1, <1>2, <1>3, LabelSets DEF Control, Checked
<1>8. pc'[t] = l /\ loc'[t] = k /\ held' = held /\ boxes' = boxes
  BY <1>6, <1>1, <1>2, <1>3 DEF Moves, objectVars, Inv, Typing
<1>9. Control(t)'
  BY <1>1, <1>2, <1>3, <1>5, <1>8, ThreadsAssumption DEF Control, Checked
<1>10. Depths(t)'
  BY <1>1, <1>2, <1>3, <1>5, <1>8, ThreadsAssumption, DepthAssumption DEF Control, Depths,
     Trying, Extra, Has, InEnterI, Where, Releasing, Unboxed, Top, Real, Depth, Checked
<1>11. (Trying(t)' <=> Trying(t)) /\ (Extra(t)' <=> Extra(t)) /\ (InEnterI(t)' <=> InEnterI(t)) /\ (Has(t)' <=> Has(t))
  BY <1>1, <1>2, <1>3, <1>5, <1>8, ThreadsAssumption, DepthAssumption DEF Control, Depths,
     Trying, Extra, Has, InEnterI, Where, Releasing, Unboxed, Top, Real, Depth, Checked
<1>12. Reals(t)' = Reals(t)
  BY <1>1, <1>2, <1>3, <1>5, <1>8, <1>11, RealsSame
<1> HIDE DEF l
<1>13. Shape(t)
  BY <1>1, <1>2, <1>3, <1>4, <1>5, <1>6, <1>7, MovesShape
<1>14. /\ Cardinality(Enterers') = Cardinality(Enterers)
       /\ Cardinality(Waiters') = Cardinality(Waiters)
  BY <1>1, <1>2, <1>3, <1>5, <1>8, <1>11, <1>13, EnterersSame, WaitersSame
<1>15. /\ (Has(t)' <=> q.owner = t) /\ (\A u \in Threads \ {t} : q.owner = u <=> om[mon[t]].owner = u)
       /\ (om[mon[t]].owner \notin {t, None} => q.recursions = om[mon[t]].recursions /\ q.box = om[mon[t]].box)
       /\ (q.owner = None => q.recursions = 0 /\ ~q.box) /\ (q.box => q.recursions = 0)
       /\ q.count = Cardinality(Enterers') /\ q.waiters = Cardinality(Waiters')
  BY <1>1, <1>2, <1>3, <1>4, <1>11, <1>14, ThreadsAssumption
<1>16. /\ (Has(t)' \/ k.inwait => 1 \in Reals(t)')
       /\ (k.inwait => k.save \in Nat /\ Cardinality(Reals(t)') = k.save + 1)
       /\ (q.owner = t => IF k.inwait THEN q.recursions = 0 /\ ~q.box
                          ELSE /\ Cardinality(Reals(t)') = q.recursions + 1
                               /\ Unboxed(t)' => ~q.box)
  BY <1>1, <1>2, <1>3, <1>4, <1>5, <1>11, <1>12, ThreadsAssumption
<1> QED
  BY <1>1, <1>4, <1>5, <1>6, <1>7, <1>9, <1>10, <1>15, <1>16, MonitorMove

\* Wait adds the node to _WaitSet and calls exit.
LEMMA Wait_addKeeps ==
  ASSUME Inv, NEW t \in Threads, Wait_add(t), UNCHANGED objectVars
  PROVE  Inv'
<1>1. pc[t] = "wait_add" /\ pc[t] \notin Outside
  BY DEF Wait_add, Outside, this
<1>2. /\ mon[t] \in Monitors /\ om[mon[t]] \in MonitorRec /\ loc[t] \in LocRec
      /\ Control(t) /\ Depths(t) /\ Depth(t) \in Nat /\ (Has(t) <=> om[mon[t]].owner = t)
  BY <1>1, AtMonitor
<1>3. /\ (om[mon[t]].owner = None => om[mon[t]].recursions = 0 /\ ~om[mon[t]].box)
      /\ (om[mon[t]].box => om[mon[t]].recursions = 0)
      /\ om[mon[t]].count = Cardinality(Enterers) /\ om[mon[t]].waiters = Cardinality(Waiters)
      /\ om[mon[t]].recursions \in Int /\ om[mon[t]].count \in Int /\ om[mon[t]].waiters \in Int
      /\ (Has(t) \/ loc[t].inwait => 1 \in Reals(t))
      /\ (loc[t].inwait => loc[t].save \in Nat /\ Cardinality(Reals(t)) = loc[t].save + 1)
      /\ (om[mon[t]].owner = t => IF loc[t].inwait THEN om[mon[t]].recursions = 0 /\ ~om[mon[t]].box
                                  ELSE /\ Cardinality(Reals(t)) = om[mon[t]].recursions + 1
                                       /\ Unboxed(t) => ~om[mon[t]].box)
  BY <1>1, <1>2, Known, CountInts
<1>4. /\ ~loc[t].inwait /\ Has(t) /\ Unboxed(t)
      /\ (1 \in Reals(t) => Cardinality(Reals(t)) \in Nat \ {0})
  BY <1>1, <1>2, <1>3, ThreadsAssumption, RealsPositive DEF Control, Depths, Trying, Extra,
     Has, InEnterI, Where, Releasing, Unboxed, Top, Real, Depth
<1> DEFINE l == "exit"
           a == om[mon[t]].waiters + 1
           b == Append(om[mon[t]].WaitSet, t)
           z == 0
           q == [om[mon[t]] EXCEPT !.WaitSet = b, !.Responsible = None,
                               !.waiters = a, !.recursions = z]
           k == [loc[t] EXCEPT !.save = om[mon[t]].recursions, !.inwait = TRUE]
<1>5. /\ q \in MonitorRec /\ q.owner = om[mon[t]].owner /\ q.box = om[mon[t]].box /\ q.recursions = 0
      /\ q.count = om[mon[t]].count /\ q.waiters = om[mon[t]].waiters + 1 /\ q.header = om[mon[t]].header /\ q.object = om[mon[t]].object
  <2>1. a \in Int /\ a = om[mon[t]].waiters + 1 /\ b \in Seq(NT) /\ z \in Int /\ z = 0
    BY <1>1, <1>2, <1>3, <1>4, ListFields, Appended DEF NT
  <2> HIDE DEF a, b, z
  <2>2. /\ q \in MonitorRec /\ q.owner = om[mon[t]].owner /\ q.box = om[mon[t]].box /\ q.recursions = z
        /\ q.count = om[mon[t]].count /\ q.waiters = a /\ q.header = om[mon[t]].header /\ q.object = om[mon[t]].object
    BY <1>2, <2>1 DEF MonitorRec, NT
  <2> HIDE DEF q
  <2> QED
    BY <1>1, <1>2, <1>3, <1>4, <2>1, <2>2 DEF b
<1>6. /\ k \in LocRec /\ k.inwait /\ k.save = om[mon[t]].recursions
        /\ k.spin = loc[t].spin /\ k.then = loc[t].then
  BY <1>1, <1>2, <1>3, <1>4, InwaitLoc DEF NT
<1>7. Moves(t, l, q, k)
  BY <1>1, <1>2, <1>3, <1>4 DEF Moves, Wait_add, Go, Set, this, Inv, Typing
<1> HIDE DEF q, k
<1>8. l \in Labels \ Inflation
  BY <1>1, <1>2, <1>3, <1>4, LabelSets DEF Control
<1>9. pc'[t] = l /\ loc'[t] = k /\ held' = held /\ boxes' = boxes
  BY <1>7, <1>1, <1>2, <1>3, <1>4 DEF Moves, objectVars, Inv, Typing
<1>10. Control(t)'
  BY <1>1, <1>2, <1>3, <1>4, <1>6, <1>9, ThreadsAssumption DEF Control
<1>11. Depths(t)'
  BY <1>1, <1>2, <1>3, <1>4, <1>6, <1>9, ThreadsAssumption, DepthAssumption DEF Control,
     Depths, Trying, Extra, Has, InEnterI, Where, Releasing, Unboxed, Top, Real, Depth
<1>12. (Trying(t)' <=> Trying(t)) /\ (Extra(t)' <=> Extra(t)) /\ (InEnterI(t)' <=> InEnterI(t)) /\ Has(t)' /\ Has(t)
  BY <1>1, <1>2, <1>3, <1>4, <1>6, <1>9, ThreadsAssumption, DepthAssumption DEF Control,
     Depths, Trying, Extra, Has, InEnterI, Where, Releasing, Unboxed, Top, Real, Depth
<1>13. Reals(t)' = Reals(t)
  BY <1>1, <1>2, <1>3, <1>4, <1>6, <1>9, <1>12, RealsSame
<1> HIDE DEF l
<1>14. Shape(t)
  BY <1>1, <1>2, <1>3, <1>4, <1>5, <1>6, <1>7, <1>8, MovesShape
<1>15. /\ Cardinality(Enterers') = Cardinality(Enterers)
       /\ Cardinality(Waiters') = Cardinality(Waiters) + 1
  BY <1>1, <1>2, <1>3, <1>4, <1>6, <1>9, <1>12, <1>14, EnterersSame, WaitersUp
<1>16. /\ (Has(t)' <=> q.owner = t) /\ (\A u \in Threads \ {t} : q.owner = u <=> om[mon[t]].owner = u)
       /\ (om[mon[t]].owner \notin {t, None} => q.recursions = om[mon[t]].recursions /\ q.box = om[mon[t]].box)
       /\ (q.owner = None => q.recursions = 0 /\ ~q.box) /\ (q.box => q.recursions = 0)
       /\ q.count = Cardinality(Enterers') /\ q.waiters = Cardinality(Waiters')
  BY <1>1, <1>2, <1>3, <1>4, <1>5, <1>12, <1>15, ThreadsAssumption
<1>17. /\ (Has(t)' \/ k.inwait => 1 \in Reals(t)')
       /\ (k.inwait => k.save \in Nat /\ Cardinality(Reals(t)') = k.save + 1)
       /\ (q.owner = t => IF k.inwait THEN q.recursions = 0 /\ ~q.box
                          ELSE /\ Cardinality(Reals(t)') = q.recursions + 1
                               /\ Unboxed(t)' => ~q.box)
  BY <1>1, <1>2, <1>3, <1>4, <1>5, <1>6, <1>12, <1>13, ThreadsAssumption
<1> QED
  BY <1>1, <1>5, <1>6, <1>7, <1>8, <1>10, <1>11, <1>16, <1>17, MonitorMove

\* Wait restores the recursions it saved.
LEMMA Wait_endKeeps ==
  ASSUME Inv, NEW t \in Threads, Wait_end(t), UNCHANGED objectVars
  PROVE  Inv'
<1>1. pc[t] = "wait_reentered" /\ pc[t] \notin Outside
  BY DEF Wait_end, Outside, this
<1>2. /\ mon[t] \in Monitors /\ om[mon[t]] \in MonitorRec /\ loc[t] \in LocRec
      /\ Control(t) /\ Depths(t) /\ Depth(t) \in Nat /\ (Has(t) <=> om[mon[t]].owner = t)
  BY <1>1, AtMonitor
<1>3. /\ (om[mon[t]].owner = None => om[mon[t]].recursions = 0 /\ ~om[mon[t]].box)
      /\ (om[mon[t]].box => om[mon[t]].recursions = 0)
      /\ om[mon[t]].count = Cardinality(Enterers) /\ om[mon[t]].waiters = Cardinality(Waiters)
      /\ om[mon[t]].recursions \in Int /\ om[mon[t]].count \in Int /\ om[mon[t]].waiters \in Int
      /\ (Has(t) \/ loc[t].inwait => 1 \in Reals(t))
      /\ (loc[t].inwait => loc[t].save \in Nat /\ Cardinality(Reals(t)) = loc[t].save + 1)
      /\ (om[mon[t]].owner = t => IF loc[t].inwait THEN om[mon[t]].recursions = 0 /\ ~om[mon[t]].box
                                  ELSE /\ Cardinality(Reals(t)) = om[mon[t]].recursions + 1
                                       /\ Unboxed(t) => ~om[mon[t]].box)
  BY <1>1, <1>2, Known, CountInts
<1>4. loc[t].inwait /\ Has(t) /\ ~om[mon[t]].box
  BY <1>1, <1>2, <1>3, ThreadsAssumption DEF Control, Depths, Trying, Extra, Has, InEnterI,
     Where, Releasing, Unboxed, Top, Real, Depth
<1> DEFINE l == "java"
           a == om[mon[t]].waiters - 1
           b == loc[t].save
           q == [om[mon[t]] EXCEPT !.recursions = b, !.waiters = a]
           k == [loc[t] EXCEPT !.inwait = FALSE, !.save = 0, !.wasNotified = 0, !.timed = FALSE]
<1>5. /\ q \in MonitorRec /\ q.owner = om[mon[t]].owner /\ q.box = om[mon[t]].box /\ q.recursions = loc[t].save
      /\ q.count = om[mon[t]].count /\ q.waiters = om[mon[t]].waiters - 1 /\ q.header = om[mon[t]].header /\ q.object = om[mon[t]].object
  <2>1. a \in Int /\ a = om[mon[t]].waiters - 1 /\ b \in Int
    BY <1>1, <1>2, <1>3, <1>4 DEF NT
  <2> HIDE DEF a, b
  <2>2. /\ q \in MonitorRec /\ q.owner = om[mon[t]].owner /\ q.box = om[mon[t]].box /\ q.recursions = b
        /\ q.count = om[mon[t]].count /\ q.waiters = a /\ q.header = om[mon[t]].header /\ q.object = om[mon[t]].object
    BY <1>2, <2>1 DEF MonitorRec, NT
  <2> HIDE DEF q
  <2> QED
    BY <1>1, <1>2, <1>3, <1>4, <2>1, <2>2 DEF b
<1>6. /\ k \in LocRec /\ ~k.inwait /\ k.save = 0
        /\ k.spin = loc[t].spin /\ k.then = loc[t].then
  BY <1>1, <1>2, <1>3, <1>4, EndLoc DEF NT
<1>7. Moves(t, l, q, k)
  BY <1>1, <1>2, <1>3, <1>4 DEF Moves, Wait_end, Go, Set, this, Inv, Typing
<1> HIDE DEF q, k
<1>8. l \in Labels \ Inflation
  BY <1>1, <1>2, <1>3, <1>4, LabelSets DEF Control
<1>9. pc'[t] = l /\ loc'[t] = k /\ held' = held /\ boxes' = boxes
  BY <1>7, <1>1, <1>2, <1>3, <1>4 DEF Moves, objectVars, Inv, Typing
<1>10. Control(t)'
  BY <1>1, <1>2, <1>3, <1>4, <1>6, <1>9, ThreadsAssumption DEF Control
<1>11. Depths(t)'
  BY <1>1, <1>2, <1>3, <1>4, <1>6, <1>9, ThreadsAssumption, DepthAssumption DEF Control,
     Depths, Trying, Extra, Has, InEnterI, Where, Releasing, Unboxed, Top, Real, Depth
<1>12. (Trying(t)' <=> Trying(t)) /\ (Extra(t)' <=> Extra(t)) /\ (InEnterI(t)' <=> InEnterI(t)) /\ Has(t)' /\ Has(t) /\ ~Unboxed(t)'
  BY <1>1, <1>2, <1>3, <1>4, <1>6, <1>9, ThreadsAssumption, DepthAssumption DEF Control,
     Depths, Trying, Extra, Has, InEnterI, Where, Releasing, Unboxed, Top, Real, Depth
<1>13. Reals(t)' = Reals(t)
  BY <1>1, <1>2, <1>3, <1>4, <1>6, <1>9, <1>12, RealsSame
<1> HIDE DEF l
<1>14. Shape(t)
  BY <1>1, <1>2, <1>3, <1>4, <1>5, <1>6, <1>7, <1>8, MovesShape
<1>15. /\ Cardinality(Enterers') = Cardinality(Enterers)
       /\ Cardinality(Waiters') = Cardinality(Waiters) - 1
  BY <1>1, <1>2, <1>3, <1>4, <1>6, <1>9, <1>12, <1>14, EnterersSame, WaitersDown
<1>16. /\ (Has(t)' <=> q.owner = t) /\ (\A u \in Threads \ {t} : q.owner = u <=> om[mon[t]].owner = u)
       /\ (om[mon[t]].owner \notin {t, None} => q.recursions = om[mon[t]].recursions /\ q.box = om[mon[t]].box)
       /\ (q.owner = None => q.recursions = 0 /\ ~q.box) /\ (q.box => q.recursions = 0)
       /\ q.count = Cardinality(Enterers') /\ q.waiters = Cardinality(Waiters')
  BY <1>1, <1>2, <1>3, <1>4, <1>5, <1>12, <1>15, ThreadsAssumption
<1>17. /\ (Has(t)' \/ k.inwait => 1 \in Reals(t)')
       /\ (k.inwait => k.save \in Nat /\ Cardinality(Reals(t)') = k.save + 1)
       /\ (q.owner = t => IF k.inwait THEN q.recursions = 0 /\ ~q.box
                          ELSE /\ Cardinality(Reals(t)') = q.recursions + 1
                               /\ Unboxed(t)' => ~q.box)
  BY <1>1, <1>2, <1>3, <1>4, <1>5, <1>6, <1>12, <1>13, ThreadsAssumption
<1> QED
  BY <1>1, <1>5, <1>6, <1>7, <1>8, <1>10, <1>11, <1>16, <1>17, MonitorMove

\* A thread that finds no recursions releases its only lock.
LEMMA UnlockLast ==
  ASSUME Inv, NEW t \in Threads, pc[t] = "unlock", IsOwner(t), om[mon[t]].recursions = 0
  PROVE  Depth(t) = 0 /\ ~om[mon[t]].box
<1>1. pc[t] \notin Outside
  BY DEF Outside
<1>2. Control(t) /\ Depths(t) /\ Depth(t) \in Nat /\ Has(t) /\ ~om[mon[t]].box
  BY <1>1, AtMonitor DEF IsOwner, this
<1>3. ~loc[t].inwait /\ Extra(t) /\ ~Trying(t)
  BY <1>2 DEF Control, Extra, Releasing, Trying, Where
<1>4. 1 \in Reals(t) /\ Cardinality(Reals(t)) = 1
  BY <1>1, <1>2, <1>3, Known DEF IsOwner, this
<1> QED
  BY <1>2, <1>3, <1>4, LastLevel

\* The unlock of compiled code looks at _cxq.
LEMMA Unlock_cxqKeeps ==
  ASSUME Inv, NEW t \in Threads, Unlock_cxq(t), UNCHANGED objectVars
  PROVE  Inv'
<1>1. pc[t] = "unlock" /\ pc[t] \notin Outside
  BY DEF Unlock_cxq, Outside, this
<1>2. /\ mon[t] \in Monitors /\ om[mon[t]] \in MonitorRec /\ loc[t] \in LocRec
      /\ Control(t) /\ Depths(t) /\ Depth(t) \in Nat /\ (Has(t) <=> om[mon[t]].owner = t)
  BY <1>1, AtMonitor
<1>3. IsOwner(t) /\ om[mon[t]].recursions = 0 => Depth(t) = 0 /\ ~om[mon[t]].box
  BY <1>1, <1>2, UnlockLast
<1>4. CASE ~IsOwner(t) \/ om[mon[t]].recursions # 0
  <2> DEFINE l == "fast_exit"
             q == om[mon[t]]
             k == loc[t]
  <2>1. q \in MonitorRec /\ CoreSame(q, om[mon[t]])
    BY <1>1, <1>2, <1>3, <1>4, NoField DEF NT
  <2>2. /\ k \in LocRec /\ k.inwait = loc[t].inwait /\ k.save = loc[t].save
          /\ k.spin = loc[t].spin /\ k.then = loc[t].then
    BY <1>1, <1>2, <1>3, <1>4
  <2>3. Moves(t, l, q, k)
    BY <1>1, <1>2, <1>3, <1>4 DEF Moves, Unlock_cxq, Go, Set, this, Inv, Typing
  <2> HIDE DEF q, k
  <2>4. l \in Labels \ Inflation
    BY <1>1, <1>2, <1>3, <1>4, LabelSets DEF Control
  <2>5. pc'[t] = l /\ loc'[t] = k /\ held' = held /\ boxes' = boxes
    BY <2>3, <1>1, <1>2, <1>3, <1>4 DEF Moves, objectVars, Inv, Typing
  <2>6. Control(t)'
    BY <1>1, <1>2, <1>3, <1>4, <2>2, <2>5, ThreadsAssumption DEF Control
  <2>7. Depths(t)'
    BY <1>1, <1>2, <1>3, <1>4, <2>2, <2>5, ThreadsAssumption, DepthAssumption DEF Control,
       Depths, Trying, Extra, Has, InEnterI, Where, Releasing, Unboxed, Top, Real, Depth
  <2>8. /\ (Trying(t)' <=> Trying(t)) /\ (Extra(t)' <=> Extra(t))
          /\ (Has(t)' <=> Has(t)) /\ (InEnterI(t)' <=> InEnterI(t))
          /\ (Unboxed(t)' => Unboxed(t))
    BY <1>1, <1>2, <1>3, <1>4, <2>2, <2>5 DEF Control, Depths, Trying, Extra, Has, InEnterI,
       Where, Releasing, Unboxed, Top, Real, Depth
  <2>9. Quiet(t)
    BY <2>2, <2>5, <2>6, <2>7, <2>8 DEF Quiet
  <2> HIDE DEF l
  <2> QED
    BY <1>1, <2>1, <2>2, <2>3, <2>4, <2>8, <2>9, QuietStep
<1>5. CASE IsOwner(t) /\ om[mon[t]].recursions = 0
  <2> DEFINE l == IF om[mon[t]].cxq = <<>> THEN "unlock_EntryList" ELSE "unlock_succ"
             q == om[mon[t]]
             k == loc[t]
  <2>1. q \in MonitorRec /\ CoreSame(q, om[mon[t]])
    BY <1>1, <1>2, <1>3, <1>5, NoField DEF NT
  <2>2. /\ k \in LocRec /\ k.inwait = loc[t].inwait /\ k.save = loc[t].save
          /\ k.spin = loc[t].spin /\ k.then = loc[t].then
    BY <1>1, <1>2, <1>3, <1>5
  <2>3. Moves(t, l, q, k)
    BY <1>1, <1>2, <1>3, <1>5 DEF Moves, Unlock_cxq, Go, Set, this, Inv, Typing
  <2> HIDE DEF q, k
  <2>4. l \in Labels \ Inflation
    BY <1>1, <1>2, <1>3, <1>5, LabelSets DEF Control
  <2>5. pc'[t] = l /\ loc'[t] = k /\ held' = held /\ boxes' = boxes
    BY <2>3, <1>1, <1>2, <1>3, <1>5 DEF Moves, objectVars, Inv, Typing
  <2>6. Control(t)'
    BY <1>1, <1>2, <1>3, <1>5, <2>2, <2>5, ThreadsAssumption DEF Control
  <2>7. Depths(t)'
    BY <1>1, <1>2, <1>3, <1>5, <2>2, <2>5, ThreadsAssumption, DepthAssumption DEF Control,
       Depths, Trying, Extra, Has, InEnterI, Where, Releasing, Unboxed, Top, Real, Depth
  <2>8. /\ (Trying(t)' <=> Trying(t)) /\ (Extra(t)' <=> Extra(t))
          /\ (Has(t)' <=> Has(t)) /\ (InEnterI(t)' <=> InEnterI(t))
          /\ (Unboxed(t)' => ~om[mon[t]].box)
    BY <1>1, <1>2, <1>3, <1>5, <2>2, <2>5 DEF Control, Depths, Trying, Extra, Has, InEnterI,
       Where, Releasing, Unboxed, Top, Real, Depth
  <2>9. Quiet(t)
    BY <2>2, <2>5, <2>6, <2>7, <2>8 DEF Quiet
  <2> HIDE DEF l
  <2> QED
    BY <1>1, <2>1, <2>2, <2>3, <2>4, <2>8, <2>9, QuietStep
<1> QED
  BY <1>1, <1>2, <1>4, <1>5 DEF Unlock_cxq, this

-----------------------------------------------------------------------------
(* The queues: the invariant, and what each step does to the words, the lists *)
(* and the nodes *)

\* The words and the lists of the monitor of the object.
Owner == om[mark.monitor].owner

Succ == om[mark.monitor].succ

Resp == om[mark.monitor].Responsible

Cxq == om[mark.monitor].cxq

Entries == om[mark.monitor].EntryList

Waits == om[mark.monitor].WaitSet

WaitLock == om[mark.monitor].WaitSetLock

\* The object is inflated.
Heavy == mark.kind = "inflated"

\* The place of a thread, looked at through a spin as well.
Site(t) == IF pc[t] \in Spinning THEN loc[t].spin ELSE Where(t)

\* Where a thread in EnterI, and in ReenterI, is on cxq or on EntryList,
Linked == {"responsible", "responsible_cas", "contend", "park?", "park", "park_timed",
           "woken", "futile", "egress"}

Relinked == {"reenter", "repark", "rewoken", "reegress"}

\* and where a thread in wait() is on WaitSet, or was moved from there.
Asleep == {"wait_exited", "wait_check", "wait_notified", "wait_park", "wait_state",
           "wait_unlink"} \cup Exiting \cup Released

\* What TState may say of a thread, by its place.
States(t) ==
  IF Site(t) \in Linked \cup Relinked THEN {"CXQ", "ENTER"}
  ELSE IF Site(t) = "push" THEN {"CXQ"}
  ELSE IF Site(t) = "entered" THEN {"RUN", "CXQ"}
  ELSE IF Site(t) = "wait_add" THEN {"WAIT"}
  ELSE IF Site(t) = "wait_was" THEN {"RUN", "CXQ", "ENTER"}
  ELSE IF loc[t].inwait /\ Site(t) \in Asleep THEN {"WAIT", "CXQ", "ENTER"}
  ELSE {"RUN"}

\* The list that the ObjectWaiter of t says it is on,
TState(t) == node[t].TState

\* which is one of those of its place.
NodeInv == \A t \in Threads : TState(t) \in States(t)

\* A notifier between the two lists, with the waiter in its hands.
Hand(u, t) == pc[u] \in {"notify_set", "notify_link", "notifyAll_link"} /\ loc[u].w = t

\* The waiter is in the hands of some notifier.
Carried(t) == \E u \in Threads : Hand(u, t)

\* The notifier has the WaitSetLock, and the waiter has the state it was given.
HandInv ==
  \A u \in Threads :
    /\ pc[u] \in {"notify_set", "notify_link", "notifyAll_dequeue", "notifyAll_link"}
         => WaitLock = u
    /\ pc[u] \in {"notify_set", "notify_link"} =>
         loc[u].w \in Threads /\ TState(loc[u].w) = "ENTER"
    /\ pc[u] = "notifyAll_link" => loc[u].w \in Threads /\ TState(loc[u].w) = "WAIT"

\* The threads that belong on each list.
OnCxq(t) == TState(t) = "CXQ" /\ Site(t) \notin {"push", "entered"}

OnEntries(t) == TState(t) = "ENTER" /\ ~Carried(t)

OnWaits(t) == TState(t) = "WAIT" /\ Site(t) # "wait_add" /\ ~Carried(t)

\* The list s has the threads of S, each once.
ListOf(s, S) == IsInjective(s) /\ Members(s) = S

\* The lists of the monitor have the threads that belong on them.
ListInv ==
  Heavy => /\ ListOf(Cxq, {t \in Threads : OnCxq(t)})
           /\ ListOf(Entries, {t \in Threads : OnEntries(t)})
           /\ ListOf(Waits, {t \in Threads : OnWaits(t)})

\* What an exiting owner has found on EntryList stays there.
ExitInv ==
  \A t \in Threads :
    /\ pc[t] = "drain" => Entries = <<>>
    /\ pc[t] = "drained" => Entries # <<>>
    /\ pc[t] \in {"epilog", "epilog_drop"} => loc[t].w \in Members(Entries)

\* A thread named as the successor is on EntryList, or spins, or is about to clear it.
Naming == {"spin_succ", "spin_store", "spinning", "spin_clear", "clearing"}

\* The thread that _succ names.
SuccInv == Heavy => \A t \in Threads : Succ = t => OnEntries(t) \/ pc[t] \in Naming

\* The Responsible thread is in EnterI, and does not park without a timer.
RespInv == Heavy => \A t \in Threads : Resp = t => Site(t) \in Linked \cup {"entered"} /\ pc[t] # "park"

\* A monitor that is not the one of the object has nothing on its lists.
FreshInv ==
  \A m \in Monitors : mark # Inflated(m) =>
    /\ om[m].cxq = <<>> /\ om[m].EntryList = <<>> /\ om[m].WaitSet = <<>>
    /\ om[m].succ = None /\ om[m].Responsible = None

\* The monitor of the object, and one about to be, points back to an object.
ObjectInv ==
  /\ \A m \in Monitors : mark = Inflated(m) => om[m].object
  /\ \A t \in Threads : pc[t] \in {"inflate_neutral", "inflate_publish"} => om[mon[t]].object

\* A waiter in the hands of a notifier has not come to EnterI.
FarInv == \A u, w \in Threads : Hand(u, w) => Site(w) \notin Linked

\* The invariant of the queues, on top of Inv.
QInv == /\ NodeInv /\ HandInv /\ FarInv /\ ListInv /\ ExitInv /\ SuccInv /\ RespInv /\ FreshInv
        /\ ObjectInv

\* Nothing is written to a monitor that is not the one of the object.
Rest == /\ \A m \in Monitors : mark # Inflated(m) => om'[m] = om[m]
        /\ om'[mark.monitor].object = om[mark.monitor].object

\* A step of t inside the monitor of the object moves t only.
Step(t) ==
  /\ Heavy /\ Heavy' /\ mark' = mark /\ mon' = mon /\ Rest
  /\ \A u \in Threads \ {t} : pc'[u] = pc[u] /\ loc'[u] = loc[u]

\* No list changes,
SameLists == Cxq' = Cxq /\ Entries' = Entries /\ Waits' = Waits /\ WaitLock' = WaitLock

\* and no word.
SameWords == Owner' = Owner /\ Succ' = Succ /\ Resp' = Resp

\* The monitor of the object, of a thread inside it.
LEMMA AtThe ==
  ASSUME Inv, NEW t \in Threads, pc[t] \notin Outside
  PROVE  /\ mon[t] \in Monitors /\ mark = Inflated(mon[t]) /\ mark.monitor = mon[t] /\ Heavy
         /\ om[mon[t]] \in MonitorRec /\ loc[t] \in LocRec /\ Control(t)
         /\ om \in [Monitors -> MonitorRec] /\ pc \in [Threads -> Labels]
         /\ loc \in [Threads -> LocRec] /\ node \in [Threads -> NodeRec]
         /\ (\A m \in Monitors : mark # Inflated(m) => m # mon[t])
         /\ Owner = om[mon[t]].owner /\ Succ = om[mon[t]].succ /\ Resp = om[mon[t]].Responsible
         /\ Cxq = om[mon[t]].cxq /\ Entries = om[mon[t]].EntryList /\ Waits = om[mon[t]].WaitSet
         /\ WaitLock = om[mon[t]].WaitSetLock
BY AtMonitor, MarkFacts DEF Heavy, Inv, Typing, Owner, Succ, Resp, Cxq, Entries, Waits, WaitLock

\* No store.
LEMMA OmNone ==
  ASSUME om' = om, mark' = mark
  PROVE  Rest /\ SameWords /\ SameLists
BY DEF Rest, SameLists, SameWords, Owner, Succ, Resp, Cxq, Entries, Waits, WaitLock

\* A store into the owner word.
LEMMA OmOwner ==
  ASSUME Inv, NEW t \in Threads, pc[t] \notin Outside, mark' = mark, NEW x,
         om' = [om EXCEPT ![mon[t]] = [om[mon[t]] EXCEPT !.owner = x]]
  PROVE  /\ Rest
         /\ Owner' = x /\ Succ' = Succ /\ Resp' = Resp /\ SameLists
BY AtThe DEF Rest, SameLists, SameWords, Heavy, Owner, Succ, Resp, Cxq, Entries, Waits, WaitLock,
   MonitorRec

\* A store into _succ.
LEMMA OmSucc ==
  ASSUME Inv, NEW t \in Threads, pc[t] \notin Outside, mark' = mark, NEW x,
         om' = [om EXCEPT ![mon[t]] = [om[mon[t]] EXCEPT !.succ = x]]
  PROVE  /\ Rest
         /\ Owner' = Owner /\ Succ' = x /\ Resp' = Resp /\ SameLists
BY AtThe DEF Rest, SameLists, SameWords, Heavy, Owner, Succ, Resp, Cxq, Entries, Waits, WaitLock,
   MonitorRec

\* A store into _Responsible.
LEMMA OmResp ==
  ASSUME Inv, NEW t \in Threads, pc[t] \notin Outside, mark' = mark, NEW x,
         om' = [om EXCEPT ![mon[t]] = [om[mon[t]] EXCEPT !.Responsible = x]]
  PROVE  /\ Rest
         /\ Owner' = Owner /\ Succ' = Succ /\ Resp' = x /\ SameLists
BY AtThe DEF Rest, SameLists, SameWords, Heavy, Owner, Succ, Resp, Cxq, Entries, Waits, WaitLock,
   MonitorRec

\* A store into the owner word as a thread, with _recursions.
LEMMA OmBox ==
  ASSUME Inv, NEW t \in Threads, pc[t] \notin Outside, mark' = mark, NEW x, NEW y,
         om' = [om EXCEPT ![mon[t]] = [om[mon[t]] EXCEPT !.box = x, !.recursions = y]]
  PROVE  /\ Rest
         /\ SameWords /\ SameLists
BY AtThe DEF Rest, SameLists, SameWords, Heavy, Owner, Succ, Resp, Cxq, Entries, Waits, WaitLock,
   MonitorRec

\* A store into the owner word as a thread, and _Responsible.
LEMMA OmProlog ==
  ASSUME Inv, NEW t \in Threads, pc[t] \notin Outside, mark' = mark, NEW x, NEW y,
         om' = [om EXCEPT ![mon[t]] = [om[mon[t]] EXCEPT !.box = x, !.Responsible = y]]
  PROVE  /\ Rest
         /\ Owner' = Owner /\ Succ' = Succ /\ Resp' = y /\ SameLists
BY AtThe DEF Rest, SameLists, SameWords, Heavy, Owner, Succ, Resp, Cxq, Entries, Waits, WaitLock,
   MonitorRec

\* A store into _count and the owner word.
LEMMA OmCountOwner ==
  ASSUME Inv, NEW t \in Threads, pc[t] \notin Outside, mark' = mark, NEW x, NEW y,
         om' = [om EXCEPT ![mon[t]] = [om[mon[t]] EXCEPT !.count = x, !.owner = y]]
  PROVE  /\ Rest
         /\ Owner' = y /\ Succ' = Succ /\ Resp' = Resp /\ SameLists
BY AtThe DEF Rest, SameLists, SameWords, Heavy, Owner, Succ, Resp, Cxq, Entries, Waits, WaitLock,
   MonitorRec

\* A store into _count.
LEMMA OmCount ==
  ASSUME Inv, NEW t \in Threads, pc[t] \notin Outside, mark' = mark, NEW x,
         om' = [om EXCEPT ![mon[t]] = [om[mon[t]] EXCEPT !.count = x]]
  PROVE  /\ Rest
         /\ SameWords /\ SameLists
BY AtThe DEF Rest, SameLists, SameWords, Heavy, Owner, Succ, Resp, Cxq, Entries, Waits, WaitLock,
   MonitorRec

\* A store into _cxq.
LEMMA OmCxq ==
  ASSUME Inv, NEW t \in Threads, pc[t] \notin Outside, mark' = mark, NEW x,
         om' = [om EXCEPT ![mon[t]] = [om[mon[t]] EXCEPT !.cxq = x]]
  PROVE  /\ Rest
         /\ SameWords /\ Cxq' = x /\ Entries' = Entries /\ Waits' = Waits /\ WaitLock' = WaitLock
BY AtThe DEF Rest, SameLists, SameWords, Heavy, Owner, Succ, Resp, Cxq, Entries, Waits, WaitLock,
   MonitorRec

\* A store into _EntryList.
LEMMA OmEntries ==
  ASSUME Inv, NEW t \in Threads, pc[t] \notin Outside, mark' = mark, NEW x,
         om' = [om EXCEPT ![mon[t]] = [om[mon[t]] EXCEPT !.EntryList = x]]
  PROVE  /\ Rest
         /\ SameWords /\ Cxq' = Cxq /\ Entries' = x /\ Waits' = Waits /\ WaitLock' = WaitLock
BY AtThe DEF Rest, SameLists, SameWords, Heavy, Owner, Succ, Resp, Cxq, Entries, Waits, WaitLock,
   MonitorRec

\* A store into _WaitSet.
LEMMA OmWaits ==
  ASSUME Inv, NEW t \in Threads, pc[t] \notin Outside, mark' = mark, NEW x,
         om' = [om EXCEPT ![mon[t]] = [om[mon[t]] EXCEPT !.WaitSet = x]]
  PROVE  /\ Rest
         /\ SameWords /\ Cxq' = Cxq /\ Entries' = Entries /\ Waits' = x /\ WaitLock' = WaitLock
BY AtThe DEF Rest, SameLists, SameWords, Heavy, Owner, Succ, Resp, Cxq, Entries, Waits, WaitLock,
   MonitorRec

\* A store into the WaitSetLock.
LEMMA OmWaitLock ==
  ASSUME Inv, NEW t \in Threads, pc[t] \notin Outside, mark' = mark, NEW x,
         om' = [om EXCEPT ![mon[t]] = [om[mon[t]] EXCEPT !.WaitSetLock = x]]
  PROVE  /\ Rest
         /\ SameWords /\ Cxq' = Cxq /\ Entries' = Entries /\ Waits' = Waits /\ WaitLock' = x
BY AtThe DEF Rest, SameLists, SameWords, Heavy, Owner, Succ, Resp, Cxq, Entries, Waits, WaitLock,
   MonitorRec

\* A store into _EntryList and _cxq.
LEMMA OmDrain ==
  ASSUME Inv, NEW t \in Threads, pc[t] \notin Outside, mark' = mark, NEW x, NEW y,
         om' = [om EXCEPT ![mon[t]] = [om[mon[t]] EXCEPT !.EntryList = x, !.cxq = y]]
  PROVE  /\ Rest
         /\ SameWords /\ Cxq' = y /\ Entries' = x /\ Waits' = Waits /\ WaitLock' = WaitLock
BY AtThe DEF Rest, SameLists, SameWords, Heavy, Owner, Succ, Resp, Cxq, Entries, Waits, WaitLock,
   MonitorRec

\* A store into _WaitSet and its lock.
LEMMA OmDequeue ==
  ASSUME Inv, NEW t \in Threads, pc[t] \notin Outside, mark' = mark, NEW x, NEW y,
         om' = [om EXCEPT ![mon[t]] = [om[mon[t]] EXCEPT !.WaitSet = x, !.WaitSetLock = y]]
  PROVE  /\ Rest
         /\ SameWords /\ Cxq' = Cxq /\ Entries' = Entries /\ Waits' = x /\ WaitLock' = y
BY AtThe DEF Rest, SameLists, SameWords, Heavy, Owner, Succ, Resp, Cxq, Entries, Waits, WaitLock,
   MonitorRec

\* A store into _EntryList and the WaitSetLock.
LEMMA OmLinkEntries ==
  ASSUME Inv, NEW t \in Threads, pc[t] \notin Outside, mark' = mark, NEW x, NEW y,
         om' = [om EXCEPT ![mon[t]] = [om[mon[t]] EXCEPT !.EntryList = x, !.WaitSetLock = y]]
  PROVE  /\ Rest
         /\ SameWords /\ Cxq' = Cxq /\ Entries' = x /\ Waits' = Waits /\ WaitLock' = y
BY AtThe DEF Rest, SameLists, SameWords, Heavy, Owner, Succ, Resp, Cxq, Entries, Waits, WaitLock,
   MonitorRec

\* A store into _cxq and the WaitSetLock.
LEMMA OmLinkCxq ==
  ASSUME Inv, NEW t \in Threads, pc[t] \notin Outside, mark' = mark, NEW x, NEW y,
         om' = [om EXCEPT ![mon[t]] = [om[mon[t]] EXCEPT !.cxq = x, !.WaitSetLock = y]]
  PROVE  /\ Rest
         /\ SameWords /\ Cxq' = x /\ Entries' = Entries /\ Waits' = Waits /\ WaitLock' = y
BY AtThe DEF Rest, SameLists, SameWords, Heavy, Owner, Succ, Resp, Cxq, Entries, Waits, WaitLock,
   MonitorRec

\* A store into _recursions.
LEMMA OmRecursions ==
  ASSUME Inv, NEW t \in Threads, pc[t] \notin Outside, mark' = mark, NEW x,
         om' = [om EXCEPT ![mon[t]] = [om[mon[t]] EXCEPT !.recursions = x]]
  PROVE  /\ Rest
         /\ SameWords /\ SameLists
BY AtThe DEF Rest, SameLists, SameWords, Heavy, Owner, Succ, Resp, Cxq, Entries, Waits, WaitLock,
   MonitorRec

\* A store into what AddWaiter and the entry to wait() write.
LEMMA OmAdd ==
  ASSUME Inv, NEW t \in Threads, pc[t] \notin Outside, mark' = mark, NEW x, NEW y, NEW z, NEW v,
         om' = [om EXCEPT ![mon[t]] = [om[mon[t]] EXCEPT !.WaitSet = x, !.Responsible = y, !.waiters = z, !.recursions = v]]
  PROVE  /\ Rest
         /\ Owner' = Owner /\ Succ' = Succ /\ Resp' = y /\ Cxq' = Cxq /\ Entries' = Entries /\ Waits' = x /\ WaitLock' = WaitLock
BY AtThe DEF Rest, SameLists, SameWords, Heavy, Owner, Succ, Resp, Cxq, Entries, Waits, WaitLock,
   MonitorRec

\* A store into _recursions and _waiters.
LEMMA OmEnd ==
  ASSUME Inv, NEW t \in Threads, pc[t] \notin Outside, mark' = mark, NEW x, NEW y,
         om' = [om EXCEPT ![mon[t]] = [om[mon[t]] EXCEPT !.recursions = x, !.waiters = y]]
  PROVE  /\ Rest
         /\ SameWords /\ SameLists
BY AtThe DEF Rest, SameLists, SameWords, Heavy, Owner, Succ, Resp, Cxq, Entries, Waits, WaitLock,
   MonitorRec

\* A store into _Responsible and _count.
LEMMA OmEntered ==
  ASSUME Inv, NEW t \in Threads, pc[t] \notin Outside, mark' = mark, NEW x, NEW y,
         om' = [om EXCEPT ![mon[t]] = [om[mon[t]] EXCEPT !.Responsible = x, !.count = y]]
  PROVE  /\ Rest
         /\ Owner' = Owner /\ Succ' = Succ /\ Resp' = x /\ SameLists
BY AtThe DEF Rest, SameLists, SameWords, Heavy, Owner, Succ, Resp, Cxq, Entries, Waits, WaitLock,
   MonitorRec

\* Nodes other than the one of t.
NodesBut(t) == \A u \in Threads \ {t} : node'[u] = node[u]

\* A store into TState of w, into _notified of w, and the stores of a drain.
NodeIs(w, x) == \A u \in Threads : node'[u].notified = node[u].notified
                                   /\ node'[u].TState = (IF u = w THEN x ELSE node[u].TState)

NodeNotifies(w) == \A u \in Threads : node'[u].TState = node[u].TState
                                      /\ node'[u].notified = (IF u = w THEN 1 ELSE node[u].notified)

NodesDrained == \A u \in Threads : node'[u].notified = node[u].notified
                                   /\ node'[u].TState = (IF u \in Members(Cxq) THEN "ENTER" ELSE node[u].TState)

\* A node is set up.
LEMMA NodeFresh ==
  ASSUME Inv, NEW t \in Threads, NEW x, node' = [node EXCEPT ![t] = [TState |-> x, notified |-> 0]]
  PROVE  node'[t].TState = x /\ node'[t].notified = 0 /\ NodesBut(t)
BY DEF Inv, Typing, NodesBut

\* A store into TState.
LEMMA NodeStored ==
  ASSUME Inv, NEW w, NEW x, node' = [node EXCEPT ![w].TState = x]
  PROVE  NodeIs(w, x)
BY DEF Inv, Typing, NodeRec, NodeIs

\* A store into _notified.
LEMMA NodeNotified_ ==
  ASSUME Inv, NEW w, node' = [node EXCEPT ![w].notified = 1]
  PROVE  NodeNotifies(w)
BY DEF Inv, Typing, NodeRec, NodeNotifies

\* The stores of a drain.
LEMMA NodeDrain ==
  ASSUME Inv, node' = [u \in Threads |-> IF \E i \in DOMAIN Cxq : Cxq[i] = u
                                THEN [node[u] EXCEPT !.TState = "ENTER"]
                                ELSE node[u]]
  PROVE  NodesDrained
<1>1. \A r \in NodeRec : [r EXCEPT !.TState = "ENTER"].TState = "ENTER"
                         /\ [r EXCEPT !.TState = "ENTER"].notified = r.notified
  BY DEF NodeRec
<1> QED
  BY <1>1 DEF Inv, Typing, NodesDrained, Members

\* The first tries of TrySpin.
LEMMA Spin_tryDoes ==
  ASSUME Inv, NEW t \in Threads, Spin_try(t), UNCHANGED objectVars
  PROVE  /\ Step(t) /\ pc[t] = "spin" /\ SameLists /\ node' = node /\ event' = event
         /\ \/ /\ Owner = None /\ Owner' = t /\ Succ' = Succ /\ Resp' = Resp
               /\ pc'[t] = SpinGot(t) /\ loc'[t].spin = None /\ loc'[t].then = loc[t].then
               /\ loc'[t].w = loc[t].w /\ loc'[t].nxt = loc[t].nxt
               /\ loc'[t].inwait = loc[t].inwait
            \/ /\ Owner # None /\ pc'[t] # "spin_succ" /\ SameWords /\ pc'[t] = SpinFailed(t)
               /\ loc'[t].spin = None /\ loc'[t].then = loc[t].then /\ loc'[t].w = loc[t].w
               /\ loc'[t].nxt = loc[t].nxt /\ loc'[t].inwait = loc[t].inwait
            \/ /\ Owner # None /\ pc'[t] = "spin_succ" /\ SameWords /\ pc'[t] = "spin_succ"
               /\ loc'[t] = loc[t]
<1>1. pc[t] \notin Outside
  BY DEF Spin_try, Outside
<1>2. pc[t] = "spin"
  BY <1>1, AtThe DEF Spin_try, this
<1>3. mark' = mark /\ mon' = mon /\ Heavy /\ Heavy'
      /\ (\A u \in Threads \ {t} : pc'[u] = pc[u] /\ loc'[u] = loc[u])
  BY <1>1, AtThe DEF Spin_try, Go, Heavy, objectVars, TryLock, SpinEnd
<1>4. CASE Owner = None
  <2>1. om' = [om EXCEPT ![mon[t]] = [om[mon[t]] EXCEPT !.owner = t]]
    BY <1>1, <1>2, <1>4, AtThe, SpinTargets DEF Spinning, Spin_try, Go, Set, this, TryLock,
       SpinEnd
  <2>2. /\ Rest /\ Owner' = t /\ Succ' = Succ /\ Resp' = Resp /\ SameLists
    BY <1>1, <1>3, <2>1, OmOwner
  <2>3. /\ pc'[t] = SpinGot(t) /\ event' = event /\ node' = node
    BY <1>1, <1>2, <1>4, AtThe, SpinTargets DEF Spinning, Spin_try, Go, Set, this, TryLock,
       SpinEnd
  <2>4. /\ loc'[t].spin = None /\ loc'[t].then = loc[t].then /\ loc'[t].w = loc[t].w
        /\ loc'[t].nxt = loc[t].nxt /\ loc'[t].inwait = loc[t].inwait
    BY <1>1, <1>2, <1>4, AtThe, SpinTargets DEF Spinning, Spin_try, Go, Set, this, TryLock,
       SpinEnd, LocRec
  <2> QED
    BY <1>1, <1>2, <1>3, <1>4, <2>2, <2>3, <2>4 DEF Step
<1>5. CASE Owner # None /\ pc'[t] # "spin_succ"
  <2>1. /\ Rest /\ SameWords /\ SameLists
    BY <1>1, <1>2, <1>5, AtThe, <1>3, AtThe, OmNone DEF Spinning, Spin_try, Go, Set, this,
       TryLock, SpinEnd
  <2>2. /\ pc'[t] = SpinFailed(t) /\ event' = event /\ node' = node
    BY <1>1, <1>2, <1>5, AtThe, SpinTargets DEF Spinning, Spin_try, Go, Set, this, TryLock,
       SpinEnd
  <2>3. /\ loc'[t].spin = None /\ loc'[t].then = loc[t].then /\ loc'[t].w = loc[t].w
        /\ loc'[t].nxt = loc[t].nxt /\ loc'[t].inwait = loc[t].inwait
    BY <1>1, <1>2, <1>5, AtThe, SpinTargets DEF Spinning, Spin_try, Go, Set, this, TryLock,
       SpinEnd, LocRec
  <2> QED
    BY <1>1, <1>2, <1>3, <1>5, <2>1, <2>2, <2>3 DEF Step
<1>6. CASE Owner # None /\ pc'[t] = "spin_succ"
  <2>1. /\ Rest /\ SameWords /\ SameLists
    BY <1>1, <1>2, <1>6, AtThe, <1>3, AtThe, OmNone DEF Spinning, Spin_try, Go, Set, this,
       TryLock, SpinEnd
  <2>2. /\ pc'[t] = "spin_succ" /\ event' = event /\ loc'[t] = loc[t] /\ node' = node
    BY <1>1, <1>2, <1>6, AtThe, SpinTargets DEF Spinning, Spin_try, Go, Set, this, TryLock,
       SpinEnd
  <2> QED
    BY <1>1, <1>2, <1>3, <1>6, <2>1, <2>2 DEF Step
<1> QED
  BY <1>4, <1>5, <1>6, <1>1, <1>2, AtThe

\* TrySpin reads _succ.
LEMMA Spin_succDoes ==
  ASSUME Inv, NEW t \in Threads, Spin_succ(t), UNCHANGED objectVars
  PROVE  /\ Step(t) /\ pc[t] = "spin_succ" /\ SameWords /\ SameLists
         /\ pc'[t] = (IF Succ = None THEN "spin_store" ELSE "spinning") /\ loc'[t] = loc[t]
         /\ node' = node /\ event' = event
<1>1. pc[t] \notin Outside
  BY DEF Spin_succ, Outside
<1>2. pc[t] = "spin_succ"
  BY <1>1, AtThe DEF Spin_succ, this
<1>3. mark' = mark /\ mon' = mon /\ Heavy /\ Heavy'
      /\ (\A u \in Threads \ {t} : pc'[u] = pc[u] /\ loc'[u] = loc[u])
  BY <1>1, AtThe DEF Spin_succ, Go, Heavy, objectVars
<1>4. /\ Rest /\ SameWords /\ SameLists
  BY <1>1, <1>2, <1>3, AtThe, OmNone DEF Spin_succ, Go, Set, this
<1>5. /\ pc'[t] = (IF Succ = None THEN "spin_store" ELSE "spinning") /\ event' = event
      /\ loc'[t] = loc[t] /\ node' = node
  BY <1>1, <1>2, AtThe DEF Spin_succ, Go, Set, this
<1> QED
  BY <1>1, <1>2, <1>3, <1>4, <1>5 DEF Step

\* TrySpin stores _succ.
LEMMA Spin_storeDoes ==
  ASSUME Inv, NEW t \in Threads, Spin_store(t), UNCHANGED objectVars
  PROVE  /\ Step(t) /\ pc[t] = "spin_store" /\ Owner' = Owner /\ Succ' = t /\ Resp' = Resp
         /\ SameLists /\ pc'[t] = "spinning" /\ loc'[t] = loc[t] /\ node' = node
         /\ event' = event
<1>1. pc[t] \notin Outside
  BY DEF Spin_store, Outside
<1>2. pc[t] = "spin_store"
  BY <1>1, AtThe DEF Spin_store, this
<1>3. mark' = mark /\ mon' = mon /\ Heavy /\ Heavy'
      /\ (\A u \in Threads \ {t} : pc'[u] = pc[u] /\ loc'[u] = loc[u])
  BY <1>1, AtThe DEF Spin_store, Go, Heavy, objectVars
<1>4. /\ Rest /\ Owner' = Owner /\ Succ' = t /\ Resp' = Resp /\ SameLists
  BY <1>1, <1>2, <1>3, AtThe, OmSucc DEF Spin_store, Go, Set, this
<1>5. /\ pc'[t] = "spinning" /\ event' = event /\ loc'[t] = loc[t] /\ node' = node
  BY <1>1, <1>2, AtThe DEF Spin_store, Go, Set, this
<1> QED
  BY <1>1, <1>2, <1>3, <1>4, <1>5 DEF Step

\* TrySpin goes on.
LEMMA Spin_againDoes ==
  ASSUME Inv, NEW t \in Threads, Spin_again(t), UNCHANGED objectVars
  PROVE  /\ Step(t) /\ pc[t] = "spinning" /\ Owner # None /\ SameWords /\ SameLists
         /\ pc'[t] = "spin_succ" /\ loc'[t] = loc[t] /\ node' = node /\ event' = event
<1>1. pc[t] \notin Outside
  BY DEF Spin_again, Outside
<1>2. pc[t] = "spinning" /\ Owner # None
  BY <1>1, AtThe DEF Spin_again, this
<1>3. mark' = mark /\ mon' = mon /\ Heavy /\ Heavy'
      /\ (\A u \in Threads \ {t} : pc'[u] = pc[u] /\ loc'[u] = loc[u])
  BY <1>1, AtThe DEF Spin_again, Go, Heavy, objectVars
<1>4. /\ Rest /\ SameWords /\ SameLists
  BY <1>1, <1>2, <1>3, AtThe, OmNone DEF Spin_again, Go, Set, this
<1>5. /\ pc'[t] = "spin_succ" /\ event' = event /\ loc'[t] = loc[t] /\ node' = node
  BY <1>1, <1>2, AtThe DEF Spin_again, Go, Set, this
<1> QED
  BY <1>1, <1>2, <1>3, <1>4, <1>5 DEF Step

\* TrySpin takes the lock.
LEMMA Spin_gotDoes ==
  ASSUME Inv, NEW t \in Threads, Spin_got(t), UNCHANGED objectVars
  PROVE  /\ Step(t) /\ pc[t] = "spinning" /\ Owner = None /\ Owner' = t /\ Succ' = Succ
         /\ Resp' = Resp /\ SameLists /\ loc'[t].spin = None /\ loc'[t].w = loc[t].w
         /\ loc'[t].nxt = loc[t].nxt /\ loc'[t].inwait = loc[t].inwait /\ node' = node
         /\ event' = event
         /\ \/ /\ Succ = t /\ pc'[t] = "clearing" /\ loc'[t].then = SpinGot(t)
            \/ /\ Succ # t /\ pc'[t] = SpinGot(t) /\ loc'[t].then = loc[t].then
<1>1. pc[t] \notin Outside
  BY DEF Spin_got, Outside
<1>2. pc[t] = "spinning" /\ Owner = None
  BY <1>1, AtThe DEF Spin_got, this
<1>3. mark' = mark /\ mon' = mon /\ Heavy /\ Heavy'
      /\ (\A u \in Threads \ {t} : pc'[u] = pc[u] /\ loc'[u] = loc[u])
  BY <1>1, AtThe DEF Spin_got, Go, Heavy, objectVars, ClearSucc
<1>4. CASE Succ = t
  <2>1. om' = [om EXCEPT ![mon[t]] = [om[mon[t]] EXCEPT !.owner = t]]
    BY <1>1, <1>2, <1>4, AtThe DEF Spin_got, Go, Set, this, ClearSucc
  <2>2. /\ Rest /\ Owner' = t /\ Succ' = Succ /\ Resp' = Resp /\ SameLists
    BY <1>1, <1>3, <2>1, OmOwner
  <2>3. /\ pc'[t] = "clearing" /\ event' = event /\ node' = node
    BY <1>1, <1>2, <1>4, AtThe DEF Spin_got, Go, Set, this, ClearSucc
  <2>4. /\ loc'[t].spin = None /\ loc'[t].then = SpinGot(t) /\ loc'[t].w = loc[t].w
        /\ loc'[t].nxt = loc[t].nxt /\ loc'[t].inwait = loc[t].inwait
    BY <1>1, <1>2, <1>4, AtThe DEF Spin_got, Go, Set, this, ClearSucc, LocRec
  <2> QED
    BY <1>1, <1>2, <1>3, <1>4, <2>2, <2>3, <2>4 DEF Step
<1>5. CASE Succ # t
  <2>1. om' = [om EXCEPT ![mon[t]] = [om[mon[t]] EXCEPT !.owner = t]]
    BY <1>1, <1>2, <1>5, AtThe DEF Spin_got, Go, Set, this, ClearSucc
  <2>2. /\ Rest /\ Owner' = t /\ Succ' = Succ /\ Resp' = Resp /\ SameLists
    BY <1>1, <1>3, <2>1, OmOwner
  <2>3. /\ pc'[t] = SpinGot(t) /\ event' = event /\ node' = node
    BY <1>1, <1>2, <1>5, AtThe DEF Spin_got, Go, Set, this, ClearSucc
  <2>4. /\ loc'[t].spin = None /\ loc'[t].then = loc[t].then /\ loc'[t].w = loc[t].w
        /\ loc'[t].nxt = loc[t].nxt /\ loc'[t].inwait = loc[t].inwait
    BY <1>1, <1>2, <1>5, AtThe DEF Spin_got, Go, Set, this, ClearSucc, LocRec
  <2> QED
    BY <1>1, <1>2, <1>3, <1>5, <2>2, <2>3, <2>4 DEF Step
<1> QED
  BY <1>4, <1>5, <1>1, <1>2, AtThe

\* TrySpin gives up.
LEMMA Spin_abortDoes ==
  ASSUME Inv, NEW t \in Threads, Spin_abort(t), UNCHANGED objectVars
  PROVE  /\ Step(t) /\ pc[t] = "spinning" /\ SameWords /\ SameLists /\ node' = node
         /\ event' = event
         /\ \/ /\ Succ = t /\ pc'[t] = "spin_clear" /\ loc'[t] = loc[t]
            \/ /\ Succ # t /\ pc'[t] = SpinFailed(t) /\ loc'[t].spin = None
               /\ loc'[t].then = loc[t].then /\ loc'[t].w = loc[t].w
               /\ loc'[t].nxt = loc[t].nxt /\ loc'[t].inwait = loc[t].inwait
<1>1. pc[t] \notin Outside
  BY DEF Spin_abort, Outside
<1>2. pc[t] = "spinning"
  BY <1>1, AtThe DEF Spin_abort, this
<1>3. mark' = mark /\ mon' = mon /\ Heavy /\ Heavy'
      /\ (\A u \in Threads \ {t} : pc'[u] = pc[u] /\ loc'[u] = loc[u])
  BY <1>1, AtThe DEF Spin_abort, Go, Heavy, objectVars, SpinEnd
<1>4. CASE Succ = t
  <2>1. /\ Rest /\ SameWords /\ SameLists
    BY <1>1, <1>2, <1>4, <1>3, AtThe, OmNone DEF Spin_abort, Go, Set, this, SpinEnd
  <2>2. /\ pc'[t] = "spin_clear" /\ event' = event /\ loc'[t] = loc[t] /\ node' = node
    BY <1>1, <1>2, <1>4, AtThe DEF Spin_abort, Go, Set, this, SpinEnd
  <2> QED
    BY <1>1, <1>2, <1>3, <1>4, <2>1, <2>2 DEF Step
<1>5. CASE Succ # t
  <2>1. /\ Rest /\ SameWords /\ SameLists
    BY <1>1, <1>2, <1>5, <1>3, AtThe, OmNone DEF Spin_abort, Go, Set, this, SpinEnd
  <2>2. /\ pc'[t] = SpinFailed(t) /\ event' = event /\ node' = node
    BY <1>1, <1>2, <1>5, AtThe DEF Spin_abort, Go, Set, this, SpinEnd
  <2>3. /\ loc'[t].spin = None /\ loc'[t].then = loc[t].then /\ loc'[t].w = loc[t].w
        /\ loc'[t].nxt = loc[t].nxt /\ loc'[t].inwait = loc[t].inwait
    BY <1>1, <1>2, <1>5, AtThe DEF Spin_abort, Go, Set, this, SpinEnd, LocRec
  <2> QED
    BY <1>1, <1>2, <1>3, <1>5, <2>1, <2>2, <2>3 DEF Step
<1> QED
  BY <1>4, <1>5, <1>1, <1>2, AtThe

\* TrySpin clears _succ.
LEMMA Spin_clearDoes ==
  ASSUME Inv, NEW t \in Threads, Spin_clear(t), UNCHANGED objectVars
  PROVE  /\ Step(t) /\ pc[t] = "spin_clear" /\ Owner' = Owner /\ Succ' = None /\ Resp' = Resp
         /\ SameLists /\ pc'[t] = "spin_retry" /\ loc'[t] = loc[t] /\ node' = node
         /\ event' = event
<1>1. pc[t] \notin Outside
  BY DEF Spin_clear, Outside
<1>2. pc[t] = "spin_clear"
  BY <1>1, AtThe DEF Spin_clear, this
<1>3. mark' = mark /\ mon' = mon /\ Heavy /\ Heavy'
      /\ (\A u \in Threads \ {t} : pc'[u] = pc[u] /\ loc'[u] = loc[u])
  BY <1>1, AtThe DEF Spin_clear, Go, Heavy, objectVars
<1>4. /\ Rest /\ Owner' = Owner /\ Succ' = None /\ Resp' = Resp /\ SameLists
  BY <1>1, <1>2, <1>3, AtThe, OmSucc DEF Spin_clear, Go, Set, this
<1>5. /\ pc'[t] = "spin_retry" /\ event' = event /\ loc'[t] = loc[t] /\ node' = node
  BY <1>1, <1>2, AtThe DEF Spin_clear, Go, Set, this
<1> QED
  BY <1>1, <1>2, <1>3, <1>4, <1>5 DEF Step

\* The last try of TrySpin.
LEMMA Spin_retryDoes ==
  ASSUME Inv, NEW t \in Threads, Spin_retry(t), UNCHANGED objectVars
  PROVE  /\ Step(t) /\ pc[t] = "spin_retry" /\ SameLists /\ loc'[t].spin = None
         /\ loc'[t].then = loc[t].then /\ loc'[t].w = loc[t].w /\ loc'[t].nxt = loc[t].nxt
         /\ loc'[t].inwait = loc[t].inwait /\ node' = node /\ event' = event
         /\ \/ /\ Owner = None /\ Owner' = t /\ Succ' = Succ /\ Resp' = Resp
               /\ pc'[t] = SpinGot(t)
            \/ /\ Owner # None /\ SameWords /\ pc'[t] = SpinFailed(t)
<1>1. pc[t] \notin Outside
  BY DEF Spin_retry, Outside
<1>2. pc[t] = "spin_retry"
  BY <1>1, AtThe DEF Spin_retry, this
<1>3. mark' = mark /\ mon' = mon /\ Heavy /\ Heavy'
      /\ (\A u \in Threads \ {t} : pc'[u] = pc[u] /\ loc'[u] = loc[u])
  BY <1>1, AtThe DEF Spin_retry, Go, Heavy, objectVars, TryLock, SpinEnd
<1>4. CASE Owner = None
  <2>1. om' = [om EXCEPT ![mon[t]] = [om[mon[t]] EXCEPT !.owner = t]]
    BY <1>1, <1>2, <1>4, AtThe DEF Spin_retry, Go, Set, this, TryLock, SpinEnd
  <2>2. /\ Rest /\ Owner' = t /\ Succ' = Succ /\ Resp' = Resp /\ SameLists
    BY <1>1, <1>3, <2>1, OmOwner
  <2>3. /\ pc'[t] = SpinGot(t) /\ event' = event /\ node' = node
    BY <1>1, <1>2, <1>4, AtThe DEF Spin_retry, Go, Set, this, TryLock, SpinEnd
  <2>4. /\ loc'[t].spin = None /\ loc'[t].then = loc[t].then /\ loc'[t].w = loc[t].w
        /\ loc'[t].nxt = loc[t].nxt /\ loc'[t].inwait = loc[t].inwait
    BY <1>1, <1>2, <1>4, AtThe DEF Spin_retry, Go, Set, this, TryLock, SpinEnd, LocRec
  <2> QED
    BY <1>1, <1>2, <1>3, <1>4, <2>2, <2>3, <2>4 DEF Step
<1>5. CASE Owner # None
  <2>1. /\ Rest /\ SameWords /\ SameLists
    BY <1>1, <1>2, <1>5, <1>3, AtThe, OmNone DEF Spin_retry, Go, Set, this, TryLock, SpinEnd
  <2>2. /\ pc'[t] = SpinFailed(t) /\ event' = event /\ node' = node
    BY <1>1, <1>2, <1>5, AtThe DEF Spin_retry, Go, Set, this, TryLock, SpinEnd
  <2>3. /\ loc'[t].spin = None /\ loc'[t].then = loc[t].then /\ loc'[t].w = loc[t].w
        /\ loc'[t].nxt = loc[t].nxt /\ loc'[t].inwait = loc[t].inwait
    BY <1>1, <1>2, <1>5, AtThe DEF Spin_retry, Go, Set, this, TryLock, SpinEnd, LocRec
  <2> QED
    BY <1>1, <1>2, <1>3, <1>5, <2>1, <2>2, <2>3 DEF Step
<1> QED
  BY <1>4, <1>5, <1>1, <1>2, AtThe

\* _succ is cleared.
LEMMA Clear_storeDoes ==
  ASSUME Inv, NEW t \in Threads, Clear_store(t), UNCHANGED objectVars
  PROVE  /\ Step(t) /\ pc[t] = "clearing" /\ Owner' = Owner /\ Succ' = None /\ Resp' = Resp
         /\ SameLists /\ pc'[t] = loc[t].then /\ loc'[t].spin = loc[t].spin
         /\ loc'[t].then = None /\ loc'[t].w = loc[t].w /\ loc'[t].nxt = loc[t].nxt
         /\ loc'[t].inwait = loc[t].inwait /\ node' = node /\ event' = event
<1>1. pc[t] \notin Outside
  BY DEF Clear_store, Outside
<1>2. pc[t] = "clearing"
  BY <1>1, AtThe DEF Clear_store, this
<1>3. mark' = mark /\ mon' = mon /\ Heavy /\ Heavy'
      /\ (\A u \in Threads \ {t} : pc'[u] = pc[u] /\ loc'[u] = loc[u])
  BY <1>1, AtThe DEF Clear_store, Go, Heavy, objectVars
<1>4. /\ Rest /\ Owner' = Owner /\ Succ' = None /\ Resp' = Resp /\ SameLists
  BY <1>1, <1>2, <1>3, AtThe, OmSucc DEF Clear_store, Go, Set, this
<1>5. /\ pc'[t] = loc[t].then /\ event' = event /\ node' = node
  BY <1>1, <1>2, AtThe DEF Clear_store, Go, Set, this
<1>6. /\ loc'[t].spin = loc[t].spin /\ loc'[t].then = None /\ loc'[t].w = loc[t].w
      /\ loc'[t].nxt = loc[t].nxt /\ loc'[t].inwait = loc[t].inwait
  BY <1>1, <1>2, AtThe DEF Clear_store, Go, Set, this, LocRec
<1> QED
  BY <1>1, <1>2, <1>3, <1>4, <1>5, <1>6 DEF Step

\* enter() takes a free lock.
LEMMA Enter_casDoes ==
  ASSUME Inv, NEW t \in Threads, Enter_cas(t), UNCHANGED objectVars
  PROVE  /\ Step(t) /\ pc[t] = "enter" /\ Owner = None /\ Owner' = t /\ Succ' = Succ
         /\ Resp' = Resp /\ SameLists /\ pc'[t] = EnterReturn(t) /\ loc'[t] = loc[t]
         /\ node' = node /\ event' = event
<1>1. pc[t] \notin Outside
  BY DEF Enter_cas, Outside
<1>2. pc[t] = "enter" /\ Owner = None
  BY <1>1, AtThe DEF Enter_cas, this
<1>3. mark' = mark /\ mon' = mon /\ Heavy /\ Heavy'
      /\ (\A u \in Threads \ {t} : pc'[u] = pc[u] /\ loc'[u] = loc[u])
  BY <1>1, AtThe DEF Enter_cas, Go, Heavy, objectVars
<1>4. /\ Rest /\ Owner' = t /\ Succ' = Succ /\ Resp' = Resp /\ SameLists
  BY <1>1, <1>2, <1>3, AtThe, OmOwner DEF Enter_cas, Go, Set, this
<1>5. /\ pc'[t] = EnterReturn(t) /\ event' = event /\ loc'[t] = loc[t] /\ node' = node
  BY <1>1, <1>2, AtThe DEF Enter_cas, Go, Set, this
<1> QED
  BY <1>1, <1>2, <1>3, <1>4, <1>5 DEF Step

\* A recursive enter().
LEMMA Enter_recursiveDoes ==
  ASSUME Inv, NEW t \in Threads, Enter_recursive(t), UNCHANGED objectVars
  PROVE  /\ Step(t) /\ pc[t] = "enter" /\ Owner = t /\ SameWords /\ SameLists
         /\ pc'[t] = EnterReturn(t) /\ loc'[t] = loc[t] /\ node' = node /\ event' = event
<1>1. pc[t] \notin Outside
  BY DEF Enter_recursive, Outside
<1>2. pc[t] = "enter" /\ Owner = t
  BY <1>1, AtThe DEF Enter_recursive, this
<1>3. mark' = mark /\ mon' = mon /\ Heavy /\ Heavy'
      /\ (\A u \in Threads \ {t} : pc'[u] = pc[u] /\ loc'[u] = loc[u])
  BY <1>1, AtThe DEF Enter_recursive, Go, Heavy, objectVars
<1>4. /\ Rest /\ SameWords /\ SameLists
  <2>1. PICK x, y : om' = [om EXCEPT ![mon[t]] = [om[mon[t]] EXCEPT !.box = x, !.recursions = y]]
    BY DEF Enter_recursive, Set, this
  <2> QED BY <1>1, <1>3, <2>1, OmBox
<1>5. /\ pc'[t] = EnterReturn(t) /\ event' = event /\ loc'[t] = loc[t] /\ node' = node
  BY <1>1, <1>2, AtThe DEF Enter_recursive, Go, Set, this
<1> QED
  BY <1>1, <1>2, <1>3, <1>4, <1>5 DEF Step

\* enter() finds the lock held.
LEMMA Enter_contendedDoes ==
  ASSUME Inv, NEW t \in Threads, Enter_contended(t), UNCHANGED objectVars
  PROVE  /\ Step(t) /\ pc[t] = "enter" /\ Owner \notin {None, t} /\ SameWords /\ SameLists
         /\ pc'[t] = "spin" /\ loc'[t].spin = "enter" /\ loc'[t].then = loc[t].then
         /\ loc'[t].w = loc[t].w /\ loc'[t].nxt = loc[t].nxt /\ loc'[t].inwait = loc[t].inwait
         /\ node' = node /\ event' = event
<1>1. pc[t] \notin Outside
  BY DEF Enter_contended, Outside
<1>2. pc[t] = "enter" /\ Owner \notin {None, t}
  BY <1>1, AtThe DEF Enter_contended, this
<1>3. mark' = mark /\ mon' = mon /\ Heavy /\ Heavy'
      /\ (\A u \in Threads \ {t} : pc'[u] = pc[u] /\ loc'[u] = loc[u])
  BY <1>1, AtThe DEF Enter_contended, Go, Heavy, objectVars, Spin
<1>4. /\ Rest /\ SameWords /\ SameLists
  BY <1>1, <1>2, <1>3, AtThe, OmNone DEF Enter_contended, Go, Set, this, Spin
<1>5. /\ pc'[t] = "spin" /\ event' = event /\ node' = node
  BY <1>1, <1>2, AtThe DEF Enter_contended, Go, Set, this, Spin
<1>6. /\ loc'[t].spin = "enter" /\ loc'[t].then = loc[t].then /\ loc'[t].w = loc[t].w
      /\ loc'[t].nxt = loc[t].nxt /\ loc'[t].inwait = loc[t].inwait
  BY <1>1, <1>2, AtThe DEF Enter_contended, Go, Set, this, Spin, LocRec
<1> QED
  BY <1>1, <1>2, <1>3, <1>4, <1>5, <1>6 DEF Step

\* EnterI tries the lock.
LEMMA EnterIDoes ==
  ASSUME Inv, NEW t \in Threads, EnterI(t), UNCHANGED objectVars
  PROVE  /\ Step(t) /\ pc[t] = "EnterI" /\ SameLists /\ node' = node /\ event' = event
         /\ \/ /\ Owner = None /\ Owner' = t /\ Succ' = Succ /\ Resp' = Resp
               /\ pc'[t] = "entered" /\ loc'[t] = loc[t]
            \/ /\ Owner # None /\ SameWords /\ pc'[t] = "spin" /\ loc'[t].spin = "EnterI"
               /\ loc'[t].then = loc[t].then /\ loc'[t].w = loc[t].w
               /\ loc'[t].nxt = loc[t].nxt /\ loc'[t].inwait = loc[t].inwait
<1>1. pc[t] \notin Outside
  BY DEF EnterI, Outside
<1>2. pc[t] = "EnterI"
  BY <1>1, AtThe DEF EnterI, this
<1>3. mark' = mark /\ mon' = mon /\ Heavy /\ Heavy'
      /\ (\A u \in Threads \ {t} : pc'[u] = pc[u] /\ loc'[u] = loc[u])
  BY <1>1, AtThe DEF EnterI, Go, Heavy, objectVars, Spin
<1>4. CASE Owner = None
  <2>1. om' = [om EXCEPT ![mon[t]] = [om[mon[t]] EXCEPT !.count = om[mon[t]].count + 1, !.owner = t]]
    BY <1>1, <1>2, <1>4, AtThe DEF EnterI, Go, Set, this, Spin
  <2>2. /\ Rest /\ Owner' = t /\ Succ' = Succ /\ Resp' = Resp /\ SameLists
    BY <1>1, <1>3, <2>1, OmCountOwner
  <2>3. /\ pc'[t] = "entered" /\ event' = event /\ loc'[t] = loc[t] /\ node' = node
    BY <1>1, <1>2, <1>4, AtThe DEF EnterI, Go, Set, this, Spin
  <2> QED
    BY <1>1, <1>2, <1>3, <1>4, <2>2, <2>3 DEF Step
<1>5. CASE Owner # None
  <2>1. om' = [om EXCEPT ![mon[t]] = [om[mon[t]] EXCEPT !.count = om[mon[t]].count + 1]]
    BY <1>1, <1>2, <1>5, AtThe DEF EnterI, Go, Set, this, Spin
  <2>2. /\ Rest /\ SameWords /\ SameLists
    BY <1>1, <1>3, <2>1, OmCount
  <2>3. /\ pc'[t] = "spin" /\ event' = event /\ node' = node
    BY <1>1, <1>2, <1>5, AtThe DEF EnterI, Go, Set, this, Spin
  <2>4. /\ loc'[t].spin = "EnterI" /\ loc'[t].then = loc[t].then /\ loc'[t].w = loc[t].w
        /\ loc'[t].nxt = loc[t].nxt /\ loc'[t].inwait = loc[t].inwait
    BY <1>1, <1>2, <1>5, AtThe DEF EnterI, Go, Set, this, Spin, LocRec
  <2> QED
    BY <1>1, <1>2, <1>3, <1>5, <2>2, <2>3, <2>4 DEF Step
<1> QED
  BY <1>4, <1>5, <1>1, <1>2, AtThe

\* The node is set up.
LEMMA EnqueueDoes ==
  ASSUME Inv, NEW t \in Threads, Enqueue(t), UNCHANGED objectVars
  PROVE  /\ Step(t) /\ pc[t] = "enqueue" /\ SameWords /\ SameLists /\ pc'[t] = "push"
         /\ loc'[t].spin = loc[t].spin /\ loc'[t].then = loc[t].then /\ loc'[t].w = loc[t].w
         /\ loc'[t].nxt = First(Cxq) /\ loc'[t].inwait = loc[t].inwait
         /\ node'[t].TState = "CXQ" /\ node'[t].notified = 0 /\ NodesBut(t)
         /\ event' = [event EXCEPT ![t] = 0]
<1>1. pc[t] \notin Outside
  BY DEF Enqueue, Outside
<1>2. pc[t] = "enqueue"
  BY <1>1, AtThe DEF Enqueue, this
<1>3. mark' = mark /\ mon' = mon /\ Heavy /\ Heavy'
      /\ (\A u \in Threads \ {t} : pc'[u] = pc[u] /\ loc'[u] = loc[u])
  BY <1>1, AtThe DEF Enqueue, Go, Heavy, objectVars
<1>4. /\ Rest /\ SameWords /\ SameLists
  BY <1>1, <1>2, <1>3, AtThe, OmNone DEF Enqueue, Go, Set, this
<1>5. /\ pc'[t] = "push" /\ event' = [event EXCEPT ![t] = 0]
  BY <1>1, <1>2, AtThe DEF Enqueue, Go, Set, this
<1>6. /\ loc'[t].spin = loc[t].spin /\ loc'[t].then = loc[t].then /\ loc'[t].w = loc[t].w
      /\ loc'[t].nxt = First(Cxq) /\ loc'[t].inwait = loc[t].inwait
  BY <1>1, <1>2, AtThe DEF Enqueue, Go, Set, this, LocRec
<1>7. /\ node'[t].TState = "CXQ" /\ node'[t].notified = 0 /\ NodesBut(t)
  BY <1>1, <1>2, AtThe, NodeFresh DEF Enqueue, Go, Set, this
<1> QED
  BY <1>1, <1>2, <1>3, <1>4, <1>5, <1>6, <1>7 DEF Step

\* The node is pushed on cxq.
LEMMA PushDoes ==
  ASSUME Inv, NEW t \in Threads, Push(t), UNCHANGED objectVars
  PROVE  /\ Step(t) /\ pc[t] = "push" /\ First(Cxq) = loc[t].nxt /\ SameWords
         /\ Cxq' = <<t>> \o Cxq /\ Entries' = Entries /\ Waits' = Waits
         /\ WaitLock' = WaitLock
         /\ pc'[t] = (IF loc[t].nxt = None THEN "responsible" ELSE "contend")
         /\ loc'[t] = loc[t] /\ node' = node /\ event' = event
<1>1. pc[t] \notin Outside
  BY DEF Push, Outside
<1>2. pc[t] = "push" /\ First(Cxq) = loc[t].nxt
  BY <1>1, AtThe DEF Push, this
<1>3. mark' = mark /\ mon' = mon /\ Heavy /\ Heavy'
      /\ (\A u \in Threads \ {t} : pc'[u] = pc[u] /\ loc'[u] = loc[u])
  BY <1>1, AtThe DEF Push, Go, Heavy, objectVars
<1>4. /\ Rest /\ SameWords /\ Cxq' = <<t>> \o Cxq /\ Entries' = Entries /\ Waits' = Waits
      /\ WaitLock' = WaitLock
  BY <1>1, <1>2, <1>3, AtThe, OmCxq DEF Push, Go, Set, this
<1>5. /\ pc'[t] = (IF loc[t].nxt = None THEN "responsible" ELSE "contend") /\ event' = event
      /\ loc'[t] = loc[t] /\ node' = node
  BY <1>1, <1>2, AtThe DEF Push, Go, Set, this
<1> QED
  BY <1>1, <1>2, <1>3, <1>4, <1>5 DEF Step

\* The push fails.
LEMMA Push_failedDoes ==
  ASSUME Inv, NEW t \in Threads, Push_failed(t), UNCHANGED objectVars
  PROVE  /\ Step(t) /\ pc[t] = "push" /\ SameLists /\ loc'[t].spin = loc[t].spin
         /\ loc'[t].then = loc[t].then /\ loc'[t].w = loc[t].w /\ loc'[t].nxt = First(Cxq)
         /\ loc'[t].inwait = loc[t].inwait /\ node' = node /\ event' = event
         /\ \/ /\ Owner = None /\ Owner' = t /\ Succ' = Succ /\ Resp' = Resp
               /\ pc'[t] = "entered"
            \/ /\ Owner # None /\ SameWords /\ pc'[t] = "push"
<1>1. pc[t] \notin Outside
  BY DEF Push_failed, Outside
<1>2. pc[t] = "push"
  BY <1>1, AtThe DEF Push_failed, this
<1>3. mark' = mark /\ mon' = mon /\ Heavy /\ Heavy'
      /\ (\A u \in Threads \ {t} : pc'[u] = pc[u] /\ loc'[u] = loc[u])
  BY <1>1, AtThe DEF Push_failed, Go, Heavy, objectVars, TryLock
<1>4. CASE Owner = None
  <2>1. om' = [om EXCEPT ![mon[t]] = [om[mon[t]] EXCEPT !.owner = t]]
    BY <1>1, <1>2, <1>4, AtThe DEF Push_failed, Go, Set, this, TryLock
  <2>2. /\ Rest /\ Owner' = t /\ Succ' = Succ /\ Resp' = Resp /\ SameLists
    BY <1>1, <1>3, <2>1, OmOwner
  <2>3. /\ pc'[t] = "entered" /\ event' = event /\ node' = node
    BY <1>1, <1>2, <1>4, AtThe DEF Push_failed, Go, Set, this, TryLock
  <2>4. /\ loc'[t].spin = loc[t].spin /\ loc'[t].then = loc[t].then /\ loc'[t].w = loc[t].w
        /\ loc'[t].nxt = First(Cxq) /\ loc'[t].inwait = loc[t].inwait
    BY <1>1, <1>2, <1>4, AtThe DEF Push_failed, Go, Set, this, TryLock, LocRec
  <2> QED
    BY <1>1, <1>2, <1>3, <1>4, <2>2, <2>3, <2>4 DEF Step
<1>5. CASE Owner # None
  <2>1. /\ Rest /\ SameWords /\ SameLists
    BY <1>1, <1>2, <1>5, <1>3, AtThe, OmNone DEF Push_failed, Go, Set, this, TryLock
  <2>2. /\ pc'[t] = "push" /\ event' = event /\ node' = node
    BY <1>1, <1>2, <1>5, AtThe DEF Push_failed, Go, Set, this, TryLock
  <2>3. /\ loc'[t].spin = loc[t].spin /\ loc'[t].then = loc[t].then /\ loc'[t].w = loc[t].w
        /\ loc'[t].nxt = First(Cxq) /\ loc'[t].inwait = loc[t].inwait
    BY <1>1, <1>2, <1>5, AtThe DEF Push_failed, Go, Set, this, TryLock, LocRec
  <2> QED
    BY <1>1, <1>2, <1>3, <1>5, <2>1, <2>2, <2>3 DEF Step
<1> QED
  BY <1>4, <1>5, <1>1, <1>2, AtThe

\* EntryList is read.
LEMMA Responsible_readDoes ==
  ASSUME Inv, NEW t \in Threads, Responsible_read(t), UNCHANGED objectVars
  PROVE  /\ Step(t) /\ pc[t] = "responsible" /\ SameWords /\ SameLists
         /\ pc'[t] = (IF Entries = <<>> THEN "responsible_cas" ELSE "contend")
         /\ loc'[t] = loc[t] /\ node' = node /\ event' = event
<1>1. pc[t] \notin Outside
  BY DEF Responsible_read, Outside
<1>2. pc[t] = "responsible"
  BY <1>1, AtThe DEF Responsible_read, this
<1>3. mark' = mark /\ mon' = mon /\ Heavy /\ Heavy'
      /\ (\A u \in Threads \ {t} : pc'[u] = pc[u] /\ loc'[u] = loc[u])
  BY <1>1, AtThe DEF Responsible_read, Go, Heavy, objectVars
<1>4. /\ Rest /\ SameWords /\ SameLists
  BY <1>1, <1>2, <1>3, AtThe, OmNone DEF Responsible_read, Go, Set, this
<1>5. /\ pc'[t] = (IF Entries = <<>> THEN "responsible_cas" ELSE "contend") /\ event' = event
      /\ loc'[t] = loc[t] /\ node' = node
  BY <1>1, <1>2, AtThe DEF Responsible_read, Go, Set, this
<1> QED
  BY <1>1, <1>2, <1>3, <1>4, <1>5 DEF Step

\* The role of the Responsible is taken.
LEMMA Responsible_casDoes ==
  ASSUME Inv, NEW t \in Threads, Responsible_cas(t), UNCHANGED objectVars
  PROVE  /\ Step(t) /\ pc[t] = "responsible_cas" /\ Owner' = Owner /\ Succ' = Succ
         /\ Resp' = (IF Resp = None THEN t ELSE Resp) /\ SameLists /\ pc'[t] = "contend"
         /\ loc'[t] = loc[t] /\ node' = node /\ event' = event
<1>1. pc[t] \notin Outside
  BY DEF Responsible_cas, Outside
<1>2. pc[t] = "responsible_cas"
  BY <1>1, AtThe DEF Responsible_cas, this
<1>3. mark' = mark /\ mon' = mon /\ Heavy /\ Heavy'
      /\ (\A u \in Threads \ {t} : pc'[u] = pc[u] /\ loc'[u] = loc[u])
  BY <1>1, AtThe DEF Responsible_cas, Go, Heavy, objectVars
<1>4. om' = [om EXCEPT ![mon[t]] = [om[mon[t]] EXCEPT !.Responsible = IF Resp = None THEN t ELSE Resp]]
  BY <1>1, <1>2, AtThe DEF Responsible_cas, Go, Set, this
<1>5. /\ Rest /\ Owner' = Owner /\ Succ' = Succ /\ Resp' = (IF Resp = None THEN t ELSE Resp)
      /\ SameLists
  BY <1>1, <1>3, <1>4, OmResp
<1>6. /\ pc'[t] = "contend" /\ event' = event /\ loc'[t] = loc[t] /\ node' = node
  BY <1>1, <1>2, AtThe DEF Responsible_cas, Go, Set, this
<1> QED
  BY <1>1, <1>2, <1>3, <1>5, <1>6 DEF Step

\* A queued thread tries the lock.
LEMMA ContendDoes ==
  ASSUME Inv, NEW t \in Threads, Contend(t), UNCHANGED objectVars
  PROVE  /\ Step(t) /\ pc[t] = "contend" /\ SameLists /\ loc'[t] = loc[t] /\ node' = node
         /\ event' = event
         /\ \/ /\ Owner = None /\ Owner' = t /\ Succ' = Succ /\ Resp' = Resp
               /\ pc'[t] = "egress"
            \/ /\ Owner # None /\ SameWords /\ pc'[t] = "park?"
<1>1. pc[t] \notin Outside
  BY DEF Contend, Outside
<1>2. pc[t] = "contend"
  BY <1>1, AtThe DEF Contend, this
<1>3. mark' = mark /\ mon' = mon /\ Heavy /\ Heavy'
      /\ (\A u \in Threads \ {t} : pc'[u] = pc[u] /\ loc'[u] = loc[u])
  BY <1>1, AtThe DEF Contend, Go, Heavy, objectVars, TryLock
<1>4. CASE Owner = None
  <2>1. om' = [om EXCEPT ![mon[t]] = [om[mon[t]] EXCEPT !.owner = t]]
    BY <1>1, <1>2, <1>4, AtThe DEF Contend, Go, Set, this, TryLock
  <2>2. /\ Rest /\ Owner' = t /\ Succ' = Succ /\ Resp' = Resp /\ SameLists
    BY <1>1, <1>3, <2>1, OmOwner
  <2>3. /\ pc'[t] = "egress" /\ event' = event /\ loc'[t] = loc[t] /\ node' = node
    BY <1>1, <1>2, <1>4, AtThe DEF Contend, Go, Set, this, TryLock
  <2> QED
    BY <1>1, <1>2, <1>3, <1>4, <2>2, <2>3 DEF Step
<1>5. CASE Owner # None
  <2>1. /\ Rest /\ SameWords /\ SameLists
    BY <1>1, <1>2, <1>5, <1>3, AtThe, OmNone DEF Contend, Go, Set, this, TryLock
  <2>2. /\ pc'[t] = "park?" /\ event' = event /\ loc'[t] = loc[t] /\ node' = node
    BY <1>1, <1>2, <1>5, AtThe DEF Contend, Go, Set, this, TryLock
  <2> QED
    BY <1>1, <1>2, <1>3, <1>5, <2>1, <2>2 DEF Step
<1> QED
  BY <1>4, <1>5, <1>1, <1>2, AtThe

\* The park is timed or not.
LEMMA Park_kindDoes ==
  ASSUME Inv, NEW t \in Threads, Park_kind(t), UNCHANGED objectVars
  PROVE  /\ Step(t) /\ pc[t] = "park?" /\ SameWords /\ SameLists
         /\ pc'[t] = (IF Resp = t THEN "park_timed" ELSE "park") /\ loc'[t] = loc[t]
         /\ node' = node /\ event' = event
<1>1. pc[t] \notin Outside
  BY DEF Park_kind, Outside
<1>2. pc[t] = "park?"
  BY <1>1, AtThe DEF Park_kind, this
<1>3. mark' = mark /\ mon' = mon /\ Heavy /\ Heavy'
      /\ (\A u \in Threads \ {t} : pc'[u] = pc[u] /\ loc'[u] = loc[u])
  BY <1>1, AtThe DEF Park_kind, Go, Heavy, objectVars
<1>4. /\ Rest /\ SameWords /\ SameLists
  BY <1>1, <1>2, <1>3, AtThe, OmNone DEF Park_kind, Go, Set, this
<1>5. /\ pc'[t] = (IF Resp = t THEN "park_timed" ELSE "park") /\ event' = event
      /\ loc'[t] = loc[t] /\ node' = node
  BY <1>1, <1>2, AtThe DEF Park_kind, Go, Set, this
<1> QED
  BY <1>1, <1>2, <1>3, <1>4, <1>5 DEF Step

\* A thread parks and is woken.
LEMMA ParkDoes ==
  ASSUME Inv, NEW t \in Threads, Park(t), UNCHANGED objectVars
  PROVE  /\ Step(t) /\ pc[t] \in {"park", "park_timed"} /\ SameWords /\ SameLists
         /\ pc'[t] = "woken" /\ loc'[t] = loc[t] /\ node' = node
         /\ event' = [event EXCEPT ![t] = 0]
<1>1. pc[t] \notin Outside
  BY DEF Park, Outside
<1>2. pc[t] \in {"park", "park_timed"}
  BY <1>1, AtThe DEF Park, this
<1>3. mark' = mark /\ mon' = mon /\ Heavy /\ Heavy'
      /\ (\A u \in Threads \ {t} : pc'[u] = pc[u] /\ loc'[u] = loc[u])
  BY <1>1, AtThe DEF Park, Go, Heavy, objectVars
<1>4. /\ Rest /\ SameWords /\ SameLists
  BY <1>1, <1>2, <1>3, AtThe, OmNone DEF Park, Go, Set, this
<1>5. /\ pc'[t] = "woken" /\ event' = [event EXCEPT ![t] = 0] /\ loc'[t] = loc[t]
      /\ node' = node
  BY <1>1, <1>2, AtThe DEF Park, Go, Set, this
<1> QED
  BY <1>1, <1>2, <1>3, <1>4, <1>5 DEF Step

\* A thread woken tries the lock.
LEMMA WokenDoes ==
  ASSUME Inv, NEW t \in Threads, Woken(t), UNCHANGED objectVars
  PROVE  /\ Step(t) /\ pc[t] = "woken" /\ SameLists /\ node' = node /\ event' = event
         /\ \/ /\ Owner = None /\ Owner' = t /\ Succ' = Succ /\ Resp' = Resp
               /\ pc'[t] = "egress" /\ loc'[t] = loc[t]
            \/ /\ Owner # None /\ SameWords /\ pc'[t] = "spin" /\ loc'[t].spin = "woken"
               /\ loc'[t].then = loc[t].then /\ loc'[t].w = loc[t].w
               /\ loc'[t].nxt = loc[t].nxt /\ loc'[t].inwait = loc[t].inwait
<1>1. pc[t] \notin Outside
  BY DEF Woken, Outside
<1>2. pc[t] = "woken"
  BY <1>1, AtThe DEF Woken, this
<1>3. mark' = mark /\ mon' = mon /\ Heavy /\ Heavy'
      /\ (\A u \in Threads \ {t} : pc'[u] = pc[u] /\ loc'[u] = loc[u])
  BY <1>1, AtThe DEF Woken, Go, Heavy, objectVars, Spin
<1>4. CASE Owner = None
  <2>1. om' = [om EXCEPT ![mon[t]] = [om[mon[t]] EXCEPT !.owner = t]]
    BY <1>1, <1>2, <1>4, AtThe DEF Woken, Go, Set, this, Spin
  <2>2. /\ Rest /\ Owner' = t /\ Succ' = Succ /\ Resp' = Resp /\ SameLists
    BY <1>1, <1>3, <2>1, OmOwner
  <2>3. /\ pc'[t] = "egress" /\ event' = event /\ loc'[t] = loc[t] /\ node' = node
    BY <1>1, <1>2, <1>4, AtThe DEF Woken, Go, Set, this, Spin
  <2> QED
    BY <1>1, <1>2, <1>3, <1>4, <2>2, <2>3 DEF Step
<1>5. CASE Owner # None
  <2>1. /\ Rest /\ SameWords /\ SameLists
    BY <1>1, <1>2, <1>5, <1>3, AtThe, OmNone DEF Woken, Go, Set, this, Spin
  <2>2. /\ pc'[t] = "spin" /\ event' = event /\ node' = node
    BY <1>1, <1>2, <1>5, AtThe DEF Woken, Go, Set, this, Spin
  <2>3. /\ loc'[t].spin = "woken" /\ loc'[t].then = loc[t].then /\ loc'[t].w = loc[t].w
        /\ loc'[t].nxt = loc[t].nxt /\ loc'[t].inwait = loc[t].inwait
    BY <1>1, <1>2, <1>5, AtThe DEF Woken, Go, Set, this, Spin, LocRec
  <2> QED
    BY <1>1, <1>2, <1>3, <1>5, <2>1, <2>2, <2>3 DEF Step
<1> QED
  BY <1>4, <1>5, <1>1, <1>2, AtThe

\* A futile wakeup.
LEMMA FutileDoes ==
  ASSUME Inv, NEW t \in Threads, Futile(t), UNCHANGED objectVars
  PROVE  /\ Step(t) /\ pc[t] = "futile" /\ SameWords /\ SameLists /\ loc'[t].spin = None
         /\ loc'[t].w = loc[t].w /\ loc'[t].nxt = loc[t].nxt /\ loc'[t].inwait = loc[t].inwait
         /\ node' = node /\ event' = event
         /\ \/ /\ Succ = t /\ pc'[t] = "clearing" /\ loc'[t].then = "contend"
            \/ /\ Succ # t /\ pc'[t] = "contend" /\ loc'[t].then = loc[t].then
<1>1. pc[t] \notin Outside
  BY DEF Futile, Outside
<1>2. pc[t] = "futile"
  BY <1>1, AtThe DEF Futile, this
<1>3. mark' = mark /\ mon' = mon /\ Heavy /\ Heavy'
      /\ (\A u \in Threads \ {t} : pc'[u] = pc[u] /\ loc'[u] = loc[u])
  BY <1>1, AtThe DEF Futile, Go, Heavy, objectVars, ClearSucc
<1>4. CASE Succ = t
  <2>1. /\ Rest /\ SameWords /\ SameLists
    BY <1>1, <1>2, <1>4, <1>3, AtThe, OmNone DEF Futile, Go, Set, this, ClearSucc
  <2>2. /\ pc'[t] = "clearing" /\ event' = event /\ node' = node
    BY <1>1, <1>2, <1>4, AtThe DEF Futile, Go, Set, this, ClearSucc
  <2>3. /\ loc'[t].spin = None /\ loc'[t].then = "contend" /\ loc'[t].w = loc[t].w
        /\ loc'[t].nxt = loc[t].nxt /\ loc'[t].inwait = loc[t].inwait
    BY <1>1, <1>2, <1>4, AtThe DEF Futile, Go, Set, this, ClearSucc, LocRec
  <2> QED
    BY <1>1, <1>2, <1>3, <1>4, <2>1, <2>2, <2>3 DEF Step
<1>5. CASE Succ # t
  <2>1. /\ Rest /\ SameWords /\ SameLists
    BY <1>1, <1>2, <1>5, <1>3, AtThe, OmNone DEF Futile, Go, Set, this, ClearSucc
  <2>2. /\ pc'[t] = "contend" /\ event' = event /\ node' = node
    BY <1>1, <1>2, <1>5, AtThe DEF Futile, Go, Set, this, ClearSucc
  <2>3. /\ loc'[t].spin = None /\ loc'[t].then = loc[t].then /\ loc'[t].w = loc[t].w
        /\ loc'[t].nxt = loc[t].nxt /\ loc'[t].inwait = loc[t].inwait
    BY <1>1, <1>2, <1>5, AtThe DEF Futile, Go, Set, this, ClearSucc, LocRec
  <2> QED
    BY <1>1, <1>2, <1>3, <1>5, <2>1, <2>2, <2>3 DEF Step
<1> QED
  BY <1>4, <1>5, <1>1, <1>2, AtThe

\* UnlinkAfterAcquire of EnterI.
LEMMA EgressDoes ==
  ASSUME Inv, NEW t \in Threads, Egress(t), UNCHANGED objectVars
  PROVE  /\ Step(t) /\ pc[t] = "egress" /\ SameWords /\ Waits' = Waits /\ WaitLock' = WaitLock
         /\ loc'[t].spin = None /\ loc'[t].w = loc[t].w /\ loc'[t].nxt = loc[t].nxt
         /\ loc'[t].inwait = loc[t].inwait /\ NodeIs(t, "RUN") /\ event' = event
         /\ \/ /\ node[t].TState = "ENTER" /\ Succ = t /\ Cxq' = Cxq
               /\ Entries' = Without(Entries, t) /\ pc'[t] = "clearing"
               /\ loc'[t].then = "entered"
            \/ /\ node[t].TState = "ENTER" /\ Succ # t /\ Cxq' = Cxq
               /\ Entries' = Without(Entries, t) /\ pc'[t] = "entered"
               /\ loc'[t].then = loc[t].then
            \/ /\ node[t].TState # "ENTER" /\ Succ = t /\ Cxq' = Without(Cxq, t)
               /\ Entries' = Entries /\ pc'[t] = "clearing" /\ loc'[t].then = "entered"
            \/ /\ node[t].TState # "ENTER" /\ Succ # t /\ Cxq' = Without(Cxq, t)
               /\ Entries' = Entries /\ pc'[t] = "entered" /\ loc'[t].then = loc[t].then
<1>1. pc[t] \notin Outside
  BY DEF Egress, Outside
<1>2. pc[t] = "egress"
  BY <1>1, AtThe DEF Egress, this
<1>3. mark' = mark /\ mon' = mon /\ Heavy /\ Heavy'
      /\ (\A u \in Threads \ {t} : pc'[u] = pc[u] /\ loc'[u] = loc[u])
  BY <1>1, AtThe DEF Egress, Go, Heavy, objectVars, ClearSucc, Unlinked
<1>4. CASE node[t].TState = "ENTER" /\ Succ = t
  <2>1. om' = [om EXCEPT ![mon[t]] = [om[mon[t]] EXCEPT !.EntryList = Without(Entries, t)]]
    BY <1>1, <1>2, <1>4, AtThe DEF Egress, Go, Set, this, ClearSucc, Unlinked
  <2>2. /\ Rest /\ SameWords /\ Cxq' = Cxq /\ Entries' = Without(Entries, t) /\ Waits' = Waits
        /\ WaitLock' = WaitLock
    BY <1>1, <1>3, <2>1, OmEntries
  <2>3. /\ pc'[t] = "clearing" /\ event' = event
    BY <1>1, <1>2, <1>4, AtThe DEF Egress, Go, Set, this, ClearSucc, Unlinked
  <2>4. /\ loc'[t].spin = None /\ loc'[t].then = "entered" /\ loc'[t].w = loc[t].w
        /\ loc'[t].nxt = loc[t].nxt /\ loc'[t].inwait = loc[t].inwait
    BY <1>1, <1>2, <1>4, AtThe DEF Egress, Go, Set, this, ClearSucc, Unlinked, LocRec
  <2>5. /\ NodeIs(t, "RUN")
    BY <1>1, <1>2, <1>4, AtThe, NodeStored DEF Egress, Go, Set, this, ClearSucc, Unlinked
  <2> QED
    BY <1>1, <1>2, <1>3, <1>4, <2>2, <2>3, <2>4, <2>5 DEF Step
<1>5. CASE node[t].TState = "ENTER" /\ Succ # t
  <2>1. om' = [om EXCEPT ![mon[t]] = [om[mon[t]] EXCEPT !.EntryList = Without(Entries, t)]]
    BY <1>1, <1>2, <1>5, AtThe DEF Egress, Go, Set, this, ClearSucc, Unlinked
  <2>2. /\ Rest /\ SameWords /\ Cxq' = Cxq /\ Entries' = Without(Entries, t) /\ Waits' = Waits
        /\ WaitLock' = WaitLock
    BY <1>1, <1>3, <2>1, OmEntries
  <2>3. /\ pc'[t] = "entered" /\ event' = event
    BY <1>1, <1>2, <1>5, AtThe DEF Egress, Go, Set, this, ClearSucc, Unlinked
  <2>4. /\ loc'[t].spin = None /\ loc'[t].then = loc[t].then /\ loc'[t].w = loc[t].w
        /\ loc'[t].nxt = loc[t].nxt /\ loc'[t].inwait = loc[t].inwait
    BY <1>1, <1>2, <1>5, AtThe DEF Egress, Go, Set, this, ClearSucc, Unlinked, LocRec
  <2>5. /\ NodeIs(t, "RUN")
    BY <1>1, <1>2, <1>5, AtThe, NodeStored DEF Egress, Go, Set, this, ClearSucc, Unlinked
  <2> QED
    BY <1>1, <1>2, <1>3, <1>5, <2>2, <2>3, <2>4, <2>5 DEF Step
<1>6. CASE node[t].TState # "ENTER" /\ Succ = t
  <2>1. om' = [om EXCEPT ![mon[t]] = [om[mon[t]] EXCEPT !.cxq = Without(Cxq, t)]]
    BY <1>1, <1>2, <1>6, AtThe DEF Egress, Go, Set, this, ClearSucc, Unlinked
  <2>2. /\ Rest /\ SameWords /\ Cxq' = Without(Cxq, t) /\ Entries' = Entries /\ Waits' = Waits
        /\ WaitLock' = WaitLock
    BY <1>1, <1>3, <2>1, OmCxq
  <2>3. /\ pc'[t] = "clearing" /\ event' = event
    BY <1>1, <1>2, <1>6, AtThe DEF Egress, Go, Set, this, ClearSucc, Unlinked
  <2>4. /\ loc'[t].spin = None /\ loc'[t].then = "entered" /\ loc'[t].w = loc[t].w
        /\ loc'[t].nxt = loc[t].nxt /\ loc'[t].inwait = loc[t].inwait
    BY <1>1, <1>2, <1>6, AtThe DEF Egress, Go, Set, this, ClearSucc, Unlinked, LocRec
  <2>5. /\ NodeIs(t, "RUN")
    BY <1>1, <1>2, <1>6, AtThe, NodeStored DEF Egress, Go, Set, this, ClearSucc, Unlinked
  <2> QED
    BY <1>1, <1>2, <1>3, <1>6, <2>2, <2>3, <2>4, <2>5 DEF Step
<1>7. CASE node[t].TState # "ENTER" /\ Succ # t
  <2>1. om' = [om EXCEPT ![mon[t]] = [om[mon[t]] EXCEPT !.cxq = Without(Cxq, t)]]
    BY <1>1, <1>2, <1>7, AtThe DEF Egress, Go, Set, this, ClearSucc, Unlinked
  <2>2. /\ Rest /\ SameWords /\ Cxq' = Without(Cxq, t) /\ Entries' = Entries /\ Waits' = Waits
        /\ WaitLock' = WaitLock
    BY <1>1, <1>3, <2>1, OmCxq
  <2>3. /\ pc'[t] = "entered" /\ event' = event
    BY <1>1, <1>2, <1>7, AtThe DEF Egress, Go, Set, this, ClearSucc, Unlinked
  <2>4. /\ loc'[t].spin = None /\ loc'[t].then = loc[t].then /\ loc'[t].w = loc[t].w
        /\ loc'[t].nxt = loc[t].nxt /\ loc'[t].inwait = loc[t].inwait
    BY <1>1, <1>2, <1>7, AtThe DEF Egress, Go, Set, this, ClearSucc, Unlinked, LocRec
  <2>5. /\ NodeIs(t, "RUN")
    BY <1>1, <1>2, <1>7, AtThe, NodeStored DEF Egress, Go, Set, this, ClearSucc, Unlinked
  <2> QED
    BY <1>1, <1>2, <1>3, <1>7, <2>2, <2>3, <2>4, <2>5 DEF Step
<1> QED
  BY <1>4, <1>5, <1>6, <1>7, <1>1, <1>2, AtThe

\* The end of EnterI.
LEMMA EnteredDoes ==
  ASSUME Inv, NEW t \in Threads, Entered(t), UNCHANGED objectVars
  PROVE  /\ Step(t) /\ pc[t] = "entered" /\ Owner' = Owner /\ Succ' = Succ
         /\ Resp' = (IF Resp = t THEN None ELSE Resp) /\ SameLists /\ pc'[t] = EnterReturn(t)
         /\ loc'[t].spin = loc[t].spin /\ loc'[t].then = loc[t].then /\ loc'[t].w = loc[t].w
         /\ loc'[t].nxt = None /\ loc'[t].inwait = loc[t].inwait /\ NodeIs(t, "RUN")
         /\ event' = event
<1>1. pc[t] \notin Outside
  BY DEF Entered, Outside
<1>2. pc[t] = "entered"
  BY <1>1, AtThe DEF Entered, this
<1>3. mark' = mark /\ mon' = mon /\ Heavy /\ Heavy'
      /\ (\A u \in Threads \ {t} : pc'[u] = pc[u] /\ loc'[u] = loc[u])
  BY <1>1, AtThe DEF Entered, Go, Heavy, objectVars
<1>4. om' = [om EXCEPT ![mon[t]] = [om[mon[t]] EXCEPT !.Responsible = IF Resp = t THEN None ELSE Resp, !.count = om[mon[t]].count - 1]]
  BY <1>1, <1>2, AtThe DEF Entered, Go, Set, this
<1>5. /\ Rest /\ Owner' = Owner /\ Succ' = Succ /\ Resp' = (IF Resp = t THEN None ELSE Resp)
      /\ SameLists
  BY <1>1, <1>3, <1>4, OmEntered
<1>6. /\ pc'[t] = EnterReturn(t) /\ event' = event
  BY <1>1, <1>2, AtThe DEF Entered, Go, Set, this
<1>7. /\ loc'[t].spin = loc[t].spin /\ loc'[t].then = loc[t].then /\ loc'[t].w = loc[t].w
      /\ loc'[t].nxt = None /\ loc'[t].inwait = loc[t].inwait
  BY <1>1, <1>2, AtThe DEF Entered, Go, Set, this, LocRec
<1>8. /\ NodeIs(t, "RUN")
  BY <1>1, <1>2, AtThe, NodeStored DEF Entered, Go, Set, this
<1> QED
  BY <1>1, <1>2, <1>3, <1>5, <1>6, <1>7, <1>8 DEF Step

\* exit() up to its loop.
LEMMA Exit_prologDoes ==
  ASSUME Inv, NEW t \in Threads, Exit_prolog(t), UNCHANGED objectVars
  PROVE  /\ Step(t) /\ pc[t] = "exit" /\ Owner = t /\ SameLists /\ loc'[t] = loc[t]
         /\ node' = node /\ event' = event
         /\ \/ /\ om[mon[t]].recursions # 0 /\ SameWords /\ pc'[t] = ExitReturn(t)
            \/ /\ om[mon[t]].recursions = 0 /\ Owner' = Owner /\ Succ' = Succ /\ Resp' = None
               /\ pc'[t] = "drop"
<1>1. pc[t] \notin Outside
  BY DEF Exit_prolog, Outside
<1>2. pc[t] = "exit" /\ Owner = t
  BY <1>1, AtThe DEF Exit_prolog, this
<1>3. mark' = mark /\ mon' = mon /\ Heavy /\ Heavy'
      /\ (\A u \in Threads \ {t} : pc'[u] = pc[u] /\ loc'[u] = loc[u])
  BY <1>1, AtThe DEF Exit_prolog, Go, Heavy, objectVars
<1>4. CASE om[mon[t]].recursions # 0
  <2>1. om' = [om EXCEPT ![mon[t]] = [om[mon[t]] EXCEPT !.recursions = om[mon[t]].recursions - 1]]
    BY <1>1, <1>2, <1>4, AtThe DEF Exit_prolog, Go, Set, this
  <2>2. /\ Rest /\ SameWords /\ SameLists
    BY <1>1, <1>3, <2>1, OmRecursions
  <2>3. /\ pc'[t] = ExitReturn(t) /\ event' = event /\ loc'[t] = loc[t] /\ node' = node
    BY <1>1, <1>2, <1>4, AtThe DEF Exit_prolog, Go, Set, this
  <2> QED
    BY <1>1, <1>2, <1>3, <1>4, <2>2, <2>3 DEF Step
<1>5. CASE om[mon[t]].recursions = 0
  <2>1. om' = [om EXCEPT ![mon[t]] = [om[mon[t]] EXCEPT !.box = FALSE, !.Responsible = None]]
    BY <1>1, <1>2, <1>5, AtThe DEF Exit_prolog, Go, Set, this
  <2>2. /\ Rest /\ Owner' = Owner /\ Succ' = Succ /\ Resp' = None /\ SameLists
    BY <1>1, <1>3, <2>1, OmProlog
  <2>3. /\ pc'[t] = "drop" /\ event' = event /\ loc'[t] = loc[t] /\ node' = node
    BY <1>1, <1>2, <1>5, AtThe DEF Exit_prolog, Go, Set, this
  <2> QED
    BY <1>1, <1>2, <1>3, <1>5, <2>2, <2>3 DEF Step
<1> QED
  BY <1>4, <1>5, <1>1, <1>2, AtThe

\* exit() drops the lock.
LEMMA DropDoes ==
  ASSUME Inv, NEW t \in Threads, Drop(t), UNCHANGED objectVars
  PROVE  /\ Step(t) /\ pc[t] = "drop" /\ Owner' = None /\ Succ' = Succ /\ Resp' = Resp
         /\ SameLists /\ pc'[t] = "exit_EntryList" /\ loc'[t] = loc[t] /\ node' = node
         /\ event' = event
<1>1. pc[t] \notin Outside
  BY DEF Drop, Outside
<1>2. pc[t] = "drop"
  BY <1>1, AtThe DEF Drop, this
<1>3. mark' = mark /\ mon' = mon /\ Heavy /\ Heavy'
      /\ (\A u \in Threads \ {t} : pc'[u] = pc[u] /\ loc'[u] = loc[u])
  BY <1>1, AtThe DEF Drop, Go, Heavy, objectVars
<1>4. /\ Rest /\ Owner' = None /\ Succ' = Succ /\ Resp' = Resp /\ SameLists
  BY <1>1, <1>2, <1>3, AtThe, OmOwner DEF Drop, Go, Set, this
<1>5. /\ pc'[t] = "exit_EntryList" /\ event' = event /\ loc'[t] = loc[t] /\ node' = node
  BY <1>1, <1>2, AtThe DEF Drop, Go, Set, this
<1> QED
  BY <1>1, <1>2, <1>3, <1>4, <1>5 DEF Step

\* exit() reads EntryList.
LEMMA Exit_EntryListDoes ==
  ASSUME Inv, NEW t \in Threads, Exit_EntryList(t), UNCHANGED objectVars
  PROVE  /\ Step(t) /\ pc[t] = "exit_EntryList" /\ SameWords /\ SameLists
         /\ pc'[t] = (IF Entries = <<>> THEN "exit_cxq" ELSE "exit_succ") /\ loc'[t] = loc[t]
         /\ node' = node /\ event' = event
<1>1. pc[t] \notin Outside
  BY DEF Exit_EntryList, Outside
<1>2. pc[t] = "exit_EntryList"
  BY <1>1, AtThe DEF Exit_EntryList, this
<1>3. mark' = mark /\ mon' = mon /\ Heavy /\ Heavy'
      /\ (\A u \in Threads \ {t} : pc'[u] = pc[u] /\ loc'[u] = loc[u])
  BY <1>1, AtThe DEF Exit_EntryList, Go, Heavy, objectVars
<1>4. /\ Rest /\ SameWords /\ SameLists
  BY <1>1, <1>2, <1>3, AtThe, OmNone DEF Exit_EntryList, Go, Set, this
<1>5. /\ pc'[t] = (IF Entries = <<>> THEN "exit_cxq" ELSE "exit_succ") /\ event' = event
      /\ loc'[t] = loc[t] /\ node' = node
  BY <1>1, <1>2, AtThe DEF Exit_EntryList, Go, Set, this
<1> QED
  BY <1>1, <1>2, <1>3, <1>4, <1>5 DEF Step

\* exit() reads cxq.
LEMMA Exit_cxqDoes ==
  ASSUME Inv, NEW t \in Threads, Exit_cxq(t), UNCHANGED objectVars
  PROVE  /\ Step(t) /\ pc[t] = "exit_cxq" /\ SameWords /\ SameLists
         /\ pc'[t] = (IF Cxq = <<>> THEN ExitReturn(t) ELSE "exit_succ") /\ loc'[t] = loc[t]
         /\ node' = node /\ event' = event
<1>1. pc[t] \notin Outside
  BY DEF Exit_cxq, Outside
<1>2. pc[t] = "exit_cxq"
  BY <1>1, AtThe DEF Exit_cxq, this
<1>3. mark' = mark /\ mon' = mon /\ Heavy /\ Heavy'
      /\ (\A u \in Threads \ {t} : pc'[u] = pc[u] /\ loc'[u] = loc[u])
  BY <1>1, AtThe DEF Exit_cxq, Go, Heavy, objectVars
<1>4. /\ Rest /\ SameWords /\ SameLists
  BY <1>1, <1>2, <1>3, AtThe, OmNone DEF Exit_cxq, Go, Set, this
<1>5. /\ pc'[t] = (IF Cxq = <<>> THEN ExitReturn(t) ELSE "exit_succ") /\ event' = event
      /\ loc'[t] = loc[t] /\ node' = node
  BY <1>1, <1>2, AtThe DEF Exit_cxq, Go, Set, this
<1> QED
  BY <1>1, <1>2, <1>3, <1>4, <1>5 DEF Step

\* exit() reads _succ.
LEMMA Exit_succDoes ==
  ASSUME Inv, NEW t \in Threads, Exit_succ(t), UNCHANGED objectVars
  PROVE  /\ Step(t) /\ pc[t] = "exit_succ" /\ SameWords /\ SameLists
         /\ pc'[t] = (IF Succ # None THEN ExitReturn(t) ELSE "exit_cas") /\ loc'[t] = loc[t]
         /\ node' = node /\ event' = event
<1>1. pc[t] \notin Outside
  BY DEF Exit_succ, Outside
<1>2. pc[t] = "exit_succ"
  BY <1>1, AtThe DEF Exit_succ, this
<1>3. mark' = mark /\ mon' = mon /\ Heavy /\ Heavy'
      /\ (\A u \in Threads \ {t} : pc'[u] = pc[u] /\ loc'[u] = loc[u])
  BY <1>1, AtThe DEF Exit_succ, Go, Heavy, objectVars
<1>4. /\ Rest /\ SameWords /\ SameLists
  BY <1>1, <1>2, <1>3, AtThe, OmNone DEF Exit_succ, Go, Set, this
<1>5. /\ pc'[t] = (IF Succ # None THEN ExitReturn(t) ELSE "exit_cas") /\ event' = event
      /\ loc'[t] = loc[t] /\ node' = node
  BY <1>1, <1>2, AtThe DEF Exit_succ, Go, Set, this
<1> QED
  BY <1>1, <1>2, <1>3, <1>4, <1>5 DEF Step

\* exit() takes the lock again.
LEMMA Exit_casDoes ==
  ASSUME Inv, NEW t \in Threads, Exit_cas(t), UNCHANGED objectVars
  PROVE  /\ Step(t) /\ pc[t] = "exit_cas" /\ SameLists /\ node' = node /\ event' = event
         /\ \/ /\ Owner = None /\ Entries # <<>> /\ Owner' = t /\ Succ' = Succ /\ Resp' = Resp
               /\ pc'[t] = "epilog" /\ loc'[t].spin = loc[t].spin
               /\ loc'[t].then = loc[t].then /\ loc'[t].w = First(Entries)
               /\ loc'[t].nxt = loc[t].nxt /\ loc'[t].inwait = loc[t].inwait
            \/ /\ Owner = None /\ Entries = <<>> /\ Owner' = t /\ Succ' = Succ /\ Resp' = Resp
               /\ pc'[t] = "drain" /\ loc'[t] = loc[t]
            \/ /\ Owner # None /\ SameWords /\ pc'[t] = ExitReturn(t) /\ loc'[t] = loc[t]
<1>1. pc[t] \notin Outside
  BY DEF Exit_cas, Outside
<1>2. pc[t] = "exit_cas"
  BY <1>1, AtThe DEF Exit_cas, this
<1>3. mark' = mark /\ mon' = mon /\ Heavy /\ Heavy'
      /\ (\A u \in Threads \ {t} : pc'[u] = pc[u] /\ loc'[u] = loc[u])
  BY <1>1, AtThe DEF Exit_cas, Go, Heavy, objectVars, TryLock
<1>4. CASE Owner = None /\ Entries # <<>>
  <2>1. om' = [om EXCEPT ![mon[t]] = [om[mon[t]] EXCEPT !.owner = t]]
    BY <1>1, <1>2, <1>4, AtThe DEF Exit_cas, Go, Set, this, TryLock
  <2>2. /\ Rest /\ Owner' = t /\ Succ' = Succ /\ Resp' = Resp /\ SameLists
    BY <1>1, <1>3, <2>1, OmOwner
  <2>3. /\ pc'[t] = "epilog" /\ event' = event /\ node' = node
    BY <1>1, <1>2, <1>4, AtThe DEF Exit_cas, Go, Set, this, TryLock
  <2>4. /\ loc'[t].spin = loc[t].spin /\ loc'[t].then = loc[t].then
        /\ loc'[t].w = First(Entries) /\ loc'[t].nxt = loc[t].nxt
        /\ loc'[t].inwait = loc[t].inwait
    BY <1>1, <1>2, <1>4, AtThe DEF Exit_cas, Go, Set, this, TryLock, LocRec
  <2> QED
    BY <1>1, <1>2, <1>3, <1>4, <2>2, <2>3, <2>4 DEF Step
<1>5. CASE Owner = None /\ Entries = <<>>
  <2>1. om' = [om EXCEPT ![mon[t]] = [om[mon[t]] EXCEPT !.owner = t]]
    BY <1>1, <1>2, <1>5, AtThe DEF Exit_cas, Go, Set, this, TryLock
  <2>2. /\ Rest /\ Owner' = t /\ Succ' = Succ /\ Resp' = Resp /\ SameLists
    BY <1>1, <1>3, <2>1, OmOwner
  <2>3. /\ pc'[t] = "drain" /\ event' = event /\ loc'[t] = loc[t] /\ node' = node
    BY <1>1, <1>2, <1>5, AtThe DEF Exit_cas, Go, Set, this, TryLock
  <2> QED
    BY <1>1, <1>2, <1>3, <1>5, <2>2, <2>3 DEF Step
<1>6. CASE Owner # None
  <2>1. /\ Rest /\ SameWords /\ SameLists
    BY <1>1, <1>2, <1>6, <1>3, AtThe, OmNone DEF Exit_cas, Go, Set, this, TryLock
  <2>2. /\ pc'[t] = ExitReturn(t) /\ event' = event /\ loc'[t] = loc[t] /\ node' = node
    BY <1>1, <1>2, <1>6, AtThe DEF Exit_cas, Go, Set, this, TryLock
  <2> QED
    BY <1>1, <1>2, <1>3, <1>6, <2>1, <2>2 DEF Step
<1> QED
  BY <1>4, <1>5, <1>6, <1>1, <1>2, AtThe

\* cxq is drained.
LEMMA DrainDoes ==
  ASSUME Inv, NEW t \in Threads, Drain(t), UNCHANGED objectVars
  PROVE  /\ Step(t) /\ pc[t] = "drain" /\ Cxq # <<>> /\ SameWords /\ Cxq' = <<>>
         /\ Entries' = Cxq /\ Waits' = Waits /\ WaitLock' = WaitLock /\ pc'[t] = "drained"
         /\ loc'[t] = loc[t] /\ NodesDrained /\ event' = event
<1>1. pc[t] \notin Outside
  BY DEF Drain, Outside
<1>2. pc[t] = "drain" /\ Cxq # <<>>
  BY <1>1, AtThe DEF Drain, this
<1>3. mark' = mark /\ mon' = mon /\ Heavy /\ Heavy'
      /\ (\A u \in Threads \ {t} : pc'[u] = pc[u] /\ loc'[u] = loc[u])
  BY <1>1, AtThe DEF Drain, Go, Heavy, objectVars
<1>4. /\ Rest /\ SameWords /\ Cxq' = <<>> /\ Entries' = Cxq /\ Waits' = Waits
      /\ WaitLock' = WaitLock
  <2>1. om' = [om EXCEPT ![mon[t]] = [om[mon[t]] EXCEPT !.EntryList = om[mon[t]].cxq, !.cxq = <<>>]]
    BY DEF Drain, Set, this
  <2>2. Cxq = om[mon[t]].cxq BY <1>1, AtThe
  <2> QED BY <1>1, <1>3, <2>1, <2>2, OmDrain
<1>5. /\ pc'[t] = "drained" /\ event' = event /\ loc'[t] = loc[t]
  BY <1>1, <1>2, AtThe DEF Drain, Go, Set, this
<1>6. /\ NodesDrained
  BY <1>1, <1>2, AtThe, NodeDrain DEF Drain, Go, Set, this
<1> QED
  BY <1>1, <1>2, <1>3, <1>4, <1>5, <1>6 DEF Step

\* cxq is empty.
LEMMA Drain_noneDoes ==
  ASSUME Inv, NEW t \in Threads, Drain_none(t), UNCHANGED objectVars
  PROVE  /\ Step(t) /\ pc[t] = "drain" /\ Cxq = <<>> /\ SameWords /\ SameLists
         /\ pc'[t] = "drop" /\ loc'[t] = loc[t] /\ node' = node /\ event' = event
<1>1. pc[t] \notin Outside
  BY DEF Drain_none, Outside
<1>2. pc[t] = "drain" /\ Cxq = <<>>
  BY <1>1, AtThe DEF Drain_none, this
<1>3. mark' = mark /\ mon' = mon /\ Heavy /\ Heavy'
      /\ (\A u \in Threads \ {t} : pc'[u] = pc[u] /\ loc'[u] = loc[u])
  BY <1>1, AtThe DEF Drain_none, Go, Heavy, objectVars
<1>4. /\ Rest /\ SameWords /\ SameLists
  BY <1>1, <1>2, <1>3, AtThe, OmNone DEF Drain_none, Go, Set, this
<1>5. /\ pc'[t] = "drop" /\ event' = event /\ loc'[t] = loc[t] /\ node' = node
  BY <1>1, <1>2, AtThe DEF Drain_none, Go, Set, this
<1> QED
  BY <1>1, <1>2, <1>3, <1>4, <1>5 DEF Step

\* exit() chooses a successor.
LEMMA DrainedDoes ==
  ASSUME Inv, NEW t \in Threads, Drained(t), UNCHANGED objectVars
  PROVE  /\ Step(t) /\ pc[t] = "drained" /\ SameWords /\ SameLists /\ node' = node
         /\ event' = event
         /\ \/ /\ Succ # None /\ pc'[t] = "drop" /\ loc'[t] = loc[t]
            \/ /\ Succ = None /\ pc'[t] = "epilog" /\ loc'[t].spin = loc[t].spin
               /\ loc'[t].then = loc[t].then /\ loc'[t].w = First(Entries)
               /\ loc'[t].nxt = loc[t].nxt /\ loc'[t].inwait = loc[t].inwait
<1>1. pc[t] \notin Outside
  BY DEF Drained, Outside
<1>2. pc[t] = "drained"
  BY <1>1, AtThe DEF Drained, this
<1>3. mark' = mark /\ mon' = mon /\ Heavy /\ Heavy'
      /\ (\A u \in Threads \ {t} : pc'[u] = pc[u] /\ loc'[u] = loc[u])
  BY <1>1, AtThe DEF Drained, Go, Heavy, objectVars
<1>4. CASE Succ # None
  <2>1. /\ Rest /\ SameWords /\ SameLists
    BY <1>1, <1>2, <1>4, <1>3, AtThe, OmNone DEF Drained, Go, Set, this
  <2>2. /\ pc'[t] = "drop" /\ event' = event /\ loc'[t] = loc[t] /\ node' = node
    BY <1>1, <1>2, <1>4, AtThe DEF Drained, Go, Set, this
  <2> QED
    BY <1>1, <1>2, <1>3, <1>4, <2>1, <2>2 DEF Step
<1>5. CASE Succ = None
  <2>1. /\ Rest /\ SameWords /\ SameLists
    BY <1>1, <1>2, <1>5, <1>3, AtThe, OmNone DEF Drained, Go, Set, this
  <2>2. /\ pc'[t] = "epilog" /\ event' = event /\ node' = node
    BY <1>1, <1>2, <1>5, AtThe DEF Drained, Go, Set, this
  <2>3. /\ loc'[t].spin = loc[t].spin /\ loc'[t].then = loc[t].then
        /\ loc'[t].w = First(Entries) /\ loc'[t].nxt = loc[t].nxt
        /\ loc'[t].inwait = loc[t].inwait
    BY <1>1, <1>2, <1>5, AtThe DEF Drained, Go, Set, this, LocRec
  <2> QED
    BY <1>1, <1>2, <1>3, <1>5, <2>1, <2>2, <2>3 DEF Step
<1> QED
  BY <1>4, <1>5, <1>1, <1>2, AtThe

\* ExitEpilog names the successor.
LEMMA Epilog_succDoes ==
  ASSUME Inv, NEW t \in Threads, Epilog_succ(t), UNCHANGED objectVars
  PROVE  /\ Step(t) /\ pc[t] = "epilog" /\ Owner' = Owner /\ Succ' = loc[t].w /\ Resp' = Resp
         /\ SameLists /\ pc'[t] = "epilog_drop" /\ loc'[t] = loc[t] /\ node' = node
         /\ event' = event
<1>1. pc[t] \notin Outside
  BY DEF Epilog_succ, Outside
<1>2. pc[t] = "epilog"
  BY <1>1, AtThe DEF Epilog_succ, this
<1>3. mark' = mark /\ mon' = mon /\ Heavy /\ Heavy'
      /\ (\A u \in Threads \ {t} : pc'[u] = pc[u] /\ loc'[u] = loc[u])
  BY <1>1, AtThe DEF Epilog_succ, Go, Heavy, objectVars
<1>4. /\ Rest /\ Owner' = Owner /\ Succ' = loc[t].w /\ Resp' = Resp /\ SameLists
  BY <1>1, <1>2, <1>3, AtThe, OmSucc DEF Epilog_succ, Go, Set, this
<1>5. /\ pc'[t] = "epilog_drop" /\ event' = event /\ loc'[t] = loc[t] /\ node' = node
  BY <1>1, <1>2, AtThe DEF Epilog_succ, Go, Set, this
<1> QED
  BY <1>1, <1>2, <1>3, <1>4, <1>5 DEF Step

\* ExitEpilog drops the lock.
LEMMA Epilog_dropDoes ==
  ASSUME Inv, NEW t \in Threads, Epilog_drop(t), UNCHANGED objectVars
  PROVE  /\ Step(t) /\ pc[t] = "epilog_drop" /\ Owner' = None /\ Succ' = Succ /\ Resp' = Resp
         /\ SameLists /\ pc'[t] = "epilog_unpark" /\ loc'[t] = loc[t] /\ node' = node
         /\ event' = event
<1>1. pc[t] \notin Outside
  BY DEF Epilog_drop, Outside
<1>2. pc[t] = "epilog_drop"
  BY <1>1, AtThe DEF Epilog_drop, this
<1>3. mark' = mark /\ mon' = mon /\ Heavy /\ Heavy'
      /\ (\A u \in Threads \ {t} : pc'[u] = pc[u] /\ loc'[u] = loc[u])
  BY <1>1, AtThe DEF Epilog_drop, Go, Heavy, objectVars
<1>4. /\ Rest /\ Owner' = None /\ Succ' = Succ /\ Resp' = Resp /\ SameLists
  BY <1>1, <1>2, <1>3, AtThe, OmOwner DEF Epilog_drop, Go, Set, this
<1>5. /\ pc'[t] = "epilog_unpark" /\ event' = event /\ loc'[t] = loc[t] /\ node' = node
  BY <1>1, <1>2, AtThe DEF Epilog_drop, Go, Set, this
<1> QED
  BY <1>1, <1>2, <1>3, <1>4, <1>5 DEF Step

\* ExitEpilog unparks the successor.
LEMMA Epilog_unparkDoes ==
  ASSUME Inv, NEW t \in Threads, Epilog_unpark(t), UNCHANGED objectVars
  PROVE  /\ Step(t) /\ pc[t] = "epilog_unpark" /\ SameWords /\ SameLists
         /\ pc'[t] = ExitReturn(t) /\ loc'[t].spin = loc[t].spin /\ loc'[t].then = loc[t].then
         /\ loc'[t].w = None /\ loc'[t].nxt = loc[t].nxt /\ loc'[t].inwait = loc[t].inwait
         /\ node' = node /\ event' = [event EXCEPT ![loc[t].w] = 1]
<1>1. pc[t] \notin Outside
  BY DEF Epilog_unpark, Outside
<1>2. pc[t] = "epilog_unpark"
  BY <1>1, AtThe DEF Epilog_unpark, this
<1>3. mark' = mark /\ mon' = mon /\ Heavy /\ Heavy'
      /\ (\A u \in Threads \ {t} : pc'[u] = pc[u] /\ loc'[u] = loc[u])
  BY <1>1, AtThe DEF Epilog_unpark, Go, Heavy, objectVars
<1>4. /\ Rest /\ SameWords /\ SameLists
  BY <1>1, <1>2, <1>3, AtThe, OmNone DEF Epilog_unpark, Go, Set, this
<1>5. /\ pc'[t] = ExitReturn(t) /\ event' = [event EXCEPT ![loc[t].w] = 1] /\ node' = node
  BY <1>1, <1>2, AtThe DEF Epilog_unpark, Go, Set, this
<1>6. /\ loc'[t].spin = loc[t].spin /\ loc'[t].then = loc[t].then /\ loc'[t].w = None
      /\ loc'[t].nxt = loc[t].nxt /\ loc'[t].inwait = loc[t].inwait
  BY <1>1, <1>2, AtThe DEF Epilog_unpark, Go, Set, this, LocRec
<1> QED
  BY <1>1, <1>2, <1>3, <1>4, <1>5, <1>6 DEF Step

\* Compiled code reads cxq.
LEMMA Unlock_cxqDoes ==
  ASSUME Inv, NEW t \in Threads, Unlock_cxq(t), UNCHANGED objectVars
  PROVE  /\ Step(t) /\ pc[t] = "unlock" /\ SameWords /\ SameLists
         /\ pc'[t] \in {"fast_exit", "unlock_EntryList", "unlock_succ"}
         /\ (pc'[t] = "unlock_EntryList" => Cxq = <<>>) /\ loc'[t] = loc[t] /\ node' = node
         /\ event' = event
<1>1. pc[t] \notin Outside
  BY DEF Unlock_cxq, Outside
<1>2. pc[t] = "unlock"
  BY <1>1, AtThe DEF Unlock_cxq, this
<1>3. mark' = mark /\ mon' = mon /\ Heavy /\ Heavy'
      /\ (\A u \in Threads \ {t} : pc'[u] = pc[u] /\ loc'[u] = loc[u])
  BY <1>1, AtThe DEF Unlock_cxq, Go, Heavy, objectVars, IsOwner
<1>4. /\ Rest /\ SameWords /\ SameLists
  BY <1>1, <1>2, <1>3, AtThe, OmNone DEF Unlock_cxq, Go, Set, this, IsOwner
<1>5. /\ pc'[t] \in {"fast_exit", "unlock_EntryList", "unlock_succ"}
      /\ (pc'[t] = "unlock_EntryList" => Cxq = <<>>) /\ event' = event /\ loc'[t] = loc[t]
      /\ node' = node
  BY <1>1, <1>2, AtThe DEF Unlock_cxq, Go, Set, this, IsOwner
<1> QED
  BY <1>1, <1>2, <1>3, <1>4, <1>5 DEF Step

\* Compiled code reads EntryList.
LEMMA Unlock_EntryListDoes ==
  ASSUME Inv, NEW t \in Threads, Unlock_EntryList(t), UNCHANGED objectVars
  PROVE  /\ Step(t) /\ pc[t] = "unlock_EntryList" /\ SameWords /\ SameLists
         /\ pc'[t] = (IF Entries = <<>> THEN "unlock_store" ELSE "unlock_succ")
         /\ loc'[t] = loc[t] /\ node' = node /\ event' = event
<1>1. pc[t] \notin Outside
  BY DEF Unlock_EntryList, Outside
<1>2. pc[t] = "unlock_EntryList"
  BY <1>1, AtThe DEF Unlock_EntryList, this
<1>3. mark' = mark /\ mon' = mon /\ Heavy /\ Heavy'
      /\ (\A u \in Threads \ {t} : pc'[u] = pc[u] /\ loc'[u] = loc[u])
  BY <1>1, AtThe DEF Unlock_EntryList, Go, Heavy, objectVars
<1>4. /\ Rest /\ SameWords /\ SameLists
  BY <1>1, <1>2, <1>3, AtThe, OmNone DEF Unlock_EntryList, Go, Set, this
<1>5. /\ pc'[t] = (IF Entries = <<>> THEN "unlock_store" ELSE "unlock_succ") /\ event' = event
      /\ loc'[t] = loc[t] /\ node' = node
  BY <1>1, <1>2, AtThe DEF Unlock_EntryList, Go, Set, this
<1> QED
  BY <1>1, <1>2, <1>3, <1>4, <1>5 DEF Step

\* The 1-0 store.
LEMMA Unlock_storeDoes ==
  ASSUME Inv, NEW t \in Threads, Unlock_store(t), UNCHANGED objectVars
  PROVE  /\ Step(t) /\ pc[t] = "unlock_store" /\ Owner' = None /\ Succ' = Succ /\ Resp' = Resp
         /\ SameLists /\ pc'[t] = "java" /\ loc'[t] = loc[t] /\ node' = node /\ event' = event
<1>1. pc[t] \notin Outside
  BY DEF Unlock_store, Outside
<1>2. pc[t] = "unlock_store"
  BY <1>1, AtThe DEF Unlock_store, this
<1>3. mark' = mark /\ mon' = mon /\ Heavy /\ Heavy'
      /\ (\A u \in Threads \ {t} : pc'[u] = pc[u] /\ loc'[u] = loc[u])
  BY <1>1, AtThe DEF Unlock_store, Go, Heavy, objectVars
<1>4. /\ Rest /\ Owner' = None /\ Succ' = Succ /\ Resp' = Resp /\ SameLists
  BY <1>1, <1>2, <1>3, AtThe, OmOwner DEF Unlock_store, Go, Set, this
<1>5. /\ pc'[t] = "java" /\ event' = event /\ loc'[t] = loc[t] /\ node' = node
  BY <1>1, <1>2, AtThe DEF Unlock_store, Go, Set, this
<1> QED
  BY <1>1, <1>2, <1>3, <1>4, <1>5 DEF Step

\* Compiled code reads _succ.
LEMMA Unlock_succDoes ==
  ASSUME Inv, NEW t \in Threads, Unlock_succ(t), UNCHANGED objectVars
  PROVE  /\ Step(t) /\ pc[t] = "unlock_succ" /\ SameWords /\ SameLists
         /\ pc'[t] = (IF Succ = None THEN "fast_exit" ELSE "unlock_drop") /\ loc'[t] = loc[t]
         /\ node' = node /\ event' = event
<1>1. pc[t] \notin Outside
  BY DEF Unlock_succ, Outside
<1>2. pc[t] = "unlock_succ"
  BY <1>1, AtThe DEF Unlock_succ, this
<1>3. mark' = mark /\ mon' = mon /\ Heavy /\ Heavy'
      /\ (\A u \in Threads \ {t} : pc'[u] = pc[u] /\ loc'[u] = loc[u])
  BY <1>1, AtThe DEF Unlock_succ, Go, Heavy, objectVars
<1>4. /\ Rest /\ SameWords /\ SameLists
  BY <1>1, <1>2, <1>3, AtThe, OmNone DEF Unlock_succ, Go, Set, this
<1>5. /\ pc'[t] = (IF Succ = None THEN "fast_exit" ELSE "unlock_drop") /\ event' = event
      /\ loc'[t] = loc[t] /\ node' = node
  BY <1>1, <1>2, AtThe DEF Unlock_succ, Go, Set, this
<1> QED
  BY <1>1, <1>2, <1>3, <1>4, <1>5 DEF Step

\* Compiled code drops the lock.
LEMMA Unlock_dropDoes ==
  ASSUME Inv, NEW t \in Threads, Unlock_drop(t), UNCHANGED objectVars
  PROVE  /\ Step(t) /\ pc[t] = "unlock_drop" /\ Owner' = None /\ Succ' = Succ /\ Resp' = Resp
         /\ SameLists /\ pc'[t] = "unlock_recheck" /\ loc'[t] = loc[t] /\ node' = node
         /\ event' = event
<1>1. pc[t] \notin Outside
  BY DEF Unlock_drop, Outside
<1>2. pc[t] = "unlock_drop"
  BY <1>1, AtThe DEF Unlock_drop, this
<1>3. mark' = mark /\ mon' = mon /\ Heavy /\ Heavy'
      /\ (\A u \in Threads \ {t} : pc'[u] = pc[u] /\ loc'[u] = loc[u])
  BY <1>1, AtThe DEF Unlock_drop, Go, Heavy, objectVars
<1>4. /\ Rest /\ Owner' = None /\ Succ' = Succ /\ Resp' = Resp /\ SameLists
  BY <1>1, <1>2, <1>3, AtThe, OmOwner DEF Unlock_drop, Go, Set, this
<1>5. /\ pc'[t] = "unlock_recheck" /\ event' = event /\ loc'[t] = loc[t] /\ node' = node
  BY <1>1, <1>2, AtThe DEF Unlock_drop, Go, Set, this
<1> QED
  BY <1>1, <1>2, <1>3, <1>4, <1>5 DEF Step

\* Compiled code reads _succ again.
LEMMA Unlock_recheckDoes ==
  ASSUME Inv, NEW t \in Threads, Unlock_recheck(t), UNCHANGED objectVars
  PROVE  /\ Step(t) /\ pc[t] = "unlock_recheck" /\ SameWords /\ SameLists
         /\ pc'[t] = (IF Succ # None THEN "java" ELSE "unlock_cas") /\ loc'[t] = loc[t]
         /\ node' = node /\ event' = event
<1>1. pc[t] \notin Outside
  BY DEF Unlock_recheck, Outside
<1>2. pc[t] = "unlock_recheck"
  BY <1>1, AtThe DEF Unlock_recheck, this
<1>3. mark' = mark /\ mon' = mon /\ Heavy /\ Heavy'
      /\ (\A u \in Threads \ {t} : pc'[u] = pc[u] /\ loc'[u] = loc[u])
  BY <1>1, AtThe DEF Unlock_recheck, Go, Heavy, objectVars
<1>4. /\ Rest /\ SameWords /\ SameLists
  BY <1>1, <1>2, <1>3, AtThe, OmNone DEF Unlock_recheck, Go, Set, this
<1>5. /\ pc'[t] = (IF Succ # None THEN "java" ELSE "unlock_cas") /\ event' = event
      /\ loc'[t] = loc[t] /\ node' = node
  BY <1>1, <1>2, AtThe DEF Unlock_recheck, Go, Set, this
<1> QED
  BY <1>1, <1>2, <1>3, <1>4, <1>5 DEF Step

\* Compiled code takes the lock again.
LEMMA Unlock_casDoes ==
  ASSUME Inv, NEW t \in Threads, Unlock_cas(t), UNCHANGED objectVars
  PROVE  /\ Step(t) /\ pc[t] = "unlock_cas" /\ SameLists /\ loc'[t] = loc[t] /\ node' = node
         /\ event' = event
         /\ \/ /\ Owner = None /\ Owner' = t /\ Succ' = Succ /\ Resp' = Resp
               /\ pc'[t] = "fast_exit"
            \/ /\ Owner # None /\ SameWords /\ pc'[t] = "java"
<1>1. pc[t] \notin Outside
  BY DEF Unlock_cas, Outside
<1>2. pc[t] = "unlock_cas"
  BY <1>1, AtThe DEF Unlock_cas, this
<1>3. mark' = mark /\ mon' = mon /\ Heavy /\ Heavy'
      /\ (\A u \in Threads \ {t} : pc'[u] = pc[u] /\ loc'[u] = loc[u])
  BY <1>1, AtThe DEF Unlock_cas, Go, Heavy, objectVars, TryLock
<1>4. CASE Owner = None
  <2>1. om' = [om EXCEPT ![mon[t]] = [om[mon[t]] EXCEPT !.owner = t]]
    BY <1>1, <1>2, <1>4, AtThe DEF Unlock_cas, Go, Set, this, TryLock
  <2>2. /\ Rest /\ Owner' = t /\ Succ' = Succ /\ Resp' = Resp /\ SameLists
    BY <1>1, <1>3, <2>1, OmOwner
  <2>3. /\ pc'[t] = "fast_exit" /\ event' = event /\ loc'[t] = loc[t] /\ node' = node
    BY <1>1, <1>2, <1>4, AtThe DEF Unlock_cas, Go, Set, this, TryLock
  <2> QED
    BY <1>1, <1>2, <1>3, <1>4, <2>2, <2>3 DEF Step
<1>5. CASE Owner # None
  <2>1. /\ Rest /\ SameWords /\ SameLists
    BY <1>1, <1>2, <1>5, <1>3, AtThe, OmNone DEF Unlock_cas, Go, Set, this, TryLock
  <2>2. /\ pc'[t] = "java" /\ event' = event /\ loc'[t] = loc[t] /\ node' = node
    BY <1>1, <1>2, <1>5, AtThe DEF Unlock_cas, Go, Set, this, TryLock
  <2> QED
    BY <1>1, <1>2, <1>3, <1>5, <2>1, <2>2 DEF Step
<1> QED
  BY <1>4, <1>5, <1>1, <1>2, AtThe

\* wait() finds an interrupt pending.
LEMMA Wait_interruptedDoes ==
  ASSUME Inv, NEW t \in Threads, Wait_interrupted(t), UNCHANGED objectVars
  PROVE  /\ Step(t) /\ pc[t] = "wait" /\ SameWords /\ SameLists /\ pc'[t] = "java"
         /\ loc'[t] = loc[t] /\ node' = node /\ event' = event
<1>1. pc[t] \notin Outside
  BY DEF Wait_interrupted, Outside
<1>2. pc[t] = "wait"
  BY <1>1, AtThe DEF Wait_interrupted, this
<1>3. mark' = mark /\ mon' = mon /\ Heavy /\ Heavy'
      /\ (\A u \in Threads \ {t} : pc'[u] = pc[u] /\ loc'[u] = loc[u])
  BY <1>1, AtThe DEF Wait_interrupted, Go, Heavy, objectVars, Checked
<1>4. /\ Rest /\ SameWords /\ SameLists
  <2>1. PICK x, y : om' = [om EXCEPT ![mon[t]] = [om[mon[t]] EXCEPT !.box = x, !.recursions = y]]
    BY DEF Wait_interrupted, Set, this, Checked
  <2> QED BY <1>1, <1>3, <2>1, OmBox
<1>5. /\ pc'[t] = "java" /\ event' = event /\ loc'[t] = loc[t] /\ node' = node
  BY <1>1, <1>2, AtThe DEF Wait_interrupted, Go, Set, this, Checked
<1> QED
  BY <1>1, <1>2, <1>3, <1>4, <1>5 DEF Step

\* wait() sets its node up.
LEMMA Wait_nodeDoes ==
  ASSUME Inv, NEW t \in Threads, Wait_node(t), UNCHANGED objectVars
  PROVE  /\ Step(t) /\ pc[t] = "wait" /\ SameWords /\ SameLists /\ pc'[t] = "wait_add"
         /\ loc'[t] = loc[t] /\ node'[t].TState = "WAIT" /\ node'[t].notified = 0
         /\ NodesBut(t) /\ event' = [event EXCEPT ![t] = 0]
<1>1. pc[t] \notin Outside
  BY DEF Wait_node, Outside
<1>2. pc[t] = "wait"
  BY <1>1, AtThe DEF Wait_node, this
<1>3. mark' = mark /\ mon' = mon /\ Heavy /\ Heavy'
      /\ (\A u \in Threads \ {t} : pc'[u] = pc[u] /\ loc'[u] = loc[u])
  BY <1>1, AtThe DEF Wait_node, Go, Heavy, objectVars, Checked
<1>4. /\ Rest /\ SameWords /\ SameLists
  BY <1>1, <1>2, <1>3, AtThe, OmBox DEF Wait_node, Go, Set, this, Checked
<1>5. /\ pc'[t] = "wait_add" /\ event' = [event EXCEPT ![t] = 0] /\ loc'[t] = loc[t]
  BY <1>1, <1>2, AtThe DEF Wait_node, Go, Set, this, Checked
<1>6. /\ node'[t].TState = "WAIT" /\ node'[t].notified = 0 /\ NodesBut(t)
  BY <1>1, <1>2, AtThe, NodeFresh DEF Wait_node, Go, Set, this, Checked
<1> QED
  BY <1>1, <1>2, <1>3, <1>4, <1>5, <1>6 DEF Step

\* AddWaiter.
LEMMA Wait_addDoes ==
  ASSUME Inv, NEW t \in Threads, Wait_add(t), UNCHANGED objectVars
  PROVE  /\ Step(t) /\ pc[t] = "wait_add" /\ WaitLock = None /\ Owner' = Owner /\ Succ' = Succ
         /\ Resp' = None /\ Cxq' = Cxq /\ Entries' = Entries /\ Waits' = Append(Waits, t)
         /\ WaitLock' = WaitLock /\ pc'[t] = "exit" /\ loc'[t].spin = loc[t].spin
         /\ loc'[t].then = loc[t].then /\ loc'[t].w = loc[t].w /\ loc'[t].nxt = loc[t].nxt
         /\ loc'[t].inwait /\ node' = node /\ event' = event
<1>1. pc[t] \notin Outside
  BY DEF Wait_add, Outside
<1>2. pc[t] = "wait_add" /\ WaitLock = None
  BY <1>1, AtThe DEF Wait_add, this
<1>3. mark' = mark /\ mon' = mon /\ Heavy /\ Heavy'
      /\ (\A u \in Threads \ {t} : pc'[u] = pc[u] /\ loc'[u] = loc[u])
  BY <1>1, AtThe DEF Wait_add, Go, Heavy, objectVars
<1>4. om' = [om EXCEPT ![mon[t]] = [om[mon[t]] EXCEPT !.WaitSet = Append(Waits, t), !.Responsible = None, !.waiters = om[mon[t]].waiters + 1, !.recursions = 0]]
  BY <1>1, <1>2, AtThe DEF Wait_add, Go, Set, this
<1>5. /\ Rest /\ Owner' = Owner /\ Succ' = Succ /\ Resp' = None /\ Cxq' = Cxq
      /\ Entries' = Entries /\ Waits' = Append(Waits, t) /\ WaitLock' = WaitLock
  BY <1>1, <1>3, <1>4, OmAdd
<1>6. /\ pc'[t] = "exit" /\ event' = event /\ node' = node
  BY <1>1, <1>2, AtThe DEF Wait_add, Go, Set, this
<1>7. /\ loc'[t].spin = loc[t].spin /\ loc'[t].then = loc[t].then /\ loc'[t].w = loc[t].w
      /\ loc'[t].nxt = loc[t].nxt /\ loc'[t].inwait
  BY <1>1, <1>2, AtThe DEF Wait_add, Go, Set, this, LocRec
<1> QED
  BY <1>1, <1>2, <1>3, <1>5, <1>6, <1>7 DEF Step

\* wait() after its exit.
LEMMA Wait_exitedDoes ==
  ASSUME Inv, NEW t \in Threads, Wait_exited(t), UNCHANGED objectVars
  PROVE  /\ Step(t) /\ pc[t] = "wait_exited" /\ SameWords /\ SameLists
         /\ pc'[t] = "wait_check" /\ loc'[t] = loc[t] /\ node' = node
         /\ event' = [event EXCEPT ![t] = IF node[t].notified # 0 /\ Succ = t THEN 1 ELSE event[t]]
<1>1. pc[t] \notin Outside
  BY DEF Wait_exited, Outside
<1>2. pc[t] = "wait_exited"
  BY <1>1, AtThe DEF Wait_exited, this
<1>3. mark' = mark /\ mon' = mon /\ Heavy /\ Heavy'
      /\ (\A u \in Threads \ {t} : pc'[u] = pc[u] /\ loc'[u] = loc[u])
  BY <1>1, AtThe DEF Wait_exited, Go, Heavy, objectVars
<1>4. /\ Rest /\ SameWords /\ SameLists
  BY <1>1, <1>2, <1>3, AtThe, OmNone DEF Wait_exited, Go, Set, this
<1>5. /\ pc'[t] = "wait_check"
      /\ event' = [event EXCEPT ![t] = IF node[t].notified # 0 /\ Succ = t THEN 1 ELSE event[t]]
      /\ loc'[t] = loc[t] /\ node' = node
  BY <1>1, <1>2, AtThe DEF Wait_exited, Go, Set, this
<1> QED
  BY <1>1, <1>2, <1>3, <1>4, <1>5 DEF Step

\* wait() looks for an interrupt.
LEMMA Wait_checkDoes ==
  ASSUME Inv, NEW t \in Threads, Wait_check(t), UNCHANGED objectVars
  PROVE  /\ Step(t) /\ pc[t] = "wait_check" /\ SameWords /\ SameLists
         /\ pc'[t] \in {"wait_state", "wait_notified"} /\ loc'[t] = loc[t] /\ node' = node
         /\ event' = event
<1>1. pc[t] \notin Outside
  BY DEF Wait_check, Outside
<1>2. pc[t] = "wait_check"
  BY <1>1, AtThe DEF Wait_check, this
<1>3. mark' = mark /\ mon' = mon /\ Heavy /\ Heavy'
      /\ (\A u \in Threads \ {t} : pc'[u] = pc[u] /\ loc'[u] = loc[u])
  BY <1>1, AtThe DEF Wait_check, Go, Heavy, objectVars
<1>4. /\ Rest /\ SameWords /\ SameLists
  BY <1>1, <1>2, <1>3, AtThe, OmNone DEF Wait_check, Go, Set, this
<1>5. /\ pc'[t] \in {"wait_state", "wait_notified"} /\ event' = event /\ loc'[t] = loc[t]
      /\ node' = node
  BY <1>1, <1>2, AtThe DEF Wait_check, Go, Set, this
<1> QED
  BY <1>1, <1>2, <1>3, <1>4, <1>5 DEF Step

\* wait() looks for a notify.
LEMMA Wait_notifiedDoes ==
  ASSUME Inv, NEW t \in Threads, Wait_notified(t), UNCHANGED objectVars
  PROVE  /\ Step(t) /\ pc[t] = "wait_notified" /\ SameWords /\ SameLists
         /\ pc'[t] = (IF node[t].notified = 0 THEN "wait_park" ELSE "wait_state")
         /\ loc'[t] = loc[t] /\ node' = node /\ event' = event
<1>1. pc[t] \notin Outside
  BY DEF Wait_notified, Outside
<1>2. pc[t] = "wait_notified"
  BY <1>1, AtThe DEF Wait_notified, this
<1>3. mark' = mark /\ mon' = mon /\ Heavy /\ Heavy'
      /\ (\A u \in Threads \ {t} : pc'[u] = pc[u] /\ loc'[u] = loc[u])
  BY <1>1, AtThe DEF Wait_notified, Go, Heavy, objectVars
<1>4. /\ Rest /\ SameWords /\ SameLists
  BY <1>1, <1>2, <1>3, AtThe, OmNone DEF Wait_notified, Go, Set, this
<1>5. /\ pc'[t] = (IF node[t].notified = 0 THEN "wait_park" ELSE "wait_state")
      /\ event' = event /\ loc'[t] = loc[t] /\ node' = node
  BY <1>1, <1>2, AtThe DEF Wait_notified, Go, Set, this
<1> QED
  BY <1>1, <1>2, <1>3, <1>4, <1>5 DEF Step

\* wait() parks.
LEMMA Wait_parkDoes ==
  ASSUME Inv, NEW t \in Threads, Wait_park(t), UNCHANGED objectVars
  PROVE  /\ Step(t) /\ pc[t] = "wait_park" /\ SameWords /\ SameLists /\ pc'[t] = "wait_state"
         /\ loc'[t] = loc[t] /\ node' = node /\ event' = [event EXCEPT ![t] = 0]
<1>1. pc[t] \notin Outside
  BY DEF Wait_park, Outside
<1>2. pc[t] = "wait_park"
  BY <1>1, AtThe DEF Wait_park, this
<1>3. mark' = mark /\ mon' = mon /\ Heavy /\ Heavy'
      /\ (\A u \in Threads \ {t} : pc'[u] = pc[u] /\ loc'[u] = loc[u])
  BY <1>1, AtThe DEF Wait_park, Go, Heavy, objectVars
<1>4. /\ Rest /\ SameWords /\ SameLists
  BY <1>1, <1>2, <1>3, AtThe, OmNone DEF Wait_park, Go, Set, this
<1>5. /\ pc'[t] = "wait_state" /\ event' = [event EXCEPT ![t] = 0] /\ loc'[t] = loc[t]
      /\ node' = node
  BY <1>1, <1>2, AtThe DEF Wait_park, Go, Set, this
<1> QED
  BY <1>1, <1>2, <1>3, <1>4, <1>5 DEF Step

\* wait() looks at its node.
LEMMA Wait_stateDoes ==
  ASSUME Inv, NEW t \in Threads, Wait_state(t), UNCHANGED objectVars
  PROVE  /\ Step(t) /\ pc[t] = "wait_state" /\ SameWords /\ SameLists /\ node' = node
         /\ event' = event
         /\ \/ /\ node[t].TState = "WAIT" /\ pc'[t] = "wait_unlink" /\ loc'[t] = loc[t]
            \/ /\ node[t].TState # "WAIT" /\ Succ = t /\ pc'[t] = "clearing"
               /\ loc'[t].spin = None /\ loc'[t].then = "wait_was" /\ loc'[t].w = loc[t].w
               /\ loc'[t].nxt = loc[t].nxt /\ loc'[t].inwait = loc[t].inwait
            \/ /\ node[t].TState # "WAIT" /\ Succ # t /\ pc'[t] = "wait_was"
               /\ loc'[t].spin = None /\ loc'[t].then = loc[t].then /\ loc'[t].w = loc[t].w
               /\ loc'[t].nxt = loc[t].nxt /\ loc'[t].inwait = loc[t].inwait
<1>1. pc[t] \notin Outside
  BY DEF Wait_state, Outside
<1>2. pc[t] = "wait_state"
  BY <1>1, AtThe DEF Wait_state, this
<1>3. mark' = mark /\ mon' = mon /\ Heavy /\ Heavy'
      /\ (\A u \in Threads \ {t} : pc'[u] = pc[u] /\ loc'[u] = loc[u])
  BY <1>1, AtThe DEF Wait_state, Go, Heavy, objectVars, ClearSucc
<1>4. CASE node[t].TState = "WAIT"
  <2>1. /\ Rest /\ SameWords /\ SameLists
    BY <1>1, <1>2, <1>4, <1>3, AtThe, OmNone DEF Wait_state, Go, Set, this, ClearSucc
  <2>2. /\ pc'[t] = "wait_unlink" /\ event' = event /\ loc'[t] = loc[t] /\ node' = node
    BY <1>1, <1>2, <1>4, AtThe DEF Wait_state, Go, Set, this, ClearSucc
  <2> QED
    BY <1>1, <1>2, <1>3, <1>4, <2>1, <2>2 DEF Step
<1>5. CASE node[t].TState # "WAIT" /\ Succ = t
  <2>1. /\ Rest /\ SameWords /\ SameLists
    BY <1>1, <1>2, <1>5, <1>3, AtThe, OmNone DEF Wait_state, Go, Set, this, ClearSucc
  <2>2. /\ pc'[t] = "clearing" /\ event' = event /\ node' = node
    BY <1>1, <1>2, <1>5, AtThe DEF Wait_state, Go, Set, this, ClearSucc
  <2>3. /\ loc'[t].spin = None /\ loc'[t].then = "wait_was" /\ loc'[t].w = loc[t].w
        /\ loc'[t].nxt = loc[t].nxt /\ loc'[t].inwait = loc[t].inwait
    BY <1>1, <1>2, <1>5, AtThe DEF Wait_state, Go, Set, this, ClearSucc, LocRec
  <2> QED
    BY <1>1, <1>2, <1>3, <1>5, <2>1, <2>2, <2>3 DEF Step
<1>6. CASE node[t].TState # "WAIT" /\ Succ # t
  <2>1. /\ Rest /\ SameWords /\ SameLists
    BY <1>1, <1>2, <1>6, <1>3, AtThe, OmNone DEF Wait_state, Go, Set, this, ClearSucc
  <2>2. /\ pc'[t] = "wait_was" /\ event' = event /\ node' = node
    BY <1>1, <1>2, <1>6, AtThe DEF Wait_state, Go, Set, this, ClearSucc
  <2>3. /\ loc'[t].spin = None /\ loc'[t].then = loc[t].then /\ loc'[t].w = loc[t].w
        /\ loc'[t].nxt = loc[t].nxt /\ loc'[t].inwait = loc[t].inwait
    BY <1>1, <1>2, <1>6, AtThe DEF Wait_state, Go, Set, this, ClearSucc, LocRec
  <2> QED
    BY <1>1, <1>2, <1>3, <1>6, <2>1, <2>2, <2>3 DEF Step
<1> QED
  BY <1>4, <1>5, <1>6, <1>1, <1>2, AtThe

\* wait() unlinks its node.
LEMMA Wait_unlinkDoes ==
  ASSUME Inv, NEW t \in Threads, Wait_unlink(t), UNCHANGED objectVars
  PROVE  /\ Step(t) /\ pc[t] = "wait_unlink" /\ WaitLock = None /\ SameWords
         /\ loc'[t].spin = None /\ loc'[t].w = loc[t].w /\ loc'[t].nxt = loc[t].nxt
         /\ loc'[t].inwait = loc[t].inwait /\ event' = event
         /\ \/ /\ node[t].TState = "WAIT" /\ Succ = t /\ Cxq' = Cxq /\ Entries' = Entries
               /\ Waits' = Without(Waits, t) /\ WaitLock' = WaitLock /\ pc'[t] = "clearing"
               /\ loc'[t].then = "wait_was" /\ NodeIs(t, "RUN")
            \/ /\ node[t].TState = "WAIT" /\ Succ # t /\ Cxq' = Cxq /\ Entries' = Entries
               /\ Waits' = Without(Waits, t) /\ WaitLock' = WaitLock /\ pc'[t] = "wait_was"
               /\ loc'[t].then = loc[t].then /\ NodeIs(t, "RUN")
            \/ /\ node[t].TState # "WAIT" /\ Succ = t /\ SameLists /\ pc'[t] = "clearing"
               /\ loc'[t].then = "wait_was" /\ node' = node
            \/ /\ node[t].TState # "WAIT" /\ Succ # t /\ SameLists /\ pc'[t] = "wait_was"
               /\ loc'[t].then = loc[t].then /\ node' = node
<1>1. pc[t] \notin Outside
  BY DEF Wait_unlink, Outside
<1>2. pc[t] = "wait_unlink" /\ WaitLock = None
  BY <1>1, AtThe DEF Wait_unlink, this
<1>3. mark' = mark /\ mon' = mon /\ Heavy /\ Heavy'
      /\ (\A u \in Threads \ {t} : pc'[u] = pc[u] /\ loc'[u] = loc[u])
  BY <1>1, AtThe DEF Wait_unlink, Go, Heavy, objectVars, ClearSucc
<1>4. CASE node[t].TState = "WAIT" /\ Succ = t
  <2>1. om' = [om EXCEPT ![mon[t]] = [om[mon[t]] EXCEPT !.WaitSet = Without(Waits, t)]]
    BY <1>1, <1>2, <1>4, AtThe DEF Wait_unlink, Go, Set, this, ClearSucc
  <2>2. /\ Rest /\ SameWords /\ Cxq' = Cxq /\ Entries' = Entries /\ Waits' = Without(Waits, t)
        /\ WaitLock' = WaitLock
    BY <1>1, <1>3, <2>1, OmWaits
  <2>3. /\ pc'[t] = "clearing" /\ event' = event
    BY <1>1, <1>2, <1>4, AtThe DEF Wait_unlink, Go, Set, this, ClearSucc
  <2>4. /\ loc'[t].spin = None /\ loc'[t].then = "wait_was" /\ loc'[t].w = loc[t].w
        /\ loc'[t].nxt = loc[t].nxt /\ loc'[t].inwait = loc[t].inwait
    BY <1>1, <1>2, <1>4, AtThe DEF Wait_unlink, Go, Set, this, ClearSucc, LocRec
  <2>5. /\ NodeIs(t, "RUN")
    BY <1>1, <1>2, <1>4, AtThe, NodeStored DEF Wait_unlink, Go, Set, this, ClearSucc
  <2> QED
    BY <1>1, <1>2, <1>3, <1>4, <2>2, <2>3, <2>4, <2>5 DEF Step
<1>5. CASE node[t].TState = "WAIT" /\ Succ # t
  <2>1. om' = [om EXCEPT ![mon[t]] = [om[mon[t]] EXCEPT !.WaitSet = Without(Waits, t)]]
    BY <1>1, <1>2, <1>5, AtThe DEF Wait_unlink, Go, Set, this, ClearSucc
  <2>2. /\ Rest /\ SameWords /\ Cxq' = Cxq /\ Entries' = Entries /\ Waits' = Without(Waits, t)
        /\ WaitLock' = WaitLock
    BY <1>1, <1>3, <2>1, OmWaits
  <2>3. /\ pc'[t] = "wait_was" /\ event' = event
    BY <1>1, <1>2, <1>5, AtThe DEF Wait_unlink, Go, Set, this, ClearSucc
  <2>4. /\ loc'[t].spin = None /\ loc'[t].then = loc[t].then /\ loc'[t].w = loc[t].w
        /\ loc'[t].nxt = loc[t].nxt /\ loc'[t].inwait = loc[t].inwait
    BY <1>1, <1>2, <1>5, AtThe DEF Wait_unlink, Go, Set, this, ClearSucc, LocRec
  <2>5. /\ NodeIs(t, "RUN")
    BY <1>1, <1>2, <1>5, AtThe, NodeStored DEF Wait_unlink, Go, Set, this, ClearSucc
  <2> QED
    BY <1>1, <1>2, <1>3, <1>5, <2>2, <2>3, <2>4, <2>5 DEF Step
<1>6. CASE node[t].TState # "WAIT" /\ Succ = t
  <2>1. /\ Rest /\ SameWords /\ SameLists
    BY <1>1, <1>2, <1>6, <1>3, AtThe, OmNone DEF Wait_unlink, Go, Set, this, ClearSucc
  <2>2. /\ pc'[t] = "clearing" /\ event' = event /\ node' = node
    BY <1>1, <1>2, <1>6, AtThe DEF Wait_unlink, Go, Set, this, ClearSucc
  <2>3. /\ loc'[t].spin = None /\ loc'[t].then = "wait_was" /\ loc'[t].w = loc[t].w
        /\ loc'[t].nxt = loc[t].nxt /\ loc'[t].inwait = loc[t].inwait
    BY <1>1, <1>2, <1>6, AtThe DEF Wait_unlink, Go, Set, this, ClearSucc, LocRec
  <2> QED
    BY <1>1, <1>2, <1>3, <1>6, <2>1, <2>2, <2>3 DEF Step
<1>7. CASE node[t].TState # "WAIT" /\ Succ # t
  <2>1. /\ Rest /\ SameWords /\ SameLists
    BY <1>1, <1>2, <1>7, <1>3, AtThe, OmNone DEF Wait_unlink, Go, Set, this, ClearSucc
  <2>2. /\ pc'[t] = "wait_was" /\ event' = event /\ node' = node
    BY <1>1, <1>2, <1>7, AtThe DEF Wait_unlink, Go, Set, this, ClearSucc
  <2>3. /\ loc'[t].spin = None /\ loc'[t].then = loc[t].then /\ loc'[t].w = loc[t].w
        /\ loc'[t].nxt = loc[t].nxt /\ loc'[t].inwait = loc[t].inwait
    BY <1>1, <1>2, <1>7, AtThe DEF Wait_unlink, Go, Set, this, ClearSucc, LocRec
  <2> QED
    BY <1>1, <1>2, <1>3, <1>7, <2>1, <2>2, <2>3 DEF Step
<1> QED
  BY <1>4, <1>5, <1>6, <1>7, <1>1, <1>2, AtThe

\* wait() chooses how to reenter.
LEMMA Wait_wasDoes ==
  ASSUME Inv, NEW t \in Threads, Wait_was(t), UNCHANGED objectVars
  PROVE  /\ Step(t) /\ pc[t] = "wait_was" /\ SameWords /\ SameLists
         /\ pc'[t] = (IF node[t].TState = "RUN" THEN "enter" ELSE "reenter")
         /\ loc'[t].spin = loc[t].spin /\ loc'[t].then = loc[t].then /\ loc'[t].w = loc[t].w
         /\ loc'[t].nxt = loc[t].nxt /\ loc'[t].inwait = loc[t].inwait /\ node' = node
         /\ event' = event
<1>1. pc[t] \notin Outside
  BY DEF Wait_was, Outside
<1>2. pc[t] = "wait_was"
  BY <1>1, AtThe DEF Wait_was, this
<1>3. mark' = mark /\ mon' = mon /\ Heavy /\ Heavy'
      /\ (\A u \in Threads \ {t} : pc'[u] = pc[u] /\ loc'[u] = loc[u])
  BY <1>1, AtThe DEF Wait_was, Go, Heavy, objectVars
<1>4. /\ Rest /\ SameWords /\ SameLists
  BY <1>1, <1>2, <1>3, AtThe, OmNone DEF Wait_was, Go, Set, this
<1>5. /\ pc'[t] = (IF node[t].TState = "RUN" THEN "enter" ELSE "reenter") /\ event' = event
      /\ node' = node
  BY <1>1, <1>2, AtThe DEF Wait_was, Go, Set, this
<1>6. /\ loc'[t].spin = loc[t].spin /\ loc'[t].then = loc[t].then /\ loc'[t].w = loc[t].w
      /\ loc'[t].nxt = loc[t].nxt /\ loc'[t].inwait = loc[t].inwait
  BY <1>1, <1>2, AtThe DEF Wait_was, Go, Set, this, LocRec
<1> QED
  BY <1>1, <1>2, <1>3, <1>4, <1>5, <1>6 DEF Step

\* ReenterI tries the lock.
LEMMA ReenterDoes ==
  ASSUME Inv, NEW t \in Threads, Reenter(t), UNCHANGED objectVars
  PROVE  /\ Step(t) /\ pc[t] = "reenter" /\ SameLists /\ node' = node /\ event' = event
         /\ \/ /\ Owner = None /\ Owner' = t /\ Succ' = Succ /\ Resp' = Resp
               /\ pc'[t] = "reegress" /\ loc'[t] = loc[t]
            \/ /\ Owner # None /\ SameWords /\ pc'[t] = "spin" /\ loc'[t].spin = "reenter"
               /\ loc'[t].then = loc[t].then /\ loc'[t].w = loc[t].w
               /\ loc'[t].nxt = loc[t].nxt /\ loc'[t].inwait = loc[t].inwait
<1>1. pc[t] \notin Outside
  BY DEF Reenter, Outside
<1>2. pc[t] = "reenter"
  BY <1>1, AtThe DEF Reenter, this
<1>3. mark' = mark /\ mon' = mon /\ Heavy /\ Heavy'
      /\ (\A u \in Threads \ {t} : pc'[u] = pc[u] /\ loc'[u] = loc[u])
  BY <1>1, AtThe DEF Reenter, Go, Heavy, objectVars, Spin
<1>4. CASE Owner = None
  <2>1. om' = [om EXCEPT ![mon[t]] = [om[mon[t]] EXCEPT !.owner = t]]
    BY <1>1, <1>2, <1>4, AtThe DEF Reenter, Go, Set, this, Spin
  <2>2. /\ Rest /\ Owner' = t /\ Succ' = Succ /\ Resp' = Resp /\ SameLists
    BY <1>1, <1>3, <2>1, OmOwner
  <2>3. /\ pc'[t] = "reegress" /\ event' = event /\ loc'[t] = loc[t] /\ node' = node
    BY <1>1, <1>2, <1>4, AtThe DEF Reenter, Go, Set, this, Spin
  <2> QED
    BY <1>1, <1>2, <1>3, <1>4, <2>2, <2>3 DEF Step
<1>5. CASE Owner # None
  <2>1. /\ Rest /\ SameWords /\ SameLists
    BY <1>1, <1>2, <1>5, <1>3, AtThe, OmNone DEF Reenter, Go, Set, this, Spin
  <2>2. /\ pc'[t] = "spin" /\ event' = event /\ node' = node
    BY <1>1, <1>2, <1>5, AtThe DEF Reenter, Go, Set, this, Spin
  <2>3. /\ loc'[t].spin = "reenter" /\ loc'[t].then = loc[t].then /\ loc'[t].w = loc[t].w
        /\ loc'[t].nxt = loc[t].nxt /\ loc'[t].inwait = loc[t].inwait
    BY <1>1, <1>2, <1>5, AtThe DEF Reenter, Go, Set, this, Spin, LocRec
  <2> QED
    BY <1>1, <1>2, <1>3, <1>5, <2>1, <2>2, <2>3 DEF Step
<1> QED
  BY <1>4, <1>5, <1>1, <1>2, AtThe

\* ReenterI parks.
LEMMA Reenter_parkDoes ==
  ASSUME Inv, NEW t \in Threads, Reenter_park(t), UNCHANGED objectVars
  PROVE  /\ Step(t) /\ pc[t] = "repark" /\ SameWords /\ SameLists /\ pc'[t] = "rewoken"
         /\ loc'[t] = loc[t] /\ node' = node /\ event' = [event EXCEPT ![t] = 0]
<1>1. pc[t] \notin Outside
  BY DEF Reenter_park, Outside
<1>2. pc[t] = "repark"
  BY <1>1, AtThe DEF Reenter_park, this
<1>3. mark' = mark /\ mon' = mon /\ Heavy /\ Heavy'
      /\ (\A u \in Threads \ {t} : pc'[u] = pc[u] /\ loc'[u] = loc[u])
  BY <1>1, AtThe DEF Reenter_park, Go, Heavy, objectVars
<1>4. /\ Rest /\ SameWords /\ SameLists
  BY <1>1, <1>2, <1>3, AtThe, OmNone DEF Reenter_park, Go, Set, this
<1>5. /\ pc'[t] = "rewoken" /\ event' = [event EXCEPT ![t] = 0] /\ loc'[t] = loc[t]
      /\ node' = node
  BY <1>1, <1>2, AtThe DEF Reenter_park, Go, Set, this
<1> QED
  BY <1>1, <1>2, <1>3, <1>4, <1>5 DEF Step

\* ReenterI is woken.
LEMMA Reenter_wokenDoes ==
  ASSUME Inv, NEW t \in Threads, Reenter_woken(t), UNCHANGED objectVars
  PROVE  /\ Step(t) /\ pc[t] = "rewoken" /\ SameLists /\ node' = node /\ event' = event
         /\ \/ /\ Owner = None /\ Owner' = t /\ Succ' = Succ /\ Resp' = Resp
               /\ pc'[t] = "reegress" /\ loc'[t] = loc[t]
            \/ /\ Owner # None /\ Succ = t /\ SameWords /\ pc'[t] = "clearing"
               /\ loc'[t].spin = None /\ loc'[t].then = "reenter" /\ loc'[t].w = loc[t].w
               /\ loc'[t].nxt = loc[t].nxt /\ loc'[t].inwait = loc[t].inwait
            \/ /\ Owner # None /\ Succ # t /\ SameWords /\ pc'[t] = "reenter"
               /\ loc'[t].spin = None /\ loc'[t].then = loc[t].then /\ loc'[t].w = loc[t].w
               /\ loc'[t].nxt = loc[t].nxt /\ loc'[t].inwait = loc[t].inwait
<1>1. pc[t] \notin Outside
  BY DEF Reenter_woken, Outside
<1>2. pc[t] = "rewoken"
  BY <1>1, AtThe DEF Reenter_woken, this
<1>3. mark' = mark /\ mon' = mon /\ Heavy /\ Heavy'
      /\ (\A u \in Threads \ {t} : pc'[u] = pc[u] /\ loc'[u] = loc[u])
  BY <1>1, AtThe DEF Reenter_woken, Go, Heavy, objectVars, ClearSucc
<1>4. CASE Owner = None
  <2>1. om' = [om EXCEPT ![mon[t]] = [om[mon[t]] EXCEPT !.owner = t]]
    BY <1>1, <1>2, <1>4, AtThe DEF Reenter_woken, Go, Set, this, ClearSucc
  <2>2. /\ Rest /\ Owner' = t /\ Succ' = Succ /\ Resp' = Resp /\ SameLists
    BY <1>1, <1>3, <2>1, OmOwner
  <2>3. /\ pc'[t] = "reegress" /\ event' = event /\ loc'[t] = loc[t] /\ node' = node
    BY <1>1, <1>2, <1>4, AtThe DEF Reenter_woken, Go, Set, this, ClearSucc
  <2> QED
    BY <1>1, <1>2, <1>3, <1>4, <2>2, <2>3 DEF Step
<1>5. CASE Owner # None /\ Succ = t
  <2>1. /\ Rest /\ SameWords /\ SameLists
    BY <1>1, <1>2, <1>5, <1>3, AtThe, OmNone DEF Reenter_woken, Go, Set, this, ClearSucc
  <2>2. /\ pc'[t] = "clearing" /\ event' = event /\ node' = node
    BY <1>1, <1>2, <1>5, AtThe DEF Reenter_woken, Go, Set, this, ClearSucc
  <2>3. /\ loc'[t].spin = None /\ loc'[t].then = "reenter" /\ loc'[t].w = loc[t].w
        /\ loc'[t].nxt = loc[t].nxt /\ loc'[t].inwait = loc[t].inwait
    BY <1>1, <1>2, <1>5, AtThe DEF Reenter_woken, Go, Set, this, ClearSucc, LocRec
  <2> QED
    BY <1>1, <1>2, <1>3, <1>5, <2>1, <2>2, <2>3 DEF Step
<1>6. CASE Owner # None /\ Succ # t
  <2>1. /\ Rest /\ SameWords /\ SameLists
    BY <1>1, <1>2, <1>6, <1>3, AtThe, OmNone DEF Reenter_woken, Go, Set, this, ClearSucc
  <2>2. /\ pc'[t] = "reenter" /\ event' = event /\ node' = node
    BY <1>1, <1>2, <1>6, AtThe DEF Reenter_woken, Go, Set, this, ClearSucc
  <2>3. /\ loc'[t].spin = None /\ loc'[t].then = loc[t].then /\ loc'[t].w = loc[t].w
        /\ loc'[t].nxt = loc[t].nxt /\ loc'[t].inwait = loc[t].inwait
    BY <1>1, <1>2, <1>6, AtThe DEF Reenter_woken, Go, Set, this, ClearSucc, LocRec
  <2> QED
    BY <1>1, <1>2, <1>3, <1>6, <2>1, <2>2, <2>3 DEF Step
<1> QED
  BY <1>4, <1>5, <1>6, <1>1, <1>2, AtThe

\* UnlinkAfterAcquire of ReenterI.
LEMMA Reenter_egressDoes ==
  ASSUME Inv, NEW t \in Threads, Reenter_egress(t), UNCHANGED objectVars
  PROVE  /\ Step(t) /\ pc[t] = "reegress" /\ SameWords /\ Waits' = Waits
         /\ WaitLock' = WaitLock /\ loc'[t].spin = None /\ loc'[t].w = loc[t].w
         /\ loc'[t].nxt = loc[t].nxt /\ loc'[t].inwait = loc[t].inwait /\ NodeIs(t, "RUN")
         /\ event' = event
         /\ \/ /\ node[t].TState = "ENTER" /\ Succ = t /\ Cxq' = Cxq
               /\ Entries' = Without(Entries, t) /\ pc'[t] = "clearing"
               /\ loc'[t].then = "wait_reentered"
            \/ /\ node[t].TState = "ENTER" /\ Succ # t /\ Cxq' = Cxq
               /\ Entries' = Without(Entries, t) /\ pc'[t] = "wait_reentered"
               /\ loc'[t].then = loc[t].then
            \/ /\ node[t].TState # "ENTER" /\ Succ = t /\ Cxq' = Without(Cxq, t)
               /\ Entries' = Entries /\ pc'[t] = "clearing" /\ loc'[t].then = "wait_reentered"
            \/ /\ node[t].TState # "ENTER" /\ Succ # t /\ Cxq' = Without(Cxq, t)
               /\ Entries' = Entries /\ pc'[t] = "wait_reentered"
               /\ loc'[t].then = loc[t].then
<1>1. pc[t] \notin Outside
  BY DEF Reenter_egress, Outside
<1>2. pc[t] = "reegress"
  BY <1>1, AtThe DEF Reenter_egress, this
<1>3. mark' = mark /\ mon' = mon /\ Heavy /\ Heavy'
      /\ (\A u \in Threads \ {t} : pc'[u] = pc[u] /\ loc'[u] = loc[u])
  BY <1>1, AtThe DEF Reenter_egress, Go, Heavy, objectVars, ClearSucc, Unlinked
<1>4. CASE node[t].TState = "ENTER" /\ Succ = t
  <2>1. om' = [om EXCEPT ![mon[t]] = [om[mon[t]] EXCEPT !.EntryList = Without(Entries, t)]]
    BY <1>1, <1>2, <1>4, AtThe DEF Reenter_egress, Go, Set, this, ClearSucc, Unlinked
  <2>2. /\ Rest /\ SameWords /\ Cxq' = Cxq /\ Entries' = Without(Entries, t) /\ Waits' = Waits
        /\ WaitLock' = WaitLock
    BY <1>1, <1>3, <2>1, OmEntries
  <2>3. /\ pc'[t] = "clearing" /\ event' = event
    BY <1>1, <1>2, <1>4, AtThe DEF Reenter_egress, Go, Set, this, ClearSucc, Unlinked
  <2>4. /\ loc'[t].spin = None /\ loc'[t].then = "wait_reentered" /\ loc'[t].w = loc[t].w
        /\ loc'[t].nxt = loc[t].nxt /\ loc'[t].inwait = loc[t].inwait
    BY <1>1, <1>2, <1>4, AtThe DEF Reenter_egress, Go, Set, this, ClearSucc, Unlinked,
       LocRec
  <2>5. /\ NodeIs(t, "RUN")
    BY <1>1, <1>2, <1>4, AtThe, NodeStored DEF Reenter_egress, Go, Set, this, ClearSucc,
       Unlinked
  <2> QED
    BY <1>1, <1>2, <1>3, <1>4, <2>2, <2>3, <2>4, <2>5 DEF Step
<1>5. CASE node[t].TState = "ENTER" /\ Succ # t
  <2>1. om' = [om EXCEPT ![mon[t]] = [om[mon[t]] EXCEPT !.EntryList = Without(Entries, t)]]
    BY <1>1, <1>2, <1>5, AtThe DEF Reenter_egress, Go, Set, this, ClearSucc, Unlinked
  <2>2. /\ Rest /\ SameWords /\ Cxq' = Cxq /\ Entries' = Without(Entries, t) /\ Waits' = Waits
        /\ WaitLock' = WaitLock
    BY <1>1, <1>3, <2>1, OmEntries
  <2>3. /\ pc'[t] = "wait_reentered" /\ event' = event
    BY <1>1, <1>2, <1>5, AtThe DEF Reenter_egress, Go, Set, this, ClearSucc, Unlinked
  <2>4. /\ loc'[t].spin = None /\ loc'[t].then = loc[t].then /\ loc'[t].w = loc[t].w
        /\ loc'[t].nxt = loc[t].nxt /\ loc'[t].inwait = loc[t].inwait
    BY <1>1, <1>2, <1>5, AtThe DEF Reenter_egress, Go, Set, this, ClearSucc, Unlinked,
       LocRec
  <2>5. /\ NodeIs(t, "RUN")
    BY <1>1, <1>2, <1>5, AtThe, NodeStored DEF Reenter_egress, Go, Set, this, ClearSucc,
       Unlinked
  <2> QED
    BY <1>1, <1>2, <1>3, <1>5, <2>2, <2>3, <2>4, <2>5 DEF Step
<1>6. CASE node[t].TState # "ENTER" /\ Succ = t
  <2>1. om' = [om EXCEPT ![mon[t]] = [om[mon[t]] EXCEPT !.cxq = Without(Cxq, t)]]
    BY <1>1, <1>2, <1>6, AtThe DEF Reenter_egress, Go, Set, this, ClearSucc, Unlinked
  <2>2. /\ Rest /\ SameWords /\ Cxq' = Without(Cxq, t) /\ Entries' = Entries /\ Waits' = Waits
        /\ WaitLock' = WaitLock
    BY <1>1, <1>3, <2>1, OmCxq
  <2>3. /\ pc'[t] = "clearing" /\ event' = event
    BY <1>1, <1>2, <1>6, AtThe DEF Reenter_egress, Go, Set, this, ClearSucc, Unlinked
  <2>4. /\ loc'[t].spin = None /\ loc'[t].then = "wait_reentered" /\ loc'[t].w = loc[t].w
        /\ loc'[t].nxt = loc[t].nxt /\ loc'[t].inwait = loc[t].inwait
    BY <1>1, <1>2, <1>6, AtThe DEF Reenter_egress, Go, Set, this, ClearSucc, Unlinked,
       LocRec
  <2>5. /\ NodeIs(t, "RUN")
    BY <1>1, <1>2, <1>6, AtThe, NodeStored DEF Reenter_egress, Go, Set, this, ClearSucc,
       Unlinked
  <2> QED
    BY <1>1, <1>2, <1>3, <1>6, <2>2, <2>3, <2>4, <2>5 DEF Step
<1>7. CASE node[t].TState # "ENTER" /\ Succ # t
  <2>1. om' = [om EXCEPT ![mon[t]] = [om[mon[t]] EXCEPT !.cxq = Without(Cxq, t)]]
    BY <1>1, <1>2, <1>7, AtThe DEF Reenter_egress, Go, Set, this, ClearSucc, Unlinked
  <2>2. /\ Rest /\ SameWords /\ Cxq' = Without(Cxq, t) /\ Entries' = Entries /\ Waits' = Waits
        /\ WaitLock' = WaitLock
    BY <1>1, <1>3, <2>1, OmCxq
  <2>3. /\ pc'[t] = "wait_reentered" /\ event' = event
    BY <1>1, <1>2, <1>7, AtThe DEF Reenter_egress, Go, Set, this, ClearSucc, Unlinked
  <2>4. /\ loc'[t].spin = None /\ loc'[t].then = loc[t].then /\ loc'[t].w = loc[t].w
        /\ loc'[t].nxt = loc[t].nxt /\ loc'[t].inwait = loc[t].inwait
    BY <1>1, <1>2, <1>7, AtThe DEF Reenter_egress, Go, Set, this, ClearSucc, Unlinked,
       LocRec
  <2>5. /\ NodeIs(t, "RUN")
    BY <1>1, <1>2, <1>7, AtThe, NodeStored DEF Reenter_egress, Go, Set, this, ClearSucc,
       Unlinked
  <2> QED
    BY <1>1, <1>2, <1>3, <1>7, <2>2, <2>3, <2>4, <2>5 DEF Step
<1> QED
  BY <1>4, <1>5, <1>6, <1>7, <1>1, <1>2, AtThe

\* The end of wait().
LEMMA Wait_endDoes ==
  ASSUME Inv, NEW t \in Threads, Wait_end(t), UNCHANGED objectVars
  PROVE  /\ Step(t) /\ pc[t] = "wait_reentered" /\ SameWords /\ SameLists /\ pc'[t] = "java"
         /\ loc'[t].spin = loc[t].spin /\ loc'[t].then = loc[t].then /\ loc'[t].w = loc[t].w
         /\ loc'[t].nxt = loc[t].nxt /\ ~loc'[t].inwait /\ node' = node /\ event' = event
<1>1. pc[t] \notin Outside
  BY DEF Wait_end, Outside
<1>2. pc[t] = "wait_reentered"
  BY <1>1, AtThe DEF Wait_end, this
<1>3. mark' = mark /\ mon' = mon /\ Heavy /\ Heavy'
      /\ (\A u \in Threads \ {t} : pc'[u] = pc[u] /\ loc'[u] = loc[u])
  BY <1>1, AtThe DEF Wait_end, Go, Heavy, objectVars
<1>4. /\ Rest /\ SameWords /\ SameLists
  BY <1>1, <1>2, <1>3, AtThe, OmEnd DEF Wait_end, Go, Set, this
<1>5. /\ pc'[t] = "java" /\ event' = event /\ node' = node
  BY <1>1, <1>2, AtThe DEF Wait_end, Go, Set, this
<1>6. /\ loc'[t].spin = loc[t].spin /\ loc'[t].then = loc[t].then /\ loc'[t].w = loc[t].w
      /\ loc'[t].nxt = loc[t].nxt /\ ~loc'[t].inwait
  BY <1>1, <1>2, AtThe DEF Wait_end, Go, Set, this, LocRec
<1> QED
  BY <1>1, <1>2, <1>3, <1>4, <1>5, <1>6 DEF Step

\* notify() and notifyAll() begin.
LEMMA Notify_beginDoes ==
  ASSUME Inv, NEW t \in Threads, Notify_begin(t), UNCHANGED objectVars
  PROVE  /\ Step(t) /\ pc[t] \in {"notify", "notifyAll"} /\ SameWords /\ SameLists
         /\ pc'[t] \in {"java", "notify_dequeue", "notifyAll_lock"} /\ loc'[t] = loc[t]
         /\ node' = node /\ event' = event
<1>1. pc[t] \notin Outside
  BY DEF Notify_begin, Outside
<1>2. pc[t] \in {"notify", "notifyAll"}
  BY <1>1, AtThe DEF Notify_begin, this
<1>3. mark' = mark /\ mon' = mon /\ Heavy /\ Heavy'
      /\ (\A u \in Threads \ {t} : pc'[u] = pc[u] /\ loc'[u] = loc[u])
  BY <1>1, AtThe DEF Notify_begin, Go, Heavy, objectVars, Checked
<1>4. /\ Rest /\ SameWords /\ SameLists
  BY <1>1, <1>2, <1>3, AtThe, OmBox DEF Notify_begin, Go, Set, this, Checked
<1>5. /\ pc'[t] \in {"java", "notify_dequeue", "notifyAll_lock"} /\ event' = event
      /\ loc'[t] = loc[t] /\ node' = node
  BY <1>1, <1>2, AtThe DEF Notify_begin, Go, Set, this, Checked
<1> QED
  BY <1>1, <1>2, <1>3, <1>4, <1>5 DEF Step

\* notify() takes a waiter.
LEMMA Notify_dequeueDoes ==
  ASSUME Inv, NEW t \in Threads, Notify_dequeue(t), UNCHANGED objectVars
  PROVE  /\ Step(t) /\ pc[t] = "notify_dequeue" /\ WaitLock = None /\ SameWords
         /\ event' = event
         /\ \/ /\ Waits = <<>> /\ SameLists /\ pc'[t] = "java" /\ loc'[t] = loc[t]
               /\ node' = node
            \/ /\ Waits # <<>> /\ Cxq' = Cxq /\ Entries' = Entries /\ Waits' = Tail(Waits)
               /\ WaitLock' = t /\ pc'[t] = "notify_set" /\ loc'[t].spin = loc[t].spin
               /\ loc'[t].then = loc[t].then /\ loc'[t].w = First(Waits)
               /\ loc'[t].nxt = loc[t].nxt /\ loc'[t].inwait = loc[t].inwait
               /\ NodeIs(First(Waits), "ENTER")
<1>1. pc[t] \notin Outside
  BY DEF Notify_dequeue, Outside
<1>2. pc[t] = "notify_dequeue" /\ WaitLock = None
  BY <1>1, AtThe DEF Notify_dequeue, this
<1>3. mark' = mark /\ mon' = mon /\ Heavy /\ Heavy'
      /\ (\A u \in Threads \ {t} : pc'[u] = pc[u] /\ loc'[u] = loc[u])
  BY <1>1, AtThe DEF Notify_dequeue, Go, Heavy, objectVars
<1>4. CASE Waits = <<>>
  <2>1. /\ Rest /\ SameWords /\ SameLists
    BY <1>1, <1>2, <1>4, <1>3, AtThe, OmNone DEF Notify_dequeue, Go, Set, this
  <2>2. /\ pc'[t] = "java" /\ event' = event /\ loc'[t] = loc[t] /\ node' = node
    BY <1>1, <1>2, <1>4, AtThe DEF Notify_dequeue, Go, Set, this
  <2> QED
    BY <1>1, <1>2, <1>3, <1>4, <2>1, <2>2 DEF Step
<1>5. CASE Waits # <<>>
  <2>1. om' = [om EXCEPT ![mon[t]] = [om[mon[t]] EXCEPT !.WaitSet = Tail(Waits), !.WaitSetLock = t]]
    BY <1>1, <1>2, <1>5, AtThe DEF Notify_dequeue, Go, Set, this
  <2>2. /\ Rest /\ SameWords /\ Cxq' = Cxq /\ Entries' = Entries /\ Waits' = Tail(Waits)
        /\ WaitLock' = t
    BY <1>1, <1>3, <2>1, OmDequeue
  <2>3. /\ pc'[t] = "notify_set" /\ event' = event
    BY <1>1, <1>2, <1>5, AtThe DEF Notify_dequeue, Go, Set, this
  <2>4. /\ loc'[t].spin = loc[t].spin /\ loc'[t].then = loc[t].then
        /\ loc'[t].w = First(Waits) /\ loc'[t].nxt = loc[t].nxt
        /\ loc'[t].inwait = loc[t].inwait
    BY <1>1, <1>2, <1>5, AtThe DEF Notify_dequeue, Go, Set, this, LocRec
  <2>5. /\ NodeIs(First(Waits), "ENTER")
    BY <1>1, <1>2, <1>5, AtThe, NodeStored DEF Notify_dequeue, Go, Set, this
  <2> QED
    BY <1>1, <1>2, <1>3, <1>5, <2>2, <2>3, <2>4, <2>5 DEF Step
<1> QED
  BY <1>4, <1>5, <1>1, <1>2, AtThe

\* notify() sets _notified.
LEMMA Notify_setDoes ==
  ASSUME Inv, NEW t \in Threads, Notify_set(t), UNCHANGED objectVars
  PROVE  /\ Step(t) /\ pc[t] = "notify_set" /\ SameWords /\ SameLists
         /\ pc'[t] = "notify_link" /\ loc'[t] = loc[t] /\ NodeNotifies(loc[t].w)
         /\ event' = event
<1>1. pc[t] \notin Outside
  BY DEF Notify_set, Outside
<1>2. pc[t] = "notify_set"
  BY <1>1, AtThe DEF Notify_set, this
<1>3. mark' = mark /\ mon' = mon /\ Heavy /\ Heavy'
      /\ (\A u \in Threads \ {t} : pc'[u] = pc[u] /\ loc'[u] = loc[u])
  BY <1>1, AtThe DEF Notify_set, Go, Heavy, objectVars
<1>4. /\ Rest /\ SameWords /\ SameLists
  BY <1>1, <1>2, <1>3, AtThe, OmNone DEF Notify_set, Go, Set, this
<1>5. /\ pc'[t] = "notify_link" /\ event' = event /\ loc'[t] = loc[t]
  BY <1>1, <1>2, AtThe DEF Notify_set, Go, Set, this
<1>6. /\ NodeNotifies(loc[t].w)
  BY <1>1, <1>2, AtThe, NodeNotified_ DEF Notify_set, Go, Set, this
<1> QED
  BY <1>1, <1>2, <1>3, <1>4, <1>5, <1>6 DEF Step

\* notify() links the waiter.
LEMMA Notify_linkDoes ==
  ASSUME Inv, NEW t \in Threads, Notify_link(t), UNCHANGED objectVars
  PROVE  /\ Step(t) /\ pc[t] = "notify_link" /\ SameWords /\ Waits' = Waits
         /\ WaitLock' = None /\ pc'[t] = "java" /\ loc'[t].spin = loc[t].spin
         /\ loc'[t].then = loc[t].then /\ loc'[t].w = None /\ loc'[t].nxt = loc[t].nxt
         /\ loc'[t].inwait = loc[t].inwait /\ event' = event
         /\ \/ /\ Entries = <<>> /\ Cxq' = Cxq /\ Entries' = <<loc[t].w>> /\ node' = node
            \/ /\ Entries # <<>> /\ Cxq' = <<loc[t].w>> \o Cxq /\ Entries' = Entries
               /\ NodeIs(loc[t].w, "CXQ")
<1>1. pc[t] \notin Outside
  BY DEF Notify_link, Outside
<1>2. pc[t] = "notify_link"
  BY <1>1, AtThe DEF Notify_link, this
<1>3. mark' = mark /\ mon' = mon /\ Heavy /\ Heavy'
      /\ (\A u \in Threads \ {t} : pc'[u] = pc[u] /\ loc'[u] = loc[u])
  BY <1>1, AtThe DEF Notify_link, Go, Heavy, objectVars
<1>4. CASE Entries = <<>>
  <2>1. om' = [om EXCEPT ![mon[t]] = [om[mon[t]] EXCEPT !.EntryList = <<loc[t].w>>, !.WaitSetLock = None]]
    BY <1>1, <1>2, <1>4, AtThe DEF Notify_link, Go, Set, this
  <2>2. /\ Rest /\ SameWords /\ Cxq' = Cxq /\ Entries' = <<loc[t].w>> /\ Waits' = Waits
        /\ WaitLock' = None
    BY <1>1, <1>3, <2>1, OmLinkEntries
  <2>3. /\ pc'[t] = "java" /\ event' = event /\ node' = node
    BY <1>1, <1>2, <1>4, AtThe DEF Notify_link, Go, Set, this
  <2>4. /\ loc'[t].spin = loc[t].spin /\ loc'[t].then = loc[t].then /\ loc'[t].w = None
        /\ loc'[t].nxt = loc[t].nxt /\ loc'[t].inwait = loc[t].inwait
    BY <1>1, <1>2, <1>4, AtThe DEF Notify_link, Go, Set, this, LocRec
  <2> QED
    BY <1>1, <1>2, <1>3, <1>4, <2>2, <2>3, <2>4 DEF Step
<1>5. CASE Entries # <<>>
  <2>1. om' = [om EXCEPT ![mon[t]] = [om[mon[t]] EXCEPT !.cxq = <<loc[t].w>> \o Cxq, !.WaitSetLock = None]]
    BY <1>1, <1>2, <1>5, AtThe DEF Notify_link, Go, Set, this
  <2>2. /\ Rest /\ SameWords /\ Cxq' = <<loc[t].w>> \o Cxq /\ Entries' = Entries
        /\ Waits' = Waits /\ WaitLock' = None
    BY <1>1, <1>3, <2>1, OmLinkCxq
  <2>3. /\ pc'[t] = "java" /\ event' = event
    BY <1>1, <1>2, <1>5, AtThe DEF Notify_link, Go, Set, this
  <2>4. /\ loc'[t].spin = loc[t].spin /\ loc'[t].then = loc[t].then /\ loc'[t].w = None
        /\ loc'[t].nxt = loc[t].nxt /\ loc'[t].inwait = loc[t].inwait
    BY <1>1, <1>2, <1>5, AtThe DEF Notify_link, Go, Set, this, LocRec
  <2>5. /\ NodeIs(loc[t].w, "CXQ")
    BY <1>1, <1>2, <1>5, AtThe, NodeStored DEF Notify_link, Go, Set, this
  <2> QED
    BY <1>1, <1>2, <1>3, <1>5, <2>2, <2>3, <2>4, <2>5 DEF Step
<1> QED
  BY <1>4, <1>5, <1>1, <1>2, AtThe

\* notifyAll() takes the WaitSetLock.
LEMMA NotifyAll_lockDoes ==
  ASSUME Inv, NEW t \in Threads, NotifyAll_lock(t), UNCHANGED objectVars
  PROVE  /\ Step(t) /\ pc[t] = "notifyAll_lock" /\ WaitLock = None /\ SameWords /\ Cxq' = Cxq
         /\ Entries' = Entries /\ Waits' = Waits /\ WaitLock' = t
         /\ pc'[t] = "notifyAll_dequeue" /\ loc'[t] = loc[t] /\ node' = node /\ event' = event
<1>1. pc[t] \notin Outside
  BY DEF NotifyAll_lock, Outside
<1>2. pc[t] = "notifyAll_lock" /\ WaitLock = None
  BY <1>1, AtThe DEF NotifyAll_lock, this
<1>3. mark' = mark /\ mon' = mon /\ Heavy /\ Heavy'
      /\ (\A u \in Threads \ {t} : pc'[u] = pc[u] /\ loc'[u] = loc[u])
  BY <1>1, AtThe DEF NotifyAll_lock, Go, Heavy, objectVars
<1>4. /\ Rest /\ SameWords /\ Cxq' = Cxq /\ Entries' = Entries /\ Waits' = Waits
      /\ WaitLock' = t
  BY <1>1, <1>2, <1>3, AtThe, OmWaitLock DEF NotifyAll_lock, Go, Set, this
<1>5. /\ pc'[t] = "notifyAll_dequeue" /\ event' = event /\ loc'[t] = loc[t] /\ node' = node
  BY <1>1, <1>2, AtThe DEF NotifyAll_lock, Go, Set, this
<1> QED
  BY <1>1, <1>2, <1>3, <1>4, <1>5 DEF Step

\* notifyAll() takes a waiter.
LEMMA NotifyAll_dequeueDoes ==
  ASSUME Inv, NEW t \in Threads, NotifyAll_dequeue(t), UNCHANGED objectVars
  PROVE  /\ Step(t) /\ pc[t] = "notifyAll_dequeue" /\ SameWords /\ Cxq' = Cxq
         /\ Entries' = Entries /\ event' = event
         /\ \/ /\ Waits = <<>> /\ Waits' = Waits /\ WaitLock' = None /\ pc'[t] = "java"
               /\ loc'[t] = loc[t] /\ node' = node
            \/ /\ Waits # <<>> /\ Waits' = Tail(Waits) /\ WaitLock' = WaitLock
               /\ pc'[t] = "notifyAll_link" /\ loc'[t].spin = loc[t].spin
               /\ loc'[t].then = loc[t].then /\ loc'[t].w = First(Waits)
               /\ loc'[t].nxt = loc[t].nxt /\ loc'[t].inwait = loc[t].inwait
               /\ NodeNotifies(First(Waits))
<1>1. pc[t] \notin Outside
  BY DEF NotifyAll_dequeue, Outside
<1>2. pc[t] = "notifyAll_dequeue"
  BY <1>1, AtThe DEF NotifyAll_dequeue, this
<1>3. mark' = mark /\ mon' = mon /\ Heavy /\ Heavy'
      /\ (\A u \in Threads \ {t} : pc'[u] = pc[u] /\ loc'[u] = loc[u])
  BY <1>1, AtThe DEF NotifyAll_dequeue, Go, Heavy, objectVars
<1>4. CASE Waits = <<>>
  <2>1. om' = [om EXCEPT ![mon[t]] = [om[mon[t]] EXCEPT !.WaitSetLock = None]]
    BY <1>1, <1>2, <1>4, AtThe DEF NotifyAll_dequeue, Go, Set, this
  <2>2. /\ Rest /\ SameWords /\ Cxq' = Cxq /\ Entries' = Entries /\ Waits' = Waits
        /\ WaitLock' = None
    BY <1>1, <1>3, <2>1, OmWaitLock
  <2>3. /\ pc'[t] = "java" /\ event' = event /\ loc'[t] = loc[t] /\ node' = node
    BY <1>1, <1>2, <1>4, AtThe DEF NotifyAll_dequeue, Go, Set, this
  <2> QED
    BY <1>1, <1>2, <1>3, <1>4, <2>2, <2>3 DEF Step
<1>5. CASE Waits # <<>>
  <2>1. om' = [om EXCEPT ![mon[t]] = [om[mon[t]] EXCEPT !.WaitSet = Tail(Waits)]]
    BY <1>1, <1>2, <1>5, AtThe DEF NotifyAll_dequeue, Go, Set, this
  <2>2. /\ Rest /\ SameWords /\ Cxq' = Cxq /\ Entries' = Entries /\ Waits' = Tail(Waits)
        /\ WaitLock' = WaitLock
    BY <1>1, <1>3, <2>1, OmWaits
  <2>3. /\ pc'[t] = "notifyAll_link" /\ event' = event
    BY <1>1, <1>2, <1>5, AtThe DEF NotifyAll_dequeue, Go, Set, this
  <2>4. loc' = [loc EXCEPT ![t].w = First(Waits)]
    BY <1>1, <1>2, <1>5, AtThe DEF NotifyAll_dequeue, Go, Set, this
  <2>5. /\ loc'[t].spin = loc[t].spin /\ loc'[t].then = loc[t].then
        /\ loc'[t].w = First(Waits) /\ loc'[t].nxt = loc[t].nxt
        /\ loc'[t].inwait = loc[t].inwait
    BY <1>1, <2>4, AtThe DEF LocRec
  <2>6. /\ NodeNotifies(First(Waits))
    BY <1>1, <1>2, <1>5, AtThe, NodeNotified_ DEF NotifyAll_dequeue, Go, Set, this
  <2> QED
    BY <1>1, <1>2, <1>3, <1>5, <2>2, <2>3, <2>5, <2>6 DEF Step
<1> QED
  BY <1>4, <1>5, <1>1, <1>2, AtThe

\* notifyAll() links the waiter.
LEMMA NotifyAll_linkDoes ==
  ASSUME Inv, NEW t \in Threads, NotifyAll_link(t), UNCHANGED objectVars
  PROVE  /\ Step(t) /\ pc[t] = "notifyAll_link" /\ SameWords /\ Cxq' = <<loc[t].w>> \o Cxq
         /\ Entries' = Entries /\ Waits' = Waits /\ WaitLock' = WaitLock
         /\ pc'[t] = "notifyAll_dequeue" /\ loc'[t].spin = loc[t].spin
         /\ loc'[t].then = loc[t].then /\ loc'[t].w = None /\ loc'[t].nxt = loc[t].nxt
         /\ loc'[t].inwait = loc[t].inwait /\ NodeIs(loc[t].w, "CXQ") /\ event' = event
<1>1. pc[t] \notin Outside
  BY DEF NotifyAll_link, Outside
<1>2. pc[t] = "notifyAll_link"
  BY <1>1, AtThe DEF NotifyAll_link, this
<1>3. mark' = mark /\ mon' = mon /\ Heavy /\ Heavy'
      /\ (\A u \in Threads \ {t} : pc'[u] = pc[u] /\ loc'[u] = loc[u])
  BY <1>1, AtThe DEF NotifyAll_link, Go, Heavy, objectVars
<1>4. /\ Rest /\ SameWords /\ Cxq' = <<loc[t].w>> \o Cxq /\ Entries' = Entries
      /\ Waits' = Waits /\ WaitLock' = WaitLock
  BY <1>1, <1>2, <1>3, AtThe, OmCxq DEF NotifyAll_link, Go, Set, this
<1>5. /\ pc'[t] = "notifyAll_dequeue" /\ event' = event
  BY <1>1, <1>2, AtThe DEF NotifyAll_link, Go, Set, this
<1>6. /\ loc'[t].spin = loc[t].spin /\ loc'[t].then = loc[t].then /\ loc'[t].w = None
      /\ loc'[t].nxt = loc[t].nxt /\ loc'[t].inwait = loc[t].inwait
  BY <1>1, <1>2, AtThe DEF NotifyAll_link, Go, Set, this, LocRec
<1>7. /\ NodeIs(loc[t].w, "CXQ")
  BY <1>1, <1>2, AtThe, NodeStored DEF NotifyAll_link, Go, Set, this
<1> QED
  BY <1>1, <1>2, <1>3, <1>4, <1>5, <1>6, <1>7 DEF Step

-----------------------------------------------------------------------------
(* The lists of the monitor *)

\* A list has the threads of S, each once.
LEMMA EmptyList ==
  ASSUME NEW S, NEW s \in Seq(NT), ListOf(s, S)
  PROVE  (s = <<>> <=> S = {}) /\ (s # <<>> => First(s) \in S /\ First(s) = s[1])
<1>1. s # <<>> => 1 \in DOMAIN s
  OBVIOUS
<1> QED
  BY <1>1 DEF ListOf, Members, First

\* The empty list.
LEMMA NoList == ListOf(<<>>, {}) /\ \A S : ListOf(<<>>, S) => S = {}
BY DEF ListOf, Members, IsInjective

\* A list of one.
LEMMA OneList ==
  ASSUME NEW x \in NT PROVE ListOf(<<x>>, {x})
BY DEF ListOf, Members, IsInjective

\* A thread is pushed on the front.
LEMMA PushList ==
  ASSUME NEW S, NEW s \in Seq(NT), ListOf(s, S), NEW x \in NT, x \notin S
  PROVE  ListOf(<<x>> \o s, S \cup {x})
<1> DEFINE r == <<x>> \o s
<1>1. r \in Seq(NT) /\ Len(r) = Len(s) + 1 /\ r[1] = x /\ (\A i \in 1..Len(s) : r[i + 1] = s[i])
  OBVIOUS
<1>2. \A i \in 2..Len(r) : i - 1 \in 1..Len(s) /\ r[i] = s[i - 1]
  BY <1>1
<1> HIDE DEF r
<1>3. \A i \in 1..Len(s) : s[i] \in S
  BY DEF ListOf, Members
<1>4. IsInjective(r)
  <2> SUFFICES ASSUME NEW a \in 1..Len(r), NEW b \in 1..Len(r), r[a] = r[b] PROVE a = b
    BY <1>1 DEF IsInjective
  <2>1. CASE a = 1 /\ b = 1
    BY <2>1
  <2>2. CASE a = 1 /\ b # 1
    <3>1. b \in 2..Len(r) BY <2>2, <1>1
    <3>2. r[b] \in S BY <3>1, <1>2, <1>3
    <3> QED BY <2>2, <3>2, <1>1
  <2>3. CASE a # 1 /\ b = 1
    <3>1. a \in 2..Len(r) BY <2>3, <1>1
    <3>2. r[a] \in S BY <3>1, <1>2, <1>3
    <3> QED BY <2>3, <3>2, <1>1
  <2>4. CASE a # 1 /\ b # 1
    <3>1. s[a - 1] = s[b - 1] /\ a - 1 \in 1..Len(s) /\ b - 1 \in 1..Len(s)
      BY <2>4, <1>1, <1>2
    <3>2. a - 1 = b - 1
      BY <3>1 DEF ListOf, IsInjective
    <3> QED BY <3>2
  <2> QED BY <2>1, <2>2, <2>3, <2>4
<1>5. Members(r) = S \cup {x}
  <2>1. ASSUME NEW y \in Members(r) PROVE y \in S \cup {x}
    <3>1. PICK i \in 1..Len(r) : r[i] = y
      BY <1>1, <2>1 DEF Members
    <3>2. CASE i = 1
      BY <3>1, <3>2, <1>1
    <3>3. CASE i # 1
      <4>1. i \in 2..Len(r) BY <3>3, <1>1
      <4> QED BY <4>1, <3>1, <1>2, <1>3
    <3> QED BY <3>2, <3>3
  <2>2. ASSUME NEW y \in S PROVE y \in Members(r)
    <3>1. PICK i \in 1..Len(s) : s[i] = y
      BY <2>2 DEF ListOf, Members
    <3>2. i + 1 \in DOMAIN r /\ r[i + 1] = y
      BY <3>1, <1>1
    <3> QED BY <3>2 DEF Members
  <2>3. x \in Members(r)
    <3>1. 1 \in DOMAIN r BY <1>1
    <3> QED BY <3>1, <1>1 DEF Members
  <2> QED BY <2>1, <2>2, <2>3
<1> QED
  BY <1>4, <1>5 DEF ListOf, r

\* A thread is appended.
LEMMA AppendList ==
  ASSUME NEW S, NEW s \in Seq(NT), ListOf(s, S), NEW x \in NT, x \notin S
  PROVE  ListOf(Append(s, x), S \cup {x})
<1> DEFINE r == Append(s, x)
<1>1. r \in Seq(NT) /\ Len(r) = Len(s) + 1 /\ r[Len(s) + 1] = x /\ (\A i \in 1..Len(s) : r[i] = s[i])
  OBVIOUS
<1> HIDE DEF r
<1>3. \A i \in 1..Len(s) : s[i] \in S
  BY DEF ListOf, Members
<1>4. IsInjective(r)
  <2> SUFFICES ASSUME NEW a \in 1..Len(r), NEW b \in 1..Len(r), r[a] = r[b] PROVE a = b
    BY <1>1 DEF IsInjective
  <2>1. CASE a \in 1..Len(s) /\ b \in 1..Len(s)
    <3>1. s[a] = s[b] BY <2>1, <1>1
    <3> QED BY <2>1, <3>1 DEF ListOf, IsInjective
  <2>2. CASE ~(a \in 1..Len(s) /\ b \in 1..Len(s))
    BY <2>2, <1>1, <1>3
  <2> QED BY <2>1, <2>2
<1>5. Members(r) = S \cup {x}
  <2>1. ASSUME NEW y \in Members(r) PROVE y \in S \cup {x}
    <3>1. PICK i \in 1..Len(r) : r[i] = y
      BY <1>1, <2>1 DEF Members
    <3> QED BY <3>1, <1>1, <1>3
  <2>2. ASSUME NEW y \in S PROVE y \in Members(r)
    <3>1. PICK i \in 1..Len(s) : s[i] = y
      BY <2>2 DEF ListOf, Members
    <3>2. i \in DOMAIN r /\ r[i] = y
      BY <3>1, <1>1
    <3> QED BY <3>2 DEF Members
  <2>3. x \in Members(r)
    <3>1. Len(s) + 1 \in DOMAIN r BY <1>1
    <3> QED BY <3>1, <1>1 DEF Members
  <2> QED BY <2>1, <2>2, <2>3
<1> QED
  BY <1>4, <1>5 DEF ListOf, r

\* The first is taken off.
LEMMA TailList ==
  ASSUME NEW S, NEW s \in Seq(NT), ListOf(s, S), s # <<>>
  PROVE  ListOf(Tail(s), S \ {First(s)}) /\ First(s) \in S
<1> DEFINE r == Tail(s)
<1>1. r \in Seq(NT) /\ Len(r) = Len(s) - 1 /\ (\A i \in 1..Len(r) : r[i] = s[i + 1] /\ i + 1 \in 1..Len(s))
  OBVIOUS
<1>2. First(s) = s[1] /\ 1 \in 1..Len(s)
  BY DEF First
<1> HIDE DEF r
<1>3. \A i \in 1..Len(s) : s[i] \in S
  BY DEF ListOf, Members
<1>4. \A a, b \in 1..Len(s) : s[a] = s[b] => a = b
  BY DEF ListOf, IsInjective
<1>5. IsInjective(r)
  <2> SUFFICES ASSUME NEW a \in 1..Len(r), NEW b \in 1..Len(r), r[a] = r[b] PROVE a = b
    BY <1>1 DEF IsInjective
  <2>1. a + 1 = b + 1
    BY <1>1, <1>4
  <2> QED BY <2>1
<1>6. Members(r) = S \ {s[1]}
  <2>1. ASSUME NEW y \in Members(r) PROVE y \in S \ {s[1]}
    <3>1. PICK i \in 1..Len(r) : r[i] = y
      BY <1>1, <2>1 DEF Members
    <3>2. i + 1 # 1
      BY <3>1
    <3> QED BY <3>1, <3>2, <1>1, <1>2, <1>3, <1>4
  <2>2. ASSUME NEW y \in S, y # s[1] PROVE y \in Members(r)
    <3>1. PICK i \in 1..Len(s) : s[i] = y
      BY <2>2 DEF ListOf, Members
    <3>2. i # 1 /\ i - 1 \in 1..Len(r) /\ r[i - 1] = y
      BY <3>1, <2>2, <1>1
    <3>3. i - 1 \in DOMAIN r
      BY <3>2, <1>1
    <3> QED BY <3>2, <3>3 DEF Members
  <2> QED BY <2>1, <2>2
<1> QED
  BY <1>2, <1>3, <1>5, <1>6 DEF ListOf, r

\* A thread is unlinked.
LEMMA WithoutList ==
  ASSUME NEW S, NEW s \in Seq(NT), ListOf(s, S), NEW x \in S
  PROVE  ListOf(Without(s, x), S \ {x})
<1>1. \A i \in 1..Len(s) : s[i] \in S
  BY DEF ListOf, Members
<1>2. \A a, b \in 1..Len(s) : s[a] = s[b] => a = b
  BY DEF ListOf, IsInjective
<1> DEFINE k == CHOOSE i \in 1..Len(s) : s[i] = x
<1>3. \E i \in 1..Len(s) : s[i] = x
  BY DEF ListOf, Members
<1>4. k \in 1..Len(s) /\ s[k] = x /\ Len(s) \in Nat
  BY <1>3
<1> DEFINE r == [i \in 1..Len(s) - 1 |-> IF i < k THEN s[i] ELSE s[i + 1]]
<1>5. Without(s, x) = r
  BY <1>3 DEF Without
<1> HIDE DEF k
<1>6. DOMAIN r = 1..Len(s) - 1 /\ \A i \in 1..Len(s) - 1 : r[i] = IF i < k THEN s[i] ELSE s[i + 1]
  OBVIOUS
<1> HIDE DEF r
<1>7. IsInjective(r)
  <2> SUFFICES ASSUME NEW a \in 1..Len(s) - 1, NEW b \in 1..Len(s) - 1, r[a] = r[b] PROVE a = b
    BY <1>6 DEF IsInjective
  <2>1. a \in 1..Len(s) /\ b \in 1..Len(s) /\ a + 1 \in 1..Len(s) /\ b + 1 \in 1..Len(s)
    BY <1>4
  <2>2. CASE a < k /\ b < k
    BY <2>1, <2>2, <1>2, <1>6
  <2>3. CASE a < k /\ ~(b < k)
    <3>1. s[a] = s[b + 1] BY <2>3, <1>6
    <3>2. a = b + 1 BY <3>1, <2>1, <1>2
    <3> QED BY <3>2, <2>3, <1>4
  <2>4. CASE ~(a < k) /\ b < k
    <3>1. s[a + 1] = s[b] BY <2>4, <1>6
    <3>2. a + 1 = b BY <3>1, <2>1, <1>2
    <3> QED BY <3>2, <2>4, <1>4
  <2>5. CASE ~(a < k) /\ ~(b < k)
    <3>1. s[a + 1] = s[b + 1] BY <2>5, <1>6
    <3>2. a + 1 = b + 1 BY <3>1, <2>1, <1>2
    <3> QED BY <3>2
  <2> QED BY <2>2, <2>3, <2>4, <2>5
<1>8. Members(r) = S \ {x}
  <2>1. ASSUME NEW y \in Members(r) PROVE y \in S \ {x}
    <3>1. PICK i \in 1..Len(s) - 1 : r[i] = y
      BY <1>6, <2>1 DEF Members
    <3>2. i \in 1..Len(s) /\ i + 1 \in 1..Len(s)
      BY <1>4
    <3>3. CASE i < k
      BY <3>1, <3>2, <3>3, <1>1, <1>2, <1>4, <1>6
    <3>4. CASE ~(i < k)
      <4>1. i + 1 # k BY <3>4, <1>4
      <4> QED BY <3>1, <3>2, <3>4, <4>1, <1>1, <1>2, <1>4, <1>6
    <3> QED BY <3>3, <3>4
  <2>2. ASSUME NEW y \in S, y # x PROVE y \in Members(r)
    <3>1. PICK i \in 1..Len(s) : s[i] = y
      BY <2>2 DEF ListOf, Members
    <3>2. i # k
      BY <3>1, <2>2, <1>4
    <3>3. CASE i < k
      <4>1. i \in 1..Len(s) - 1 /\ r[i] = y BY <3>1, <3>3, <1>4, <1>6
      <4> QED BY <4>1, <1>6 DEF Members
    <3>4. CASE ~(i < k)
      <4>1. i - 1 \in 1..Len(s) - 1 /\ ~(i - 1 < k) /\ (i - 1) + 1 = i BY <3>2, <3>4, <1>4
      <4>2. r[i - 1] = y BY <4>1, <3>1, <1>6
      <4> QED BY <4>1, <4>2, <1>6 DEF Members
    <3> QED BY <3>3, <3>4
  <2> QED BY <2>1, <2>2
<1> QED
  BY <1>5, <1>7, <1>8 DEF ListOf

=============================================================================
