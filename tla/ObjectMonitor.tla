---------------------------- MODULE ObjectMonitor ----------------------------
(***************************************************************************)
(* The heavyweight Java monitor, ObjectMonitor of runtime/synchronizer.cpp *)
(* with the default knobs: ExitPolicy and QMode 0 (drop the lock first,    *)
(* look for a successor afterwards; cxq drains into EntryList in order),   *)
(* MoveNotifyee 2, SpinEarly, SpinAfterFutile and SpinSetSucc on,          *)
(* SyncFlags 0.  A step makes one access to a word that another thread may *)
(* write or test meanwhile; what commutes with the steps of the others (an *)
(* owner's reads of EntryList, the count of contenders) is part of the     *)
(* step before or after it.                                                *)
(*                                                                         *)
(* An ObjectWaiter lives on the stack of EnterI or wait.  A thread has at  *)
(* most one on a list of the monitor: node[t] (when wait() calls enter()   *)
(* its own node is off every list).  A ParkEvent is the abstract event of  *)
(* AbstractEvent: park consumes a pending unpark or waits for one.         *)
(***************************************************************************)
EXTENDS Naturals, Sequences, SequencesExt

CONSTANTS Threads,   \* the Java threads
          Spinners,  \* the threads with a budget to spin
          Monitors,  \* the monitors of the blocks
          None       \* NULL

VARIABLES om,          \* the fields of each monitor
          pc,          \* where each thread stands
          mon,         \* the monitor a thread works on: this
          node,        \* its ObjectWaiter
          event,       \* its _ParkEvent: 1 when an unpark is pending
          interrupted, \* osthread->interrupted()
          loc          \* locals: spin, then, nxt, w, save, wasNotified,
                       \* timed, inwait, target

this(t) == om[mon[t]]

Go(t, label) == pc' = [pc EXCEPT ![t] = label]

Set(t, r) == om' = [om EXCEPT ![mon[t]] = r]

\* The fields of a monitor fresh from the free list; header and object are
\* the concern of ObjectSynchronizer.
Idle == [owner |-> None, box |-> FALSE, recursions |-> 0, count |-> 0,
         waiters |-> 0, succ |-> None, Responsible |-> None, cxq |-> <<>>,
         EntryList |-> <<>>, WaitSet |-> <<>>, WaitSetLock |-> None,
         header |-> None, object |-> FALSE]

NoNode == [TState |-> "RUN", notified |-> 0]

NoLocals == [spin |-> None, then |-> None, nxt |-> None, w |-> None,
             save |-> 0, wasNotified |-> 0, timed |-> FALSE, inwait |-> FALSE,
             target |-> None]

\* Where enter() and exit() return to: to Java code, or into wait().
EnterReturn(t) == IF loc[t].inwait THEN "wait_reentered" ELSE "java"

ExitReturn(t) == IF loc[t].inwait THEN "wait_exited" ELSE "java"

IsOwner(t) == this(t).owner = t /\ ~this(t).box

\* if (_succ == Self) _succ = NULL : the read, then Clear_store.
ClearSucc(t, label) ==
  IF this(t).succ = t
  THEN Go(t, "clearing") /\ loc' = [loc EXCEPT ![t].spin = None, ![t].then = label]
  ELSE Go(t, label) /\ loc' = [loc EXCEPT ![t].spin = None]

-----------------------------------------------------------------------------
(* TryLock and TrySpin *)

\* TryLock: test, then CAS.  Losing the CAS is finding the lock held.
TryLock(t, got, failed) ==
  IF this(t).owner = None
  THEN Set(t, [this(t) EXCEPT !.owner = t]) /\ Go(t, got)
  ELSE UNCHANGED om /\ Go(t, failed)

Spin(t, caller) == Go(t, "spin") /\ loc' = [loc EXCEPT ![t].spin = caller]

SpinGot(t) ==
  IF loc[t].spin = "enter" THEN EnterReturn(t)
  ELSE IF loc[t].spin = "EnterI" THEN "entered"
  ELSE IF loc[t].spin = "woken" THEN "egress" ELSE "reegress"

SpinFailed(t) ==
  IF loc[t].spin = "enter" THEN "EnterI"
  ELSE IF loc[t].spin = "EnterI" THEN "enqueue"
  ELSE IF loc[t].spin = "woken" THEN "futile" ELSE "repark"

SpinEnd(t) == loc' = [loc EXCEPT ![t].spin = None]

\* The PreSpin tries, then either an egress (no spin budget, too many
\* spinners, an owner that does not run) or the spin proper.
Spin_try(t) ==
  /\ pc[t] = "spin"
  /\ \/ TryLock(t, SpinGot(t), SpinFailed(t)) /\ SpinEnd(t)
     \/ /\ t \in Spinners
        /\ this(t).owner # None
        /\ Go(t, "spin_succ")
        /\ UNCHANGED <<om, loc>>
  /\ UNCHANGED <<mon, node, event, interrupted>>

\* if (_succ == NULL) _succ = Self : a read and a store.
Spin_succ(t) ==
  /\ pc[t] = "spin_succ"
  /\ Go(t, IF this(t).succ = None THEN "spin_store" ELSE "spinning")
  /\ UNCHANGED <<om, mon, node, event, interrupted, loc>>

Spin_store(t) ==
  /\ pc[t] = "spin_store"
  /\ Set(t, [this(t) EXCEPT !.succ = t])
  /\ Go(t, "spinning")
  /\ UNCHANGED <<mon, node, event, interrupted, loc>>

Spin_again(t) ==
  /\ pc[t] = "spinning"
  /\ this(t).owner # None
  /\ Go(t, "spin_succ")
  /\ UNCHANGED <<om, mon, node, event, interrupted, loc>>

Spin_got(t) ==
  /\ pc[t] = "spinning"
  /\ this(t).owner = None
  /\ Set(t, [this(t) EXCEPT !.owner = t])
  /\ ClearSucc(t, SpinGot(t))
  /\ UNCHANGED <<mon, node, event, interrupted>>

Spin_abort(t) ==
  /\ pc[t] = "spinning"
  /\ IF this(t).succ = t
     THEN Go(t, "spin_clear") /\ UNCHANGED loc
     ELSE Go(t, SpinFailed(t)) /\ SpinEnd(t)
  /\ UNCHANGED <<om, mon, node, event, interrupted>>

Spin_clear(t) ==
  /\ pc[t] = "spin_clear"
  /\ Set(t, [this(t) EXCEPT !.succ = None])
  /\ Go(t, "spin_retry")
  /\ UNCHANGED <<mon, node, event, interrupted, loc>>

Spin_retry(t) ==
  /\ pc[t] = "spin_retry"
  /\ TryLock(t, SpinGot(t), SpinFailed(t)) /\ SpinEnd(t)
  /\ UNCHANGED <<mon, node, event, interrupted>>

Clear_store(t) ==
  /\ pc[t] = "clearing"
  /\ Set(t, [this(t) EXCEPT !.succ = None])
  /\ Go(t, loc[t].then)
  /\ loc' = [loc EXCEPT ![t].then = None]
  /\ UNCHANGED <<mon, node, event, interrupted>>

TrySpin(t) ==
  \/ Spin_try(t)
  \/ Spin_succ(t)
  \/ Spin_store(t)
  \/ Spin_again(t)
  \/ Spin_got(t)
  \/ Spin_abort(t)
  \/ Spin_clear(t)
  \/ Spin_retry(t)
  \/ Clear_store(t)

-----------------------------------------------------------------------------
(* enter, EnterI *)

Enter_cas(t) ==
  /\ pc[t] = "enter"
  /\ this(t).owner = None
  /\ Set(t, [this(t) EXCEPT !.owner = t])
  /\ Go(t, EnterReturn(t))
  /\ UNCHANGED <<mon, node, event, interrupted, loc>>

\* A recursive enter; an owner word that is the address of one of our
\* BasicLocks becomes the thread.
Enter_recursive(t) ==
  /\ pc[t] = "enter"
  /\ this(t).owner = t
  /\ Set(t, [this(t) EXCEPT !.box = FALSE,
                            !.recursions = IF this(t).box THEN 1 ELSE @ + 1])
  /\ Go(t, EnterReturn(t))
  /\ UNCHANGED <<mon, node, event, interrupted, loc>>

Enter_contended(t) ==
  /\ pc[t] = "enter"
  /\ this(t).owner \notin {None, t}
  /\ Spin(t, "enter")
  /\ UNCHANGED <<om, mon, node, event, interrupted>>

\* Variant: the contender is not counted, so the monitor looks idle.
EnterUncounted(t) ==
  /\ pc[t] = "EnterI"
  /\ \/ /\ this(t).owner = None
        /\ Set(t, [this(t) EXCEPT !.owner = t])
        /\ Go(t, "entered")
        /\ UNCHANGED loc
     \/ /\ this(t).owner # None
        /\ Spin(t, "EnterI")
        /\ UNCHANGED om
  /\ UNCHANGED <<mon, node, event, interrupted>>

\* _count keeps deflation away; then the thread is _thread_blocked, and
\* EnterI tries the lock.
EnterI(t) ==
  /\ pc[t] = "EnterI"
  /\ \/ /\ this(t).owner = None
        /\ Set(t, [this(t) EXCEPT !.count = @ + 1, !.owner = t])
        /\ Go(t, "entered")
        /\ UNCHANGED loc
     \/ /\ this(t).owner # None
        /\ Set(t, [this(t) EXCEPT !.count = @ + 1])
        /\ Spin(t, "EnterI")
  /\ UNCHANGED <<mon, node, event, interrupted>>

First(s) == IF s = <<>> THEN None ELSE s[1]

\* The node is set up and _cxq read.
Enqueue(t) ==
  /\ pc[t] = "enqueue"
  /\ node' = [node EXCEPT ![t] = [TState |-> "CXQ", notified |-> 0]]
  /\ event' = [event EXCEPT ![t] = 0]
  /\ loc' = [loc EXCEPT ![t].nxt = First(this(t).cxq)]
  /\ Go(t, "push")
  /\ UNCHANGED <<om, mon, interrupted>>

Push(t) ==
  /\ pc[t] = "push"
  /\ First(this(t).cxq) = loc[t].nxt
  /\ Set(t, [this(t) EXCEPT !.cxq = <<t>> \o @])
  /\ Go(t, IF loc[t].nxt = None THEN "responsible" ELSE "contend")
  /\ UNCHANGED <<mon, node, event, interrupted, loc>>

\* Interference: the CAS failed; the lock is tried, then the next CAS.
Push_failed(t) ==
  /\ pc[t] = "push"
  /\ First(this(t).cxq) # loc[t].nxt
  /\ TryLock(t, "entered", "push")
  /\ loc' = [loc EXCEPT ![t].nxt = First(this(t).cxq)]
  /\ UNCHANGED <<mon, node, event, interrupted>>

\* The first to contend takes the role of the thread that polls.
Responsible_read(t) ==
  /\ pc[t] = "responsible"
  /\ Go(t, IF this(t).EntryList = <<>> THEN "responsible_cas" ELSE "contend")
  /\ UNCHANGED <<om, mon, node, event, interrupted, loc>>

\* Variant: no thread takes the role, so every park is untimed.
NobodyResponsible(t) ==
  /\ pc[t] = "responsible_cas"
  /\ Go(t, "contend")
  /\ UNCHANGED <<om, mon, node, event, interrupted, loc>>

Responsible_cas(t) ==
  /\ pc[t] = "responsible_cas"
  /\ Set(t, [this(t) EXCEPT !.Responsible = IF @ = None THEN t ELSE @])
  /\ Go(t, "contend")
  /\ UNCHANGED <<mon, node, event, interrupted, loc>>

Contend(t) ==
  /\ pc[t] = "contend"
  /\ TryLock(t, "egress", "park?")
  /\ UNCHANGED <<mon, node, event, interrupted, loc>>

Park_kind(t) ==
  /\ pc[t] = "park?"
  /\ Go(t, IF this(t).Responsible = t THEN "park_timed" ELSE "park")
  /\ UNCHANGED <<om, mon, node, event, interrupted, loc>>

Park(t) ==
  /\ pc[t] \in {"park", "park_timed"}
  /\ event[t] = 1 \/ pc[t] = "park_timed"
  /\ event' = [event EXCEPT ![t] = 0]
  /\ Go(t, "woken")
  /\ UNCHANGED <<om, mon, node, interrupted, loc>>

Woken(t) ==
  /\ pc[t] = "woken"
  /\ \/ /\ this(t).owner = None
        /\ Set(t, [this(t) EXCEPT !.owner = t]) /\ Go(t, "egress")
        /\ UNCHANGED loc
     \/ /\ this(t).owner # None
        /\ Spin(t, "woken")
        /\ UNCHANGED om
  /\ UNCHANGED <<mon, node, event, interrupted>>

\* A futile wakeup: after clearing _succ the thread retries the lock.
Futile(t) ==
  /\ pc[t] = "futile"
  /\ ClearSucc(t, "contend")
  /\ UNCHANGED <<om, mon, node, event, interrupted>>

\* The list s without t.
Without(s, t) ==
  LET at == CHOOSE i \in 1..Len(s) : s[i] = t IN
  IF \E i \in 1..Len(s) : s[i] = t
  THEN [i \in 1..Len(s) - 1 |-> IF i < at THEN s[i] ELSE s[i + 1]]
  ELSE s

\* UnlinkAfterAcquire: the owner finds its node where TState says.
Unlinked(t) ==
  IF node[t].TState = "ENTER"
  THEN [this(t) EXCEPT !.EntryList = Without(@, t)]
  ELSE [this(t) EXCEPT !.cxq = Without(@, t)]

\* Variant: the new owner leaves itself named as the successor.
EgressNamed(t) ==
  /\ pc[t] = "egress"
  /\ Set(t, Unlinked(t))
  /\ node' = [node EXCEPT ![t].TState = "RUN"]
  /\ Go(t, "entered")
  /\ UNCHANGED <<mon, event, interrupted, loc>>

Egress(t) ==
  /\ pc[t] = "egress"
  /\ Set(t, Unlinked(t))
  /\ node' = [node EXCEPT ![t].TState = "RUN"]
  /\ ClearSucc(t, "entered")
  /\ UNCHANGED <<mon, event, interrupted>>

\* The end of EnterI and of enter.
Entered(t) ==
  /\ pc[t] = "entered"
  /\ Set(t, [this(t) EXCEPT !.Responsible = IF @ = t THEN None ELSE @,
                            !.count = @ - 1])
  /\ node' = [node EXCEPT ![t].TState = "RUN"]
  /\ Go(t, EnterReturn(t))
  /\ loc' = [loc EXCEPT ![t].nxt = None]
  /\ UNCHANGED <<mon, event, interrupted>>

Enter(t) ==
  \/ Enter_cas(t)
  \/ Enter_recursive(t)
  \/ Enter_contended(t)
  \/ EnterI(t)
  \/ Enqueue(t)
  \/ Push(t)
  \/ Push_failed(t)
  \/ Responsible_read(t)
  \/ Responsible_cas(t)
  \/ Contend(t)
  \/ Park_kind(t)
  \/ Park(t)
  \/ Woken(t)
  \/ Futile(t)
  \/ Egress(t)
  \/ Entered(t)

-----------------------------------------------------------------------------
(* exit, ExitEpilog *)

\* exit() up to its loop: the owner word becomes the thread, a recursive
\* exit only counts down, and the role of the Responsible is withdrawn.
Exit_prolog(t) ==
  /\ pc[t] = "exit"
  /\ this(t).owner = t
  /\ IF this(t).recursions # 0
     THEN /\ Set(t, [this(t) EXCEPT !.recursions = @ - 1])
          /\ Go(t, ExitReturn(t))
     ELSE /\ Set(t, [this(t) EXCEPT !.box = FALSE, !.Responsible = None])
          /\ Go(t, "drop")
  /\ UNCHANGED <<mon, node, event, interrupted, loc>>

Drop(t) ==
  /\ pc[t] = "drop"
  /\ Set(t, [this(t) EXCEPT !.owner = None])
  /\ Go(t, "exit_EntryList")
  /\ UNCHANGED <<mon, node, event, interrupted, loc>>

Exit_EntryList(t) ==
  /\ pc[t] = "exit_EntryList"
  /\ Go(t, IF this(t).EntryList = <<>> THEN "exit_cxq" ELSE "exit_succ")
  /\ UNCHANGED <<om, mon, node, event, interrupted, loc>>

Exit_cxq(t) ==
  /\ pc[t] = "exit_cxq"
  /\ Go(t, IF this(t).cxq = <<>> THEN ExitReturn(t) ELSE "exit_succ")
  /\ UNCHANGED <<om, mon, node, event, interrupted, loc>>

\* An heir presumptive is awake already: nothing to do.
Exit_succ(t) ==
  /\ pc[t] = "exit_succ"
  /\ Go(t, IF this(t).succ # None THEN ExitReturn(t) ELSE "exit_cas")
  /\ UNCHANGED <<om, mon, node, event, interrupted, loc>>

\* Whoever took the lock meanwhile has taken over the duty to wake; who
\* gets it back wakes the head of EntryList.
Exit_cas(t) ==
  /\ pc[t] = "exit_cas"
  /\ IF this(t).owner # None \/ this(t).EntryList = <<>>
     THEN TryLock(t, "drain", ExitReturn(t)) /\ UNCHANGED loc
     ELSE /\ Set(t, [this(t) EXCEPT !.owner = t]) /\ Go(t, "epilog")
          /\ loc' = [loc EXCEPT ![t].w = First(this(t).EntryList)]
  /\ UNCHANGED <<mon, node, event, interrupted>>

\* Variant: drained nodes keep the state of a node on cxq.
DrainWithoutState(t) ==
  /\ pc[t] = "drain"
  /\ this(t).cxq # <<>>
  /\ Set(t, [this(t) EXCEPT !.EntryList = this(t).cxq, !.cxq = <<>>])
  /\ Go(t, "drained")
  /\ UNCHANGED <<mon, node, event, interrupted, loc>>

\* cxq is detached whole by CAS and becomes the EntryList.
Drain(t) ==
  /\ pc[t] = "drain"
  /\ this(t).cxq # <<>>
  /\ Set(t, [this(t) EXCEPT !.EntryList = this(t).cxq, !.cxq = <<>>])
  /\ node' = [u \in Threads |-> IF \E i \in DOMAIN this(t).cxq : this(t).cxq[i] = u
                                THEN [node[u] EXCEPT !.TState = "ENTER"]
                                ELSE node[u]]
  /\ Go(t, "drained")
  /\ UNCHANGED <<mon, event, interrupted, loc>>

Drain_none(t) ==
  /\ pc[t] = "drain"
  /\ this(t).cxq = <<>>
  /\ Go(t, "drop")
  /\ UNCHANGED <<om, mon, node, event, interrupted, loc>>

Drained(t) ==
  /\ pc[t] = "drained"
  /\ IF this(t).succ # None
     THEN Go(t, "drop") /\ UNCHANGED loc
     ELSE /\ loc' = [loc EXCEPT ![t].w = First(this(t).EntryList)]
          /\ Go(t, "epilog")
  /\ UNCHANGED <<om, mon, node, event, interrupted>>

Epilog_succ(t) ==
  /\ pc[t] = "epilog"
  /\ Set(t, [this(t) EXCEPT !.succ = loc[t].w])
  /\ Go(t, "epilog_drop")
  /\ UNCHANGED <<mon, node, event, interrupted, loc>>

Epilog_drop(t) ==
  /\ pc[t] = "epilog_drop"
  /\ Set(t, [this(t) EXCEPT !.owner = None])
  /\ Go(t, "epilog_unpark")
  /\ UNCHANGED <<mon, node, event, interrupted, loc>>

Epilog_unpark(t) ==
  /\ pc[t] = "epilog_unpark"
  /\ event' = [event EXCEPT ![loc[t].w] = 1]
  /\ Go(t, ExitReturn(t))
  /\ loc' = [loc EXCEPT ![t].w = None]
  /\ UNCHANGED <<om, mon, node, interrupted>>

Exit(t) ==
  \/ Exit_prolog(t)
  \/ Drop(t)
  \/ Exit_EntryList(t)
  \/ Exit_cxq(t)
  \/ Exit_succ(t)
  \/ Exit_cas(t)
  \/ Drain_none(t)
  \/ Drain(t)
  \/ Drained(t)
  \/ Epilog_succ(t)
  \/ Epilog_drop(t)
  \/ Epilog_unpark(t)

-----------------------------------------------------------------------------
(* The unlock of compiled code on an inflated monitor: with no contender   *)
(* in sight a plain store drops the lock ("1-0"), without the fence and    *)
(* the second look of exit().                                              *)

Unlock_cxq(t) ==
  /\ pc[t] = "unlock"
  /\ Go(t, IF ~IsOwner(t) \/ this(t).recursions # 0 THEN "fast_exit"
           ELSE IF this(t).cxq = <<>> THEN "unlock_EntryList" ELSE "unlock_succ")
  /\ UNCHANGED <<om, mon, node, event, interrupted, loc>>

Unlock_EntryList(t) ==
  /\ pc[t] = "unlock_EntryList"
  /\ Go(t, IF this(t).EntryList = <<>> THEN "unlock_store" ELSE "unlock_succ")
  /\ UNCHANGED <<om, mon, node, event, interrupted, loc>>

Unlock_store(t) ==
  /\ pc[t] = "unlock_store"
  /\ Set(t, [this(t) EXCEPT !.owner = None])
  /\ Go(t, "java")
  /\ UNCHANGED <<mon, node, event, interrupted, loc>>

\* CheckSucc: a named successor lets the lock go without the slow path,
\* provided that it is still named once the lock is dropped.
Unlock_succ(t) ==
  /\ pc[t] = "unlock_succ"
  /\ Go(t, IF this(t).succ = None THEN "fast_exit" ELSE "unlock_drop")
  /\ UNCHANGED <<om, mon, node, event, interrupted, loc>>

Unlock_drop(t) ==
  /\ pc[t] = "unlock_drop"
  /\ Set(t, [this(t) EXCEPT !.owner = None])
  /\ Go(t, "unlock_recheck")
  /\ UNCHANGED <<mon, node, event, interrupted, loc>>

Unlock_recheck(t) ==
  /\ pc[t] = "unlock_recheck"
  /\ Go(t, IF this(t).succ # None THEN "java" ELSE "unlock_cas")
  /\ UNCHANGED <<om, mon, node, event, interrupted, loc>>

Unlock_cas(t) ==
  /\ pc[t] = "unlock_cas"
  /\ TryLock(t, "fast_exit", "java")
  /\ UNCHANGED <<mon, node, event, interrupted, loc>>

Fast_Unlock(t) ==
  \/ Unlock_cxq(t)
  \/ Unlock_EntryList(t)
  \/ Unlock_store(t)
  \/ Unlock_succ(t)
  \/ Unlock_drop(t)
  \/ Unlock_recheck(t)
  \/ Unlock_cas(t)

-----------------------------------------------------------------------------
(* wait, ReenterI *)

\* CHECK_OWNER of a caller that owns the monitor.
Checked(t) == [this(t) EXCEPT !.box = FALSE,
                              !.recursions = IF this(t).box THEN 0 ELSE @]

\* An interrupt that is pending already: InterruptedException.
Wait_interrupted(t) ==
  /\ pc[t] = "wait"
  /\ this(t).owner = t
  /\ interrupted[t]
  /\ interrupted' = [interrupted EXCEPT ![t] = FALSE]
  /\ Set(t, Checked(t))
  /\ Go(t, "java")
  /\ UNCHANGED <<mon, node, event, loc>>

Wait_node(t) ==
  /\ pc[t] = "wait"
  /\ this(t).owner = t
  /\ ~interrupted[t]
  /\ Set(t, Checked(t))
  /\ node' = [node EXCEPT ![t] = [TState |-> "WAIT", notified |-> 0]]
  /\ event' = [event EXCEPT ![t] = 0]
  /\ Go(t, "wait_add")
  /\ UNCHANGED <<mon, interrupted, loc>>

\* AddWaiter under the WaitSetLock; then exit() with the recursions saved.
Wait_add(t) ==
  /\ pc[t] = "wait_add"
  /\ this(t).WaitSetLock = None
  /\ Set(t, [this(t) EXCEPT !.WaitSet = Append(@, t), !.Responsible = None,
                            !.waiters = @ + 1, !.recursions = 0])
  /\ loc' = [loc EXCEPT ![t].save = this(t).recursions, ![t].inwait = TRUE]
  /\ Go(t, "exit")
  /\ UNCHANGED <<mon, node, event, interrupted>>

\* Named as successor between the exit and the park: keep the wakeup.
Wait_exited(t) ==
  /\ pc[t] = "wait_exited"
  /\ event' = [event EXCEPT ![t] = IF node[t].notified # 0 /\ this(t).succ = t
                                   THEN 1 ELSE @]
  /\ Go(t, "wait_check")
  /\ UNCHANGED <<om, mon, node, interrupted, loc>>

Wait_check(t) ==
  /\ pc[t] = "wait_check"
  /\ Go(t, IF interrupted[t] THEN "wait_state" ELSE "wait_notified")
  /\ UNCHANGED <<om, mon, node, event, interrupted, loc>>

Wait_notified(t) ==
  /\ pc[t] = "wait_notified"
  /\ Go(t, IF node[t].notified = 0 THEN "wait_park" ELSE "wait_state")
  /\ UNCHANGED <<om, mon, node, event, interrupted, loc>>

Wait_park(t) ==
  /\ pc[t] = "wait_park"
  /\ event[t] = 1 \/ loc[t].timed
  /\ event' = [event EXCEPT ![t] = 0]
  /\ Go(t, "wait_state")
  /\ UNCHANGED <<om, mon, node, interrupted, loc>>

\* The test without the lock, then the test and the removal under it.
Wait_state(t) ==
  /\ pc[t] = "wait_state"
  /\ IF node[t].TState = "WAIT"
     THEN Go(t, "wait_unlink") /\ UNCHANGED loc
     ELSE ClearSucc(t, "wait_was")
  /\ UNCHANGED <<om, mon, node, event, interrupted>>

Wait_unlink(t) ==
  /\ pc[t] = "wait_unlink"
  /\ this(t).WaitSetLock = None
  /\ IF node[t].TState = "WAIT"
     THEN /\ Set(t, [this(t) EXCEPT !.WaitSet = Without(@, t)])
          /\ node' = [node EXCEPT ![t].TState = "RUN"]
     ELSE UNCHANGED <<om, node>>
  /\ ClearSucc(t, "wait_was")
  /\ UNCHANGED <<mon, event, interrupted>>

Wait_was(t) ==
  /\ pc[t] = "wait_was"
  /\ loc' = [loc EXCEPT ![t].wasNotified = node[t].notified]
  /\ Go(t, IF node[t].TState = "RUN" THEN "enter" ELSE "reenter")
  /\ UNCHANGED <<om, mon, node, event, interrupted>>

Reenter(t) ==
  /\ pc[t] = "reenter"
  /\ \/ /\ this(t).owner = None
        /\ Set(t, [this(t) EXCEPT !.owner = t]) /\ Go(t, "reegress")
        /\ UNCHANGED loc
     \/ /\ this(t).owner # None
        /\ Spin(t, "reenter")
        /\ UNCHANGED om
  /\ UNCHANGED <<mon, node, event, interrupted>>

Reenter_park(t) ==
  /\ pc[t] = "repark"
  /\ event[t] = 1
  /\ event' = [event EXCEPT ![t] = 0]
  /\ Go(t, "rewoken")
  /\ UNCHANGED <<om, mon, node, interrupted, loc>>

Reenter_woken(t) ==
  /\ pc[t] = "rewoken"
  /\ \/ /\ this(t).owner = None
        /\ Set(t, [this(t) EXCEPT !.owner = t]) /\ Go(t, "reegress")
        /\ UNCHANGED loc
     \/ /\ this(t).owner # None
        /\ ClearSucc(t, "reenter")
        /\ UNCHANGED om
  /\ UNCHANGED <<mon, node, event, interrupted>>

Reenter_egress(t) ==
  /\ pc[t] = "reegress"
  /\ Set(t, Unlinked(t))
  /\ node' = [node EXCEPT ![t].TState = "RUN"]
  /\ ClearSucc(t, "wait_reentered")
  /\ UNCHANGED <<mon, event, interrupted>>

\* The epilog of wait: InterruptedException unless WasNotified.
Throws(t) == loc[t].wasNotified = 0 /\ interrupted[t]

Wait_end(t) ==
  /\ pc[t] = "wait_reentered"
  /\ Set(t, [this(t) EXCEPT !.recursions = loc[t].save, !.waiters = @ - 1])
  /\ interrupted' = [interrupted EXCEPT ![t] = @ /\ ~Throws(t)]
  /\ loc' = [loc EXCEPT ![t].inwait = FALSE, ![t].save = 0, ![t].wasNotified = 0,
                        ![t].timed = FALSE]
  /\ Go(t, "java")
  /\ UNCHANGED <<mon, node, event>>

Wait(t) ==
  \/ Wait_interrupted(t)
  \/ Wait_node(t)
  \/ Wait_add(t)
  \/ Wait_exited(t)
  \/ Wait_check(t)
  \/ Wait_notified(t)
  \/ Wait_park(t)
  \/ Wait_state(t)
  \/ Wait_unlink(t)
  \/ Wait_was(t)
  \/ Reenter(t)
  \/ Reenter_park(t)
  \/ Reenter_woken(t)
  \/ Reenter_egress(t)
  \/ Wait_end(t)

-----------------------------------------------------------------------------
(* notify, notifyAll *)

Notify_begin(t) ==
  /\ pc[t] \in {"notify", "notifyAll"}
  /\ this(t).owner = t
  /\ Set(t, Checked(t))
  /\ Go(t, IF this(t).WaitSet = <<>> THEN "java"
           ELSE IF pc[t] = "notify" THEN "notify_dequeue" ELSE "notifyAll_lock")
  /\ UNCHANGED <<mon, node, event, interrupted, loc>>

\* The waiter dequeued gets its state first and _notified afterwards.
Notify_dequeue(t) ==
  /\ pc[t] = "notify_dequeue"
  /\ this(t).WaitSetLock = None
  /\ IF this(t).WaitSet = <<>>
     THEN Go(t, "java") /\ UNCHANGED <<om, node, loc>>
     ELSE LET w == First(this(t).WaitSet) IN
          /\ Set(t, [this(t) EXCEPT !.WaitSet = Tail(@), !.WaitSetLock = t])
          /\ node' = [node EXCEPT ![w].TState = "ENTER"]
          /\ loc' = [loc EXCEPT ![t].w = w]
          /\ Go(t, "notify_set")
  /\ UNCHANGED <<mon, event, interrupted>>

Notify_set(t) ==
  /\ pc[t] = "notify_set"
  /\ node' = [node EXCEPT ![loc[t].w].notified = 1]
  /\ Go(t, "notify_link")
  /\ UNCHANGED <<om, mon, event, interrupted, loc>>

\* Policy 2: an empty EntryList takes the node, otherwise it goes to cxq.
Notify_link(t) ==
  /\ pc[t] = "notify_link"
  /\ IF this(t).EntryList = <<>>
     THEN /\ Set(t, [this(t) EXCEPT !.EntryList = <<loc[t].w>>, !.WaitSetLock = None])
          /\ UNCHANGED node
     ELSE /\ Set(t, [this(t) EXCEPT !.cxq = <<loc[t].w>> \o @, !.WaitSetLock = None])
          /\ node' = [node EXCEPT ![loc[t].w].TState = "CXQ"]
  /\ loc' = [loc EXCEPT ![t].w = None]
  /\ Go(t, "java")
  /\ UNCHANGED <<mon, event, interrupted>>

NotifyAll_lock(t) ==
  /\ pc[t] = "notifyAll_lock"
  /\ this(t).WaitSetLock = None
  /\ Set(t, [this(t) EXCEPT !.WaitSetLock = t])
  /\ Go(t, "notifyAll_dequeue")
  /\ UNCHANGED <<mon, node, event, interrupted, loc>>

NotifyAll_dequeue(t) ==
  /\ pc[t] = "notifyAll_dequeue"
  /\ IF this(t).WaitSet = <<>>
     THEN /\ Set(t, [this(t) EXCEPT !.WaitSetLock = None])
          /\ Go(t, "java")
          /\ UNCHANGED <<node, loc>>
     ELSE LET w == First(this(t).WaitSet) IN
          /\ Set(t, [this(t) EXCEPT !.WaitSet = Tail(@)])
          /\ node' = [node EXCEPT ![w].notified = 1]
          /\ loc' = [loc EXCEPT ![t].w = w]
          /\ Go(t, "notifyAll_link")
  /\ UNCHANGED <<mon, event, interrupted>>

NotifyAll_link(t) ==
  /\ pc[t] = "notifyAll_link"
  /\ Set(t, [this(t) EXCEPT !.cxq = <<loc[t].w>> \o @])
  /\ node' = [node EXCEPT ![loc[t].w].TState = "CXQ"]
  /\ loc' = [loc EXCEPT ![t].w = None]
  /\ Go(t, "notifyAll_dequeue")
  /\ UNCHANGED <<mon, event, interrupted>>

Notify(t) ==
  \/ Notify_begin(t)
  \/ Notify_dequeue(t)
  \/ Notify_set(t)
  \/ Notify_link(t)
  \/ NotifyAll_lock(t)
  \/ NotifyAll_dequeue(t)
  \/ NotifyAll_link(t)

-----------------------------------------------------------------------------
(* os::interrupt: the flag, then the unpark, whatever the target does. *)

Interrupt_set(t) ==
  /\ pc[t] = "interrupt"
  /\ interrupted' = [interrupted EXCEPT ![loc[t].target] = TRUE]
  /\ Go(t, "interrupt_unpark")
  /\ UNCHANGED <<om, mon, node, event, loc>>

Interrupt_unpark(t) ==
  /\ pc[t] = "interrupt_unpark"
  /\ event' = [event EXCEPT ![loc[t].target] = 1]
  /\ loc' = [loc EXCEPT ![t].target = None]
  /\ Go(t, "java")
  /\ UNCHANGED <<om, mon, node, interrupted>>

Interrupt(t) == Interrupt_set(t) \/ Interrupt_unpark(t)

MonitorStep(t) ==
  \/ TrySpin(t)
  \/ Enter(t)
  \/ Exit(t)
  \/ Fast_Unlock(t)
  \/ Wait(t)
  \/ Notify(t)
  \/ Interrupt(t)

=============================================================================
