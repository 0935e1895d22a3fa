--------------------------- MODULE BiasedLocking ---------------------------
(***************************************************************************)
(* Biased locking, runtime/biasedLocking.cpp with the code that locks and  *)
(* unlocks (biased_locking_enter and lock_object of the x86 interpreter,   *)
(* fast_enter and slow_enter of the runtime).  An object biased toward a   *)
(* thread is locked by that thread without a store: only the lock records  *)
(* on its stack tell that it is locked.  Whoever takes the bias away has   *)
(* to find them, at a safepoint or on its own stack, and write what an     *)
(* ordinary stack lock would have left.                                    *)
(*                                                                         *)
(* The objects are the instances of one class.  A compare-and-swap on the  *)
(* mark word and the read that prepares it are two steps.  Between them a  *)
(* thread is not at a safepoint.  VM operations are steps of their own.    *)
(* An inflated monitor is its owner and its recursion count.               *)
(***************************************************************************)
EXTENDS Integers, Sequences, FiniteSets, SequencesExt

CONSTANTS
  Threads,     \* addresses of JavaThreads; a new thread may get an old address
  Objects,
  None,
  Epochs,      \* number of epochs, 4 in the code (epoch_bits = 2)
  RebiasLimit, \* BiasedLockingBulkRebiasThreshold
  RevokeLimit, \* BiasedLockingBulkRevokeThreshold
  MaxDepth,    \* bound: lock records on one stack
  Programs     \* the threads and the objects there may be, in each case checked

ASSUME LimitsAssumption ==
  /\ IsFiniteSet(Threads) /\ Epochs \in Nat \ {0} /\ MaxDepth \in Nat
  /\ Programs \subseteq [threads : SUBSET Threads, objects : SUBSET Objects]
  /\ RebiasLimit \in Nat \ {0} /\ RevokeLimit \in Nat /\ RebiasLimit < RevokeLimit

VARIABLES
  program,           \* one of Programs
  mark,              \* of each object, None before its allocation
  prototype_header,  \* of the class
  revocation_count,  \* of the class
  bulk_done,         \* last_biased_lock_bulk_revocation_time # 0
  enabled,           \* _biased_locking_enabled
  list,              \* the threads of the Threads list
  records,           \* lock records of each thread, youngest last
  pc,                \* where each thread is
  obj,               \* the object it locks or hashes
  attempt,           \* attempt_rebias
  seen,              \* the mark it has read
  cond               \* the Condition the revocation returns to it

klass  == <<prototype_header, revocation_count, bulk_done, enabled>>
locals == <<obj, attempt, seen, cond>>
vars   == <<program, mark, klass, list, records, pc, locals>>

Neutral        == <<"neutral">>
Biased(t, e)   == <<"biased", t, e>>
StackLock(t, i) == <<"stack", t, i>>
Monitor(t, n)  == <<"monitor", t, n>>

has_bias_pattern(m)      == m # None /\ m[1] = "biased"
biased_locker(m)         == m[2]
bias_epoch(m)            == m[3]
is_biased_anonymously(m) == has_bias_pattern(m) /\ biased_locker(m) = None
has_locker(m)            == m # None /\ m[1] = "stack"
has_monitor(m)           == m # None /\ m[1] = "monitor"
owner(m)                 == m[2]  \* of a stack lock or a monitor
recursions(m)            == m[3]  \* of a monitor

Words == {Neutral}
         \cup {Biased(t, e) : t \in Threads \cup {None}, e \in 0..(Epochs - 1)}
         \cup {StackLock(t, i) : t \in Threads, i \in 1..MaxDepth}
         \cup {Monitor(t, n) : t \in Threads \cup {None}, n \in 0..MaxDepth}
Marks == Words \cup {None}

ASSUME NoneAssumption == None \notin Threads \cup Objects \cup Words

\* Where a thread can be while the VM is at a safepoint.
Stopped == {"java", "slow", "vm_revoke", "vm_bulk_rebias", "vm_bulk_revoke",
            "vm_objs", "returned", "monitor"}
PCs == Stopped \cup {"bias", "rebias", "unbias", "cas", "anonymous", "stale",
                     "expired", "heuristics", "reset", "count", "single",
                     "slow_enter"}

\* A lock record: its object, the displaced header, and whether the thread has
\* acquired the lock or is still about to.
Headers == Marks \cup {<<"unset">>, <<"null">>, <<"unused">>}
Records == [obj : Objects, hdr : Headers, held : BOOLEAN]

TypeOK ==
  /\ program \in Programs /\ mark \in [Objects -> Marks]
  /\ prototype_header \in {Neutral} \cup {Biased(None, e) : e \in 0..(Epochs - 1)}
  /\ revocation_count \in 0..(RevokeLimit + Cardinality(Threads))
  /\ bulk_done \in BOOLEAN /\ enabled \in BOOLEAN /\ list \subseteq Threads
  /\ records \in [Threads -> Seq(Records)] /\ \A t \in Threads : Len(records[t]) <= MaxDepth
  /\ pc \in [Threads -> PCs]
  /\ obj \in [Threads -> Objects \cup {None}]
  /\ attempt \in [Threads -> BOOLEAN]
  /\ cond \in [Threads -> {"none", "NOT_BIASED", "BIAS_REVOKED", "BIAS_REVOKED_AND_REBIASED"}]

Init ==
  /\ program \in Programs
  /\ mark = [o \in Objects |-> None]
  /\ prototype_header = Neutral
  /\ revocation_count = 0
  /\ bulk_done = FALSE
  /\ enabled = FALSE
  /\ list = program.threads
  /\ records = [t \in Threads |-> <<>>]
  /\ pc = [t \in Threads |-> "java"]
  /\ obj = [t \in Threads |-> None]
  /\ attempt = [t \in Threads |-> FALSE]
  /\ seen = [t \in Threads |-> None]
  /\ cond = [t \in Threads |-> "none"]

Set(f, x, v) == [f EXCEPT ![x] = v]
Goto(t, l)   == pc' = Set(pc, t, l)
Biasable     == has_bias_pattern(prototype_header)
epoch        == bias_epoch(prototype_header)

\* The youngest record of t, changed.
Last_record(t, hdr, held) ==
  records' = [records EXCEPT ![t][Len(records[t])] =
                [obj |-> @.obj, hdr |-> hdr, held |-> held]]

Acquired(t) == records' = [records EXCEPT ![t][Len(records[t])].held = TRUE]

\* Back in Java code, with the locals of the call gone.
Return(t) ==
  /\ Goto(t, "java")
  /\ obj' = Set(obj, t, None) /\ attempt' = Set(attempt, t, FALSE)
  /\ seen' = Set(seen, t, None) /\ cond' = Set(cond, t, "none")

-----------------------------------------------------------------------------
(* Locking and unlocking in Java code *)

Allocate(t, o) ==
  /\ t \in list /\ pc[t] = "java" /\ o \in program.objects /\ mark[o] = None
  /\ mark' = Set(mark, o, prototype_header)
  /\ UNCHANGED <<klass, list, records, pc, locals>>

\* The record holds the object before the lock is tried.  The mark is compared
\* with the prototype header and the thread; equal, the lock is acquired.
lock_object(t, o) ==
  /\ t \in list /\ pc[t] = "java" /\ mark[o] # None /\ Len(records[t]) < MaxDepth
  /\ LET mine == Biasable /\ mark[o] = Biased(t, epoch)
     IN  /\ records' = [records EXCEPT ![t] =
                          Append(@, [obj |-> o, hdr |-> <<"unset">>, held |-> mine])]
         /\ Goto(t, IF mine THEN "java"
                    ELSE IF ~has_bias_pattern(mark[o]) THEN "cas"
                    ELSE IF ~Biasable THEN "unbias"
                    ELSE IF bias_epoch(mark[o]) # epoch THEN "rebias"
                    ELSE "bias")
         /\ obj'  = IF mine THEN obj ELSE Set(obj, t, o)
         /\ seen' = IF mine THEN seen ELSE Set(seen, t, mark[o])
         /\ attempt' = Set(attempt, t, ~mine)
  /\ UNCHANGED <<mark, klass, list, cond>>

\* lock; cmpxchg of a biased mark toward t; the slow case if it fails.
Cmpxchg_bias(t, expected) ==
  \/ /\ mark[obj[t]] = expected
     /\ mark' = Set(mark, obj[t], Biased(t, epoch))
     /\ Acquired(t)
     /\ Return(t)
  \/ /\ mark[obj[t]] # expected
     /\ Goto(t, "slow")
     /\ seen' = Set(seen, t, None)
     /\ UNCHANGED <<mark, records, obj, attempt, cond>>

\* The epoch is current: only an anonymous bias may be taken.
Bias(t) ==
  /\ pc[t] = "bias"
  /\ Cmpxchg_bias(t, Biased(None, bias_epoch(seen[t])))
  /\ UNCHANGED <<klass, list>>

\* The epoch has expired: the bias of another thread may be taken.
Try_rebias(t) ==
  /\ pc[t] = "rebias"
  /\ Cmpxchg_bias(t, seen[t])
  /\ UNCHANGED <<klass, list>>

\* The class is not biasable any more: whether or not this succeeds, the bias
\* is gone.
Try_revoke_bias(t) ==
  /\ pc[t] = "unbias"
  /\ mark' = IF mark[obj[t]] = seen[t] THEN Set(mark, obj[t], prototype_header) ELSE mark
  /\ Goto(t, "cas")
  /\ UNCHANGED <<klass, list, records, locals>>

\* The stack lock: the cmpxchg succeeds on any mark whose lock bits are 01.
Cas(t) ==
  LET o == obj[t]
  IN  /\ pc[t] = "cas"
      /\ \/ /\ ~has_locker(mark[o]) /\ ~has_monitor(mark[o])
            /\ mark' = Set(mark, o, StackLock(t, Len(records[t])))
            /\ Last_record(t, mark[o], TRUE)
            /\ Return(t)
         \/ /\ has_locker(mark[o]) /\ owner(mark[o]) = t
            /\ Last_record(t, <<"null">>, TRUE)
            /\ Return(t)
            /\ UNCHANGED mark
         \/ /\ has_monitor(mark[o]) \/ (has_locker(mark[o]) /\ owner(mark[o]) # t)
            /\ Goto(t, "slow")
            /\ seen' = Set(seen, t, None)
            /\ UNCHANGED <<mark, records, obj, attempt, cond>>
      /\ UNCHANGED <<klass, list>>

\* A biased object is unlocked by dropping the record, and so is a recursive
\* lock; a stack lock puts its displaced header back.
unlock_object(t) ==
  LET r == Last(records[t])
      i == Len(records[t])
  IN  /\ pc[t] = "java" /\ records[t] # <<>>
      /\ records' = [records EXCEPT ![t] = Front(@)]
      /\ mark' = IF has_bias_pattern(mark[r.obj]) \/ r.hdr = <<"null">> THEN mark
                 ELSE IF mark[r.obj] = StackLock(t, i) THEN Set(mark, r.obj, r.hdr)
                 ELSE Set(mark, r.obj,
                          IF recursions(mark[r.obj]) > 0
                          THEN Monitor(t, recursions(mark[r.obj]) - 1)
                          ELSE Monitor(None, 0))
      /\ UNCHANGED <<klass, list, pc, locals>>

-----------------------------------------------------------------------------
(* Revocation.  A heap h is the part of the state a revocation changes.     *)

Heap == [mark |-> mark, records |-> records, proto |-> prototype_header,
         count |-> revocation_count, bulk |-> bulk_done]

Update(h) ==
  /\ mark' = h.mark /\ records' = h.records /\ prototype_header' = h.proto
  /\ revocation_count' = h.count /\ bulk_done' = h.bulk

\* The monitors found on the stack of t; a lock that t is about to acquire is
\* among them.
monitor_info(h, t, o) == {i \in DOMAIN h.records[t] : h.records[t][i].obj = o}

\* revoke_bias, of each object of O; they share no mark and no lock record.
revoke_biases(h, O, allow_rebias, requester) ==
  LET locker(o) == biased_locker(h.mark[o])
      mine(o)   == monitor_info(h, locker(o), o)
      high(o)   == Min(mine(o))  \* the oldest
      revoked(o) == /\ o \in O /\ has_bias_pattern(h.mark[o])
                    /\ ~(locker(o) = None /\ allow_rebias)
      walked(o) == /\ revoked(o) /\ locker(o) # None
                   /\ locker(o) = requester \/ locker(o) \in list
                   /\ mine(o) # {}
      Free == IF allow_rebias THEN Biased(None, 0) ELSE Neutral
  IN  [h EXCEPT
         !.mark = [o \in Objects |-> IF ~revoked(o) THEN h.mark[o]
                                     ELSE IF walked(o) THEN StackLock(locker(o), high(o))
                                     ELSE Free],
         !.records = [t \in Threads |-> [i \in DOMAIN h.records[t] |->
            LET r == h.records[t][i]
            IN  IF walked(r.obj) /\ locker(r.obj) = t
                THEN [r EXCEPT !.hdr = IF i = high(r.obj) THEN Neutral ELSE <<"null">>]
                ELSE r]]]

revoke_bias(h, o, allow_rebias, requester) == revoke_biases(h, {o}, allow_rebias, requester)

\* Objects on some stack that are biased.
Locked_biased(h) ==
  {o \in Objects : /\ has_bias_pattern(h.mark[o])
                   /\ \E t \in list : monitor_info(h, t, o) # {}}

\* Variant: locked objects keep the epoch they had.
New_epoch_class_only(h) ==
  IF ~has_bias_pattern(h.proto) THEN h
  ELSE [h EXCEPT !.proto = Biased(None, (bias_epoch(h.proto) + 1) % Epochs)]

\* The class gets a new epoch, and so do the biased objects that are locked.
New_epoch(h) ==
  LET e == (bias_epoch(h.proto) + 1) % Epochs
  IN  IF ~has_bias_pattern(h.proto) THEN h
      ELSE [h EXCEPT !.proto = Biased(None, e),
                     !.mark = [o \in Objects |-> IF o \in Locked_biased(h)
                                                 THEN Biased(biased_locker(@[o]), e)
                                                 ELSE @[o]]]

\* The class is not biasable any more; biased objects that are locked get stack
\* locks.
No_bias(h, requester) ==
  revoke_biases([h EXCEPT !.proto = Neutral], Locked_biased(h), FALSE, requester)

\* Variant: the bias of the object itself is left to the walk over the stacks.
bulk_revoke_or_rebias_stacks(h, o, bulk_rebias, attempt_rebias, requester) ==
  [heap |-> [(IF bulk_rebias THEN New_epoch(h) ELSE No_bias(h, requester)) EXCEPT !.bulk = TRUE],
   cond |-> "BIAS_REVOKED"]

bulk_revoke_or_rebias(h, o, bulk_rebias, attempt_rebias, requester) ==
  LET all == IF bulk_rebias THEN New_epoch(h) ELSE No_bias(h, requester)
      one == revoke_bias(all, o, /\ bulk_rebias /\ attempt_rebias
                                 /\ has_bias_pattern(all.proto), requester)
      end == [one EXCEPT !.bulk = TRUE]
  IN  IF attempt_rebias /\ has_bias_pattern(end.mark[o]) /\ has_bias_pattern(end.proto)
      THEN [heap |-> [end EXCEPT !.mark[o] = Biased(requester, bias_epoch(end.proto))],
            cond |-> "BIAS_REVOKED_AND_REBIASED"]
      ELSE [heap |-> end, cond |-> "BIAS_REVOKED"]

\* The class has seen a bulk rebias, and none for BiasedLockingDecayTime.
May_decay(h) == h.count >= RebiasLimit /\ h.count < RevokeLimit /\ h.bulk

Decision(n) == IF n = RevokeLimit THEN "HR_BULK_REVOKE"
               ELSE IF n = RebiasLimit THEN "HR_BULK_REBIAS" ELSE "HR_SINGLE_REVOKE"

\* revoke_at_safepoint, for one object of its list.
Revoke_one(h, o, decayed) ==
  LET read  == IF decayed /\ May_decay(h) THEN 0 ELSE h.count
      count == IF read <= RevokeLimit THEN read + 1 ELSE read
      g     == [h EXCEPT !.count = count]
  IN  IF ~has_bias_pattern(h.mark[o]) THEN h
      ELSE IF Decision(count) = "HR_SINGLE_REVOKE" THEN revoke_bias(g, o, FALSE, None)
      ELSE bulk_revoke_or_rebias(g, o, Decision(count) = "HR_BULK_REBIAS", FALSE, None).heap

\* The objects of the records s, one after the other.
Revoke_objs(h, s, decayed) ==
  LET after[n \in 0..Len(s)] ==
        IF n = 0 THEN h ELSE Revoke_one(after[n - 1], s[n].obj, decayed)
  IN  after[Len(s)]

-----------------------------------------------------------------------------
(* revoke_and_rebias, for fast_enter (attempt) and FastHashCode *)

\* FastHashCode, like every other caller that does not lock.
FastHashCode(t, o) ==
  /\ t \in list /\ pc[t] = "java" /\ has_bias_pattern(mark[o])
  /\ Goto(t, "slow")
  /\ obj' = Set(obj, t, o)
  /\ UNCHANGED <<mark, klass, list, records, attempt, seen, cond>>

\* The caller goes on: fast_enter is done if the object is now biased toward its
\* thread, and goes on to slow_enter if it is not.
Finish(t, c) ==
  \/ /\ c = "BIAS_REVOKED_AND_REBIASED" \/ ~attempt[t]
     /\ Return(t)
  \/ /\ c # "BIAS_REVOKED_AND_REBIASED" /\ attempt[t]
     /\ Goto(t, "slow_enter")
     /\ seen' = Set(seen, t, None) /\ cond' = Set(cond, t, "none")
     /\ UNCHANGED <<obj, attempt>>

Continue(t, c) ==
  /\ Finish(t, c)
  /\ IF c = "BIAS_REVOKED_AND_REBIASED" THEN Acquired(t) ELSE UNCHANGED records

revoke_and_rebias(t) ==
  LET m == mark[obj[t]]
  IN  /\ pc[t] = "slow"
      /\ seen' = Set(seen, t, m)
      /\ Goto(t, IF is_biased_anonymously(m) /\ ~attempt[t] THEN "anonymous"
                 ELSE IF ~has_bias_pattern(m) THEN "heuristics"
                 ELSE IF ~Biasable THEN "stale"
                 ELSE IF epoch # bias_epoch(m) THEN "expired" ELSE "heuristics")
      /\ UNCHANGED <<mark, klass, list, records, obj, attempt, cond>>

\* A compare-and-swap of the mark that was read; update_heuristics if it fails.
Cmpxchg(t, new, c) ==
  \/ /\ mark[obj[t]] = seen[t]
     /\ mark' = Set(mark, obj[t], new)
     /\ Continue(t, c)
  \/ /\ mark[obj[t]] # seen[t]
     /\ Goto(t, "heuristics")
     /\ UNCHANGED <<mark, records, locals>>

Revoke_anonymous(t) ==
  /\ pc[t] = "anonymous"
  /\ Cmpxchg(t, Neutral, "BIAS_REVOKED")
  /\ UNCHANGED <<klass, list>>

\* The bias is older than the bulk revocation of the class; if the swap fails
\* another thread has revoked it.
Revoke_stale(t) ==
  /\ pc[t] = "stale"
  /\ mark' = IF mark[obj[t]] = seen[t] THEN Set(mark, obj[t], prototype_header) ELSE mark
  /\ Continue(t, "BIAS_REVOKED")
  /\ UNCHANGED <<klass, list>>

Rebias_expired(t) ==
  /\ pc[t] = "expired"
  /\ IF attempt[t] THEN Cmpxchg(t, Biased(t, epoch), "BIAS_REVOKED_AND_REBIASED")
     ELSE Cmpxchg(t, Neutral, "BIAS_REVOKED")
  /\ UNCHANGED <<klass, list>>

\* update_heuristics: the count is read here, reset and incremented later.
\* Past RevokeLimit it stays as it is.
update_heuristics(t) ==
  /\ pc[t] = "heuristics"
  /\ \/ /\ ~has_bias_pattern(mark[obj[t]])
        /\ Continue(t, "NOT_BIASED")
     \/ /\ has_bias_pattern(mark[obj[t]])
        /\ \/ May_decay(Heap) /\ Goto(t, "reset")
           \/ Goto(t, IF revocation_count <= RevokeLimit THEN "count" ELSE "single")
        /\ UNCHANGED <<records, locals>>
  /\ UNCHANGED <<mark, klass, list>>

Reset_count(t) ==
  /\ pc[t] = "reset"
  /\ revocation_count' = 0
  /\ Goto(t, "count")
  /\ UNCHANGED <<mark, prototype_header, bulk_done, enabled, list, records, locals>>

\* atomic_incr_biased_lock_revocation_count
Count(t) ==
  /\ pc[t] = "count"
  /\ revocation_count' = revocation_count + 1
  /\ Goto(t, IF revocation_count' = RevokeLimit THEN "vm_bulk_revoke"
             ELSE IF revocation_count' = RebiasLimit THEN "vm_bulk_rebias" ELSE "single")
  /\ UNCHANGED <<mark, prototype_header, bulk_done, enabled, list, records, locals>>

\* HR_SINGLE_REVOKE: of a bias that is its own, in the current epoch, a thread
\* walks its own stack.
Revoke_own(t) ==
  /\ pc[t] = "single" /\ Biasable /\ seen[t] = Biased(t, epoch)
  /\ LET h == revoke_bias(Heap, obj[t], FALSE, t)
     IN  mark' = h.mark /\ records' = h.records
  /\ Finish(t, "BIAS_REVOKED")
  /\ UNCHANGED <<klass, list>>

\* Any other is a VM operation, unless its prologue finds the bias gone.
Prologue(t) ==
  /\ pc[t] = "single" /\ ~(Biasable /\ seen[t] = Biased(t, epoch))
  /\ IF has_bias_pattern(mark[obj[t]])
     THEN /\ Goto(t, "vm_revoke") /\ seen' = Set(seen, t, None)
          /\ UNCHANGED <<records, obj, attempt, cond>>
     ELSE Continue(t, "NOT_BIASED")
  /\ UNCHANGED <<mark, klass, list>>

\* BiasedLocking::revoke, of the monitors of a frame that is about to be
\* replaced or deoptimized, with the prologue of its operation.
Revoke_frame(t) ==
  /\ t \in list /\ pc[t] = "java"
  /\ \E i \in DOMAIN records[t] : has_bias_pattern(mark[records[t][i].obj])
  /\ Goto(t, "vm_objs")
  /\ UNCHANGED <<mark, klass, list, records, locals>>

-----------------------------------------------------------------------------
(* VM operations and collections, at a safepoint *)

AtSafepoint == \A t \in list : pc[t] \in Stopped

\* VM_RevokeBias
Doit_revoke(t) ==
  /\ AtSafepoint /\ pc[t] = "vm_revoke"
  /\ Update(revoke_bias(Heap, obj[t], FALSE, t))
  /\ cond' = Set(cond, t, IF has_bias_pattern(mark[obj[t]])
                          THEN "BIAS_REVOKED" ELSE "NOT_BIASED")
  /\ Goto(t, "returned")
  /\ UNCHANGED <<enabled, list, obj, attempt, seen>>

\* VM_BulkRevokeBias
Doit_bulk(t) ==
  LET r == bulk_revoke_or_rebias(Heap, obj[t], pc[t] = "vm_bulk_rebias", attempt[t], t)
  IN  /\ AtSafepoint /\ pc[t] \in {"vm_bulk_rebias", "vm_bulk_revoke"}
      /\ Update(r.heap)
      /\ cond' = Set(cond, t, r.cond)
      /\ Goto(t, "returned")
      /\ UNCHANGED <<enabled, list, obj, attempt, seen>>

\* VM_RevokeBias with a list of objects
Doit_objs(t) ==
  /\ AtSafepoint /\ pc[t] = "vm_objs"
  /\ \E decayed \in BOOLEAN :
       Update(Revoke_objs(Heap, records[t], decayed))
  /\ Goto(t, "java")
  /\ UNCHANGED <<enabled, list, locals>>

\* The requester wakes when the safepoint is over; other operations may have
\* come after its own.
Returned(t) ==
  /\ pc[t] = "returned"
  /\ Continue(t, cond[t])
  /\ UNCHANGED <<mark, klass, list>>

\* revoke_at_safepoint, by the VM thread.
Revoke_at_safepoint(o) ==
  /\ AtSafepoint /\ has_bias_pattern(mark[o])
  /\ \E decayed \in BOOLEAN : Update(Revoke_one(Heap, o, decayed))
  /\ UNCHANGED <<enabled, list, pc, locals>>

VM_EnableBiasedLocking ==
  /\ AtSafepoint /\ ~enabled
  /\ prototype_header' = Biased(None, 0)
  /\ enabled' = TRUE
  /\ UNCHANGED <<mark, revocation_count, bulk_done, list, records, pc, locals>>

\* Variant: as without biased locking.
must_be_preserved_locked(m) == ~has_bias_pattern(m) /\ m # Neutral

must_be_preserved(m) ==
  /\ ~has_bias_pattern(m)
  /\ Biasable \/ m # Neutral

\* A collection that marks in place: every mark becomes the prototype header,
\* except those it saves and those that preserve_marks and restore_marks keep.
\* Objects the program has dropped make room for new ones.
Collect ==
  /\ AtSafepoint
  /\ \E dead \in SUBSET {o \in Objects : \A t \in Threads : obj[t] # o /\ monitor_info(Heap, t, o) = {}} :
       mark' = [o \in Objects |->
                  IF o \in dead \/ mark[o] = None THEN None
                  ELSE IF must_be_preserved(mark[o]) \/ o \in Locked_biased(Heap) THEN mark[o]
                  ELSE prototype_header]
  /\ UNCHANGED <<klass, list, records, pc, locals>>

-----------------------------------------------------------------------------
(* slow_enter, and the threads' beginning and end *)

slow_enter(t) ==
  LET o == obj[t]
  IN  /\ pc[t] = "slow_enter"
      /\ \/ /\ mark[o] = Neutral
            /\ mark' = Set(mark, o, StackLock(t, Len(records[t])))
            /\ Last_record(t, Neutral, TRUE)
            /\ Return(t)
         \/ /\ has_locker(mark[o]) /\ owner(mark[o]) = t
            /\ Last_record(t, <<"null">>, TRUE)
            /\ Return(t)
            /\ UNCHANGED mark
         \/ /\ has_monitor(mark[o]) \/ (has_locker(mark[o]) /\ owner(mark[o]) # t)
            /\ mark' = IF has_locker(mark[o]) THEN Set(mark, o, Monitor(owner(mark[o]), 0))
                       ELSE mark
            /\ Last_record(t, <<"unused">>, FALSE)
            /\ Goto(t, "monitor")
            /\ UNCHANGED locals
      /\ UNCHANGED <<klass, list>>

\* ObjectMonitor::enter as one step, taken when the monitor is free or the caller's own:
\* spinning, queueing and parking, which ObjectMonitor has, come to no more than that here.
Enter_monitor(t) ==
  LET m == mark[obj[t]]
  IN  /\ pc[t] = "monitor" /\ owner(m) \in {None, t}
      /\ mark' = Set(mark, obj[t], Monitor(t, IF owner(m) = t THEN recursions(m) + 1 ELSE 0))
      /\ Acquired(t)
      /\ Return(t)
      /\ UNCHANGED <<klass, list>>

\* Threads::remove; Threads::add of a thread with the address of an old one.
Exit(t) ==
  /\ t \in list /\ pc[t] = "java" /\ records[t] = <<>>
  /\ list' = list \ {t}
  /\ UNCHANGED <<mark, klass, records, pc, locals>>

Start(t) ==
  /\ t \in program.threads \ list
  /\ list' = list \cup {t}
  /\ UNCHANGED <<mark, klass, records, pc, locals>>

-----------------------------------------------------------------------------
Step ==
  \/ \E t \in Threads :
       \/ \E o \in Objects : Allocate(t, o) \/ lock_object(t, o) \/ FastHashCode(t, o)
       \/ unlock_object(t)
       \/ Bias(t) \/ Try_rebias(t) \/ Try_revoke_bias(t) \/ Cas(t)
       \/ revoke_and_rebias(t) \/ Revoke_anonymous(t) \/ Revoke_stale(t)
       \/ Rebias_expired(t) \/ update_heuristics(t) \/ Reset_count(t) \/ Count(t)
       \/ Revoke_own(t) \/ Prologue(t) \/ Revoke_frame(t)
       \/ Doit_revoke(t) \/ Doit_bulk(t) \/ Doit_objs(t) \/ Returned(t)
       \/ slow_enter(t) \/ Enter_monitor(t) \/ Exit(t) \/ Start(t)
  \/ \E o \in Objects : Revoke_at_safepoint(o)
  \/ VM_EnableBiasedLocking \/ Collect

Next == Step /\ UNCHANGED program

Spec == Init /\ [][Next]_vars

-----------------------------------------------------------------------------
(* Properties *)

Held(t, o) == {i \in DOMAIN records[t] : records[t][i].obj = o /\ records[t][i].held}

\* What a thread believes to hold, the mark word says it holds, in one of three
\* ways, and its lock records are what that way needs to unlock: a bias in the
\* current epoch of a class that is still biasable; a stack lock at the oldest
\* record with the displaced header in it, and zero in the younger ones; a
\* monitor.  So no two threads hold an object, however its bias was taken,
\* moved, revoked alone or in bulk, or reset by a collection.
LockRecords ==
  \A t \in Threads, o \in Objects :
    LET held == Held(t, o)
        hdr(i) == records[t][i].hdr
    IN  held # {} =>
          \/ Biasable /\ mark[o] = Biased(t, epoch)
          \/ /\ mark[o] = StackLock(t, Min(held))
             /\ hdr(Min(held)) = Neutral
             /\ \A i \in held \ {Min(held)} : hdr(i) = <<"null">>
          \/ has_monitor(mark[o]) /\ owner(mark[o]) = t

\* An object whose bias has been revoked is never biased again, nor is its class
\* after the bulk revocation: fast_enter, FastHashCode and the other callers rely
\* on it after they have waited for their operation, and collections reset marks.
RevokedForGood ==
  [][/\ \A o \in Objects : mark[o] # None /\ has_bias_pattern(mark'[o])
                              => has_bias_pattern(mark[o])
     /\ enabled /\ Biasable' => Biasable]_vars

\* The types, and these assertions: "biases should be revoked by now" and "must not re-lock the
\* same lock" of fast_enter and slow_enter; "even if we raced, should still be
\* revoked"; the comment in biased_locking_enter that some thread must have
\* removed the bias bit; "error in bias epoch adjustment".
Asserts ==
  /\ TypeOK
  /\ \A t \in Threads :
       LET m == mark[obj[t]]
       IN  /\ pc[t] \in {"cas", "slow_enter"} => ~has_bias_pattern(m)
           /\ pc[t] = "slow_enter" => m # StackLock(t, Len(records[t]))
           /\ pc[t] \in {"unbias", "stale"} => m = seen[t] \/ ~has_bias_pattern(m)
  /\ AtSafepoint /\ Biasable =>
       \A o \in Locked_biased(Heap) : bias_epoch(mark[o]) = epoch

=============================================================================
