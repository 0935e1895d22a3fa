------------------------ MODULE BiasedLockingProofs ------------------------
(***************************************************************************)
(* Proofs about BiasedLocking.                                             *)
(*                                                                         *)
(* The heart of the invariant is Fit: how the mark word of an object and   *)
(* the lock records of one thread go together.  A thread that holds the    *)
(* object does so by a bias of the current epoch, by a stack lock at its   *)
(* oldest record or by a monitor whose recursions are the records that     *)
(* count; and a stack lock or an owned monitor belongs to a thread that    *)
(* holds the object.  A thread whose bulk rebias has been done and that    *)
(* has not woken yet (Rebiased) holds its last record already.             *)
(*                                                                         *)
(* At a safepoint no thread is about to replace a bias, so the heap is     *)
(* sound (SafeHeap) and the operations on heaps, revoke_biases, New_epoch, *)
(* No_bias and what is made of them, are shown to keep it so whatever the  *)
(* heap; what an operation does to a list of objects follows by smallest   *)
(* counterexample.  Between safepoints a mark word changes only as Moves   *)
(* says, and no such move disturbs what another thread has read.           *)
(***************************************************************************)
EXTENDS BiasedLocking, FiniteSetTheorems, WellFoundedInduction, TLAPS

\* The threads that will find, when they wake, that the object they lock has
\* been biased toward them; the lock is theirs from the operation on.
Rebiased == {t \in Threads : pc[t] = "returned" /\ cond[t] = "BIAS_REVOKED_AND_REBIASED"}

\* The records by which t holds o, G being the rebiased threads.
Locks(rec, G, t, o) ==
  {i \in DOMAIN rec[t] : rec[t][i].obj = o /\ (rec[t][i].held \/ t \in G)}

\* The records that count as one enter of a monitor each.
Counted(S, s) == {i \in S : s[i].hdr # <<"null">>}

\* How the mark word m, under the prototype header p, gives the lock to t, who
\* holds it by the records S of its stack s.
ByBias(m, p, t)      == has_bias_pattern(p) /\ m = Biased(t, bias_epoch(p))
ByStackLock(m, t, S, s) ==
  /\ m = StackLock(t, Min(S)) /\ s[Min(S)].hdr = Neutral
  /\ \A i \in S \ {Min(S)} : s[i].hdr = <<"null">>
ByMonitor(m, t, S, s) ==
  /\ m = Monitor(t, Cardinality(Counted(S, s)) - 1)
  /\ Min(S) \in Counted(S, s)

Fit(m, p, t, S, s) ==
  /\ S # {} => ByBias(m, p, t) \/ ByStackLock(m, t, S, s) \/ ByMonitor(m, t, S, s)
  /\ has_locker(m) /\ owner(m) = t => m[3] \in S
  /\ has_monitor(m) /\ owner(m) = t => S # {}

HeapFit(mk, rec, p, G) ==
  \A t \in Threads, o \in Objects : Fit(mk[o], p, t, Locks(rec, G, t, o), rec[t])

\* The mark m is biased in an epoch that has not expired.
Current(m, p) == has_bias_pattern(p) /\ bias_epoch(m) = bias_epoch(p)

\* Where a thread has seen an outdated bias and is about to replace it.
Outdated == {"rebias", "unbias"}

RecordInv(t) ==
  /\ \A i \in DOMAIN records[t] :
       LET o == records[t][i].obj
       IN  /\ mark[o] # None
           /\ records[t][i].held <=> ~(attempt[t] /\ i = Len(records[t]))
           /\ has_bias_pattern(mark[o]) =>
                \/ Current(mark[o], prototype_header)
                \/ pc[t] \in Outdated /\ o = obj[t]
  /\ attempt[t] => /\ records[t] # <<>> /\ records[t][Len(records[t])].obj = obj[t]
                   /\ has_bias_pattern(mark[obj[t]]) /\ biased_locker(mark[obj[t]]) = t
                        => pc[t] \in Outdated \/ t \in Rebiased

LocalInv(t) ==
  LET m == mark[obj[t]]
      gone == ~has_bias_pattern(m)
  IN  /\ t \notin list => pc[t] = "java" /\ records[t] = <<>>
      /\ pc[t] \in {"java", "vm_objs"} => ~attempt[t]
      /\ pc[t] \notin {"java", "vm_objs"} => obj[t] \in Objects /\ m # None
      /\ pc[t] \in {"bias", "rebias", "unbias", "cas", "slow_enter", "monitor"} \/ t \in Rebiased
           => attempt[t]
      /\ pc[t] \in {"anonymous", "stale", "expired"} => ~attempt[t]
      /\ pc[t] = "bias" => has_bias_pattern(seen[t]) /\ Current(seen[t], prototype_header)
      /\ pc[t] \in {"rebias", "expired"} =>
           has_bias_pattern(seen[t]) /\ Biasable /\ bias_epoch(seen[t]) # epoch
      /\ pc[t] = "rebias" => gone \/ m = seen[t]
                             \/ (Current(m, prototype_header) /\ biased_locker(m) # t)
      /\ pc[t] \in {"unbias", "stale"} =>
           ~Biasable /\ enabled /\ has_bias_pattern(seen[t]) /\ (m = seen[t] \/ gone)
      /\ pc[t] \in {"cas", "slow_enter"} \/ (pc[t] = "returned" /\ t \notin Rebiased) => gone
      /\ pc[t] = "anonymous" => is_biased_anonymously(seen[t])
      /\ pc[t] = "monitor" => has_monitor(m) /\ Last(records[t]).hdr = <<"unused">>
      /\ pc[t] \in {"heuristics", "reset", "count", "single"} /\ ByBias(seen[t], prototype_header, t)
           => m = seen[t] \/ gone

Counting == {t \in Threads : pc[t] = "count"}

TypeInv ==
  /\ TypeOK
  /\ seen \in [Threads -> Marks]
  /\ revocation_count + Cardinality(Counting) <= RevokeLimit + Cardinality(Threads)
  /\ \A o \in Objects : mark[o] # None => Threads # {}
  /\ \A o \in Objects : has_bias_pattern(mark[o]) => enabled
  /\ Biasable => enabled

Inv ==
  /\ TypeInv
  /\ HeapFit(mark, records, prototype_header, Rebiased)
  /\ \A t \in Threads : RecordInv(t) /\ LocalInv(t)

-----------------------------------------------------------------------------
(* Mark words.                                                             *)

Slots == 1..MaxDepth

\* None is not a mark word of any kind.
LEMMA NoneIs ==
  /\ None \notin Words /\ None \notin Threads /\ None \notin Objects
  /\ ~has_bias_pattern(None) /\ ~has_locker(None) /\ ~has_monitor(None)
BY NoneAssumption DEF has_bias_pattern, has_locker, has_monitor

\* The mark of an object that has never been locked in a class without bias.
LEMMA NeutralIs ==
  /\ Neutral \in Words /\ Neutral # None
  /\ ~has_bias_pattern(Neutral) /\ ~has_locker(Neutral) /\ ~has_monitor(Neutral)
  /\ Neutral # <<"null">> /\ Neutral # <<"unset">> /\ Neutral # <<"unused">>
<1>1. Neutral \in Words
  BY DEF Words
<1> QED BY <1>1, NoneIs DEF Neutral, has_bias_pattern, has_locker, has_monitor

\* markOopDesc::encode(thread, age, epoch)
LEMMA BiasedIs ==
  ASSUME NEW t \in Threads \cup {None}, NEW e \in 0..(Epochs - 1)
  PROVE  /\ Biased(t, e) \in Words /\ Biased(t, e) # None
         /\ has_bias_pattern(Biased(t, e)) /\ ~has_locker(Biased(t, e))
         /\ ~has_monitor(Biased(t, e))
         /\ biased_locker(Biased(t, e)) = t /\ bias_epoch(Biased(t, e)) = e
<1>1. Biased(t, e) \in Words
  BY DEF Words
<1>2. Biased(t, e) # None
  BY <1>1, NoneIs
<1> QED BY <1>1, <1>2 DEF Biased, has_bias_pattern, has_locker, has_monitor,
                          biased_locker, bias_epoch

\* The address of a lock record.
LEMMA StackLockIs ==
  ASSUME NEW t \in Threads, NEW i \in Slots
  PROVE  /\ StackLock(t, i) \in Words /\ StackLock(t, i) # None
         /\ has_locker(StackLock(t, i)) /\ ~has_bias_pattern(StackLock(t, i))
         /\ ~has_monitor(StackLock(t, i)) /\ StackLock(t, i) # Neutral
         /\ owner(StackLock(t, i)) = t /\ StackLock(t, i)[3] = i
<1>1. StackLock(t, i) \in Words
  BY DEF Words, Slots
<1>2. StackLock(t, i) # None
  BY <1>1, NoneIs
<1> QED BY <1>1, <1>2 DEF StackLock, Neutral, has_bias_pattern, has_locker, has_monitor, owner

\* The address of a monitor, with what is in it.
LEMMA MonitorIs ==
  ASSUME NEW t \in Threads \cup {None}, NEW n \in 0..MaxDepth
  PROVE  /\ Monitor(t, n) \in Words /\ Monitor(t, n) # None
         /\ has_monitor(Monitor(t, n)) /\ ~has_bias_pattern(Monitor(t, n))
         /\ ~has_locker(Monitor(t, n)) /\ Monitor(t, n) # Neutral
         /\ owner(Monitor(t, n)) = t /\ recursions(Monitor(t, n)) = n
<1>1. Monitor(t, n) \in Words
  BY DEF Words
<1>2. Monitor(t, n) # None
  BY <1>1, NoneIs
<1> QED BY <1>1, <1>2 DEF Monitor, Neutral, has_bias_pattern, has_locker, has_monitor,
                          owner, recursions

\* A mark word is of one of the four kinds.
LEMMA WordIs ==
  ASSUME NEW m \in Words
  PROVE  \/ m = Neutral
         \/ /\ has_bias_pattern(m) /\ m = Biased(biased_locker(m), bias_epoch(m))
            /\ biased_locker(m) \in Threads \cup {None} /\ bias_epoch(m) \in 0..(Epochs - 1)
         \/ /\ has_locker(m) /\ m = StackLock(owner(m), m[3])
            /\ owner(m) \in Threads /\ m[3] \in Slots
         \/ /\ has_monitor(m) /\ m = Monitor(owner(m), recursions(m))
            /\ owner(m) \in Threads \cup {None} /\ recursions(m) \in 0..MaxDepth
<1>1. CASE m = Neutral
  BY <1>1
<1>2. CASE m \in {Biased(t, e) : t \in Threads \cup {None}, e \in 0..(Epochs - 1)}
  <2>1. PICK t \in Threads \cup {None}, e \in 0..(Epochs - 1) : m = Biased(t, e)
    BY <1>2
  <2> QED BY <2>1, BiasedIs
<1>3. CASE m \in {StackLock(t, i) : t \in Threads, i \in 1..MaxDepth}
  <2>1. PICK t \in Threads, i \in Slots : m = StackLock(t, i)
    BY <1>3 DEF Slots
  <2> QED BY <2>1, StackLockIs
<1>4. CASE m \in {Monitor(t, n) : t \in Threads \cup {None}, n \in 0..MaxDepth}
  <2>1. PICK t \in Threads \cup {None}, n \in 0..MaxDepth : m = Monitor(t, n)
    BY <1>4
  <2> QED BY <2>1, MonitorIs
<1> QED BY <1>1, <1>2, <1>3, <1>4 DEF Words

\* The kinds exclude one another.
LEMMA Apart ==
  ASSUME NEW m \in Marks
  PROVE  /\ has_bias_pattern(m) => ~has_locker(m) /\ ~has_monitor(m) /\ m # Neutral /\ m # None
         /\ has_locker(m) => ~has_monitor(m) /\ m # Neutral /\ m # None
         /\ has_monitor(m) => m # Neutral /\ m # None
         /\ (m # None /\ ~has_bias_pattern(m) /\ ~has_locker(m) /\ ~has_monitor(m)) => m = Neutral
<1>1. m \in Words \/ m = None
  BY DEF Marks
<1> QED BY <1>1, WordIs, NeutralIs, NoneIs DEF has_bias_pattern, has_locker, has_monitor

-----------------------------------------------------------------------------
(* The oldest record, and how many there are.                              *)

\* A set of numbers that is not empty has a least element.
LEMMA MinIs ==
  ASSUME NEW S \in SUBSET Nat, S # {}
  PROVE  Min(S) \in S /\ \A y \in S : Min(S) <= y
<1>1. \E x \in S : \A y \in S : ~ (<<y, x>> \in OpToRel(<, Nat))
  BY NatLessThanWellFounded, WFMin
<1>2. PICK x \in S : \A y \in S : ~ (<<y, x>> \in OpToRel(<, Nat))
  BY <1>1
<1>3. \A y \in S : x =< y
  <2> SUFFICES ASSUME NEW y \in S, ~(x =< y) PROVE FALSE
    OBVIOUS
  <2>1. y < x /\ <<y, x>> \in Nat \X Nat
    BY SMT
  <2>2. <<y, x>>[1] < <<y, x>>[2]
    BY <2>1
  <2>3. <<y, x>> \in OpToRel(<, Nat)
    BY <2>1, <2>2, Zenon DEF OpToRel
  <2> QED BY <1>2, <2>3
<1> QED BY <1>3 DEF Min

\* It is the only one.
LEMMA MinOf ==
  ASSUME NEW S \in SUBSET Nat, NEW x \in S, \A y \in S : x <= y
  PROVE  Min(S) = x
<1>1. Min(S) \in S /\ \A y \in S : Min(S) <= y
  BY MinIs
<1>2. Min(S) \in Nat /\ x \in Nat /\ Min(S) <= x /\ x <= Min(S)
  BY <1>1
<1> QED BY <1>2

\* Records of a stack are finite in number.
LEMMA FiniteSlots ==
  ASSUME NEW S \in SUBSET Slots
  PROVE  IsFiniteSet(S) /\ Cardinality(S) \in 0..MaxDepth /\ S \in SUBSET Nat
<1>1. MaxDepth \in Nat
  BY LimitsAssumption
<1>2. IsFiniteSet(Slots) /\ Cardinality(Slots) = MaxDepth
  BY <1>1, FS_Interval DEF Slots
<1>3. IsFiniteSet(S) /\ Cardinality(S) <= MaxDepth
  BY <1>2, FS_Subset
<1>4. Cardinality(S) \in Nat
  BY <1>3, FS_CardinalityType
<1> QED BY <1>1, <1>3, <1>4 DEF Slots


-----------------------------------------------------------------------------
(* What each way to change a lock does to the fit of a mark word m, under a  *)
(* prototype header p, and the records S of the stack s of t.                *)

Protos == {Neutral} \cup {Biased(None, e) : e \in 0..(Epochs - 1)}

\* A prototype header is neutral or anonymously biased.
LEMMA ProtoIs ==
  ASSUME NEW p \in Protos
  PROVE  /\ p \in Words /\ p # None /\ ~has_locker(p) /\ ~has_monitor(p)
         /\ ~has_bias_pattern(p) => p = Neutral
         /\ has_bias_pattern(p) => /\ bias_epoch(p) \in 0..(Epochs - 1)
                                   /\ p = Biased(None, bias_epoch(p))
<1>1. CASE p = Neutral
  BY <1>1, NeutralIs
<1>2. CASE p \in {Biased(None, e) : e \in 0..(Epochs - 1)}
  <2>1. PICK e \in 0..(Epochs - 1) : p = Biased(None, e)
    BY <1>2
  <2> QED BY <2>1, BiasedIs
<1> QED BY <1>1, <1>2 DEF Protos

\* The mark word names t as a holder.
Names(m, p, t) ==
  \/ has_bias_pattern(m) /\ biased_locker(m) = t /\ Current(m, p)
  \/ has_locker(m) /\ owner(m) = t
  \/ has_monitor(m) /\ owner(m) = t

\* Only the thread that the mark word names holds the object.
LEMMA HolderIsNamed ==
  ASSUME NEW m \in Words, NEW p \in Protos, NEW t \in Threads, NEW S \in SUBSET Slots, NEW s,
         Fit(m, p, t, S, s), S # {}
  PROVE  Names(m, p, t)
<1>1. CASE ByBias(m, p, t)
  BY <1>1, ProtoIs, BiasedIs DEF ByBias, Names, Current
<1>2. CASE ByStackLock(m, t, S, s)
  <2>1. Min(S) \in Slots
    BY MinIs, FiniteSlots
  <2> QED BY <1>2, <2>1, StackLockIs DEF ByStackLock, Names
<1>3. CASE ByMonitor(m, t, S, s)
  <2>1. Counted(S, s) \in SUBSET Slots /\ Counted(S, s) # {}
    BY <1>3 DEF Counted, ByMonitor
  <2>2. IsFiniteSet(Counted(S, s)) /\ Cardinality(Counted(S, s)) \in 0..MaxDepth
    BY <2>1, FiniteSlots
  <2>3. Cardinality(Counted(S, s)) # 0
    BY <2>1, <2>2, FS_EmptySet
  <2>4. Cardinality(Counted(S, s)) - 1 \in 0..MaxDepth
    BY <2>2, <2>3, LimitsAssumption
  <2> QED BY <1>3, <2>4, MonitorIs DEF ByMonitor, Names
<1> QED BY <1>1, <1>2, <1>3 DEF Fit

\* A thread that is not named fits, if it holds nothing.
LEMMA FitNone ==
  ASSUME NEW m, NEW p, NEW t, NEW s, ~((has_locker(m) \/ has_monitor(m)) /\ owner(m) = t)
  PROVE  Fit(m, p, t, {}, s)
BY DEF Fit

\* The fit depends on the displaced headers of S only.
LEMMA FitSame ==
  ASSUME NEW m, NEW p, NEW t, NEW S \in SUBSET Slots, NEW s, NEW r,
         Fit(m, p, t, S, s), \A i \in S : r[i].hdr = s[i].hdr
  PROVE  Fit(m, p, t, S, r)
<1>1. Counted(S, r) = Counted(S, s)
  BY DEF Counted
<1>2. S # {} => Min(S) \in S
  BY MinIs, FiniteSlots
<1>3. (S # {} /\ ByStackLock(m, t, S, s)) => ByStackLock(m, t, S, r)
  BY <1>2 DEF ByStackLock
<1>4. ByMonitor(m, t, S, s) => ByMonitor(m, t, S, r)
  BY <1>1 DEF ByMonitor
<1> QED BY <1>3, <1>4 DEF Fit

\* A bias fits whatever the records.
LEMMA FitBias ==
  ASSUME NEW m, NEW p \in Protos, NEW t \in Threads, NEW S, NEW s, ByBias(m, p, t)
  PROVE  Fit(m, p, t, S, s)
<1>1. has_bias_pattern(m) /\ ~has_locker(m) /\ ~has_monitor(m)
  BY ProtoIs, BiasedIs DEF ByBias
<1> QED BY <1>1 DEF Fit

\* The first lock of an object is a stack lock.
LEMMA FitFirst ==
  ASSUME NEW p, NEW t \in Threads, NEW k \in Slots, NEW s, s[k].hdr = Neutral
  PROVE  Fit(StackLock(t, k), p, t, {k}, s)
<1>1. Min({k}) = k
  BY MinOf DEF Slots
<1>2. ByStackLock(StackLock(t, k), t, {k}, s)
  BY <1>1 DEF ByStackLock
<1> QED BY <1>2, StackLockIs DEF Fit

\* Records pushed later are younger.
LEMMA MinPush ==
  ASSUME NEW S \in SUBSET Slots, S # {}, NEW k \in Slots, \A i \in S : i < k
  PROVE  Min(S \cup {k}) = Min(S) /\ k # Min(S) /\ Min(S) \in S
<1>1. Min(S) \in S /\ \A y \in S : Min(S) <= y
  BY MinIs, FiniteSlots
<1>2. S \cup {k} \in SUBSET Nat /\ Min(S) \in S \cup {k}
  BY <1>1, FiniteSlots DEF Slots
<1>3. Min(S) < k
  BY <1>1
<1>4. ASSUME NEW y \in S \cup {k} PROVE Min(S) <= y
  <2>1. CASE y \in S
    BY <1>1, <2>1
  <2>2. CASE y = k
    <3>1. Min(S) \in Nat /\ k \in Nat
      BY <1>2
    <3> QED BY <1>3, <2>2, <3>1
  <2> QED BY <2>1, <2>2
<1> QED BY <1>1, <1>2, <1>3, <1>4, MinOf

\* Popping a record that is not the oldest.
LEMMA MinPop ==
  ASSUME NEW S \in SUBSET Slots, NEW k \in S, k # Min(S)
  PROVE  Min(S \ {k}) = Min(S) /\ Min(S) \in S \ {k}
<1>1. Min(S) \in S /\ \A y \in S : Min(S) <= y
  BY MinIs, FiniteSlots
<1>2. S \ {k} \in SUBSET Nat /\ Min(S) \in S \ {k}
  BY <1>1, FiniteSlots
<1> QED BY <1>1, <1>2, MinOf

\* A nested stack lock leaves zero in its record.
LEMMA FitNested ==
  ASSUME NEW m \in Words, NEW p, NEW t \in Threads, NEW S \in SUBSET Slots, NEW s, NEW r,
         NEW k \in Slots, Fit(m, p, t, S, s), has_locker(m), owner(m) = t, p \in Protos,
         \A i \in S : i < k /\ r[i].hdr = s[i].hdr, r[k].hdr = <<"null">>
  PROVE  Fit(m, p, t, S \cup {k}, r)
<1>1. m[3] \in S /\ S # {}
  BY DEF Fit
<1>2. ~ByBias(m, p, t) /\ ~ByMonitor(m, t, S, s)
  <2>1. ~has_bias_pattern(m) /\ ~has_monitor(m)
    BY Apart DEF Marks
  <2>2. ~ByBias(m, p, t)
    BY <2>1, ProtoIs, BiasedIs DEF ByBias
  <2>3. ASSUME ByMonitor(m, t, S, s) PROVE FALSE
    <3>1. m = Monitor(t, Cardinality(Counted(S, s)) - 1)
      BY <2>3 DEF ByMonitor
    <3> QED BY <2>1, <3>1 DEF Monitor, has_locker
  <2> QED BY <2>2, <2>3
<1>3. ByStackLock(m, t, S, s)
  BY <1>1, <1>2 DEF Fit
<1>4. Min(S \cup {k}) = Min(S) /\ k # Min(S) /\ Min(S) \in S
  BY <1>1, MinPush
<1>5. ByStackLock(m, t, S \cup {k}, r)
  BY <1>3, <1>4 DEF ByStackLock
<1> QED BY <1>1, <1>5, Apart DEF Fit, Marks

\* The first enter of a monitor.
LEMMA FitEnter ==
  ASSUME NEW p, NEW t \in Threads, NEW k \in Slots, NEW s, s[k].hdr = <<"unused">>
  PROVE  Fit(Monitor(t, 0), p, t, {k}, s)
<1>1. Min({k}) = k
  BY MinOf DEF Slots
<1>2. Counted({k}, s) = {k}
  BY DEF Counted
<1>3. Cardinality({k}) = 1
  BY FS_Singleton
<1>4. ByMonitor(Monitor(t, 0), t, {k}, s)
  BY <1>1, <1>2, <1>3 DEF ByMonitor
<1>5. 0 \in 0..MaxDepth
  BY LimitsAssumption
<1> QED BY <1>4, <1>5, MonitorIs DEF Fit

\* A monitor that fits counts its enters.
LEMMA FitMonitor ==
  ASSUME NEW m \in Words, NEW p \in Protos, NEW t \in Threads, NEW S \in SUBSET Slots, NEW s,
         Fit(m, p, t, S, s), has_monitor(m), owner(m) = t
  PROVE  /\ S # {} /\ Min(S) \in Counted(S, s) /\ IsFiniteSet(Counted(S, s))
         /\ recursions(m) \in 0..MaxDepth /\ Cardinality(Counted(S, s)) = recursions(m) + 1
<1>1. S # {} /\ ~has_bias_pattern(m) /\ ~has_locker(m)
  BY Apart DEF Fit, Marks
<1>2. ~ByBias(m, p, t)
  BY <1>1, ProtoIs, BiasedIs DEF ByBias
<1>3. ~ByStackLock(m, t, S, s)
  <2>1. Min(S) \in Slots
    BY <1>1, MinIs, FiniteSlots
  <2> QED BY <1>1, <2>1, StackLockIs DEF ByStackLock
<1>4. ByMonitor(m, t, S, s)
  BY <1>1, <1>2, <1>3 DEF Fit
<1>5. Counted(S, s) \in SUBSET Slots
  BY DEF Counted
<1>6. IsFiniteSet(Counted(S, s)) /\ Cardinality(Counted(S, s)) \in 0..MaxDepth
  BY <1>5, FiniteSlots
<1>7. Cardinality(Counted(S, s)) # 0
  BY <1>4, <1>6, FS_EmptySet DEF ByMonitor
<1>8. Cardinality(Counted(S, s)) - 1 \in 0..MaxDepth
  BY <1>6, <1>7, LimitsAssumption
<1>9. recursions(m) = Cardinality(Counted(S, s)) - 1
  BY <1>4, <1>8, MonitorIs DEF ByMonitor
<1> QED BY <1>1, <1>4, <1>6, <1>8, <1>9 DEF ByMonitor

\* A nested enter of a monitor.
LEMMA FitReenter ==
  ASSUME NEW m \in Words, NEW p \in Protos, NEW t \in Threads, NEW S \in SUBSET Slots, NEW s, NEW r,
         NEW k \in Slots, Fit(m, p, t, S, s), has_monitor(m), owner(m) = t,
         \A i \in S : i < k /\ r[i].hdr = s[i].hdr, r[k].hdr = <<"unused">>
  PROVE  /\ Fit(Monitor(t, recursions(m) + 1), p, t, S \cup {k}, r)
         /\ recursions(m) + 1 \in 0..MaxDepth
<1>1. /\ S # {} /\ Min(S) \in Counted(S, s) /\ IsFiniteSet(Counted(S, s))
      /\ recursions(m) \in 0..MaxDepth /\ Cardinality(Counted(S, s)) = recursions(m) + 1
  BY FitMonitor
<1>2. Min(S \cup {k}) = Min(S) /\ k # Min(S) /\ Min(S) \in S
  BY <1>1, MinPush
<1>3. k \notin S
  BY DEF Slots
<1>4. Counted(S \cup {k}, r) = Counted(S, s) \cup {k} /\ k \notin Counted(S, s)
  BY <1>3 DEF Counted
<1>5. Cardinality(Counted(S \cup {k}, r)) = recursions(m) + 2
  <2> DEFINE C == Counted(S, s)
  <2>0. IsFiniteSet(C) /\ k \notin C
    BY <1>1, <1>4
  <2> HIDE DEF C
  <2>2. Cardinality(C \cup {k}) = Cardinality(C) + 1
    BY <2>0, FS_AddElement, Zenon
  <2>3. Counted(S \cup {k}, r) = C \cup {k} /\ Cardinality(C) = recursions(m) + 1
    BY <1>1, <1>4 DEF C
  <2>4. recursions(m) \in Int
    BY <1>1
  <2>5. Cardinality(Counted(S \cup {k}, r)) = (recursions(m) + 1) + 1
    BY <2>2, <2>3, Zenon
  <2>6. (recursions(m) + 1) + 1 = recursions(m) + 2
    BY <2>4
  <2> QED BY <2>5, <2>6, Zenon
<1>6. recursions(m) + 1 \in 0..MaxDepth
  <2>1. Counted(S \cup {k}, r) \in SUBSET Slots
    BY DEF Counted
  <2>2. Cardinality(Counted(S \cup {k}, r)) \in 0..MaxDepth
    BY <2>1, FiniteSlots
  <2> QED BY <1>1, <1>5, <2>2, LimitsAssumption
<1>7. (recursions(m) + 2) - 1 = recursions(m) + 1
  BY <1>1
<1>8. ByMonitor(Monitor(t, recursions(m) + 1), t, S \cup {k}, r)
  BY <1>1, <1>2, <1>4, <1>5, <1>7 DEF ByMonitor
<1> QED BY <1>6, <1>8, MonitorIs DEF Fit

\* Inflation of a stack lock under its owner.
LEMMA FitInflate ==
  ASSUME NEW m \in Words, NEW p \in Protos, NEW t \in Threads, NEW S \in SUBSET Slots, NEW s,
         Fit(m, p, t, S, s), has_locker(m), owner(m) = t
  PROVE  Fit(Monitor(t, 0), p, t, S, s)
<1>1. m[3] \in S /\ S # {} /\ ~has_bias_pattern(m) /\ ~has_monitor(m)
  BY Apart DEF Fit, Marks
<1>2. ~ByBias(m, p, t)
  BY <1>1, ProtoIs, BiasedIs DEF ByBias
<1>3. ~ByMonitor(m, t, S, s)
  BY <1>1 DEF ByMonitor, Monitor, has_locker
<1>4. ByStackLock(m, t, S, s)
  BY <1>1, <1>2, <1>3 DEF Fit
<1>5. Min(S) \in S
  BY <1>1, MinIs, FiniteSlots
<1>6. Counted(S, s) = {Min(S)}
  BY <1>4, <1>5, NeutralIs DEF Counted, ByStackLock
<1>7. Cardinality(Counted(S, s)) = 1
  BY <1>6, FS_Singleton
<1>8. ByMonitor(Monitor(t, 0), t, S, s)
  BY <1>6, <1>7 DEF ByMonitor
<1>9. 0 \in 0..MaxDepth
  BY LimitsAssumption
<1> QED BY <1>1, <1>8, <1>9, MonitorIs DEF Fit

\* The walk over the stack of the owner of a bias (revoke_bias).
LEMMA FitRevoke ==
  ASSUME NEW p, NEW t \in Threads, NEW S \in SUBSET Slots, NEW s, S # {},
         s[Min(S)].hdr = Neutral, \A i \in S \ {Min(S)} : s[i].hdr = <<"null">>
  PROVE  Fit(StackLock(t, Min(S)), p, t, S, s) /\ Min(S) \in Slots
<1>1. Min(S) \in S
  BY MinIs, FiniteSlots
<1>2. ByStackLock(StackLock(t, Min(S)), t, S, s)
  BY DEF ByStackLock
<1> QED BY <1>1, <1>2, StackLockIs DEF Fit


\* Who holds a biased object holds it by the bias.
LEMMA BiasHolds ==
  ASSUME NEW m \in Words, NEW p \in Protos, NEW t \in Threads, NEW S \in SUBSET Slots, NEW s,
         Fit(m, p, t, S, s), S # {}, has_bias_pattern(m)
  PROVE  ByBias(m, p, t)
<1>1. Names(m, p, t)
  BY HolderIsNamed
<1>2. ~has_locker(m) /\ ~has_monitor(m) /\ m # Neutral
  BY Apart DEF Marks
<1>3. biased_locker(m) = t /\ has_bias_pattern(p) /\ bias_epoch(m) = bias_epoch(p)
  BY <1>1, <1>2 DEF Names, Current
<1>4. m = Biased(biased_locker(m), bias_epoch(m))
  BY <1>2, WordIs
<1> QED BY <1>3, <1>4 DEF ByBias

\* Who holds an object by a stack lock or a monitor.
LEMMA StackLockHolds ==
  ASSUME NEW m \in Words, NEW p \in Protos, NEW t \in Threads, NEW S \in SUBSET Slots, NEW s,
         Fit(m, p, t, S, s), has_locker(m), owner(m) = t
  PROVE  ByStackLock(m, t, S, s) /\ S # {} /\ m[3] = Min(S)
<1>1. m[3] \in S /\ S # {} /\ ~has_bias_pattern(m) /\ ~has_monitor(m)
  BY Apart DEF Fit, Marks
<1>2. ~ByBias(m, p, t)
  BY <1>1, ProtoIs, BiasedIs DEF ByBias
<1>3. ~ByMonitor(m, t, S, s)
  BY <1>1 DEF ByMonitor, Monitor, has_locker
<1>4. ByStackLock(m, t, S, s)
  BY <1>1, <1>2, <1>3 DEF Fit
<1>5. Min(S) \in Slots
  BY <1>1, MinIs, FiniteSlots
<1> QED BY <1>1, <1>4, <1>5, StackLockIs DEF ByStackLock

\* Unlocking a biased object drops the record.
LEMMA FitPopBiased ==
  ASSUME NEW m \in Words, NEW p \in Protos, NEW t \in Threads, NEW S \in SUBSET Slots, NEW s, NEW r,
         NEW k, Fit(m, p, t, S, s), has_bias_pattern(m)
  PROVE  Fit(m, p, t, S \ {k}, r)
<1>1. CASE S = {}
  <2>1. S \ {k} = {}
    BY <1>1
  <2> QED BY <2>1, FitNone, Apart DEF Marks
<1>2. CASE S # {}
  BY <1>2, BiasHolds, FitBias
<1> QED BY <1>1, <1>2

\* Unlocking a nested stack lock drops the record, inflated or not.
LEMMA FitPopNull ==
  ASSUME NEW m \in Words, NEW p \in Protos, NEW t \in Threads, NEW S \in SUBSET Slots, NEW s, NEW r,
         NEW k \in S, Fit(m, p, t, S, s), ~has_bias_pattern(m), s[k].hdr = <<"null">>,
         \A i \in S \ {k} : r[i].hdr = s[i].hdr
  PROVE  Fit(m, p, t, S \ {k}, r)
<1>1. (has_locker(m) \/ has_monitor(m)) /\ owner(m) = t
  BY HolderIsNamed DEF Names
<1>2. CASE has_locker(m)
  <2>1. ByStackLock(m, t, S, s) /\ m[3] = Min(S)
    BY <1>1, <1>2, StackLockHolds
  <2>2. k # Min(S)
    BY <2>1, NeutralIs DEF ByStackLock
  <2>3. Min(S \ {k}) = Min(S) /\ Min(S) \in S \ {k}
    BY <2>2, MinPop
  <2>4. ByStackLock(m, t, S \ {k}, r)
    BY <2>1, <2>3 DEF ByStackLock
  <2> QED BY <1>2, <2>1, <2>3, <2>4, Apart DEF Fit, Marks
<1>3. CASE has_monitor(m)
  <2>1. /\ Min(S) \in Counted(S, s) /\ IsFiniteSet(Counted(S, s)) /\ recursions(m) \in 0..MaxDepth
        /\ Cardinality(Counted(S, s)) = recursions(m) + 1
    BY <1>1, <1>3, FitMonitor
  <2>2. k # Min(S)
    BY <2>1 DEF Counted
  <2>3. Min(S \ {k}) = Min(S) /\ Min(S) \in S \ {k}
    BY <2>2, MinPop
  <2>4. Counted(S \ {k}, r) = Counted(S, s)
    BY DEF Counted
  <2>5. m = Monitor(t, recursions(m))
    BY <1>1, <1>3, WordIs, Apart DEF Marks
  <2>6. recursions(m) = Cardinality(Counted(S \ {k}, r)) - 1
    BY <2>1, <2>4
  <2>7. m = Monitor(t, Cardinality(Counted(S \ {k}, r)) - 1)
    BY <2>5, <2>6
  <2>8. ByMonitor(m, t, S \ {k}, r)
    BY <2>1, <2>3, <2>4, <2>7 DEF ByMonitor
  <2> QED BY <1>3, <2>3, <2>8, Apart DEF Fit, Marks
<1> QED BY <1>1, <1>2, <1>3

\* The stack lock of the youngest record is not nested; its header goes back.
LEMMA FitPopLast ==
  ASSUME NEW p \in Protos, NEW t \in Threads, NEW S \in SUBSET Slots, NEW s,
         NEW k \in Slots, Fit(StackLock(t, k), p, t, S, s), \A i \in S : i <= k
  PROVE  S = {k} /\ s[k].hdr = Neutral
<1>1. /\ StackLock(t, k) \in Words /\ has_locker(StackLock(t, k)) /\ owner(StackLock(t, k)) = t
      /\ StackLock(t, k)[3] = k
  BY StackLockIs
<1>2. ByStackLock(StackLock(t, k), t, S, s) /\ S # {} /\ k = Min(S)
  BY <1>1, StackLockHolds
<1>3. k \in S /\ \A i \in S : k <= i
  BY <1>2, MinIs, FiniteSlots
<1>4. \A i \in S : i = k
  BY <1>3, FiniteSlots
<1> QED BY <1>2, <1>3, <1>4 DEF ByStackLock

\* Exit of a monitor, of the youngest record.
LEMMA FitPopMonitor ==
  ASSUME NEW m \in Words, NEW p \in Protos, NEW t \in Threads, NEW S \in SUBSET Slots, NEW s, NEW r,
         NEW k \in S, Fit(m, p, t, S, s), ~has_bias_pattern(m), s[k].hdr # <<"null">>,
         m # StackLock(t, k), \A i \in S : i <= k, \A i \in S \ {k} : r[i].hdr = s[i].hdr
  PROVE  /\ has_monitor(m) /\ owner(m) = t /\ recursions(m) \in 0..MaxDepth
         /\ recursions(m) > 0 => Fit(Monitor(t, recursions(m) - 1), p, t, S \ {k}, r)
         /\ ~(recursions(m) > 0) => S = {k}
<1>1. (has_locker(m) \/ has_monitor(m)) /\ owner(m) = t
  BY HolderIsNamed DEF Names
<1>2. ~has_locker(m)
  <2> SUFFICES ASSUME has_locker(m) PROVE FALSE
    OBVIOUS
  <2>1. ByStackLock(m, t, S, s)
    BY <1>1, StackLockHolds
  <2>2. k = Min(S)
    BY <2>1 DEF ByStackLock
  <2> QED BY <2>1, <2>2 DEF ByStackLock
<1>3. /\ Min(S) \in Counted(S, s) /\ IsFiniteSet(Counted(S, s)) /\ recursions(m) \in 0..MaxDepth
      /\ Cardinality(Counted(S, s)) = recursions(m) + 1
  BY <1>1, <1>2, FitMonitor
<1>4. k \in Counted(S, s) /\ Counted(S \ {k}, r) = Counted(S, s) \ {k}
  BY DEF Counted
<1>5. Cardinality(Counted(S \ {k}, r)) = recursions(m) /\ IsFiniteSet(Counted(S \ {k}, r))
  <2> DEFINE C == Counted(S, s)
  <2>1. IsFiniteSet(C) /\ k \in C /\ Cardinality(C) = recursions(m) + 1
    BY <1>3, <1>4
  <2>2. Counted(S \ {k}, r) = C \ {k}
    BY <1>4
  <2> HIDE DEF C
  <2>3. Cardinality(C \ {k}) = Cardinality(C) - 1 /\ IsFiniteSet(C \ {k})
    BY <2>1, FS_RemoveElement, Zenon
  <2>4. Cardinality(Counted(S \ {k}, r)) = (recursions(m) + 1) - 1
    BY <2>1, <2>2, <2>3, Zenon
  <2>5. (recursions(m) + 1) - 1 = recursions(m)
    BY <1>3
  <2> QED BY <2>2, <2>3, <2>4, <2>5, Zenon
<1>6. \A y \in S : Min(S) <= y
  BY MinIs, FiniteSlots
<1>7. ASSUME recursions(m) > 0 PROVE Fit(Monitor(t, recursions(m) - 1), p, t, S \ {k}, r)
  <2>1. Counted(S \ {k}, r) # {}
    <3> SUFFICES ASSUME Counted(S \ {k}, r) = {} PROVE FALSE
      OBVIOUS
    <3>1. recursions(m) = 0
      BY <1>5, FS_EmptySet, Zenon
    <3> QED BY <1>7, <3>1
  <2>2. PICK j \in Counted(S, s) : j # k
    BY <1>4, <2>1
  <2>3. j \in S /\ j \in Nat /\ k \in Nat /\ Min(S) \in Nat
    BY <1>3, <2>2, FiniteSlots DEF Counted
  <2>4. Min(S) # k
    BY <1>6, <2>2, <2>3
  <2>5. Min(S \ {k}) = Min(S) /\ Min(S) \in S \ {k}
    BY <2>4, MinPop
  <2>6. Monitor(t, recursions(m) - 1) = Monitor(t, Cardinality(Counted(S \ {k}, r)) - 1)
    BY <1>5
  <2>7. Min(S \ {k}) \in Counted(S \ {k}, r)
    BY <1>3, <1>4, <2>4, <2>5
  <2>8. ByMonitor(Monitor(t, recursions(m) - 1), t, S \ {k}, r)
    BY <2>6, <2>7 DEF ByMonitor
  <2>9. recursions(m) - 1 \in 0..MaxDepth
    BY <1>3, <1>7, LimitsAssumption
  <2> QED BY <2>5, <2>8, <2>9, MonitorIs DEF Fit
<1>8. ASSUME ~(recursions(m) > 0) PROVE S = {k}
  <2>1. recursions(m) = 0
    BY <1>3, <1>8
  <2>2. Counted(S \ {k}, r) = {}
    BY <1>5, <2>1, FS_EmptySet
  <2>3. Min(S) = k
    BY <1>3, <1>4, <2>2
  <2>4. \A i \in S : i \in Nat /\ i <= k /\ k <= i
    BY <1>6, <2>3, FiniteSlots
  <2>5. \A i \in S : i = k
    BY <2>4, FiniteSlots
  <2> QED BY <2>5
<1> QED BY <1>1, <1>2, <1>3, <1>7, <1>8


-----------------------------------------------------------------------------
(* Heaps, and what a safepoint leaves of the invariant.                     *)

RecordTypes(rec) == rec \in [Threads -> Seq(Records)] /\ \A t \in Threads : Len(rec[t]) <= MaxDepth

\* At a safepoint every biased object on a stack has the current epoch, and all
\* the records of the thread it is biased toward are locks.
Stacked(mk, rec, p, G) ==
  \A t \in Threads : \A i \in DOMAIN rec[t] :
    /\ mk[rec[t][i].obj] # None
    /\ has_bias_pattern(mk[rec[t][i].obj]) =>
         /\ Current(mk[rec[t][i].obj], p)
         /\ biased_locker(mk[rec[t][i].obj]) = t => rec[t][i].held \/ t \in G

SafeHeap(mk, rec, p, G) ==
  /\ mk \in [Objects -> Marks] /\ RecordTypes(rec) /\ p \in Protos
  /\ HeapFit(mk, rec, p, G)
  /\ Stacked(mk, rec, p, G)
  /\ \A t \in Threads : t \notin list => rec[t] = <<>>

\* What no operation on heaps changes: the records but for the headers of those
\* whose object was biased, and the marks that are not biased.
Shape(rec, rec2) ==
  \A t \in Threads : /\ DOMAIN rec2[t] = DOMAIN rec[t]
                     /\ \A i \in DOMAIN rec[t] : /\ rec2[t][i].obj = rec[t][i].obj
                                                 /\ rec2[t][i].held = rec[t][i].held
MarksKept(mk, mk2) ==
  \A o \in Objects : /\ ~has_bias_pattern(mk[o]) => mk2[o] = mk[o]
                     /\ has_bias_pattern(mk[o]) => mk2[o] # None
HeadersKept(mk, rec, rec2) ==
  \A t \in Threads : \A i \in DOMAIN rec[t] :
    ~has_bias_pattern(mk[rec[t][i].obj]) => rec2[t][i] = rec[t][i]
Kept(mk, rec, mk2, rec2) ==
  Shape(rec, rec2) /\ MarksKept(mk, mk2) /\ HeadersKept(mk, rec, rec2)

\* The records of a stack are numbered from one.
LEMMA SlotsOf ==
  ASSUME NEW rec, RecordTypes(rec), NEW t \in Threads
  PROVE  /\ DOMAIN rec[t] = 1..Len(rec[t]) /\ DOMAIN rec[t] \in SUBSET Slots
         /\ Len(rec[t]) \in Nat /\ rec[t] \in Seq(Records)
         /\ \A i \in DOMAIN rec[t] : rec[t][i] \in Records /\ rec[t][i].obj \in Objects
                                     /\ rec[t][i].held \in BOOLEAN
<1>1. rec[t] \in Seq(Records) /\ Len(rec[t]) <= MaxDepth
  BY DEF RecordTypes
<1>2. DOMAIN rec[t] = 1..Len(rec[t]) /\ Len(rec[t]) \in Nat
  BY <1>1
<1>3. \A i \in DOMAIN rec[t] : rec[t][i] \in Records
  BY <1>1
<1> QED BY <1>1, <1>2, <1>3, LimitsAssumption DEF Slots, Records

\* Locks are records of the object.
LEMMA LocksAre ==
  ASSUME NEW rec, RecordTypes(rec), NEW t \in Threads, NEW G, NEW o
  PROVE  /\ Locks(rec, G, t, o) \in SUBSET Slots /\ Locks(rec, G, t, o) \subseteq DOMAIN rec[t]
         /\ \A i \in Locks(rec, G, t, o) : rec[t][i].obj = o
BY SlotsOf DEF Locks

\* Heaps of the same shape have the same locks.
LEMMA ShapeLocks ==
  ASSUME NEW rec, NEW rec2, Shape(rec, rec2), NEW t \in Threads, NEW G, NEW o
  PROVE  Locks(rec2, G, t, o) = Locks(rec, G, t, o)
BY DEF Shape, Locks

\* Where nothing is biased the class does not matter.
LEMMA FitProto ==
  ASSUME NEW m \in Words, NEW p \in Protos, NEW q \in Protos, NEW t \in Threads,
         NEW S \in SUBSET Slots, NEW s,
         Fit(m, p, t, S, s), S = {} \/ ~has_bias_pattern(m)
  PROVE  Fit(m, q, t, S, s)
<1>1. ~has_bias_pattern(m) => ~ByBias(m, p, t)
  BY ProtoIs, BiasedIs DEF ByBias
<1> QED BY <1>1 DEF Fit

\* Steps of an operation compose.
LEMMA KeptTransitive ==
  ASSUME NEW mk \in [Objects -> Marks], NEW rec, NEW mk1, NEW rec1, NEW mk2, NEW rec2,
         RecordTypes(rec), Kept(mk, rec, mk1, rec1), Kept(mk1, rec1, mk2, rec2)
  PROVE  Kept(mk, rec, mk2, rec2)
<1>1. Shape(rec, rec2)
  BY DEF Kept, Shape
<1>2. MarksKept(mk, mk2)
  <2> SUFFICES ASSUME NEW o \in Objects
               PROVE  /\ ~has_bias_pattern(mk[o]) => mk2[o] = mk[o]
                      /\ has_bias_pattern(mk[o]) => mk2[o] # None
    BY DEF MarksKept
  <2>1. CASE ~has_bias_pattern(mk[o])
    BY <2>1 DEF Kept, MarksKept
  <2>2. CASE has_bias_pattern(mk[o])
    BY <2>2 DEF Kept, MarksKept
  <2> QED BY <2>1, <2>2
<1>3. HeadersKept(mk, rec, rec2)
  <2> SUFFICES ASSUME NEW t \in Threads, NEW i \in DOMAIN rec[t],
                      ~has_bias_pattern(mk[rec[t][i].obj])
               PROVE  rec2[t][i] = rec[t][i]
    BY DEF HeadersKept
  <2>1. rec1[t][i] = rec[t][i] /\ i \in DOMAIN rec1[t] /\ rec[t][i].obj \in Objects
    BY SlotsOf DEF Kept, HeadersKept, Shape
  <2>2. ~has_bias_pattern(mk1[rec1[t][i].obj])
    BY <2>1 DEF Kept, MarksKept
  <2> QED BY <2>1, <2>2 DEF Kept, HeadersKept
<1> QED BY <1>1, <1>2, <1>3 DEF Kept


-----------------------------------------------------------------------------
(* revoke_bias                                                              *)

IsHeap(h) == h = [mark |-> h.mark, records |-> h.records, proto |-> h.proto,
                  count |-> h.count, bulk |-> h.bulk]

\* The objects of O whose bias revoke_biases takes away, and those of them whose
\* owner is alive and has them on its stack.
Taken(h, O, a, o) == /\ o \in O /\ has_bias_pattern(h.mark[o])
                     /\ ~(biased_locker(h.mark[o]) = None /\ a)
Walked(h, O, a, r, o) ==
  /\ Taken(h, O, a, o) /\ biased_locker(h.mark[o]) # None
  /\ biased_locker(h.mark[o]) = r \/ biased_locker(h.mark[o]) \in list
  /\ monitor_info(h, biased_locker(h.mark[o]), o) # {}
High(h, o) == Min(monitor_info(h, biased_locker(h.mark[o]), o))

\* The marks and the records it leaves.
RevokedMarks(h, O, a, r) ==
  [o \in Objects |-> IF ~Taken(h, O, a, o) THEN h.mark[o]
                     ELSE IF Walked(h, O, a, r, o)
                     THEN StackLock(biased_locker(h.mark[o]), High(h, o))
                     ELSE IF a THEN Biased(None, 0) ELSE Neutral]
RevokedRecords(h, O, a, r) ==
  [t \in Threads |-> [i \in DOMAIN h.records[t] |->
     IF Walked(h, O, a, r, h.records[t][i].obj)
        /\ biased_locker(h.mark[h.records[t][i].obj]) = t
     THEN [h.records[t][i] EXCEPT !.hdr =
             IF i = High(h, h.records[t][i].obj) THEN Neutral ELSE <<"null">>]
     ELSE h.records[t][i]]]

Writes(h, O, a, r, g) ==
  /\ IsHeap(g) /\ g.proto = h.proto /\ g.count = h.count /\ g.bulk = h.bulk
  /\ g.mark = RevokedMarks(h, O, a, r) /\ g.records = RevokedRecords(h, O, a, r)

\* revoke_biases writes the marks and the displaced headers, and nothing else.
LEMMA RevokeFields ==
  ASSUME NEW h, IsHeap(h), NEW O, NEW a, NEW r,
         NEW g, g = revoke_biases(h, O, a, r)
  PROVE  Writes(h, O, a, r, g)
<1>1. g = [h EXCEPT !.mark = RevokedMarks(h, O, a, r), !.records = RevokedRecords(h, O, a, r)]
  BY Zenon DEF revoke_biases, Taken, Walked, High, RevokedMarks, RevokedRecords
<1> QED BY <1>1 DEF IsHeap, Writes

\* The same, point by point, when nothing is rebiased.
Revokes(h, O, a, r, g) ==
  /\ \A o \in Objects :
       /\ ~Taken(h, O, a, o) => g.mark[o] = h.mark[o]
       /\ Walked(h, O, a, r, o) => g.mark[o] = StackLock(biased_locker(h.mark[o]), High(h, o))
       /\ (Taken(h, O, a, o) /\ ~Walked(h, O, a, r, o)) => g.mark[o] = Neutral
  /\ DOMAIN g.mark = Objects /\ g.mark = [o \in Objects |-> g.mark[o]]
  /\ Shape(h.records, g.records) /\ RecordTypes(g.records)
  /\ \A t \in Threads : \A i \in DOMAIN h.records[t] :
       LET o == h.records[t][i].obj
       IN  IF Walked(h, O, a, r, o) /\ biased_locker(h.mark[o]) = t
           THEN g.records[t][i].hdr = (IF i = High(h, o) THEN Neutral ELSE <<"null">>)
           ELSE g.records[t][i] = h.records[t][i]

\* revoke_biases does this.
LEMMA RevokePoints ==
  ASSUME NEW h, IsHeap(h), NEW O, NEW a, ~a, NEW r, RecordTypes(h.records),
         NEW g, g = revoke_biases(h, O, a, r)
  PROVE  Revokes(h, O, a, r, g)
<1>1. \A o \in Objects : Walked(h, O, a, r, o) => Taken(h, O, a, o)
  BY DEF Walked
<1>2. g.mark = RevokedMarks(h, O, a, r)
  BY RevokeFields DEF Writes
<1>3. g.records = RevokedRecords(h, O, a, r)
  BY RevokeFields DEF Writes
<1>4. DOMAIN g.mark = Objects /\ g.mark = [o \in Objects |-> g.mark[o]]
  BY <1>2 DEF RevokedMarks
<1>5. ASSUME NEW t \in Threads
      PROVE  /\ DOMAIN g.records[t] = DOMAIN h.records[t]
             /\ g.records[t] \in Seq(Records) /\ Len(g.records[t]) = Len(h.records[t])
             /\ \A i \in DOMAIN h.records[t] :
                  /\ g.records[t][i].obj = h.records[t][i].obj
                  /\ g.records[t][i].held = h.records[t][i].held
                  /\ LET o == h.records[t][i].obj
                     IN  IF Walked(h, O, a, r, o) /\ biased_locker(h.mark[o]) = t
                         THEN g.records[t][i].hdr = (IF i = High(h, o) THEN Neutral ELSE <<"null">>)
                         ELSE g.records[t][i] = h.records[t][i]
  <2> DEFINE s == h.records[t]  q == g.records[t]
             W(i) == Walked(h, O, a, r, s[i].obj) /\ biased_locker(h.mark[s[i].obj]) = t
             H(i) == IF i = High(h, s[i].obj) THEN Neutral ELSE <<"null">>
  <2>1. q = [i \in DOMAIN s |-> IF W(i) THEN [s[i] EXCEPT !.hdr = H(i)] ELSE s[i]]
    BY <1>3 DEF RevokedRecords
  <2>2. \A i : H(i) \in Headers
    BY NeutralIs DEF Headers, Marks
  <2>3. /\ DOMAIN s = 1..Len(s) /\ Len(s) \in Nat /\ \A i \in DOMAIN s : s[i] \in Records
    BY SlotsOf
  <2> HIDE DEF s, q, W, H
  <2>4. ASSUME NEW i \in DOMAIN s
        PROVE  /\ q[i] \in Records /\ q[i].obj = s[i].obj /\ q[i].held = s[i].held
               /\ IF W(i) THEN q[i].hdr = H(i) ELSE q[i] = s[i]
    <3>1. s[i] \in Records /\ H(i) \in Headers
      BY <2>2, <2>3
    <3>2. q[i] = IF W(i) THEN [s[i] EXCEPT !.hdr = H(i)] ELSE s[i]
      BY <2>1
    <3> QED BY <3>1, <3>2 DEF Records
  <2>5. DOMAIN q = 1..Len(s)
    BY <2>1, <2>3
  <2>6. q \in Seq(Records) /\ Len(q) = Len(s)
    <3>1. q = [i \in 1..Len(s) |-> q[i]]
      BY <2>1, <2>3
    <3>2. \A i \in 1..Len(s) : q[i] \in Records
      BY <2>3, <2>4
    <3> QED BY <2>3, <2>5, <3>1, <3>2
  <2>7. \A i \in DOMAIN s : /\ q[i].obj = s[i].obj /\ q[i].held = s[i].held
                            /\ IF W(i) THEN q[i].hdr = H(i) ELSE q[i] = s[i]
    BY <2>4
  <2> QED BY <2>3, <2>5, <2>6, <2>7 DEF s, q, W, H
<1>6. Shape(h.records, g.records)
  BY <1>5 DEF Shape
<1>7. RecordTypes(g.records)
  <2>1. g.records = [t \in Threads |-> g.records[t]]
    BY <1>3 DEF RevokedRecords
  <2> QED BY <1>5, <2>1 DEF RecordTypes
<1>8. \A o \in Objects :
        /\ ~Taken(h, O, a, o) => g.mark[o] = h.mark[o]
        /\ Walked(h, O, a, r, o) => g.mark[o] = StackLock(biased_locker(h.mark[o]), High(h, o))
        /\ (Taken(h, O, a, o) /\ ~Walked(h, O, a, r, o)) => g.mark[o] = Neutral
  BY <1>1, <1>2 DEF RevokedMarks
<1> QED BY <1>4, <1>5, <1>6, <1>7, <1>8 DEF Revokes


\* A biased mark names a thread or nobody.
LEMMA BiasedWord ==
  ASSUME NEW m \in Marks, has_bias_pattern(m)
  PROVE  /\ m \in Words /\ m = Biased(biased_locker(m), bias_epoch(m))
         /\ biased_locker(m) \in Threads \cup {None} /\ bias_epoch(m) \in 0..(Epochs - 1)
<1>1. m \in Words /\ m # Neutral /\ ~has_locker(m) /\ ~has_monitor(m)
  BY Apart DEF Marks
<1> QED BY <1>1, WordIs

\* Where an object biased toward u is on the stack of u at a safepoint, all that
\* u has of it are locks; nobody else has any.
LEMMA BiasedLocks ==
  ASSUME NEW mk, NEW rec, NEW p, NEW G, SafeHeap(mk, rec, p, G),
         NEW o \in Objects, has_bias_pattern(mk[o]), NEW t \in Threads
  PROVE  /\ biased_locker(mk[o]) = t =>
              Locks(rec, G, t, o) = {i \in DOMAIN rec[t] : rec[t][i].obj = o}
         /\ biased_locker(mk[o]) # t => Locks(rec, G, t, o) = {}
<1>1. mk[o] \in Words
  BY BiasedWord DEF SafeHeap
<1>3. ASSUME biased_locker(mk[o]) = t
      PROVE  Locks(rec, G, t, o) = {i \in DOMAIN rec[t] : rec[t][i].obj = o}
  BY <1>3 DEF SafeHeap, Stacked, Locks
<1>4. ASSUME biased_locker(mk[o]) # t PROVE Locks(rec, G, t, o) = {}
  <2>1. Fit(mk[o], p, t, Locks(rec, G, t, o), rec[t]) /\ p \in Protos /\ RecordTypes(rec)
    BY DEF SafeHeap, HeapFit
  <2>2. Locks(rec, G, t, o) \in SUBSET Slots
    BY <2>1, LocksAre
  <2>3. ~Names(mk[o], p, t)
    BY <1>1, <1>4, Apart DEF Names, Marks
  <2> QED BY <1>1, <2>1, <2>2, <2>3, HolderIsNamed
<1> QED BY <1>3, <1>4

SafelyRevoked(h, G, O, g) ==
  /\ SafeHeap(g.mark, g.records, h.proto, G)
  /\ Kept(h.mark, h.records, g.mark, g.records)
  /\ \A o \in O : ~has_bias_pattern(g.mark[o])
  /\ \A o \in Objects \ O : g.mark[o] = h.mark[o]

\* Revocation at a safepoint, in a class that stays as it is or loses its bias
\* with all the objects on stacks.
LEMMA RevokeSafe ==
  ASSUME NEW h, IsHeap(h), NEW O \in SUBSET Objects, NEW a, ~a, NEW r, NEW G, NEW p,
         SafeHeap(h.mark, h.records, p, G),
         \/ h.proto = p
         \/ /\ h.proto = Neutral
            /\ \A t \in Threads : \A i \in DOMAIN h.records[t] :
                 has_bias_pattern(h.mark[h.records[t][i].obj]) => h.records[t][i].obj \in O,
         NEW g, g = revoke_biases(h, O, a, r)
  PROVE  SafelyRevoked(h, G, O, g)
<1>1. /\ h.mark \in [Objects -> Marks] /\ RecordTypes(h.records) /\ p \in Protos /\ h.proto \in Protos
      /\ \A t \in Threads : t \notin list => h.records[t] = <<>>
      /\ \A t \in Threads, o \in Objects :
           Fit(h.mark[o], p, t, Locks(h.records, G, t, o), h.records[t])
  BY DEF SafeHeap, HeapFit, Protos
<1>2. /\ \A o \in Objects :
           /\ ~Taken(h, O, a, o) => g.mark[o] = h.mark[o]
           /\ Walked(h, O, a, r, o) => g.mark[o] = StackLock(biased_locker(h.mark[o]), High(h, o))
           /\ (Taken(h, O, a, o) /\ ~Walked(h, O, a, r, o)) => g.mark[o] = Neutral
      /\ DOMAIN g.mark = Objects /\ g.mark = [o \in Objects |-> g.mark[o]]
      /\ Shape(h.records, g.records) /\ RecordTypes(g.records)
      /\ \A t \in Threads : \A i \in DOMAIN h.records[t] :
           LET o == h.records[t][i].obj
           IN  IF Walked(h, O, a, r, o) /\ biased_locker(h.mark[o]) = t
               THEN g.records[t][i].hdr = (IF i = High(h, o) THEN Neutral ELSE <<"null">>)
               ELSE g.records[t][i] = h.records[t][i]
  <2>1. Revokes(h, O, a, r, g)
    BY <1>1, RevokePoints
  <2> QED BY <2>1 DEF Revokes
<1>3. \A o \in Objects : Taken(h, O, a, o) <=> (o \in O /\ has_bias_pattern(h.mark[o]))
  BY DEF Taken
<1>4. ASSUME NEW o \in Objects, Walked(h, O, a, r, o)
      PROVE  \E u \in Threads :
               /\ biased_locker(h.mark[o]) = u /\ Locks(h.records, G, u, o) # {}
               /\ High(h, o) = Min(Locks(h.records, G, u, o)) /\ High(h, o) \in Slots
               /\ has_bias_pattern(h.mark[o])
  <2>1. has_bias_pattern(h.mark[o]) /\ biased_locker(h.mark[o]) # None
    BY <1>3, <1>4 DEF Walked
  <2>2. PICK u \in Threads : biased_locker(h.mark[o]) = u
    BY <1>1, <2>1, BiasedWord
  <2>3. monitor_info(h, u, o) = Locks(h.records, G, u, o) /\ monitor_info(h, u, o) # {}
    BY <1>4, <2>1, <2>2, BiasedLocks DEF Walked, monitor_info
  <2>4. Min(Locks(h.records, G, u, o)) \in Slots
    <3>1. Locks(h.records, G, u, o) \in SUBSET Slots
      BY <1>1, LocksAre
    <3> QED BY <2>3, <3>1, MinIs, FiniteSlots
  <2> QED BY <2>1, <2>2, <2>3, <2>4 DEF High
<1>5. ASSUME NEW o \in Objects, Taken(h, O, a, o), ~Walked(h, O, a, r, o), NEW t \in Threads
      PROVE  Locks(h.records, G, t, o) = {}
  <2>1. has_bias_pattern(h.mark[o])
    BY <1>3, <1>5
  <2>2. CASE biased_locker(h.mark[o]) # t
    BY <2>1, <2>2, BiasedLocks
  <2>3. CASE biased_locker(h.mark[o]) = t
    <3>1. t \notin list \/ monitor_info(h, t, o) = {}
      BY <1>5, <2>3, NoneIs DEF Walked
    <3>2. CASE t \notin list
      BY <1>1, <3>2 DEF Locks
    <3>3. CASE monitor_info(h, t, o) = {}
      BY <2>1, <2>3, <3>3, BiasedLocks DEF monitor_info
    <3> QED BY <3>1, <3>2, <3>3
  <2> QED BY <2>2, <2>3
<1>6. \A o \in Objects : /\ g.mark[o] \in Marks
                         /\ Taken(h, O, a, o) => ~has_bias_pattern(g.mark[o]) /\ g.mark[o] # None
  <2> SUFFICES ASSUME NEW o \in Objects
               PROVE  /\ g.mark[o] \in Marks
                      /\ Taken(h, O, a, o) => ~has_bias_pattern(g.mark[o]) /\ g.mark[o] # None
    OBVIOUS
  <2>1. CASE ~Taken(h, O, a, o)
    BY <1>1, <1>2, <2>1
  <2>2. CASE Walked(h, O, a, r, o)
    <3>1. PICK u \in Threads : biased_locker(h.mark[o]) = u /\ High(h, o) \in Slots
      BY <1>4, <2>2
    <3> QED BY <1>2, <2>2, <3>1, StackLockIs DEF Marks
  <2>3. CASE Taken(h, O, a, o) /\ ~Walked(h, O, a, r, o)
    BY <1>2, <2>3, NeutralIs DEF Marks
  <2> QED BY <2>1, <2>2, <2>3
<1>7. ASSUME NEW t \in Threads, NEW o \in Objects
      PROVE  Fit(g.mark[o], h.proto, t, Locks(g.records, G, t, o), g.records[t])
  <2>1. Locks(g.records, G, t, o) = Locks(h.records, G, t, o)
    BY <1>2, ShapeLocks
  <2>2. /\ Locks(h.records, G, t, o) \in SUBSET Slots /\ Locks(h.records, G, t, o) \subseteq DOMAIN h.records[t]
        /\ \A i \in Locks(h.records, G, t, o) : h.records[t][i].obj = o
    BY <1>1, LocksAre
  <2>3. CASE ~Taken(h, O, a, o)
    <3>1. g.mark[o] = h.mark[o] /\ ~Walked(h, O, a, r, o)
      BY <1>2, <2>3 DEF Walked
    <3>2. \A i \in Locks(h.records, G, t, o) : g.records[t][i].hdr = h.records[t][i].hdr
      BY <1>2, <2>2, <3>1
    <3>3. Fit(h.mark[o], p, t, Locks(h.records, G, t, o), g.records[t])
      BY <1>1, <2>2, <3>2, FitSame
    <3>4. CASE h.proto = p
      BY <2>1, <3>1, <3>3, <3>4
    <3>5. CASE h.proto # p
      <4>1. Locks(h.records, G, t, o) = {} \/ ~has_bias_pattern(h.mark[o])
        BY <1>3, <2>2, <2>3, <3>5
      <4>2. CASE h.mark[o] \in Words
        BY <1>1, <2>1, <2>2, <3>1, <3>3, <4>1, <4>2, FitProto
      <4>3. CASE h.mark[o] = None
        <5>1. Locks(h.records, G, t, o) = {}
          BY <2>2, <4>3 DEF SafeHeap, Stacked
        <5> QED BY <2>1, <3>1, <4>3, <5>1, FitNone, NoneIs
      <4> QED BY <1>1, <4>2, <4>3 DEF Marks
    <3> QED BY <3>4, <3>5
  <2>4. CASE Walked(h, O, a, r, o)
    <3>1. PICK u \in Threads :
               /\ biased_locker(h.mark[o]) = u /\ Locks(h.records, G, u, o) # {}
               /\ High(h, o) = Min(Locks(h.records, G, u, o)) /\ High(h, o) \in Slots
               /\ has_bias_pattern(h.mark[o])
      BY <1>4, <2>4
    <3>2. g.mark[o] = StackLock(u, High(h, o))
      BY <1>2, <2>4, <3>1
    <3>3. CASE t = u
      <4> DEFINE S == Locks(h.records, G, t, o)
      <4>1. \A i \in S : g.records[t][i].hdr = (IF i = High(h, o) THEN Neutral ELSE <<"null">>)
        BY <1>2, <2>2, <2>4, <3>1, <3>3
      <4>2. S \in SUBSET Slots /\ S # {} /\ High(h, o) = Min(S)
        BY <2>2, <3>1, <3>3
      <4> HIDE DEF S
      <4>3. Min(S) \in S
        BY <4>2, MinIs, FiniteSlots
      <4>4. g.records[t][Min(S)].hdr = Neutral /\ \A i \in S \ {Min(S)} : g.records[t][i].hdr = <<"null">>
        BY <4>1, <4>2, <4>3
      <4>5. Fit(StackLock(t, Min(S)), h.proto, t, S, g.records[t])
        BY <4>2, <4>4, FitRevoke
      <4> QED BY <2>1, <3>2, <3>3, <4>2, <4>5 DEF S
    <3>4. CASE t # u
      <4>1. Locks(h.records, G, t, o) = {}
        BY <3>1, <3>4, BiasedLocks
      <4>2. owner(g.mark[o]) # t
        BY <3>1, <3>2, <3>4, StackLockIs
      <4> QED BY <2>1, <4>1, <4>2, FitNone
    <3> QED BY <3>3, <3>4
  <2>5. CASE Taken(h, O, a, o) /\ ~Walked(h, O, a, r, o)
    <3>1. Locks(h.records, G, t, o) = {} /\ g.mark[o] = Neutral
      BY <1>2, <1>5, <2>5
    <3> QED BY <2>1, <3>1, FitNone, NeutralIs
  <2> QED BY <2>3, <2>4, <2>5
<1>8. Stacked(g.mark, g.records, h.proto, G)
  <2> SUFFICES ASSUME NEW t \in Threads, NEW i \in DOMAIN g.records[t]
               PROVE  /\ g.mark[g.records[t][i].obj] # None
                      /\ has_bias_pattern(g.mark[g.records[t][i].obj]) =>
                           /\ Current(g.mark[g.records[t][i].obj], h.proto)
                           /\ biased_locker(g.mark[g.records[t][i].obj]) = t =>
                                g.records[t][i].held \/ t \in G
    BY DEF Stacked
  <2>1. i \in DOMAIN h.records[t] /\ g.records[t][i].obj = h.records[t][i].obj
        /\ g.records[t][i].held = h.records[t][i].held
    BY <1>2 DEF Shape
  <2>2. PICK o \in Objects : o = h.records[t][i].obj
    BY <1>1, <2>1, SlotsOf
  <2>3. /\ h.mark[o] # None
        /\ has_bias_pattern(h.mark[o]) =>
             /\ Current(h.mark[o], p)
             /\ biased_locker(h.mark[o]) = t => h.records[t][i].held \/ t \in G
    BY <2>1, <2>2 DEF SafeHeap, Stacked
  <2>4. CASE Taken(h, O, a, o)
    BY <1>6, <2>1, <2>2, <2>4
  <2>5. CASE ~Taken(h, O, a, o)
    <3>1. g.mark[o] = h.mark[o]
      BY <1>2, <2>5
    <3>2. CASE h.proto = p
      BY <2>1, <2>2, <2>3, <3>1, <3>2
    <3>3. CASE h.proto # p
      <4>1. ~has_bias_pattern(h.mark[o])
        BY <1>3, <2>1, <2>2, <2>5, <3>3
      <4> QED BY <2>1, <2>2, <2>3, <3>1, <4>1
    <3> QED BY <3>2, <3>3
  <2> QED BY <2>4, <2>5
<1>9. SafeHeap(g.mark, g.records, h.proto, G)
  <2>1. g.mark \in [Objects -> Marks]
    BY <1>2, <1>6
  <2>2. \A t \in Threads : t \notin list => g.records[t] = <<>>
    <3> SUFFICES ASSUME NEW t \in Threads, t \notin list PROVE g.records[t] = <<>>
      OBVIOUS
    <3>1. h.records[t] = <<>> /\ DOMAIN g.records[t] = DOMAIN h.records[t]
      BY <1>1, <1>2 DEF Shape
    <3>2. /\ g.records[t] \in Seq(Records) /\ DOMAIN g.records[t] = 1..Len(g.records[t])
          /\ Len(g.records[t]) \in Nat
      BY <1>2, SlotsOf
    <3>3. DOMAIN g.records[t] = {}
      BY <3>1
    <3>4. 1 \notin 1..Len(g.records[t])
      BY <3>2, <3>3
    <3>5. Len(g.records[t]) = 0
      BY <3>2, <3>4
    <3> QED BY <3>2, <3>5
  <2> QED BY <1>1, <1>2, <1>7, <1>8, <2>1, <2>2 DEF SafeHeap, HeapFit
<1>10. MarksKept(h.mark, g.mark)
  <2> SUFFICES ASSUME NEW o \in Objects
               PROVE  /\ ~has_bias_pattern(h.mark[o]) => g.mark[o] = h.mark[o]
                      /\ has_bias_pattern(h.mark[o]) => g.mark[o] # None
    BY DEF MarksKept
  <2> QED BY <1>2, <1>3, <1>6, NoneIs
<1>11. HeadersKept(h.mark, h.records, g.records)
  <2> SUFFICES ASSUME NEW t \in Threads, NEW i \in DOMAIN h.records[t],
                      ~has_bias_pattern(h.mark[h.records[t][i].obj])
               PROVE  g.records[t][i] = h.records[t][i]
    BY DEF HeadersKept
  <2>1. ~Walked(h, O, a, r, h.records[t][i].obj)
    BY DEF Walked, Taken
  <2> QED BY <1>2, <2>1
<1>12. \A o \in O : ~has_bias_pattern(g.mark[o])
  BY <1>2, <1>3, <1>6
<1>13. \A o \in Objects \ O : g.mark[o] = h.mark[o]
  BY <1>2, <1>3
<1> QED BY <1>2, <1>9, <1>10, <1>11, <1>12, <1>13 DEF Kept, SafelyRevoked


-----------------------------------------------------------------------------
(* Bulk operations                                                          *)

\* What an operation on heaps keeps; G and G2 are the rebiased threads before
\* and after it.
Sound(h, g, G, G2) ==
  /\ IsHeap(g) /\ SafeHeap(g.mark, g.records, g.proto, G2)
  /\ Kept(h.mark, h.records, g.mark, g.records)
  /\ has_bias_pattern(g.proto) => has_bias_pattern(h.proto)

\* The epochs are numbered modulo their number.
LEMMA NextEpoch ==
  ASSUME NEW e \in 0..(Epochs - 1)
  PROVE  (e + 1) % Epochs \in 0..(Epochs - 1)
<1>1. Epochs \in Nat /\ Epochs > 0 /\ e + 1 \in Nat
  BY LimitsAssumption
<1>2. (e + 1) % Epochs \in 0..(Epochs - 1)
  BY <1>1, Z3
<1> QED BY <1>2

\* A heap is kept by doing nothing.
LEMMA KeptSame ==
  ASSUME NEW mk, NEW rec
  PROVE  Kept(mk, rec, mk, rec)
BY NoneIs DEF Kept, Shape, MarksKept, HeadersKept, has_bias_pattern

\* Nobody holds a biased object that is on no stack.
LEMMA NotStacked ==
  ASSUME NEW h, NEW p, NEW G, SafeHeap(h.mark, h.records, p, G), NEW o \in Objects,
         has_bias_pattern(h.mark[o]), o \notin Locked_biased(h), NEW t \in Threads
  PROVE  Locks(h.records, G, t, o) = {}
<1>1. CASE t \in list
  BY <1>1 DEF Locked_biased, Locks, monitor_info
<1>2. CASE t \notin list
  BY <1>2 DEF SafeHeap, Locks
<1> QED BY <1>1, <1>2

\* All biased objects on stacks are locked ones.
LEMMA StackedIsLocked ==
  ASSUME NEW h, NEW p, NEW G, SafeHeap(h.mark, h.records, p, G),
         NEW t \in Threads, NEW i \in DOMAIN h.records[t],
         has_bias_pattern(h.mark[h.records[t][i].obj])
  PROVE  h.records[t][i].obj \in Locked_biased(h)
<1>1. t \in list
  BY DEF SafeHeap
<1>2. h.records[t][i].obj \in Objects
  BY SlotsOf DEF SafeHeap
<1> QED BY <1>1, <1>2 DEF Locked_biased, monitor_info

\* A new epoch: the bias of objects on stacks is carried over, and that of all
\* others expires.
LEMMA NewEpochSound ==
  ASSUME NEW h, IsHeap(h), NEW G, SafeHeap(h.mark, h.records, h.proto, G)
  PROVE  Sound(h, New_epoch(h), G, G)
<1>1. CASE ~has_bias_pattern(h.proto)
  <2>1. New_epoch(h) = h
    BY <1>1 DEF New_epoch
  <2> QED BY <2>1, KeptSame DEF Sound
<1>2. CASE has_bias_pattern(h.proto)
  <2> DEFINE e == (bias_epoch(h.proto) + 1) % Epochs
             p == Biased(None, e)
             mk == [o \in Objects |-> IF o \in Locked_biased(h)
                                      THEN Biased(biased_locker(h.mark[o]), e) ELSE h.mark[o]]
             g == New_epoch(h)
  <2>1. g = [h EXCEPT !.proto = p, !.mark = mk]
    BY <1>2 DEF New_epoch
  <2>2. e \in 0..(Epochs - 1)
    BY <1>2, ProtoIs, NextEpoch DEF SafeHeap
  <2> HIDE DEF e
  <2>3. p \in Protos /\ has_bias_pattern(p) /\ bias_epoch(p) = e
    BY <2>2, BiasedIs DEF Protos
  <2>4. \A o \in Objects : mk[o] = IF o \in Locked_biased(h)
                                   THEN Biased(biased_locker(h.mark[o]), e) ELSE h.mark[o]
    OBVIOUS
  <2>5. ASSUME NEW o \in Objects, o \in Locked_biased(h)
        PROVE  /\ has_bias_pattern(h.mark[o]) /\ biased_locker(h.mark[o]) \in Threads \cup {None}
               /\ mk[o] = Biased(biased_locker(h.mark[o]), e) /\ has_bias_pattern(mk[o])
               /\ biased_locker(mk[o]) = biased_locker(h.mark[o]) /\ bias_epoch(mk[o]) = e
               /\ mk[o] \in Words /\ mk[o] # None
    <3>1. has_bias_pattern(h.mark[o])
      BY <2>5 DEF Locked_biased
    <3>2. biased_locker(h.mark[o]) \in Threads \cup {None}
      BY <3>1, BiasedWord DEF SafeHeap
    <3> QED BY <2>2, <2>4, <2>5, <3>1, <3>2, BiasedIs
  <2>6. /\ h.mark \in [Objects -> Marks] /\ RecordTypes(h.records) /\ h.proto \in Protos
        /\ \A t \in Threads, o \in Objects :
             Fit(h.mark[o], h.proto, t, Locks(h.records, G, t, o), h.records[t])
    BY DEF SafeHeap, HeapFit
  <2>7. mk \in [Objects -> Marks]
    BY <2>4, <2>5, <2>6 DEF Marks
  <2>8. IsHeap(g) /\ g.mark = mk /\ g.records = h.records /\ g.proto = p
    <3> HIDE DEF p, mk, g
    <3> QED BY <2>1 DEF IsHeap
  <2> HIDE DEF p, mk, g
  <2>9. ASSUME NEW t \in Threads, NEW o \in Objects
        PROVE  Fit(mk[o], p, t, Locks(h.records, G, t, o), h.records[t])
    <3>0. Locks(h.records, G, t, o) \in SUBSET Slots
      BY <2>6, LocksAre
    <3>1. CASE o \in Locked_biased(h)
      <4>1. CASE biased_locker(h.mark[o]) = t
        <5>1. ByBias(mk[o], p, t)
          BY <2>3, <2>5, <3>1, <4>1 DEF ByBias
        <5> QED BY <2>3, <5>1, FitBias
      <4>2. CASE biased_locker(h.mark[o]) # t
        <5>1. Locks(h.records, G, t, o) = {}
          BY <2>5, <3>1, <4>2, BiasedLocks
        <5>2. ~has_locker(mk[o]) /\ ~has_monitor(mk[o])
          BY <2>5, <2>7, <3>1, Apart
        <5> QED BY <5>1, <5>2, FitNone
      <4> QED BY <4>1, <4>2
    <3>2. CASE o \notin Locked_biased(h)
      <4>1. mk[o] = h.mark[o]
        BY <2>4, <3>2
      <4>2. Locks(h.records, G, t, o) = {} \/ ~has_bias_pattern(h.mark[o])
        BY <3>2, NotStacked
      <4>3. CASE h.mark[o] \in Words
        BY <2>3, <2>6, <3>0, <4>1, <4>2, <4>3, FitProto
      <4>4. CASE h.mark[o] = None
        <5>1. Locks(h.records, G, t, o) = {}
          BY <4>4, <2>6, LocksAre DEF SafeHeap, Stacked
        <5> QED BY <4>1, <4>4, <5>1, FitNone, NoneIs
      <4> QED BY <2>6, <4>3, <4>4 DEF Marks
    <3> QED BY <3>1, <3>2
  <2>10. Stacked(mk, h.records, p, G)
    <3> SUFFICES ASSUME NEW t \in Threads, NEW i \in DOMAIN h.records[t]
                 PROVE  /\ mk[h.records[t][i].obj] # None
                        /\ has_bias_pattern(mk[h.records[t][i].obj]) =>
                             /\ Current(mk[h.records[t][i].obj], p)
                             /\ biased_locker(mk[h.records[t][i].obj]) = t =>
                                  h.records[t][i].held \/ t \in G
      BY DEF Stacked
    <3>1. PICK o \in Objects : o = h.records[t][i].obj
      BY <2>6, SlotsOf
    <3>2. /\ h.mark[o] # None
          /\ (has_bias_pattern(h.mark[o]) /\ biased_locker(h.mark[o]) = t) =>
               h.records[t][i].held \/ t \in G
      BY <3>1 DEF SafeHeap, Stacked
    <3>3. CASE has_bias_pattern(h.mark[o])
      <4>1. o \in Locked_biased(h)
        BY <3>1, <3>3, StackedIsLocked
      <4> QED BY <2>3, <2>5, <3>1, <3>2, <4>1 DEF Current
    <3>4. CASE ~has_bias_pattern(h.mark[o])
      <4>1. mk[o] = h.mark[o]
        BY <2>4, <3>4 DEF Locked_biased
      <4> QED BY <3>1, <3>2, <3>4, <4>1
    <3> QED BY <3>3, <3>4
  <2>11. SafeHeap(mk, h.records, p, G)
    BY <2>3, <2>6, <2>7, <2>9, <2>10 DEF SafeHeap, HeapFit
  <2>12. Kept(h.mark, h.records, mk, h.records)
    <3>1. MarksKept(h.mark, mk)
      <4> SUFFICES ASSUME NEW o \in Objects
                   PROVE  /\ ~has_bias_pattern(h.mark[o]) => mk[o] = h.mark[o]
                          /\ has_bias_pattern(h.mark[o]) => mk[o] # None
        BY DEF MarksKept
      <4>1. CASE o \in Locked_biased(h)
        BY <2>5, <4>1
      <4>2. CASE o \notin Locked_biased(h)
        BY <2>4, <4>2, NoneIs
      <4> QED BY <4>1, <4>2
    <3> QED BY <3>1, KeptSame DEF Kept
  <2>13. Sound(h, g, G, G)
    BY <1>2, <2>8, <2>11, <2>12 DEF Sound
  <2> QED BY <2>13 DEF g
<1> QED BY <1>1, <1>2

\* The class loses its bias: what is biased on stacks becomes a stack lock.
LEMMA NoBiasSound ==
  ASSUME NEW h, IsHeap(h), NEW G, SafeHeap(h.mark, h.records, h.proto, G), NEW r
  PROVE  Sound(h, No_bias(h, r), G, G)
<1> DEFINE f == [h EXCEPT !.proto = Neutral]
           O == Locked_biased(h)
           g == No_bias(h, r)
           a == FALSE
<1>1. IsHeap(f) /\ f.mark = h.mark /\ f.records = h.records /\ f.proto = Neutral
  <2>1. PICK n : n = Neutral
    OBVIOUS
  <2>2. f = [h EXCEPT !.proto = n]
    BY <2>1
  <2> HIDE DEF f
  <2>3. IsHeap(f) /\ f.mark = h.mark /\ f.records = h.records /\ f.proto = n
    BY <2>2 DEF IsHeap
  <2> QED BY <2>1, <2>3
<1>2. g = revoke_biases(f, O, a, r) /\ ~a
  BY DEF No_bias
<1>3. O \in SUBSET Objects
  BY DEF Locked_biased
<1> HIDE DEF f, O, a, g
<1>4. \A t \in Threads : \A i \in DOMAIN f.records[t] :
        has_bias_pattern(f.mark[f.records[t][i].obj]) => f.records[t][i].obj \in O
  BY <1>1, StackedIsLocked DEF O
<1>5. SafeHeap(f.mark, f.records, h.proto, G)
  BY <1>1
<1>6. IsHeap(g) /\ g.proto = f.proto
  BY <1>1, <1>2, RevokeFields DEF Writes
<1>7. SafeHeap(g.mark, g.records, f.proto, G) /\ Kept(f.mark, f.records, g.mark, g.records)
  BY <1>1, <1>2, <1>3, <1>4, <1>5, RevokeSafe DEF SafelyRevoked
<1>8. Sound(h, g, G, G)
  BY <1>1, <1>6, <1>7, NeutralIs DEF Sound
<1> QED BY <1>8 DEF g


\* The object of a requester that is about to lock it, and that nobody holds, may
\* be biased toward the requester: from then on the lock is the requester's.
LEMMA RebiasSafe ==
  ASSUME NEW mk, NEW rec, NEW p, NEW G, SafeHeap(mk, rec, p, G), NEW o \in Objects,
         has_bias_pattern(mk[o]), has_bias_pattern(p), \A t \in Threads : Locks(rec, G, t, o) = {},
         NEW r \in Threads, \A i \in DOMAIN rec[r] : rec[r][i].held \/ rec[r][i].obj = o,
         NEW mk2 \in [Objects -> Marks], mk2[o] = Biased(r, bias_epoch(p)),
         \A x \in Objects \ {o} : mk2[x] = mk[x]
  PROVE  /\ SafeHeap(mk2, rec, p, G \cup {r}) /\ MarksKept(mk, mk2)
<1>1. /\ mk \in [Objects -> Marks] /\ RecordTypes(rec) /\ p \in Protos
      /\ \A t \in Threads, x \in Objects : Fit(mk[x], p, t, Locks(rec, G, t, x), rec[t])
      /\ \A t \in Threads : t \notin list => rec[t] = <<>>
  BY DEF SafeHeap, HeapFit
<1>2. bias_epoch(p) \in 0..(Epochs - 1)
  BY <1>1, ProtoIs
<1>3. /\ has_bias_pattern(mk2[o]) /\ biased_locker(mk2[o]) = r /\ bias_epoch(mk2[o]) = bias_epoch(p)
      /\ mk2[o] # None /\ ~has_locker(mk2[o]) /\ ~has_monitor(mk2[o])
  BY <1>2, BiasedIs
<1>4. ASSUME NEW t \in Threads, NEW x \in Objects
      PROVE  Fit(mk2[x], p, t, Locks(rec, G \cup {r}, t, x), rec[t])
  <2>1. CASE x = o /\ t = r
    <3>1. ByBias(mk2[o], p, r)
      BY DEF ByBias
    <3> QED BY <1>1, <2>1, <3>1, FitBias
  <2>2. CASE x = o /\ t # r
    <3>1. Locks(rec, G \cup {r}, t, o) = {}
      BY <2>2 DEF Locks
    <3> QED BY <1>3, <2>2, <3>1, FitNone
  <2>3. CASE x # o
    <3>1. Locks(rec, G \cup {r}, t, x) = Locks(rec, G, t, x)
      BY <2>3 DEF Locks
    <3>2. mk2[x] = mk[x]
      BY <2>3
    <3> QED BY <1>1, <3>1, <3>2
  <2> QED BY <2>1, <2>2, <2>3
<1>5. Stacked(mk2, rec, p, G \cup {r})
  <2> SUFFICES ASSUME NEW t \in Threads, NEW i \in DOMAIN rec[t]
               PROVE  /\ mk2[rec[t][i].obj] # None
                      /\ has_bias_pattern(mk2[rec[t][i].obj]) =>
                           /\ Current(mk2[rec[t][i].obj], p)
                           /\ biased_locker(mk2[rec[t][i].obj]) = t =>
                                rec[t][i].held \/ t \in G \cup {r}
    BY DEF Stacked
  <2>1. PICK x \in Objects : x = rec[t][i].obj
    BY <1>1, SlotsOf
  <2>2. CASE x = o
    BY <1>3, <2>1, <2>2 DEF Current
  <2>3. CASE x # o
    <3>1. mk2[x] = mk[x]
      BY <2>3
    <3>2. /\ mk[x] # None
          /\ has_bias_pattern(mk[x]) =>
               /\ Current(mk[x], p)
               /\ biased_locker(mk[x]) = t => rec[t][i].held \/ t \in G
      BY <2>1 DEF SafeHeap, Stacked
    <3> QED BY <2>1, <3>1, <3>2
  <2> QED BY <2>2, <2>3
<1>6. MarksKept(mk, mk2)
  <2> SUFFICES ASSUME NEW x \in Objects
               PROVE  /\ ~has_bias_pattern(mk[x]) => mk2[x] = mk[x]
                      /\ has_bias_pattern(mk[x]) => mk2[x] # None
    BY DEF MarksKept
  <2>1. CASE x = o
    BY <1>3, <2>1
  <2>2. CASE x # o
    BY <2>2, NoneIs
  <2> QED BY <2>1, <2>2
<1> QED BY <1>1, <1>4, <1>5, <1>6 DEF SafeHeap, HeapFit

\* revoke_bias with allow_rebias either leaves a biased object that nobody holds,
\* and nothing else changed, or revokes as without.
RebiasOutcome(h, G, o, g, f) ==
  /\ g.mark \in [Objects -> Marks]
  /\ has_bias_pattern(g.mark[o]) =>
       /\ has_bias_pattern(h.mark[o]) /\ g.records = h.records
       /\ \A x \in Objects \ {o} : g.mark[x] = h.mark[x]
       /\ \A t \in Threads : Locks(h.records, G, t, o) = {}
  /\ ~has_bias_pattern(g.mark[o]) => g = f

\* It does.
LEMMA AllowRebias ==
  ASSUME NEW h, IsHeap(h), NEW p, NEW G, SafeHeap(h.mark, h.records, p, G), NEW o \in Objects, NEW r,
         NEW a, a, NEW b, ~b, NEW g, g = revoke_biases(h, {o}, a, r),
         NEW f, f = revoke_biases(h, {o}, b, r)
  PROVE  RebiasOutcome(h, G, o, g, f)
<1>1. /\ h.mark \in [Objects -> Marks] /\ RecordTypes(h.records)
      /\ \A t \in Threads : t \notin list => h.records[t] = <<>>
  BY DEF SafeHeap
<1>2. \A x : Walked(h, {o}, a, r, x) <=> Walked(h, {o}, b, r, x)
  BY DEF Walked, Taken
<1>3. /\ IsHeap(g) /\ IsHeap(f) /\ g.proto = f.proto /\ g.count = f.count /\ g.bulk = f.bulk
      /\ g.mark = RevokedMarks(h, {o}, a, r) /\ g.records = RevokedRecords(h, {o}, a, r)
      /\ f.mark = RevokedMarks(h, {o}, b, r) /\ f.records = RevokedRecords(h, {o}, b, r)
  <2>1. Writes(h, {o}, a, r, g) /\ Writes(h, {o}, b, r, f)
    BY RevokeFields
  <2> QED BY <2>1 DEF Writes
<1>4. g.records = f.records
  BY <1>2, <1>3 DEF RevokedRecords
<1>5. /\ ~Taken(h, {o}, a, o) => g.mark[o] = h.mark[o]
      /\ Walked(h, {o}, a, r, o) => g.mark[o] = StackLock(biased_locker(h.mark[o]), High(h, o))
      /\ (Taken(h, {o}, a, o) /\ ~Walked(h, {o}, a, r, o)) => g.mark[o] = Biased(None, 0)
      /\ Walked(h, {o}, a, r, o) => Taken(h, {o}, a, o)
  BY <1>3 DEF RevokedMarks, Walked
<1>6. \A x \in Objects \ {o} : g.mark[x] = h.mark[x] /\ f.mark[x] = h.mark[x]
  BY <1>3 DEF RevokedMarks, Taken
<1>7. ASSUME Walked(h, {o}, a, r, o)
      PROVE  g.mark[o] \in Words /\ ~has_bias_pattern(g.mark[o]) /\ f.mark[o] = g.mark[o]
  <2>1. has_bias_pattern(h.mark[o]) /\ biased_locker(h.mark[o]) # None
    BY <1>7 DEF Walked, Taken
  <2>2. PICK u \in Threads : u = biased_locker(h.mark[o])
    BY <1>1, <2>1, BiasedWord
  <2>3. monitor_info(h, u, o) \in SUBSET Slots /\ monitor_info(h, u, o) # {}
    BY <1>1, <1>7, <2>2, SlotsOf DEF Walked, monitor_info
  <2>4. High(h, o) \in Slots
    BY <2>2, <2>3, MinIs, FiniteSlots DEF High
  <2>5. f.mark[o] = StackLock(biased_locker(h.mark[o]), High(h, o))
    <3>1. Walked(h, {o}, b, r, o) /\ Taken(h, {o}, b, o)
      BY <1>2, <1>7 DEF Walked
    <3> QED BY <1>3, <3>1 DEF RevokedMarks
  <2> QED BY <1>5, <1>7, <2>2, <2>4, <2>5, StackLockIs
<1>8. ASSUME ~Taken(h, {o}, a, o), ~has_bias_pattern(h.mark[o]) PROVE f.mark[o] = g.mark[o]
  BY <1>3, <1>5, <1>8 DEF RevokedMarks, Taken
<1>9. 0 \in 0..(Epochs - 1) /\ None \in Threads \cup {None}
  BY LimitsAssumption
<1>10. Biased(None, 0) \in Words /\ has_bias_pattern(Biased(None, 0))
  <2>1. PICK z : z = 0
    OBVIOUS
  <2>2. Biased(None, z) \in Words /\ has_bias_pattern(Biased(None, z))
    BY <1>9, <2>1, BiasedIs
  <2> QED BY <2>1, <2>2
<1>11. g.mark \in [Objects -> Marks]
  <2>1. g.mark[o] \in Marks
    BY <1>1, <1>5, <1>7, <1>10 DEF Marks
  <2>2. g.mark = [x \in Objects |-> g.mark[x]]
    BY <1>3 DEF RevokedMarks
  <2> QED BY <1>1, <1>6, <2>1, <2>2
<1>12. ASSUME has_bias_pattern(g.mark[o])
       PROVE  /\ has_bias_pattern(h.mark[o]) /\ g.records = h.records
              /\ \A t \in Threads : Locks(h.records, G, t, o) = {}
  <2>1. ~Walked(h, {o}, a, r, o)
    BY <1>7, <1>12
  <2>2. has_bias_pattern(h.mark[o])
    BY <1>5, <1>12, <2>1 DEF Taken
  <2>3. \A x : ~Walked(h, {o}, a, r, x)
    BY <2>1 DEF Walked, Taken
  <2>4. g.records = h.records
    <3>1. g.records = [t \in Threads |-> [i \in DOMAIN h.records[t] |-> h.records[t][i]]]
      BY <1>3, <2>3 DEF RevokedRecords
    <3>2. \A t \in Threads : h.records[t] = [i \in DOMAIN h.records[t] |-> h.records[t][i]]
      BY <1>1, SlotsOf
    <3>3. h.records = [t \in Threads |-> h.records[t]]
      BY <1>1 DEF RecordTypes
    <3> QED BY <3>1, <3>2, <3>3
  <2>5. ASSUME NEW t \in Threads PROVE Locks(h.records, G, t, o) = {}
    <3>1. CASE biased_locker(h.mark[o]) # t
      BY <2>2, <3>1, BiasedLocks
    <3>2. CASE biased_locker(h.mark[o]) = t
      <4>1. Taken(h, {o}, a, o)
        BY <2>2, <3>2, NoneIs DEF Taken
      <4>2. t \notin list \/ monitor_info(h, t, o) = {}
        BY <2>1, <3>2, <4>1, NoneIs DEF Walked
      <4> QED BY <1>1, <4>2 DEF Locks, monitor_info
    <3> QED BY <3>1, <3>2
  <2> QED BY <2>2, <2>4, <2>5
<1>13. ASSUME ~has_bias_pattern(g.mark[o]) PROVE g = f
  <2>1. f.mark[o] = g.mark[o]
    <3>1. CASE Walked(h, {o}, a, r, o)
      BY <1>7, <3>1
    <3>2. CASE Taken(h, {o}, a, o) /\ ~Walked(h, {o}, a, r, o)
      BY <1>5, <1>10, <1>13, <3>2
    <3>3. CASE ~Taken(h, {o}, a, o)
      BY <1>5, <1>8, <1>13, <3>3
    <3> QED BY <3>1, <3>2, <3>3
  <2>2. \A x \in Objects : f.mark[x] = g.mark[x]
    BY <1>6, <2>1
  <2>3. g.mark = [x \in Objects |-> g.mark[x]] /\ f.mark = [x \in Objects |-> f.mark[x]]
    BY <1>3 DEF RevokedMarks
  <2>4. g.mark = f.mark
    BY <2>2, <2>3
  <2> QED BY <1>3, <1>4, <2>4 DEF IsHeap
<1> QED BY <1>6, <1>11, <1>12, <1>13 DEF RebiasOutcome


\* Assignment to one field of a heap: of the time of the last bulk operation.
LEMMA SetBulk ==
  ASSUME NEW h, IsHeap(h), NEW v, NEW g, g = [h EXCEPT !.bulk = v]
  PROVE  IsHeap(g) /\ g.mark = h.mark /\ g.records = h.records /\ g.proto = h.proto
BY DEF IsHeap

\* Of the count.
LEMMA SetCount ==
  ASSUME NEW h, IsHeap(h), NEW v, NEW g, g = [h EXCEPT !.count = v]
  PROVE  /\ IsHeap(g) /\ g.mark = h.mark /\ g.records = h.records /\ g.proto = h.proto
         /\ g.count = v /\ g.bulk = h.bulk
BY DEF IsHeap

\* Operations compose.
LEMMA SoundThen ==
  ASSUME NEW h, NEW G, NEW f, NEW g, NEW G2, SafeHeap(h.mark, h.records, h.proto, G),
         Sound(h, f, G, G), Sound(f, g, G, G2)
  PROVE  Sound(h, g, G, G2)
<1>1. Kept(h.mark, h.records, g.mark, g.records)
  BY KeptTransitive DEF Sound, SafeHeap
<1> QED BY <1>1 DEF Sound

\* Revocation of one object.
LEMMA RevokeSound ==
  ASSUME NEW h, IsHeap(h), NEW G, SafeHeap(h.mark, h.records, h.proto, G), NEW o \in Objects,
         NEW a, ~a, NEW r, NEW g, g = revoke_bias(h, o, a, r)
  PROVE  Sound(h, g, G, G) /\ ~has_bias_pattern(g.mark[o]) /\ g.count = h.count /\ g.bulk = h.bulk
         /\ g.proto = h.proto
<1>0. PICK O, p : O = {o} /\ p = h.proto
  OBVIOUS
<1>1. g = revoke_biases(h, O, a, r) /\ O \in SUBSET Objects
  BY <1>0 DEF revoke_bias
<1>2. IsHeap(g) /\ g.proto = h.proto /\ g.count = h.count /\ g.bulk = h.bulk
  BY <1>1, RevokeFields DEF Writes
<1>3. /\ SafeHeap(g.mark, g.records, h.proto, G) /\ Kept(h.mark, h.records, g.mark, g.records)
      /\ \A x \in O : ~has_bias_pattern(g.mark[x])
  <2>1. SafeHeap(h.mark, h.records, p, G) /\ h.proto = p
    BY <1>0
  <2>2. SafelyRevoked(h, G, O, g)
    BY <1>1, <2>1, RevokeSafe
  <2> QED BY <2>2 DEF SafelyRevoked
<1> QED BY <1>0, <1>2, <1>3 DEF Sound

BulkOutcome(h, G, o, att, r, res) ==
  \/ /\ res.cond = "BIAS_REVOKED_AND_REBIASED" /\ att
     /\ Sound(h, res.heap, G, G \cup {r})
  \/ /\ res.cond = "BIAS_REVOKED"
     /\ Sound(h, res.heap, G, G) /\ ~has_bias_pattern(res.heap.mark[o])

\* bulk_revoke_or_rebias_at_safepoint: the object of the requester ends biased
\* toward it, if it is about to lock it, or not biased.
LEMMA BulkSound ==
  ASSUME NEW h, IsHeap(h), NEW G, SafeHeap(h.mark, h.records, h.proto, G), NEW o \in Objects,
         NEW b, NEW att, NEW r,
         att => /\ r \in Threads
                /\ \A i \in DOMAIN h.records[r] : h.records[r][i].held \/ h.records[r][i].obj = o,
         NEW res, res = bulk_revoke_or_rebias(h, o, b, att, r)
  PROVE  BulkOutcome(h, G, o, att, r, res)
<1> SUFFICES \/ /\ res.cond = "BIAS_REVOKED_AND_REBIASED" /\ att
                /\ Sound(h, res.heap, G, G \cup {r})
             \/ /\ res.cond = "BIAS_REVOKED"
                /\ Sound(h, res.heap, G, G) /\ ~has_bias_pattern(res.heap.mark[o])
  BY DEF BulkOutcome
<1>1. PICK all : all = IF b THEN New_epoch(h) ELSE No_bias(h, r)
  OBVIOUS
<1>2. PICK c : c = (b /\ att /\ has_bias_pattern(all.proto))
  OBVIOUS
<1>3. PICK one : one = revoke_bias(all, o, c, r)
  OBVIOUS
<1>4. PICK end : end = [one EXCEPT !.bulk = TRUE]
  OBVIOUS
<1>5. PICK last : last = [end EXCEPT !.mark[o] = Biased(r, bias_epoch(end.proto))]
  OBVIOUS
<1>6. res = IF att /\ has_bias_pattern(end.mark[o]) /\ has_bias_pattern(end.proto)
            THEN [heap |-> last, cond |-> "BIAS_REVOKED_AND_REBIASED"]
            ELSE [heap |-> end, cond |-> "BIAS_REVOKED"]
  BY <1>1, <1>2, <1>3, <1>4, <1>5, Zenon DEF bulk_revoke_or_rebias
<1>7. Sound(h, all, G, G)
  BY <1>1, NewEpochSound, NoBiasSound
<1>8. IsHeap(all) /\ SafeHeap(all.mark, all.records, all.proto, G)
  BY <1>7 DEF Sound
<1>9. one = revoke_biases(all, {o}, c, r)
  BY <1>3 DEF revoke_bias
<1>10. IsHeap(one) /\ one.proto = all.proto
  BY <1>8, <1>9, RevokeFields DEF Writes
<1>11. PICK v : v = TRUE
  OBVIOUS
<1>12. IsHeap(end) /\ end.mark = one.mark /\ end.records = one.records /\ end.proto = one.proto
  BY <1>4, <1>10, <1>11, SetBulk
<1>13. ASSUME Sound(all, one, G, G), ~has_bias_pattern(one.mark[o])
       PROVE  /\ res.cond = "BIAS_REVOKED"
              /\ Sound(h, res.heap, G, G) /\ ~has_bias_pattern(res.heap.mark[o])
  <2>1. res = [heap |-> end, cond |-> "BIAS_REVOKED"]
    BY <1>6, <1>12, <1>13
  <2>2. Sound(h, one, G, G)
    BY <1>7, <1>13, SoundThen
  <2>3. Sound(h, end, G, G)
    BY <1>12, <2>2 DEF Sound
  <2>4. res.heap = end /\ res.cond = "BIAS_REVOKED"
    BY <2>1
  <2> QED BY <1>12, <1>13, <2>3, <2>4
<1>14. CASE ~c
  <2>1. Sound(all, one, G, G) /\ ~has_bias_pattern(one.mark[o])
    BY <1>3, <1>8, <1>14, RevokeSound
  <2> QED BY <1>13, <2>1
<1>15. CASE c
  <2>1. PICK n : ~n
    OBVIOUS
  <2>2. PICK f : f = revoke_biases(all, {o}, n, r)
    OBVIOUS
  <2>3. /\ one.mark \in [Objects -> Marks]
        /\ has_bias_pattern(one.mark[o]) =>
             /\ has_bias_pattern(all.mark[o]) /\ one.records = all.records
             /\ \A x \in Objects \ {o} : one.mark[x] = all.mark[x]
             /\ \A t \in Threads : Locks(all.records, G, t, o) = {}
        /\ ~has_bias_pattern(one.mark[o]) => one = f
    <3>1. RebiasOutcome(all, G, o, one, f)
      BY <1>8, <1>9, <1>15, <2>1, <2>2, AllowRebias
    <3> QED BY <3>1 DEF RebiasOutcome
  <2>4. CASE ~has_bias_pattern(one.mark[o])
    <3>1. f = revoke_bias(all, o, n, r) /\ one = f
      BY <2>2, <2>3, <2>4 DEF revoke_bias
    <3>2. Sound(all, one, G, G)
      BY <1>8, <2>1, <3>1, RevokeSound
    <3> QED BY <1>13, <2>4, <3>2
  <2>5. CASE has_bias_pattern(one.mark[o])
    <3>1. att /\ has_bias_pattern(all.proto) /\ r \in Threads
      BY <1>2, <1>15
    <3>2. res.heap = last /\ res.cond = "BIAS_REVOKED_AND_REBIASED"
      BY <1>6, <1>10, <1>12, <2>5, <3>1
    <3>3. /\ IsHeap(last) /\ last.mark = [end.mark EXCEPT ![o] = Biased(r, bias_epoch(end.proto))]
          /\ last.records = end.records /\ last.proto = end.proto
      <4>1. PICK w : w = Biased(r, bias_epoch(end.proto))
        OBVIOUS
      <4>2. last = [end EXCEPT !.mark[o] = w]
        BY <1>5, <4>1
      <4>3. /\ IsHeap(last) /\ last.mark = [end.mark EXCEPT ![o] = w]
            /\ last.records = end.records /\ last.proto = end.proto
        <5>1. IsHeap(end)
          BY <1>12
        <5> QED BY <4>2, <5>1 DEF IsHeap
      <4> QED BY <4>1, <4>3
    <3>4. all.proto \in Protos
      BY <1>8 DEF SafeHeap
    <3>5. Biased(r, bias_epoch(all.proto)) \in Marks
      BY <3>1, <3>4, ProtoIs, BiasedIs DEF Marks
    <3>6. /\ last.mark \in [Objects -> Marks] /\ last.mark[o] = Biased(r, bias_epoch(all.proto))
          /\ \A x \in Objects \ {o} : last.mark[x] = all.mark[x]
      BY <1>10, <1>12, <2>3, <2>5, <3>3, <3>5
    <3>7. Shape(h.records, all.records)
      BY <1>7 DEF Sound, Kept
    <3>8. \A i \in DOMAIN all.records[r] : all.records[r][i].held \/ all.records[r][i].obj = o
      BY <3>1, <3>7 DEF Shape
    <3>9. SafeHeap(last.mark, all.records, all.proto, G \cup {r}) /\ MarksKept(all.mark, last.mark)
      BY <1>8, <2>3, <2>5, <3>1, <3>6, <3>8, RebiasSafe
    <3>10. last.records = all.records /\ last.proto = all.proto
      BY <1>10, <1>12, <2>3, <2>5, <3>3
    <3>11. Kept(all.mark, all.records, last.mark, last.records)
      BY <3>9, <3>10, KeptSame DEF Kept
    <3>12. Sound(all, last, G, G \cup {r})
      BY <3>3, <3>9, <3>10, <3>11 DEF Sound
    <3>13. Sound(h, last, G, G \cup {r})
      BY <1>7, <3>12, SoundThen
    <3>14. has_bias_pattern(h.mark[o])
      BY <1>7, <2>3, <2>5 DEF Sound, Kept, MarksKept
    <3> QED BY <3>1, <3>2, <3>13, <3>14
  <2> QED BY <2>4, <2>5
<1> QED BY <1>13, <1>14, <1>15


-----------------------------------------------------------------------------
(* Revocation of the objects of a frame, one after the other.               *)

\* The recursive function of Revoke_objs exists: it can be built up to any n.
LEMMA AfterExists ==
  ASSUME NEW h, NEW s, NEW d, NEW L \in Nat
  PROVE  \E f : f = [n \in 0..L |-> IF n = 0 THEN h ELSE Revoke_one(f[n - 1], s[n].obj, d)]
<1> DEFINE Upto(k, f) == f = [n \in 0..k |-> IF n = 0 THEN h ELSE Revoke_one(f[n - 1], s[n].obj, d)]
           Bad == {k \in Nat : ~ \E f : Upto(k, f)}
<1>1. ASSUME NEW k \in Nat, NEW f, Upto(k, f) PROVE \E g : Upto(k + 1, g)
  <2> DEFINE g == [n \in 0..(k + 1) |-> IF n = k + 1 THEN Revoke_one(f[k], s[k + 1].obj, d) ELSE f[n]]
  <2>1. \A n \in 0..k : g[n] = f[n] /\ n \in 0..(k + 1) /\ n # k + 1
    OBVIOUS
  <2>2. \A n \in 0..k : f[n] = IF n = 0 THEN h ELSE Revoke_one(f[n - 1], s[n].obj, d)
    BY <1>1
  <2>3. g[k + 1] = Revoke_one(f[k], s[k + 1].obj, d)
    OBVIOUS
  <2>4. DOMAIN g = 0..(k + 1) /\ g = [n \in 0..(k + 1) |-> g[n]]
    OBVIOUS
  <2> HIDE DEF g
  <2>5. ASSUME NEW n \in 0..(k + 1)
        PROVE  g[n] = IF n = 0 THEN h ELSE Revoke_one(g[n - 1], s[n].obj, d)
    <3>1. CASE n = k + 1
      <4>1. n - 1 = k /\ n # 0 /\ k \in 0..k
        BY <3>1
      <4>2. g[n - 1] = f[k]
        BY <2>1, <4>1
      <4> QED BY <2>3, <3>1, <4>1, <4>2
    <3>2. CASE n # k + 1
      <4>1. n \in 0..k /\ (n # 0 => n - 1 \in 0..k)
        BY <3>2
      <4> QED BY <2>1, <2>2, <4>1
    <3> QED BY <3>1, <3>2
  <2>6. Upto(k + 1, g)
    BY <2>4, <2>5
  <2> QED BY <2>6
<1>2. \E f : Upto(0, f)
  <2> DEFINE g == [n \in 0..0 |-> h]
  <2>1. \A n \in 0..0 : n = 0
    OBVIOUS
  <2>2. Upto(0, g)
    BY <2>1
  <2> QED BY <2>2
<1>3. Bad \in SUBSET Nat
  OBVIOUS
<1>4. ASSUME Bad # {} PROVE FALSE
  <2>1. Min(Bad) \in Bad /\ \A y \in Bad : Min(Bad) <= y
    BY <1>3, <1>4, MinIs
  <2>2. PICK k \in Nat : k = Min(Bad)
    BY <2>1
  <2>3. k # 0
    BY <1>2, <2>1, <2>2
  <2>4. k - 1 \in Nat /\ k - 1 \notin Bad /\ (k - 1) + 1 = k
    <3>1. k - 1 \in Nat /\ (k - 1) + 1 = k /\ ~(k <= k - 1)
      BY <2>3
    <3> HIDE DEF Bad
    <3>2. k - 1 \notin Bad
      BY <2>1, <2>2, <3>1
    <3> QED BY <3>1, <3>2
  <2>5. \E f : Upto(k - 1, f)
    BY <2>4
  <2>6. \E g : Upto((k - 1) + 1, g)
    BY <1>1, <2>4, <2>5
  <2> QED BY <2>1, <2>2, <2>4, <2>6
<1> QED BY <1>4

\* What the function computes.
LEMMA AfterIs ==
  ASSUME NEW h, NEW s, NEW d, Len(s) \in Nat
  PROVE  \E f : /\ f[0] = h
                /\ \A n \in 1..Len(s) : f[n] = Revoke_one(f[n - 1], s[n].obj, d)
                /\ Revoke_objs(h, s, d) = f[Len(s)]
<1> DEFINE f == CHOOSE f : f = [n \in 0..Len(s) |-> IF n = 0 THEN h
                                                    ELSE Revoke_one(f[n - 1], s[n].obj, d)]
<1>1. Revoke_objs(h, s, d) = f[Len(s)]
  BY DEF Revoke_objs
<1>2. \E g : g = [n \in 0..Len(s) |-> IF n = 0 THEN h ELSE Revoke_one(g[n - 1], s[n].obj, d)]
  BY AfterExists
<1>3. f = [n \in 0..Len(s) |-> IF n = 0 THEN h ELSE Revoke_one(f[n - 1], s[n].obj, d)]
  BY <1>2
<1> HIDE DEF f
<1>4. f[0] = h /\ \A n \in 1..Len(s) : f[n] = Revoke_one(f[n - 1], s[n].obj, d)
  BY <1>3
<1> QED BY <1>1, <1>4

\* Bounds of the count, in a class that has an instance.
CountOK(h) == h.count \in 0..(RevokeLimit + Cardinality(Threads)) /\ h.bulk \in BOOLEAN

\* The number of threads is a number.
LEMMA ThreadCount ==
  /\ Cardinality(Threads) \in Nat /\ RevokeLimit \in Nat /\ RebiasLimit \in Nat
  /\ Threads # {} => Cardinality(Threads) >= 1
<1>1. IsFiniteSet(Threads) /\ Cardinality(Threads) \in Nat
  BY LimitsAssumption, FS_CardinalityType
<1>2. ASSUME Threads # {} PROVE Cardinality(Threads) # 0
  BY <1>1, <1>2, FS_EmptySet
<1> QED BY <1>1, <1>2, LimitsAssumption

BulkKeeps(h, res) == IsHeap(res.heap) /\ res.heap.count = h.count /\ res.heap.bulk = TRUE

\* A bulk operation leaves the count and notes the time.
LEMMA BulkCount ==
  ASSUME NEW h, IsHeap(h), NEW o, NEW b, NEW att, NEW r,
         NEW res, res = bulk_revoke_or_rebias(h, o, b, att, r)
  PROVE  BulkKeeps(h, res)
<1>1. PICK all : all = IF b THEN New_epoch(h) ELSE No_bias(h, r)
  OBVIOUS
<1>2. PICK c : c = (b /\ att /\ has_bias_pattern(all.proto))
  OBVIOUS
<1>3. PICK one : one = revoke_bias(all, o, c, r)
  OBVIOUS
<1>4. PICK end : end = [one EXCEPT !.bulk = TRUE]
  OBVIOUS
<1>5. PICK w : w = Biased(r, bias_epoch(end.proto))
  OBVIOUS
<1>6. PICK last : last = [end EXCEPT !.mark[o] = w]
  OBVIOUS
<1>7. res.heap \in {last, end}
  <2>1. res = IF att /\ has_bias_pattern(end.mark[o]) /\ has_bias_pattern(end.proto)
              THEN [heap |-> last, cond |-> "BIAS_REVOKED_AND_REBIASED"]
              ELSE [heap |-> end, cond |-> "BIAS_REVOKED"]
    BY <1>1, <1>2, <1>3, <1>4, <1>5, <1>6, Zenon DEF bulk_revoke_or_rebias
  <2> QED BY <2>1
<1>8. IsHeap(all) /\ all.count = h.count
  <2>1. PICK p, mk, f : /\ New_epoch(h) = h \/ New_epoch(h) = [h EXCEPT !.proto = p, !.mark = mk]
                        /\ f = [h EXCEPT !.proto = Neutral]
    BY Zenon DEF New_epoch
  <2>2. IsHeap(New_epoch(h)) /\ New_epoch(h).count = h.count
    BY <2>1 DEF IsHeap
  <2>3. PICK q : q = Neutral
    OBVIOUS
  <2>4. IsHeap(f) /\ f.count = h.count
    BY <2>1, <2>3 DEF IsHeap
  <2>5. PICK O, a, g : /\ O = Locked_biased(h) /\ a = FALSE
                       /\ g = No_bias(h, r) /\ g = revoke_biases(f, O, a, r)
    BY <2>1 DEF No_bias
  <2>6. IsHeap(g) /\ g.count = f.count
    BY <2>4, <2>5, RevokeFields DEF Writes
  <2> QED BY <1>1, <2>2, <2>4, <2>5, <2>6
<1>9. IsHeap(one) /\ one.count = all.count
  BY <1>3, <1>8, RevokeFields DEF Writes, revoke_bias
<1>10. PICK v : v = TRUE
  OBVIOUS
<1>11. IsHeap(end) /\ end.count = one.count /\ end.bulk = v
  <2>1. end = [one EXCEPT !.bulk = v]
    BY <1>4, <1>10
  <2> QED BY <1>9, <2>1 DEF IsHeap
<1>12. IsHeap(last) /\ last.count = end.count /\ last.bulk = end.bulk
  BY <1>6, <1>11 DEF IsHeap
<1> QED BY <1>7, <1>8, <1>9, <1>10, <1>11, <1>12 DEF BulkKeeps

\* revoke_at_safepoint, of one object.
LEMMA RevokeOneSound ==
  ASSUME NEW h, IsHeap(h), NEW G, SafeHeap(h.mark, h.records, h.proto, G), NEW o \in Objects,
         NEW d, NEW g, g = Revoke_one(h, o, d), CountOK(h), Threads # {}
  PROVE  Sound(h, g, G, G) /\ CountOK(g)
<1>1. CASE ~has_bias_pattern(h.mark[o])
  <2>1. g = h
    BY <1>1 DEF Revoke_one
  <2> QED BY <2>1, KeptSame DEF Sound
<1>2. CASE has_bias_pattern(h.mark[o])
  <2>1. PICK read : read = IF d /\ May_decay(h) THEN 0 ELSE h.count
    OBVIOUS
  <2>2. PICK count : count = IF read <= RevokeLimit THEN read + 1 ELSE read
    OBVIOUS
  <2>3. PICK f : f = [h EXCEPT !.count = count]
    OBVIOUS
  <2>4. PICK n : n = None
    OBVIOUS
  <2>5. PICK a : a = FALSE
    OBVIOUS
  <2>6. g = IF Decision(count) = "HR_SINGLE_REVOKE" THEN revoke_bias(f, o, a, n)
            ELSE bulk_revoke_or_rebias(f, o, Decision(count) = "HR_BULK_REBIAS", a, n).heap
    BY <1>2, <2>1, <2>2, <2>3, <2>4, <2>5 DEF Revoke_one
  <2>7. count \in 0..(RevokeLimit + Cardinality(Threads))
    <3>1. read \in 0..(RevokeLimit + Cardinality(Threads))
      BY <2>1, ThreadCount DEF CountOK
    <3> QED BY <2>2, <3>1, ThreadCount
  <2>8. /\ IsHeap(f) /\ f.mark = h.mark /\ f.records = h.records /\ f.proto = h.proto
        /\ f.count = count /\ f.bulk = h.bulk
    BY <2>3, SetCount
  <2>9. SafeHeap(f.mark, f.records, f.proto, G)
    BY <2>8
  <2>10. Sound(f, g, G, G) /\ CountOK(g)
    <3>1. CASE Decision(count) = "HR_SINGLE_REVOKE"
      <4>1. g = revoke_bias(f, o, a, n)
        BY <2>6, <3>1
      <4>2. Sound(f, g, G, G) /\ g.count = f.count /\ g.bulk = f.bulk
        BY <2>5, <2>8, <2>9, <4>1, RevokeSound
      <4> QED BY <2>7, <2>8, <4>2 DEF CountOK
    <3>2. CASE Decision(count) # "HR_SINGLE_REVOKE"
      <4>1. PICK b, res : /\ b = (Decision(count) = "HR_BULK_REBIAS")
                          /\ res = bulk_revoke_or_rebias(f, o, b, a, n)
        OBVIOUS
      <4>2. g = res.heap
        BY <2>6, <3>2, <4>1
      <4>3. Sound(f, res.heap, G, G)
        <5>1. BulkOutcome(f, G, o, a, n, res)
          BY <2>5, <2>8, <2>9, <4>1, BulkSound
        <5> QED BY <2>5, <2>8, <5>1 DEF BulkOutcome
      <4>4. res.heap.count = f.count /\ res.heap.bulk = TRUE
        <5>1. BulkKeeps(f, res)
          BY <2>8, <4>1, BulkCount
        <5> QED BY <5>1 DEF BulkKeeps
      <4> QED BY <2>7, <2>8, <4>2, <4>3, <4>4 DEF CountOK
    <3> QED BY <3>1, <3>2
  <2> QED BY <2>8, <2>10 DEF Sound
<1> QED BY <1>1, <1>2

\* VM_RevokeBias with a list of objects.
LEMMA RevokeObjsSound ==
  ASSUME NEW h, IsHeap(h), NEW G, SafeHeap(h.mark, h.records, h.proto, G),
         NEW s, Len(s) \in Nat, \A i \in 1..Len(s) : s[i].obj \in Objects,
         NEW d, NEW g, g = Revoke_objs(h, s, d), CountOK(h), Threads # {}
  PROVE  Sound(h, g, G, G) /\ CountOK(g)
<1>1. PICK f : /\ f[0] = h
               /\ \A n \in 1..Len(s) : f[n] = Revoke_one(f[n - 1], s[n].obj, d)
               /\ Revoke_objs(h, s, d) = f[Len(s)]
  BY AfterIs
<1> DEFINE Bad == {n \in 0..Len(s) : ~(Sound(h, f[n], G, G) /\ CountOK(f[n]))}
<1>2. Bad \in SUBSET Nat
  OBVIOUS
<1>3. 0 \notin Bad
  BY <1>1, KeptSame DEF Sound
<1>4. ASSUME Bad # {} PROVE FALSE
  <2>1. Min(Bad) \in Bad /\ \A y \in Bad : Min(Bad) <= y
    BY <1>2, <1>4, MinIs
  <2>2. PICK k \in 0..Len(s) : k = Min(Bad) /\ ~(Sound(h, f[k], G, G) /\ CountOK(f[k]))
    BY <2>1
  <2>3. k # 0
    BY <1>3, <2>1, <2>2
  <2>4. k \in 1..Len(s) /\ k - 1 \in 0..Len(s) /\ ~(k <= k - 1)
    BY <2>2, <2>3
  <2>5. k - 1 \notin Bad
    <3> HIDE DEF Bad
    <3> QED BY <2>1, <2>2, <2>4
  <2>6. Sound(h, f[k - 1], G, G) /\ CountOK(f[k - 1])
    BY <2>4, <2>5
  <2>7. PICK o, e, x : o = s[k].obj /\ e = f[k - 1] /\ x = f[k] /\ o \in Objects
    BY <2>4
  <2>8. x = Revoke_one(e, o, d) /\ o \in Objects
    BY <1>1, <2>4, <2>7
  <2>9. Sound(h, e, G, G) /\ CountOK(e)
    BY <2>6, <2>7
  <2>10. IsHeap(e) /\ SafeHeap(e.mark, e.records, e.proto, G)
    BY <2>9 DEF Sound
  <2>11. Sound(e, x, G, G) /\ CountOK(x)
    BY <2>8, <2>9, <2>10, RevokeOneSound
  <2>12. Sound(h, x, G, G)
    BY <2>9, <2>11, SoundThen
  <2> QED BY <2>2, <2>7, <2>11, <2>12
<1>5. Sound(h, f[Len(s)], G, G) /\ CountOK(f[Len(s)])
  BY <1>4
<1> QED BY <1>1, <1>5


-----------------------------------------------------------------------------
(* VM operations and collections                                            *)

\* An interval of numbers has one length.
LEMMA SameLength ==
  ASSUME NEW m \in Nat, NEW n \in Nat, 1..m = 1..n
  PROVE  m = n
<1>1. CASE m = 0
  <2>1. 1 \notin 1..n
    BY <1>1
  <2> QED BY <1>1, <2>1
<1>2. CASE n = 0
  <2>1. 1 \notin 1..m
    BY <1>2
  <2> QED BY <1>2, <2>1
<1>3. CASE m # 0 /\ n # 0
  <2>1. m \in 1..n /\ n \in 1..m
    BY <1>3
  <2> QED BY <2>1
<1> QED BY <1>1, <1>2, <1>3

\* A stack that is not empty has a last record.
LEMMA LastOf ==
  ASSUME NEW rec, RecordTypes(rec), NEW t \in Threads, rec[t] # <<>>
  PROVE  Len(rec[t]) # 0 /\ Len(rec[t]) \in DOMAIN rec[t] /\ Len(rec[t]) \in Slots
<1>1. rec[t] \in Seq(Records) /\ DOMAIN rec[t] = 1..Len(rec[t]) /\ Len(rec[t]) \in Nat
  BY SlotsOf
<1>2. Len(rec[t]) # 0
  BY <1>1
<1>3. Len(rec[t]) \in DOMAIN rec[t]
  BY <1>1, <1>2
<1> QED BY <1>2, <1>3, SlotsOf

\* The heap of a state.
LEMMA HeapIs ==
  /\ IsHeap(Heap) /\ Heap.mark = mark /\ Heap.records = records
  /\ Heap.proto = prototype_header /\ Heap.count = revocation_count /\ Heap.bulk = bulk_done
BY DEF Heap, IsHeap

\* Types that the invariant gives.
LEMMA TypesOf ==
  ASSUME Inv
  PROVE  /\ program \in Programs /\ mark \in [Objects -> Marks] /\ RecordTypes(records)
         /\ prototype_header \in Protos /\ revocation_count \in 0..(RevokeLimit + Cardinality(Threads))
         /\ bulk_done \in BOOLEAN /\ enabled \in BOOLEAN /\ list \subseteq Threads
         /\ pc \in [Threads -> PCs] /\ obj \in [Threads -> Objects \cup {None}]
         /\ attempt \in [Threads -> BOOLEAN] /\ seen \in [Threads -> Marks]
         /\ cond \in [Threads -> {"none", "NOT_BIASED", "BIAS_REVOKED", "BIAS_REVOKED_AND_REBIASED"}]
BY DEF Inv, TypeInv, TypeOK, RecordTypes, Protos

\* While the VM is at a safepoint no thread is about to replace a bias.
LEMMA SafepointHeap ==
  ASSUME Inv, AtSafepoint
  PROVE  /\ SafeHeap(mark, records, prototype_header, Rebiased)
         /\ \A t \in Threads : pc[t] \in Stopped
<1>1. ASSUME NEW t \in Threads PROVE pc[t] \in Stopped
  BY DEF AtSafepoint, Inv, LocalInv, Stopped
<1>2. \A t \in Threads : t \notin list => records[t] = <<>>
  BY DEF Inv, LocalInv
<1>3. Stacked(mark, records, prototype_header, Rebiased)
  <2> SUFFICES ASSUME NEW t \in Threads, NEW i \in DOMAIN records[t]
               PROVE  /\ mark[records[t][i].obj] # None
                      /\ has_bias_pattern(mark[records[t][i].obj]) =>
                           /\ Current(mark[records[t][i].obj], prototype_header)
                           /\ biased_locker(mark[records[t][i].obj]) = t =>
                                records[t][i].held \/ t \in Rebiased
    BY DEF Stacked
  <2>1. pc[t] \notin Outdated
    BY <1>1 DEF Stopped, Outdated
  <2>2. RecordInv(t)
    BY DEF Inv
  <2>3. records[t][i].held \/ (attempt[t] /\ records[t][i].obj = obj[t])
    BY <2>2 DEF RecordInv
  <2> QED BY <2>1, <2>2, <2>3 DEF RecordInv
<1> QED BY <1>1, <1>2, <1>3, TypesOf DEF SafeHeap, Inv

\* What a step at a safepoint has to do to keep the invariant.
LEMMA VMKeeps ==
  ASSUME Inv, AtSafepoint, program' = program, list' = list, obj' = obj, attempt' = attempt,
         seen' = seen, pc' \in [Threads -> PCs],
         cond' \in [Threads -> {"none", "NOT_BIASED", "BIAS_REVOKED", "BIAS_REVOKED_AND_REBIASED"}],
         NEW G, Rebiased' = G, Rebiased \subseteq G,
         NEW mk, NEW rec, NEW p, mark' = mk, records' = rec, prototype_header' = p,
         SafeHeap(mk, rec, p, G), Shape(records, rec), HeadersKept(mark, records, rec),
         \A t \in Threads : obj[t] \in Objects =>
           /\ ~has_bias_pattern(mark[obj[t]]) => mk[obj[t]] = mark[obj[t]]
           /\ mark[obj[t]] # None => mk[obj[t]] # None,
         \A o \in Objects : mk[o] # None => mark[o] # None,
         \A o \in Objects : has_bias_pattern(mk[o]) => enabled',
         has_bias_pattern(p) => enabled', enabled' \in BOOLEAN,
         revocation_count' \in 0..(RevokeLimit + Cardinality(Threads)), bulk_done' \in BOOLEAN,
         \A t \in Threads :
           \/ pc'[t] = pc[t] /\ (t \in G => t \in Rebiased)
           \/ pc'[t] = "java" /\ pc[t] = "vm_objs"
           \/ /\ pc'[t] = "returned" /\ pc[t] \in {"vm_revoke", "vm_bulk_rebias", "vm_bulk_revoke"}
              /\ t \in G => attempt[t]
              /\ t \notin G => ~has_bias_pattern(mk[obj[t]])
  PROVE  Inv'
<1>1. \A t \in Threads : pc[t] \in Stopped /\ pc'[t] \in Stopped
  BY SafepointHeap DEF Stopped
<1>2. /\ mk \in [Objects -> Marks] /\ RecordTypes(rec) /\ p \in Protos
      /\ HeapFit(mk, rec, p, G) /\ Stacked(mk, rec, p, G) /\ RecordTypes(records)
  BY TypesOf DEF SafeHeap
<1>3. TypeInv'
  <2>1. TypeOK'
    <3>1. rec \in [Threads -> Seq(Records)] /\ \A t \in Threads : Len(rec[t]) <= MaxDepth
      BY <1>2 DEF RecordTypes
    <3> QED BY <1>2, <3>1, TypesOf DEF TypeOK, Protos
  <2>2. Counting' = {}
    BY <1>1 DEF Counting, Stopped
  <2>3. revocation_count' + Cardinality(Counting') <= RevokeLimit + Cardinality(Threads)
    <3>1. Cardinality(Counting') = 0
      BY <2>2, FS_EmptySet
    <3> QED BY <3>1, ThreadCount
  <2> QED BY <2>1, <2>3, TypesOf DEF TypeInv, Biasable, Inv
<1>4. HeapFit(mark, records, prototype_header, Rebiased)'
  BY <1>2 DEF HeapFit
<1>5. ASSUME NEW t \in Threads PROVE RecordInv(t)'
  <2>1. /\ DOMAIN rec[t] = DOMAIN records[t] /\ DOMAIN rec[t] = 1..Len(rec[t])
        /\ DOMAIN records[t] = 1..Len(records[t]) /\ Len(rec[t]) \in Nat /\ Len(records[t]) \in Nat
    BY <1>2, SlotsOf DEF Shape
  <2>2. Len(rec[t]) = Len(records[t])
    BY <2>1, SameLength
  <2>3. RecordInv(t)
    BY DEF Inv
  <2>4. ASSUME NEW i \in DOMAIN rec[t]
        PROVE  /\ mk[rec[t][i].obj] # None
               /\ rec[t][i].held <=> ~(attempt[t] /\ i = Len(rec[t]))
               /\ has_bias_pattern(mk[rec[t][i].obj]) => Current(mk[rec[t][i].obj], p)
    BY <1>2, <2>1, <2>2, <2>3 DEF RecordInv, Shape, Stacked
  <2>5. ASSUME attempt[t]
        PROVE  /\ rec[t] # <<>> /\ rec[t][Len(rec[t])].obj = obj[t]
               /\ (has_bias_pattern(mk[obj[t]]) /\ biased_locker(mk[obj[t]]) = t) => t \in G
    <3>1. records[t] # <<>> /\ records[t][Len(records[t])].obj = obj[t]
      BY <2>3, <2>5 DEF RecordInv
    <3>2. Len(records[t]) # 0
      BY <1>2, <3>1, LastOf
    <3>3. Len(rec[t]) \in DOMAIN rec[t] /\ rec[t] # <<>>
      BY <2>1, <2>2, <3>2
    <3>4. rec[t][Len(rec[t])].obj = obj[t] /\ ~rec[t][Len(rec[t])].held
      BY <2>1, <2>2, <2>4, <2>5, <3>1, <3>3 DEF Shape
    <3> QED BY <1>2, <3>3, <3>4 DEF Stacked
  <2> QED BY <2>4, <2>5 DEF RecordInv
<1>6. ASSUME NEW t \in Threads PROVE LocalInv(t)'
  <2>1. LocalInv(t) /\ RecordInv(t) /\ pc[t] \in Stopped /\ pc'[t] \in Stopped
    BY <1>1 DEF Inv
  <2>2. t \notin list => pc'[t] = "java" /\ rec[t] = <<>>
    BY <2>1 DEF LocalInv, SafeHeap
  <2>3. pc'[t] \in {"java", "vm_objs"} => ~attempt[t]
    BY <2>1 DEF LocalInv
  <2>4. pc'[t] \notin {"java", "vm_objs"} => obj[t] \in Objects /\ mk[obj[t]] # None
    BY <2>1 DEF LocalInv
  <2>5. (pc'[t] = "monitor" \/ t \in G) => attempt[t]
    BY <2>1 DEF LocalInv, Rebiased
  <2>6. (pc'[t] = "returned" /\ t \notin G) => ~has_bias_pattern(mk[obj[t]])
    <3>1. CASE pc[t] = "returned"
      BY <2>1, <2>4, <3>1 DEF LocalInv
    <3>2. CASE pc[t] # "returned"
      BY <3>2
    <3> QED BY <3>1, <3>2
  <2>7. pc'[t] = "monitor" => has_monitor(mk[obj[t]]) /\ Last(rec[t]).hdr = <<"unused">>
    <3> SUFFICES ASSUME pc'[t] = "monitor"
                 PROVE  has_monitor(mk[obj[t]]) /\ Last(rec[t]).hdr = <<"unused">>
      OBVIOUS
    <3>1. /\ pc[t] = "monitor" /\ has_monitor(mark[obj[t]]) /\ attempt[t]
          /\ Last(records[t]).hdr = <<"unused">> /\ obj[t] \in Objects
      BY <2>1 DEF LocalInv
    <3>2. ~has_bias_pattern(mark[obj[t]])
      BY <3>1, TypesOf, Apart
    <3>3. mk[obj[t]] = mark[obj[t]]
      BY <3>1, <3>2
    <3>4. records[t] # <<>> /\ records[t][Len(records[t])].obj = obj[t]
      BY <2>1, <3>1 DEF RecordInv
    <3>5. /\ DOMAIN rec[t] = DOMAIN records[t] /\ DOMAIN rec[t] = 1..Len(rec[t])
          /\ DOMAIN records[t] = 1..Len(records[t]) /\ Len(rec[t]) \in Nat /\ Len(records[t]) \in Nat
      BY <1>2, SlotsOf DEF Shape
    <3>6. Len(rec[t]) = Len(records[t])
      BY <3>5, SameLength
    <3>7. Len(records[t]) \in DOMAIN records[t]
      BY <1>2, <3>4, LastOf
    <3>8. rec[t][Len(records[t])] = records[t][Len(records[t])]
      BY <3>2, <3>4, <3>7 DEF HeadersKept
    <3> QED BY <3>1, <3>3, <3>6, <3>8 DEF Last
  <2> QED BY <2>1, <2>2, <2>3, <2>4, <2>5, <2>6, <2>7 DEF LocalInv, Stopped
<1> QED BY <1>3, <1>4, <1>5, <1>6 DEF Inv

Conditions == {"none", "NOT_BIASED", "BIAS_REVOKED", "BIAS_REVOKED_AND_REBIASED"}

\* What RevokedForGood says of a step.
Good ==
  /\ \A o \in Objects : mark[o] # None /\ has_bias_pattern(mark'[o]) => has_bias_pattern(mark[o])
  /\ enabled /\ Biasable' => Biasable

\* How a thread fares in a VM operation that leaves the heap with the marks mk and
\* the rebiased threads G.
Served(t, mk, G) ==
  \/ pc'[t] = pc[t] /\ (t \in G => t \in Rebiased)
  \/ pc'[t] = "java" /\ pc[t] = "vm_objs"
  \/ /\ pc'[t] = "returned" /\ pc[t] \in {"vm_revoke", "vm_bulk_rebias", "vm_bulk_revoke"}
     /\ t \in G => attempt[t]
     /\ t \notin G => ~has_bias_pattern(mk[obj[t]])

\* A VM operation that leaves a sound heap keeps the invariant.
LEMMA HeapStep ==
  ASSUME Inv, AtSafepoint, UNCHANGED <<program, list, obj, attempt, seen, enabled>>,
         pc' \in [Threads -> PCs],
         cond' \in [Threads -> Conditions],
         NEW G, Rebiased' = G, Rebiased \subseteq G,
         NEW g, Update(g), Sound(Heap, g, Rebiased, G), CountOK(g),
         \A t \in Threads : Served(t, g.mark, G)
  PROVE  Inv' /\ Good
<1>1. /\ SafeHeap(g.mark, g.records, g.proto, G) /\ Shape(records, g.records)
      /\ MarksKept(mark, g.mark) /\ HeadersKept(mark, records, g.records)
      /\ has_bias_pattern(g.proto) => Biasable
  BY HeapIs DEF Sound, Kept, Biasable
<1>2. /\ mark' = g.mark /\ records' = g.records /\ prototype_header' = g.proto
      /\ revocation_count' = g.count /\ bulk_done' = g.bulk
  BY DEF Update
<1>3. \A o \in Objects : has_bias_pattern(g.mark[o]) => has_bias_pattern(mark[o])
  BY <1>1 DEF MarksKept
<1>4. Good
  BY <1>1, <1>2, <1>3 DEF Good, Biasable
<1>5. \A o \in Objects : g.mark[o] # None => mark[o] # None
  BY <1>1, NoneIs DEF MarksKept
<1>6. \A t \in Threads : obj[t] \in Objects =>
        /\ ~has_bias_pattern(mark[obj[t]]) => g.mark[obj[t]] = mark[obj[t]]
        /\ mark[obj[t]] # None => g.mark[obj[t]] # None
  BY <1>1 DEF MarksKept
<1>7. /\ \A o \in Objects : has_bias_pattern(g.mark[o]) => enabled'
      /\ has_bias_pattern(g.proto) => enabled'
  BY <1>1, <1>3 DEF Inv, TypeInv
<1>8. /\ enabled' \in BOOLEAN /\ bulk_done' \in BOOLEAN
      /\ revocation_count' \in 0..(RevokeLimit + Cardinality(Threads))
  BY <1>2, TypesOf DEF CountOK
<1>9. \A t \in Threads :
        \/ pc'[t] = pc[t] /\ (t \in G => t \in Rebiased)
        \/ pc'[t] = "java" /\ pc[t] = "vm_objs"
        \/ /\ pc'[t] = "returned" /\ pc[t] \in {"vm_revoke", "vm_bulk_rebias", "vm_bulk_revoke"}
           /\ t \in G => attempt[t]
           /\ t \notin G => ~has_bias_pattern(g.mark[obj[t]])
  BY DEF Served
<1>10. Inv'
  <2>1. cond' \in [Threads -> {"none", "NOT_BIASED", "BIAS_REVOKED", "BIAS_REVOKED_AND_REBIASED"}]
    BY DEF Conditions
  <2> QED BY <2>1, <1>1, <1>2, <1>5, <1>6, <1>7, <1>8, <1>9, VMKeeps
<1> QED BY <1>4, <1>10

\* The heap that the VM thread finds.
LEMMA FoundHeap ==
  ASSUME Inv, AtSafepoint
  PROVE  /\ IsHeap(Heap) /\ SafeHeap(Heap.mark, Heap.records, Heap.proto, Rebiased) /\ CountOK(Heap)
         /\ \A t \in Threads : pc[t] \in Stopped
BY HeapIs, SafepointHeap, TypesOf DEF CountOK

\* A thread at a VM operation has an object.
LEMMA RequesterHas ==
  ASSUME Inv, NEW t \in Threads, pc[t] \notin {"java", "vm_objs"}
  PROVE  obj[t] \in Objects /\ mark[obj[t]] # None /\ mark[obj[t]] \in Words
<1>1. obj[t] \in Objects /\ mark[obj[t]] # None
  BY DEF Inv, LocalInv
<1> QED BY <1>1, TypesOf DEF Marks

\* The thread t has gone on to l, and no other.
Gone(t, l) == /\ pc' \in [Threads -> PCs] /\ pc'[t] = l
              /\ \A u \in Threads \ {t} : pc'[u] = pc[u]

\* The thread t has got the condition c, and no other.
Got(t, c) == /\ cond' \in [Threads -> Conditions] /\ cond'[t] = c
             /\ \A u \in Threads \ {t} : cond'[u] = cond[u]

\* A thread goes from one place to another, and no other thread moves.
LEMMA GotoIs ==
  ASSUME Inv, NEW t \in Threads, NEW l \in PCs, Goto(t, l)
  PROVE  Gone(t, l)
<1>1. pc \in [Threads -> PCs]
  BY TypesOf
<1>2. pc' = [pc EXCEPT ![t] = l]
  BY DEF Goto, Set
<1> QED BY <1>1, <1>2 DEF Gone

\* One thread gets the Condition of its operation.
LEMMA CondIs ==
  ASSUME Inv, NEW t \in Threads, NEW c \in Conditions, cond' = Set(cond, t, c)
  PROVE  Got(t, c)
<1>1. cond \in [Threads -> Conditions]
  BY TypesOf DEF Conditions
<1>2. cond' = [cond EXCEPT ![t] = c]
  BY DEF Set
<1> QED BY <1>1, <1>2 DEF Got

\* The places and the conditions named here.
LEMMA Places ==
  /\ "java" \in PCs /\ "slow" \in PCs /\ "returned" \in PCs /\ "vm_revoke" \in PCs
  /\ "vm_bulk_rebias" \in PCs /\ "vm_bulk_revoke" \in PCs /\ "vm_objs" \in PCs
  /\ "monitor" \in PCs /\ "bias" \in PCs /\ "rebias" \in PCs /\ "unbias" \in PCs
  /\ "cas" \in PCs /\ "anonymous" \in PCs /\ "stale" \in PCs /\ "expired" \in PCs
  /\ "heuristics" \in PCs /\ "reset" \in PCs /\ "count" \in PCs /\ "single" \in PCs
  /\ "slow_enter" \in PCs
BY DEF PCs, Stopped

\* What the VM operations leave, in a form to cite.
RevokedHeap(h, G, o, g) ==
  /\ Sound(h, g, G, G) /\ ~has_bias_pattern(g.mark[o])
  /\ g.count = h.count /\ g.bulk = h.bulk

\* revoke_bias of one object leaves a sound heap and the object without a bias.
LEMMA RevokedHeapIs ==
  ASSUME NEW h, IsHeap(h), NEW G, SafeHeap(h.mark, h.records, h.proto, G), NEW o \in Objects,
         NEW a, ~a, NEW r, NEW g, g = revoke_bias(h, o, a, r)
  PROVE  RevokedHeap(h, G, o, g)
BY RevokeSound DEF RevokedHeap

\* VM_RevokeBias: the requester wakes up with the bias gone.
LEMMA RevokeKeeps ==
  ASSUME Inv, NEW t \in Threads, Doit_revoke(t), UNCHANGED program
  PROVE  Inv' /\ Good
<1>1. AtSafepoint /\ pc[t] = "vm_revoke"
  BY DEF Doit_revoke
<1>2. obj[t] \in Objects
  BY <1>1, RequesterHas
<1>3. PICK a : a = FALSE
  OBVIOUS
<1>4. PICK g : g = revoke_bias(Heap, obj[t], a, t)
  OBVIOUS
<1>5. /\ Sound(Heap, g, Rebiased, Rebiased) /\ ~has_bias_pattern(g.mark[obj[t]])
      /\ g.count = Heap.count /\ g.bulk = Heap.bulk
  <2>1. PICK h : h = Heap
    OBVIOUS
  <2>2. IsHeap(h) /\ SafeHeap(h.mark, h.records, h.proto, Rebiased)
    BY <1>1, <2>1, FoundHeap
  <2>3. ~a /\ g = revoke_bias(h, obj[t], a, t)
    BY <1>3, <1>4, <2>1
  <2>4. PICK o, G : o = obj[t] /\ G = Rebiased
    OBVIOUS
  <2>5. RevokedHeap(h, G, o, g)
    BY <1>2, <2>2, <2>3, <2>4, RevokedHeapIs
  <2> QED BY <2>1, <2>4, <2>5 DEF RevokedHeap
<1>6. Update(g)
  BY <1>3, <1>4 DEF Doit_revoke
<1>7. CountOK(g)
  BY <1>1, <1>5, FoundHeap DEF CountOK
<1>8. /\ pc' \in [Threads -> PCs] /\ pc'[t] = "returned" /\ \A u \in Threads \ {t} : pc'[u] = pc[u]
  BY GotoIs, Places DEF Doit_revoke, Gone
<1>9. /\ cond' \in [Threads -> Conditions]
      /\ cond'[t] \in {"BIAS_REVOKED", "NOT_BIASED"}
      /\ \A u \in Threads \ {t} : cond'[u] = cond[u]
  <2>1. PICK c : /\ c = (IF has_bias_pattern(mark[obj[t]]) THEN "BIAS_REVOKED" ELSE "NOT_BIASED")
                 /\ c \in {"BIAS_REVOKED", "NOT_BIASED"}
    OBVIOUS
  <2>2. cond' = Set(cond, t, c)
    BY <2>1 DEF Doit_revoke
  <2>3. c \in Conditions
    BY <2>1 DEF Conditions
  <2> QED BY <2>1, <2>2, <2>3, CondIs DEF Got
<1>10. Rebiased' = Rebiased
  BY <1>1, <1>8, <1>9 DEF Rebiased
<1>11. \A u \in Threads : Served(u, g.mark, Rebiased)
  <2>1. t \notin Rebiased
    BY <1>1 DEF Rebiased
  <2> QED BY <1>1, <1>5, <1>8, <2>1 DEF Served
<1>12. UNCHANGED <<program, list, obj, attempt, seen, enabled>>
  BY DEF Doit_revoke
<1> QED BY <1>1, <1>5, <1>6, <1>7, <1>8, <1>9, <1>10, <1>11, <1>12, HeapStep

\* VM_BulkRevokeBias: the requester is rebiased, or the bias is gone.
LEMMA BulkKeepsInv ==
  ASSUME Inv, NEW t \in Threads, Doit_bulk(t), UNCHANGED program
  PROVE  Inv' /\ Good
<1>1. AtSafepoint /\ pc[t] \in {"vm_bulk_rebias", "vm_bulk_revoke"}
  BY DEF Doit_bulk
<1>2. obj[t] \in Objects
  BY <1>1, RequesterHas
<1>3. PICK b : b = (pc[t] = "vm_bulk_rebias")
  OBVIOUS
<1>4. PICK r : r = bulk_revoke_or_rebias(Heap, obj[t], b, attempt[t], t)
  OBVIOUS
<1>5. PICK g : g = r.heap
  OBVIOUS
<1>6. attempt[t] => \A i \in DOMAIN Heap.records[t] : Heap.records[t][i].held \/ Heap.records[t][i].obj = obj[t]
  <2>1. RecordInv(t)
    BY DEF Inv
  <2> QED BY <2>1, HeapIs DEF RecordInv
<1>7. \/ /\ r.cond = "BIAS_REVOKED_AND_REBIASED" /\ attempt[t]
         /\ Sound(Heap, g, Rebiased, Rebiased \cup {t})
      \/ /\ r.cond = "BIAS_REVOKED"
         /\ Sound(Heap, g, Rebiased, Rebiased) /\ ~has_bias_pattern(g.mark[obj[t]])
  <2>1. PICK h : h = Heap
    OBVIOUS
  <2>2. IsHeap(h) /\ SafeHeap(h.mark, h.records, h.proto, Rebiased)
    BY <1>1, <2>1, FoundHeap
  <2>3. attempt[t] => \A i \in DOMAIN h.records[t] : h.records[t][i].held \/ h.records[t][i].obj = obj[t]
    BY <1>6, <2>1
  <2>4. r = bulk_revoke_or_rebias(h, obj[t], b, attempt[t], t)
    BY <1>4, <2>1
  <2>5. PICK o, G, att : o = obj[t] /\ G = Rebiased /\ att = attempt[t]
    OBVIOUS
  <2>6. BulkOutcome(h, G, o, att, t, r)
    BY <1>2, <2>2, <2>3, <2>4, <2>5, BulkSound
  <2> QED BY <1>5, <2>1, <2>5, <2>6 DEF BulkOutcome
<1>8. Update(g) /\ cond' = Set(cond, t, r.cond) /\ Goto(t, "returned")
  BY <1>3, <1>4, <1>5 DEF Doit_bulk
<1>9. CountOK(g)
  <2>1. BulkKeeps(Heap, r)
    BY <1>4, FoundHeap, <1>1, BulkCount
  <2> QED BY <1>1, <1>5, <2>1, FoundHeap DEF CountOK, BulkKeeps
<1>10. /\ pc' \in [Threads -> PCs] /\ pc'[t] = "returned" /\ \A u \in Threads \ {t} : pc'[u] = pc[u]
  BY <1>8, GotoIs, Places DEF Gone
<1>11. /\ cond' \in [Threads -> Conditions]
       /\ cond'[t] = r.cond
       /\ \A u \in Threads \ {t} : cond'[u] = cond[u]
  <2>1. r.cond \in Conditions
    BY <1>7 DEF Conditions
  <2> QED BY <1>8, <2>1, CondIs DEF Got
<1>12. UNCHANGED <<program, list, obj, attempt, seen, enabled>>
  BY DEF Doit_bulk
<1>13. t \notin Rebiased
  BY <1>1 DEF Rebiased
<1>14. CASE r.cond = "BIAS_REVOKED_AND_REBIASED"
  <2>1. Rebiased' = Rebiased \cup {t}
    BY <1>1, <1>10, <1>11, <1>14 DEF Rebiased
  <2>2. \A u \in Threads : Served(u, g.mark, Rebiased \cup {t})
    BY <1>1, <1>7, <1>10, <1>14 DEF Served
  <2>3. Sound(Heap, g, Rebiased, Rebiased \cup {t})
    BY <1>7, <1>14
  <2> QED BY <1>1, <1>8, <1>9, <1>10, <1>11, <1>12, <2>1, <2>2, <2>3, HeapStep
<1>15. CASE r.cond # "BIAS_REVOKED_AND_REBIASED"
  <2>1. Rebiased' = Rebiased
    BY <1>1, <1>10, <1>11, <1>15 DEF Rebiased
  <2>2. \A u \in Threads : Served(u, g.mark, Rebiased)
    BY <1>1, <1>7, <1>10, <1>13, <1>15 DEF Served
  <2>3. Sound(Heap, g, Rebiased, Rebiased)
    BY <1>7, <1>15
  <2> QED BY <1>1, <1>8, <1>9, <1>10, <1>11, <1>12, <2>1, <2>2, <2>3, HeapStep
<1> QED BY <1>14, <1>15

\* VM_RevokeBias with a list of objects: each of them leaves a sound heap to the next.
LEMMA ObjsKeeps ==
  ASSUME Inv, NEW t \in Threads, Doit_objs(t), UNCHANGED program
  PROVE  Inv' /\ Good
<1>1. AtSafepoint /\ pc[t] = "vm_objs"
  BY DEF Doit_objs
<1>2. PICK d \in BOOLEAN : Update(Revoke_objs(Heap, records[t], d))
  BY DEF Doit_objs
<1>3. PICK g : g = Revoke_objs(Heap, records[t], d)
  OBVIOUS
<1>4. Len(records[t]) \in Nat /\ \A i \in 1..Len(records[t]) : records[t][i].obj \in Objects
  BY TypesOf, SlotsOf
<1>5. Sound(Heap, g, Rebiased, Rebiased) /\ CountOK(g)
  BY <1>1, <1>3, <1>4, FoundHeap, RevokeObjsSound
<1>6. /\ pc' \in [Threads -> PCs] /\ pc'[t] = "java" /\ \A u \in Threads \ {t} : pc'[u] = pc[u]
  BY GotoIs, Places DEF Doit_objs, Gone
<1>7. UNCHANGED <<program, list, obj, attempt, seen, enabled, cond>>
  BY DEF Doit_objs, locals
<1>8. Rebiased' = Rebiased
  BY <1>1, <1>6, <1>7 DEF Rebiased
<1>9. \A u \in Threads : Served(u, g.mark, Rebiased)
  BY <1>1, <1>6 DEF Served
<1>10. cond' \in [Threads -> Conditions]
  BY <1>7, TypesOf DEF Conditions
<1> QED BY <1>1, <1>2, <1>3, <1>5, <1>6, <1>7, <1>8, <1>9, <1>10, HeapStep

\* revoke_at_safepoint, by the VM thread.
LEMMA AtSafepointKeeps ==
  ASSUME Inv, NEW o \in Objects, Revoke_at_safepoint(o), UNCHANGED program
  PROVE  Inv' /\ Good
<1>1. AtSafepoint /\ has_bias_pattern(mark[o])
  BY DEF Revoke_at_safepoint
<1>2. PICK d \in BOOLEAN : Update(Revoke_one(Heap, o, d))
  BY DEF Revoke_at_safepoint
<1>3. PICK g : g = Revoke_one(Heap, o, d)
  OBVIOUS
<1>4. Threads # {}
  <2>1. mark[o] # None
    BY <1>1 DEF has_bias_pattern
  <2> QED BY <2>1 DEF Inv, TypeInv
<1>5. Sound(Heap, g, Rebiased, Rebiased) /\ CountOK(g)
  BY <1>1, <1>3, <1>4, FoundHeap, RevokeOneSound
<1>6. UNCHANGED <<program, list, obj, attempt, seen, enabled, cond, pc>>
  BY DEF Revoke_at_safepoint, locals
<1>7. Rebiased' = Rebiased
  BY <1>6 DEF Rebiased
<1>8. \A u \in Threads : Served(u, g.mark, Rebiased)
  BY <1>6 DEF Served
<1>9. /\ pc' \in [Threads -> PCs]
      /\ cond' \in [Threads -> Conditions]
  BY <1>6, TypesOf DEF Conditions
<1> QED BY <1>1, <1>2, <1>3, <1>5, <1>6, <1>7, <1>8, <1>9, HeapStep

\* Before biased locking is enabled no mark is biased.
LEMMA EnableKeeps ==
  ASSUME Inv, VM_EnableBiasedLocking, UNCHANGED program
  PROVE  Inv' /\ Good
<1>1. AtSafepoint /\ ~enabled /\ enabled' = TRUE
  BY DEF VM_EnableBiasedLocking
<1>2. UNCHANGED <<program, mark, revocation_count, bulk_done, list, records, pc, obj, attempt, seen, cond>>
  BY DEF VM_EnableBiasedLocking, locals
<1>3. PICK p : p = Biased(None, 0) /\ p \in Protos
  BY LimitsAssumption DEF Protos
<1>4. prototype_header' = p
  BY <1>3 DEF VM_EnableBiasedLocking
<1>5. ~Biasable /\ \A o \in Objects : ~has_bias_pattern(mark[o])
  BY <1>1 DEF Inv, TypeInv
<1>6. SafeHeap(mark, records, prototype_header, Rebiased)
  BY <1>1, SafepointHeap
<1>7. SafeHeap(mark, records, p, Rebiased)
  <2>1. HeapFit(mark, records, p, Rebiased)
    <3> SUFFICES ASSUME NEW t \in Threads, NEW o \in Objects
                 PROVE  Fit(mark[o], p, t, Locks(records, Rebiased, t, o), records[t])
      BY DEF HeapFit
    <3>1. Fit(mark[o], prototype_header, t, Locks(records, Rebiased, t, o), records[t])
      BY <1>6 DEF SafeHeap, HeapFit
    <3>2. Locks(records, Rebiased, t, o) \in SUBSET Slots
      BY <1>6, LocksAre DEF SafeHeap
    <3>3. CASE mark[o] = None
      <4>1. Locks(records, Rebiased, t, o) = {}
        BY <1>6, <3>3 DEF Locks, SafeHeap, Stacked
      <4> QED BY <3>3, <4>1, FitNone, NoneIs
    <3>4. CASE mark[o] # None
      <4>1. mark[o] \in Words
        BY <3>4, TypesOf DEF Marks
      <4> QED BY <1>3, <1>5, <3>1, <3>2, <4>1, FitProto, TypesOf
    <3> QED BY <3>3, <3>4
  <2>2. Stacked(mark, records, p, Rebiased)
    <3>1. \A t \in Threads : \A i \in DOMAIN records[t] : records[t][i].obj \in Objects
      BY TypesOf, SlotsOf
    <3> QED BY <1>5, <1>6, <3>1 DEF Stacked, SafeHeap
  <2> QED BY <1>3, <1>6, <2>1, <2>2 DEF SafeHeap
<1>8. Rebiased' = Rebiased
  BY <1>2 DEF Rebiased
<1>9. Shape(records, records) /\ HeadersKept(mark, records, records)
  BY DEF Shape, HeadersKept
<1>10. Good
  BY <1>1, <1>2 DEF Good
<1>11. /\ pc' \in [Threads -> PCs]
       /\ cond' \in [Threads -> Conditions]
       /\ bulk_done' \in BOOLEAN /\ revocation_count' \in 0..(RevokeLimit + Cardinality(Threads))
  BY <1>2, TypesOf DEF Conditions
<1>12. Inv'
  <2>1. cond' \in [Threads -> {"none", "NOT_BIASED", "BIAS_REVOKED", "BIAS_REVOKED_AND_REBIASED"}]
    BY <1>11 DEF Conditions
  <2> QED BY <2>1, <1>1, <1>2, <1>4, <1>7, <1>8, <1>9, <1>11, VMKeeps
<1> QED BY <1>10, <1>12

\* A collection changes only marks of biased objects on no stack.
LEMMA CollectKeeps ==
  ASSUME Inv, Collect, UNCHANGED program
  PROVE  Inv' /\ Good
<1>1. AtSafepoint
  BY DEF Collect
<1>2. UNCHANGED <<program, prototype_header, revocation_count, bulk_done, enabled, list, records,
                  pc, obj, attempt, seen, cond>>
  BY DEF Collect, klass, locals
<1>3. PICK dead \in SUBSET {o \in Objects : \A t \in Threads : obj[t] # o /\ monitor_info(Heap, t, o) = {}} :
        mark' = [o \in Objects |->
                  IF o \in dead \/ mark[o] = None THEN None
                  ELSE IF must_be_preserved(mark[o]) \/ o \in Locked_biased(Heap) THEN mark[o]
                  ELSE prototype_header]
  BY DEF Collect
<1>4. PICK mk : mk = mark'
  OBVIOUS
<1>5. PICK h : h = Heap
  OBVIOUS
<1>6. SafeHeap(mark, records, prototype_header, Rebiased)
  BY <1>1, SafepointHeap
<1>7. /\ SafeHeap(h.mark, h.records, h.proto, Rebiased) /\ h.mark = mark
      /\ h.records = records /\ h.proto = prototype_header
  BY <1>5, <1>6, HeapIs
<1>8. /\ mark \in [Objects -> Marks] /\ prototype_header \in Protos /\ RecordTypes(records)
  BY TypesOf
<1>9. ASSUME NEW o \in Objects
      PROVE  \/ mk[o] = None /\ (o \in dead \/ mark[o] = None)
             \/ mk[o] = mark[o] /\ o \notin dead /\ mark[o] # None
             \/ /\ mk[o] = prototype_header /\ has_bias_pattern(mark[o]) /\ o \notin Locked_biased(h)
                /\ o \notin dead
  <2>1. CASE o \in dead \/ mark[o] = None
    BY <1>3, <1>4, <2>1
  <2>2. CASE ~(o \in dead \/ mark[o] = None)
    <3>1. mk[o] = IF must_be_preserved(mark[o]) \/ o \in Locked_biased(h) THEN mark[o]
                  ELSE prototype_header
      BY <1>3, <1>4, <1>5, <2>2
    <3>2. CASE must_be_preserved(mark[o]) \/ o \in Locked_biased(h)
      BY <2>2, <3>1, <3>2
    <3>3. CASE ~(must_be_preserved(mark[o]) \/ o \in Locked_biased(h))
      <4>1. CASE has_bias_pattern(mark[o])
        BY <2>2, <3>1, <3>3, <4>1
      <4>2. CASE ~has_bias_pattern(mark[o])
        <5>1. ~has_bias_pattern(prototype_header) /\ mark[o] = Neutral
          BY <3>3, <4>2 DEF must_be_preserved, Biasable
        <5>2. prototype_header = Neutral
          BY <1>8, <5>1, ProtoIs
        <5> QED BY <2>2, <3>1, <5>1, <5>2
      <4> QED BY <4>1, <4>2
    <3> QED BY <3>2, <3>3
  <2> QED BY <2>1, <2>2
<1>10. mk \in [Objects -> Marks]
  <2>1. prototype_header \in Marks /\ None \in Marks
    BY <1>8, ProtoIs DEF Marks
  <2>2. mk = [o \in Objects |-> mk[o]]
    BY <1>3, <1>4
  <2>3. \A o \in Objects : mk[o] \in Marks
    BY <1>8, <1>9, <2>1
  <2> QED BY <2>2, <2>3
<1>11. \A t \in Threads : \A i \in DOMAIN records[t] :
         /\ records[t][i].obj \in Objects /\ records[t][i].obj \notin dead
         /\ mark[records[t][i].obj] # None
         /\ mk[records[t][i].obj] = mark[records[t][i].obj]
  <2> SUFFICES ASSUME NEW t \in Threads, NEW i \in DOMAIN records[t]
               PROVE  /\ records[t][i].obj \in Objects /\ records[t][i].obj \notin dead
                      /\ mark[records[t][i].obj] # None
                      /\ mk[records[t][i].obj] = mark[records[t][i].obj]
    OBVIOUS
  <2>1. PICK o : o = records[t][i].obj
    OBVIOUS
  <2>2. o \in Objects /\ mark[o] # None
    BY <1>6, <1>8, <2>1, SlotsOf DEF SafeHeap, Stacked
  <2>3. i \in monitor_info(Heap, t, o)
    BY <2>1, HeapIs DEF monitor_info
  <2>4. o \notin dead
    BY <2>3
  <2>5. has_bias_pattern(mark[o]) => o \in Locked_biased(h)
    <3>1. i \in DOMAIN h.records[t] /\ h.records[t][i].obj = o /\ h.mark[o] = mark[o]
      BY <1>7, <2>1
    <3> QED BY <1>7, <3>1, StackedIsLocked
  <2> QED BY <1>9, <2>1, <2>2, <2>4, <2>5
<1>12. SafeHeap(mk, records, prototype_header, Rebiased)
  <2>1. HeapFit(mk, records, prototype_header, Rebiased)
    <3> SUFFICES ASSUME NEW t \in Threads, NEW o \in Objects
                 PROVE  Fit(mk[o], prototype_header, t, Locks(records, Rebiased, t, o), records[t])
      BY DEF HeapFit
    <3>1. Fit(mark[o], prototype_header, t, Locks(records, Rebiased, t, o), records[t])
      BY <1>6 DEF SafeHeap, HeapFit
    <3>2. CASE mk[o] = mark[o]
      BY <3>1, <3>2
    <3>3. CASE mk[o] # mark[o]
      <4>1. Locks(records, Rebiased, t, o) = {}
        BY <1>11, <3>3 DEF Locks
      <4>2. mk[o] = None \/ mk[o] = prototype_header
        BY <1>9, <3>3
      <4>3. ~has_locker(mk[o]) /\ ~has_monitor(mk[o])
        BY <1>8, <4>2, NoneIs, ProtoIs
      <4> QED BY <4>1, <4>3, FitNone
    <3> QED BY <3>2, <3>3
  <2>2. Stacked(mk, records, prototype_header, Rebiased)
    BY <1>6, <1>11 DEF Stacked, SafeHeap
  <2> QED BY <1>6, <1>10, <2>1, <2>2 DEF SafeHeap
<1>13. Rebiased' = Rebiased
  BY <1>2 DEF Rebiased
<1>14. Shape(records, records) /\ HeadersKept(mark, records, records)
  BY DEF Shape, HeadersKept
<1>15. \A o \in Objects : mark[o] # None /\ has_bias_pattern(mk[o]) => has_bias_pattern(mark[o])
  BY <1>9, NoneIs
<1>16. Good
  BY <1>2, <1>4, <1>15 DEF Good, Biasable
<1>17. \A o \in Objects : has_bias_pattern(mk[o]) => enabled'
  <2>1. /\ \A o \in Objects : has_bias_pattern(mark[o]) => enabled
        /\ has_bias_pattern(prototype_header) => enabled
    BY DEF Inv, TypeInv, Biasable
  <2> QED BY <1>2, <1>9, <2>1, NoneIs
<1>18. /\ enabled' \in BOOLEAN
       /\ has_bias_pattern(prototype_header) => enabled'
       /\ pc' \in [Threads -> PCs] /\ bulk_done' \in BOOLEAN
       /\ cond' \in [Threads -> {"none", "NOT_BIASED", "BIAS_REVOKED", "BIAS_REVOKED_AND_REBIASED"}]
       /\ revocation_count' \in 0..(RevokeLimit + Cardinality(Threads))
  BY <1>2, TypesOf DEF Inv, TypeInv, Biasable
<1>19. \A o \in Objects : mk[o] # None => mark[o] # None
  BY <1>9, NoneIs
<1>20. \A t \in Threads : obj[t] \in Objects =>
         /\ ~has_bias_pattern(mark[obj[t]]) => mk[obj[t]] = mark[obj[t]]
         /\ mark[obj[t]] # None => mk[obj[t]] # None
  <2> SUFFICES ASSUME NEW t \in Threads, obj[t] \in Objects
               PROVE  /\ ~has_bias_pattern(mark[obj[t]]) => mk[obj[t]] = mark[obj[t]]
                      /\ mark[obj[t]] # None => mk[obj[t]] # None
    OBVIOUS
  <2>1. obj[t] \notin dead
    OBVIOUS
  <2>2. prototype_header # None
    BY <1>8, ProtoIs
  <2> QED BY <1>9, <2>1, <2>2
<1>21. Inv'
  <2>1. mark' = mk /\ records' = records /\ prototype_header' = prototype_header
    BY <1>2, <1>4
  <2>2. PICK rec, p, G : rec = records /\ p = prototype_header /\ G = Rebiased
    OBVIOUS
  <2>3. /\ SafeHeap(mk, rec, p, G) /\ Shape(records, rec) /\ HeadersKept(mark, records, rec)
        /\ mark' = mk /\ records' = rec /\ prototype_header' = p
        /\ has_bias_pattern(p) => enabled'
    BY <1>12, <1>14, <1>18, <2>1, <2>2
  <2>4. Rebiased' = G /\ Rebiased \subseteq G
    BY <1>13, <2>2
  <2>5. \A t \in Threads : pc'[t] = pc[t] /\ (t \in G => t \in Rebiased)
    BY <1>2, <2>2
  <2> QED BY <1>1, <1>2, <2>3, <2>4, <2>5, <1>17, <1>18, <1>19, <1>20, VMKeeps
<1> QED BY <1>16, <1>21

-----------------------------------------------------------------------------
(* Steps of one thread, among the others                                    *)

\* The thread t is at l, with the locals o, a, s and c; no other has moved.
Now(t, l, o, a, s, c) ==
  /\ pc' \in [Threads -> PCs] /\ obj' \in [Threads -> Objects \cup {None}]
  /\ attempt' \in [Threads -> BOOLEAN] /\ seen' \in [Threads -> Marks]
  /\ cond' \in [Threads -> Conditions]
  /\ pc'[t] = l /\ obj'[t] = o /\ attempt'[t] = a /\ seen'[t] = s /\ cond'[t] = c
  /\ \A u \in Threads \ {t} : /\ pc'[u] = pc[u] /\ obj'[u] = obj[u] /\ attempt'[u] = attempt[u]
                              /\ seen'[u] = seen[u] /\ cond'[u] = cond[u]

\* The stacks and the list are as they were, but for t.
Alone(t) ==
  /\ RecordTypes(records') /\ list' \in SUBSET Threads
  /\ \A u \in Threads \ {t} : records'[u] = records[u] /\ (u \in list' <=> u \in list)

\* What t may make of a mark while other threads run: a mark without a bias, or
\* its own bias, in place of none or of an expired one.
Move(t, m, n) ==
  \/ n = m
  \/ ~has_bias_pattern(n) /\ n # None /\ (has_monitor(m) => has_monitor(n))
  \/ /\ has_bias_pattern(m) /\ ByBias(n, prototype_header, t)
     /\ biased_locker(m) = None \/ bias_epoch(m) # epoch

Moves(t) == mark' \in [Objects -> Marks]
            /\ \A o \in Objects : mark[o] # None => Move(t, mark[o], mark'[o])

\* The mark that a move to a bias leaves.
LEMMA MoveToBias ==
  ASSUME Inv, NEW t \in Threads, NEW n, ByBias(n, prototype_header, t)
  PROVE  /\ has_bias_pattern(n) /\ Current(n, prototype_header) /\ biased_locker(n) = t
         /\ n # None /\ n \in Words /\ Biasable
<1>1. prototype_header \in Protos
  BY TypesOf
<1>2. bias_epoch(prototype_header) \in 0..(Epochs - 1)
  BY <1>1, ProtoIs DEF ByBias
<1> QED BY <1>2, BiasedIs DEF ByBias, Current, Biasable

\* The steps another thread may take keep the records of u in order.
LEMMA CalmRecords ==
  ASSUME Inv, NEW t \in Threads, NEW u \in Threads \ {t},
         NEW l, NEW o, NEW a, NEW s, NEW c, Now(t, l, o, a, s, c),
         Alone(t), Moves(t), prototype_header' = prototype_header
  PROVE  RecordInv(u)'
<1>1. RecordInv(u)
  BY DEF Inv
<1>2. /\ pc'[u] = pc[u] /\ obj'[u] = obj[u] /\ attempt'[u] = attempt[u] /\ cond'[u] = cond[u]
      /\ records'[u] = records[u]
  BY DEF Now, Alone
<1>3. u \in Rebiased' <=> u \in Rebiased
  BY <1>2 DEF Rebiased
<1>4. ASSUME NEW i \in DOMAIN records[u]
      PROVE  /\ mark'[records[u][i].obj] # None
             /\ records[u][i].held <=> ~(attempt[u] /\ i = Len(records[u]))
             /\ has_bias_pattern(mark'[records[u][i].obj]) =>
                  \/ Current(mark'[records[u][i].obj], prototype_header)
                  \/ pc[u] \in Outdated /\ records[u][i].obj = obj[u]
  <2>1. PICK x : x = records[u][i].obj /\ x \in Objects
    BY TypesOf, SlotsOf
  <2>3. has_bias_pattern(mark[x]) => \/ Current(mark[x], prototype_header)
                                     \/ pc[u] \in Outdated /\ x = obj[u]
    BY <1>1, <2>1 DEF RecordInv
  <2>4. mark[x] # None /\ Move(t, mark[x], mark'[x])
    BY <1>1, <2>1 DEF RecordInv, Moves
  <2>5. CASE mark'[x] = mark[x]
    BY <1>1, <2>1, <2>3, <2>4, <2>5 DEF RecordInv
  <2>6. CASE ~has_bias_pattern(mark'[x]) /\ mark'[x] # None
    BY <1>1, <2>1, <2>6 DEF RecordInv
  <2>7. CASE ByBias(mark'[x], prototype_header, t)
    BY <1>1, <2>1, <2>7, MoveToBias DEF RecordInv
  <2> QED BY <2>4, <2>5, <2>6, <2>7 DEF Move
<1>5. ASSUME attempt[u]
      PROVE  /\ records[u] # <<>> /\ records[u][Len(records[u])].obj = obj[u]
             /\ (has_bias_pattern(mark'[obj[u]]) /\ biased_locker(mark'[obj[u]]) = u)
                  => pc[u] \in Outdated \/ u \in Rebiased
  <2>1. /\ records[u] # <<>> /\ records[u][Len(records[u])].obj = obj[u]
        /\ (has_bias_pattern(mark[obj[u]]) /\ biased_locker(mark[obj[u]]) = u)
              => pc[u] \in Outdated \/ u \in Rebiased
    BY <1>1, <1>5 DEF RecordInv
  <2>2. Len(records[u]) \in DOMAIN records[u]
    BY <2>1, TypesOf, LastOf
  <2>3. obj[u] \in Objects /\ mark[obj[u]] # None
    BY <1>1, <2>1, <2>2, TypesOf, SlotsOf DEF RecordInv
  <2>4. Move(t, mark[obj[u]], mark'[obj[u]])
    BY <2>3 DEF Moves
  <2>5. ByBias(mark'[obj[u]], prototype_header, t) => biased_locker(mark'[obj[u]]) # u
    BY MoveToBias
  <2> QED BY <2>1, <2>4, <2>5 DEF Move
<1> QED BY <1>2, <1>3, <1>4, <1>5 DEF RecordInv

\* They keep what u has read good enough for its next step, too.
LEMMA CalmLocals ==
  ASSUME Inv, NEW t \in Threads, NEW u \in Threads \ {t},
         NEW l, NEW o, NEW a, NEW s, NEW c, Now(t, l, o, a, s, c),
         Alone(t), Moves(t), prototype_header' = prototype_header, enabled' = enabled
  PROVE  LocalInv(u)'
<1>1. LocalInv(u)
  BY DEF Inv
<1>2. /\ pc'[u] = pc[u] /\ obj'[u] = obj[u] /\ attempt'[u] = attempt[u] /\ cond'[u] = cond[u]
      /\ seen'[u] = seen[u] /\ records'[u] = records[u] /\ (u \in list' <=> u \in list)
  BY DEF Now, Alone
<1>3. u \in Rebiased' <=> u \in Rebiased
  BY <1>2 DEF Rebiased
<1>4. (Biasable' <=> Biasable) /\ epoch' = epoch
  BY DEF Biasable, epoch
<1>5. CASE pc[u] \in {"java", "vm_objs"}
  <2>1. u \notin Rebiased
    BY <1>5 DEF Rebiased
  <2> QED BY <1>1, <1>2, <1>3, <1>5, <2>1 DEF LocalInv
<1>6. CASE pc[u] \notin {"java", "vm_objs"}
  <2>1. obj[u] \in Objects /\ mark[obj[u]] # None /\ mark[obj[u]] \in Words
    BY <1>6, RequesterHas
  <2>2. PICK m, n : m = mark[obj[u]] /\ n = mark'[obj[u]] /\ m \in Words
    BY <2>1
  <2>3. Move(t, m, n)
    BY <2>1, <2>2 DEF Moves
  <2>4. n # None
    BY <2>1, <2>2, <2>3, MoveToBias DEF Move
  <2>5. ASSUME pc[u] = "rebias"
        PROVE  ~has_bias_pattern(n) \/ n = seen[u]
               \/ (Current(n, prototype_header) /\ biased_locker(n) # u)
    <3>1. ~has_bias_pattern(m) \/ m = seen[u] \/ (Current(m, prototype_header) /\ biased_locker(m) # u)
      BY <1>1, <2>2, <2>5 DEF LocalInv
    <3>2. ByBias(n, prototype_header, t) => Current(n, prototype_header) /\ biased_locker(n) # u
      BY MoveToBias
    <3> QED BY <2>3, <3>1, <3>2 DEF Move
  <2>6. ASSUME pc[u] \in {"unbias", "stale"}
        PROVE  ~Biasable /\ enabled /\ has_bias_pattern(seen[u]) /\ (n = seen[u] \/ ~has_bias_pattern(n))
    <3>1. ~Biasable /\ enabled /\ has_bias_pattern(seen[u]) /\ (m = seen[u] \/ ~has_bias_pattern(m))
      BY <1>1, <2>2, <2>6 DEF LocalInv
    <3>2. ~ByBias(n, prototype_header, t)
      BY <3>1 DEF ByBias, Biasable
    <3> QED BY <2>3, <3>1, <3>2 DEF Move
  <2>7. ASSUME pc[u] \in {"cas", "slow_enter"} \/ (pc[u] = "returned" /\ u \notin Rebiased)
        PROVE  ~has_bias_pattern(n)
    <3>1. ~has_bias_pattern(m)
      BY <1>1, <2>2, <2>7 DEF LocalInv
    <3> QED BY <2>3, <3>1 DEF Move
  <2>8. ASSUME pc[u] = "monitor"
        PROVE  has_monitor(n) /\ Last(records[u]).hdr = <<"unused">>
    <3>1. has_monitor(m) /\ Last(records[u]).hdr = <<"unused">>
      BY <1>1, <2>2, <2>8 DEF LocalInv
    <3>2. ~has_bias_pattern(m)
      BY <2>2, <3>1, Apart DEF Marks
    <3> QED BY <2>3, <3>1, <3>2 DEF Move
  <2>9. ASSUME pc[u] \in {"heuristics", "reset", "count", "single"},
               ByBias(seen[u], prototype_header, u)
        PROVE  n = seen[u] \/ ~has_bias_pattern(n)
    <3>1. m = seen[u] \/ ~has_bias_pattern(m)
      BY <1>1, <2>2, <2>9 DEF LocalInv
    <3>2. biased_locker(seen[u]) = u /\ bias_epoch(seen[u]) = epoch /\ u # None
      BY <2>9, MoveToBias, NoneIs DEF Current, epoch
    <3> QED BY <2>3, <3>1, <3>2 DEF Move
  <2>10. /\ u \notin list => pc[u] = "java" /\ records[u] = <<>>
         /\ (pc[u] \in {"bias", "rebias", "unbias", "cas", "slow_enter", "monitor"} \/ u \in Rebiased)
               => attempt[u]
         /\ pc[u] \in {"anonymous", "stale", "expired"} => ~attempt[u]
         /\ pc[u] = "bias" => has_bias_pattern(seen[u]) /\ Current(seen[u], prototype_header)
         /\ pc[u] \in {"rebias", "expired"} =>
              has_bias_pattern(seen[u]) /\ Biasable /\ bias_epoch(seen[u]) # epoch
         /\ pc[u] = "anonymous" => is_biased_anonymously(seen[u])
    BY <1>1 DEF LocalInv
  <2>11. n = mark'[obj'[u]] /\ obj'[u] \in Objects
    BY <1>2, <2>1, <2>2
  <2> QED BY <1>2, <1>3, <1>4, <1>6, <2>4, <2>5, <2>6, <2>7, <2>8, <2>9, <2>10, <2>11 DEF LocalInv
<1> QED BY <1>5, <1>6

\* The count of revocations leaves room for those who are about to add to it.
CountKept ==
  /\ revocation_count' \in Nat
  /\ revocation_count' + Cardinality(Counting') <= RevokeLimit + Cardinality(Threads)

\* The threads about to increment the revocation count are finite in number.
LEMMA CountingIs ==
  /\ IsFiniteSet(Threads) /\ Cardinality(Threads) \in Nat
  /\ IsFiniteSet(Counting) /\ Cardinality(Counting) \in Nat /\ Counting \subseteq Threads
  /\ IsFiniteSet(Counting') /\ Cardinality(Counting') \in Nat /\ Counting' \subseteq Threads
  /\ Cardinality(Counting') <= Cardinality(Threads)
<1>1. IsFiniteSet(Threads)
  BY LimitsAssumption
<1>2. Counting \subseteq Threads /\ Counting' \subseteq Threads
  BY DEF Counting
<1> HIDE DEF Counting
<1> QED BY <1>1, <1>2, FS_Subset, FS_CardinalityType

\* The count has room for them if none is added.
LEMMA CountSame ==
  ASSUME Inv, UNCHANGED revocation_count, Counting' \subseteq Counting
  PROVE  CountKept
<1>1. /\ revocation_count \in Nat
      /\ revocation_count + Cardinality(Counting) <= RevokeLimit + Cardinality(Threads)
  BY TypesOf, CountingIs DEF Inv, TypeInv
<1> HIDE DEF Counting
<1>2. Cardinality(Counting') <= Cardinality(Counting)
  BY CountingIs, FS_Subset
<1> QED BY <1>1, <1>2, CountingIs, ThreadCount DEF CountKept

\* It has room for all threads when it is at most RevokeLimit.
LEMMA CountSmall ==
  ASSUME revocation_count' \in 0..RevokeLimit
  PROVE  CountKept
BY CountingIs, ThreadCount DEF CountKept

\* The thread t has stopped counting.
LEMMA CountUp ==
  ASSUME Inv, NEW t \in Threads, t \in Counting, Counting' = Counting \ {t},
         revocation_count' = revocation_count + 1
  PROVE  CountKept
<1>1. /\ revocation_count \in Nat
      /\ revocation_count + Cardinality(Counting) <= RevokeLimit + Cardinality(Threads)
  BY TypesOf, CountingIs DEF Inv, TypeInv
<1> HIDE DEF Counting
<1>2. Cardinality(Counting') = Cardinality(Counting) - 1
  BY CountingIs, FS_RemoveElement
<1> QED BY <1>1, <1>2, CountingIs, ThreadCount DEF CountKept

\* The types after a step of t that makes moves or allocates.
LEMMA TypeStep ==
  ASSUME Inv, NEW t \in Threads, NEW l, NEW o, NEW a, NEW s, NEW c, Now(t, l, o, a, s, c),
         Alone(t), UNCHANGED <<program, prototype_header, enabled>>, bulk_done' \in BOOLEAN, CountKept,
         mark' \in [Objects -> Marks],
         \A x \in Objects : has_bias_pattern(mark'[x]) => has_bias_pattern(mark[x]) \/ Biasable
  PROVE  TypeInv'
<1>1. revocation_count' \in 0..(RevokeLimit + Cardinality(Threads))
  BY CountingIs, ThreadCount DEF CountKept
<1>2. records' \in [Threads -> Seq(Records)] /\ \A u \in Threads : Len(records'[u]) <= MaxDepth
  BY DEF Alone, RecordTypes
<1>3. list' \subseteq Threads
  BY DEF Alone
<1>4. TypeOK'
  BY <1>1, <1>2, <1>3, TypesOf DEF TypeOK, Now, Protos, Conditions
<1>5. /\ \A x \in Objects : has_bias_pattern(mark'[x]) => enabled'
      /\ Biasable' => enabled'
  BY DEF Inv, TypeInv, Biasable
<1>6. seen' \in [Threads -> Marks]
  BY DEF Now
<1> QED BY <1>4, <1>5, <1>6 DEF TypeInv, CountKept

\* The locks of t on the objects other than o are as they were.
Untouched(t, o) ==
  \A x \in Objects \ {o} :
    /\ Locks(records', Rebiased', t, x) = Locks(records, Rebiased, t, x)
    /\ \A i \in Locks(records, Rebiased, t, x) : records'[t][i].hdr = records[t][i].hdr

\* A step of t that changes the mark of o and its own records.
LEMMA StepFit ==
  ASSUME Inv, NEW t \in Threads, NEW l, NEW v, NEW a, NEW s, NEW c, Now(t, l, v, a, s, c),
         Alone(t), prototype_header' = prototype_header,
         NEW o \in Objects, \A x \in Objects \ {o} : mark'[x] = mark[x],
         Untouched(t, o),
         Fit(mark'[o], prototype_header, t, Locks(records', Rebiased', t, o), records'[t]),
         \A u \in Threads \ {t} :
           Fit(mark'[o], prototype_header, u, Locks(records, Rebiased, u, o), records[u])
  PROVE  HeapFit(mark, records, prototype_header, Rebiased)'
<1> SUFFICES ASSUME NEW u \in Threads, NEW x \in Objects
             PROVE  Fit(mark'[x], prototype_header, u, Locks(records', Rebiased', u, x), records'[u])
  BY DEF HeapFit
<1>1. Fit(mark[x], prototype_header, u, Locks(records, Rebiased, u, x), records[u])
  BY DEF Inv, HeapFit
<1>2. CASE u # t
  <2>1. records'[u] = records[u] /\ (u \in Rebiased' <=> u \in Rebiased)
    BY <1>2 DEF Alone, Now, Rebiased
  <2>2. Locks(records', Rebiased', u, x) = Locks(records, Rebiased, u, x)
    BY <2>1 DEF Locks
  <2> QED BY <1>1, <1>2, <2>1, <2>2
<1>3. CASE u = t /\ x # o
  <2>1. Locks(records', Rebiased', t, x) = Locks(records, Rebiased, t, x)
    BY <1>3 DEF Untouched
  <2>2. \A i \in Locks(records, Rebiased, t, x) : records'[t][i].hdr = records[t][i].hdr
    BY <1>3 DEF Untouched
  <2>3. Locks(records, Rebiased, t, x) \in SUBSET Slots
    BY TypesOf, LocksAre
  <2>4. mark'[x] = mark[x]
    BY <1>3
  <2> QED BY <1>1, <1>3, <2>1, <2>2, <2>3, <2>4, FitSame
<1>4. CASE u = t /\ x = o
  BY <1>4
<1> QED BY <1>2, <1>3, <1>4

\* All that a step of t has to keep.
LEMMA StepKeeps ==
  ASSUME Inv, NEW t \in Threads, NEW l, NEW v, NEW a, NEW s, NEW c, Now(t, l, v, a, s, c),
         Alone(t), UNCHANGED <<program, prototype_header, enabled>>, bulk_done' \in BOOLEAN, CountKept,
         Moves(t), NEW o \in Objects, \A x \in Objects \ {o} : mark'[x] = mark[x],
         mark[o] # None,
         Untouched(t, o),
         Fit(mark'[o], prototype_header, t, Locks(records', Rebiased', t, o), records'[t]),
         \A u \in Threads \ {t} :
           Fit(mark'[o], prototype_header, u, Locks(records, Rebiased, u, o), records[u]),
         RecordInv(t)', LocalInv(t)'
  PROVE  Inv' /\ Good
<1>1. mark' \in [Objects -> Marks]
  BY DEF Moves
<1>2. \A x \in Objects : has_bias_pattern(mark'[x]) => has_bias_pattern(mark[x])
  BY DEF Moves, Move
<1>3. TypeInv'
  BY <1>1, <1>2, TypeStep
<1>4. HeapFit(mark, records, prototype_header, Rebiased)'
  BY StepFit
<1>5. \A u \in Threads \ {t} : RecordInv(u)' /\ LocalInv(u)'
  BY CalmRecords, CalmLocals
<1>6. \A u \in Threads : RecordInv(u)' /\ LocalInv(u)'
  BY <1>5
<1>7. Inv'
  BY <1>3, <1>4, <1>6 DEF Inv
<1> QED BY <1>2, <1>7 DEF Good, Biasable

\* A step of t that touches neither the marks nor the stacks.
LEMMA QuietKeeps ==
  ASSUME Inv, NEW t \in Threads, NEW l, NEW v, NEW a, NEW s, NEW c, Now(t, l, v, a, s, c),
         UNCHANGED <<program, mark, records, prototype_header, enabled>>,
         list' \in SUBSET Threads, \A u \in Threads \ {t} : (u \in list' <=> u \in list),
         bulk_done' \in BOOLEAN, CountKept, (t \in Rebiased' <=> t \in Rebiased),
         RecordInv(t)', LocalInv(t)'
  PROVE  Inv' /\ Good
<1>1. Alone(t)
  BY TypesOf DEF Alone
<1>2. Moves(t)
  BY TypesOf DEF Moves, Move
<1>3. TypeInv'
  BY <1>1, TypesOf, TypeStep
<1>4. HeapFit(mark, records, prototype_header, Rebiased)'
  <2>1. Rebiased' = Rebiased
    BY DEF Rebiased, Now
  <2> QED BY <2>1 DEF HeapFit, Inv
<1>5. \A u \in Threads \ {t} : RecordInv(u)' /\ LocalInv(u)'
  BY <1>1, <1>2, CalmRecords, CalmLocals
<1>6. \A u \in Threads : RecordInv(u)' /\ LocalInv(u)'
  BY <1>5
<1>7. Inv'
  BY <1>3, <1>4, <1>6 DEF Inv
<1> QED BY <1>7 DEF Good, Biasable

-----------------------------------------------------------------------------
(* How a thread goes on                                                     *)

\* A thread that only moves.
LEMMA NowGoto ==
  ASSUME Inv, NEW t \in Threads, NEW l \in PCs, Goto(t, l), UNCHANGED locals
  PROVE  Now(t, l, obj[t], attempt[t], seen[t], cond[t])
<1>1. Gone(t, l)
  BY GotoIs
<1> QED BY <1>1, TypesOf DEF Gone, Now, locals, Conditions

\* A thread that moves and notes a mark.
LEMMA NowSeen ==
  ASSUME Inv, NEW t \in Threads, NEW l \in PCs, Goto(t, l), NEW m \in Marks,
         seen' = Set(seen, t, m), UNCHANGED <<obj, attempt, cond>>
  PROVE  Now(t, l, obj[t], attempt[t], m, cond[t])
<1>1. Gone(t, l)
  BY GotoIs
<1>2. seen \in [Threads -> Marks] /\ seen' = [seen EXCEPT ![t] = m]
  BY TypesOf DEF Set
<1>3. /\ seen' \in [Threads -> Marks] /\ seen'[t] = m
      /\ \A u \in Threads \ {t} : seen'[u] = seen[u]
  BY <1>2
<1> QED BY <1>1, <1>3, TypesOf DEF Gone, Now, Conditions

\* A thread that returns to Java code.
LEMMA NowReturn ==
  ASSUME Inv, NEW t \in Threads, Return(t)
  PROVE  Now(t, "java", None, FALSE, None, "none")
<1>1. Gone(t, "java")
  BY GotoIs, Places DEF Return
<1>2. Got(t, "none")
  BY CondIs DEF Return, Conditions
<1>3. PICK f, n : f = FALSE /\ n = None
  OBVIOUS
<1>4. /\ seen \in [Threads -> Marks] /\ seen' = [seen EXCEPT ![t] = n] /\ n \in Marks
      /\ obj \in [Threads -> Objects \cup {None}] /\ obj' = [obj EXCEPT ![t] = n]
      /\ n \in Objects \cup {None}
  BY <1>3, TypesOf DEF Set, Return, Marks
<1>5. attempt \in [Threads -> BOOLEAN] /\ attempt' = [attempt EXCEPT ![t] = f] /\ f \in BOOLEAN
  BY <1>3, TypesOf DEF Set, Return
<1>6. /\ seen' \in [Threads -> Marks] /\ seen'[t] = n
      /\ \A u \in Threads \ {t} : seen'[u] = seen[u]
  BY <1>4
<1>7. /\ obj' \in [Threads -> Objects \cup {None}] /\ obj'[t] = n
      /\ \A u \in Threads \ {t} : obj'[u] = obj[u]
  BY <1>4
<1>8. /\ attempt' \in [Threads -> BOOLEAN] /\ attempt'[t] = f
      /\ \A u \in Threads \ {t} : attempt'[u] = attempt[u]
  BY <1>5, Zenon
<1> QED BY <1>1, <1>2, <1>3, <1>6, <1>7, <1>8 DEF Gone, Got, Now

\* On to slow_enter.
LEMMA NowSlowEnter ==
  ASSUME Inv, NEW t \in Threads, Goto(t, "slow_enter"), seen' = Set(seen, t, None),
         cond' = Set(cond, t, "none"), UNCHANGED <<obj, attempt>>
  PROVE  Now(t, "slow_enter", obj[t], attempt[t], None, "none")
<1>1. Gone(t, "slow_enter")
  BY GotoIs, Places
<1>2. Got(t, "none")
  BY CondIs DEF Conditions
<1>3. PICK n : n = None /\ n \in Marks
  BY DEF Marks
<1>4. seen \in [Threads -> Marks] /\ seen' = [seen EXCEPT ![t] = n]
  BY <1>3, TypesOf DEF Set
<1>5. /\ seen' \in [Threads -> Marks] /\ seen'[t] = n
      /\ \A u \in Threads \ {t} : seen'[u] = seen[u]
  BY <1>3, <1>4
<1> QED BY <1>1, <1>2, <1>3, <1>5, TypesOf DEF Gone, Got, Now

-----------------------------------------------------------------------------
(* Steps that touch neither a mark nor a stack                              *)

\* The records of t stay in order when it is not about to replace a bias.
LEMMA QuietRecords ==
  ASSUME Inv, NEW t \in Threads, NEW l, NEW v, NEW s, NEW c, Now(t, l, v, attempt[t], s, c),
         UNCHANGED <<mark, records, prototype_header>>, attempt[t] => v = obj[t],
         pc[t] \notin Outdated, t \notin Rebiased
  PROVE  RecordInv(t)'
<1>1. RecordInv(t)
  BY DEF Inv
<1>2. attempt'[t] = attempt[t] /\ obj'[t] = v /\ pc'[t] = l
  BY DEF Now
<1>3. ASSUME NEW i \in DOMAIN records[t]
      PROVE  /\ mark[records[t][i].obj] # None
             /\ records[t][i].held <=> ~(attempt[t] /\ i = Len(records[t]))
             /\ has_bias_pattern(mark[records[t][i].obj]) =>
                  Current(mark[records[t][i].obj], prototype_header)
  BY <1>1 DEF RecordInv
<1>4. ASSUME attempt[t]
      PROVE  /\ records[t] # <<>> /\ records[t][Len(records[t])].obj = obj[t]
             /\ ~(has_bias_pattern(mark[obj[t]]) /\ biased_locker(mark[obj[t]]) = t)
  BY <1>1, <1>4 DEF RecordInv
<1> QED BY <1>2, <1>3, <1>4 DEF RecordInv

\* A thread that is elsewhere than in Java code is on the list.
LEMMA Listed ==
  ASSUME Inv, NEW t \in Threads, pc[t] # "java" \/ records[t] # <<>>
  PROVE  t \in list
BY DEF Inv, LocalInv

\* In Java code a thread is on the list or has no records.
LEMMA JavaLocals ==
  ASSUME NEW t \in Threads, NEW v, NEW s, NEW c, Now(t, "java", v, FALSE, s, c),
         t \in list' \/ records'[t] = <<>>
  PROVE  LocalInv(t)' /\ t \notin Rebiased'
<1>1. pc'[t] = "java" /\ attempt'[t] = FALSE
  BY DEF Now
<1> QED BY <1>1 DEF LocalInv, Rebiased

\* The locals of a thread on its way to slow_enter.
LEMMA SlowEnterLocals ==
  ASSUME NEW t \in Threads, t \in list', NEW v \in Objects, Now(t, "slow_enter", v, TRUE, None, "none"),
         mark'[v] # None, ~has_bias_pattern(mark'[v])
  PROVE  LocalInv(t)' /\ t \notin Rebiased'
<1>1. pc'[t] = "slow_enter" /\ attempt'[t] = TRUE /\ obj'[t] = v
  BY DEF Now
<1> QED BY <1>1 DEF LocalInv, Rebiased

\* A thread that does not go to the increment adds nothing to those about to.
LEMMA NotCounting ==
  ASSUME NEW t \in Threads, NEW l, NEW v, NEW a, NEW s, NEW c, Now(t, l, v, a, s, c), l # "count"
  PROVE  Counting' \subseteq Counting
BY DEF Now, Counting

\* The caller goes on, and nothing else happens.
LEMMA FinishKeeps ==
  ASSUME Inv, NEW t \in Threads, NEW k, k # "BIAS_REVOKED_AND_REBIASED", Finish(t, k),
         UNCHANGED <<program, mark, records, klass, list>>,
         pc[t] \notin {"java", "vm_objs"}, pc[t] \notin Outdated, t \notin Rebiased,
         ~has_bias_pattern(mark[obj[t]])
  PROVE  Inv' /\ Good
<1>1. t \in list /\ obj[t] \in Objects /\ mark[obj[t]] # None
  BY Listed, RequesterHas
<1>2. /\ prototype_header' = prototype_header /\ enabled' = enabled /\ bulk_done' \in BOOLEAN
      /\ revocation_count' = revocation_count /\ list' \in SUBSET Threads
  BY TypesOf DEF klass
<1>3. CASE Return(t) /\ ~attempt[t]
  <2>1. Now(t, "java", None, FALSE, None, "none")
    BY <1>3, NowReturn
  <2>2. PICK a : a = FALSE /\ a = attempt[t]
    BY <1>3, TypesOf
  <2>3. RecordInv(t)'
    BY <1>2, <1>3, <2>1, <2>2, QuietRecords
  <2>4. LocalInv(t)' /\ t \notin Rebiased'
    BY <1>1, <2>1, JavaLocals
  <2>5. CountKept
    BY <1>2, <2>1, NotCounting, CountSame
  <2> QED BY <1>2, <2>1, <2>3, <2>4, <2>5, QuietKeeps
<1>4. CASE attempt[t] /\ Goto(t, "slow_enter") /\ seen' = Set(seen, t, None)
           /\ cond' = Set(cond, t, "none") /\ UNCHANGED <<obj, attempt>>
  <2>1. Now(t, "slow_enter", obj[t], attempt[t], None, "none")
    BY <1>4, NowSlowEnter
  <2>2. attempt[t] = TRUE
    BY <1>4, TypesOf
  <2>3. RecordInv(t)'
    BY <1>2, <1>4, <2>1, QuietRecords
  <2>4. LocalInv(t)' /\ t \notin Rebiased'
    BY <1>1, <2>1, <2>2, SlowEnterLocals
  <2>5. CountKept
    BY <1>2, <2>1, NotCounting, CountSame
  <2> QED BY <1>2, <2>1, <2>3, <2>4, <2>5, QuietKeeps
<1> QED BY <1>3, <1>4 DEF Finish

\* FastHashCode of a biased object.
LEMMA HashKeeps ==
  ASSUME Inv, NEW t \in Threads, NEW o \in Objects, FastHashCode(t, o), UNCHANGED program
  PROVE  Inv' /\ Good
<1>1. /\ t \in list /\ pc[t] = "java" /\ has_bias_pattern(mark[o]) /\ Goto(t, "slow")
      /\ obj' = Set(obj, t, o)
      /\ UNCHANGED <<mark, prototype_header, revocation_count, bulk_done, enabled, list, records,
                     attempt, seen, cond>>
  BY DEF FastHashCode, klass
<1>2. Gone(t, "slow")
  BY <1>1, GotoIs, Places
<1>3. obj \in [Threads -> Objects \cup {None}] /\ obj' = [obj EXCEPT ![t] = o]
  BY <1>1, TypesOf DEF Set
<1>4. /\ obj' \in [Threads -> Objects \cup {None}] /\ obj'[t] = o
      /\ \A u \in Threads \ {t} : obj'[u] = obj[u]
  BY <1>3
<1>5. Now(t, "slow", o, attempt[t], seen[t], cond[t])
  BY <1>1, <1>2, <1>4, TypesOf DEF Gone, Now, Conditions
<1>6. ~attempt[t] /\ t \notin Rebiased /\ pc[t] \notin Outdated
  BY <1>1 DEF Inv, LocalInv, Rebiased, Outdated
<1>7. RecordInv(t)'
  BY <1>1, <1>5, <1>6, QuietRecords
<1>8. mark[o] # None
  BY <1>1 DEF has_bias_pattern
<1>9. LocalInv(t)' /\ t \notin Rebiased'
  BY <1>1, <1>5, <1>6, <1>8 DEF LocalInv, Rebiased, Now
<1>10. CountKept
  BY <1>1, <1>5, NotCounting, CountSame
<1> QED BY <1>1, <1>5, <1>6, <1>7, <1>9, <1>10, TypesOf, QuietKeeps

\* BiasedLocking::revoke, of the monitors of a frame.
LEMMA FrameKeeps ==
  ASSUME Inv, NEW t \in Threads, Revoke_frame(t), UNCHANGED program
  PROVE  Inv' /\ Good
<1>1. /\ t \in list /\ pc[t] = "java" /\ Goto(t, "vm_objs") /\ UNCHANGED locals
      /\ UNCHANGED <<mark, prototype_header, revocation_count, bulk_done, enabled, list, records>>
  BY DEF Revoke_frame, klass
<1>2. Now(t, "vm_objs", obj[t], attempt[t], seen[t], cond[t])
  BY <1>1, NowGoto, Places
<1>3. ~attempt[t] /\ t \notin Rebiased /\ pc[t] \notin Outdated
  BY <1>1 DEF Inv, LocalInv, Rebiased, Outdated
<1>4. RecordInv(t)'
  BY <1>1, <1>2, <1>3, QuietRecords
<1>5. LocalInv(t)' /\ t \notin Rebiased'
  BY <1>1, <1>2, <1>3 DEF LocalInv, Rebiased, Now
<1>6. CountKept
  BY <1>1, <1>2, NotCounting, CountSame
<1> QED BY <1>1, <1>2, <1>3, <1>4, <1>5, <1>6, TypesOf, QuietKeeps

\* A thread about to lock an object finds its bias current, unless it is about to
\* replace it.
LEMMA AttemptCurrent ==
  ASSUME Inv, NEW t \in Threads, attempt[t], pc[t] \notin Outdated, has_bias_pattern(mark[obj[t]])
  PROVE  Current(mark[obj[t]], prototype_header)
<1>1. RecordInv(t)
  BY DEF Inv
<1>2. records[t] # <<>> /\ records[t][Len(records[t])].obj = obj[t]
  BY <1>1 DEF RecordInv
<1>3. Len(records[t]) \in DOMAIN records[t]
  BY <1>2, TypesOf, LastOf
<1> QED BY <1>1, <1>2, <1>3 DEF RecordInv

\* What revoke_and_rebias reads tells where it goes on.
LEMMA ReadKeeps ==
  ASSUME Inv, NEW t \in Threads, revoke_and_rebias(t), UNCHANGED program
  PROVE  Inv' /\ Good
<1>1. PICK m : m = mark[obj[t]]
  OBVIOUS
<1>2. PICK l : l = IF is_biased_anonymously(m) /\ ~attempt[t] THEN "anonymous"
                   ELSE IF ~has_bias_pattern(m) THEN "heuristics"
                   ELSE IF ~Biasable THEN "stale"
                   ELSE IF epoch # bias_epoch(m) THEN "expired" ELSE "heuristics"
  OBVIOUS
<1>3. /\ pc[t] = "slow" /\ seen' = Set(seen, t, m) /\ Goto(t, l)
      /\ UNCHANGED <<mark, prototype_header, revocation_count, bulk_done, enabled, list, records,
                     obj, attempt, cond>>
  BY <1>1, <1>2 DEF revoke_and_rebias, klass
<1>4. t \in list /\ obj[t] \in Objects /\ m # None /\ m \in Marks
  BY <1>1, <1>3, Listed, RequesterHas DEF Marks
<1>5. l \in PCs /\ l \in {"anonymous", "heuristics", "stale", "expired"}
  BY <1>2, Places
<1>6. Now(t, l, obj[t], attempt[t], m, cond[t])
  BY <1>3, <1>4, <1>5, NowSeen
<1>7. t \notin Rebiased /\ pc[t] \notin Outdated
  BY <1>3 DEF Rebiased, Outdated
<1>8. RecordInv(t)'
  BY <1>3, <1>6, <1>7, QuietRecords
<1>9. has_bias_pattern(m) /\ attempt[t] => Biasable /\ epoch = bias_epoch(m)
  BY <1>1, <1>7, AttemptCurrent DEF Current, Biasable, epoch
<1>10. has_bias_pattern(m) => enabled
  BY <1>1, <1>4 DEF Inv, TypeInv
<1>11. LocalInv(t)' /\ t \notin Rebiased'
  <2>1. /\ pc'[t] = l /\ obj'[t] = obj[t] /\ attempt'[t] = attempt[t] /\ seen'[t] = m
        /\ mark'[obj'[t]] = m
    BY <1>1, <1>3, <1>6 DEF Now
  <2>2. (Biasable' <=> Biasable) /\ epoch' = epoch
    BY <1>3 DEF Biasable, epoch
  <2>3. t \notin Rebiased'
    BY <1>5, <2>1 DEF Rebiased
  <2>4. l \in {"anonymous", "stale", "expired"} => ~attempt[t]
    BY <1>2, <1>9
  <2>5. l = "anonymous" => is_biased_anonymously(m)
    BY <1>2
  <2>6. l = "stale" => ~Biasable /\ enabled /\ has_bias_pattern(m)
    BY <1>2, <1>10
  <2>7. l = "expired" => has_bias_pattern(m) /\ Biasable /\ bias_epoch(m) # epoch
    BY <1>2
  <2> QED BY <1>3, <1>4, <1>5, <2>1, <2>2, <2>3, <2>4, <2>5, <2>6, <2>7 DEF LocalInv
<1>12. CountKept
  BY <1>3, <1>5, <1>6, NotCounting, CountSame
<1> QED BY <1>3, <1>6, <1>7, <1>8, <1>11, <1>12, TypesOf, QuietKeeps

\* The slow case after a compare-and-swap that failed.
LEMMA SlowCaseKeeps ==
  ASSUME Inv, NEW t \in Threads, pc[t] \in {"bias", "rebias", "cas"}, Goto(t, "slow"),
         seen' = Set(seen, t, None),
         UNCHANGED <<program, mark, klass, list, records, obj, attempt, cond>>,
         pc[t] = "rebias" => mark[obj[t]] # seen[t]
  PROVE  Inv' /\ Good
<1>1. t \in list /\ obj[t] \in Objects /\ mark[obj[t]] # None
  BY Listed, RequesterHas
<1>2. UNCHANGED <<prototype_header, enabled, bulk_done, revocation_count>>
  BY DEF klass
<1>3. Now(t, "slow", obj[t], attempt[t], None, cond[t])
  <2>1. PICK n : n = None /\ n \in Marks
    BY DEF Marks
  <2> QED BY <2>1, NowSeen, Places
<1>4. t \notin Rebiased
  BY DEF Rebiased
<1>5. RecordInv(t)'
  <2>1. CASE pc[t] # "rebias"
    <3>1. pc[t] \notin Outdated
      BY <2>1 DEF Outdated
    <3> QED BY <1>2, <1>3, <1>4, <3>1, QuietRecords
  <2>2. CASE pc[t] = "rebias"
    <3>1. RecordInv(t) /\ LocalInv(t)
      BY DEF Inv
    <3>2. has_bias_pattern(mark[obj[t]]) =>
            Current(mark[obj[t]], prototype_header) /\ biased_locker(mark[obj[t]]) # t
      BY <2>2, <3>1 DEF LocalInv
    <3>3. attempt'[t] = attempt[t] /\ obj'[t] = obj[t]
      BY <1>3 DEF Now
    <3>4. ASSUME NEW i \in DOMAIN records[t]
          PROVE  /\ mark[records[t][i].obj] # None
                 /\ records[t][i].held <=> ~(attempt[t] /\ i = Len(records[t]))
                 /\ has_bias_pattern(mark[records[t][i].obj]) =>
                      Current(mark[records[t][i].obj], prototype_header)
      BY <3>1, <3>2 DEF RecordInv
    <3>5. ASSUME attempt[t]
          PROVE  records[t] # <<>> /\ records[t][Len(records[t])].obj = obj[t]
      BY <3>1, <3>5 DEF RecordInv
    <3> QED BY <1>2, <3>2, <3>3, <3>4, <3>5 DEF RecordInv
  <2> QED BY <2>1, <2>2
<1>6. LocalInv(t)' /\ t \notin Rebiased'
  <2>1. pc'[t] = "slow" /\ obj'[t] = obj[t]
    BY <1>3 DEF Now
  <2> QED BY <1>1, <2>1 DEF LocalInv, Rebiased
<1>7. CountKept
  BY <1>2, <1>3, NotCounting, CountSame
<1> QED BY <1>2, <1>3, <1>4, <1>5, <1>6, <1>7, TypesOf, QuietKeeps

\* On to the heuristics, or from one of their steps to the next.
LEMMA WithinKeeps ==
  ASSUME Inv, NEW t \in Threads, NEW l \in PCs, Goto(t, l), UNCHANGED <<program, mark, records, locals, list>>,
         UNCHANGED <<prototype_header, enabled, bulk_done>>, CountKept,
         pc[t] \in {"anonymous", "expired", "heuristics", "reset", "count"},
         l \in {"heuristics", "reset", "count", "single", "vm_bulk_revoke", "vm_bulk_rebias"}
  PROVE  Inv' /\ Good
<1>1. t \in list /\ obj[t] \in Objects /\ mark[obj[t]] # None
  BY Listed, RequesterHas
<1>2. Now(t, l, obj[t], attempt[t], seen[t], cond[t])
  BY NowGoto
<1>3. t \notin Rebiased /\ pc[t] \notin Outdated
  BY DEF Rebiased, Outdated
<1>4. RecordInv(t)'
  BY <1>2, <1>3, QuietRecords
<1>5. ByBias(seen[t], prototype_header, t) =>
        mark[obj[t]] = seen[t] \/ ~has_bias_pattern(mark[obj[t]])
  <2>1. LocalInv(t)
    BY DEF Inv
  <2>2. CASE pc[t] \in {"heuristics", "reset", "count"}
    BY <2>1, <2>2 DEF LocalInv
  <2>3. CASE pc[t] = "anonymous"
    <3>1. biased_locker(seen[t]) = None
      BY <2>1, <2>3 DEF LocalInv, is_biased_anonymously
    <3> QED BY <3>1, MoveToBias, NoneIs
  <2>4. CASE pc[t] = "expired"
    <3>1. bias_epoch(seen[t]) # epoch
      BY <2>1, <2>4 DEF LocalInv
    <3> QED BY <3>1, MoveToBias DEF Current, epoch
  <2> QED BY <2>2, <2>3, <2>4
<1>6. LocalInv(t)' /\ t \notin Rebiased'
  <2>1. pc'[t] = l /\ obj'[t] = obj[t] /\ seen'[t] = seen[t]
    BY <1>2 DEF Now
  <2>2. t \notin Rebiased'
    BY <2>1 DEF Rebiased
  <2> QED BY <1>1, <1>5, <2>1, <2>2 DEF LocalInv
<1> QED BY <1>2, <1>3, <1>4, <1>6, TypesOf, QuietKeeps

\* update_heuristics resets the count; the thread itself is then about to increment it.
LEMMA ResetKeeps ==
  ASSUME Inv, NEW t \in Threads, Reset_count(t), UNCHANGED program
  PROVE  Inv' /\ Good
<1>1. /\ pc[t] = "reset" /\ revocation_count' = 0 /\ Goto(t, "count")
      /\ UNCHANGED <<mark, prototype_header, bulk_done, enabled, list, records, locals>>
  BY DEF Reset_count
<1>2. CountKept
  BY <1>1, CountSmall, ThreadCount
<1> QED BY <1>1, <1>2, Places, WithinKeeps

\* atomic_incr_biased_lock_revocation_count
LEMMA CountKeeps ==
  ASSUME Inv, NEW t \in Threads, Count(t), UNCHANGED program
  PROVE  Inv' /\ Good
<1>1. PICK l : l = IF revocation_count' = RevokeLimit THEN "vm_bulk_revoke"
                   ELSE IF revocation_count' = RebiasLimit THEN "vm_bulk_rebias" ELSE "single"
  OBVIOUS
<1>2. /\ pc[t] = "count" /\ revocation_count' = revocation_count + 1 /\ Goto(t, l)
      /\ UNCHANGED <<mark, prototype_header, bulk_done, enabled, list, records, locals>>
  BY <1>1 DEF Count
<1>3. l \in {"vm_bulk_revoke", "vm_bulk_rebias", "single"} /\ l \in PCs
  BY <1>1, Places
<1>4. Gone(t, l)
  BY <1>2, <1>3, GotoIs
<1>5. t \in Counting /\ Counting' = Counting \ {t}
  BY <1>2, <1>3, <1>4 DEF Counting, Gone
<1>6. CountKept
  BY <1>2, <1>5, CountUp
<1> QED BY <1>2, <1>3, <1>6, WithinKeeps

\* A compare-and-swap of the mark that fails.
LEMMA FailedKeeps ==
  ASSUME Inv, NEW t \in Threads, pc[t] \in {"anonymous", "expired"}, Goto(t, "heuristics"),
         UNCHANGED <<program, mark, records, locals, klass, list>>
  PROVE  Inv' /\ Good
<1>1. Now(t, "heuristics", obj[t], attempt[t], seen[t], cond[t])
  BY NowGoto, Places
<1>2. UNCHANGED <<prototype_header, enabled, bulk_done, revocation_count>>
  BY DEF klass
<1>3. CountKept
  BY <1>1, <1>2, NotCounting, CountSame
<1> QED BY <1>2, <1>3, Places, WithinKeeps

\* update_heuristics reads the mark and the count.
LEMMA HeuristicsKeeps ==
  ASSUME Inv, NEW t \in Threads, update_heuristics(t), UNCHANGED program
  PROVE  Inv' /\ Good
<1>1. pc[t] = "heuristics" /\ UNCHANGED <<mark, klass, list>>
  BY DEF update_heuristics
<1>2. UNCHANGED <<prototype_header, enabled, bulk_done, revocation_count>>
  BY <1>1 DEF klass
<1>3. CASE ~has_bias_pattern(mark[obj[t]]) /\ Continue(t, "NOT_BIASED")
  <2>1. Finish(t, "NOT_BIASED") /\ UNCHANGED records
    BY <1>3 DEF Continue
  <2>2. t \notin Rebiased /\ pc[t] \notin Outdated
    BY <1>1 DEF Rebiased, Outdated
  <2>3. PICK k : k = "NOT_BIASED"
    OBVIOUS
  <2> QED BY <1>1, <1>3, <2>1, <2>2, <2>3, FinishKeeps
<1>4. CASE UNCHANGED <<records, locals>> /\ May_decay(Heap) /\ Goto(t, "reset")
  <2>1. Now(t, "reset", obj[t], attempt[t], seen[t], cond[t])
    BY <1>4, NowGoto, Places
  <2>2. CountKept
    BY <1>2, <2>1, NotCounting, CountSame
  <2> QED BY <1>1, <1>2, <1>4, <2>2, Places, WithinKeeps
<1>5. CASE /\ UNCHANGED <<records, locals>>
           /\ Goto(t, IF revocation_count <= RevokeLimit THEN "count" ELSE "single")
  <2>1. CASE revocation_count <= RevokeLimit
    <3>1. Goto(t, "count")
      BY <1>5, <2>1
    <3>2. CountKept
      BY <1>2, <2>1, CountSmall, ThreadCount, TypesOf
    <3> QED BY <1>1, <1>2, <1>5, <3>1, <3>2, Places, WithinKeeps
  <2>2. CASE ~(revocation_count <= RevokeLimit)
    <3>1. Goto(t, "single")
      BY <1>5, <2>2
    <3>2. Now(t, "single", obj[t], attempt[t], seen[t], cond[t])
      BY <1>5, <3>1, NowGoto, Places
    <3>3. CountKept
      BY <1>2, <3>2, NotCounting, CountSame
    <3> QED BY <1>1, <1>2, <1>5, <3>1, <3>3, Places, WithinKeeps
  <2> QED BY <2>1, <2>2
<1> QED BY <1>3, <1>4, <1>5 DEF update_heuristics

\* The prologue of VM_RevokeBias.
LEMMA PrologueKeeps ==
  ASSUME Inv, NEW t \in Threads, Prologue(t), UNCHANGED program
  PROVE  Inv' /\ Good
<1>1. pc[t] = "single" /\ UNCHANGED <<mark, klass, list>>
  BY DEF Prologue
<1>2. UNCHANGED <<prototype_header, enabled, bulk_done, revocation_count>>
  BY <1>1 DEF klass
<1>3. t \notin Rebiased /\ pc[t] \notin Outdated
  BY <1>1 DEF Rebiased, Outdated
<1>4. CASE ~has_bias_pattern(mark[obj[t]])
  <2>1. Finish(t, "NOT_BIASED") /\ UNCHANGED records
    BY <1>4 DEF Prologue, Continue
  <2>2. PICK k : k = "NOT_BIASED"
    OBVIOUS
  <2> QED BY <1>1, <1>3, <1>4, <2>1, <2>2, FinishKeeps
<1>5. CASE has_bias_pattern(mark[obj[t]])
  <2>1. /\ Goto(t, "vm_revoke") /\ seen' = Set(seen, t, None)
        /\ UNCHANGED <<records, obj, attempt, cond>>
    BY <1>5 DEF Prologue
  <2>2. Now(t, "vm_revoke", obj[t], attempt[t], None, cond[t])
    <3>1. PICK n : n = None /\ n \in Marks
      BY DEF Marks
    <3> QED BY <2>1, <3>1, NowSeen, Places
  <2>3. RecordInv(t)'
    BY <1>1, <1>2, <1>3, <2>1, <2>2, QuietRecords
  <2>4. t \in list /\ obj[t] \in Objects /\ mark[obj[t]] # None
    BY <1>1, Listed, RequesterHas
  <2>5. LocalInv(t)' /\ t \notin Rebiased'
    <3>1. pc'[t] = "vm_revoke" /\ obj'[t] = obj[t]
      BY <2>2 DEF Now
    <3> QED BY <1>1, <2>4, <3>1 DEF LocalInv, Rebiased
  <2>6. CountKept
    BY <1>2, <2>2, NotCounting, CountSame
  <2> QED BY <1>1, <1>2, <1>3, <2>1, <2>2, <2>3, <2>5, <2>6, TypesOf, QuietKeeps
<1> QED BY <1>4, <1>5

\* Threads::remove and Threads::add: a thread outside the list has no records.
LEMMA ExitKeeps ==
  ASSUME Inv, NEW t \in Threads, Exit(t) \/ Start(t), UNCHANGED program
  PROVE  Inv' /\ Good
<1>1. /\ pc[t] = "java" /\ records[t] = <<>> /\ list' \in SUBSET Threads
      /\ \A u \in Threads \ {t} : (u \in list' <=> u \in list)
      /\ UNCHANGED <<mark, klass, records, pc, locals>>
  <2>1. CASE Exit(t)
    BY <2>1, TypesOf DEF Exit
  <2>2. CASE Start(t)
    <3>1. t \notin list /\ list' = list \cup {t} /\ UNCHANGED <<mark, klass, records, pc, locals>>
      BY <2>2 DEF Start
    <3>2. pc[t] = "java" /\ records[t] = <<>>
      BY <3>1 DEF Inv, LocalInv
    <3> QED BY <3>1, <3>2, TypesOf
  <2> QED BY <2>1, <2>2
<1>2. UNCHANGED <<prototype_header, enabled, bulk_done, revocation_count, pc, obj, attempt, seen, cond>>
  BY <1>1 DEF klass, locals
<1>3. Now(t, "java", obj[t], attempt[t], seen[t], cond[t])
  BY <1>1, <1>2, TypesOf DEF Now, Conditions
<1>4. t \notin Rebiased /\ pc[t] \notin Outdated /\ attempt[t] = FALSE
  BY <1>1, TypesOf DEF Rebiased, Outdated, Inv, LocalInv
<1>5. RecordInv(t)'
  BY <1>1, <1>2, <1>3, <1>4, QuietRecords
<1>6. LocalInv(t)' /\ t \notin Rebiased'
  BY <1>1, <1>3, <1>4, JavaLocals
<1>7. CountKept
  BY <1>2, <1>3, NotCounting, CountSame
<1> QED BY <1>1, <1>2, <1>3, <1>4, <1>5, <1>6, <1>7, TypesOf, QuietKeeps

-----------------------------------------------------------------------------
(* Locks acquired                                                           *)

\* The youngest record of a thread about to lock is of its object and not held.
LEMMA Youngest ==
  ASSUME Inv, NEW t \in Threads, attempt[t]
  PROVE  /\ Len(records[t]) \in DOMAIN records[t] /\ Len(records[t]) \in Slots
         /\ records[t] # <<>> /\ records[t] \in Seq(Records)
         /\ DOMAIN records[t] = 1..Len(records[t]) /\ Len(records[t]) \in Nat
         /\ records[t][Len(records[t])].obj = obj[t] /\ ~records[t][Len(records[t])].held
         /\ \A i \in DOMAIN records[t] : i # Len(records[t]) => records[t][i].held
<1>1. RecordInv(t)
  BY DEF Inv
<1>2. records[t] # <<>> /\ records[t][Len(records[t])].obj = obj[t]
  BY <1>1 DEF RecordInv
<1>3. Len(records[t]) \in DOMAIN records[t] /\ Len(records[t]) \in Slots
  BY <1>2, TypesOf, LastOf
<1>4. /\ ~records[t][Len(records[t])].held
      /\ \A i \in DOMAIN records[t] : i # Len(records[t]) => records[t][i].held
  BY <1>1, <1>3 DEF RecordInv
<1> QED BY <1>2, <1>3, <1>4, TypesOf, SlotsOf

\* The youngest record of t now has the header h and is held or not.
Rewritten(t, h, b) ==
  /\ RecordTypes(records') /\ \A u \in Threads \ {t} : records'[u] = records[u]
  /\ DOMAIN records'[t] = DOMAIN records[t] /\ Len(records'[t]) = Len(records[t])
  /\ \A i \in DOMAIN records[t] : i # Len(records[t]) => records'[t][i] = records[t][i]
  /\ records'[t][Len(records[t])].obj = obj[t]
  /\ records'[t][Len(records[t])].hdr = h /\ records'[t][Len(records[t])].held = b

\* The youngest record replaced: no other changes, nor does its object.
LEMMA RewriteIs ==
  ASSUME Inv, NEW t \in Threads, attempt[t], NEW q \in Records, q.obj = obj[t],
         records' = [records EXCEPT ![t] = [records[t] EXCEPT ![Len(records[t])] = q]]
  PROVE  Rewritten(t, q.hdr, q.held)
<1>1. PICK s, n : s = records[t] /\ n = Len(s)
  OBVIOUS
<1>2. n \in Nat /\ DOMAIN s = 1..n /\ n \in DOMAIN s /\ s \in Seq(Records)
  BY <1>1, Youngest
<1>3. PICK r : r = [s EXCEPT ![n] = q]
  OBVIOUS
<1>4. r \in Seq(Records) /\ Len(r) = n /\ DOMAIN r = DOMAIN s
  BY <1>1, <1>2, <1>3
<1>5. r[n] = q /\ \A i \in DOMAIN s : i # n => r[i] = s[i]
  BY <1>2, <1>3
<1>6. records' = [records EXCEPT ![t] = r]
  BY <1>1, <1>3
<1>7. /\ records \in [Threads -> Seq(Records)] /\ \A u \in Threads : Len(records[u]) <= MaxDepth
  BY TypesOf DEF RecordTypes
<1>8. /\ records' \in [Threads -> Seq(Records)] /\ records'[t] = r
      /\ \A u \in Threads \ {t} : records'[u] = records[u]
  BY <1>4, <1>6, <1>7
<1>9. \A u \in Threads : Len(records'[u]) <= MaxDepth
  BY <1>1, <1>4, <1>7, <1>8
<1> QED BY <1>1, <1>4, <1>5, <1>8, <1>9 DEF Rewritten, RecordTypes

\* The youngest record gets a displaced header.
LEMMA LastRecordIs ==
  ASSUME Inv, NEW t \in Threads, attempt[t], NEW h \in Headers, NEW b \in BOOLEAN, Last_record(t, h, b)
  PROVE  Rewritten(t, h, b)
<1>1. PICK q : q = [obj |-> obj[t], hdr |-> h, held |-> b]
  OBVIOUS
<1>2. records[t][Len(records[t])].obj = obj[t] /\ obj[t] \in Objects
  BY Youngest, TypesOf, SlotsOf
<1>3. q \in Records /\ q.obj = obj[t] /\ q.hdr = h /\ q.held = b
  BY <1>1, <1>2 DEF Records
<1>4. records' = [records EXCEPT ![t] = [records[t] EXCEPT ![Len(records[t])] = q]]
  BY <1>1, <1>2 DEF Last_record
<1>5. Rewritten(t, q.hdr, q.held)
  BY <1>3, <1>4, RewriteIs
<1> QED BY <1>3, <1>5

\* The youngest record is held from now on.
LEMMA AcquiredIs ==
  ASSUME Inv, NEW t \in Threads, attempt[t], Acquired(t)
  PROVE  Rewritten(t, records[t][Len(records[t])].hdr, TRUE)
<1>1. PICK r : r = records[t][Len(records[t])] /\ r \in Records /\ r.obj = obj[t]
  BY Youngest, TypesOf, SlotsOf
<1>2. PICK v \in BOOLEAN : v = TRUE
  OBVIOUS
<1>3. PICK q : q = [r EXCEPT !.held = v]
  OBVIOUS
<1>4. q \in Records /\ q.obj = obj[t] /\ q.hdr = r.hdr /\ q.held = v
  BY <1>1, <1>3 DEF Records
<1>5. records' = [records EXCEPT ![t] = [records[t] EXCEPT ![Len(records[t])] = q]]
  BY <1>1, <1>2, <1>3 DEF Acquired
<1>6. Rewritten(t, q.hdr, q.held)
  BY <1>4, <1>5, RewriteIs
<1> QED BY <1>1, <1>2, <1>4, <1>6

\* What rewriting the youngest record does to the locks of t.
LEMMA RewriteLocks ==
  ASSUME Inv, NEW t \in Threads, attempt[t], NEW h, NEW b \in BOOLEAN, Rewritten(t, h, b),
         t \notin Rebiased, t \notin Rebiased'
  PROVE  /\ Untouched(t, obj[t])
         /\ Locks(records', Rebiased', t, obj[t]) =
              Locks(records, Rebiased, t, obj[t]) \cup (IF b THEN {Len(records[t])} ELSE {})
         /\ \A i \in Locks(records, Rebiased, t, obj[t]) :
              i < Len(records[t]) /\ records'[t][i].hdr = records[t][i].hdr
<1>1. PICK s, r, n : s = records[t] /\ r = records'[t] /\ n = Len(s)
  OBVIOUS
<1>2. /\ n \in DOMAIN s /\ DOMAIN s = 1..n /\ n \in Nat /\ s[n].obj = obj[t] /\ ~s[n].held
      /\ DOMAIN r = DOMAIN s /\ r[n].obj = obj[t] /\ r[n].held = b
      /\ \A i \in DOMAIN s : i # n => r[i] = s[i]
  BY <1>1, Youngest DEF Rewritten
<1>3. \A x : Locks(records, Rebiased, t, x) = {i \in DOMAIN s : s[i].obj = x /\ s[i].held}
  BY <1>1 DEF Locks
<1>4. \A x : Locks(records', Rebiased', t, x) = {i \in DOMAIN r : r[i].obj = x /\ r[i].held}
  BY <1>1 DEF Locks
<1>5. ASSUME NEW x \in Objects \ {obj[t]}
      PROVE  /\ Locks(records', Rebiased', t, x) = Locks(records, Rebiased, t, x)
             /\ \A i \in Locks(records, Rebiased, t, x) : r[i].hdr = s[i].hdr
  <2>1. \A i \in DOMAIN s : (r[i].obj = x /\ r[i].held) <=> (s[i].obj = x /\ s[i].held)
    BY <1>2
  <2>2. Locks(records', Rebiased', t, x) = Locks(records, Rebiased, t, x)
    <3>1. Locks(records, Rebiased, t, x) = {i \in DOMAIN s : s[i].obj = x /\ s[i].held}
      BY <1>3
    <3>2. Locks(records', Rebiased', t, x) = {i \in DOMAIN s : r[i].obj = x /\ r[i].held}
      BY <1>2, <1>4
    <3>3. {i \in DOMAIN s : s[i].obj = x /\ s[i].held} = {i \in DOMAIN s : r[i].obj = x /\ r[i].held}
      BY <2>1
    <3> QED BY <3>1, <3>2, <3>3
  <2>3. \A i \in Locks(records, Rebiased, t, x) : i \in DOMAIN s /\ i # n
    BY <1>2, <1>3
  <2> QED BY <1>2, <2>2, <2>3
<1>6. Locks(records', Rebiased', t, obj[t]) =
              Locks(records, Rebiased, t, obj[t]) \cup (IF b THEN {n} ELSE {})
  BY <1>2, <1>3, <1>4
<1>7. \A i \in Locks(records, Rebiased, t, obj[t]) : i < n /\ r[i].hdr = s[i].hdr
  BY <1>2, <1>3
<1> QED BY <1>1, <1>5, <1>6, <1>7 DEF Untouched

\* The lock of its object is acquired, with the mark n, and the thread returns.
LEMMA AcquireKeeps ==
  ASSUME Inv, NEW t \in Threads, attempt[t], t \notin Rebiased, Return(t),
         UNCHANGED <<program, klass, list>>, NEW h, Rewritten(t, h, TRUE),
         NEW n \in Words, mark' = Set(mark, obj[t], n), Move(t, mark[obj[t]], n),
         has_bias_pattern(n) => Current(n, prototype_header),
         Fit(n, prototype_header, t,
             Locks(records, Rebiased, t, obj[t]) \cup {Len(records[t])}, records'[t]),
         \A u \in Threads \ {t} :
           Fit(n, prototype_header, u, Locks(records, Rebiased, u, obj[t]), records[u])
  PROVE  Inv' /\ Good
<1>1. /\ pc[t] \notin {"java", "vm_objs"}
  BY DEF Inv, LocalInv
<1>2. t \in list /\ obj[t] \in Objects /\ mark[obj[t]] # None
  BY <1>1, Listed, RequesterHas
<1>3. UNCHANGED <<prototype_header, enabled, bulk_done, revocation_count>>
  BY DEF klass
<1>4. Now(t, "java", None, FALSE, None, "none")
  BY NowReturn
<1>5. LocalInv(t)' /\ t \notin Rebiased'
  BY <1>2, <1>4, JavaLocals
<1>6. PICK o : o = obj[t] /\ o \in Objects
  BY <1>2
<1>7. mark \in [Objects -> Marks] /\ mark' = [mark EXCEPT ![o] = n] /\ n \in Marks
  BY <1>6, TypesOf DEF Set, Marks
<1>8. /\ mark' \in [Objects -> Marks] /\ mark'[o] = n
      /\ \A x \in Objects \ {o} : mark'[x] = mark[x]
  BY <1>6, <1>7
<1>9. Moves(t)
  BY <1>6, <1>8 DEF Moves, Move
<1>10. Alone(t)
  BY TypesOf DEF Alone, Rewritten
<1>11. /\ Untouched(t, o)
       /\ Locks(records', Rebiased', t, o) = Locks(records, Rebiased, t, o) \cup {Len(records[t])}
  BY <1>5, <1>6, RewriteLocks
<1>12. CountKept
  BY <1>3, <1>4, NotCounting, CountSame
<1>13. RecordInv(t)'
  <2>1. attempt'[t] = FALSE
    BY <1>4 DEF Now
  <2>2. RecordInv(t)
    BY DEF Inv
  <2>3. ASSUME NEW i \in DOMAIN records'[t]
        PROVE  /\ mark'[records'[t][i].obj] # None /\ records'[t][i].held
               /\ has_bias_pattern(mark'[records'[t][i].obj]) =>
                    Current(mark'[records'[t][i].obj], prototype_header)
    <3>1. /\ i \in DOMAIN records[t] /\ records'[t][i].obj = records[t][i].obj
          /\ records'[t][i].held
      BY Youngest DEF Rewritten
    <3>2. PICK x : x = records[t][i].obj /\ x \in Objects
      BY <3>1, TypesOf, SlotsOf
    <3>3. mark[x] # None /\ (has_bias_pattern(mark[x]) =>
                               Current(mark[x], prototype_header) \/ x = o)
      BY <1>6, <2>2, <3>1, <3>2 DEF RecordInv
    <3>4. n # None
      BY NoneIs
    <3> QED BY <1>6, <1>8, <3>1, <3>2, <3>3, <3>4
  <2> QED BY <1>3, <2>1, <2>3 DEF RecordInv
<1>14. /\ Fit(mark'[o], prototype_header, t, Locks(records', Rebiased', t, o), records'[t])
       /\ \A u \in Threads \ {t} :
            Fit(mark'[o], prototype_header, u, Locks(records, Rebiased, u, o), records[u])
  BY <1>6, <1>8, <1>11
<1> QED BY <1>2, <1>3, <1>4, <1>5, <1>6, <1>8, <1>9, <1>10, <1>11, <1>12, <1>13, <1>14,
           TypesOf, StepKeeps

\* The lock of an object is only with the thread its mark names.
LEMMA NotNamed ==
  ASSUME Inv, NEW u \in Threads, NEW o \in Objects, mark[o] # None,
         ~Names(mark[o], prototype_header, u)
  PROVE  Locks(records, Rebiased, u, o) = {}
<1>1. /\ mark[o] \in Words /\ prototype_header \in Protos
      /\ Locks(records, Rebiased, u, o) \in SUBSET Slots
  BY TypesOf, LocksAre DEF Marks
<1>2. Fit(mark[o], prototype_header, u, Locks(records, Rebiased, u, o), records[u])
  BY DEF Inv, HeapFit
<1> QED BY <1>1, <1>2, HolderIsNamed

\* A bias that nobody has, or that has expired, is no lock.
LEMMA FreeLocks ==
  ASSUME Inv, NEW u \in Threads, NEW o \in Objects, has_bias_pattern(mark[o]),
         biased_locker(mark[o]) = None \/ ~Current(mark[o], prototype_header)
  PROVE  Locks(records, Rebiased, u, o) = {}
<1>1. mark[o] \in Marks /\ mark[o] # None
  BY TypesOf, NoneIs
<1>2. ~has_locker(mark[o]) /\ ~has_monitor(mark[o])
  BY <1>1, Apart
<1>3. ~Names(mark[o], prototype_header, u)
  BY <1>2, NoneIs DEF Names
<1> QED BY <1>1, <1>3, NotNamed

\* The bias of an object that nobody holds is taken.
LEMMA TakeBiasKeeps ==
  ASSUME Inv, NEW t \in Threads, attempt[t], t \notin Rebiased,
         UNCHANGED <<program, klass, list>>, Biasable,
         has_bias_pattern(mark[obj[t]]),
         biased_locker(mark[obj[t]]) = None \/ bias_epoch(mark[obj[t]]) # epoch,
         mark' = Set(mark, obj[t], Biased(t, epoch)), Acquired(t), Return(t)
  PROVE  Inv' /\ Good
<1>1. PICK n : n = Biased(t, epoch)
  OBVIOUS
<1>2. ByBias(n, prototype_header, t)
  BY <1>1 DEF ByBias, Biasable, epoch
<1>3. /\ has_bias_pattern(n) /\ Current(n, prototype_header) /\ n \in Words
  BY <1>2, MoveToBias
<1>4. ~has_locker(n) /\ ~has_monitor(n)
  BY <1>3, Apart DEF Marks
<1>5. obj[t] \in Objects
  BY Youngest, TypesOf, SlotsOf
<1>6. \A u \in Threads : Locks(records, Rebiased, u, obj[t]) = {}
  BY <1>5, FreeLocks DEF Current, epoch
<1>7. \A u \in Threads \ {t} :
        Fit(n, prototype_header, u, Locks(records, Rebiased, u, obj[t]), records[u])
  BY <1>4, <1>6, FitNone
<1>8. Fit(n, prototype_header, t,
          Locks(records, Rebiased, t, obj[t]) \cup {Len(records[t])}, records'[t])
  BY <1>2, TypesOf, FitBias
<1>9. Move(t, mark[obj[t]], n)
  BY <1>2 DEF Move
<1>10. PICK h : Rewritten(t, h, TRUE)
  BY AcquiredIs
<1>11. mark' = Set(mark, obj[t], n)
  BY <1>1
<1> QED BY <1>3, <1>7, <1>8, <1>9, <1>10, <1>11, AcquireKeeps

\* The bias of an anonymously biased object is taken, in the current epoch.
LEMMA BiasKeeps ==
  ASSUME Inv, NEW t \in Threads, Bias(t), UNCHANGED program
  PROVE  Inv' /\ Good
<1>1. pc[t] = "bias" /\ UNCHANGED <<klass, list>> /\ t \notin Rebiased
  BY DEF Bias, Rebiased
<1>2. attempt[t] /\ has_bias_pattern(seen[t]) /\ Current(seen[t], prototype_header)
  BY <1>1 DEF Inv, LocalInv
<1>3. PICK x : x = Biased(None, bias_epoch(seen[t]))
  OBVIOUS
<1>4. bias_epoch(seen[t]) \in 0..(Epochs - 1)
  BY <1>2, TypesOf, BiasedWord
<1>5. has_bias_pattern(x) /\ biased_locker(x) = None
  BY <1>3, <1>4, BiasedIs
<1>6. Cmpxchg_bias(t, x)
  BY <1>3 DEF Bias
<1>7. CASE mark[obj[t]] = x
  <2>1. mark' = Set(mark, obj[t], Biased(t, epoch)) /\ Acquired(t) /\ Return(t)
    BY <1>6, <1>7 DEF Cmpxchg_bias
  <2>2. Biasable
    BY <1>2 DEF Current, Biasable
  <2> QED BY <1>1, <1>2, <1>5, <1>7, <2>1, <2>2, TakeBiasKeeps
<1>8. CASE mark[obj[t]] # x
  <2>1. /\ Goto(t, "slow") /\ seen' = Set(seen, t, None)
        /\ UNCHANGED <<mark, records, obj, attempt, cond>>
    BY <1>6, <1>8 DEF Cmpxchg_bias
  <2> QED BY <1>1, <2>1, SlowCaseKeeps
<1> QED BY <1>7, <1>8

\* An expired bias is taken.
LEMMA TryRebiasKeeps ==
  ASSUME Inv, NEW t \in Threads, Try_rebias(t), UNCHANGED program
  PROVE  Inv' /\ Good
<1>1. pc[t] = "rebias" /\ UNCHANGED <<klass, list>> /\ t \notin Rebiased /\ Cmpxchg_bias(t, seen[t])
  BY DEF Try_rebias, Rebiased
<1>2. attempt[t] /\ has_bias_pattern(seen[t]) /\ Biasable /\ bias_epoch(seen[t]) # epoch
  BY <1>1 DEF Inv, LocalInv
<1>3. CASE mark[obj[t]] = seen[t]
  <2>1. mark' = Set(mark, obj[t], Biased(t, epoch)) /\ Acquired(t) /\ Return(t)
    BY <1>1, <1>3 DEF Cmpxchg_bias
  <2> QED BY <1>1, <1>2, <1>3, <2>1, TakeBiasKeeps
<1>4. CASE mark[obj[t]] # seen[t]
  <2>1. /\ Goto(t, "slow") /\ seen' = Set(seen, t, None)
        /\ UNCHANGED <<mark, records, obj, attempt, cond>>
    BY <1>1, <1>4 DEF Cmpxchg_bias
  <2> QED BY <1>1, <1>4, <2>1, SlowCaseKeeps
<1> QED BY <1>3, <1>4

\* An object that is neutral gets a stack lock.
LEMMA TakeStackLockKeeps ==
  ASSUME Inv, NEW t \in Threads, attempt[t], t \notin Rebiased,
         UNCHANGED <<program, klass, list>>, mark[obj[t]] = Neutral,
         mark' = Set(mark, obj[t], StackLock(t, Len(records[t]))),
         Last_record(t, Neutral, TRUE), Return(t)
  PROVE  Inv' /\ Good
<1>1. PICK n, k : n = StackLock(t, k) /\ k = Len(records[t])
  OBVIOUS
<1>2. k \in Slots /\ obj[t] \in Objects
  BY <1>1, Youngest, TypesOf, SlotsOf
<1>3. /\ n \in Words /\ n # None /\ ~has_bias_pattern(n) /\ has_locker(n) /\ ~has_monitor(n)
      /\ owner(n) = t
  BY <1>1, <1>2, StackLockIs
<1>4. \A u \in Threads : Locks(records, Rebiased, u, obj[t]) = {}
  <2>1. \A u \in Threads : ~Names(mark[obj[t]], prototype_header, u)
    BY NeutralIs DEF Names
  <2> QED BY <1>2, <2>1, NeutralIs, NotNamed
<1>5. Rewritten(t, Neutral, TRUE)
  <2>1. PICK h, b : h = Neutral /\ h \in Headers /\ b = TRUE /\ b \in BOOLEAN
    BY NeutralIs DEF Headers, Marks
  <2> QED BY <2>1, LastRecordIs
<1>6. \A u \in Threads \ {t} :
        Fit(n, prototype_header, u, Locks(records, Rebiased, u, obj[t]), records[u])
  <2> SUFFICES ASSUME NEW u \in Threads \ {t}
               PROVE  Fit(n, prototype_header, u, Locks(records, Rebiased, u, obj[t]), records[u])
    OBVIOUS
  <2>1. owner(n) # u /\ Locks(records, Rebiased, u, obj[t]) = {}
    BY <1>3, <1>4
  <2> QED BY <2>1, FitNone
<1>7. Fit(n, prototype_header, t,
          Locks(records, Rebiased, t, obj[t]) \cup {Len(records[t])}, records'[t])
  <2>1. records'[t][k].hdr = Neutral
    BY <1>1, <1>5 DEF Rewritten
  <2>2. Fit(n, prototype_header, t, {k}, records'[t])
    BY <1>1, <1>2, <2>1, FitFirst
  <2>3. Locks(records, Rebiased, t, obj[t]) \cup {Len(records[t])} = {k}
    BY <1>1, <1>4
  <2> QED BY <2>2, <2>3
<1>8. Move(t, mark[obj[t]], n)
  BY <1>3, NeutralIs DEF Move
<1>9. mark' = Set(mark, obj[t], n)
  BY <1>1
<1>10. PICK h : Rewritten(t, h, TRUE)
  BY <1>5
<1> QED BY <1>3, <1>6, <1>7, <1>8, <1>9, <1>10, AcquireKeeps

\* The owner of a stack lock locks the object again.
LEMMA NestStackLockKeeps ==
  ASSUME Inv, NEW t \in Threads, attempt[t], t \notin Rebiased,
         UNCHANGED <<program, klass, list, mark>>, has_locker(mark[obj[t]]), owner(mark[obj[t]]) = t,
         Last_record(t, <<"null">>, TRUE), Return(t)
  PROVE  Inv' /\ Good
<1>1. PICK n, k : n = mark[obj[t]] /\ k = Len(records[t])
  OBVIOUS
<1>2. k \in Slots /\ obj[t] \in Objects
  BY <1>1, Youngest, TypesOf, SlotsOf
<1>3. /\ n \in Words /\ ~has_bias_pattern(n)
  <2>1. n \in Marks /\ has_locker(n)
    BY <1>1, <1>2, TypesOf
  <2> QED BY <2>1, Apart DEF Marks
<1>4. Rewritten(t, <<"null">>, TRUE)
  <2>1. PICK h, b : h = <<"null">> /\ h \in Headers /\ b = TRUE /\ b \in BOOLEAN
    BY DEF Headers
  <2> QED BY <2>1, LastRecordIs
<1>5. \A u \in Threads :
        Fit(n, prototype_header, u, Locks(records, Rebiased, u, obj[t]), records[u])
  BY <1>1, <1>2 DEF Inv, HeapFit
<1>6. t \notin Rebiased'
  BY NowReturn, JavaLocals DEF Now, Rebiased
<1>7. \A i \in Locks(records, Rebiased, t, obj[t]) :
        i < k /\ records'[t][i].hdr = records[t][i].hdr
  BY <1>1, <1>4, <1>6, RewriteLocks
<1>8. Fit(n, prototype_header, t, Locks(records, Rebiased, t, obj[t]) \cup {k}, records'[t])
  <2>1. records'[t][k].hdr = <<"null">>
    BY <1>1, <1>4 DEF Rewritten
  <2>2. Locks(records, Rebiased, t, obj[t]) \in SUBSET Slots
    BY TypesOf, LocksAre
  <2>3. prototype_header \in Protos /\ has_locker(n) /\ owner(n) = t
    BY <1>1, TypesOf
  <2> QED BY <1>2, <1>3, <1>5, <1>7, <2>1, <2>2, <2>3, FitNested
<1>9. Move(t, mark[obj[t]], n)
  BY <1>1 DEF Move
<1>10. mark' = Set(mark, obj[t], n)
  <2>1. mark = [mark EXCEPT ![obj[t]] = n]
    BY <1>1, <1>2, TypesOf
  <2> QED BY <2>1 DEF Set
<1>11. PICK h : Rewritten(t, h, TRUE)
  BY <1>4
<1> QED BY <1>1, <1>3, <1>5, <1>8, <1>9, <1>10, <1>11, AcquireKeeps

\* The stack lock is taken, nested, or left to the slow case.
LEMMA CasKeeps ==
  ASSUME Inv, NEW t \in Threads, Cas(t), UNCHANGED program
  PROVE  Inv' /\ Good
<1>1. pc[t] = "cas" /\ UNCHANGED <<klass, list>> /\ t \notin Rebiased
  BY DEF Cas, Rebiased
<1>2. attempt[t] /\ ~has_bias_pattern(mark[obj[t]])
  BY <1>1 DEF Inv, LocalInv
<1>3. obj[t] \in Objects /\ mark[obj[t]] # None /\ mark[obj[t]] \in Marks
  BY <1>1, RequesterHas DEF Marks
<1>4. CASE /\ ~has_locker(mark[obj[t]]) /\ ~has_monitor(mark[obj[t]])
           /\ mark' = Set(mark, obj[t], StackLock(t, Len(records[t])))
           /\ Last_record(t, mark[obj[t]], TRUE)
           /\ Return(t)
  <2>1. mark[obj[t]] = Neutral
    BY <1>2, <1>3, <1>4, Apart
  <2> QED BY <1>1, <1>2, <1>4, <2>1, TakeStackLockKeeps
<1>5. CASE /\ has_locker(mark[obj[t]]) /\ owner(mark[obj[t]]) = t
           /\ Last_record(t, <<"null">>, TRUE)
           /\ Return(t)
           /\ UNCHANGED mark
  BY <1>1, <1>2, <1>5, NestStackLockKeeps
<1>6. CASE /\ Goto(t, "slow")
           /\ seen' = Set(seen, t, None)
           /\ UNCHANGED <<mark, records, obj, attempt, cond>>
  BY <1>1, <1>6, SlowCaseKeeps
<1> QED BY <1>4, <1>5, <1>6 DEF Cas

\* Nobody but its owner holds an inflated or a stack-locked object.
LEMMA OnlyOwner ==
  ASSUME Inv, NEW u \in Threads, NEW o \in Objects, has_monitor(mark[o]) \/ has_locker(mark[o]),
         owner(mark[o]) # u
  PROVE  Locks(records, Rebiased, u, o) = {}
<1>1. mark[o] \in Marks /\ mark[o] # None
  BY TypesOf, NoneIs
<1>2. ~has_bias_pattern(mark[o])
  BY <1>1, Apart
<1>3. ~Names(mark[o], prototype_header, u)
  BY <1>2 DEF Names
<1> QED BY <1>1, <1>3, NotNamed

\* The monitor that its owner enters again.
Reentered(m, p, t, S, k, r) ==
  /\ Fit(Monitor(t, recursions(m) + 1), p, t, S \cup {k}, r)
  /\ recursions(m) + 1 \in 0..MaxDepth

\* Entering a monitor once more counts one record more.
LEMMA ReenteredIs ==
  ASSUME NEW m \in Words, NEW p \in Protos, NEW t \in Threads, NEW S \in SUBSET Slots, NEW s, NEW r,
         NEW k \in Slots, Fit(m, p, t, S, s), has_monitor(m), owner(m) = t,
         \A i \in S : i < k /\ r[i].hdr = s[i].hdr, r[k].hdr = <<"unused">>
  PROVE  Reentered(m, p, t, S, k, r)
BY FitReenter DEF Reentered

\* ObjectMonitor::enter of a monitor that is free or is its own.
LEMMA EnterKeeps ==
  ASSUME Inv, NEW t \in Threads, Enter_monitor(t), UNCHANGED program
  PROVE  Inv' /\ Good
<1>1. PICK m : m = mark[obj[t]]
  OBVIOUS
<1>2. PICK n : n = Monitor(t, IF owner(m) = t THEN recursions(m) + 1 ELSE 0)
  OBVIOUS
<1>3. /\ pc[t] = "monitor" /\ owner(m) \in {None, t} /\ mark' = Set(mark, obj[t], n)
      /\ Acquired(t) /\ Return(t) /\ UNCHANGED <<klass, list>> /\ t \notin Rebiased
  BY <1>1, <1>2 DEF Enter_monitor, Rebiased
<1>4. /\ attempt[t] /\ has_monitor(m) /\ Last(records[t]).hdr = <<"unused">>
  BY <1>1, <1>3 DEF Inv, LocalInv
<1>5. PICK k : k = Len(records[t])
  OBVIOUS
<1>6. k \in Slots /\ obj[t] \in Objects /\ m \in Words /\ prototype_header \in Protos
  BY <1>1, <1>3, <1>4, <1>5, Youngest, RequesterHas, TypesOf
<1>7. Rewritten(t, <<"unused">>, TRUE)
  <2>1. records[t][Len(records[t])].hdr = <<"unused">>
    BY <1>4 DEF Last
  <2> QED BY <1>3, <1>4, <2>1, AcquiredIs
<1>8. t \notin Rebiased'
  BY <1>3, NowReturn DEF Now, Rebiased
<1>9. PICK S : S = Locks(records, Rebiased, t, obj[t]) /\ S \in SUBSET Slots
  BY TypesOf, LocksAre
<1>10. \A i \in S : i < k /\ records'[t][i].hdr = records[t][i].hdr
  BY <1>3, <1>4, <1>5, <1>7, <1>8, <1>9, RewriteLocks
<1>11. records'[t][k].hdr = <<"unused">>
  BY <1>5, <1>7 DEF Rewritten
<1>12. Fit(m, prototype_header, t, S, records[t])
  BY <1>1, <1>6, <1>9 DEF Inv, HeapFit
<1>13. n \in Words /\ has_monitor(n) /\ ~has_bias_pattern(n) /\ ~has_locker(n) /\ owner(n) = t
       /\ n # None /\ Fit(n, prototype_header, t, S \cup {k}, records'[t])
  <2>1. CASE owner(m) = t
    <3>1. n = Monitor(t, recursions(m) + 1)
      BY <1>2, <2>1
    <3>2. /\ Fit(Monitor(t, recursions(m) + 1), prototype_header, t, S \cup {k}, records'[t])
          /\ recursions(m) + 1 \in 0..MaxDepth
      <4>1. PICK s, r, p : s = records[t] /\ r = records'[t] /\ p = prototype_header /\ p \in Protos
        BY <1>6
      <4>2. /\ Fit(m, p, t, S, s) /\ r[k].hdr = <<"unused">>
            /\ \A i \in S : i < k /\ r[i].hdr = s[i].hdr
        BY <1>10, <1>11, <1>12, <4>1
      <4>3. Reentered(m, p, t, S, k, r)
        BY <1>4, <1>6, <1>9, <2>1, <4>1, <4>2, ReenteredIs
      <4> QED BY <4>1, <4>3 DEF Reentered
    <3> QED BY <3>1, <3>2, MonitorIs
  <2>2. CASE owner(m) # t
    <3>1. n = Monitor(t, 0) /\ 0 \in 0..MaxDepth
      BY <1>2, <2>2, LimitsAssumption
    <3>2. S = {}
      BY <1>1, <1>4, <1>6, <1>9, <2>2, OnlyOwner
    <3>3. Fit(n, prototype_header, t, {k}, records'[t])
      BY <1>6, <1>11, <3>1, FitEnter
    <3>4. S \cup {k} = {k}
      BY <3>2
    <3> QED BY <3>1, <3>3, <3>4, MonitorIs
  <2> QED BY <2>1, <2>2
<1>14. \A u \in Threads \ {t} :
         Fit(n, prototype_header, u, Locks(records, Rebiased, u, obj[t]), records[u])
  <2> SUFFICES ASSUME NEW u \in Threads \ {t}
               PROVE  Fit(n, prototype_header, u, Locks(records, Rebiased, u, obj[t]), records[u])
    OBVIOUS
  <2>1. owner(m) # u
    BY <1>3, NoneIs
  <2>2. Locks(records, Rebiased, u, obj[t]) = {}
    BY <1>1, <1>4, <1>6, <2>1, OnlyOwner
  <2>3. owner(n) # u
    BY <1>13
  <2> QED BY <2>2, <2>3, FitNone
<1>15. Move(t, mark[obj[t]], n)
  BY <1>13 DEF Move
<1>16. PICK h : Rewritten(t, h, TRUE)
  BY <1>7
<1>17. Fit(n, prototype_header, t,
           Locks(records, Rebiased, t, obj[t]) \cup {Len(records[t])}, records'[t])
  BY <1>5, <1>9, <1>13
<1> QED BY <1>3, <1>4, <1>13, <1>14, <1>15, <1>16, <1>17, AcquireKeeps

\* A thread about to lock a held object waits for its monitor, inflated from the
\* stack lock of another thread if need be.
LEMMA InflateKeeps ==
  ASSUME Inv, NEW t \in Threads, pc[t] = "slow_enter",
         has_monitor(mark[obj[t]]) \/ (has_locker(mark[obj[t]]) /\ owner(mark[obj[t]]) # t),
         mark' = (IF has_locker(mark[obj[t]]) THEN Set(mark, obj[t], Monitor(owner(mark[obj[t]]), 0))
                  ELSE mark),
         Last_record(t, <<"unused">>, FALSE), Goto(t, "monitor"), UNCHANGED locals,
         UNCHANGED <<program, klass, list>>
  PROVE  Inv' /\ Good
<1>1. attempt[t] /\ t \notin Rebiased
  BY DEF Inv, LocalInv, Rebiased
<1>2. PICK o, k, m : o = obj[t] /\ k = Len(records[t]) /\ m = mark[o]
  OBVIOUS
<1>3. /\ o \in Objects /\ m \in Words /\ m # None /\ m \in Marks /\ prototype_header \in Protos
      /\ t \in list /\ k \in Slots
  BY <1>1, <1>2, RequesterHas, Listed, TypesOf, Youngest DEF Marks
<1>4. PICK n : n = IF has_locker(m) THEN Monitor(owner(m), 0) ELSE m
  OBVIOUS
<1>5. /\ n \in Words /\ n # None /\ has_monitor(n) /\ ~has_locker(n) /\ ~has_bias_pattern(n)
      /\ owner(n) = owner(m)
  <2>1. CASE has_locker(m)
    <3>1. owner(m) \in Threads /\ 0 \in 0..MaxDepth
      BY <1>3, <2>1, WordIs, Apart, LimitsAssumption
    <3> QED BY <1>4, <2>1, <3>1, MonitorIs
  <2>2. CASE ~has_locker(m)
    BY <1>2, <1>3, <1>4, <2>2, Apart
  <2> QED BY <2>1, <2>2
<1>6. /\ mark' \in [Objects -> Marks] /\ mark'[o] = n /\ \A x \in Objects \ {o} : mark'[x] = mark[x]
  <2>1. mark \in [Objects -> Marks] /\ n \in Marks
    BY <1>5, TypesOf DEF Marks
  <2>2. mark' = [mark EXCEPT ![o] = n]
    <3>1. CASE has_locker(m)
      BY <1>2, <1>4, <3>1 DEF Set
    <3>2. CASE ~has_locker(m)
      BY <1>2, <1>3, <1>4, <2>1, <3>2
    <3> QED BY <3>1, <3>2
  <2> QED BY <1>3, <2>1, <2>2
<1>7. Moves(t)
  BY <1>2, <1>5, <1>6 DEF Moves, Move
<1>8. PICK h, b : h = <<"unused">> /\ h \in Headers /\ b = FALSE /\ b \in BOOLEAN
  BY DEF Headers
<1>9. Rewritten(t, h, b)
  BY <1>1, <1>8, LastRecordIs
<1>10. Alone(t)
  BY <1>9, TypesOf DEF Alone, Rewritten
<1>11. Now(t, "monitor", obj[t], attempt[t], seen[t], cond[t])
  BY NowGoto, Places
<1>12. t \notin Rebiased'
  BY <1>11 DEF Now, Rebiased
<1>13. /\ Untouched(t, o) /\ Locks(records', Rebiased', t, o) = Locks(records, Rebiased, t, o)
       /\ \A i \in Locks(records, Rebiased, t, o) : records'[t][i].hdr = records[t][i].hdr
  BY <1>1, <1>2, <1>8, <1>9, <1>12, RewriteLocks
<1>14. \A u \in Threads : Fit(n, prototype_header, u, Locks(records, Rebiased, u, o), records[u])
  <2> SUFFICES ASSUME NEW u \in Threads
               PROVE  Fit(n, prototype_header, u, Locks(records, Rebiased, u, o), records[u])
    OBVIOUS
  <2>1. Fit(m, prototype_header, u, Locks(records, Rebiased, u, o), records[u])
    BY <1>2, <1>3 DEF Inv, HeapFit
  <2>2. CASE ~has_locker(m)
    BY <1>4, <2>1, <2>2
  <2>3. CASE has_locker(m) /\ owner(m) = u
    <3>1. Locks(records, Rebiased, u, o) \in SUBSET Slots
      BY TypesOf, LocksAre
    <3>2. Fit(Monitor(u, 0), prototype_header, u, Locks(records, Rebiased, u, o), records[u])
      BY <1>3, <2>1, <2>3, <3>1, FitInflate
    <3> QED BY <1>4, <2>3, <3>2
  <2>4. CASE has_locker(m) /\ owner(m) # u
    <3>1. Locks(records, Rebiased, u, o) = {}
      BY <1>2, <1>3, <2>4, OnlyOwner
    <3> QED BY <1>5, <2>4, <3>1, FitNone
  <2> QED BY <2>2, <2>3, <2>4
<1>15. Fit(n, prototype_header, t, Locks(records', Rebiased', t, o), records'[t])
  <2>1. Locks(records, Rebiased, t, o) \in SUBSET Slots
    BY TypesOf, LocksAre
  <2>2. Fit(n, prototype_header, t, Locks(records, Rebiased, t, o), records'[t])
    BY <1>13, <1>14, <2>1, FitSame
  <2> QED BY <1>13, <2>2
<1>16. UNCHANGED <<prototype_header, enabled, bulk_done, revocation_count>>
  BY DEF klass
<1>17. CountKept
  BY <1>11, <1>16, NotCounting, CountSame
<1>18. /\ attempt'[t] = attempt[t] /\ obj'[t] = o /\ pc'[t] = "monitor"
       /\ DOMAIN records'[t] = DOMAIN records[t] /\ Len(records'[t]) = k
       /\ records'[t][k].obj = o /\ records'[t][k].hdr = <<"unused">> /\ ~records'[t][k].held
       /\ \A i \in DOMAIN records[t] : i # k => records'[t][i] = records[t][i]
  BY <1>2, <1>8, <1>9, <1>11 DEF Now, Rewritten
<1>19. RecordInv(t)'
  <2>1. RecordInv(t)
    BY DEF Inv
  <2>2. ASSUME NEW i \in DOMAIN records'[t]
        PROVE  /\ mark'[records'[t][i].obj] # None
               /\ records'[t][i].held <=> ~(attempt[t] /\ i = k)
               /\ has_bias_pattern(mark'[records'[t][i].obj]) =>
                    Current(mark'[records'[t][i].obj], prototype_header)
    <3>1. CASE i = k
      BY <1>1, <1>5, <1>6, <1>18, <3>1
    <3>2. CASE i # k
      <4>1. i \in DOMAIN records[t] /\ records'[t][i] = records[t][i]
        BY <1>18, <3>2
      <4>2. PICK x : x = records[t][i].obj /\ x \in Objects
        BY <4>1, TypesOf, SlotsOf
      <4>3. /\ mark[x] # None /\ records[t][i].held
            /\ has_bias_pattern(mark[x]) => Current(mark[x], prototype_header)
        BY <1>2, <2>1, <3>2, <4>1, <4>2 DEF RecordInv, Outdated
      <4> QED BY <1>5, <1>6, <3>2, <4>1, <4>2, <4>3
    <3> QED BY <3>1, <3>2
  <2>3. records'[t] # <<>>
    <3>1. k \in DOMAIN records'[t]
      BY <1>1, <1>2, <1>18, Youngest
    <3> QED BY <3>1
  <2> QED BY <1>5, <1>6, <1>16, <1>18, <2>2, <2>3 DEF RecordInv
<1>20. LocalInv(t)'
  <2>1. Last(records'[t]).hdr = <<"unused">>
    BY <1>18 DEF Last
  <2> QED BY <1>1, <1>3, <1>5, <1>6, <1>12, <1>18, <2>1 DEF LocalInv
<1>21. mark[o] # None
  BY <1>2, <1>3
<1>22. /\ Fit(mark'[o], prototype_header, t, Locks(records', Rebiased', t, o), records'[t])
       /\ \A u \in Threads \ {t} :
            Fit(mark'[o], prototype_header, u, Locks(records, Rebiased, u, o), records[u])
  BY <1>6, <1>14, <1>15
<1> QED BY <1>3, <1>6, <1>7, <1>10, <1>11, <1>13, <1>16, <1>17, <1>19, <1>20, <1>21, <1>22,
           TypesOf, StepKeeps

\* slow_enter takes the stack lock, nests it, or inflates it.
LEMMA SlowEnterKeeps ==
  ASSUME Inv, NEW t \in Threads, slow_enter(t), UNCHANGED program
  PROVE  Inv' /\ Good
<1>1. pc[t] = "slow_enter" /\ UNCHANGED <<klass, list>>
  BY DEF slow_enter
<1>2. attempt[t] /\ t \notin Rebiased
  BY <1>1 DEF Inv, LocalInv, Rebiased
<1>3. CASE /\ mark[obj[t]] = Neutral
           /\ mark' = Set(mark, obj[t], StackLock(t, Len(records[t])))
           /\ Last_record(t, Neutral, TRUE)
           /\ Return(t)
  BY <1>1, <1>2, <1>3, TakeStackLockKeeps
<1>4. CASE /\ has_locker(mark[obj[t]]) /\ owner(mark[obj[t]]) = t
           /\ Last_record(t, <<"null">>, TRUE)
           /\ Return(t)
           /\ UNCHANGED mark
  BY <1>1, <1>2, <1>4, NestStackLockKeeps
<1>5. CASE /\ has_monitor(mark[obj[t]]) \/ (has_locker(mark[obj[t]]) /\ owner(mark[obj[t]]) # t)
           /\ mark' = IF has_locker(mark[obj[t]]) THEN Set(mark, obj[t], Monitor(owner(mark[obj[t]]), 0))
                      ELSE mark
           /\ Last_record(t, <<"unused">>, FALSE)
           /\ Goto(t, "monitor")
           /\ UNCHANGED locals
  BY <1>1, <1>5, InflateKeeps
<1> QED BY <1>3, <1>4, <1>5 DEF slow_enter

-----------------------------------------------------------------------------
(* Biases revoked while threads run                                         *)

\* The records of a thread whose object has no bias left.
LEMMA UnbiasedRecords ==
  ASSUME Inv, NEW t \in Threads, NEW l, NEW v, NEW s, NEW c, Now(t, l, v, attempt[t], s, c),
         UNCHANGED <<records, prototype_header>>, attempt[t] => v = obj[t],
         mark'[obj[t]] # None, ~has_bias_pattern(mark'[obj[t]]), t \notin Rebiased,
         \A x \in Objects \ {obj[t]} : mark'[x] = mark[x]
  PROVE  RecordInv(t)'
<1>1. RecordInv(t)
  BY DEF Inv
<1>2. attempt'[t] = attempt[t] /\ obj'[t] = v
  BY DEF Now
<1>3. ASSUME NEW i \in DOMAIN records[t]
      PROVE  /\ mark'[records[t][i].obj] # None
             /\ records[t][i].held <=> ~(attempt[t] /\ i = Len(records[t]))
             /\ has_bias_pattern(mark'[records[t][i].obj]) =>
                  Current(mark'[records[t][i].obj], prototype_header)
  <2>1. PICK x : x = records[t][i].obj /\ x \in Objects
    BY TypesOf, SlotsOf
  <2>2. /\ mark[x] # None
        /\ records[t][i].held <=> ~(attempt[t] /\ i = Len(records[t]))
        /\ has_bias_pattern(mark[x]) => Current(mark[x], prototype_header) \/ x = obj[t]
    BY <1>1, <2>1 DEF RecordInv
  <2>3. CASE x = obj[t]
    BY <2>1, <2>2, <2>3
  <2>4. CASE x # obj[t]
    BY <2>1, <2>2, <2>4
  <2> QED BY <2>3, <2>4
<1>4. ASSUME attempt[t]
      PROVE  records[t] # <<>> /\ records[t][Len(records[t])].obj = obj[t]
  BY <1>1, <1>4 DEF RecordInv
<1> QED BY <1>2, <1>3, <1>4 DEF RecordInv

\* The bias of an object that nobody holds is dropped.
LEMMA DropBiasKeeps ==
  ASSUME Inv, NEW t \in Threads, NEW l, NEW v, NEW s, NEW c, Now(t, l, v, attempt[t], s, c),
         attempt[t] => v = obj[t], l # "count",
         obj[t] \in Objects, has_bias_pattern(mark[obj[t]]),
         biased_locker(mark[obj[t]]) = None \/ ~Current(mark[obj[t]], prototype_header),
         mark' = Set(mark, obj[t], Neutral), UNCHANGED <<program, klass, list, records>>,
         t \notin Rebiased, t \notin Rebiased', LocalInv(t)'
  PROVE  Inv' /\ Good
<1>1. UNCHANGED <<prototype_header, enabled, bulk_done, revocation_count>>
  BY DEF klass
<1>2. PICK o, n : o = obj[t] /\ o \in Objects /\ n = Neutral
  OBVIOUS
<1>3. n \in Words /\ n # None /\ ~has_bias_pattern(n) /\ ~has_locker(n) /\ ~has_monitor(n)
  BY <1>2, NeutralIs
<1>4. /\ mark' \in [Objects -> Marks] /\ mark'[o] = n /\ \A x \in Objects \ {o} : mark'[x] = mark[x]
  <2>1. mark \in [Objects -> Marks] /\ n \in Marks /\ mark' = [mark EXCEPT ![o] = n]
    BY <1>2, <1>3, TypesOf DEF Marks, Set
  <2> QED BY <1>2, <2>1
<1>5. RecordInv(t)'
  BY <1>1, <1>2, <1>3, <1>4, UnbiasedRecords
<1>6. mark[o] # None /\ mark[o] \in Marks /\ ~has_monitor(mark[o])
  BY <1>2, TypesOf, Apart
<1>7. Moves(t)
  BY <1>3, <1>4, <1>6 DEF Moves, Move
<1>8. Alone(t)
  BY TypesOf DEF Alone
<1>9. Untouched(t, o) /\ Locks(records', Rebiased', t, o) = Locks(records, Rebiased, t, o)
  BY DEF Untouched, Locks
<1>10. \A u \in Threads : Fit(mark'[o], prototype_header, u, Locks(records, Rebiased, u, o), records[u])
  <2> SUFFICES ASSUME NEW u \in Threads
               PROVE  Fit(mark'[o], prototype_header, u, Locks(records, Rebiased, u, o), records[u])
    OBVIOUS
  <2>1. Locks(records, Rebiased, u, o) = {}
    BY <1>2, FreeLocks
  <2> QED BY <1>3, <1>4, <2>1, FitNone
<1>11. Fit(mark'[o], prototype_header, t, Locks(records', Rebiased', t, o), records'[t])
  BY <1>9, <1>10
<1>12. CountKept
  BY <1>1, NotCounting, CountSame
<1> QED BY <1>1, <1>2, <1>4, <1>5, <1>6, <1>7, <1>8, <1>9, <1>10, <1>11, <1>12, TypesOf, StepKeeps

\* The same by a thread that does not lock, which returns.
LEMMA DropAndReturnKeeps ==
  ASSUME Inv, NEW t \in Threads, pc[t] \in {"anonymous", "stale", "expired"},
         has_bias_pattern(mark[obj[t]]),
         biased_locker(mark[obj[t]]) = None \/ ~Current(mark[obj[t]], prototype_header),
         mark' = Set(mark, obj[t], Neutral), Continue(t, "BIAS_REVOKED"),
         UNCHANGED <<program, klass, list>>
  PROVE  Inv' /\ Good
<1>1. ~attempt[t] /\ t \notin Rebiased
  BY DEF Inv, LocalInv, Rebiased
<1>2. Return(t) /\ UNCHANGED records
  BY <1>1 DEF Continue, Finish
<1>3. Now(t, "java", None, FALSE, None, "none")
  BY <1>2, NowReturn
<1>4. t \in list /\ obj[t] \in Objects
  BY Listed, RequesterHas
<1>5. LocalInv(t)' /\ t \notin Rebiased'
  BY <1>3, <1>4, JavaLocals
<1>6. attempt[t] = FALSE
  BY <1>1, TypesOf
<1>7. PICK l, v, s, c : l = "java" /\ v = None /\ s = None /\ c = "none" /\ Now(t, l, v, attempt[t], s, c)
  BY <1>3, <1>6
<1> QED BY <1>1, <1>2, <1>4, <1>5, <1>7, DropBiasKeeps

\* revoke_and_rebias of an anonymous bias.
LEMMA AnonymousKeeps ==
  ASSUME Inv, NEW t \in Threads, Revoke_anonymous(t), UNCHANGED program
  PROVE  Inv' /\ Good
<1>1. pc[t] = "anonymous" /\ Cmpxchg(t, Neutral, "BIAS_REVOKED") /\ UNCHANGED <<klass, list>>
  BY DEF Revoke_anonymous
<1>2. is_biased_anonymously(seen[t])
  BY <1>1 DEF Inv, LocalInv
<1>3. CASE mark[obj[t]] = seen[t] /\ mark' = Set(mark, obj[t], Neutral) /\ Continue(t, "BIAS_REVOKED")
  BY <1>1, <1>2, <1>3, DropAndReturnKeeps DEF is_biased_anonymously
<1>4. CASE Goto(t, "heuristics") /\ UNCHANGED <<mark, records, locals>>
  BY <1>1, <1>4, FailedKeeps
<1> QED BY <1>1, <1>3, <1>4 DEF Cmpxchg

\* revoke_and_rebias of a bias older than the bulk revocation.
LEMMA StaleKeeps ==
  ASSUME Inv, NEW t \in Threads, Revoke_stale(t), UNCHANGED program
  PROVE  Inv' /\ Good
<1>1. /\ pc[t] = "stale" /\ Continue(t, "BIAS_REVOKED") /\ UNCHANGED <<klass, list>>
      /\ mark' = (IF mark[obj[t]] = seen[t] THEN Set(mark, obj[t], prototype_header) ELSE mark)
  BY DEF Revoke_stale
<1>2. ~Biasable /\ (mark[obj[t]] = seen[t] \/ ~has_bias_pattern(mark[obj[t]]))
  BY <1>1 DEF Inv, LocalInv
<1>3. prototype_header = Neutral /\ ~Current(mark[obj[t]], prototype_header)
  BY <1>2, TypesOf, ProtoIs DEF Biasable, Current
<1>4. CASE mark[obj[t]] = seen[t] /\ has_bias_pattern(mark[obj[t]])
  <2>1. mark' = Set(mark, obj[t], Neutral)
    BY <1>1, <1>3, <1>4
  <2> QED BY <1>1, <1>3, <1>4, <2>1, DropAndReturnKeeps
<1>5. CASE ~has_bias_pattern(mark[obj[t]])
  <2>1. t \notin Rebiased /\ pc[t] \notin Outdated /\ pc[t] \notin {"java", "vm_objs"}
    BY <1>1 DEF Rebiased, Outdated
  <2>2. Finish(t, "BIAS_REVOKED") /\ UNCHANGED records
    BY <1>1 DEF Continue
  <2>3. mark' = mark
    <3>1. has_bias_pattern(seen[t])
      BY <1>1 DEF Inv, LocalInv
    <3>2. mark[obj[t]] # seen[t]
      BY <1>5, <3>1
    <3> QED BY <1>1, <3>2
  <2>4. PICK k : k = "BIAS_REVOKED"
    OBVIOUS
  <2> QED BY <1>1, <1>5, <2>1, <2>2, <2>3, <2>4, FinishKeeps
<1> QED BY <1>2, <1>4, <1>5

\* revoke_and_rebias of a bias of an expired epoch.
LEMMA ExpiredKeeps ==
  ASSUME Inv, NEW t \in Threads, Rebias_expired(t), UNCHANGED program
  PROVE  Inv' /\ Good
<1>1. pc[t] = "expired" /\ UNCHANGED <<klass, list>>
  BY DEF Rebias_expired
<1>2. ~attempt[t] /\ has_bias_pattern(seen[t]) /\ bias_epoch(seen[t]) # epoch
  BY <1>1 DEF Inv, LocalInv
<1>3. Cmpxchg(t, Neutral, "BIAS_REVOKED")
  BY <1>2 DEF Rebias_expired
<1>4. CASE mark[obj[t]] = seen[t] /\ mark' = Set(mark, obj[t], Neutral) /\ Continue(t, "BIAS_REVOKED")
  <2>1. ~Current(mark[obj[t]], prototype_header)
    BY <1>2, <1>4 DEF Current, epoch
  <2> QED BY <1>1, <1>2, <1>4, <2>1, DropAndReturnKeeps
<1>5. CASE Goto(t, "heuristics") /\ UNCHANGED <<mark, records, locals>>
  BY <1>1, <1>5, FailedKeeps
<1> QED BY <1>3, <1>4, <1>5 DEF Cmpxchg

\* biased_locking_enter in a class that is not biasable any more.
LEMMA UnbiasKeeps ==
  ASSUME Inv, NEW t \in Threads, Try_revoke_bias(t), UNCHANGED program
  PROVE  Inv' /\ Good
<1>1. /\ pc[t] = "unbias" /\ Goto(t, "cas") /\ UNCHANGED <<klass, list, records, locals>>
      /\ mark' = (IF mark[obj[t]] = seen[t] THEN Set(mark, obj[t], prototype_header) ELSE mark)
  BY DEF Try_revoke_bias
<1>2. /\ ~Biasable /\ has_bias_pattern(seen[t]) /\ attempt[t]
      /\ mark[obj[t]] = seen[t] \/ ~has_bias_pattern(mark[obj[t]])
  BY <1>1 DEF Inv, LocalInv
<1>3. prototype_header = Neutral /\ ~Current(mark[obj[t]], prototype_header)
  BY <1>2, TypesOf, ProtoIs DEF Biasable, Current
<1>4. t \in list /\ obj[t] \in Objects /\ mark[obj[t]] # None /\ t \notin Rebiased
  BY <1>1, Listed, RequesterHas DEF Rebiased
<1>5. Now(t, "cas", obj[t], attempt[t], seen[t], cond[t])
  BY <1>1, NowGoto, Places
<1>6. /\ mark'[obj[t]] # None /\ ~has_bias_pattern(mark'[obj[t]])
      /\ \A x \in Objects \ {obj[t]} : mark'[x] = mark[x]
  <2>1. CASE mark[obj[t]] = seen[t]
    <3>1. PICK n : n = Neutral
      OBVIOUS
    <3>2. mark' = [mark EXCEPT ![obj[t]] = n]
      BY <1>1, <1>3, <2>1, <3>1 DEF Set
    <3>3. mark'[obj[t]] = n /\ \A x \in Objects \ {obj[t]} : mark'[x] = mark[x]
      BY <1>4, <3>2, TypesOf
    <3> QED BY <3>1, <3>3, NeutralIs
  <2>2. CASE mark[obj[t]] # seen[t]
    BY <1>1, <1>2, <1>4, <2>2
  <2> QED BY <2>1, <2>2
<1>7. LocalInv(t)' /\ t \notin Rebiased'
  <2>1. pc'[t] = "cas" /\ obj'[t] = obj[t] /\ attempt'[t]
    BY <1>2, <1>5 DEF Now
  <2> QED BY <1>1, <1>4, <1>6, <2>1 DEF LocalInv, Rebiased
<1>8. CASE mark[obj[t]] = seen[t]
  <2>1. mark' = Set(mark, obj[t], Neutral) /\ has_bias_pattern(mark[obj[t]])
    BY <1>1, <1>2, <1>3, <1>8
  <2>2. PICK l : l = "cas" /\ Now(t, l, obj[t], attempt[t], seen[t], cond[t])
    BY <1>5
  <2> QED BY <1>1, <1>3, <1>4, <1>7, <2>1, <2>2, DropBiasKeeps
<1>9. CASE mark[obj[t]] # seen[t]
  <2>1. UNCHANGED <<mark, prototype_header, enabled, bulk_done, revocation_count>>
    BY <1>1, <1>9 DEF klass
  <2>2. RecordInv(t)'
    BY <1>1, <1>4, <1>5, <1>6, <2>1, UnbiasedRecords
  <2>3. CountKept
    BY <1>5, <2>1, NotCounting, CountSame
  <2> QED BY <1>1, <1>4, <1>5, <1>7, <2>1, <2>2, <2>3, TypesOf, QuietKeeps
<1> QED BY <1>8, <1>9

\* The requester wakes with the bias of its object: the lock is its own, and was
\* since the operation.
LEMMA WakeKeeps ==
  ASSUME Inv, NEW t \in Threads, Returned(t), UNCHANGED program
  PROVE  Inv' /\ Good
<1>1. pc[t] = "returned" /\ Continue(t, cond[t]) /\ UNCHANGED <<mark, klass, list>>
  BY DEF Returned
<1>2. UNCHANGED <<prototype_header, enabled, bulk_done, revocation_count>>
  BY <1>1 DEF klass
<1>3. CASE cond[t] # "BIAS_REVOKED_AND_REBIASED"
  <2>1. t \notin Rebiased /\ pc[t] \notin Outdated /\ pc[t] \notin {"java", "vm_objs"}
    BY <1>1, <1>3 DEF Rebiased, Outdated
  <2>2. ~has_bias_pattern(mark[obj[t]])
    BY <1>1, <2>1 DEF Inv, LocalInv
  <2>3. Finish(t, cond[t]) /\ UNCHANGED records
    BY <1>1, <1>3 DEF Continue
  <2> QED BY <1>1, <1>3, <2>1, <2>2, <2>3, FinishKeeps
<1>4. CASE cond[t] = "BIAS_REVOKED_AND_REBIASED"
  <2>1. t \in Rebiased /\ Acquired(t) /\ Return(t)
    BY <1>1, <1>4 DEF Rebiased, Continue, Finish
  <2>2. attempt[t]
    BY <2>1 DEF Inv, LocalInv
  <2>3. t \in list /\ obj[t] \in Objects /\ mark[obj[t]] # None
    BY <1>1, Listed, RequesterHas
  <2>4. Now(t, "java", None, FALSE, None, "none")
    BY <2>1, NowReturn
  <2>5. LocalInv(t)' /\ t \notin Rebiased'
    BY <1>1, <2>3, <2>4, JavaLocals
  <2>6. PICK h : h = records[t][Len(records[t])].hdr /\ Rewritten(t, h, TRUE)
    BY <2>1, <2>2, AcquiredIs
  <2>7. /\ DOMAIN records'[t] = DOMAIN records[t]
        /\ \A i \in DOMAIN records[t] : /\ records'[t][i].obj = records[t][i].obj
                                        /\ records'[t][i].hdr = records[t][i].hdr
                                        /\ records'[t][i].held
    BY <2>2, <2>6, Youngest DEF Rewritten
  <2>8. \A x : /\ Locks(records', Rebiased', t, x) = Locks(records, Rebiased, t, x)
              /\ \A i \in Locks(records, Rebiased, t, x) : records'[t][i].hdr = records[t][i].hdr
    BY <2>1, <2>5, <2>7 DEF Locks
  <2>9. Alone(t) /\ Moves(t)
    BY <1>1, <2>6, TypesOf DEF Alone, Rewritten, Moves, Move
  <2>10. PICK o : o = obj[t] /\ o \in Objects
    BY <2>3
  <2>11. \A u \in Threads : Fit(mark[o], prototype_header, u, Locks(records, Rebiased, u, o), records[u])
    BY <2>10 DEF Inv, HeapFit
  <2>12. Fit(mark[o], prototype_header, t, Locks(records', Rebiased', t, o), records'[t])
    <3>1. Locks(records, Rebiased, t, o) \in SUBSET Slots
      BY TypesOf, LocksAre
    <3>2. Fit(mark[o], prototype_header, t, Locks(records, Rebiased, t, o), records'[t])
      BY <2>8, <2>11, <3>1, FitSame
    <3> QED BY <2>8, <3>2
  <2>13. CountKept
    BY <1>2, <2>4, NotCounting, CountSame
  <2>14. RecordInv(t)'
    <3>1. RecordInv(t)
      BY DEF Inv
    <3>2. ASSUME NEW i \in DOMAIN records'[t]
          PROVE  /\ mark[records'[t][i].obj] # None /\ records'[t][i].held
                 /\ has_bias_pattern(mark[records'[t][i].obj]) =>
                      Current(mark[records'[t][i].obj], prototype_header)
      BY <1>1, <2>7, <3>1 DEF RecordInv, Outdated
    <3>3. attempt'[t] = FALSE
      BY <2>4 DEF Now
    <3> QED BY <1>1, <1>2, <3>2, <3>3 DEF RecordInv
  <2>15. Untouched(t, o)
    BY <2>8 DEF Untouched
  <2> QED BY <1>1, <1>2, <2>3, <2>4, <2>5, <2>9, <2>10, <2>11, <2>12, <2>13, <2>14, <2>15,
             TypesOf, StepKeeps
<1> QED BY <1>3, <1>4

-----------------------------------------------------------------------------
(* Allocation, a thread's revocation of its own bias, locking and unlocking *)

\* A new object gets the prototype header; no thread has a record of it.
LEMMA AllocateKeeps ==
  ASSUME Inv, NEW t \in Threads, NEW o \in Objects, Allocate(t, o), UNCHANGED program
  PROVE  Inv' /\ Good
<1>1. /\ t \in list /\ pc[t] = "java" /\ mark[o] = None
      /\ mark' = Set(mark, o, prototype_header)
      /\ UNCHANGED <<prototype_header, revocation_count, bulk_done, enabled, list, records, pc,
                     obj, attempt, seen, cond>>
  BY DEF Allocate, klass, locals
<1>2. PICK p : p = prototype_header /\ p \in Protos
  BY TypesOf
<1>3. p \in Words /\ p # None /\ ~has_locker(p) /\ ~has_monitor(p) /\ p \in Marks
  BY <1>2, ProtoIs DEF Marks
<1>4. /\ mark' \in [Objects -> Marks] /\ mark'[o] = p /\ \A x \in Objects \ {o} : mark'[x] = mark[x]
  <2>1. mark \in [Objects -> Marks] /\ mark' = [mark EXCEPT ![o] = p]
    BY <1>1, <1>2, TypesOf DEF Set
  <2> QED BY <1>3, <2>1
<1>5. Now(t, "java", obj[t], attempt[t], seen[t], cond[t])
  BY <1>1, TypesOf DEF Now, Conditions
<1>6. attempt[t] = FALSE /\ t \notin Rebiased
  BY <1>1, TypesOf DEF Inv, LocalInv, Rebiased
<1>7. LocalInv(t)' /\ t \notin Rebiased'
  BY <1>1, <1>5, <1>6, JavaLocals
<1>8. Alone(t) /\ Moves(t)
  BY <1>1, <1>4, TypesOf DEF Alone, Moves, Move
<1>9. \A u \in Threads : \A i \in DOMAIN records[u] : mark[records[u][i].obj] # None
  BY DEF Inv, RecordInv
<1>10. \A u \in Threads : Locks(records, Rebiased, u, o) = {}
  BY <1>1, <1>9 DEF Locks
<1>11. Untouched(t, o) /\ Locks(records', Rebiased', t, o) = Locks(records, Rebiased, t, o)
  BY <1>1, <1>6, <1>7 DEF Untouched, Locks
<1>12. \A u \in Threads : Fit(mark'[o], prototype_header, u, Locks(records, Rebiased, u, o), records[u])
  BY <1>3, <1>4, <1>10, FitNone
<1>13. Fit(mark'[o], prototype_header, t, Locks(records', Rebiased', t, o), records'[t])
  BY <1>1, <1>11, <1>12
<1>14. HeapFit(mark, records, prototype_header, Rebiased)'
  BY <1>1, <1>4, <1>5, <1>8, <1>11, <1>12, <1>13, StepFit
<1>15. CountKept
  BY <1>1, <1>5, NotCounting, CountSame
<1>16. TypeInv'
  <2>1. \A x \in Objects : has_bias_pattern(mark'[x]) => has_bias_pattern(mark[x]) \/ Biasable
    BY <1>2, <1>4 DEF Biasable
  <2> QED BY <1>1, <1>4, <1>5, <1>8, <1>15, <2>1, TypesOf, TypeStep
<1>17. RecordInv(t)'
  <2>1. RecordInv(t)
    BY DEF Inv
  <2>2. ASSUME NEW i \in DOMAIN records[t]
        PROVE  /\ mark'[records[t][i].obj] # None /\ records[t][i].held
               /\ has_bias_pattern(mark'[records[t][i].obj]) =>
                    Current(mark'[records[t][i].obj], prototype_header)
    <3>1. PICK x : x = records[t][i].obj /\ x \in Objects
      BY TypesOf, SlotsOf
    <3>2. mark'[x] = mark[x] /\ mark[x] # None
      BY <1>1, <1>4, <1>9, <3>1
    <3> QED BY <1>1, <1>6, <2>1, <3>1, <3>2 DEF RecordInv, Outdated
  <2>3. attempt'[t] = FALSE
    BY <1>5, <1>6 DEF Now
  <2> QED BY <1>1, <2>2, <2>3 DEF RecordInv
<1>18. \A u \in Threads \ {t} : RecordInv(u)' /\ LocalInv(u)'
  BY <1>1, <1>5, <1>8, CalmRecords, CalmLocals
<1>19. \A u \in Threads : RecordInv(u)' /\ LocalInv(u)'
  BY <1>7, <1>17, <1>18
<1>20. Inv'
  BY <1>14, <1>16, <1>19 DEF Inv
<1>21. Good
  BY <1>1, <1>4 DEF Good, Biasable
<1> QED BY <1>20, <1>21

\* A thread walks its own stack: it is not about to lock the object.
LEMMA OwnKeeps ==
  ASSUME Inv, NEW t \in Threads, Revoke_own(t), UNCHANGED program
  PROVE  Inv' /\ Good
<1>1. PICK h, a, O, o : h = Heap /\ a = FALSE /\ o = obj[t] /\ O = {o}
  OBVIOUS
<1>2. PICK g : g = revoke_biases(h, O, a, t)
  OBVIOUS
<1>3. /\ pc[t] = "single" /\ Biasable /\ seen[t] = Biased(t, epoch)
      /\ mark' = g.mark /\ records' = g.records
      /\ Finish(t, "BIAS_REVOKED") /\ UNCHANGED <<klass, list>>
  BY <1>1, <1>2 DEF Revoke_own, revoke_bias
<1>4. UNCHANGED <<prototype_header, enabled, bulk_done, revocation_count>>
  BY <1>3 DEF klass
<1>5. /\ t \in list /\ o \in Objects /\ mark[o] # None /\ t \notin Rebiased /\ mark[o] \in Marks
      /\ pc[t] \notin Outdated /\ pc[t] \notin {"java", "vm_objs"}
  BY <1>1, <1>3, Listed, RequesterHas DEF Rebiased, Outdated, Marks
<1>6. IsHeap(h) /\ h.mark = mark /\ h.records = records
  BY <1>1, HeapIs
<1>7. Revokes(h, O, a, t, g)
  <2>1. RecordTypes(h.records) /\ ~a
    BY <1>1, <1>6, TypesOf
  <2> QED BY <1>2, <1>6, <2>1, RevokePoints
<1>8. ByBias(seen[t], prototype_header, t)
  BY <1>3 DEF ByBias, Biasable, epoch
<1>9. mark[o] = seen[t] \/ ~has_bias_pattern(mark[o])
  BY <1>1, <1>3, <1>8 DEF Inv, LocalInv
<1>10. /\ DOMAIN mark' = Objects /\ mark' = [x \in Objects |-> mark'[x]]
       /\ \A x \in Objects : ~Taken(h, O, a, x) => mark'[x] = mark[x]
       /\ Shape(records, records') /\ RecordTypes(records')
  BY <1>3, <1>6, <1>7 DEF Revokes
<1>11. \A u \in Threads : \A i \in DOMAIN records[u] :
         /\ (Walked(h, O, a, t, records[u][i].obj) /\ biased_locker(mark[records[u][i].obj]) = u) =>
              records'[u][i].hdr = (IF i = High(h, records[u][i].obj) THEN Neutral ELSE <<"null">>)
         /\ ~(Walked(h, O, a, t, records[u][i].obj) /\ biased_locker(mark[records[u][i].obj]) = u) =>
              records'[u][i] = records[u][i]
  BY <1>3, <1>6, <1>7 DEF Revokes
<1>12. \A x \in Objects \ {o} : ~Taken(h, O, a, x) /\ ~Walked(h, O, a, t, x)
  BY <1>1 DEF Taken, Walked
<1>13. \A u \in Threads : /\ DOMAIN records'[u] = DOMAIN records[u]
                          /\ DOMAIN records[u] = 1..Len(records[u]) /\ DOMAIN records'[u] = 1..Len(records'[u])
                          /\ records'[u] \in Seq(Records) /\ records[u] \in Seq(Records)
                          /\ \A i \in DOMAIN records[u] : records[u][i].obj \in Objects
  BY <1>10, TypesOf, SlotsOf DEF Shape
<1>14. ASSUME NEW u \in Threads,
              \A i \in DOMAIN records[u] : ~(Walked(h, O, a, t, records[u][i].obj)
                                             /\ biased_locker(mark[records[u][i].obj]) = u)
       PROVE  records'[u] = records[u]
  <2>1. PICK r, s : r = records'[u] /\ s = records[u]
    OBVIOUS
  <2>2. /\ r \in Seq(Records) /\ s \in Seq(Records) /\ DOMAIN r = DOMAIN s
        /\ \A i \in DOMAIN s : r[i] = s[i]
    BY <1>11, <1>13, <1>14, <2>1
  <2>3. r = [i \in DOMAIN r |-> r[i]] /\ s = [i \in DOMAIN s |-> s[i]]
    BY <2>2
  <2> QED BY <2>1, <2>2, <2>3
<1>15. CASE ~has_bias_pattern(mark[o])
  <2>1. \A x \in Objects : ~Taken(h, O, a, x) /\ ~Walked(h, O, a, t, x)
    BY <1>6, <1>12, <1>15 DEF Taken, Walked
  <2>2. mark' = mark
    <3>1. mark = [x \in Objects |-> mark[x]]
      BY TypesOf
    <3> QED BY <1>10, <2>1, <3>1
  <2>3. records' = records
    <3>1. \A u \in Threads : records'[u] = records[u]
      BY <1>13, <1>14, <2>1
    <3>2. records \in [Threads -> Seq(Records)] /\ records' \in [Threads -> Seq(Records)]
      BY <1>10, TypesOf DEF RecordTypes
    <3> QED BY <3>1, <3>2
  <2>4. PICK k : k = "BIAS_REVOKED"
    OBVIOUS
  <2> QED BY <1>1, <1>3, <1>5, <1>15, <2>2, <2>3, <2>4, FinishKeeps
<1>16. CASE has_bias_pattern(mark[o])
  <2>1. ByBias(mark[o], prototype_header, t) /\ biased_locker(mark[o]) = t
    BY <1>8, <1>9, <1>16, MoveToBias
  <2>2. ~attempt[t] /\ attempt[t] = FALSE
    <3>1. RecordInv(t)
      BY DEF Inv
    <3> QED BY <1>1, <1>5, <1>16, <2>1, <3>1, TypesOf DEF RecordInv
  <2>3. Return(t)
    BY <1>3, <2>2 DEF Finish
  <2>4. Now(t, "java", None, FALSE, None, "none")
    BY <2>3, NowReturn
  <2>5. LocalInv(t)' /\ t \notin Rebiased'
    BY <1>3, <1>5, <2>4, JavaLocals
  <2>6. \A i \in DOMAIN records[t] : records[t][i].held
    BY <2>2 DEF Inv, RecordInv
  <2>7. PICK S : S = monitor_info(h, t, o)
    OBVIOUS
  <2>8. /\ S = {i \in DOMAIN records[t] : records[t][i].obj = o}
        /\ Locks(records, Rebiased, t, o) = S /\ S \in SUBSET Slots
        /\ Locks(records', Rebiased', t, o) = S
    <3>1. S = {i \in DOMAIN records[t] : records[t][i].obj = o}
      BY <1>6, <2>7 DEF monitor_info
    <3>2. Locks(records, Rebiased, t, o) = S
      BY <2>6, <3>1 DEF Locks
    <3>3. Locks(records', Rebiased', t, o) = S
      BY <1>10, <2>6, <3>1 DEF Locks, Shape
    <3> QED BY <3>1, <3>2, <3>3, TypesOf, LocksAre
  <2>9. Taken(h, O, a, o) /\ (Walked(h, O, a, t, o) <=> S # {}) /\ High(h, o) = Min(S)
    <3>1. Taken(h, O, a, o)
      BY <1>1, <1>6, <1>16 DEF Taken
    <3> QED BY <1>6, <2>1, <2>7, <3>1, NoneIs DEF Walked, High
  <2>10. \A u \in Threads \ {t} : records'[u] = records[u]
    <3> SUFFICES ASSUME NEW u \in Threads \ {t} PROVE records'[u] = records[u]
      OBVIOUS
    <3>1. \A i \in DOMAIN records[u] : ~(Walked(h, O, a, t, records[u][i].obj)
                                         /\ biased_locker(mark[records[u][i].obj]) = u)
      BY <1>12, <1>13, <2>1
    <3> QED BY <1>14, <3>1
  <2>11. Untouched(t, o)
    <3> SUFFICES ASSUME NEW x \in Objects \ {o}
                 PROVE  /\ Locks(records', Rebiased', t, x) = Locks(records, Rebiased, t, x)
                        /\ \A i \in Locks(records, Rebiased, t, x) :
                             records'[t][i].hdr = records[t][i].hdr
      BY DEF Untouched
    <3>1. Locks(records', Rebiased', t, x) = Locks(records, Rebiased, t, x)
      BY <1>5, <1>10, <2>5, <2>6 DEF Locks, Shape
    <3>2. \A i \in Locks(records, Rebiased, t, x) : i \in DOMAIN records[t] /\ records[t][i].obj = x
      BY DEF Locks
    <3> QED BY <1>11, <1>12, <3>1, <3>2
  <2>12. PICK n : n = mark'[o]
    OBVIOUS
  <2>13. /\ n \in Words /\ n # None /\ ~has_bias_pattern(n)
         /\ ~((has_locker(n) \/ has_monitor(n)) /\ owner(n) # t)
         /\ Fit(n, prototype_header, t, S, records'[t])
    <3>1. CASE S = {}
      <4>1. n = Neutral
        BY <1>3, <1>5, <1>7, <2>9, <2>12, <3>1 DEF Revokes
      <4>2. /\ n \in Words /\ n # None /\ ~has_bias_pattern(n) /\ ~has_locker(n) /\ ~has_monitor(n)
        BY <4>1, NeutralIs
      <4>3. Fit(n, prototype_header, t, {}, records'[t])
        BY <4>2, FitNone
      <4> QED BY <3>1, <4>2, <4>3
    <3>2. CASE S # {}
      <4>1. n = StackLock(t, Min(S))
        BY <1>3, <1>5, <1>6, <1>7, <2>1, <2>9, <2>12, <3>2 DEF Revokes
      <4>2. S \in SUBSET Nat /\ Min(S) \in S /\ Min(S) \in Slots
        BY <2>8, <3>2, FiniteSlots, MinIs
      <4>3. \A i \in S : records'[t][i].hdr = (IF i = Min(S) THEN Neutral ELSE <<"null">>)
        BY <1>11, <2>1, <2>8, <2>9, <3>2
      <4>4. Fit(StackLock(t, Min(S)), prototype_header, t, S, records'[t])
        BY <2>8, <3>2, <4>2, <4>3, FitRevoke
      <4> QED BY <4>1, <4>2, <4>4, StackLockIs
    <3> QED BY <3>1, <3>2
  <2>14. \A u \in Threads \ {t} :
           Fit(n, prototype_header, u, Locks(records, Rebiased, u, o), records[u])
    <3> SUFFICES ASSUME NEW u \in Threads \ {t}
                 PROVE  Fit(n, prototype_header, u, Locks(records, Rebiased, u, o), records[u])
      OBVIOUS
    <3>1. ~has_locker(mark[o]) /\ ~has_monitor(mark[o])
      BY <1>5, <1>16, Apart
    <3>2. ~Names(mark[o], prototype_header, u)
      BY <2>1, <3>1 DEF Names
    <3>3. Locks(records, Rebiased, u, o) = {}
      BY <1>5, <3>2, NotNamed
    <3> QED BY <2>13, <3>3, FitNone
  <2>15. /\ mark' \in [Objects -> Marks] /\ \A x \in Objects \ {o} : mark'[x] = mark[x]
    <3>1. \A x \in Objects \ {o} : mark'[x] = mark[x]
      BY <1>10, <1>12
    <3>2. \A x \in Objects : mark'[x] \in Marks
      BY <2>12, <2>13, <3>1, TypesOf DEF Marks
    <3> QED BY <1>10, <3>1, <3>2
  <2>16. Moves(t)
    <3>1. ~has_monitor(mark[o])
      BY <1>5, <1>16, Apart
    <3> QED BY <2>12, <2>13, <2>15, <3>1 DEF Moves, Move
  <2>17. Alone(t)
    BY <1>3, <1>10, <2>10, TypesOf DEF Alone
  <2>18. CountKept
    BY <1>4, <2>4, NotCounting, CountSame
  <2>19. RecordInv(t)'
    <3>1. RecordInv(t)
      BY DEF Inv
    <3>2. ASSUME NEW i \in DOMAIN records'[t]
          PROVE  /\ mark'[records'[t][i].obj] # None /\ records'[t][i].held
                 /\ has_bias_pattern(mark'[records'[t][i].obj]) =>
                      Current(mark'[records'[t][i].obj], prototype_header)
      <4>1. /\ i \in DOMAIN records[t] /\ records'[t][i].obj = records[t][i].obj
            /\ records'[t][i].held = records[t][i].held /\ records[t][i].held
        BY <1>10, <1>13, <2>6 DEF Shape
      <4>2. PICK x : x = records[t][i].obj /\ x \in Objects
        BY <1>13, <4>1
      <4>3. mark[x] # None /\ (has_bias_pattern(mark[x]) => Current(mark[x], prototype_header))
        BY <1>5, <3>1, <4>1, <4>2 DEF RecordInv
      <4> QED BY <2>12, <2>13, <2>15, <4>1, <4>2, <4>3
    <3>3. attempt'[t] = FALSE
      BY <2>4 DEF Now
    <3> QED BY <1>4, <3>2, <3>3 DEF RecordInv
  <2>20. /\ Fit(mark'[o], prototype_header, t, Locks(records', Rebiased', t, o), records'[t])
         /\ \A u \in Threads \ {t} :
              Fit(mark'[o], prototype_header, u, Locks(records, Rebiased, u, o), records[u])
    BY <2>8, <2>12, <2>13, <2>14
  <2> QED BY <1>4, <1>5, <2>4, <2>5, <2>11, <2>15, <2>16, <2>17, <2>18, <2>19, <2>20,
             TypesOf, StepKeeps
<1> QED BY <1>15, <1>16

Pushed(t, q) ==
  /\ RecordTypes(records') /\ \A u \in Threads \ {t} : records'[u] = records[u]
  /\ Len(records'[t]) = Len(records[t]) + 1 /\ DOMAIN records'[t] = 1..(Len(records[t]) + 1)
  /\ records'[t][Len(records[t]) + 1] = q
  /\ \A i \in DOMAIN records[t] : records'[t][i] = records[t][i]

\* A record pushed.
LEMMA PushIs ==
  ASSUME Inv, NEW t \in Threads, NEW q \in Records, Len(records[t]) < MaxDepth,
         records' = [records EXCEPT ![t] = Append(@, q)]
  PROVE  Pushed(t, q)
<1>1. PICK s, n : s = records[t] /\ n = Len(s)
  OBVIOUS
<1>2. n \in Nat /\ DOMAIN s = 1..n /\ s \in Seq(Records) /\ n < MaxDepth
  BY <1>1, TypesOf, SlotsOf
<1>3. PICK r : r = Append(s, q)
  OBVIOUS
<1>4. /\ r \in Seq(Records) /\ Len(r) = n + 1 /\ DOMAIN r = 1..(n + 1) /\ r[n + 1] = q
      /\ \A i \in 1..n : r[i] = s[i]
  BY <1>1, <1>2, <1>3
<1>5. /\ records \in [Threads -> Seq(Records)] /\ \A u \in Threads : Len(records[u]) <= MaxDepth
  BY TypesOf DEF RecordTypes
<1>6. /\ records' \in [Threads -> Seq(Records)] /\ records'[t] = r
      /\ \A u \in Threads \ {t} : records'[u] = records[u]
  BY <1>1, <1>3, <1>4, <1>5
<1>7. \A u \in Threads : Len(records'[u]) <= MaxDepth
  <2>1. Len(r) <= MaxDepth
    BY <1>2, <1>4, LimitsAssumption
  <2> QED BY <1>5, <1>6, <2>1
<1> QED BY <1>1, <1>2, <1>4, <1>6, <1>7 DEF RecordTypes, Pushed

\* The youngest record popped.
LEMMA PopIs ==
  ASSUME Inv, NEW t \in Threads, records[t] # <<>>,
         records' = [records EXCEPT ![t] = Front(@)]
  PROVE  /\ RecordTypes(records') /\ \A u \in Threads \ {t} : records'[u] = records[u]
         /\ DOMAIN records'[t] = DOMAIN records[t] \ {Len(records[t])}
         /\ \A i \in DOMAIN records'[t] : records'[t][i] = records[t][i]
<1>1. PICK s, n : s = records[t] /\ n = Len(s)
  OBVIOUS
<1>2. n \in Nat /\ DOMAIN s = 1..n /\ s \in Seq(Records) /\ n \in DOMAIN s
  BY <1>1, TypesOf, SlotsOf, LastOf
<1>3. PICK r : r = Front(s)
  OBVIOUS
<1>4. /\ r \in Seq(Records) /\ Len(r) = n - 1 /\ DOMAIN r = 1..(n - 1)
      /\ \A i \in 1..(n - 1) : r[i] = s[i]
  BY <1>1, <1>2, <1>3 DEF Front
<1>5. /\ records \in [Threads -> Seq(Records)] /\ \A u \in Threads : Len(records[u]) <= MaxDepth
  BY TypesOf DEF RecordTypes
<1>6. /\ records' \in [Threads -> Seq(Records)] /\ records'[t] = r
      /\ \A u \in Threads \ {t} : records'[u] = records[u]
  BY <1>1, <1>3, <1>4, <1>5
<1>7. \A u \in Threads : Len(records'[u]) <= MaxDepth
  <2>1. Len(r) <= MaxDepth
    BY <1>1, <1>2, <1>4, <1>5, LimitsAssumption
  <2> QED BY <1>5, <1>6, <2>1
<1>8. DOMAIN r = DOMAIN s \ {n}
  BY <1>2, <1>4
<1>9. \A i \in DOMAIN r : r[i] = s[i]
  BY <1>4
<1> QED BY <1>1, <1>6, <1>7, <1>8, <1>9 DEF RecordTypes

\* lock_object: one record more, which is held if the object is biased toward the thread.
LEMMA LockKeeps ==
  ASSUME Inv, NEW t \in Threads, NEW o \in Objects, lock_object(t, o), UNCHANGED program
  PROVE  Inv' /\ Good
<1>1. PICK mine \in BOOLEAN : mine = (Biasable /\ mark[o] = Biased(t, epoch))
  BY DEF Biasable, has_bias_pattern
<1>2. PICK q : q = [obj |-> o, hdr |-> <<"unset">>, held |-> mine]
  OBVIOUS
<1>3. PICK l : l = IF mine THEN "java"
                   ELSE IF ~has_bias_pattern(mark[o]) THEN "cas"
                   ELSE IF ~Biasable THEN "unbias"
                   ELSE IF bias_epoch(mark[o]) # epoch THEN "rebias"
                   ELSE "bias"
  OBVIOUS
<1>4. /\ t \in list /\ pc[t] = "java" /\ mark[o] # None /\ Len(records[t]) < MaxDepth
      /\ records' = [records EXCEPT ![t] = Append(@, q)] /\ Goto(t, l)
      /\ UNCHANGED <<mark, klass, list, cond>>
  BY <1>1, <1>2, <1>3 DEF lock_object
<1>5. /\ obj' = (IF mine THEN obj ELSE Set(obj, t, o))
      /\ seen' = (IF mine THEN seen ELSE Set(seen, t, mark[o]))
      /\ attempt' = Set(attempt, t, ~mine)
  BY <1>1 DEF lock_object
<1>6. PICK n : n = Len(records[t]) + 1
  OBVIOUS
<1>7. UNCHANGED <<prototype_header, enabled, bulk_done, revocation_count>>
  BY <1>4 DEF klass
<1>8. q \in Records /\ q.obj = o /\ q.held = mine
  BY <1>2 DEF Records, Headers
<1>9. /\ RecordTypes(records') /\ \A u \in Threads \ {t} : records'[u] = records[u]
      /\ Len(records'[t]) = n /\ DOMAIN records'[t] = 1..n
      /\ records'[t][n] = q /\ \A i \in DOMAIN records[t] : records'[t][i] = records[t][i]
  <2>1. Pushed(t, q)
    BY <1>4, <1>8, PushIs
  <2> QED BY <1>6, <2>1 DEF Pushed
<1>10. DOMAIN records[t] = 1..(n - 1) /\ n \in Nat \ {0} /\ DOMAIN records'[t] = DOMAIN records[t] \cup {n}
       /\ n \notin DOMAIN records[t]
  <2>1. DOMAIN records[t] = 1..Len(records[t]) /\ Len(records[t]) \in Nat
    BY TypesOf, SlotsOf
  <2> QED BY <1>6, <1>9, <2>1
<1>11. /\ l \in {"java", "cas", "unbias", "rebias", "bias"} /\ l \in PCs
  BY <1>3, Places
<1>12. PICK v, s, a : /\ v = (IF mine THEN obj[t] ELSE o) /\ s = (IF mine THEN seen[t] ELSE mark[o])
                      /\ a = ~mine /\ Now(t, l, v, a, s, cond[t])
  <2>1. PICK v, s, a : /\ v = (IF mine THEN obj[t] ELSE o) /\ s = (IF mine THEN seen[t] ELSE mark[o])
                       /\ a = ~mine
    OBVIOUS
  <2>2. /\ obj \in [Threads -> Objects \cup {None}] /\ seen \in [Threads -> Marks]
        /\ attempt \in [Threads -> BOOLEAN] /\ v \in Objects \cup {None} /\ s \in Marks
        /\ a \in BOOLEAN
    BY <2>1, TypesOf
  <2>3. obj' = [obj EXCEPT ![t] = v] /\ seen' = [seen EXCEPT ![t] = s]
    <3>1. CASE mine
      BY <1>5, <2>1, <2>2, <3>1
    <3>2. CASE ~mine
      BY <1>5, <2>1, <3>2 DEF Set
    <3> QED BY <3>1, <3>2
  <2>4. attempt' = [attempt EXCEPT ![t] = a]
    BY <1>5, <2>1 DEF Set
  <2>5. /\ obj' \in [Threads -> Objects \cup {None}] /\ obj'[t] = v
        /\ \A u \in Threads \ {t} : obj'[u] = obj[u]
    BY <2>2, <2>3
  <2>6. /\ seen' \in [Threads -> Marks] /\ seen'[t] = s
        /\ \A u \in Threads \ {t} : seen'[u] = seen[u]
    BY <2>2, <2>3
  <2>7. /\ attempt' \in [Threads -> BOOLEAN] /\ attempt'[t] = a
        /\ \A u \in Threads \ {t} : attempt'[u] = attempt[u]
    BY <2>2, <2>4, Zenon
  <2>8. Gone(t, l)
    BY <1>4, <1>11, GotoIs
  <2>9. Now(t, l, v, a, s, cond[t])
    BY <1>4, <2>5, <2>6, <2>7, <2>8, TypesOf DEF Gone, Now, Conditions
  <2> QED BY <2>1, <2>9
<1>13. attempt[t] = FALSE /\ t \notin Rebiased
  BY <1>4, TypesOf DEF Inv, LocalInv, Rebiased
<1>14. /\ pc'[t] = l /\ obj'[t] = v /\ attempt'[t] = ~mine /\ seen'[t] = s
  BY <1>12 DEF Now
<1>15. t \notin Rebiased'
  BY <1>11, <1>14 DEF Rebiased
<1>16. mine => ByBias(mark[o], prototype_header, t)
  BY <1>1 DEF ByBias, Biasable, epoch
<1>17. mine => has_bias_pattern(mark[o]) /\ Current(mark[o], prototype_header) /\ biased_locker(mark[o]) = t
  BY <1>16, MoveToBias
<1>18. \A i \in DOMAIN records[t] : records[t][i].held /\ mark[records[t][i].obj] # None
                /\ (has_bias_pattern(mark[records[t][i].obj]) =>
                      Current(mark[records[t][i].obj], prototype_header))
  BY <1>4, <1>13 DEF Inv, RecordInv, Outdated
<1>19. Untouched(t, o)
  <2> SUFFICES ASSUME NEW x \in Objects \ {o}
               PROVE  /\ Locks(records', Rebiased', t, x) = Locks(records, Rebiased, t, x)
                      /\ \A i \in Locks(records, Rebiased, t, x) :
                           records'[t][i].hdr = records[t][i].hdr
    BY DEF Untouched
  <2>1. \A i \in DOMAIN records'[t] :
          (records'[t][i].obj = x /\ records'[t][i].held)
             <=> (i \in DOMAIN records[t] /\ records[t][i].obj = x /\ records[t][i].held)
    BY <1>8, <1>9, <1>10
  <2>2. Locks(records', Rebiased', t, x) = Locks(records, Rebiased, t, x)
    BY <1>10, <1>13, <1>15, <2>1 DEF Locks
  <2>3. \A i \in Locks(records, Rebiased, t, x) : i \in DOMAIN records[t]
    BY DEF Locks
  <2> QED BY <1>9, <2>2, <2>3
<1>20. Fit(mark[o], prototype_header, t, Locks(records', Rebiased', t, o), records'[t])
  <2>1. CASE mine
    BY <1>16, <2>1, TypesOf, FitBias
  <2>2. CASE ~mine
    <3>1. \A i \in DOMAIN records'[t] :
            (records'[t][i].obj = o /\ records'[t][i].held)
               <=> (i \in DOMAIN records[t] /\ records[t][i].obj = o /\ records[t][i].held)
      BY <1>8, <1>9, <1>10, <2>2
    <3>2. Locks(records', Rebiased', t, o) = Locks(records, Rebiased, t, o)
      BY <1>10, <1>13, <1>15, <3>1 DEF Locks
    <3>3. \A i \in Locks(records, Rebiased, t, o) : records'[t][i].hdr = records[t][i].hdr
      BY <1>9 DEF Locks
    <3>4. Locks(records, Rebiased, t, o) \in SUBSET Slots
      BY TypesOf, LocksAre
    <3>5. Fit(mark[o], prototype_header, t, Locks(records, Rebiased, t, o), records[t])
      BY DEF Inv, HeapFit
    <3>6. Fit(mark[o], prototype_header, t, Locks(records, Rebiased, t, o), records'[t])
      BY <3>3, <3>4, <3>5, FitSame
    <3> QED BY <3>2, <3>6
  <2> QED BY <2>1, <2>2
<1>21. \A u \in Threads \ {t} :
         Fit(mark[o], prototype_header, u, Locks(records, Rebiased, u, o), records[u])
  BY DEF Inv, HeapFit
<1>22. Alone(t) /\ Moves(t)
  BY <1>4, <1>9, TypesOf DEF Alone, Moves, Move
<1>23. CountKept
  BY <1>7, <1>11, <1>12, NotCounting, CountSame
<1>24. /\ (~mine /\ has_bias_pattern(mark[o])) =>
             \/ l = "unbias" /\ ~Biasable
             \/ l = "rebias" /\ Biasable /\ bias_epoch(mark[o]) # epoch
             \/ l = "bias" /\ Current(mark[o], prototype_header) /\ biased_locker(mark[o]) # t
       /\ (~mine /\ ~has_bias_pattern(mark[o])) => l = "cas"
       /\ mine => l = "java"
  <2>1. ASSUME ~mine, has_bias_pattern(mark[o]), Biasable, bias_epoch(mark[o]) = epoch
        PROVE  Current(mark[o], prototype_header) /\ biased_locker(mark[o]) # t
    <3>1. mark[o] = Biased(biased_locker(mark[o]), bias_epoch(mark[o]))
      BY <2>1, TypesOf, BiasedWord
    <3> QED BY <1>1, <2>1, <3>1 DEF Current, Biasable, epoch
  <2> QED BY <1>3, <2>1
<1>25. RecordInv(t)'
  <2>1. ASSUME NEW i \in DOMAIN records'[t]
        PROVE  /\ mark[records'[t][i].obj] # None
               /\ records'[t][i].held <=> ~(~mine /\ i = n)
               /\ has_bias_pattern(mark[records'[t][i].obj]) =>
                    \/ Current(mark[records'[t][i].obj], prototype_header)
                    \/ l \in Outdated /\ records'[t][i].obj = v
    <3>1. CASE i = n
      BY <1>4, <1>8, <1>9, <1>12, <1>17, <1>24, <3>1 DEF Outdated
    <3>2. CASE i # n
      <4>1. i \in DOMAIN records[t] /\ records'[t][i] = records[t][i]
        BY <1>9, <1>10, <3>2
      <4> QED BY <1>18, <3>2, <4>1
    <3> QED BY <3>1, <3>2
  <2>2. ASSUME ~mine
        PROVE  /\ records'[t] # <<>> /\ records'[t][n].obj = v
               /\ (has_bias_pattern(mark[v]) /\ biased_locker(mark[v]) = t) => l \in Outdated
    <3>1. v = o /\ n \in DOMAIN records'[t]
      BY <1>9, <1>10, <1>12, <2>2
    <3>2. records'[t] # <<>>
      BY <3>1
    <3> QED BY <1>8, <1>9, <1>24, <2>2, <3>1, <3>2 DEF Outdated
  <2> QED BY <1>4, <1>7, <1>9, <1>14, <2>1, <2>2 DEF RecordInv
<1>26. LocalInv(t)'
  <2>1. CASE mine
    <3>1. Now(t, "java", v, FALSE, s, cond[t])
      BY <1>12, <1>24, <2>1
    <3> QED BY <1>4, <3>1, JavaLocals
  <2>2. CASE ~mine
    <3>1. v = o /\ s = mark[o] /\ attempt'[t] /\ l # "java"
      BY <1>3, <1>12, <1>14, <2>2
    <3>2. has_bias_pattern(mark[o]) => enabled
      BY DEF Inv, TypeInv
    <3>3. (Biasable' <=> Biasable) /\ epoch' = epoch
      BY <1>7 DEF Biasable, epoch
    <3>4. \/ l = "cas" /\ ~has_bias_pattern(mark[o])
          \/ l = "unbias" /\ ~Biasable /\ has_bias_pattern(mark[o])
          \/ l = "rebias" /\ Biasable /\ bias_epoch(mark[o]) # epoch /\ has_bias_pattern(mark[o])
          \/ l = "bias" /\ Current(mark[o], prototype_header) /\ has_bias_pattern(mark[o])
      BY <1>24, <2>2
    <3> QED BY <1>4, <1>7, <1>14, <1>15, <3>1, <3>2, <3>3, <3>4 DEF LocalInv
  <2> QED BY <2>1, <2>2
<1>27. /\ Fit(mark'[o], prototype_header, t, Locks(records', Rebiased', t, o), records'[t])
       /\ \A u \in Threads \ {t} :
            Fit(mark'[o], prototype_header, u, Locks(records, Rebiased, u, o), records[u])
       /\ \A x \in Objects \ {o} : mark'[x] = mark[x]
  BY <1>4, <1>20, <1>21
<1> QED BY <1>4, <1>7, <1>12, <1>19, <1>22, <1>23, <1>25, <1>26, <1>27, TypesOf, StepKeeps

\* The mark that a thread leaves when it unlocks.
Unlocked(t, m, n, p, S, k, r) ==
  /\ n \in Words /\ Fit(n, p, t, S \ {k}, r)
  /\ n = m \/ /\ ~has_bias_pattern(n) /\ (has_monitor(m) => has_monitor(n))
              /\ has_monitor(m) \/ has_locker(m)
              /\ owner(m) = t
              /\ (has_locker(n) \/ has_monitor(n)) => owner(n) \in {None, t}

\* The mark word that unlocking the youngest record leaves fits the records left.
LEMMA UnlockedIs ==
  ASSUME NEW m \in Words, NEW p \in Protos, NEW t \in Threads, NEW S \in SUBSET Slots, NEW s, NEW r,
         NEW k \in S, Fit(m, p, t, S, s), \A i \in S : i <= k, \A i \in S \ {k} : r[i].hdr = s[i].hdr,
         NEW n, n = IF has_bias_pattern(m) \/ s[k].hdr = <<"null">> THEN m
                    ELSE IF m = StackLock(t, k) THEN s[k].hdr
                    ELSE IF recursions(m) > 0 THEN Monitor(t, recursions(m) - 1) ELSE Monitor(None, 0)
  PROVE  Unlocked(t, m, n, p, S, k, r)
<1>1. CASE has_bias_pattern(m)
  BY <1>1, FitPopBiased DEF Unlocked
<1>2. CASE ~has_bias_pattern(m) /\ s[k].hdr = <<"null">>
  BY <1>2, FitPopNull DEF Unlocked
<1>3. CASE ~has_bias_pattern(m) /\ s[k].hdr # <<"null">> /\ m = StackLock(t, k)
  <2>1. S = {k} /\ s[k].hdr = Neutral
    BY <1>3, FitPopLast
  <2>2. n = Neutral /\ S \ {k} = {}
    BY <1>3, <2>1
  <2>3. n \in Words /\ ~has_bias_pattern(n) /\ ~has_locker(n) /\ ~has_monitor(n)
    BY <2>2, NeutralIs
  <2>4. has_locker(m) /\ ~has_monitor(m) /\ owner(m) = t
    BY <1>3, StackLockIs
  <2>5. Fit(n, p, t, {}, r)
    BY <2>3, FitNone
  <2> QED BY <2>2, <2>3, <2>4, <2>5 DEF Unlocked
<1>4. CASE ~has_bias_pattern(m) /\ s[k].hdr # <<"null">> /\ m # StackLock(t, k)
  <2>1. /\ has_monitor(m) /\ owner(m) = t /\ recursions(m) \in 0..MaxDepth
        /\ recursions(m) > 0 => Fit(Monitor(t, recursions(m) - 1), p, t, S \ {k}, r)
        /\ ~(recursions(m) > 0) => S = {k}
    BY <1>4, FitPopMonitor
  <2>2. CASE recursions(m) > 0
    <3>0. PICK c : c = recursions(m)
      OBVIOUS
    <3>a. c - 1 \in 0..MaxDepth
      BY <2>1, <2>2, <3>0, LimitsAssumption
    <3>b. n = Monitor(t, recursions(m) - 1)
      BY <1>4, <2>2, Zenon
    <3>1. n = Monitor(t, recursions(m) - 1) /\ recursions(m) - 1 \in 0..MaxDepth
      BY <3>0, <3>a, <3>b
    <3>2. n \in Words /\ has_monitor(n) /\ ~has_bias_pattern(n) /\ owner(n) = t
      BY <3>1, MonitorIs
    <3> QED BY <2>1, <2>2, <3>1, <3>2 DEF Unlocked
  <2>3. CASE ~(recursions(m) > 0)
    <3>1. n = Monitor(None, 0) /\ 0 \in 0..MaxDepth
      BY <1>4, <2>3, LimitsAssumption
    <3>2. n \in Words /\ has_monitor(n) /\ ~has_bias_pattern(n) /\ owner(n) = None
      BY <3>1, MonitorIs
    <3>3. S \ {k} = {} /\ Fit(n, p, t, {}, r)
      BY <2>1, <2>3, <3>2, NoneIs, FitNone
    <3> QED BY <2>1, <3>2, <3>3 DEF Unlocked
  <2> QED BY <2>2, <2>3
<1> QED BY <1>1, <1>2, <1>3, <1>4

\* unlock_object: one record less.
LEMMA UnlockKeeps ==
  ASSUME Inv, NEW t \in Threads, unlock_object(t), UNCHANGED program
  PROVE  Inv' /\ Good
<1>1. PICK k, s, r, o, m : /\ k = Len(records[t]) /\ s = records[t] /\ r = records'[t]
                           /\ o = s[k].obj /\ m = mark[o]
  OBVIOUS
<1>2. /\ pc[t] = "java" /\ s # <<>> /\ records' = [records EXCEPT ![t] = Front(@)]
      /\ UNCHANGED <<klass, list, pc, locals>>
  BY <1>1 DEF unlock_object
<1>3. PICK n : n = IF has_bias_pattern(m) \/ s[k].hdr = <<"null">> THEN m
                    ELSE IF m = StackLock(t, k) THEN s[k].hdr
                    ELSE IF recursions(m) > 0 THEN Monitor(t, recursions(m) - 1) ELSE Monitor(None, 0)
  OBVIOUS
<1>4. /\ RecordTypes(records') /\ \A u \in Threads \ {t} : records'[u] = records[u]
      /\ DOMAIN r = DOMAIN s \ {k} /\ \A i \in DOMAIN r : r[i] = s[i]
  BY <1>1, <1>2, PopIs
<1>5. /\ k \in DOMAIN s /\ k \in Slots /\ DOMAIN s = 1..k /\ k \in Nat /\ o \in Objects
      /\ \A i \in DOMAIN s : s[i].obj \in Objects
  BY <1>1, <1>2, TypesOf, SlotsOf, LastOf
<1>6. UNCHANGED <<prototype_header, enabled, bulk_done, revocation_count, obj, attempt, seen, cond>>
  BY <1>2 DEF klass, locals
<1>7. attempt[t] = FALSE /\ t \notin Rebiased /\ t \in list
  BY <1>1, <1>2, TypesOf, Listed DEF Inv, LocalInv, Rebiased
<1>8. Now(t, "java", obj[t], attempt[t], seen[t], cond[t])
  BY <1>2, <1>6, TypesOf DEF Now, Conditions
<1>9. LocalInv(t)' /\ t \notin Rebiased'
  BY <1>2, <1>7, <1>8, JavaLocals
<1>10. \A i \in DOMAIN s : /\ s[i].held /\ mark[s[i].obj] # None
                           /\ has_bias_pattern(mark[s[i].obj]) => Current(mark[s[i].obj], prototype_header)
  BY <1>1, <1>2, <1>7 DEF Inv, RecordInv, Outdated
<1>11. m \in Words /\ m # None /\ m \in Marks /\ prototype_header \in Protos
  BY <1>1, <1>5, <1>10, TypesOf DEF Marks
<1>12. mark' = Set(mark, o, n)
  <2>1. mark = [mark EXCEPT ![o] = m]
    BY <1>1, <1>5, TypesOf
  <2>2. CASE has_bias_pattern(m) \/ s[k].hdr = <<"null">>
    BY <1>1, <1>3, <2>1, <2>2 DEF unlock_object, Set, Last
  <2>3. CASE ~(has_bias_pattern(m) \/ s[k].hdr = <<"null">>) /\ m = StackLock(t, k)
    BY <1>1, <1>3, <2>3 DEF unlock_object, Last
  <2>4. CASE ~(has_bias_pattern(m) \/ s[k].hdr = <<"null">>) /\ m # StackLock(t, k)
    BY <1>1, <1>3, <2>4 DEF unlock_object, Last
  <2> QED BY <2>2, <2>3, <2>4
<1>13. PICK S : S = Locks(records, Rebiased, t, o) /\ S \in SUBSET Slots
  BY TypesOf, LocksAre
<1>14. S = {i \in DOMAIN s : s[i].obj = o} /\ k \in S /\ \A i \in S : i <= k
  <2>1. S = {i \in DOMAIN s : s[i].obj = o}
    BY <1>1, <1>10, <1>13 DEF Locks
  <2> QED BY <1>1, <1>5, <2>1
<1>15. Locks(records', Rebiased', t, o) = S \ {k}
  BY <1>1, <1>4, <1>9, <1>10, <1>14 DEF Locks
<1>16. Untouched(t, o)
  <2> SUFFICES ASSUME NEW x \in Objects \ {o}
               PROVE  /\ Locks(records', Rebiased', t, x) = Locks(records, Rebiased, t, x)
                      /\ \A i \in Locks(records, Rebiased, t, x) :
                           records'[t][i].hdr = records[t][i].hdr
    BY DEF Untouched
  <2>1. Locks(records, Rebiased, t, x) = {i \in DOMAIN s : s[i].obj = x}
    BY <1>1, <1>10 DEF Locks
  <2>2. Locks(records', Rebiased', t, x) = {i \in DOMAIN r : r[i].obj = x}
    BY <1>1, <1>4, <1>10 DEF Locks
  <2>3. \A i \in DOMAIN s : s[i].obj = x => i # k
    BY <1>1
  <2>4. {i \in DOMAIN r : r[i].obj = x} = {i \in DOMAIN s : s[i].obj = x}
    BY <1>4, <2>3
  <2> QED BY <1>1, <1>4, <2>1, <2>2, <2>3, <2>4
<1>17. Unlocked(t, m, n, prototype_header, S, k, r)
  <2>1. Fit(m, prototype_header, t, S, s)
    BY <1>1, <1>5, <1>13 DEF Inv, HeapFit
  <2>2. \A i \in S \ {k} : r[i].hdr = s[i].hdr
    BY <1>4, <1>14
  <2>3. PICK p : p = prototype_header /\ p \in Protos
    BY <1>11
  <2>4. Fit(m, p, t, S, s)
    BY <2>1, <2>3
  <2>5. Unlocked(t, m, n, p, S, k, r)
    BY <1>3, <1>11, <1>13, <1>14, <2>2, <2>3, <2>4, UnlockedIs
  <2> QED BY <2>3, <2>5
<1>18. /\ mark' \in [Objects -> Marks] /\ mark'[o] = n /\ \A x \in Objects \ {o} : mark'[x] = mark[x]
  <2>1. mark \in [Objects -> Marks] /\ n \in Marks /\ mark' = [mark EXCEPT ![o] = n]
    BY <1>12, <1>17, TypesOf DEF Marks, Set, Unlocked
  <2> QED BY <1>5, <2>1
<1>19. n # None /\ n \in Words
  BY <1>17, NoneIs DEF Unlocked
<1>20. Moves(t)
  BY <1>1, <1>17, <1>18, <1>19 DEF Moves, Move, Unlocked
<1>21. Alone(t)
  BY <1>2, <1>4, TypesOf DEF Alone
<1>22. \A u \in Threads \ {t} :
         Fit(n, prototype_header, u, Locks(records, Rebiased, u, o), records[u])
  <2> SUFFICES ASSUME NEW u \in Threads \ {t}
               PROVE  Fit(n, prototype_header, u, Locks(records, Rebiased, u, o), records[u])
    OBVIOUS
  <2>1. Fit(m, prototype_header, u, Locks(records, Rebiased, u, o), records[u])
    BY <1>1, <1>5 DEF Inv, HeapFit
  <2>2. CASE n = m
    BY <2>1, <2>2
  <2>3. CASE n # m
    <3>1. (has_monitor(m) \/ has_locker(m)) /\ owner(m) # u
      BY <1>17, <2>3 DEF Unlocked
    <3>2. Locks(records, Rebiased, u, o) = {}
      BY <1>1, <1>5, <3>1, OnlyOwner
    <3>3. ~((has_locker(n) \/ has_monitor(n)) /\ owner(n) = u)
      BY <1>17, <2>3, NoneIs DEF Unlocked
    <3> QED BY <3>2, <3>3, FitNone
  <2> QED BY <2>2, <2>3
<1>23. Fit(n, prototype_header, t, Locks(records', Rebiased', t, o), records'[t])
  BY <1>1, <1>15, <1>17 DEF Unlocked
<1>24. CountKept
  BY <1>6, <1>8, NotCounting, CountSame
<1>25. RecordInv(t)'
  <2>1. ASSUME NEW i \in DOMAIN r
        PROVE  /\ mark'[r[i].obj] # None /\ r[i].held
               /\ has_bias_pattern(mark'[r[i].obj]) => Current(mark'[r[i].obj], prototype_header)
    <3>1. PICK x : x = s[i].obj /\ x \in Objects /\ i \in DOMAIN s /\ r[i] = s[i]
      BY <1>4, <1>5
    <3>2. /\ s[i].held /\ mark[x] # None
          /\ has_bias_pattern(mark[x]) => Current(mark[x], prototype_header)
      BY <1>10, <3>1
    <3>3. has_bias_pattern(n) => n = m
      BY <1>17 DEF Unlocked
    <3>4. CASE x = o
      BY <1>1, <1>18, <1>19, <3>1, <3>2, <3>3, <3>4
    <3>5. CASE x # o
      BY <1>18, <3>1, <3>2, <3>5
    <3> QED BY <3>4, <3>5
  <2> QED BY <1>1, <1>6, <1>7, <2>1 DEF RecordInv
<1>26. /\ Fit(mark'[o], prototype_header, t, Locks(records', Rebiased', t, o), records'[t])
       /\ \A u \in Threads \ {t} :
            Fit(mark'[o], prototype_header, u, Locks(records, Rebiased, u, o), records[u])
       /\ mark[o] # None
  BY <1>1, <1>11, <1>18, <1>22, <1>23
<1> QED BY <1>5, <1>6, <1>8, <1>9, <1>16, <1>18, <1>20, <1>21, <1>24, <1>25, <1>26, TypesOf, StepKeeps

-----------------------------------------------------------------------------
(* The theorems.                                                           *)

\* Nothing is allocated, nothing locked, and no thread is within a call.
LEMMA InvInit == Init => Inv
<1> SUFFICES ASSUME Init PROVE Inv
  OBVIOUS
<1>1. /\ program \in Programs /\ mark = [o \in Objects |-> None] /\ prototype_header = Neutral
      /\ revocation_count = 0 /\ bulk_done = FALSE /\ enabled = FALSE /\ list = program.threads
  BY DEF Init
<1>2. /\ records = [t \in Threads |-> <<>>] /\ pc = [t \in Threads |-> "java"]
      /\ obj = [t \in Threads |-> None] /\ attempt = [t \in Threads |-> FALSE]
      /\ seen = [t \in Threads |-> None] /\ cond = [t \in Threads |-> "none"]
  BY DEF Init
<1>3. \A t \in Threads : /\ records[t] = <<>> /\ pc[t] = "java" /\ seen[t] = None
                         /\ DOMAIN records[t] = {} /\ Len(records[t]) = 0
  BY <1>2
<1>4. \A t \in Threads : attempt[t] = FALSE
  BY <1>2, Zenon
<1>5. \A o \in Objects : mark[o] = None
  BY <1>1
<1>6. list \subseteq Threads
  <2>1. program \in [threads : SUBSET Threads, objects : SUBSET Objects]
    BY <1>1, LimitsAssumption
  <2> QED BY <1>1, <2>1
<1>7. "java" \in PCs
  BY Places
<1>8. TypeOK
  <2>1. mark \in [Objects -> Marks] /\ prototype_header \in {Neutral} \cup {Biased(None, e) : e \in 0..(Epochs - 1)}
    BY <1>1 DEF Marks
  <2>2. revocation_count \in 0..(RevokeLimit + Cardinality(Threads))
    BY <1>1, ThreadCount
  <2>3. records \in [Threads -> Seq(Records)] /\ \A t \in Threads : Len(records[t]) <= MaxDepth
    BY <1>2, <1>3, LimitsAssumption
  <2>4. pc \in [Threads -> PCs]
    BY <1>2, <1>7
  <2>5. obj \in [Threads -> Objects \cup {None}]
        /\ cond \in [Threads -> {"none", "NOT_BIASED", "BIAS_REVOKED", "BIAS_REVOKED_AND_REBIASED"}]
    BY <1>2
  <2>6. attempt \in [Threads -> BOOLEAN]
    BY <1>2, Zenon
  <2>7. bulk_done \in BOOLEAN /\ enabled \in BOOLEAN
    BY <1>1
  <2> QED BY <1>1, <1>6, <2>1, <2>2, <2>3, <2>4, <2>5, <2>6, <2>7 DEF TypeOK
<1>9. TypeInv
  <2>1. seen \in [Threads -> Marks]
    BY <1>2 DEF Marks
  <2>2. Cardinality(Counting) = 0
    <3>1. Counting = {}
      BY <1>3 DEF Counting
    <3> QED BY <3>1, FS_EmptySet
  <2>3. revocation_count + Cardinality(Counting) <= RevokeLimit + Cardinality(Threads)
    BY <1>1, <2>2, ThreadCount
  <2>4. ~Biasable
    BY <1>1, NeutralIs DEF Biasable
  <2> QED BY <1>5, <1>8, <2>1, <2>3, <2>4, NoneIs DEF TypeInv
<1>10. HeapFit(mark, records, prototype_header, Rebiased)
  <2> SUFFICES ASSUME NEW t \in Threads, NEW o \in Objects
               PROVE  Fit(mark[o], prototype_header, t, Locks(records, Rebiased, t, o), records[t])
    BY DEF HeapFit
  <2>1. Locks(records, Rebiased, t, o) = {}
    BY <1>3 DEF Locks
  <2>2. ~((has_locker(mark[o]) \/ has_monitor(mark[o])) /\ owner(mark[o]) = t)
    BY <1>5, NoneIs
  <2> QED BY <2>1, <2>2, FitNone
<1>11. ASSUME NEW t \in Threads PROVE RecordInv(t)
  BY <1>3, <1>4 DEF RecordInv
<1>12. ASSUME NEW t \in Threads PROVE LocalInv(t)
  <2>1. t \notin Rebiased
    BY <1>3 DEF Rebiased
  <2> QED BY <1>3, <1>4, <2>1 DEF LocalInv
<1> QED BY <1>9, <1>10, <1>11, <1>12 DEF Inv

\* Every step of a thread keeps the invariant and revokes for good.
LEMMA ThreadKeeps ==
  ASSUME Inv, NEW t \in Threads, UNCHANGED program,
         \/ \E o \in Objects : Allocate(t, o) \/ lock_object(t, o) \/ FastHashCode(t, o)
         \/ unlock_object(t)
         \/ Bias(t) \/ Try_rebias(t) \/ Try_revoke_bias(t) \/ Cas(t)
         \/ revoke_and_rebias(t) \/ Revoke_anonymous(t) \/ Revoke_stale(t)
         \/ Rebias_expired(t) \/ update_heuristics(t) \/ Reset_count(t) \/ Count(t)
         \/ Revoke_own(t) \/ Prologue(t) \/ Revoke_frame(t)
         \/ Doit_revoke(t) \/ Doit_bulk(t) \/ Doit_objs(t) \/ Returned(t)
         \/ slow_enter(t) \/ Enter_monitor(t) \/ Exit(t) \/ Start(t)
  PROVE  Inv' /\ Good
<1>1. ASSUME NEW o \in Objects, Allocate(t, o) PROVE Inv' /\ Good
  BY <1>1, AllocateKeeps
<1>2. ASSUME NEW o \in Objects, lock_object(t, o) PROVE Inv' /\ Good
  BY <1>2, LockKeeps
<1>3. ASSUME NEW o \in Objects, FastHashCode(t, o) PROVE Inv' /\ Good
  BY <1>3, HashKeeps
<1>4. ASSUME unlock_object(t) PROVE Inv' /\ Good
  BY <1>4, UnlockKeeps
<1>5. ASSUME Bias(t) PROVE Inv' /\ Good
  BY <1>5, BiasKeeps
<1>6. ASSUME Try_rebias(t) PROVE Inv' /\ Good
  BY <1>6, TryRebiasKeeps
<1>7. ASSUME Try_revoke_bias(t) PROVE Inv' /\ Good
  BY <1>7, UnbiasKeeps
<1>8. ASSUME Cas(t) PROVE Inv' /\ Good
  BY <1>8, CasKeeps
<1>9. ASSUME revoke_and_rebias(t) PROVE Inv' /\ Good
  BY <1>9, ReadKeeps
<1>10. ASSUME Revoke_anonymous(t) PROVE Inv' /\ Good
  BY <1>10, AnonymousKeeps
<1>11. ASSUME Revoke_stale(t) PROVE Inv' /\ Good
  BY <1>11, StaleKeeps
<1>12. ASSUME Rebias_expired(t) PROVE Inv' /\ Good
  BY <1>12, ExpiredKeeps
<1>13. ASSUME update_heuristics(t) PROVE Inv' /\ Good
  BY <1>13, HeuristicsKeeps
<1>14. ASSUME Reset_count(t) PROVE Inv' /\ Good
  BY <1>14, ResetKeeps
<1>15. ASSUME Count(t) PROVE Inv' /\ Good
  BY <1>15, CountKeeps
<1>16. ASSUME Revoke_own(t) PROVE Inv' /\ Good
  BY <1>16, OwnKeeps
<1>17. ASSUME Prologue(t) PROVE Inv' /\ Good
  BY <1>17, PrologueKeeps
<1>18. ASSUME Revoke_frame(t) PROVE Inv' /\ Good
  BY <1>18, FrameKeeps
<1>19. ASSUME Doit_revoke(t) PROVE Inv' /\ Good
  BY <1>19, RevokeKeeps
<1>20. ASSUME Doit_bulk(t) PROVE Inv' /\ Good
  BY <1>20, BulkKeepsInv
<1>21. ASSUME Doit_objs(t) PROVE Inv' /\ Good
  BY <1>21, ObjsKeeps
<1>22. ASSUME Returned(t) PROVE Inv' /\ Good
  BY <1>22, WakeKeeps
<1>23. ASSUME slow_enter(t) PROVE Inv' /\ Good
  BY <1>23, SlowEnterKeeps
<1>24. ASSUME Enter_monitor(t) PROVE Inv' /\ Good
  BY <1>24, EnterKeeps
<1>25. ASSUME Exit(t) \/ Start(t) PROVE Inv' /\ Good
  BY <1>25, ExitKeeps
<1> QED BY <1>1, <1>2, <1>3, <1>4, <1>5, <1>6, <1>7, <1>8, <1>9, <1>10, <1>11, <1>12, <1>13,
           <1>14, <1>15, <1>16, <1>17, <1>18, <1>19, <1>20, <1>21, <1>22, <1>23, <1>24, <1>25

\* Every step keeps the invariant and revokes for good.
LEMMA InvNext == Inv /\ [Next]_vars => Inv' /\ Good
<1> SUFFICES ASSUME Inv, [Next]_vars PROVE Inv' /\ Good
  OBVIOUS
<1>1. ASSUME NEW o \in Objects, UNCHANGED program, Revoke_at_safepoint(o) PROVE Inv' /\ Good
  BY <1>1, AtSafepointKeeps
<1>2. ASSUME UNCHANGED program, VM_EnableBiasedLocking PROVE Inv' /\ Good
  BY <1>2, EnableKeeps
<1>3. ASSUME UNCHANGED program, Collect PROVE Inv' /\ Good
  BY <1>3, CollectKeeps
<1>4. ASSUME Next PROVE Inv' /\ Good
  BY <1>1, <1>2, <1>3, <1>4, ThreadKeeps DEF Next, Step
<1>5. ASSUME UNCHANGED vars PROVE Inv' /\ Good
  <2>1. /\ UNCHANGED <<program, mark, prototype_header, revocation_count, bulk_done, enabled, list>>
        /\ UNCHANGED <<records, pc, obj, attempt, seen, cond>>
    BY <1>5 DEF vars, klass, locals
  <2>2. Good
    BY <2>1 DEF Good, Biasable
  <2>3. TypeInv'
    BY <2>1 DEF Inv, TypeInv, TypeOK, Counting, Biasable
  <2>4. Rebiased' = Rebiased
    BY <2>1 DEF Rebiased
  <2>5. HeapFit(mark, records, prototype_header, Rebiased)'
    BY <2>1, <2>4 DEF Inv
  <2>6. \A t \in Threads : RecordInv(t)'
    BY <2>1, <2>4 DEF Inv, RecordInv
  <2>7. \A t \in Threads : LocalInv(t)'
    BY <2>1, <2>4 DEF Inv, LocalInv, Biasable, epoch
  <2> QED BY <2>2, <2>3, <2>5, <2>6, <2>7 DEF Inv
<1> QED BY <1>4, <1>5

\* The invariant holds in every state: mark words and lock records fit.
THEOREM InvCorrect == Spec => []Inv
<1>1. Inv /\ [Next]_vars => Inv'
  BY InvNext
<1> QED BY InvInit, <1>1, PTL DEF Spec

\* The records a thread counts as its own are those by which it holds the
\* object; only a thread that was rebiased and has yet to wake has one more.
LEMMA HeldIs ==
  ASSUME Inv, NEW t \in Threads, NEW o \in Objects, Held(t, o) # {},
         NEW S, S = Locks(records, Rebiased, t, o)
  PROVE  /\ Held(t, o) \subseteq S /\ S \in SUBSET Slots /\ mark[o] # None
         /\ Min(S) = Min(Held(t, o)) /\ Min(S) \in S
<1>1. PICK H : H = Held(t, o)
  OBVIOUS
<1>2. H \subseteq S
  BY <1>1 DEF Held, Locks
<1>3. S \in SUBSET Slots /\ S \subseteq DOMAIN records[t] /\ H # {}
  BY <1>1, TypesOf, LocksAre
<1>4. S \in SUBSET Nat /\ H \in SUBSET Nat
  BY <1>2, <1>3, FiniteSlots
<1>5. Min(S) \in S /\ \A y \in S : Min(S) <= y
  BY <1>2, <1>3, <1>4, MinIs
<1>6. \A i \in DOMAIN records[t] : /\ mark[records[t][i].obj] # None
                                   /\ ~records[t][i].held => i = Len(records[t])
  BY DEF Inv, RecordInv
<1>7. PICK j \in H : j \in DOMAIN records[t] /\ records[t][j].obj = o /\ records[t][j].held
  BY <1>1, <1>3 DEF Held
<1>8. mark[o] # None
  BY <1>6, <1>7
<1>9. Min(S) \in H
  <2> SUFFICES ASSUME Min(S) \notin H PROVE FALSE
    OBVIOUS
  <2>1. Min(S) \in DOMAIN records[t] /\ records[t][Min(S)].obj = o
    BY <1>3, <1>5 DEF Locks
  <2>2. ~records[t][Min(S)].held
    BY <1>1, <2>1 DEF Held
  <2>3. Min(S) = Len(records[t])
    BY <1>6, <2>1, <2>2
  <2>4. DOMAIN records[t] = 1..Len(records[t]) /\ Len(records[t]) \in Nat
    BY TypesOf, SlotsOf
  <2>5. j <= Len(records[t]) /\ Min(S) <= j /\ j \in Nat
    BY <1>2, <1>4, <1>5, <1>7, <2>4
  <2>6. j = Min(S)
    BY <2>3, <2>4, <2>5
  <2> QED BY <2>6
<1>10. Min(H) = Min(S)
  BY <1>2, <1>4, <1>5, <1>9, MinOf
<1> QED BY <1>1, <1>2, <1>3, <1>5, <1>8, <1>10

\* A thread that holds an object by its lock records holds it by the mark word
\* too, in one of the three ways, and the records are what unlock_object needs.
LEMMA InvLockRecords == Inv => LockRecords
<1> SUFFICES ASSUME Inv, NEW t \in Threads, NEW o \in Objects, Held(t, o) # {}
             PROVE  \/ Biasable /\ mark[o] = Biased(t, epoch)
                    \/ /\ mark[o] = StackLock(t, Min(Held(t, o)))
                       /\ records[t][Min(Held(t, o))].hdr = Neutral
                       /\ \A i \in Held(t, o) \ {Min(Held(t, o))} : records[t][i].hdr = <<"null">>
                    \/ has_monitor(mark[o]) /\ owner(mark[o]) = t
  BY DEF LockRecords
<1>1. PICK S : S = Locks(records, Rebiased, t, o)
  OBVIOUS
<1>2. /\ Held(t, o) \subseteq S /\ S \in SUBSET Slots /\ mark[o] # None
      /\ Min(S) = Min(Held(t, o)) /\ Min(S) \in S
  BY <1>1, HeldIs
<1>3. Fit(mark[o], prototype_header, t, S, records[t])
  BY <1>1 DEF Inv, HeapFit
<1>4. \/ ByBias(mark[o], prototype_header, t) \/ ByStackLock(mark[o], t, S, records[t])
      \/ ByMonitor(mark[o], t, S, records[t])
  BY <1>2, <1>3 DEF Fit
<1>5. CASE ByBias(mark[o], prototype_header, t)
  BY <1>5 DEF ByBias, Biasable, epoch
<1>6. CASE ByStackLock(mark[o], t, S, records[t])
  BY <1>2, <1>6 DEF ByStackLock
<1>7. CASE ByMonitor(mark[o], t, S, records[t])
  <2>1. PICK n : mark[o] = Monitor(t, n)
    BY <1>7 DEF ByMonitor
  <2> QED BY <1>2, <2>1 DEF Monitor, has_monitor, owner
<1> QED BY <1>4, <1>5, <1>6, <1>7

\* What the assertions of the locking code say.
LEMMA InvAsserts == Inv => Asserts
<1> SUFFICES ASSUME Inv PROVE Asserts
  OBVIOUS
<1>1. TypeOK
  BY DEF Inv, TypeInv
<1>2. ASSUME NEW t \in Threads
      PROVE  /\ pc[t] \in {"cas", "slow_enter"} => ~has_bias_pattern(mark[obj[t]])
             /\ pc[t] \in {"unbias", "stale"} => mark[obj[t]] = seen[t] \/ ~has_bias_pattern(mark[obj[t]])
  BY DEF Inv, LocalInv
<1>3. ASSUME NEW t \in Threads, pc[t] = "slow_enter"
      PROVE  mark[obj[t]] # StackLock(t, Len(records[t]))
  <2>1. attempt[t] /\ obj[t] \in Objects /\ t \notin Rebiased
    BY <1>3 DEF Inv, LocalInv, Rebiased
  <2>2. records[t] # <<>>
    BY <2>1 DEF Inv, RecordInv
  <2>3. Len(records[t]) \in DOMAIN records[t] /\ Len(records[t]) \in Slots
    BY <2>2, TypesOf, LastOf
  <2>4. ~records[t][Len(records[t])].held
    BY <2>1, <2>3 DEF Inv, RecordInv
  <2>5. Len(records[t]) \notin Locks(records, Rebiased, t, obj[t])
    BY <2>1, <2>4 DEF Locks
  <2>6. Fit(mark[obj[t]], prototype_header, t, Locks(records, Rebiased, t, obj[t]), records[t])
    BY <2>1 DEF Inv, HeapFit
  <2>7. PICK w : w = StackLock(t, Len(records[t]))
    OBVIOUS
  <2>8. has_locker(w) /\ owner(w) = t /\ w[3] = Len(records[t])
    BY <2>3, <2>7, StackLockIs
  <2>9. mark[obj[t]] # w
    BY <2>5, <2>6, <2>8 DEF Fit
  <2> QED BY <2>7, <2>9
<1>4. ASSUME AtSafepoint, Biasable, NEW o \in Locked_biased(Heap)
      PROVE  bias_epoch(mark[o]) = epoch
  <2>1. SafeHeap(mark, records, prototype_header, Rebiased)
    BY <1>4, SafepointHeap
  <2>2. Heap.mark = mark /\ Heap.records = records
    BY DEF Heap
  <2>3. PICK t \in list : monitor_info(Heap, t, o) # {}
    BY <1>4 DEF Locked_biased
  <2>4. t \in Threads /\ o \in Objects /\ has_bias_pattern(mark[o])
    BY <1>4, <2>2, TypesOf DEF Locked_biased
  <2>5. PICK i \in DOMAIN records[t] : records[t][i].obj = o
    BY <2>2, <2>3 DEF monitor_info
  <2>6. Current(mark[o], prototype_header)
    BY <2>1, <2>4, <2>5 DEF SafeHeap, Stacked
  <2> QED BY <2>6 DEF Current, epoch
<1> QED BY <1>1, <1>2, <1>3, <1>4 DEF Asserts

\* What a thread believes to hold, the mark word says it holds, and its lock
\* records are what that way of holding needs to unlock.  So no two threads hold
\* one object, however its bias was taken by biased_locking_enter, moved or
\* revoked by revoke_and_rebias and the VM operations, alone or in bulk, or reset
\* by a collection.
THEOREM LockRecordsCorrect == Spec => []LockRecords
BY InvCorrect, InvLockRecords, PTL

\* The assertions of fast_enter, slow_enter, revoke_and_rebias and
\* bulk_revoke_or_rebias_at_safepoint that Asserts lists hold, and the types.
THEOREM AssertsCorrect == Spec => []Asserts
BY InvCorrect, InvAsserts, PTL

\* No step biases an object whose bias has been revoked, or makes its class
\* biasable again after the bulk revocation.
THEOREM RevokedForGoodCorrect == Spec => RevokedForGood
<1>1. Inv /\ [Next]_vars => [Good]_vars
  BY InvNext
<1>2. [][Good]_vars => RevokedForGood
  <2>1. Good <=> /\ \A o \in Objects : mark[o] # None /\ has_bias_pattern(mark'[o])
                                         => has_bias_pattern(mark[o])
                 /\ enabled /\ Biasable' => Biasable
    BY DEF Good
  <2> QED BY <2>1, PTL DEF RevokedForGood
<1> QED BY InvCorrect, <1>1, <1>2, PTL DEF Spec

\* One thread at a time.
Exclusion ==
  \A t \in Threads, u \in Threads, o \in Objects :
    Held(t, o) # {} /\ Held(u, o) # {} => t = u

\* What it is all for: no two threads hold an object at once, whether by a bias
\* that only the lock records of biased_locking_enter tell of, by a stack lock or
\* by a monitor, and whoever revokes the bias meanwhile.
THEOREM ExclusionCorrect == Spec => []Exclusion
<1>1. LockRecords => Exclusion
  <2> SUFFICES ASSUME LockRecords, NEW t \in Threads, NEW u \in Threads, NEW o \in Objects,
                      Held(t, o) # {}, Held(u, o) # {}
               PROVE  t = u
    BY DEF Exclusion
  <2>1. \A v \in Threads : Held(v, o) # {} =>
          (\E e : mark[o] = Biased(v, e)) \/ (\E i : mark[o] = StackLock(v, i)) \/ mark[o][2] = v
    BY DEF LockRecords, owner
  <2>2. \A v \in Threads : Held(v, o) # {} => mark[o][2] = v
    BY <2>1 DEF Biased, StackLock
  <2> QED BY <2>2
<1> QED BY LockRecordsCorrect, <1>1, PTL
=============================================================================
