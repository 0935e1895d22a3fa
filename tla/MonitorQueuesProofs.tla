------------------------ MODULE MonitorQueuesProofs ------------------------
(***************************************************************************)
(* Proofs about ObjectSynchronizer, third part: the queues of ObjectMonitor *)
(* and the wakeups that go by them, on top of what is shown before of the   *)
(* mark and the owner word.  Hence QueuesAgree, Asserts and NoStranding,    *)
(* for every set of threads, every number of monitors and all programs      *)
(* whose locks and unlocks are paired.                                      *)
(*                                                                          *)
(* QInv relates where a thread is, what its ObjectWaiter says and the lists *)
(* of the monitor; SInv says who is awake, or will be woken, to take a free *)
(* monitor.  Each step inside a monitor has a lemma <step>Does that says    *)
(* what it does to the words, the lists and the nodes, a lemma <step>Calm   *)
(* or <step>Moves that QInv holds after it, and a case in <group>Wakes that *)
(* SInv does.  A step outside the monitor disturbs neither (<step>Away).    *)
(***************************************************************************)
EXTENDS ObjectSynchronizerProofs

-----------------------------------------------------------------------------
(* The steps that move a node *)

\* Every node says what it may say at the place of its thread.
NodesOK(t) == TState(t)' \in States(t)' /\ \A u \in Threads \ {t} : TState(u)' \in States(u)

\* A notifier keeps the lock of the WaitSet and the waiter it has taken.
HandsOK(t) ==
  /\ \A u \in Threads \ {t} : pc[u] \in Handing =>
       /\ WaitLock' = WaitLock
       /\ \A w \in Threads : Hand(u, w) => TState(w)' = TState(w)
  /\ pc'[t] \in Handing => WaitLock' = t
  /\ pc'[t] \in {"notify_set", "notify_link"} =>
       loc'[t].w \in Threads /\ node'[loc'[t].w].TState = "ENTER"
  /\ pc'[t] = "notifyAll_link" => loc'[t].w \in Threads /\ node'[loc'[t].w].TState = "WAIT"
  /\ \A w \in Threads : Hand(t, w)' => Site(w)' \notin Linked
  /\ Site(t)' \in Linked => Site(t) \in Linked \/ \A u \in Threads \ {t} : ~Hand(u, t)

\* Only the owner changes EntryList, and goes on as it finds it.
ExitsOK(t) ==
  /\ Entries' = Entries \/ Owner = t
  /\ pc'[t] \notin {"drain", "epilog", "epilog_drop"}
  /\ pc'[t] = "drained" => Entries' # <<>>

\* The thread that _succ names stays on EntryList, or clears it.
HeirsOK == \A u \in Threads : Succ' = u => OnEntries(u)' \/ pc'[u] \in Naming

\* What a step of t that moves a node has to keep.
LEMMA MovedKeeps ==
  ASSUME Inv, QInv, NEW t \in Threads, Step(t), NodesOK(t), HandsOK(t), ListInv', ExitsOK(t),
         HeirsOK, CalmResp(t), pc'[t] \notin {"inflate_neutral", "inflate_publish"}
  PROVE  QInv'
<1>2. NodeInv'
  <2> SUFFICES ASSUME NEW u \in Threads PROVE TState(u)' \in States(u)'
    BY DEF NodeInv
  <2>1. CASE u = t
    BY <2>1 DEF NodesOK
  <2>2. CASE u # t
    <3>1. States(u)' = States(u) BY <2>2, SiteSame
    <3> QED BY <3>1, <2>2 DEF NodesOK
  <2> QED BY <2>1, <2>2
<1>3. HandInv'
  <2> SUFFICES ASSUME NEW u \in Threads
               PROVE  /\ pc'[u] \in Handing => WaitLock' = u
                      /\ (pc'[u] \in {"notify_set", "notify_link"} =>
                            loc'[u].w \in Threads /\ node'[loc'[u].w].TState = "ENTER")
                      /\ (pc'[u] = "notifyAll_link" =>
                            loc'[u].w \in Threads /\ node'[loc'[u].w].TState = "WAIT")
    BY DEF HandInv, Handing, TState
  <2>1. CASE u = t
    BY <2>1 DEF HandsOK
  <2>2. CASE u # t
    <3>1. pc'[u] = pc[u] /\ loc'[u] = loc[u] BY <2>2, SiteSame
    <3>2. pc[u] \in Handing => WaitLock' = u
      BY <2>2 DEF HandsOK, QInv, HandInv, Handing
    <3>3. pc[u] \in Handing \ {"notifyAll_dequeue"} /\ loc[u].w \in Threads =>
            node'[loc[u].w].TState = node[loc[u].w].TState
      BY <2>2 DEF HandsOK, TState, Hand, Handing
    <3> QED BY <3>1, <3>2, <3>3 DEF QInv, HandInv, Handing, TState
  <2> QED BY <2>1, <2>2
<1>4. FarInv'
  <2> SUFFICES ASSUME NEW u \in Threads, NEW w \in Threads, Hand(u, w)' PROVE Site(w)' \notin Linked
    BY DEF FarInv
  <2>1. CASE u = t
    BY <2>1 DEF HandsOK
  <2>2. CASE u # t
    <3>1. Hand(u, w) BY <2>2, SiteSame
    <3>2. CASE w = t
      BY <2>2, <3>1, <3>2 DEF HandsOK, QInv, FarInv
    <3>3. CASE w # t
      <4>1. Site(w)' = Site(w) BY <3>3, SiteSame
      <4> QED BY <3>1, <4>1 DEF QInv, FarInv
    <3> QED BY <3>2, <3>3
  <2> QED BY <2>1, <2>2
<1>5. ExitInv'
  <2> SUFFICES ASSUME NEW u \in Threads
               PROVE  /\ pc'[u] = "drain" => Entries' = <<>>
                      /\ (pc'[u] = "drained" => Entries' # <<>>)
                      /\ (pc'[u] \in {"epilog", "epilog_drop"} => loc'[u].w \in Members(Entries'))
    BY DEF ExitInv, Members
  <2>1. CASE u = t
    BY <2>1 DEF ExitsOK
  <2>2. CASE u # t
    <3>1. pc'[u] = pc[u] /\ loc'[u] = loc[u] BY <2>2, SiteSame
    <3>2. pc[u] \in {"drain", "drained", "epilog", "epilog_drop"} => Owner = u
      BY OwnerAt DEF Exiting, Last_exit
    <3>3. pc[u] \in {"drain", "drained", "epilog", "epilog_drop"} => Entries' = Entries
      BY <3>2, <2>2 DEF ExitsOK
    <3> QED BY <3>1, <3>3 DEF QInv, ExitInv
  <2> QED BY <2>1, <2>2
<1>6. SuccInv'
  BY DEF SuccInv, HeirsOK
<1>7. RespInv'
  <2> SUFFICES ASSUME NEW u \in Threads, Resp' = u
               PROVE  Site(u)' \in Linked \cup {"entered"} /\ pc'[u] # "park"
    BY DEF RespInv
  <2>1. CASE u = t
    BY <2>1 DEF CalmResp
  <2>2. CASE u # t
    <3>1. pc'[u] = pc[u] /\ Site(u)' = Site(u) BY <2>2, SiteSame
    <3> QED BY <3>1, <2>2 DEF CalmResp, QInv, RespInv, Step
  <2> QED BY <2>1, <2>2
<1>8. FreshInv' /\ ObjectInv'
  BY StepFresh DEF QInv
<1> QED BY <1>2, <1>3, <1>4, <1>5, <1>6, <1>7, <1>8 DEF QInv

\* The heirs of a step that changes _succ in no way.
LEMMA HeirsSame ==
  ASSUME QInv, NEW t \in Threads, Step(t), Succ' = Succ,
         \A u \in Threads : OnEntries(u) => u = t \/ OnEntries(u)',
         Succ = t => OnEntries(t)' \/ pc'[t] \in Naming
  PROVE  HeirsOK
<1> SUFFICES ASSUME NEW u \in Threads, Succ = u PROVE OnEntries(u)' \/ pc'[u] \in Naming
  BY DEF HeirsOK
<1>1. CASE u = t
  BY <1>1
<1>2. CASE u # t
  <2>1. pc'[u] = pc[u] BY <1>2, SiteSame
  <2> QED BY <1>2, <2>1 DEF QInv, SuccInv, Step
<1> QED BY <1>1, <1>2

\* The members of the lists, and the lists, before the step.
LEMMA Before ==
  ASSUME Inv, QInv, Heavy
  PROVE  /\ Cxq \in Seq(NT) /\ Entries \in Seq(NT) /\ Waits \in Seq(NT)
         /\ ListOf(Cxq, {u \in Threads : OnCxq(u)}) /\ ListOf(Entries, {u \in Threads : OnEntries(u)})
         /\ ListOf(Waits, {u \in Threads : OnWaits(u)})
BY WordTypes DEF QInv, ListInv

\* A notifier that moves a waiter has the lock of the WaitSet, and the monitor.
LEMMA OneNotifier ==
  ASSUME Inv, QInv, NEW t \in Threads, Owner = t \/ WaitLock \in {None, t}
  PROVE  /\ \A u \in Threads \ {t} : pc[u] \notin Handing
         /\ \A w : Carried(w) <=> Hand(t, w)
<1>1. ASSUME NEW u \in Threads \ {t}, pc[u] \in Handing PROVE FALSE
  <2>1. Owner = u
    BY <1>1, OwnerAt DEF Handing, Owned
  <2>2. WaitLock = u /\ None \notin Threads
    BY <1>1, ThreadsAssumption DEF QInv, HandInv, Handing
  <2> QED BY <2>1, <2>2
<1>2. \A u \in Threads \ {t} : pc[u] \notin Handing
  BY <1>1
<1> QED BY <1>2 DEF Carried, Hand, Handing

\* Nobody is carried after a step of the only notifier, but by it.
LEMMA OneNotifierNext ==
  ASSUME NEW t \in Threads, Step(t), \A u \in Threads \ {t} : pc[u] \notin Handing
  PROVE  \A w : Carried(w)' <=> Hand(t, w)'
<1>1. ASSUME NEW u \in Threads \ {t}, NEW w PROVE ~Hand(u, w)'
  <2>1. pc'[u] = pc[u] BY SiteSame
  <2> QED BY <2>1 DEF Hand, Handing
<1> QED BY <1>1 DEF Carried

\* A node that a waiter leaves on WaitSet, or on EntryList, may be moved.
LEMMA MayMove ==
  ASSUME NEW t \in Threads
  PROVE  /\ "ENTER" \in States(t) => "CXQ" \in States(t) /\ Site(t) \notin {"push", "entered"}
         /\ "WAIT" \in States(t) /\ Site(t) # "wait_add" =>
              {"CXQ", "ENTER"} \subseteq States(t) /\ Site(t) \notin {"push", "entered"}
         /\ "CXQ" \in States(t) /\ Site(t) \notin {"push", "entered"} => "ENTER" \in States(t)
BY DEF States, Linked, Relinked, Asleep, Exiting, Last_exit, Released

\* The lists stay as they are.
LEMMA ListsKept ==
  ASSUME Inv, QInv, Heavy, Cxq' = Cxq, Entries' = Entries, Waits' = Waits,
         \A u \in Threads : /\ (OnCxq(u)' <=> OnCxq(u)) /\ (OnEntries(u)' <=> OnEntries(u))
                            /\ (OnWaits(u)' <=> OnWaits(u))
  PROVE  ListInv'
<1> DEFINE C == {u \in Threads : OnCxq(u)}
           E == {u \in Threads : OnEntries(u)}
           W == {u \in Threads : OnWaits(u)}
<1>1. ListOf(Cxq', C) /\ ListOf(Entries', E) /\ ListOf(Waits', W)
  BY Before
<1>2. \A u \in Threads : /\ (OnCxq(u)' <=> u \in C) /\ (OnEntries(u)' <=> u \in E)
                         /\ (OnWaits(u)' <=> u \in W)
  OBVIOUS
<1>3. C \subseteq Threads /\ E \subseteq Threads /\ W \subseteq Threads
  OBVIOUS
<1> HIDE DEF C, E, W
<1> QED BY <1>1, <1>2, <1>3, ListsAre

\* So they do when no list is written.
LEMMA ListsSame ==
  ASSUME Inv, QInv, Heavy, SameLists,
         \A u \in Threads : /\ (OnCxq(u)' <=> OnCxq(u)) /\ (OnEntries(u)' <=> OnEntries(u))
                            /\ (OnWaits(u)' <=> OnWaits(u))
  PROVE  ListInv'
BY ListsKept DEF SameLists

\* The node is set up.
LEMMA EnqueueMoves ==
  ASSUME Inv, QInv, NEW t \in Threads, Enqueue(t), UNCHANGED objectVars
  PROVE  QInv'
<1>1. /\ Step(t) /\ pc[t] = "enqueue" /\ SameWords /\ SameLists /\ pc'[t] = "push" /\ Heavy
      /\ TState(t)' = "CXQ" /\ (\A u \in Threads \ {t} : TState(u)' = TState(u))
  BY EnqueueDoes DEF NodesBut, TState, Step
<1>2. pc[t] \notin Outside
  BY <1>1 DEF Outside
<1>3. Site(t) = "enqueue" /\ Site(t)' = "push" /\ States(t) = {"RUN"} /\ States(t)' = {"CXQ"}
  <2>1. Site(t) = "enqueue" /\ Site(t)' = "push"
    BY <1>1 DEF Site, Where, Spinning, Inflation, Preparing
  <2> QED BY <2>1 DEF States, Linked, Relinked, Asleep, Exiting, Last_exit, Released
<1>4. TState(t) = "RUN" /\ \A u \in Threads : ~Hand(t, u) /\ ~Hand(t, u)'
  BY <1>1, <1>3 DEF QInv, NodeInv, Hand
<1>5. NodesOK(t)
  BY <1>1, <1>3 DEF NodesOK, QInv, NodeInv
<1>6. HandsOK(t)
  <2>1. ASSUME NEW u \in Threads, Hand(u, t) PROVE FALSE
    BY <2>1, <1>4 DEF QInv, HandInv, Hand
  <2> QED BY <2>1, <1>1, <1>4 DEF HandsOK, Handing, SameLists
<1>7. \A u \in Threads : /\ (OnCxq(u)' <=> OnCxq(u)) /\ (OnEntries(u)' <=> OnEntries(u))
                         /\ (OnWaits(u)' <=> OnWaits(u))
  <2>1. ~OnCxq(t) /\ ~OnEntries(t) /\ ~OnWaits(t) /\ ~OnCxq(t)' /\ ~OnEntries(t)' /\ ~OnWaits(t)'
    BY <1>1, <1>3, <1>4 DEF OnCxq, OnEntries, OnWaits
  <2> QED BY <2>1, <1>1, <1>4, OthersOn
<1>8. ListInv'
  BY <1>1, <1>7, Before, ListsSame
<1>9. ExitsOK(t)
  BY <1>1 DEF ExitsOK, SameLists
<1>10. HeirsOK
  <2>1. Succ # t
    BY <1>1, <1>2, <1>4, Here DEF Naming
  <2> QED BY <2>1, <1>1, <1>7, HeirsSame DEF SameWords
<1>11. CalmResp(t)
  BY <1>1, <1>2, <1>3, Here DEF CalmResp, SameWords, Linked
<1> QED
  BY <1>1, <1>5, <1>6, <1>8, <1>9, <1>10, <1>11, MovedKeeps

\* The node is pushed on cxq.
LEMMA PushMoves ==
  ASSUME Inv, QInv, NEW t \in Threads, Push(t), UNCHANGED objectVars
  PROVE  QInv'
<1>1. /\ Step(t) /\ pc[t] = "push" /\ SameWords /\ pc'[t] \in {"responsible", "contend"} /\ Heavy
      /\ Cxq' = <<t>> \o Cxq /\ Entries' = Entries /\ Waits' = Waits /\ WaitLock' = WaitLock
      /\ (\A u \in Threads : TState(u)' = TState(u)) /\ loc'[t] = loc[t]
  BY PushDoes DEF TState, Step
<1>2. pc[t] \notin Outside
  BY <1>1 DEF Outside
<1>3. Site(t) = "push" /\ Site(t)' \in {"responsible", "contend"} /\ States(t) = {"CXQ"}
      /\ States(t)' = {"CXQ", "ENTER"}
  <2>1. Site(t) = "push" /\ Site(t)' \in {"responsible", "contend"}
    BY <1>1 DEF Site, Where, Spinning, Inflation, Preparing
  <2> QED BY <2>1 DEF States, Linked, Relinked
<1>4. TState(t) = "CXQ" /\ \A u \in Threads : ~Hand(t, u) /\ ~Hand(t, u)'
  BY <1>1, <1>3 DEF QInv, NodeInv, Hand
<1>5. NodesOK(t)
  BY <1>1, <1>3, <1>4 DEF NodesOK, QInv, NodeInv
<1>6. HandsOK(t)
  <2>1. ASSUME NEW u \in Threads, Hand(u, t) PROVE FALSE
    BY <2>1, <1>4 DEF QInv, HandInv, Hand
  <2> QED BY <2>1, <1>1, <1>4 DEF HandsOK, Handing
<1>7. /\ ~OnCxq(t) /\ OnCxq(t)' /\ (OnEntries(t)' <=> OnEntries(t)) /\ (OnWaits(t)' <=> OnWaits(t))
      /\ \A u \in Threads \ {t} : /\ (OnCxq(u)' <=> OnCxq(u)) /\ (OnEntries(u)' <=> OnEntries(u))
                                  /\ (OnWaits(u)' <=> OnWaits(u))
  <2>1. ~OnCxq(t) /\ ~OnEntries(t) /\ ~OnWaits(t) /\ OnCxq(t)' /\ ~OnEntries(t)' /\ ~OnWaits(t)'
    BY <1>1, <1>3, <1>4 DEF OnCxq, OnEntries, OnWaits
  <2> QED BY <2>1, <1>1, <1>4, OthersOn
<1>8. ListInv'
  <2> DEFINE C == {u \in Threads : OnCxq(u)}
             E == {u \in Threads : OnEntries(u)}
             W == {u \in Threads : OnWaits(u)}
  <2>1. ListOf(Entries', E) /\ ListOf(Waits', W) /\ ListOf(Cxq, C) /\ Cxq \in Seq(NT) /\ t \in NT
        /\ t \notin C
    BY <1>1, <1>7, Before DEF NT
  <2>2. \A u \in Threads : /\ (OnCxq(u)' <=> u \in C \cup {t}) /\ (OnEntries(u)' <=> u \in E)
                           /\ (OnWaits(u)' <=> u \in W)
    BY <1>7
  <2>3. C \cup {t} \subseteq Threads /\ E \subseteq Threads /\ W \subseteq Threads
    OBVIOUS
  <2> HIDE DEF C, E, W
  <2>4. ListOf(Cxq', C \cup {t})
    BY <1>1, <2>1, PushList
  <2> QED BY <2>1, <2>2, <2>3, <2>4, ListsAre
<1>9. ExitsOK(t)
  BY <1>1 DEF ExitsOK
<1>10. HeirsOK
  <2>1. Succ # t
    BY <1>1, <1>2, <1>4, Here DEF Naming
  <2> QED BY <2>1, <1>1, <1>7, HeirsSame DEF SameWords
<1>11. CalmResp(t)
  BY <1>1, <1>3 DEF CalmResp, SameWords, Linked
<1> QED
  BY <1>1, <1>5, <1>6, <1>8, <1>9, <1>10, <1>11, MovedKeeps

\* The new owner unlinks its node.
LEMMA UnlinkMoves ==
  ASSUME Inv, QInv, NEW t \in Threads, Step(t), Owner = t, SameWords, Waits' = Waits,
         NodeIs(t, "RUN"), TState(t) \in {"CXQ", "ENTER"}, Site(t) \notin {"push", "entered"},
         Site(t)' \in {"entered", "wait_reentered"}, pc[t] \notin Handing,
         pc'[t] \in {"clearing", "entered", "wait_reentered"}, Succ = t => pc'[t] = "clearing",
         Resp = t => Site(t)' = "entered",
         \/ TState(t) = "ENTER" /\ Cxq' = Cxq /\ Entries' = Without(Entries, t)
         \/ TState(t) # "ENTER" /\ Cxq' = Without(Cxq, t) /\ Entries' = Entries
  PROVE  QInv'
<1>1. Heavy /\ \A u \in Threads \ {t} : TState(u)' = TState(u)
  BY DEF NodeIs, TState, Step
<1>2. TState(t)' = "RUN" /\ "RUN" \in States(t)'
  <2>1. TState(t)' = "RUN" BY DEF NodeIs, TState
  <2> QED BY <2>1 DEF States, Linked, Relinked, Asleep, Exiting, Last_exit, Released
<1>3. \A u \in Threads \ {t} : pc[u] \notin Handing
  BY OneNotifier
<1>4. \A u \in Threads : ~Hand(t, u) /\ ~Hand(t, u)' /\ ~Carried(u)
  BY OneNotifier DEF Hand, Handing
<1>5. NodesOK(t)
  BY <1>1, <1>2 DEF NodesOK, QInv, NodeInv
<1>6. HandsOK(t)
  BY <1>3, <1>4 DEF HandsOK, Handing, Hand
<1>7. /\ ~OnCxq(t)' /\ ~OnEntries(t)' /\ ~OnWaits(t)' /\ ~OnWaits(t)
      /\ (OnCxq(t) <=> TState(t) # "ENTER") /\ (OnEntries(t) <=> TState(t) = "ENTER")
      /\ \A u \in Threads \ {t} : /\ (OnCxq(u)' <=> OnCxq(u)) /\ (OnEntries(u)' <=> OnEntries(u))
                                  /\ (OnWaits(u)' <=> OnWaits(u))
  <2>1. ~OnCxq(t)' /\ ~OnEntries(t)' /\ ~OnWaits(t)' /\ ~OnWaits(t)
        /\ (OnCxq(t) <=> TState(t) # "ENTER") /\ (OnEntries(t) <=> TState(t) = "ENTER")
    BY <1>2, <1>4 DEF OnCxq, OnEntries, OnWaits
  <2> QED BY <2>1, <1>1, <1>4, OthersOn
<1>8. ListInv'
  <2> DEFINE C == {u \in Threads : OnCxq(u)}
             E == {u \in Threads : OnEntries(u)}
             W == {u \in Threads : OnWaits(u)}
  <2>1. ListOf(Waits', W) /\ ListOf(Cxq, C) /\ ListOf(Entries, E) /\ Cxq \in Seq(NT)
        /\ Entries \in Seq(NT)
    BY <1>1, Before
  <2>2. \A u \in Threads : /\ (OnCxq(u)' <=> u \in C \ {t}) /\ (OnEntries(u)' <=> u \in E \ {t})
                           /\ (OnWaits(u)' <=> u \in W)
    BY <1>7
  <2>3. C \ {t} \subseteq Threads /\ E \ {t} \subseteq Threads /\ W \subseteq Threads
        /\ (t \in C <=> TState(t) # "ENTER") /\ (t \in E <=> TState(t) = "ENTER")
    BY <1>7
  <2> HIDE DEF C, E, W
  <2>4. ListOf(Cxq', C \ {t}) /\ ListOf(Entries', E \ {t})
    <3>1. CASE TState(t) = "ENTER"
      <4>1. C \ {t} = C BY <3>1, <2>3
      <4>2. t \in E BY <3>1, <2>3
      <4>3. ListOf(Without(Entries, t), E \ {t}) BY <4>2, <2>1, WithoutList
      <4>4. Cxq' = Cxq /\ Entries' = Without(Entries, t) BY <3>1
      <4> QED BY <4>1, <4>3, <4>4, <2>1
    <3>2. CASE TState(t) # "ENTER"
      <4>1. E \ {t} = E BY <3>2, <2>3
      <4>2. t \in C BY <3>2, <2>3
      <4>3. ListOf(Without(Cxq, t), C \ {t}) BY <4>2, <2>1, WithoutList
      <4>4. Entries' = Entries /\ Cxq' = Without(Cxq, t) BY <3>2
      <4> QED BY <4>1, <4>3, <4>4, <2>1
    <3> QED BY <3>1, <3>2
  <2> QED BY <2>1, <2>2, <2>3, <2>4, ListsAre
<1>9. ExitsOK(t)
  BY DEF ExitsOK
<1>10. HeirsOK
  BY <1>7, HeirsSame DEF SameWords, Naming
<1>11. CalmResp(t)
  BY DEF CalmResp, SameWords
<1> QED
  BY <1>5, <1>6, <1>8, <1>9, <1>10, <1>11, MovedKeeps

\* UnlinkAfterAcquire of EnterI.
LEMMA EgressMoves ==
  ASSUME Inv, QInv, NEW t \in Threads, Egress(t), UNCHANGED objectVars
  PROVE  QInv'
<1>1. pc[t] = "egress" /\ pc[t] \notin Outside /\ pc[t] \notin Handing
  BY EgressDoes DEF Outside, Handing
<1>2. Owner = t
  BY <1>1, OwnerAt DEF Entering
<1>3. Site(t) = "egress" /\ Site(t)' = "entered"
  BY <1>1, EgressDoes DEF Site, Where, Spinning, Inflation, Preparing
<1>4. TState(t) \in {"CXQ", "ENTER"}
  BY <1>3 DEF QInv, NodeInv, States, Linked
<1> QED
  BY <1>1, <1>2, <1>3, <1>4, EgressDoes, UnlinkMoves DEF TState

\* UnlinkAfterAcquire of ReenterI.
LEMMA Reenter_egressMoves ==
  ASSUME Inv, QInv, NEW t \in Threads, Reenter_egress(t), UNCHANGED objectVars
  PROVE  QInv'
<1>1. pc[t] = "reegress" /\ pc[t] \notin Outside /\ pc[t] \notin Handing
  BY Reenter_egressDoes DEF Outside, Handing
<1>2. Owner = t
  BY <1>1, OwnerAt DEF Reentered
<1>3. Site(t) = "reegress" /\ Site(t)' = "wait_reentered"
  BY <1>1, Reenter_egressDoes DEF Site, Where, Spinning, Inflation, Preparing
<1>4. TState(t) \in {"CXQ", "ENTER"}
  BY <1>3 DEF QInv, NodeInv, States, Relinked
<1>5. Resp # t
  BY <1>1, <1>3, Here DEF Linked
<1> QED
  BY <1>1, <1>2, <1>3, <1>4, <1>5, Reenter_egressDoes, UnlinkMoves DEF TState

\* The end of EnterI.
LEMMA EnteredMoves ==
  ASSUME Inv, QInv, NEW t \in Threads, Entered(t), UNCHANGED objectVars
  PROVE  QInv'
<1>1. /\ Step(t) /\ pc[t] = "entered" /\ Succ' = Succ /\ Resp' = (IF Resp = t THEN None ELSE Resp)
      /\ SameLists /\ pc'[t] = EnterReturn(t) /\ Heavy
      /\ TState(t)' = "RUN" /\ (\A u \in Threads \ {t} : TState(u)' = TState(u))
  BY EnteredDoes DEF NodeIs, TState, Step
<1>2. pc[t] \notin Outside /\ pc'[t] \in {"java", "wait_reentered"}
  BY <1>1 DEF Outside, EnterReturn
<1>3. Site(t) = "entered" /\ Site(t)' \in {"java", "wait_reentered"}
  BY <1>1, <1>2 DEF Site, Where, Spinning, Inflation, Preparing
<1>4. States(t) = {"RUN", "CXQ"} /\ States(t)' = {"RUN"}
  BY <1>3 DEF States, Linked, Relinked, Asleep, Exiting, Last_exit, Released
<1>5. Owner = t
  BY <1>1, OwnerAt DEF Entering
<1>6. TState(t) \in {"RUN", "CXQ"} /\ \A u \in Threads : ~Hand(t, u) /\ ~Hand(t, u)'
  BY <1>1, <1>2, <1>4 DEF QInv, NodeInv, Hand
<1>7. \A u \in Threads : /\ (OnCxq(u)' <=> OnCxq(u)) /\ (OnEntries(u)' <=> OnEntries(u))
                         /\ (OnWaits(u)' <=> OnWaits(u))
  <2>1. ~OnCxq(t) /\ ~OnEntries(t) /\ ~OnWaits(t) /\ ~OnCxq(t)' /\ ~OnEntries(t)' /\ ~OnWaits(t)'
    BY <1>1, <1>3, <1>6 DEF OnCxq, OnEntries, OnWaits
  <2> QED BY <2>1, <1>1, <1>6, OthersOn
<1>8. NodesOK(t)
  BY <1>1, <1>4 DEF NodesOK, QInv, NodeInv
<1>9. HandsOK(t)
  BY <1>2, <1>5, <1>6, OneNotifier DEF HandsOK, Handing, Hand
<1>10. ListInv'
  BY <1>1, <1>7, ListsSame
<1>11. ExitsOK(t)
  BY <1>2, <1>5 DEF ExitsOK
<1>12. HeirsOK
  <2>1. Succ # t
    BY <1>1, <1>2, <1>6, Here DEF Naming
  <2> QED BY <2>1, <1>1, <1>7, HeirsSame
<1>13. CalmResp(t)
  BY <1>1, ThreadsAssumption DEF CalmResp
<1> QED
  BY <1>1, <1>2, <1>8, <1>9, <1>10, <1>11, <1>12, <1>13, MovedKeeps

\* cxq is drained.
LEMMA DrainMoves ==
  ASSUME Inv, QInv, NEW t \in Threads, Drain(t), UNCHANGED objectVars
  PROVE  QInv'
<1>1. /\ Step(t) /\ pc[t] = "drain" /\ Cxq # <<>> /\ SameWords /\ pc'[t] = "drained" /\ Heavy
      /\ Cxq' = <<>> /\ Entries' = Cxq /\ Waits' = Waits /\ WaitLock' = WaitLock
      /\ loc'[t] = loc[t]
      /\ (\A u \in Threads : TState(u)' = (IF u \in Members(Cxq) THEN "ENTER" ELSE TState(u)))
  BY DrainDoes DEF NodesDrained, TState, Step
<1>2. pc[t] \notin Outside /\ Entries = <<>>
  BY <1>1 DEF Outside, QInv, ExitInv
<1>3. Site(t) = "drain" /\ Site(t)' = "drained" /\ States(t)' = States(t)
  <2>1. Site(t) = "drain" /\ Site(t)' = "drained"
    BY <1>1 DEF Site, Where, Spinning, Inflation, Preparing
  <2> QED BY <2>1, <1>1 DEF States, Linked, Relinked, Asleep, Exiting, Last_exit
<1>4. Owner = t
  BY <1>1, OwnerAt DEF Exiting, Last_exit
<1>5. \A u \in Threads : ~Hand(t, u) /\ ~Hand(t, u)' /\ ~Carried(u) /\ ~Carried(u)'
  <2>1. \A u \in Threads \ {t} : pc[u] \notin Handing
    BY <1>4, OneNotifier
  <2>2. \A u \in Threads : ~Hand(t, u) /\ ~Hand(t, u)'
    BY <1>1 DEF Hand
  <2> QED BY <2>1, <2>2, <1>1, <1>4, OneNotifier, OneNotifierNext
<1>6. \A u \in Threads : u \in Members(Cxq) <=> OnCxq(u)
  BY <1>1, Before DEF ListOf
<1>7. \A u \in Threads : ~OnEntries(u)
  BY <1>1, <1>2, Before, NoList
<1>8. ASSUME NEW u \in Threads
      PROVE  /\ ~OnCxq(u)' /\ (OnEntries(u)' <=> OnCxq(u)) /\ (OnWaits(u)' <=> OnWaits(u))
             /\ TState(u)' \in States(u)
  <2>1. Site(u)' = Site(u) \/ (u = t /\ Site(u) = "drain" /\ Site(u)' = "drained")
    BY <1>1, <1>3, SiteSame
  <2>2. TState(u) \in States(u)
    BY DEF QInv, NodeInv
  <2>3. TState(u)' \in States(u)
    BY <2>2, <1>1, <1>6, MayMove DEF OnCxq
  <2> QED BY <2>1, <2>3, <1>1, <1>5, <1>6, <1>7 DEF OnCxq, OnEntries, OnWaits
<1>9. NodesOK(t)
  BY <1>3, <1>8 DEF NodesOK
<1>10. HandsOK(t)
  BY <1>1, <1>4, <1>5, OneNotifier DEF HandsOK, Handing, Hand
<1>11. ListInv'
  <2> DEFINE C == {u \in Threads : OnCxq(u)}
             W == {u \in Threads : OnWaits(u)}
  <2>1. ListOf(Entries', C) /\ ListOf(Waits', W)
    BY <1>1, Before
  <2>2. \A u \in Threads : /\ (OnCxq(u)' <=> u \in {}) /\ (OnEntries(u)' <=> u \in C)
                           /\ (OnWaits(u)' <=> u \in W)
    BY <1>8
  <2>3. {} \subseteq Threads /\ C \subseteq Threads /\ W \subseteq Threads
    OBVIOUS
  <2>4. ListOf(Cxq', {})
    BY <1>1, NoList
  <2> HIDE DEF C, W
  <2> QED BY <2>1, <2>2, <2>3, <2>4, ListsAre
<1>12. ExitsOK(t)
  BY <1>1, <1>4 DEF ExitsOK
<1>13. HeirsOK
  <2>1. Succ # t
    BY <1>1, <1>2, <1>7, Here DEF Naming
  <2> QED BY <2>1, <1>1, <1>7, HeirsSame DEF SameWords
<1>14. CalmResp(t)
  BY <1>1, <1>2, <1>3, Here DEF CalmResp, SameWords, Linked
<1> QED
  BY <1>1, <1>9, <1>10, <1>11, <1>12, <1>13, <1>14, MovedKeeps

\* wait() sets its node up.
LEMMA Wait_nodeMoves ==
  ASSUME Inv, QInv, NEW t \in Threads, Wait_node(t), UNCHANGED objectVars
  PROVE  QInv'
<1>1. /\ Step(t) /\ pc[t] = "wait" /\ SameWords /\ SameLists /\ pc'[t] = "wait_add" /\ Heavy
      /\ TState(t)' = "WAIT" /\ (\A u \in Threads \ {t} : TState(u)' = TState(u))
  BY Wait_nodeDoes DEF NodesBut, TState, Step
<1>2. pc[t] \notin Outside
  BY <1>1 DEF Outside
<1>3. Site(t) = "wait" /\ Site(t)' = "wait_add" /\ States(t) = {"RUN"} /\ States(t)' = {"WAIT"}
  <2>1. Site(t) = "wait" /\ Site(t)' = "wait_add"
    BY <1>1 DEF Site, Where, Spinning, Inflation, Preparing
  <2> QED BY <2>1 DEF States, Linked, Relinked, Asleep, Exiting, Last_exit, Released
<1>4. TState(t) = "RUN" /\ \A u \in Threads : ~Hand(t, u) /\ ~Hand(t, u)'
  BY <1>1, <1>3 DEF QInv, NodeInv, Hand
<1>5. NodesOK(t)
  BY <1>1, <1>3 DEF NodesOK, QInv, NodeInv
<1>6. HandsOK(t)
  <2>1. ASSUME NEW u \in Threads, Hand(u, t) PROVE FALSE
    BY <2>1, <1>4 DEF QInv, HandInv, Hand
  <2> QED BY <2>1, <1>1, <1>4 DEF HandsOK, Handing, SameLists
<1>7. \A u \in Threads : /\ (OnCxq(u)' <=> OnCxq(u)) /\ (OnEntries(u)' <=> OnEntries(u))
                         /\ (OnWaits(u)' <=> OnWaits(u))
  <2>1. ~OnCxq(t) /\ ~OnEntries(t) /\ ~OnWaits(t) /\ ~OnCxq(t)' /\ ~OnEntries(t)' /\ ~OnWaits(t)'
    BY <1>1, <1>3, <1>4 DEF OnCxq, OnEntries, OnWaits
  <2> QED BY <2>1, <1>1, <1>4, OthersOn
<1>8. ListInv'
  BY <1>1, <1>7, ListsSame
<1>9. ExitsOK(t)
  BY <1>1 DEF ExitsOK, SameLists
<1>10. HeirsOK
  <2>1. Succ # t
    BY <1>1, <1>2, <1>4, Here DEF Naming
  <2> QED BY <2>1, <1>1, <1>7, HeirsSame DEF SameWords
<1>11. CalmResp(t)
  BY <1>1, <1>2, <1>3, Here DEF CalmResp, SameWords, Linked
<1> QED
  BY <1>1, <1>5, <1>6, <1>8, <1>9, <1>10, <1>11, MovedKeeps

\* AddWaiter.
LEMMA Wait_addMoves ==
  ASSUME Inv, QInv, NEW t \in Threads, Wait_add(t), UNCHANGED objectVars
  PROVE  QInv'
<1>1. /\ Step(t) /\ pc[t] = "wait_add" /\ Succ' = Succ /\ Resp' = None /\ pc'[t] = "exit" /\ Heavy
      /\ Cxq' = Cxq /\ Entries' = Entries /\ Waits' = Append(Waits, t) /\ WaitLock' = WaitLock
      /\ loc'[t].inwait /\ (\A u \in Threads : TState(u)' = TState(u))
  BY Wait_addDoes DEF TState, Step
<1>2. pc[t] \notin Outside
  BY <1>1 DEF Outside
<1>3. Site(t) = "wait_add" /\ Site(t)' = "exit" /\ States(t) = {"WAIT"}
      /\ States(t)' = {"WAIT", "CXQ", "ENTER"}
  <2>1. Site(t) = "wait_add" /\ Site(t)' = "exit"
    BY <1>1 DEF Site, Where, Spinning, Inflation, Preparing
  <2> QED BY <2>1, <1>1 DEF States, Linked, Relinked, Asleep, Exiting, Last_exit, Released
<1>4. TState(t) = "WAIT"
  BY <1>3 DEF QInv, NodeInv
<1>5. Owner = t
  BY <1>1, OwnerAt DEF Owned
<1>6. \A u \in Threads : ~Hand(t, u) /\ ~Hand(t, u)' /\ ~Carried(u) /\ ~Carried(u)'
  <2>1. \A u \in Threads \ {t} : pc[u] \notin Handing
    BY <1>5, OneNotifier
  <2>2. \A u \in Threads : ~Hand(t, u) /\ ~Hand(t, u)'
    BY <1>1 DEF Hand
  <2> QED BY <2>1, <2>2, <1>1, <1>5, OneNotifier, OneNotifierNext
<1>7. /\ ~OnWaits(t) /\ OnWaits(t)' /\ (OnEntries(t)' <=> OnEntries(t)) /\ (OnCxq(t)' <=> OnCxq(t))
      /\ \A u \in Threads \ {t} : /\ (OnCxq(u)' <=> OnCxq(u)) /\ (OnEntries(u)' <=> OnEntries(u))
                                  /\ (OnWaits(u)' <=> OnWaits(u))
  <2>1. ~OnCxq(t) /\ ~OnEntries(t) /\ ~OnWaits(t) /\ ~OnCxq(t)' /\ ~OnEntries(t)' /\ OnWaits(t)'
    BY <1>1, <1>3, <1>4, <1>6 DEF OnCxq, OnEntries, OnWaits
  <2> QED BY <2>1, <1>1, <1>6, OthersOn
<1>8. ListInv'
  <2> DEFINE C == {u \in Threads : OnCxq(u)}
             E == {u \in Threads : OnEntries(u)}
             W == {u \in Threads : OnWaits(u)}
  <2>1. ListOf(Entries', E) /\ ListOf(Cxq', C) /\ ListOf(Waits, W) /\ Waits \in Seq(NT) /\ t \in NT
        /\ t \notin W
    BY <1>1, <1>7, Before DEF NT
  <2>2. \A u \in Threads : /\ (OnCxq(u)' <=> u \in C) /\ (OnEntries(u)' <=> u \in E)
                           /\ (OnWaits(u)' <=> u \in W \cup {t})
    BY <1>7
  <2>3. W \cup {t} \subseteq Threads /\ E \subseteq Threads /\ C \subseteq Threads
    OBVIOUS
  <2> HIDE DEF C, E, W
  <2>4. ListOf(Waits', W \cup {t})
    BY <1>1, <2>1, AppendList
  <2> QED BY <2>1, <2>2, <2>3, <2>4, ListsAre
<1>9. NodesOK(t)
  BY <1>1, <1>3, <1>4 DEF NodesOK, QInv, NodeInv
<1>10. HandsOK(t)
  BY <1>1, <1>6 DEF HandsOK, Handing, Carried
<1>11. ExitsOK(t)
  BY <1>1 DEF ExitsOK
<1>12. HeirsOK
  <2>1. Succ # t
    BY <1>1, <1>2, <1>4, Here DEF Naming
  <2> QED BY <2>1, <1>1, <1>7, HeirsSame
<1>13. CalmResp(t)
  BY <1>1, ThreadsAssumption DEF CalmResp
<1> QED
  BY <1>1, <1>9, <1>10, <1>8, <1>11, <1>12, <1>13, MovedKeeps

\* wait() unlinks its node, unless a notifier has.
LEMMA Wait_unlinkMoves ==
  ASSUME Inv, QInv, NEW t \in Threads, Wait_unlink(t), UNCHANGED objectVars
  PROVE  QInv'
<1>1. /\ Step(t) /\ pc[t] = "wait_unlink" /\ SameWords /\ pc'[t] \in {"clearing", "wait_was"} /\ Heavy
      /\ WaitLock = None /\ (Succ = t => pc'[t] = "clearing") /\ loc'[t].inwait = loc[t].inwait
      /\ Cxq' = Cxq /\ Entries' = Entries /\ WaitLock' = WaitLock
      /\ \/ TState(t) = "WAIT" /\ Waits' = Without(Waits, t) /\ NodeIs(t, "RUN")
         \/ TState(t) # "WAIT" /\ Waits' = Waits /\ node' = node
  BY Wait_unlinkDoes DEF TState, SameLists, Step
<1>2. pc[t] \notin Outside
  BY <1>1 DEF Outside
<1>3. Site(t) = "wait_unlink" /\ Site(t)' = "wait_was" /\ States(t)' = {"RUN", "CXQ", "ENTER"}
      /\ States(t) = {"WAIT", "CXQ", "ENTER"}
  <2>1. Site(t) = "wait_unlink" /\ Site(t)' = "wait_was"
    BY <1>1, Wait_unlinkDoes DEF Site, Where, Spinning, Inflation, Preparing
  <2>2. loc[t].inwait BY <1>1, <1>2, Here DEF Control, Waiting
  <2> QED BY <2>1, <2>2 DEF States, Linked, Relinked, Asleep, Exiting, Last_exit, Released
<1>4. TState(t) \in {"WAIT", "CXQ", "ENTER"}
  BY <1>3 DEF QInv, NodeInv
<1>5. \A u \in Threads : ~Hand(t, u) /\ ~Hand(t, u)' /\ ~Carried(u) /\ ~Carried(u)'
  <2>1. \A u \in Threads \ {t} : pc[u] \notin Handing
    BY <1>1, OneNotifier
  <2>2. \A u \in Threads : ~Hand(t, u) /\ ~Hand(t, u)'
    BY <1>1 DEF Hand
  <2> QED BY <2>1, <2>2, <1>1, OneNotifier, OneNotifierNext
<1>6. /\ \A u \in Threads \ {t} : TState(u)' = TState(u)
      /\ TState(t)' = IF TState(t) = "WAIT" THEN "RUN" ELSE TState(t)
  BY <1>1 DEF NodeIs, TState
<1>7. /\ ~OnWaits(t)' /\ (OnEntries(t)' <=> OnEntries(t)) /\ (OnCxq(t)' <=> OnCxq(t))
      /\ (OnWaits(t) <=> TState(t) = "WAIT")
      /\ \A u \in Threads \ {t} : /\ (OnCxq(u)' <=> OnCxq(u)) /\ (OnEntries(u)' <=> OnEntries(u))
                                  /\ (OnWaits(u)' <=> OnWaits(u))
  <2>1. ~OnWaits(t)' /\ (OnEntries(t)' <=> OnEntries(t)) /\ (OnCxq(t)' <=> OnCxq(t))
        /\ (OnWaits(t) <=> TState(t) = "WAIT")
    BY <1>3, <1>4, <1>5, <1>6 DEF OnCxq, OnEntries, OnWaits
  <2> QED BY <2>1, <1>1, <1>5, <1>6, OthersOn
<1>8. ListInv'
  <2> DEFINE C == {u \in Threads : OnCxq(u)}
             E == {u \in Threads : OnEntries(u)}
             W == {u \in Threads : OnWaits(u)}
  <2>1. ListOf(Entries', E) /\ ListOf(Cxq', C) /\ ListOf(Waits, W) /\ Waits \in Seq(NT)
    BY <1>1, Before
  <2>2. \A u \in Threads : /\ (OnCxq(u)' <=> u \in C) /\ (OnEntries(u)' <=> u \in E)
                           /\ (OnWaits(u)' <=> u \in W \ {t})
    BY <1>7
  <2>3. W \ {t} \subseteq Threads /\ E \subseteq Threads /\ C \subseteq Threads
        /\ (t \in W <=> TState(t) = "WAIT")
    BY <1>7
  <2> HIDE DEF C, E, W
  <2>4. ListOf(Waits', W \ {t})
    <3>1. CASE TState(t) = "WAIT"
      <4>1. ListOf(Without(Waits, t), W \ {t}) BY <3>1, <2>1, <2>3, WithoutList
      <4> QED BY <3>1, <4>1, <1>1
    <3>2. CASE TState(t) # "WAIT"
      <4>1. W \ {t} = W BY <3>2, <2>3
      <4> QED BY <3>2, <4>1, <1>1, <2>1
    <3> QED BY <3>1, <3>2
  <2> QED BY <2>1, <2>2, <2>3, <2>4, ListsAre
<1>9. NodesOK(t)
  BY <1>6, <1>3, <1>4 DEF NodesOK, QInv, NodeInv
<1>10. HandsOK(t)
  BY <1>1, <1>5, OneNotifier DEF HandsOK, Handing, Hand
<1>11. ExitsOK(t)
  BY <1>1 DEF ExitsOK
<1>12. HeirsOK
  BY <1>1, <1>7, HeirsSame DEF Naming, SameWords
<1>13. CalmResp(t)
  BY <1>1, <1>2, <1>3, Here DEF CalmResp, SameWords, Linked
<1> QED
  BY <1>1, <1>9, <1>10, <1>8, <1>11, <1>12, <1>13, MovedKeeps

\* notify() and notifyAll() run as no waiter.
LEMMA NotifierRuns ==
  ASSUME Inv, QInv, NEW t \in Threads,
         pc[t] \in Handing \cup {"notify_dequeue", "notifyAll_lock"}
  PROVE  /\ pc[t] \notin Outside /\ Owner = t /\ Heavy /\ TState(t) = "RUN" /\ Succ # t /\ Resp # t
         /\ ~OnCxq(t) /\ ~OnEntries(t) /\ ~OnWaits(t)
         /\ \A u \in Threads \ {t} : pc[u] \notin Handing
<1>1. pc[t] \notin Outside
  BY DEF Handing, Outside
<1>2. Owner = t
  BY OwnerAt DEF Handing, Owned
<1>3. Site(t) = pc[t] /\ States(t) = {"RUN"}
  <2>1. Site(t) = pc[t]
    BY DEF Handing, Site, Where, Spinning, Inflation, Preparing
  <2> QED BY <2>1 DEF States, Linked, Relinked, Asleep, Exiting, Last_exit, Released, Handing
<1>4. TState(t) = "RUN" /\ ~OnCxq(t) /\ ~OnEntries(t) /\ ~OnWaits(t)
  BY <1>3 DEF QInv, NodeInv, OnCxq, OnEntries, OnWaits
<1>5. Succ # t
  BY <1>1, <1>4, Here DEF Naming, Handing
<1>6. Resp # t
  BY <1>1, <1>3, Here DEF Linked, Handing
<1>7. Heavy
  BY <1>1, Here
<1> QED
  BY <1>1, <1>2, <1>4, <1>5, <1>6, <1>7, OneNotifier

\* A notifier has gone on: it is no waiter after its step either.
LEMMA NotifierStays ==
  ASSUME NEW t \in Threads, pc'[t] \in Handing \cup {"java"}, TState(t)' = "RUN"
  PROVE  TState(t)' \in States(t)' /\ ~OnCxq(t)' /\ ~OnEntries(t)' /\ ~OnWaits(t)'
<1>1. Site(t)' = pc'[t]
  BY DEF Handing, Site, Where, Spinning, Inflation, Preparing
<1> QED
  BY <1>1 DEF States, Linked, Relinked, Asleep, Exiting, Last_exit, Released, Handing, OnCxq,
              OnEntries, OnWaits

\* What a step of a notifier has to keep.
LEMMA NotifierKeeps ==
  ASSUME Inv, QInv, NEW t \in Threads,
         pc[t] \in Handing \cup {"notify_dequeue", "notifyAll_lock"},
         Step(t), SameWords, pc'[t] \in Handing \cup {"java"},
         \A u \in Threads \ {t} : TState(u)' \in States(u), TState(t)' = "RUN",
         pc'[t] \in Handing => WaitLock' = t,
         pc'[t] \in {"notify_set", "notify_link"} =>
           loc'[t].w \in Threads /\ node'[loc'[t].w].TState = "ENTER",
         pc'[t] = "notifyAll_link" => loc'[t].w \in Threads /\ node'[loc'[t].w].TState = "WAIT",
         \A w \in Threads : Hand(t, w)' => Hand(t, w) \/ TState(w) = "WAIT",
         \A u \in Threads : OnEntries(u) => OnEntries(u)', ListInv'
  PROVE  QInv'
<1>1. NodesOK(t)
  BY NotifierStays DEF NodesOK
<1>2. HandsOK(t)
  <2>1. Site(t)' \notin Linked
    BY DEF Site, Where, Spinning, Inflation, Preparing, Linked, Handing
  <2>2. ASSUME NEW w \in Threads, Hand(t, w)' PROVE Site(w)' \notin Linked
    <3>1. CASE w = t
      BY <2>1, <3>1
    <3>2. CASE w # t
      <4>1. Site(w)' = Site(w) BY <3>2, SiteSame
      <4>2. Hand(t, w) \/ TState(w) = "WAIT" BY <2>2
      <4>3. TState(w) = "WAIT" => Site(w) \notin Linked
        BY DEF QInv, NodeInv, States
      <4> QED BY <4>1, <4>2, <4>3 DEF QInv, FarInv
    <3> QED BY <3>1, <3>2
  <2> QED BY <2>1, <2>2, NotifierRuns DEF HandsOK
<1>3. ExitsOK(t)
  BY NotifierRuns DEF ExitsOK, Handing
<1>4. HeirsOK
  BY NotifierRuns, HeirsSame DEF SameWords
<1>5. CalmResp(t)
  BY NotifierRuns DEF CalmResp, SameWords
<1>6. pc'[t] \notin {"inflate_neutral", "inflate_publish"}
  BY DEF Handing
<1> QED
  BY <1>1, <1>2, <1>3, <1>4, <1>5, <1>6, MovedKeeps

\* The lists of a step of the notifier.
LEMMA NotifierLists ==
  ASSUME Inv, QInv, NEW t \in Threads,
         pc[t] \in Handing \cup {"notify_dequeue", "notifyAll_lock"},
         Step(t), pc'[t] \in Handing \cup {"java"}, TState(t)' = "RUN"
  PROVE  /\ \A u \in Threads : /\ (Carried(u) <=> Hand(t, u)) /\ (Carried(u)' <=> Hand(t, u)')
         /\ \A u \in Threads : TState(u)' = TState(u) =>
              /\ (OnCxq(u)' <=> OnCxq(u))
              /\ (OnEntries(u)' <=> TState(u) = "ENTER" /\ ~Hand(t, u)')
              /\ (OnWaits(u)' <=> TState(u) = "WAIT" /\ Site(u) # "wait_add" /\ ~Hand(t, u)')
         /\ \A u \in Threads :
              /\ (OnEntries(u) <=> TState(u) = "ENTER" /\ ~Hand(t, u))
              /\ (OnWaits(u) <=> TState(u) = "WAIT" /\ Site(u) # "wait_add" /\ ~Hand(t, u))
<1>1. \A u \in Threads : /\ (Carried(u) <=> Hand(t, u)) /\ (Carried(u)' <=> Hand(t, u)')
  BY NotifierRuns, OneNotifier, OneNotifierNext
<1>2. \A u \in Threads \ {t} : Site(u)' = Site(u)
  BY SiteSame
<1>3. ASSUME NEW u \in Threads, TState(u)' = TState(u)
      PROVE /\ (OnCxq(u)' <=> OnCxq(u))
            /\ (OnEntries(u)' <=> TState(u) = "ENTER" /\ ~Hand(t, u)')
            /\ (OnWaits(u)' <=> TState(u) = "WAIT" /\ Site(u) # "wait_add" /\ ~Hand(t, u)')
  <2>1. CASE u = t
    BY <2>1, NotifierRuns, NotifierStays
  <2>2. CASE u # t
    BY <2>2, <1>1, <1>2, <1>3 DEF OnCxq, OnEntries, OnWaits
  <2> QED BY <2>1, <2>2
<1> QED
  BY <1>1, <1>3 DEF OnEntries, OnWaits

\* notify() takes the first waiter off WaitSet.
LEMMA Notify_dequeueMoves ==
  ASSUME Inv, QInv, NEW t \in Threads, Notify_dequeue(t), UNCHANGED objectVars
  PROVE  QInv'
<1>1. Step(t) /\ pc[t] = "notify_dequeue" /\ WaitLock = None /\ SameWords /\ Heavy
  BY Notify_dequeueDoes DEF Step
<1>2. TState(t) = "RUN" /\ \A u \in Threads : ~Hand(t, u)
  BY <1>1, NotifierRuns DEF Hand
<1>3. CASE Waits = <<>>
  <2>1. SameLists /\ pc'[t] = "java" /\ \A u \in Threads : TState(u)' = TState(u)
    BY <1>3, Notify_dequeueDoes DEF TState
  <2>2. \A u \in Threads : ~Hand(t, u)'
    BY <2>1 DEF Hand
  <2>3. \A u \in Threads : /\ (OnCxq(u)' <=> OnCxq(u)) /\ (OnEntries(u)' <=> OnEntries(u))
                           /\ (OnWaits(u)' <=> OnWaits(u))
    BY <1>1, <1>2, <2>1, <2>2, NotifierLists
  <2>4. ListInv'
    BY <1>1, <2>1, <2>3, ListsSame
  <2>5. \A u \in Threads \ {t} : TState(u)' \in States(u)
    BY <2>1 DEF QInv, NodeInv
  <2>6. pc'[t] \notin Handing BY <2>1 DEF Handing
  <2> QED BY <1>1, <1>2, <2>1, <2>3, <2>4, <2>5, <2>6, <2>2, NotifierKeeps
<1>4. CASE Waits # <<>>
  <2>0. PICK w : w = First(Waits)
    OBVIOUS
  <2> DEFINE C == {u \in Threads : OnCxq(u)}
             E == {u \in Threads : OnEntries(u)}
             W == {u \in Threads : OnWaits(u)}
  <2>1. /\ Cxq' = Cxq /\ Entries' = Entries /\ Waits' = Tail(Waits) /\ WaitLock' = t
        /\ pc'[t] = "notify_set" /\ loc'[t].w = w
        /\ \A u \in Threads : TState(u)' = IF u = w THEN "ENTER" ELSE TState(u)
    BY <2>0, <1>4, Notify_dequeueDoes DEF TState, NodeIs
  <2>2. ListOf(Cxq, C) /\ ListOf(Entries, E) /\ ListOf(Waits, W) /\ Waits \in Seq(NT)
    BY <1>1, Before
  <2>3. ListOf(Tail(Waits), W \ {w}) /\ w \in W
    BY <2>0, <2>2, <1>4, TailList
  <2>4. w \in Threads /\ TState(w) = "WAIT" /\ Site(w) # "wait_add" /\ w # t /\ TState(t)' = "RUN"
    BY <2>1, <2>3, <1>2 DEF OnWaits
  <2>5. \A u \in Threads : Hand(t, u)' <=> u = w
    BY <2>1 DEF Hand
  <2>6. pc'[t] \in Handing
    BY <2>1 DEF Handing
  <2>7. ~OnCxq(w)' /\ ~OnEntries(w)' /\ ~OnWaits(w)' /\ ~OnCxq(w) /\ ~OnEntries(w)
    <3>1. Carried(w)' BY <1>1, <2>4, <2>5, <2>6, NotifierLists
    <3> QED BY <3>1, <2>1, <2>4 DEF OnCxq, OnEntries, OnWaits
  <2>8. \A u \in Threads : u # w => /\ (OnCxq(u)' <=> OnCxq(u)) /\ (OnEntries(u)' <=> OnEntries(u))
                                    /\ (OnWaits(u)' <=> OnWaits(u))
    BY <1>1, <1>2, <2>1, <2>4, <2>5, <2>6, NotifierLists
  <2>9. \A u \in Threads : /\ (OnCxq(u)' <=> u \in C) /\ (OnEntries(u)' <=> u \in E)
                           /\ (OnWaits(u)' <=> u \in W \ {w})
    BY <2>7, <2>8
  <2>10. C \subseteq Threads /\ E \subseteq Threads /\ W \ {w} \subseteq Threads
    OBVIOUS
  <2>11. \A u \in Threads \ {t} : TState(u)' \in States(u)
    <3>1. "ENTER" \in States(w)
      BY <2>4, MayMove DEF QInv, NodeInv
    <3> QED BY <3>1, <2>1 DEF QInv, NodeInv
  <2>12. \A u \in Threads : OnEntries(u) => OnEntries(u)'
    BY <2>7, <2>8
  <2>13. loc'[t].w \in Threads /\ node'[loc'[t].w].TState = "ENTER"
    BY <2>1, <2>4 DEF TState
  <2> HIDE DEF C, E, W
  <2>14. ListInv'
    BY <2>1, <2>2, <2>3, <2>9, <2>10, ListsAre
  <2>15. \A u \in Threads : Hand(t, u)' => TState(u) = "WAIT"
    BY <2>4, <2>5
  <2> QED BY <1>1, <2>1, <2>4, <2>6, <2>11, <2>12, <2>13, <2>14, <2>15, NotifierKeeps
<1> QED BY <1>3, <1>4

\* notify() sets _notified.
LEMMA Notify_setMoves ==
  ASSUME Inv, QInv, NEW t \in Threads, Notify_set(t), UNCHANGED objectVars
  PROVE  QInv'
<1>1. /\ Step(t) /\ pc[t] = "notify_set" /\ SameWords /\ SameLists /\ pc'[t] = "notify_link" /\ Heavy
      /\ loc'[t] = loc[t] /\ \A u \in Threads : TState(u)' = TState(u)
  BY Notify_setDoes DEF TState, NodeNotifies, Step
<1>2. pc[t] \in Handing /\ pc'[t] \in Handing
  BY <1>1 DEF Handing
<1>3. TState(t) = "RUN"
  BY <1>2, NotifierRuns
<1>4. \A u \in Threads : Hand(t, u)' <=> Hand(t, u)
  BY <1>1 DEF Hand
<1>5. \A u \in Threads : /\ (OnCxq(u)' <=> OnCxq(u)) /\ (OnEntries(u)' <=> OnEntries(u))
                         /\ (OnWaits(u)' <=> OnWaits(u))
  BY <1>1, <1>2, <1>3, <1>4, NotifierLists
<1>6. ListInv'
  BY <1>1, <1>5, ListsSame
<1>7. \A u \in Threads \ {t} : TState(u)' \in States(u)
  BY <1>1 DEF QInv, NodeInv
<1>8. WaitLock' = t /\ loc'[t].w \in Threads /\ node'[loc'[t].w].TState = "ENTER"
  BY <1>1 DEF QInv, HandInv, SameLists, TState
<1> QED
  BY <1>1, <1>2, <1>3, <1>5, <1>6, <1>7, <1>8, <1>4, NotifierKeeps

\* notify() puts the waiter on EntryList or on cxq.
LEMMA Notify_linkMoves ==
  ASSUME Inv, QInv, NEW t \in Threads, Notify_link(t), UNCHANGED objectVars
  PROVE  QInv'
<1>0. PICK w : w = loc[t].w
  OBVIOUS
<1> DEFINE C == {u \in Threads : OnCxq(u)}
           E == {u \in Threads : OnEntries(u)}
           W == {u \in Threads : OnWaits(u)}
<1>1. /\ Step(t) /\ pc[t] = "notify_link" /\ SameWords /\ Waits' = Waits /\ pc'[t] = "java" /\ Heavy
      /\ \/ /\ Entries = <<>> /\ Cxq' = Cxq /\ Entries' = <<w>>
            /\ \A u \in Threads : TState(u)' = TState(u)
         \/ /\ Entries # <<>> /\ Cxq' = <<w>> \o Cxq /\ Entries' = Entries
            /\ \A u \in Threads : TState(u)' = IF u = w THEN "CXQ" ELSE TState(u)
  BY <1>0, Notify_linkDoes DEF TState, NodeIs, Step
<1>2. pc[t] \in Handing /\ pc'[t] \notin Handing
  BY <1>1 DEF Handing
<1>3. TState(t) = "RUN"
  BY <1>2, NotifierRuns
<1>4. w \in Threads /\ TState(w) = "ENTER" /\ w # t /\ w \in NT
  BY <1>0, <1>1, <1>3 DEF QInv, HandInv, NT
<1>5. \A u \in Threads : ~Hand(t, u)' /\ (Hand(t, u) <=> u = w)
  BY <1>0, <1>1 DEF Hand
<1>6. ListOf(Cxq, C) /\ ListOf(Entries, E) /\ ListOf(Waits, W) /\ Cxq \in Seq(NT)
  BY <1>1, Before
<1>7. TState(t)' = "RUN"
  BY <1>1, <1>3, <1>4
<1>8. ~OnEntries(w) /\ ~OnWaits(w) /\ ~OnCxq(w)
  BY <1>1, <1>2, <1>4, <1>5, <1>7, NotifierLists DEF OnCxq
<1>9. \A u \in Threads : u # w => /\ (OnCxq(u)' <=> OnCxq(u)) /\ (OnEntries(u)' <=> OnEntries(u))
                                  /\ (OnWaits(u)' <=> OnWaits(u))
  BY <1>1, <1>2, <1>5, <1>7, NotifierLists
<1>10. \A u \in Threads \ {t} : TState(u)' \in States(u)
  <2>1. "CXQ" \in States(w)
    BY <1>4, MayMove DEF QInv, NodeInv
  <2> QED BY <2>1, <1>1 DEF QInv, NodeInv
<1>11. \A u \in Threads : OnEntries(u) => OnEntries(u)'
  BY <1>8, <1>9
<1>12. C \cup {w} \subseteq Threads /\ E \cup {w} \subseteq Threads /\ W \subseteq Threads
       /\ w \notin C /\ w \notin E /\ w \notin W
  BY <1>4, <1>8
<1>13. ListInv'
  <2>1. CASE Entries = <<>>
    <3>1. OnEntries(w)' /\ ~OnCxq(w)' /\ ~OnWaits(w)'
      BY <2>1, <1>1, <1>2, <1>4, <1>5, <1>7, <1>8, NotifierLists
    <3>2. \A u \in Threads : /\ (OnCxq(u)' <=> u \in C) /\ (OnEntries(u)' <=> u \in E \cup {w})
                             /\ (OnWaits(u)' <=> u \in W)
      BY <3>1, <1>8, <1>9
    <3>3. E = {}
      BY <2>1, <1>6, NoList
    <3>4. E \cup {w} = {w}
      BY <3>3
    <3> HIDE DEF C, E, W
    <3>5. ListOf(Entries', E \cup {w}) /\ ListOf(Cxq', C) /\ ListOf(Waits', W)
      BY <2>1, <3>4, <1>1, <1>4, <1>6, OneList
    <3>6. C \subseteq Threads /\ E \cup {w} \subseteq Threads /\ W \subseteq Threads
      BY <1>12
    <3> QED BY <3>2, <3>5, <3>6, ListsAre
  <2>2. CASE Entries # <<>>
    <3>1. ~OnEntries(w)' /\ OnCxq(w)' /\ ~OnWaits(w)'
      <4>1. Site(w)' = Site(w) BY <1>1, <1>4, SiteSame
      <4>2. Site(w) \notin {"push", "entered"} BY <1>4, MayMove DEF QInv, NodeInv
      <4> QED BY <4>1, <4>2, <2>2, <1>1, <1>4 DEF OnCxq, OnEntries, OnWaits
    <3>2. \A u \in Threads : /\ (OnCxq(u)' <=> u \in C \cup {w}) /\ (OnEntries(u)' <=> u \in E)
                             /\ (OnWaits(u)' <=> u \in W)
      BY <3>1, <1>8, <1>9
    <3> HIDE DEF C, E, W
    <3>5. ListOf(Cxq', C \cup {w}) /\ ListOf(Entries', E) /\ ListOf(Waits', W)
      BY <2>2, <1>1, <1>4, <1>6, <1>12, PushList
    <3>6. C \cup {w} \subseteq Threads /\ E \subseteq Threads /\ W \subseteq Threads
      BY <1>12
    <3> QED BY <3>2, <3>5, <3>6, ListsAre
  <2> QED BY <2>1, <2>2
<1> QED
  BY <1>1, <1>2, <1>7, <1>10, <1>11, <1>13, <1>5, NotifierKeeps DEF Handing

\* notifyAll() takes the lock of WaitSet.
LEMMA NotifyAll_lockMoves ==
  ASSUME Inv, QInv, NEW t \in Threads, NotifyAll_lock(t), UNCHANGED objectVars
  PROVE  QInv'
<1>1. /\ Step(t) /\ pc[t] = "notifyAll_lock" /\ SameWords /\ pc'[t] = "notifyAll_dequeue" /\ Heavy
      /\ Cxq' = Cxq /\ Entries' = Entries /\ Waits' = Waits /\ WaitLock' = t
      /\ \A u \in Threads : TState(u)' = TState(u)
  BY NotifyAll_lockDoes DEF TState, Step
<1>2. pc'[t] \in Handing /\ pc'[t] \notin {"notify_set", "notify_link", "notifyAll_link"}
  BY <1>1 DEF Handing
<1>3. TState(t) = "RUN"
  BY <1>1, NotifierRuns
<1>4. \A u \in Threads : ~Hand(t, u)' /\ ~Hand(t, u)
  BY <1>1 DEF Hand
<1>5. \A u \in Threads : /\ (OnCxq(u)' <=> OnCxq(u)) /\ (OnEntries(u)' <=> OnEntries(u))
                         /\ (OnWaits(u)' <=> OnWaits(u))
  BY <1>1, <1>2, <1>3, <1>4, NotifierLists
<1>6. ListInv'
  BY <1>1, <1>5, ListsKept
<1>7. \A u \in Threads \ {t} : TState(u)' \in States(u)
  BY <1>1 DEF QInv, NodeInv
<1> QED
  BY <1>1, <1>2, <1>3, <1>5, <1>6, <1>7, <1>4, NotifierKeeps

\* notifyAll() takes the next waiter, or gives the lock of WaitSet back.
LEMMA NotifyAll_dequeueMoves ==
  ASSUME Inv, QInv, NEW t \in Threads, NotifyAll_dequeue(t), UNCHANGED objectVars
  PROVE  QInv'
<1>1. /\ Step(t) /\ pc[t] = "notifyAll_dequeue" /\ SameWords /\ Heavy
      /\ Cxq' = Cxq /\ Entries' = Entries /\ \A u \in Threads : TState(u)' = TState(u)
  BY NotifyAll_dequeueDoes DEF TState, NodeNotifies, Step
<1>2. TState(t) = "RUN" /\ pc[t] \in Handing /\ WaitLock = t
  BY <1>1, NotifierRuns DEF Handing, QInv, HandInv
<1>3. \A u \in Threads : ~Hand(t, u)
  BY <1>1 DEF Hand
<1>4. \A u \in Threads \ {t} : TState(u)' \in States(u)
  BY <1>1 DEF QInv, NodeInv
<1>5. CASE Waits = <<>>
  <2>1. Waits' = Waits /\ pc'[t] = "java"
    BY <1>5, NotifyAll_dequeueDoes
  <2>2. \A u \in Threads : ~Hand(t, u)'
    BY <2>1 DEF Hand
  <2>3. \A u \in Threads : /\ (OnCxq(u)' <=> OnCxq(u)) /\ (OnEntries(u)' <=> OnEntries(u))
                           /\ (OnWaits(u)' <=> OnWaits(u))
    BY <1>1, <1>2, <1>3, <2>1, <2>2, NotifierLists
  <2>4. ListInv'
    BY <1>1, <2>1, <2>3, ListsKept
  <2>5. pc'[t] \notin Handing BY <2>1 DEF Handing
  <2> QED BY <1>1, <1>2, <1>4, <2>1, <2>3, <2>4, <2>5, <2>2, NotifierKeeps
<1>6. CASE Waits # <<>>
  <2>0. PICK w : w = First(Waits)
    OBVIOUS
  <2> DEFINE C == {u \in Threads : OnCxq(u)}
             E == {u \in Threads : OnEntries(u)}
             W == {u \in Threads : OnWaits(u)}
  <2>1. Waits' = Tail(Waits) /\ WaitLock' = t /\ pc'[t] = "notifyAll_link" /\ loc'[t].w = w
    BY <2>0, <1>2, <1>6, NotifyAll_dequeueDoes
  <2>2. ListOf(Cxq, C) /\ ListOf(Entries, E) /\ ListOf(Waits, W) /\ Waits \in Seq(NT)
    BY <1>1, Before
  <2>3. ListOf(Tail(Waits), W \ {w}) /\ w \in W
    BY <2>0, <2>2, <1>6, TailList
  <2>4. w \in Threads /\ TState(w) = "WAIT" /\ Site(w) # "wait_add" /\ w # t
    BY <2>1, <2>3, <1>2 DEF OnWaits
  <2>5. \A u \in Threads : Hand(t, u)' <=> u = w
    BY <2>1 DEF Hand
  <2>6. pc'[t] \in Handing /\ pc'[t] \notin {"notify_set", "notify_link"}
    BY <2>1 DEF Handing
  <2>7. ~OnCxq(w)' /\ ~OnEntries(w)' /\ ~OnWaits(w)' /\ ~OnCxq(w) /\ ~OnEntries(w)
    <3>1. Carried(w)' BY <1>1, <1>2, <2>4, <2>5, <2>6, NotifierLists
    <3> QED BY <3>1, <1>1, <2>4 DEF OnCxq, OnEntries, OnWaits
  <2>8. \A u \in Threads : u # w => /\ (OnCxq(u)' <=> OnCxq(u)) /\ (OnEntries(u)' <=> OnEntries(u))
                                    /\ (OnWaits(u)' <=> OnWaits(u))
    BY <1>1, <1>2, <1>3, <2>5, <2>6, NotifierLists
  <2>9. \A u \in Threads : /\ (OnCxq(u)' <=> u \in C) /\ (OnEntries(u)' <=> u \in E)
                           /\ (OnWaits(u)' <=> u \in W \ {w})
    BY <2>7, <2>8
  <2>10. C \subseteq Threads /\ E \subseteq Threads /\ W \ {w} \subseteq Threads
    OBVIOUS
  <2>12. \A u \in Threads : OnEntries(u) => OnEntries(u)'
    BY <2>7, <2>8
  <2>13. loc'[t].w \in Threads /\ node'[loc'[t].w].TState = "WAIT"
    BY <1>1, <2>1, <2>4 DEF TState
  <2> HIDE DEF C, E, W
  <2>14. ListInv'
    BY <1>1, <2>1, <2>2, <2>3, <2>9, <2>10, ListsAre
  <2>15. \A u \in Threads : Hand(t, u)' => TState(u) = "WAIT"
    BY <2>4, <2>5
  <2> QED BY <1>1, <1>2, <1>4, <2>1, <2>6, <2>12, <2>13, <2>14, <2>15, NotifierKeeps
<1> QED BY <1>5, <1>6

\* notifyAll() puts the waiter on cxq.
LEMMA NotifyAll_linkMoves ==
  ASSUME Inv, QInv, NEW t \in Threads, NotifyAll_link(t), UNCHANGED objectVars
  PROVE  QInv'
<1>0. PICK w : w = loc[t].w
  OBVIOUS
<1> DEFINE C == {u \in Threads : OnCxq(u)}
           E == {u \in Threads : OnEntries(u)}
           W == {u \in Threads : OnWaits(u)}
<1>1. /\ Step(t) /\ pc[t] = "notifyAll_link" /\ SameWords /\ Waits' = Waits /\ Heavy
      /\ pc'[t] = "notifyAll_dequeue" /\ Cxq' = <<w>> \o Cxq /\ Entries' = Entries
      /\ WaitLock' = WaitLock
      /\ \A u \in Threads : TState(u)' = IF u = w THEN "CXQ" ELSE TState(u)
  BY <1>0, NotifyAll_linkDoes DEF TState, NodeIs, Step
<1>2. pc[t] \in Handing /\ pc'[t] \in Handing /\ pc'[t] \notin {"notify_set", "notify_link", "notifyAll_link"}
  BY <1>1 DEF Handing
<1>3. TState(t) = "RUN" /\ WaitLock' = t /\ Owner = t
  BY <1>1, <1>2, NotifierRuns DEF QInv, HandInv
<1>4. w \in Threads /\ TState(w) = "WAIT" /\ w # t /\ w \in NT
  BY <1>0, <1>1, <1>3 DEF QInv, HandInv, NT
<1>5. \A u \in Threads : ~Hand(t, u)' /\ (Hand(t, u) <=> u = w)
  BY <1>0, <1>1 DEF Hand
<1>6. ListOf(Cxq, C) /\ ListOf(Entries, E) /\ ListOf(Waits, W) /\ Cxq \in Seq(NT)
  BY <1>1, Before
<1>7. TState(t)' = "RUN"
  BY <1>1, <1>3, <1>4
<1>8. ~OnEntries(w) /\ ~OnWaits(w) /\ ~OnCxq(w)
  BY <1>1, <1>2, <1>4, <1>5, <1>7, NotifierLists DEF OnCxq
<1>9. \A u \in Threads : u # w => /\ (OnCxq(u)' <=> OnCxq(u)) /\ (OnEntries(u)' <=> OnEntries(u))
                                  /\ (OnWaits(u)' <=> OnWaits(u))
  BY <1>1, <1>2, <1>5, <1>7, NotifierLists
<1>10. Site(w) # "wait_add"
  <2>1. SUFFICES ASSUME Site(w) = "wait_add" PROVE FALSE
    OBVIOUS
  <2>2. loc[w] \in LocRec /\ Control(w) BY <1>4, OfThread
  <2>3. pc[w] = "wait_add"
    BY <2>1, <2>2 DEF Site, Where, LocRec, Control, Spinning, Inflation, Preparing, Entering,
       Reentered
  <2>4. Owner = w BY <2>3, <1>4, OwnerAt DEF Owned
  <2> QED BY <2>4, <1>3, <1>4
<1>11. "CXQ" \in States(w) /\ Site(w) \notin {"push", "entered"}
  BY <1>4, <1>10, MayMove DEF QInv, NodeInv
<1>12. \A u \in Threads \ {t} : TState(u)' \in States(u)
  BY <1>11, <1>1 DEF QInv, NodeInv
<1>13. \A u \in Threads : OnEntries(u) => OnEntries(u)'
  BY <1>8, <1>9
<1>14. C \cup {w} \subseteq Threads /\ E \subseteq Threads /\ W \subseteq Threads /\ w \notin C
  BY <1>4, <1>8
<1>15. ListInv'
  <2>1. ~OnEntries(w)' /\ OnCxq(w)' /\ ~OnWaits(w)'
    <3>1. Site(w)' = Site(w) BY <1>1, <1>4, SiteSame
    <3> QED BY <3>1, <1>1, <1>4, <1>11 DEF OnCxq, OnEntries, OnWaits
  <2>2. \A u \in Threads : /\ (OnCxq(u)' <=> u \in C \cup {w}) /\ (OnEntries(u)' <=> u \in E)
                           /\ (OnWaits(u)' <=> u \in W)
    BY <2>1, <1>8, <1>9
  <2> HIDE DEF C, E, W
  <2>3. ListOf(Cxq', C \cup {w}) /\ ListOf(Entries', E) /\ ListOf(Waits', W)
    BY <1>1, <1>4, <1>6, <1>14, PushList
  <2> QED BY <2>2, <2>3, <1>14, ListsAre
<1> QED
  BY <1>1, <1>2, <1>3, <1>7, <1>12, <1>13, <1>15, <1>5, NotifierKeeps

-----------------------------------------------------------------------------
(* Who wakes whom: the invariant *)

\* A pending unpark is one.
EventInv == event \in [Threads -> {0, 1}]

\* Someone will unpark t.
Pending(t) == \E v \in Threads : pc[v] \in {"epilog_drop", "epilog_unpark"} /\ loc[v].w = t

\* t will look at _succ before it can sleep.
Heeds(t) ==
  \/ pc[t] \in {"woken", "futile", "rewoken", "wait_state", "wait_unlink", "egress", "reegress"}
                 \cup Naming
  \/ pc[t] \in {"spin", "spin_retry"} /\ loc[t].spin = "woken"

\* The thread that _succ names does not sleep, or is about to be woken.
HeirInv == Heavy => \A t \in Threads : Succ = t => event[t] = 1 \/ Pending(t) \/ Heeds(t)

\* Somebody polls, or is about to.
Polled == Cxq = <<>> \/ Resp # None \/ \E r \in Threads : pc[r] \in {"responsible", "responsible_cas"}

\* The 1-0 unlock: whoever came to the empty lists since they were read polls.
PollInv ==
  \A t \in Threads :
    /\ pc[t] = "unlock_store" => Entries = <<>>
    /\ pc[t] \in {"unlock_EntryList", "unlock_store"} /\ Entries = <<>> => Polled

\* A thread that clears _succ on its way out of enter() has the lock.
ClearInv == \A t \in Threads : pc[t] = "clearing" /\ loc[t].then = "java" => Owner = t

\* t will try the lock before it can sleep,
Trier(t) ==
  \/ pc[t] \in {"enter", "EnterI", "enqueue", "push", "responsible", "responsible_cas",
                "contend", "park_timed", "woken", "futile", "wait_state", "wait_unlink",
                "wait_was", "reenter", "rewoken", "spin", "spin_clear", "spin_retry"}
  \/ pc[t] = "clearing" /\ loc[t].then \in {"contend", "reenter", "wait_was"}
  \/ /\ pc[t] \in {"spin_succ", "spin_store", "spinning"}
     /\ loc[t].spin # "reenter" \/ Succ = t \/ event[t] = 1
  \/ pc[t] \in {"park?", "park", "repark", "wait_park"} /\ event[t] = 1
  \/ pc[t] = "park?" /\ Resp = t
  \/ /\ pc[t] \in {"wait_exited", "wait_check", "wait_notified"} \cup Released
     /\ loc[t].inwait /\ event[t] = 1

\* or it will look for a thread to wake, or wake the one it has chosen.
Waker(t) ==
  \/ pc[t] \in {"exit_EntryList", "exit_succ", "exit_cas", "unlock_recheck", "unlock_cas"}
  \/ pc[t] = "exit_cxq" /\ Cxq # <<>>
  \/ pc[t] = "epilog_unpark" /\ loc[t].w \in Members(Cxq) \cup Members(Entries)

\* A free monitor with a queue has one or the other.
WakeInv ==
  (Heavy /\ Owner = None /\ (Cxq # <<>> \/ Entries # <<>>)) => \E t \in Threads : Trier(t) \/ Waker(t)

\* The invariant of the wakeups, on top of Inv and QInv.
SInv == EventInv /\ HeirInv /\ PollInv /\ ClearInv /\ WakeInv

-----------------------------------------------------------------------------
(* The steps outside the monitor *)

\* Where a thread has not entered the monitor yet, or has left it.
Off == Outside \cup Targets \cup {"hash_header", "unlock"}

\* A thread there is on no list.
LEMMA OffRuns ==
  ASSUME NEW t, Control(t), pc[t] \in Off, ~loc[t].inwait
  PROVE  /\ States(t) = {"RUN"} /\ pc[t] \notin Handing \cup Naming \cup Last_exit \cup Released
         /\ Site(t) \in Off \cap (Labels \ Linked) /\ Site(t) # "entered" /\ Site(t) # "park"
<1>1. Site(t) \in Off
  BY DEF Off, Outside, Targets, Site, Where, Control, Inflation, Preparing, Spinning
<1>2. Site(t) \notin Linked \cup Relinked \cup {"push", "entered", "wait_add", "wait_was", "park"}
  BY <1>1 DEF Off, Outside, Targets, Linked, Relinked
<1>3. States(t) = {"RUN"}
  BY <1>2 DEF States
<1>4. pc[t] \notin Handing \cup Naming \cup Last_exit \cup Released
  BY DEF Off, Outside, Targets, Handing, Naming, Last_exit, Released
<1>5. Site(t) \in Labels
  BY <1>1 DEF Off, Outside, Targets, Labels, Plain, Acquiring, Unlocking, Inflation, Preparing,
     Exiting, Owned
<1> QED BY <1>1, <1>2, <1>3, <1>4, <1>5

\* The same after a step.
LEMMA OffRunsNext ==
  ASSUME NEW t, Control(t)', pc'[t] \in Off, ~loc'[t].inwait
  PROVE  /\ States(t)' = {"RUN"} /\ pc'[t] \notin Handing \cup Naming \cup Last_exit \cup Released
         /\ Site(t)' \in Off \cap (Labels \ Linked) /\ Site(t)' # "entered" /\ Site(t)' # "park"
<1>1. Site(t)' \in Off
  BY DEF Off, Outside, Targets, Site, Where, Control, Inflation, Preparing, Spinning
<1>2. Site(t)' \notin Linked \cup Relinked \cup {"push", "entered", "wait_add", "wait_was", "park"}
  BY <1>1 DEF Off, Outside, Targets, Linked, Relinked
<1>3. States(t)' = {"RUN"}
  BY <1>2 DEF States
<1>4. pc'[t] \notin Handing \cup Naming \cup Last_exit \cup Released
  BY DEF Off, Outside, Targets, Handing, Naming, Last_exit, Released
<1>5. Site(t)' \in Labels
  BY <1>1 DEF Off, Outside, Targets, Labels, Plain, Acquiring, Unlocking, Inflation, Preparing,
     Exiting, Owned
<1> QED BY <1>1, <1>2, <1>3, <1>4, <1>5

\* A step of t outside the monitor.
Away(t) ==
  /\ pc[t] \in Off \ {"enter"} /\ pc'[t] \in Off /\ ~loc[t].inwait /\ ~loc'[t].inwait /\ node' = node
  /\ \A u \in Threads \ {t} : pc'[u] = pc[u] /\ loc'[u] = loc[u]

\* The monitor m keeps its words and its lists, or has nothing on them.
Kept(m) ==
  /\ om'[m].cxq = om[m].cxq /\ om'[m].EntryList = om[m].EntryList /\ om'[m].WaitSet = om[m].WaitSet
  /\ om'[m].WaitSetLock = om[m].WaitSetLock /\ om'[m].succ = om[m].succ
  /\ om'[m].Responsible = om[m].Responsible /\ om'[m].owner = om[m].owner

\* Nothing is on the lists of m.
Emptied(m) ==
  /\ om[m].cxq = <<>> /\ om[m].EntryList = <<>> /\ om[m].WaitSet = <<>>
  /\ om[m].succ = None /\ om[m].Responsible = None

\* The monitor of the object is kept, the others have nothing on their lists.
OthersEmpty == \A m \in Monitors : IF mark = Inflated(m) THEN Kept(m) ELSE Emptied(m)'

\* No unpark is lost.
Unparks == event' \in [Threads -> {0, 1}] /\ \A u \in Threads : event[u] = 1 => event'[u] = 1

\* The queues are kept, and the wakeups as well.
Undisturbed == QInv' /\ (SInv /\ Unparks => SInv')

\* A step outside the monitor keeps the invariants.
LEMMA AwayKeeps ==
  ASSUME Inv, Inv', QInv, NEW t \in Threads, Away(t), mark' = mark, OthersEmpty, ObjectInv'
  PROVE  Undisturbed
<1>1. States(t) = {"RUN"} /\ States(t)' = {"RUN"} /\ TState(t) = "RUN" /\ TState(t)' = "RUN"
  <2>1. Control(t) /\ Control(t)'
    BY DEF Inv, ThreadInv
  <2>2. States(t) = {"RUN"} /\ States(t)' = {"RUN"}
    BY <2>1, OffRuns, OffRunsNext DEF Away
  <2> QED BY <2>2 DEF QInv, NodeInv, Away, TState
<1>2. pc[t] \notin Handing \cup Naming \cup Last_exit /\ pc'[t] \notin Handing \cup Naming \cup Last_exit
      /\ Site(t) \notin Linked /\ Site(t)' \notin Linked /\ Site(t) # "entered"
  <2>1. Control(t) /\ Control(t)'
    BY DEF Inv, ThreadInv
  <2>2. pc[t] \notin Handing \cup Naming \cup Last_exit /\ Site(t) \notin Linked /\ Site(t) # "entered"
    BY <2>1, OffRuns DEF Away
  <2>3. pc'[t] \notin Handing \cup Naming \cup Last_exit /\ Site(t)' \notin Linked
    BY <2>1, OffRunsNext DEF Away
  <2> QED BY <2>2, <2>3
<1>3. \A u \in Threads \ {t} : Site(u)' = Site(u) /\ States(u)' = States(u) /\ pc'[u] = pc[u] /\ loc'[u] = loc[u]
  <2> SUFFICES ASSUME NEW u \in Threads \ {t}
               PROVE  Site(u)' = Site(u) /\ States(u)' = States(u) /\ pc'[u] = pc[u] /\ loc'[u] = loc[u]
    OBVIOUS
  <2>1. pc'[u] = pc[u] /\ loc'[u] = loc[u] BY DEF Away
  <2>2. Site(u)' = Site(u) BY <2>1 DEF Site, Where
  <2> QED BY <2>1, <2>2 DEF States
<1>4. \A u \in Threads : TState(u)' = TState(u)
  BY DEF Away, TState
<1>5. \A u, w \in Threads : Hand(u, w)' <=> Hand(u, w)
  BY <1>2, <1>3 DEF Hand, Handing
<1>6. \A w \in Threads : Carried(w)' <=> Carried(w)
  BY <1>5 DEF Carried
<1>7. \A u \in Threads : /\ (OnCxq(u)' <=> OnCxq(u)) /\ (OnEntries(u)' <=> OnEntries(u))
                         /\ (OnWaits(u)' <=> OnWaits(u))
  BY <1>1, <1>3, <1>4, <1>6 DEF OnCxq, OnEntries, OnWaits
<1>8. Heavy => /\ Cxq' = Cxq /\ Entries' = Entries /\ Waits' = Waits /\ WaitLock' = WaitLock
               /\ Succ' = Succ /\ Resp' = Resp
  <2>1. Heavy => mark.monitor \in Monitors /\ mark = Inflated(mark.monitor)
    BY WordTypes
  <2> QED BY <2>1 DEF OthersEmpty, Kept, Cxq, Entries, Waits, WaitLock, Succ, Resp
<1>9. Heavy' <=> Heavy
  BY DEF Heavy
<1>10. NodeInv'
  BY <1>1, <1>3, <1>4 DEF QInv, NodeInv
<1>11. \A u \in Threads : pc[u] \in Handing \cup Last_exit => Heavy
  BY OwnerAt DEF Handing, Owned, Exiting
<1>12. HandInv'
  <2> SUFFICES ASSUME NEW u \in Threads, pc'[u] \in Handing
               PROVE  /\ WaitLock' = u
                      /\ (pc'[u] \in {"notify_set", "notify_link"} =>
                            loc'[u].w \in Threads /\ node'[loc'[u].w].TState = "ENTER")
                      /\ (pc'[u] = "notifyAll_link" =>
                            loc'[u].w \in Threads /\ node'[loc'[u].w].TState = "WAIT")
    BY DEF HandInv, Handing, TState
  <2>1. u # t /\ pc'[u] = pc[u] /\ loc'[u] = loc[u] BY <1>2, <1>3
  <2> QED BY <2>1, <1>8, <1>11 DEF QInv, HandInv, Handing, TState, Away
<1>13. ListInv'
  <2>1. CASE Heavy
    BY <2>1, <1>7, <1>8, ListsKept
  <2>2. CASE ~Heavy
    BY <2>2, <1>9 DEF ListInv
  <2> QED BY <2>1, <2>2
<1>14. ExitInv'
  <2> SUFFICES ASSUME NEW u \in Threads, pc'[u] \in Last_exit
               PROVE  /\ pc'[u] = "drain" => Entries' = <<>>
                      /\ (pc'[u] = "drained" => Entries' # <<>>)
                      /\ (pc'[u] \in {"epilog", "epilog_drop"} => loc'[u].w \in Members(Entries'))
    BY DEF ExitInv, Members, Last_exit
  <2>1. u # t /\ pc'[u] = pc[u] /\ loc'[u] = loc[u] BY <1>2, <1>3
  <2> QED BY <2>1, <1>8, <1>11 DEF QInv, ExitInv
<1>15. SuccInv'
  <2> SUFFICES ASSUME Heavy, NEW u \in Threads, Succ' = u PROVE OnEntries(u)' \/ pc'[u] \in Naming
    BY <1>9 DEF SuccInv
  <2>1. OnEntries(u) \/ pc[u] \in Naming BY <1>8 DEF QInv, SuccInv
  <2> QED BY <2>1, <1>2, <1>3, <1>7
<1>16. RespInv'
  <2> SUFFICES ASSUME Heavy, NEW u \in Threads, Resp' = u
               PROVE  Site(u)' \in Linked \cup {"entered"} /\ pc'[u] # "park"
    BY <1>9 DEF RespInv
  <2>1. Site(u) \in Linked \cup {"entered"} /\ pc[u] # "park" BY <1>8 DEF QInv, RespInv
  <2> QED BY <2>1, <1>2, <1>3
<1>17. FreshInv'
  BY DEF OthersEmpty, FreshInv, Emptied
<1>18. FarInv'
  <2> SUFFICES ASSUME NEW u \in Threads, NEW w \in Threads, Hand(u, w)' PROVE Site(w)' \notin Linked
    BY DEF FarInv
  <2>1. Site(w) \notin Linked BY <1>5 DEF QInv, FarInv
  <2> QED BY <2>1, <1>2, <1>3
<1>19. QInv'
  BY <1>10, <1>12, <1>13, <1>14, <1>15, <1>16, <1>17, <1>18 DEF QInv
<1>20. ASSUME SInv, Unparks PROVE SInv'
  <2>1. Heavy => Owner' = Owner
    <3>1. Heavy => mark.monitor \in Monitors /\ mark = Inflated(mark.monitor)
      BY WordTypes
    <3> QED BY <3>1 DEF OthersEmpty, Kept, Owner
  <2>2. /\ pc[t] \notin {"enter", "clearing", "responsible", "responsible_cas"} \cup Last_unlock
        /\ pc'[t] \notin {"clearing"} \cup Last_unlock
        /\ ~Heeds(t) /\ ~Trier(t) /\ ~Waker(t) /\ pc[t] \notin {"epilog_drop", "epilog_unpark"}
    BY DEF Away, Off, Outside, Targets, Heeds, Trier, Waker, Released, Naming, Last_unlock
  <2>3. \A u \in Threads : pc[u] \in Last_unlock \cup {"clearing"} => Heavy
    BY AtThe DEF Last_unlock, Outside
  <2>4. \A u \in Threads \ {t} : Pending(u) => Pending(u)'
    BY <2>2, <1>3 DEF Pending
  <2>5. Pending(t) => Pending(t)'
    BY <2>2, <1>3 DEF Pending
  <2>6. EventInv' BY <1>20 DEF Unparks, EventInv
  <2>7. HeirInv'
    <3> SUFFICES ASSUME Heavy, NEW u \in Threads, Succ' = u
                 PROVE  event'[u] = 1 \/ Pending(u)' \/ Heeds(u)'
      BY <1>9 DEF HeirInv
    <3>1. event[u] = 1 \/ Pending(u) \/ Heeds(u) BY <1>8, <1>20 DEF SInv, HeirInv
    <3>2. u # t => (Heeds(u) => Heeds(u)') BY <1>3 DEF Heeds
    <3> QED BY <3>1, <3>2, <2>2, <2>4, <2>5, <1>20 DEF Unparks
  <2>8. Heavy => (Polled => Polled')
    BY <1>3, <1>8, <2>2 DEF Polled
  <2>9. PollInv'
    <3> SUFFICES ASSUME NEW u \in Threads, pc'[u] \in Last_unlock
                 PROVE  /\ (pc'[u] = "unlock_store" => Entries' = <<>>)
                        /\ (pc'[u] \in {"unlock_EntryList", "unlock_store"} /\ Entries' = <<>> => Polled')
      BY DEF PollInv, Last_unlock
    <3>1. u # t /\ pc'[u] = pc[u] BY <2>2, <1>3
    <3>2. Entries' = Entries BY <3>1, <2>3, <1>8
    <3> QED BY <3>1, <3>2, <2>3, <2>8, <1>20 DEF SInv, PollInv
  <2>10. ClearInv'
    <3> SUFFICES ASSUME NEW u \in Threads, pc'[u] = "clearing", loc'[u].then = "java" PROVE Owner' = u
      BY DEF ClearInv
    <3>1. u # t /\ pc'[u] = pc[u] /\ loc'[u] = loc[u] BY <2>2, <1>3
    <3> QED BY <3>1, <2>1, <2>3, <1>20 DEF SInv, ClearInv
  <2>11. WakeInv'
    <3> SUFFICES ASSUME Heavy, Owner = None, Cxq # <<>> \/ Entries # <<>>
                 PROVE  \E x \in Threads : Trier(x)' \/ Waker(x)'
      BY <1>8, <1>9, <2>1 DEF WakeInv
    <3>1. PICK x \in Threads : Trier(x) \/ Waker(x) BY <1>20 DEF SInv, WakeInv
    <3>2. x # t /\ pc'[x] = pc[x] /\ loc'[x] = loc[x] BY <3>1, <2>2, <1>3
    <3>3. Trier(x) => Trier(x)' BY <3>2, <1>8, <1>20 DEF Trier, Unparks
    <3>4. Waker(x) => Waker(x)' BY <3>2, <1>8 DEF Waker, Members
    <3> QED BY <3>1, <3>3, <3>4
  <2> QED BY <2>6, <2>7, <2>9, <2>10, <2>11 DEF SInv
<1> QED
  BY <1>19, <1>20 DEF Undisturbed

\* Nobody is inside: the mark may change.
LEMMA NobodyInside ==
  ASSUME Inv', \A u \in Threads : pc'[u] \in Off /\ ~loc'[u].inwait /\ TState(u)' = "RUN",
         \A m \in Monitors : Emptied(m)', ObjectInv'
  PROVE  Undisturbed
<1>1. ASSUME NEW u \in Threads
      PROVE  /\ States(u)' = {"RUN"} /\ pc'[u] \notin Handing \cup Naming \cup Last_exit
             /\ ~OnCxq(u)' /\ ~OnEntries(u)' /\ ~OnWaits(u)'
  <2>1. Control(u)' BY DEF Inv, ThreadInv
  <2>2. States(u)' = {"RUN"} /\ pc'[u] \notin Handing \cup Naming \cup Last_exit
    BY <2>1, OffRunsNext
  <2> QED BY <2>2 DEF OnCxq, OnEntries, OnWaits
<1>2. NodeInv'
  BY <1>1 DEF NodeInv
<1>3. HandInv' /\ ExitInv' /\ FarInv'
  BY <1>1 DEF HandInv, ExitInv, FarInv, Hand, Handing, Last_exit
<1>4. Heavy' => mark'.monitor \in Monitors
  <2>1. Typing' BY DEF Inv
  <2>2. Heavy' => mark'.monitor \in Monitors
    BY <2>1, MarkFacts DEF Heavy, Typing, Marks, Neutrals
  <2> QED BY <2>2
<1>5. Heavy' => Cxq' = <<>> /\ Entries' = <<>> /\ Waits' = <<>> /\ Succ' = None /\ Resp' = None
  BY <1>4 DEF Emptied, Cxq, Entries, Waits, Succ, Resp
<1>6. SuccInv' /\ RespInv'
  BY <1>5, ThreadsAssumption DEF SuccInv, RespInv
<1>7. ListInv'
  <2>1. CASE Heavy'
    <3>1. ListOf(Cxq', {}) /\ ListOf(Entries', {}) /\ ListOf(Waits', {})
      BY <2>1, <1>5, NoList
    <3>2. \A u \in Threads : /\ (OnCxq(u)' <=> u \in {}) /\ (OnEntries(u)' <=> u \in {})
                             /\ (OnWaits(u)' <=> u \in {})
      BY <1>1
    <3> QED BY <3>1, <3>2, ListsAre
  <2>2. CASE ~Heavy'
    BY <2>2 DEF ListInv
  <2> QED BY <2>1, <2>2
<1>8. FreshInv'
  BY DEF FreshInv, Emptied
<1>9. QInv'
  BY <1>2, <1>3, <1>6, <1>7, <1>8 DEF QInv
<1>10. ASSUME Unparks PROVE SInv'
  <2>1. \A u \in Threads : pc'[u] \notin {"unlock_EntryList", "unlock_store", "clearing"}
    BY DEF Off, Outside, Targets
  <2>2. HeirInv' /\ WakeInv'
    BY <1>5, ThreadsAssumption DEF HeirInv, WakeInv
  <2>3. PollInv' /\ ClearInv'
    BY <2>1 DEF PollInv, ClearInv
  <2> QED BY <2>2, <2>3, <1>10 DEF SInv, EventInv, Unparks
<1> QED
  BY <1>9, <1>10 DEF Undisturbed

\* Where a thread reads the monitor of the object and is on no list of it.
Beside == {"hash_monitor", "hash_header", "unlock"}

\* A thread outside the monitor is not in wait().
LEMMA OffWait ==
  ASSUME Inv, NEW t \in Threads, pc[t] \in Outside \cup Beside
  PROVE  pc[t] \in Off /\ ~loc[t].inwait
BY OfThread DEF Control, Outside, Beside, Off, Targets, Plain, Inflation, Preparing, Unlocking

\* The same after a step.
LEMMA OffWaitNext ==
  ASSUME Inv', NEW t \in Threads, pc'[t] \in (Outside \cup Targets \cup Beside) \ {"enter", "exit"}
  PROVE  pc'[t] \in Off /\ ~loc'[t].inwait
<1>1. Control(t)' BY DEF Inv, ThreadInv
<1> QED
  BY <1>1 DEF Control, Outside, Beside, Off, Targets, Plain, Owned, Inflation, Preparing, Unlocking

\* A step of t outside the monitor, that prepares none.
LEMMA AwayStep ==
  ASSUME Inv, Inv', QInv, NEW t \in Threads, pc[t] \in Outside \cup Beside,
         pc'[t] \in Outside \cup Targets \cup Beside,
         pc'[t] \in {"enter", "exit"} => ~loc'[t].inwait,
         pc'[t] \notin {"inflate_neutral", "inflate_publish"},
         \A u \in Threads \ {t} : pc'[u] = pc[u] /\ loc'[u] = loc[u] /\ mon'[u] = mon[u],
         UNCHANGED <<om, node, mark>>
  PROVE  Undisturbed
<1>1. pc[t] \in Off /\ ~loc[t].inwait
  BY OffWait
<1>2. pc'[t] \in Off /\ ~loc'[t].inwait
  <2>1. CASE pc'[t] \in {"enter", "exit"}
    BY <2>1 DEF Off, Targets
  <2>2. CASE pc'[t] \notin {"enter", "exit"}
    BY <2>2, OffWaitNext
  <2> QED BY <2>1, <2>2
<1>3. Away(t)
  BY <1>1, <1>2 DEF Away, Outside, Beside
<1>4. OthersEmpty
  BY DEF OthersEmpty, Kept, Emptied, QInv, FreshInv
<1>5. ObjectInv'
  BY DEF QInv, ObjectInv
<1> QED
  BY <1>3, <1>4, <1>5, AwayKeeps

\* A step of t that moves its label only.
LEMMA AwayGo ==
  ASSUME Inv, Inv', QInv, NEW t \in Threads, NEW l, pc[t] \in Outside \cup Beside,
         l \in (Outside \cup Targets \cup Beside) \ {"enter", "exit", "inflate_neutral", "inflate_publish"},
         Go(t, l), \A u \in Threads \ {t} : loc'[u] = loc[u] /\ mon'[u] = mon[u],
         UNCHANGED <<om, node, mark>>
  PROVE  Undisturbed
<1>1. pc \in [Threads -> Labels] BY DEF Inv, Typing
<1>2. pc'[t] = l /\ \A u \in Threads \ {t} : pc'[u] = pc[u]
  BY <1>1 DEF Go
<1> QED BY <1>2, AwayStep

\* A step of t that calls inflate().
LEMMA AwayInflate ==
  ASSUME Inv, Inv', QInv, NEW t \in Threads, NEW label \in Targets, Inflate(t, label),
         pc[t] \in Outside \cup Beside, UNCHANGED <<om, node, mark>>
  PROVE  Undisturbed
<1>1. /\ Shape(t) /\ pc'[t] \in {label, "inflate"} /\ loc'[t].inwait = loc[t].inwait
      /\ (\A u \in Threads \ {t} : mon'[u] = mon[u])
  BY InflateFacts
<1>2. ~loc[t].inwait
  BY OffWait
<1>3. pc'[t] \in Outside \cup Targets /\ pc'[t] \notin {"inflate_neutral", "inflate_publish"}
  BY <1>1 DEF Outside, Targets
<1> QED BY <1>1, <1>2, <1>3, AwayStep DEF Shape

\* Interrupt sets the flag.
LEMMA Interrupt_setAway ==
  ASSUME Inv, Inv', QInv, NEW t \in Threads, Interrupt_set(t), UNCHANGED objectVars
  PROVE  Undisturbed
BY AwayGo DEF Interrupt_set, objectVars, Outside

\* Interrupt unparks its target.
LEMMA Interrupt_unparkAway ==
  ASSUME Inv, Inv', QInv, NEW t \in Threads, Interrupt_unpark(t), UNCHANGED objectVars
  PROVE  Undisturbed
<1>1. loc \in [Threads -> LocRec] BY DEF Inv, Typing
<1>2. \A u \in Threads \ {t} : loc'[u] = loc[u] /\ mon'[u] = mon[u]
  BY <1>1 DEF Interrupt_unpark
<1> QED BY <1>2, AwayGo DEF Interrupt_unpark, objectVars, Outside

\* Inflate finds the object inflated.
LEMMA Inflate_inflatedAway ==
  ASSUME Inv, Inv', QInv, NEW t \in Threads, Inflate_inflated(t)
  PROVE  Undisturbed
<1>1. /\ pc[t] = "inflate" /\ pc[t] \in Inflation /\ Inflate_return(t)
      /\ UNCHANGED <<om, node, mark, held, boxes>> /\ mon' = [mon EXCEPT ![t] = mark.monitor]
  BY DEF Inflate_inflated, objectVars, Inflation
<1>2. Shape(t) /\ pc'[t] \in Targets /\ loc'[t].inwait = loc[t].inwait
  BY <1>1, ReturnFacts
<1>3. ~loc[t].inwait
  BY <1>1, OffWait DEF Outside
<1>4. \A u \in Threads \ {t} : mon'[u] = mon[u]
  BY <1>1 DEF Inv, Typing
<1>5. pc[t] \in Outside /\ pc'[t] \notin {"inflate_neutral", "inflate_publish"}
  BY <1>1, <1>2 DEF Outside, Targets
<1> QED BY <1>1, <1>2, <1>3, <1>4, <1>5, AwayStep DEF Shape

\* Inflate reads the mark.
LEMMA Inflate_readAway ==
  ASSUME Inv, Inv', QInv, NEW t \in Threads, Inflate_read(t)
  PROVE  Undisturbed
BY AwayGo DEF Inflate_read, Outside

\* omAlloc takes the global list, or a new block.
LEMMA omAlloc_listAway ==
  ASSUME Inv, Inv', QInv, NEW t \in Threads, omAlloc_global(t) \/ omAlloc_block(t)
  PROVE  Undisturbed
<1>1. pc[t] = "omAlloc" /\ UNCHANGED <<om, pc, mon, node, loc, mark>>
  BY DEF omAlloc_global, omAlloc_block
<1>2. pc[t] \in Outside
  BY <1>1 DEF Outside
<1> QED BY <1>1, <1>2, AwayStep

\* Slow_enter displaces the mark, or inflates.
LEMMA Slow_enterAway ==
  ASSUME Inv, Inv', QInv, NEW t \in Threads, Slow_enter(t)
  PROVE  Undisturbed
<1>1. pc[t] = "slow_enter" /\ pc[t] \in Outside /\ UNCHANGED <<om, node, mark>>
  BY DEF Slow_enter, Outside
<1>2. CASE Go(t, "stack_lock") /\ UNCHANGED <<loc, mon>>
  BY <1>1, <1>2, AwayGo DEF Outside
<1>3. CASE Go(t, "java") /\ UNCHANGED <<loc, mon>>
  BY <1>1, <1>3, AwayGo DEF Outside
<1>4. CASE Inflate(t, "enter")
  BY <1>1, <1>4, AwayInflate DEF Targets
<1> QED BY <1>2, <1>3, <1>4 DEF Slow_enter

\* Fast_exit looks at the box and at the mark.
LEMMA Fast_exitAway ==
  ASSUME Inv, Inv', QInv, NEW t \in Threads, Fast_exit(t)
  PROVE  Undisturbed
<1>1. pc[t] = "fast_exit" /\ pc[t] \in Outside /\ UNCHANGED <<om, node, mark>>
  BY DEF Fast_exit, Outside, objectVars
<1>2. CASE Go(t, "stack_unlock") /\ UNCHANGED <<loc, mon>>
  BY <1>1, <1>2, AwayGo DEF Outside
<1>3. CASE Go(t, "java") /\ UNCHANGED <<loc, mon>>
  BY <1>1, <1>3, AwayGo DEF Outside
<1>4. CASE Inflate(t, "exit")
  BY <1>1, <1>4, AwayInflate DEF Targets
<1> QED BY <1>2, <1>3, <1>4 DEF Fast_exit

\* Compiled code goes to its fast unlock of the monitor, or to fast_exit.
LEMMA Compiled_unlockAway ==
  ASSUME Inv, Inv', QInv, NEW t \in Threads, Compiled_unlock(t)
  PROVE  Undisturbed
<1>1. pc[t] = "compiled_unlock" /\ pc[t] \in Outside /\ UNCHANGED <<om, node, mark, loc>>
  BY DEF Compiled_unlock, Outside, objectVars
<1>2. \A u \in Threads \ {t} : mon'[u] = mon[u]
  BY DEF Compiled_unlock, Inv, Typing
<1>3. CASE Go(t, "unlock")
  BY <1>1, <1>2, <1>3, AwayGo DEF Beside
<1>4. CASE Go(t, "fast_exit")
  BY <1>1, <1>2, <1>4, AwayGo DEF Outside
<1> QED BY <1>3, <1>4 DEF Compiled_unlock

\* Hash_read finds a hash code, a neutral mark, or inflates.
LEMMA Hash_readAway ==
  ASSUME Inv, Inv', QInv, NEW t \in Threads, Hash_read(t)
  PROVE  Undisturbed
<1>1. pc[t] = "FastHashCode" /\ pc[t] \in Outside /\ UNCHANGED <<om, node, mark>>
  BY DEF Hash_read, Outside
<1>2. CASE Go(t, "java") /\ UNCHANGED <<loc, mon>>
  BY <1>1, <1>2, AwayGo DEF Outside
<1>3. CASE Go(t, "hash_mark") /\ UNCHANGED <<loc, mon>>
  BY <1>1, <1>3, AwayGo DEF Outside
<1>4. CASE Inflate(t, "hash_monitor")
  BY <1>1, <1>4, AwayInflate DEF Targets
<1> QED BY <1>2, <1>3, <1>4 DEF Hash_read, Hash_return

\* Hash_monitor reads the header of the monitor.
LEMMA Hash_monitorAway ==
  ASSUME Inv, Inv', QInv, NEW t \in Threads, Hash_monitor(t)
  PROVE  Undisturbed
<1>1. pc[t] = "hash_monitor" /\ pc[t] \in Beside /\ UNCHANGED <<om, node, mark, loc, mon>>
  BY DEF Hash_monitor, Beside
<1>2. CASE Go(t, "java")
  BY <1>1, <1>2, AwayGo DEF Outside
<1>3. CASE Go(t, "hash_header")
  BY <1>1, <1>3, AwayGo DEF Beside
<1> QED BY <1>2, <1>3 DEF Hash_monitor, Hash_return

\* The calls of Java code and of JNI.
LEMMA CallStepAway ==
  ASSUME Inv, Inv', QInv, NEW t \in Threads, CallStep(t)
  PROVE  Undisturbed
<1>1. pc[t] = "java" /\ pc[t] \in Outside /\ UNCHANGED <<om, node, mark>>
  BY DEF CallStep, Call_enter, Call_exit, Call_wait, Call_notify, Call_hash, Call_interrupt,
     Call_omFlush,
         Call, Outside
<1>2. loc \in [Threads -> LocRec] BY DEF Inv, Typing
<1>3. CASE Call_enter(t)
  <2>1. CASE Go(t, "slow_enter") /\ UNCHANGED <<loc, mon>>
    BY <1>1, <2>1, AwayGo DEF Outside
  <2>2. CASE Inflate(t, "enter")
    BY <1>1, <2>2, AwayInflate DEF Targets
  <2> QED BY <1>3, <2>1, <2>2 DEF Call_enter
<1>4. CASE Call_exit(t)
  <2>1. CASE Go(t, "fast_exit") /\ UNCHANGED <<loc, mon>>
    BY <1>1, <2>1, AwayGo DEF Outside
  <2>2. CASE Go(t, "compiled_unlock") /\ UNCHANGED <<loc, mon>>
    BY <1>1, <2>2, AwayGo DEF Outside
  <2>3. CASE Inflate(t, "exit")
    BY <1>1, <2>3, AwayInflate DEF Targets
  <2> QED BY <1>4, <2>1, <2>2, <2>3 DEF Call_exit
<1>5. CASE Call_wait(t)
  <2>1. \A u \in Threads \ {t} : loc'[u] = loc[u] /\ mon'[u] = mon[u]
    BY <1>2, <1>5 DEF Call_wait
  <2> QED BY <1>1, <1>5, <2>1, AwayGo DEF Call_wait, Outside
<1>6. CASE Call_notify(t)
  <2>1. CASE UNCHANGED <<pc, loc, mon>>
    BY <1>1, <2>1, AwayStep
  <2>2. CASE \E op \in {"notify", "notifyAll"} : Inflate(t, op)
    BY <1>1, <2>2, AwayInflate DEF Targets
  <2> QED BY <1>6, <2>1, <2>2 DEF Call_notify
<1>7. CASE Call_hash(t)
  BY <1>1, <1>7, AwayGo DEF Call_hash, Outside
<1>8. CASE Call_interrupt(t)
  <2>1. \A u \in Threads \ {t} : loc'[u] = loc[u] /\ mon'[u] = mon[u]
    BY <1>2, <1>8 DEF Call_interrupt
  <2> QED BY <1>1, <1>8, <2>1, AwayGo DEF Call_interrupt, Outside
<1>9. CASE Call_omFlush(t)
  BY <1>1, <1>9, AwayStep DEF Call_omFlush
<1> QED BY <1>3, <1>4, <1>5, <1>6, <1>7, <1>8, <1>9 DEF CallStep

\* A step of t on the monitor that it prepares.
LEMMA PrepareAway ==
  ASSUME Inv, Inv', QInv, NEW t \in Threads, NEW m \in Monitors, mark # Inflated(m),
         pc[t] \in Outside, pc'[t] \in Outside,
         \A u \in Threads \ {t} : pc'[u] = pc[u] /\ loc'[u] = loc[u] /\ mon'[u] = mon[u],
         UNCHANGED <<node, mark>>, \A x \in Monitors \ {m} : om'[x] = om[x], Emptied(m)',
         \A u \in Threads \ {t} : pc[u] \in {"inflate_neutral", "inflate_publish"} => mon[u] # m,
         pc'[t] \in {"inflate_neutral", "inflate_publish"} => om'[mon'[t]].object
  PROVE  Undisturbed
<1>1. pc[t] \in Off /\ ~loc[t].inwait /\ pc'[t] \in Off /\ ~loc'[t].inwait
  <2>1. pc'[t] \notin {"enter", "exit"}
    BY DEF Outside
  <2> QED BY <2>1, OffWait, OffWaitNext
<1>2. Away(t)
  BY <1>1 DEF Away, Outside
<1>3. OthersEmpty
  <2> SUFFICES ASSUME NEW x \in Monitors PROVE IF mark = Inflated(x) THEN Kept(x) ELSE Emptied(x)'
    BY DEF OthersEmpty
  <2>1. CASE x = m
    BY <2>1
  <2>2. CASE x # m
    BY <2>2 DEF Kept, Emptied, QInv, FreshInv
  <2> QED BY <2>1, <2>2
<1>4. ASSUME NEW u \in Threads, pc'[u] \in {"inflate_neutral", "inflate_publish"} PROVE om'[mon'[u]].object
  <2>1. CASE u = t
    BY <1>4, <2>1
  <2>2. CASE u # t
    <3>1. pc[u] \in {"inflate_neutral", "inflate_publish"} /\ mon'[u] = mon[u]
      BY <1>4, <2>2
    <3>2. mon[u] \in Monitors \ {m}
      BY <2>2, <3>1, Prepared DEF Preparing
    <3> QED BY <3>1, <3>2 DEF QInv, ObjectInv
  <2> QED BY <2>1, <2>2
<1>5. ASSUME NEW x \in Monitors, mark' = Inflated(x) PROVE om'[x].object
  <2>1. x # m BY <1>5
  <2> QED BY <1>5, <2>1 DEF QInv, ObjectInv
<1>6. ObjectInv'
  BY <1>4, <1>5 DEF ObjectInv
<1> QED
  BY <1>2, <1>3, <1>6, AwayKeeps

\* Recycle() empties the lists.
LEMMA RecycledLists ==
  ASSUME NEW m, om[m] \in MonitorRec
  PROVE  /\ Recycled(m).succ = None /\ Recycled(m).Responsible = None /\ Recycled(m).cxq = <<>>
         /\ Recycled(m).EntryList = <<>> /\ Recycled(m).WaitSet = <<>> /\ Recycled(m) \in MonitorRec
<1> DEFINE n == None
           e == <<>>
           z == 0
           r == om[m]
<1>1. n \in NT /\ e \in Seq(NT) /\ z \in Int /\ r \in MonitorRec
  BY DEF NT
<1>2. Recycled(m) = [r EXCEPT !.succ = n, !.EntryList = e, !.cxq = e, !.WaitSet = e,
                              !.recursions = z, !.Responsible = n]
  BY DEF Recycled
<1> HIDE DEF n, e, z, r
<1>3. /\ Recycled(m).succ = n /\ Recycled(m).Responsible = n /\ Recycled(m).cxq = e
      /\ Recycled(m).EntryList = e /\ Recycled(m).WaitSet = e
  BY <1>1, <1>2 DEF MonitorRec
<1>4. Recycled(m) \in MonitorRec
  BY RecycledFacts
<1> QED BY <1>3, <1>4 DEF n, e

\* What inflate() stores in a monitor leaves its lists alone.
LEMMA SameFields ==
  ASSUME NEW r \in MonitorRec, NEW h, NEW o, NEW n, NEW b, NEW c
  PROVE  /\ LET q == [r EXCEPT !.header = h, !.owner = o, !.count = n, !.object = b] IN
            /\ q.succ = r.succ /\ q.Responsible = r.Responsible /\ q.cxq = r.cxq
            /\ q.EntryList = r.EntryList /\ q.WaitSet = r.WaitSet /\ q.object = b
         /\ LET q == [r EXCEPT !.object = b, !.owner = o] IN
            /\ q.succ = r.succ /\ q.Responsible = r.Responsible /\ q.cxq = r.cxq
            /\ q.EntryList = r.EntryList /\ q.WaitSet = r.WaitSet
         /\ LET q == [r EXCEPT !.header = h, !.owner = o, !.box = c, !.count = n, !.object = b] IN
            /\ q.succ = r.succ /\ q.Responsible = r.Responsible /\ q.cxq = r.cxq
            /\ q.EntryList = r.EntryList /\ q.WaitSet = r.WaitSet /\ q.object = b
         /\ LET q == [r EXCEPT !.header = h, !.object = b] IN
            /\ q.succ = r.succ /\ q.Responsible = r.Responsible /\ q.cxq = r.cxq
            /\ q.EntryList = r.EntryList /\ q.WaitSet = r.WaitSet
         /\ LET q == [r EXCEPT !.header = h] IN
            /\ q.succ = r.succ /\ q.Responsible = r.Responsible /\ q.cxq = r.cxq
            /\ q.EntryList = r.EntryList /\ q.WaitSet = r.WaitSet /\ q.object = r.object
            /\ q.WaitSetLock = r.WaitSetLock /\ q.owner = r.owner
BY DEF MonitorRec

\* omAlloc takes a monitor of the thread's own list.
LEMMA omAlloc_ownAway ==
  ASSUME Inv, Inv', QInv, NEW t \in Threads, omAlloc_own(t)
  PROVE  Undisturbed
<1>1. PICK m : m = First(free[t])
  OBVIOUS
<1> DEFINE q == IF seen[t].kind = "neutral"
                THEN [Recycled(m) EXCEPT !.header = seen[t], !.owner = None, !.count = 0, !.object = TRUE]
                ELSE Recycled(m)
           l == IF seen[t].kind = "neutral" THEN "inflate_neutral" ELSE "inflate_stack"
<1>2. /\ pc[t] = "omAlloc" /\ free[t] # <<>> /\ mon' = [mon EXCEPT ![t] = m] /\ om' = [om EXCEPT ![m] = q]
      /\ Go(t, l) /\ UNCHANGED <<node, loc, mark>>
  BY <1>1 DEF omAlloc_own
<1>3. m \in Members(free[t]) /\ m \in 1..blocks /\ m \in Monitors
  <2>1. free[t] \in Seq(Monitors)
    BY DEF Inv, Typing
  <2>2. 1 \in DOMAIN free[t] /\ m = free[t][1]
    BY <1>1, <1>2, <2>1 DEF First
  <2> QED BY <2>2, Lists2 DEF Members
<1>4. mark # Inflated(m) /\ \A u \in Threads : pc[u] \in Preparing => mon[u] # m
  <2>1. Placed(m) BY <1>3 DEF Inv, PoolInv
  <2> QED BY <1>3, <2>1 DEF Placed
<1>5. om \in [Monitors -> MonitorRec] /\ om[m] \in MonitorRec
  BY <1>3 DEF Inv, Typing
<1>6. /\ q.succ = None /\ q.Responsible = None /\ q.cxq = <<>> /\ q.EntryList = <<>> /\ q.WaitSet = <<>>
      /\ (seen[t].kind = "neutral" => q.object)
  <2> DEFINE h == seen[t]
             o == None
             n == 0
             b == TRUE
             p == [Recycled(m) EXCEPT !.header = h, !.owner = o, !.count = n, !.object = b]
  <2>1. q = IF seen[t].kind = "neutral" THEN p ELSE Recycled(m)
    OBVIOUS
  <2>2. b = TRUE OBVIOUS
  <2> HIDE DEF h, o, n, b, q
  <2>3. /\ Recycled(m).succ = None /\ Recycled(m).Responsible = None /\ Recycled(m).cxq = <<>>
        /\ Recycled(m).EntryList = <<>> /\ Recycled(m).WaitSet = <<>> /\ Recycled(m) \in MonitorRec
    BY <1>5, RecycledLists
  <2>4. /\ p.succ = Recycled(m).succ /\ p.Responsible = Recycled(m).Responsible /\ p.cxq = Recycled(m).cxq
        /\ p.EntryList = Recycled(m).EntryList /\ p.WaitSet = Recycled(m).WaitSet /\ p.object = b
    BY <2>3, SameFields
  <2> HIDE DEF p
  <2> QED BY <2>1, <2>2, <2>3, <2>4
<1> HIDE DEF q
<1>7. om'[m] = q /\ \A x \in Monitors \ {m} : om'[x] = om[x]
  BY <1>2, <1>3, <1>5
<1>8. Emptied(m)'
  BY <1>6, <1>7 DEF Emptied
<1>9. /\ pc'[t] = l /\ mon'[t] = m
      /\ \A u \in Threads \ {t} : pc'[u] = pc[u] /\ loc'[u] = loc[u] /\ mon'[u] = mon[u]
  BY <1>2 DEF Go, Inv, Typing
<1>10. pc[t] \in Outside /\ pc'[t] \in Outside
  BY <1>2, <1>9 DEF Outside
<1>11. pc'[t] \in {"inflate_neutral", "inflate_publish"} => om'[mon'[t]].object
  BY <1>6, <1>7, <1>9
<1>12. \A u \in Threads \ {t} : pc[u] \in {"inflate_neutral", "inflate_publish"} => mon[u] # m
  BY <1>4 DEF Preparing
<1> HIDE DEF l
<1> QED BY <1>2, <1>3, <1>4, <1>7, <1>8, <1>9, <1>10, <1>11, <1>12, PrepareAway

\* Inflate loses the race and gives its monitor back.
LEMMA Inflate_failedAway ==
  ASSUME Inv, Inv', QInv, NEW t \in Threads, Inflate_failed(t)
  PROVE  Undisturbed
<1>1. pc[t] \in {"inflate_stack", "inflate_neutral"} /\ pc[t] \in Preparing
  BY DEF Inflate_failed, Preparing
<1>2. PICK m \in Monitors : m = mon[t]
  BY <1>1, Prepared
<1> DEFINE q == [Recycled(m) EXCEPT !.object = FALSE, !.owner = None]
<1>3. om' = [om EXCEPT ![m] = q] /\ Go(t, "inflate") /\ UNCHANGED <<mon, node, loc, mark>>
  BY <1>2 DEF Inflate_failed
<1>4. /\ mark # Inflated(m) /\ (\A u \in Threads \ {t} : pc[u] \in Preparing => mon[u] # m)
      /\ om[m] \in MonitorRec
  BY <1>1, <1>2, Prepared
<1>5. /\ q.succ = None /\ q.Responsible = None /\ q.cxq = <<>> /\ q.EntryList = <<>> /\ q.WaitSet = <<>>
  <2> DEFINE o == None
             b == FALSE
  <2>1. q = [Recycled(m) EXCEPT !.object = b, !.owner = o]
    OBVIOUS
  <2> HIDE DEF o, b, q
  <2>2. /\ Recycled(m).succ = None /\ Recycled(m).Responsible = None /\ Recycled(m).cxq = <<>>
        /\ Recycled(m).EntryList = <<>> /\ Recycled(m).WaitSet = <<>> /\ Recycled(m) \in MonitorRec
    BY <1>4, RecycledLists
  <2> QED BY <2>1, <2>2, SameFields
<1> HIDE DEF q
<1>6. om'[m] = q /\ \A x \in Monitors \ {m} : om'[x] = om[x]
  BY <1>3 DEF Inv, Typing
<1>7. Emptied(m)'
  BY <1>5, <1>6 DEF Emptied
<1>8. /\ pc'[t] = "inflate"
      /\ \A u \in Threads \ {t} : pc'[u] = pc[u] /\ loc'[u] = loc[u] /\ mon'[u] = mon[u]
  BY <1>3 DEF Go, Inv, Typing
<1>9. pc[t] \in Outside /\ pc'[t] \in Outside
  BY <1>1, <1>8 DEF Outside
<1>10. \A u \in Threads \ {t} : pc[u] \in {"inflate_neutral", "inflate_publish"} => mon[u] # m
  BY <1>4 DEF Preparing
<1> QED BY <1>3, <1>4, <1>6, <1>7, <1>8, <1>9, <1>10, PrepareAway

\* Inflate fills the monitor in from the stack of the owner.
LEMMA Inflate_dmwAway ==
  ASSUME Inv, Inv', QInv, NEW t \in Threads, Inflate_dmw(t)
  PROVE  Undisturbed
<1>1. pc[t] = "inflate_dmw" /\ pc[t] \in Preparing
  BY DEF Inflate_dmw, Preparing
<1>2. PICK m \in Monitors : m = mon[t]
  BY <1>1, Prepared
<1>3. PICK h, o : h = boxes[seen[t].thread][seen[t].box] /\ o = seen[t].thread
  OBVIOUS
<1> DEFINE q == [om[m] EXCEPT !.header = h, !.owner = o, !.box = TRUE, !.count = 0, !.object = TRUE]
<1>4. om' = [om EXCEPT ![m].header = h, ![m].owner = o, ![m].box = TRUE, ![m].count = 0, ![m].object = TRUE]
  BY <1>2, <1>3 DEF Inflate_dmw
<1>5. om \in [Monitors -> MonitorRec] /\ om[m] \in MonitorRec
  BY DEF Inv, Typing
<1>6. om' = [om EXCEPT ![m] = q]
  BY <1>4, <1>5
<1>7. Go(t, "inflate_publish") /\ UNCHANGED <<mon, node, loc, mark>>
  BY DEF Inflate_dmw, objectVars
<1>8. mark # Inflated(m) /\ (\A u \in Threads \ {t} : pc[u] \in Preparing => mon[u] # m)
  BY <1>1, <1>2, Prepared
<1>9. /\ q.succ = om[m].succ /\ q.Responsible = om[m].Responsible /\ q.cxq = om[m].cxq
      /\ q.EntryList = om[m].EntryList /\ q.WaitSet = om[m].WaitSet /\ q.object
  <2> DEFINE n == 0
             b == TRUE
  <2>1. q = [om[m] EXCEPT !.header = h, !.owner = o, !.box = b, !.count = n, !.object = b] /\ b = TRUE
    OBVIOUS
  <2> HIDE DEF n, b, q
  <2> QED BY <1>5, <2>1, SameFields
<1> HIDE DEF q
<1>10. om'[m] = q /\ \A x \in Monitors \ {m} : om'[x] = om[x]
  BY <1>5, <1>6
<1>11. Emptied(m)'
  BY <1>8, <1>9, <1>10 DEF Emptied, QInv, FreshInv
<1>12. /\ pc'[t] = "inflate_publish" /\ mon'[t] = m
       /\ \A u \in Threads \ {t} : pc'[u] = pc[u] /\ loc'[u] = loc[u] /\ mon'[u] = mon[u]
  BY <1>2, <1>7 DEF Go, Inv, Typing
<1>13. pc[t] \in Outside /\ pc'[t] \in Outside
  BY <1>1, <1>12 DEF Outside
<1>14. \A u \in Threads \ {t} : pc[u] \in {"inflate_neutral", "inflate_publish"} => mon[u] # m
  BY <1>8 DEF Preparing
<1> QED BY <1>7, <1>8, <1>9, <1>10, <1>11, <1>12, <1>13, <1>14, PrepareAway

\* Hash_header swaps a hash code into the header of the monitor.
LEMMA Hash_headerAway ==
  ASSUME Inv, Inv', QInv, NEW t \in Threads, Hash_header(t)
  PROVE  Undisturbed
<1>1. pc[t] = "hash_header" /\ pc[t] \in Beside /\ UNCHANGED <<node, mark, loc, mon>> /\ Go(t, "java")
  BY DEF Hash_header, Beside, Hash_return
<1>2. CASE UNCHANGED om
  BY <1>1, <1>2, AwayGo DEF Outside
<1>3. CASE \E h : Set(t, [this(t) EXCEPT !.header = Neutral(h)])
  <2>1. PICK h : om' = [om EXCEPT ![mon[t]] = [om[mon[t]] EXCEPT !.header = h]]
    BY <1>3 DEF Set, this
  <2>2. mon[t] \in Monitors /\ mark = Inflated(mon[t]) /\ om \in [Monitors -> MonitorRec] /\ om[mon[t]] \in MonitorRec
    BY <1>1, AtThe DEF Outside
  <2> DEFINE q == [om[mon[t]] EXCEPT !.header = h]
  <2>3. /\ q.succ = om[mon[t]].succ /\ q.Responsible = om[mon[t]].Responsible /\ q.cxq = om[mon[t]].cxq
        /\ q.EntryList = om[mon[t]].EntryList /\ q.WaitSet = om[mon[t]].WaitSet /\ q.object = om[mon[t]].object
        /\ q.WaitSetLock = om[mon[t]].WaitSetLock /\ q.owner = om[mon[t]].owner
    BY <2>2, SameFields
  <2> HIDE DEF q
  <2>4. om'[mon[t]] = q /\ \A x \in Monitors \ {mon[t]} : om'[x] = om[x]
    BY <2>1, <2>2 DEF q
  <2>5. OthersEmpty
    <3> SUFFICES ASSUME NEW x \in Monitors PROVE IF mark = Inflated(x) THEN Kept(x) ELSE Emptied(x)'
      BY DEF OthersEmpty
    <3>1. CASE x = mon[t]
      BY <2>2, <2>3, <2>4, <3>1 DEF Kept
    <3>2. CASE x # mon[t]
      BY <2>4, <3>2 DEF Kept, Emptied, QInv, FreshInv
    <3> QED BY <3>1, <3>2
  <2>6. pc'[t] = "java" /\ \A u \in Threads \ {t} : pc'[u] = pc[u]
    BY <1>1 DEF Go, Inv, Typing
  <2>7. \A x \in Monitors : om'[x].object = om[x].object
    BY <2>3, <2>4
  <2>8. ObjectInv'
    <3>1. ASSUME NEW u \in Threads, pc'[u] \in {"inflate_neutral", "inflate_publish"} PROVE om'[mon'[u]].object
      <4>1. pc[u] \in {"inflate_neutral", "inflate_publish"} /\ mon'[u] = mon[u]
        BY <1>1, <2>6, <3>1
      <4>2. mon[u] \in Monitors
        BY <4>1, Prepared DEF Preparing
      <4> QED BY <2>7, <4>1, <4>2 DEF QInv, ObjectInv
    <3> QED BY <1>1, <2>7, <3>1 DEF QInv, ObjectInv
  <2>9. pc[t] \in Off /\ ~loc[t].inwait
    BY <1>1, OffWait
  <2>10. Away(t)
    BY <1>1, <2>6, <2>9 DEF Away, Off, Outside
  <2> QED BY <1>1, <2>5, <2>8, <2>10, AwayKeeps
<1> QED BY <1>2, <1>3 DEF Hash_header

\* The mark changes while the object is not inflated.
LEMMA FlatChange ==
  ASSUME Inv, Inv', QInv, NEW t \in Threads, mark.kind # "inflated", UNCHANGED <<om, node>>,
         pc'[t] \in Off, ~loc'[t].inwait, pc'[t] \notin {"inflate_neutral", "inflate_publish"},
         \A u \in Threads \ {t} : pc'[u] = pc[u] /\ loc'[u] = loc[u] /\ mon'[u] = mon[u],
         \A m \in Monitors : mark' = Inflated(m) => om[m].object
  PROVE  Undisturbed
<1>1. ASSUME NEW u \in Threads PROVE pc'[u] \in Off /\ ~loc'[u].inwait /\ TState(u)' = "RUN"
  <2>1. pc[u] \in Outside /\ ~loc[u].inwait
    BY Flat
  <2>2. pc[u] \in Off /\ Control(u)
    BY <2>1, OfThread DEF Off
  <2>3. TState(u) = "RUN"
    BY <2>1, <2>2, OffRuns DEF QInv, NodeInv
  <2> QED BY <2>1, <2>2, <2>3 DEF TState
<1>2. \A m \in Monitors : Emptied(m)'
  BY MarkFacts DEF QInv, FreshInv, Emptied
<1>3. ObjectInv'
  BY DEF QInv, ObjectInv
<1> QED
  BY <1>1, <1>2, <1>3, NobodyInside

\* Inflate swaps INFLATING into the mark of a stack lock.
LEMMA Inflate_stackAway ==
  ASSUME Inv, Inv', QInv, NEW t \in Threads, Inflate_stack(t)
  PROVE  Undisturbed
<1>1. /\ pc[t] = "inflate_stack" /\ mark = seen[t] /\ mark' = INFLATING /\ Go(t, "inflate_dmw")
      /\ UNCHANGED <<om, mon, node, loc>>
  BY DEF Inflate_stack
<1>2. mark.kind = "stack"
  BY <1>1, MarkFacts DEF Inv, InflateInv
<1>3. pc'[t] = "inflate_dmw" /\ \A u \in Threads \ {t} : pc'[u] = pc[u]
  BY <1>1 DEF Go, Inv, Typing
<1>4. pc'[t] \in Off /\ ~loc'[t].inwait
  BY <1>3, OffWaitNext DEF Outside
<1>5. \A m \in Monitors : mark' # Inflated(m)
  BY <1>1, MarkFacts
<1> QED BY <1>1, <1>2, <1>3, <1>4, <1>5, FlatChange

\* inflate() makes the monitor it has prepared the object's.
LEMMA PublishAway ==
  ASSUME Inv, Inv', QInv, NEW t \in Threads, pc[t] \in {"inflate_neutral", "inflate_publish"},
         mark.kind # "inflated", mark' = Inflated(mon[t]), Inflate_return(t),
         UNCHANGED <<om, mon, node, boxes, held>>
  PROVE  Undisturbed
<1>1. pc[t] \in Inflation /\ pc[t] \in Outside
  BY DEF Inflation, Preparing, Outside
<1>2. Shape(t) /\ pc'[t] \in Targets /\ loc'[t].inwait = loc[t].inwait
  BY <1>1, ReturnFacts
<1>3. pc'[t] \in Off /\ ~loc'[t].inwait /\ pc'[t] \notin {"inflate_neutral", "inflate_publish"}
  BY <1>1, <1>2, OffWait DEF Off, Targets
<1>4. ASSUME NEW m \in Monitors, mark' = Inflated(m) PROVE om[m].object
  <2>1. Inflated(m) = Inflated(mon[t])
    BY <1>4
  <2>2. m = mon[t]
    BY <2>1, MarkFacts
  <2> QED BY <2>2 DEF QInv, ObjectInv
<1> QED BY <1>2, <1>3, <1>4, FlatChange DEF Shape

\* Inflate swaps the monitor into a neutral mark, or stores it over INFLATING.
LEMMA Inflate_publishAway ==
  ASSUME Inv, Inv', QInv, NEW t \in Threads, Inflate_neutral(t) \/ Inflate_publish(t)
  PROVE  Undisturbed
<1>1. CASE Inflate_neutral(t)
  <2>1. pc[t] = "inflate_neutral" /\ mark = seen[t] /\ mark' = Inflated(mon[t]) /\ Inflate_return(t)
        /\ UNCHANGED <<om, mon, node, boxes, held>>
    BY <1>1 DEF Inflate_neutral
  <2>2. mark.kind = "neutral"
    BY <2>1, MarkFacts DEF Inv, InflateInv, Neutrals
  <2> QED BY <2>1, <2>2, PublishAway
<1>2. CASE Inflate_publish(t)
  <2>1. pc[t] = "inflate_publish" /\ mark' = Inflated(mon[t]) /\ Inflate_return(t)
        /\ UNCHANGED <<om, mon, node, boxes, held>>
    BY <1>2 DEF Inflate_publish
  <2>2. mark.kind = "inflating"
    BY <2>1, MarkFacts DEF Inv, InflateInv, Inflater
  <2> QED BY <2>1, <2>2, PublishAway
<1> QED BY <1>1, <1>2

\* Stack_lock swaps the box into the mark, or inflates.
LEMMA Stack_lockAway ==
  ASSUME Inv, Inv', QInv, NEW t \in Threads, Stack_lock(t)
  PROVE  Undisturbed
<1>1. pc[t] = "stack_lock" /\ pc[t] \in Outside /\ UNCHANGED <<om, node>>
  BY DEF Stack_lock, Outside
<1>2. CASE mark = boxes[t][EnterBox(t)] /\ mark' = Stack(t, EnterBox(t)) /\ Go(t, "java") /\ UNCHANGED <<loc, mon>>
  <2>1. Where(t) = "stack_lock" /\ Control(t) /\ Depths(t)
    BY <1>1, OfThread DEF Where, Inflation, Preparing
  <2>2. boxes[t][1] \in Neutrals /\ Depth(t) = 1
    <3>1. ~loc[t].inwait BY <1>1, OffWait
    <3> QED BY <2>1, <3>1 DEF Depths
  <2>3. mark.kind = "neutral"
    BY <1>2, <2>2, MarkFacts DEF Neutrals, EnterBox, Depth
  <2>4. \A m \in Monitors : mark' # Inflated(m)
    BY <1>2, MarkFacts
  <2>5. pc'[t] = "java" /\ \A u \in Threads \ {t} : pc'[u] = pc[u]
    BY <1>2 DEF Go, Inv, Typing
  <2>6. pc'[t] \in Off /\ ~loc'[t].inwait
    BY <2>5, OffWaitNext DEF Outside
  <2> QED BY <1>1, <1>2, <2>3, <2>4, <2>5, <2>6, FlatChange
<1>3. CASE Inflate(t, "enter") /\ UNCHANGED mark
  BY <1>1, <1>3, AwayInflate DEF Targets
<1> QED BY <1>2, <1>3 DEF Stack_lock

\* Stack_unlock swings the displaced header back, or inflates.
LEMMA Stack_unlockAway ==
  ASSUME Inv, Inv', QInv, NEW t \in Threads, Stack_unlock(t)
  PROVE  Undisturbed
<1>1. pc[t] = "stack_unlock" /\ pc[t] \in Outside /\ UNCHANGED <<om, node>>
  BY DEF Stack_unlock, Outside
<1>2. CASE mark = Stack(t, ExitBox(t)) /\ mark' = boxes[t][ExitBox(t)] /\ Go(t, "java") /\ UNCHANGED <<loc, mon>>
  <2>1. mark.kind = "stack"
    BY <1>2, MarkFacts
  <2>2. Agrees(boxes[mark.thread][1]) /\ mark = Stack(mark.thread, 1)
    BY <2>1, MarkCases, MarkFacts DEF Inv, HeaderInv
  <2>3. mark' \in Neutrals
    BY <1>2, <2>2, MarkFacts DEF Agrees
  <2>4. \A m \in Monitors : mark' # Inflated(m)
    BY <2>3, MarkFacts DEF Neutrals
  <2>5. pc'[t] = "java" /\ \A u \in Threads \ {t} : pc'[u] = pc[u]
    BY <1>2 DEF Go, Inv, Typing
  <2>6. pc'[t] \in Off /\ ~loc'[t].inwait
    BY <2>5, OffWaitNext DEF Outside
  <2> QED BY <1>1, <1>2, <2>1, <2>4, <2>5, <2>6, FlatChange
<1>3. CASE Inflate(t, "exit") /\ UNCHANGED mark
  BY <1>1, <1>3, AwayInflate DEF Targets
<1> QED BY <1>2, <1>3 DEF Stack_unlock

\* Hash_mark swaps a hash code into the mark, or inflates.
LEMMA Hash_markAway ==
  ASSUME Inv, Inv', QInv, NEW t \in Threads, Hash_mark(t)
  PROVE  Undisturbed
<1>1. pc[t] = "hash_mark" /\ pc[t] \in Outside /\ UNCHANGED <<om, node>>
  BY DEF Hash_mark, Outside
<1>2. CASE mark = Neutral(0) /\ (\E h \in Hashes : mark' = Neutral(h)) /\ Go(t, "java") /\ UNCHANGED <<loc, mon>>
  <2>1. mark.kind = "neutral" /\ \A m \in Monitors : mark' # Inflated(m)
    BY <1>2, MarkFacts
  <2>2. pc'[t] = "java" /\ \A u \in Threads \ {t} : pc'[u] = pc[u]
    BY <1>2 DEF Go, Inv, Typing
  <2>3. pc'[t] \in Off /\ ~loc'[t].inwait
    BY <2>2, OffWaitNext DEF Outside
  <2> QED BY <1>1, <1>2, <2>1, <2>2, <2>3, FlatChange
<1>3. CASE Inflate(t, "hash_monitor") /\ UNCHANGED mark
  BY <1>1, <1>3, AwayInflate DEF Targets
<1> QED BY <1>2, <1>3 DEF Hash_mark, Hash_return

\* Deflate takes the monitor from the object when nobody is at it.
LEMMA DeflateAway ==
  ASSUME Inv, Inv', QInv, NEW m \in Monitors, Deflate(m)
  PROVE  Undisturbed
<1>1. /\ mark = Inflated(m) /\ (\A t \in Threads : pc[t] = "java" /\ ~loc[t].inwait)
      /\ om[m].cxq = <<>> /\ om[m].EntryList = <<>>
  BY AllQuiet DEF Deflate, is_busy
<1>2. UNCHANGED <<pc, loc, node, mon>> /\ mark' = om[m].header
  BY DEF Deflate
<1>3. ASSUME NEW u \in Threads
      PROVE  /\ pc[u] \in Off /\ TState(u) = "RUN" /\ pc[u] \notin Naming /\ Site(u) \notin Linked \cup {"entered"}
             /\ ~OnEntries(u) /\ ~OnWaits(u)
  <2>1. pc[u] \in Off /\ Control(u)
    BY <1>1, OfThread DEF Off, Outside
  <2>2. States(u) = {"RUN"} /\ pc[u] \notin Naming /\ Site(u) \notin Linked \cup {"entered"}
    BY <1>1, <2>1, OffRuns
  <2>3. TState(u) = "RUN"
    BY <2>2 DEF QInv, NodeInv
  <2> QED BY <2>1, <2>2, <2>3 DEF OnEntries, OnWaits
<1>4. Heavy /\ mark.monitor = m
  BY <1>1, MarkFacts DEF Heavy
<1>5. Succ = None /\ Resp = None /\ Waits = <<>>
  <2>1. Succ \in NT /\ Resp \in NT /\ Waits \in Seq(NT)
    BY <1>4, WordTypes
  <2>2. Succ = None
    BY <1>3, <1>4, <2>1 DEF QInv, SuccInv, NT
  <2>3. Resp = None
    BY <1>3, <1>4, <2>1 DEF QInv, RespInv, NT
  <2>4. ListOf(Waits, {u \in Threads : OnWaits(u)})
    BY <1>4 DEF QInv, ListInv
  <2>5. {u \in Threads : OnWaits(u)} = {}
    BY <1>3
  <2> QED BY <2>1, <2>2, <2>3, <2>4, <2>5, EmptyList
<1>6. Emptied(m)
  BY <1>1, <1>4, <1>5 DEF Emptied, Succ, Resp, Waits
<1>7. om \in [Monitors -> MonitorRec] /\ om[m] \in MonitorRec
  BY DEF Inv, Typing
<1> DEFINE q == [om[m] EXCEPT !.header = None, !.object = FALSE]
<1>8. om' = [om EXCEPT ![m] = q]
  BY DEF Deflate
<1>9. /\ q.succ = om[m].succ /\ q.Responsible = om[m].Responsible /\ q.cxq = om[m].cxq
      /\ q.EntryList = om[m].EntryList /\ q.WaitSet = om[m].WaitSet
  <2> DEFINE n == None
             b == FALSE
  <2>1. q = [om[m] EXCEPT !.header = n, !.object = b]
    OBVIOUS
  <2> HIDE DEF n, b, q
  <2> QED BY <1>7, <2>1, SameFields
<1> HIDE DEF q
<1>10. om'[m] = q /\ \A x \in Monitors \ {m} : om'[x] = om[x]
  BY <1>7, <1>8
<1>11. ASSUME NEW x \in Monitors PROVE Emptied(x)'
  <2>1. CASE x = m
    BY <1>6, <1>9, <1>10, <2>1 DEF Emptied
  <2>2. CASE x # m
    <3>1. mark # Inflated(x) BY <1>1, <2>2, MarkFacts
    <3> QED BY <1>10, <2>2, <3>1 DEF Emptied, QInv, FreshInv
  <2> QED BY <2>1, <2>2
<1>12. \A x \in Monitors : mark' # Inflated(x)
  <2>1. mark' \in Neutrals
    BY <1>2, <1>4 DEF Inv, HeaderInv, Agrees, Heavy
  <2> QED BY <2>1, MarkFacts DEF Neutrals
<1>13. ObjectInv'
  BY <1>1, <1>2, <1>12 DEF ObjectInv
<1>14. \A u \in Threads : pc'[u] \in Off /\ ~loc'[u].inwait /\ TState(u)' = "RUN"
  BY <1>1, <1>2, <1>3 DEF TState
<1> QED
  BY <1>11, <1>13, <1>14, NobodyInside

-----------------------------------------------------------------------------
(* Every step keeps the invariant of the queues *)

\* The steps of TrySpin.
LEMMA TrySpinQueues ==
  ASSUME Inv, QInv, NEW t \in Threads, TrySpin(t), UNCHANGED objectVars
  PROVE  QInv'
BY Spin_tryCalm, Spin_succCalm, Spin_storeCalm, Spin_againCalm, Spin_gotCalm, Spin_abortCalm,
   Spin_clearCalm, Spin_retryCalm, Clear_storeCalm
   DEF TrySpin

\* The steps of enter and EnterI.
LEMMA EnterQueues ==
  ASSUME Inv, QInv, NEW t \in Threads, Enter(t), UNCHANGED objectVars
  PROVE  QInv'
BY Enter_casCalm, Enter_recursiveCalm, Enter_contendedCalm, EnterICalm, EnqueueMoves, PushMoves,
   Push_failedCalm, Responsible_readCalm, Responsible_casCalm, ContendCalm, Park_kindCalm, ParkCalm,
   WokenCalm, FutileCalm, EgressMoves, EnteredMoves
   DEF Enter

\* The steps of exit and ExitEpilog.
LEMMA ExitQueues ==
  ASSUME Inv, QInv, NEW t \in Threads, Exit(t), UNCHANGED objectVars
  PROVE  QInv'
BY Exit_prologCalm, DropCalm, Exit_EntryListCalm, Exit_cxqCalm, Exit_succCalm, Exit_casCalm,
   Drain_noneCalm, DrainMoves, DrainedCalm, Epilog_succCalm, Epilog_dropCalm, Epilog_unparkCalm
   DEF Exit

\* The steps of the unlock of compiled code.
LEMMA Fast_UnlockQueues ==
  ASSUME Inv, QInv, NEW t \in Threads, Fast_Unlock(t), UNCHANGED objectVars
  PROVE  QInv'
BY Unlock_cxqCalm, Unlock_EntryListCalm, Unlock_storeCalm, Unlock_succCalm, Unlock_dropCalm,
   Unlock_recheckCalm, Unlock_casCalm
   DEF Fast_Unlock

\* The steps of wait and ReenterI.
LEMMA WaitQueues ==
  ASSUME Inv, QInv, NEW t \in Threads, Wait(t), UNCHANGED objectVars
  PROVE  QInv'
BY Wait_interruptedCalm, Wait_nodeMoves, Wait_addMoves, Wait_exitedCalm, Wait_checkCalm,
   Wait_notifiedCalm, Wait_parkCalm, Wait_stateCalm, Wait_unlinkMoves, Wait_wasCalm, ReenterCalm,
   Reenter_parkCalm, Reenter_wokenCalm, Reenter_egressMoves, Wait_endCalm
   DEF Wait

\* The steps of notify and notifyAll.
LEMMA NotifyQueues ==
  ASSUME Inv, QInv, NEW t \in Threads, Notify(t), UNCHANGED objectVars
  PROVE  QInv'
BY Notify_beginCalm, Notify_dequeueMoves, Notify_setMoves, Notify_linkMoves, NotifyAll_lockMoves,
   NotifyAll_dequeueMoves, NotifyAll_linkMoves
   DEF Notify

\* The steps of a thread outside the monitor.
Outer(t) ==
  \/ Interrupt(t) /\ UNCHANGED objectVars
  \/ InflateStep(t) \/ LockStep(t) \/ HashStep(t) \/ CallStep(t)

\* They disturb nobody.
LEMMA OuterAway ==
  ASSUME Inv, Inv', QInv, NEW t \in Threads, Outer(t)
  PROVE  Undisturbed
<1>1. CASE Interrupt(t) /\ UNCHANGED objectVars
  BY <1>1, Interrupt_setAway, Interrupt_unparkAway DEF Interrupt
<1>2. CASE InflateStep(t)
  BY <1>2, Inflate_inflatedAway, Inflate_readAway, omAlloc_ownAway, omAlloc_listAway,
     Inflate_failedAway, Inflate_publishAway, Inflate_stackAway, Inflate_dmwAway
     DEF InflateStep
<1>3. CASE LockStep(t)
  BY <1>3, Slow_enterAway, Stack_lockAway, Fast_exitAway, Stack_unlockAway, Compiled_unlockAway
     DEF LockStep
<1>4. CASE HashStep(t)
  BY <1>4, Hash_readAway, Hash_markAway, Hash_monitorAway, Hash_headerAway DEF HashStep
<1>5. CASE CallStep(t)
  BY <1>5, CallStepAway
<1> QED BY <1>1, <1>2, <1>3, <1>4, <1>5 DEF Outer

\* The steps of a thread.
LEMMA ThreadQueues ==
  ASSUME Inv, Inv', QInv, NEW t \in Threads,
         \/ MonitorStep(t) /\ UNCHANGED objectVars
         \/ InflateStep(t) \/ LockStep(t) \/ HashStep(t) \/ CallStep(t)
  PROVE  QInv'
<1>1. CASE MonitorStep(t) /\ UNCHANGED objectVars /\ ~Interrupt(t)
  BY <1>1, TrySpinQueues, EnterQueues, ExitQueues, Fast_UnlockQueues, WaitQueues, NotifyQueues
     DEF MonitorStep
<1>2. CASE Outer(t)
  BY <1>2, OuterAway DEF Undisturbed
<1> QED BY <1>1, <1>2 DEF Outer

\* A step that changes nothing.
LEMMA StutterQueues ==
  ASSUME QInv, UNCHANGED <<om, pc, mon, node, loc, mark>>
  PROVE  QInv'
<1>1. /\ Cxq' = Cxq /\ Entries' = Entries /\ Waits' = Waits /\ WaitLock' = WaitLock
      /\ Succ' = Succ /\ Resp' = Resp /\ (Heavy' <=> Heavy)
  BY DEF Cxq, Entries, Waits, WaitLock, Succ, Resp, Heavy
<1>2. \A t : Site(t)' = Site(t) /\ TState(t)' = TState(t)
  BY DEF Site, Where, TState
<1>3. \A t : States(t)' = States(t)
  BY <1>2 DEF States
<1>4. \A t : Carried(t)' <=> Carried(t)
  BY DEF Carried, Hand
<1>5. \A t : (OnCxq(t)' <=> OnCxq(t)) /\ (OnEntries(t)' <=> OnEntries(t)) /\ (OnWaits(t)' <=> OnWaits(t))
  BY <1>2, <1>4 DEF OnCxq, OnEntries, OnWaits
<1>6. ListInv'
  <2>1. CASE Heavy
    <3>1. ListInv BY DEF QInv
    <3>2. {t \in Threads : OnCxq(t)}' = {t \in Threads : OnCxq(t)} BY <1>5
    <3>3. {t \in Threads : OnEntries(t)}' = {t \in Threads : OnEntries(t)} BY <1>5
    <3>4. {t \in Threads : OnWaits(t)}' = {t \in Threads : OnWaits(t)} BY <1>5
    <3> QED BY <1>1, <2>1, <3>1, <3>2, <3>3, <3>4 DEF ListInv, ListOf, IsInjective, Members
  <2>2. CASE ~Heavy
    BY <1>1, <2>2 DEF ListInv
  <2> QED BY <2>1, <2>2
<1>7. NodeInv' /\ HandInv'
  BY <1>1, <1>2, <1>3 DEF QInv, NodeInv, HandInv, TState
<1>8. ExitInv' /\ SuccInv' /\ RespInv'
  BY <1>1, <1>2, <1>5 DEF QInv, ExitInv, SuccInv, RespInv, Members
<1>9. FreshInv' /\ ObjectInv'
  BY DEF QInv, FreshInv, ObjectInv
<1>10. FarInv'
  BY <1>2 DEF QInv, FarInv, Hand
<1> QED BY <1>6, <1>7, <1>8, <1>9, <1>10 DEF QInv

\* Every step.
LEMMA NextQueues == Inv /\ Inv' /\ QInv /\ [Next]_vars => QInv'
<1> SUFFICES ASSUME Inv, Inv', QInv, [Next]_vars PROVE QInv'
  OBVIOUS
<1>1. CASE UNCHANGED vars
  BY <1>1, StutterQueues DEF vars
<1>2. CASE \E t \in Threads : \/ MonitorStep(t) /\ UNCHANGED objectVars
                              \/ InflateStep(t) \/ LockStep(t) \/ HashStep(t) \/ CallStep(t)
  BY <1>2, ThreadQueues
<1>3. CASE \E m \in Monitors : Deflate(m)
  BY <1>3, DeflateAway DEF Undisturbed
<1> QED BY <1>1, <1>2, <1>3 DEF Next

\* The first state: those who wait are on the WaitSet.
LEMMA InitQueues == Init => QInv
<1> SUFFICES ASSUME Init PROVE QInv
  OBVIOUS
<1> USE MonitorsAssumption
<1>1. PICK s \in Scenarios :
        LET W == Members(s.waiters) IN
        /\ mark = (IF s.inflated THEN Inflated(1) ELSE Neutral(0))
        /\ om = [m \in Monitors |-> IF s.inflated /\ m = 1 THEN Waited(s.waiters) ELSE Idle]
        /\ pc = [t \in Threads |-> IF t \in W THEN "wait_park" ELSE "java"]
        /\ node = [t \in Threads |-> IF t \in W THEN [TState |-> "WAIT", notified |-> 0] ELSE NoNode]
        /\ loc = [t \in Threads |-> [NoLocals EXCEPT !.inwait = t \in W, !.timed = t \in W]]
  BY DEF Init
<1> DEFINE W == Members(s.waiters)
<1>2. s.waiters \in Seq(Threads) /\ IsInjective(s.waiters) /\ s.inflated \in BOOLEAN
  BY ScenariosAssumption
<1>3. ListOf(s.waiters, W) /\ W \subseteq Threads
  BY <1>2 DEF ListOf, Members
<1> HIDE DEF W
<1>4. \A t \in Threads : pc[t] = (IF t \in W THEN "wait_park" ELSE "java")
                         /\ TState(t) = (IF t \in W THEN "WAIT" ELSE "RUN")
  BY <1>1 DEF W, TState, NoNode
<1>5. \A t \in Threads : t \in W => loc[t].inwait
  <2> SUFFICES ASSUME NEW t \in Threads, t \in W PROVE loc[t].inwait
    OBVIOUS
  <2>1. PICK b \in BOOLEAN : b <=> t \in W
    OBVIOUS
  <2>2. loc[t] = [NoLocals EXCEPT !.inwait = b, !.timed = b]
    BY <1>1, <2>1 DEF W
  <2>3. [NoLocals EXCEPT !.inwait = b, !.timed = b].inwait = b
    BY <1>2, FirstRecords
  <2> QED BY <2>1, <2>2, <2>3
<1>6. \A t \in Threads : Site(t) = pc[t]
  BY <1>4 DEF Site, Where, Spinning, Inflation, Preparing
<1>7. NodeInv
  <2> SUFFICES ASSUME NEW t \in Threads PROVE TState(t) \in States(t)
    BY DEF NodeInv
  <2>1. CASE t \in W
    BY <1>4, <1>5, <1>6, <2>1 DEF States, Linked, Relinked, Asleep
  <2>2. CASE t \notin W
    BY <1>4, <1>6, <2>2 DEF States, Linked, Relinked, Asleep, Exiting, Last_exit, Released
  <2> QED BY <2>1, <2>2
<1>8. HandInv /\ ExitInv /\ FarInv /\ \A t \in Threads : ~Carried(t)
  BY <1>4 DEF HandInv, ExitInv, FarInv, Carried, Hand
<1>9. \A t \in Threads : (OnCxq(t) <=> t \in {}) /\ (OnEntries(t) <=> t \in {}) /\ (OnWaits(t) <=> t \in W)
  BY <1>4, <1>6, <1>8 DEF OnCxq, OnEntries, OnWaits
<1>10. /\ Idle.cxq = <<>> /\ Idle.EntryList = <<>> /\ Idle.WaitSet = <<>> /\ Idle.succ = None /\ Idle.Responsible = None
       /\ ~Idle.object
  BY DEF Idle
<1>11. LET q == Waited(s.waiters) IN
       /\ q.cxq = <<>> /\ q.EntryList = <<>> /\ q.WaitSet = s.waiters /\ q.succ = None /\ q.Responsible = None
       /\ q.object
  BY DEF Waited, Idle
<1>12. 1 \in Monitors /\ \A m \in Monitors : om[m] = (IF s.inflated /\ m = 1 THEN Waited(s.waiters) ELSE Idle)
  <2>1. om = [m \in Monitors |-> IF s.inflated /\ m = 1 THEN Waited(s.waiters) ELSE Idle]
    BY <1>1
  <2> QED BY <2>1
<1>13. \A m \in Monitors : mark = Inflated(m) <=> (s.inflated /\ m = 1)
  <2>1. CASE s.inflated
    <3>1. mark = Inflated(1) BY <1>1, <2>1
    <3> QED BY <2>1, <3>1, MarkFacts
  <2>2. CASE ~s.inflated
    <3>1. mark = Neutral(0) BY <1>1, <2>2
    <3> QED BY <2>2, <3>1, MarkFacts
  <2> QED BY <2>1, <2>2
<1>14. FreshInv
  BY <1>10, <1>12, <1>13 DEF FreshInv
<1>15. ObjectInv
  BY <1>4, <1>11, <1>12, <1>13 DEF ObjectInv
<1>16. Heavy => Cxq = <<>> /\ Entries = <<>> /\ Waits = s.waiters /\ Succ = None /\ Resp = None
  <2> SUFFICES ASSUME Heavy PROVE Cxq = <<>> /\ Entries = <<>> /\ Waits = s.waiters /\ Succ = None /\ Resp = None
    OBVIOUS
  <2>1. s.inflated
    BY <1>1, MarkFacts DEF Heavy
  <2>2. mark.monitor = 1
    BY <1>1, <2>1, MarkFacts
  <2>3. om[1] = Waited(s.waiters)
    BY <1>12, <2>1
  <2> QED BY <2>2, <2>3, <1>11 DEF Cxq, Entries, Waits, Succ, Resp
<1>17. SuccInv /\ RespInv
  BY <1>16, ThreadsAssumption DEF SuccInv, RespInv
<1>18. ListInv
  <2> SUFFICES ASSUME Heavy
               PROVE  /\ ListOf(Cxq, {t \in Threads : OnCxq(t)}) /\ ListOf(Entries, {t \in Threads : OnEntries(t)})
                      /\ ListOf(Waits, {t \in Threads : OnWaits(t)})
    BY DEF ListInv
  <2>1. {t \in Threads : OnCxq(t)} = {} /\ {t \in Threads : OnEntries(t)} = {} /\ {t \in Threads : OnWaits(t)} = W
    BY <1>3, <1>9
  <2> QED BY <1>3, <1>16, <2>1, NoList
<1> QED
  BY <1>7, <1>8, <1>14, <1>15, <1>17, <1>18 DEF QInv

\* Where a thread is, what its ObjectWaiter says, and the lists of the
\* monitor of the object fit together in every reachable state.
THEOREM QueuesHold == Spec => [](Inv /\ QInv)
<1>1. Init => QInv
  BY InitQueues
<1>2. Inv /\ Inv' /\ QInv /\ [Next]_vars => QInv'
  BY NextQueues
<1> QED
  BY <1>1, <1>2, InvariantHolds, PTL DEF Spec

-----------------------------------------------------------------------------
(* What the lists show *)

\* Two lists with no thread in common, one after the other.
LEMMA JoinLists ==
  ASSUME NEW S, NEW T, NEW s \in Seq(NT), NEW r \in Seq(NT), ListOf(s, S), ListOf(r, T), S \cap T = {}
  PROVE  ListOf(s \o r, S \cup T) /\ s \o r \in Seq(NT)
<1> DEFINE q == s \o r
<1>1. /\ q \in Seq(NT) /\ Len(q) = Len(s) + Len(r) /\ Len(s) \in Nat /\ Len(r) \in Nat
      /\ \A i \in 1..Len(s) : q[i] = s[i]
  OBVIOUS
<1>2. \A i \in 1..Len(q) : i > Len(s) => i - Len(s) \in 1..Len(r) /\ q[i] = r[i - Len(s)]
  OBVIOUS
<1>3. \A i \in 1..Len(r) : q[i + Len(s)] = r[i]
  OBVIOUS
<1> HIDE DEF q
<1>4. DOMAIN q = 1..Len(q) /\ DOMAIN s = 1..Len(s) /\ DOMAIN r = 1..Len(r)
  BY <1>1
<1>5. \A i \in 1..Len(s) : s[i] \in S
  BY <1>4 DEF ListOf, Members
<1>6. \A i \in 1..Len(r) : r[i] \in T
  BY <1>4 DEF ListOf, Members
<1>7. \A a, b \in 1..Len(s) : s[a] = s[b] => a = b
  BY <1>4 DEF ListOf, IsInjective
<1>8. \A a, b \in 1..Len(r) : r[a] = r[b] => a = b
  BY <1>4 DEF ListOf, IsInjective
<1>9. IsInjective(q)
  <2> SUFFICES ASSUME NEW a \in 1..Len(q), NEW b \in 1..Len(q), q[a] = q[b] PROVE a = b
    BY <1>4 DEF IsInjective
  <2>1. CASE a <= Len(s) /\ b <= Len(s)
    BY <2>1, <1>1, <1>7
  <2>2. CASE a > Len(s) /\ b > Len(s)
    <3>1. a - Len(s) = b - Len(s) BY <2>2, <1>2, <1>8
    <3> QED BY <3>1, <1>1
  <2>3. CASE a <= Len(s) /\ b > Len(s)
    <3>1. q[a] \in S BY <2>3, <1>1, <1>5
    <3>2. q[b] \in T BY <2>3, <1>2, <1>6
    <3> QED BY <3>1, <3>2
  <2>4. CASE a > Len(s) /\ b <= Len(s)
    <3>1. q[b] \in S BY <2>4, <1>1, <1>5
    <3>2. q[a] \in T BY <2>4, <1>2, <1>6
    <3> QED BY <3>1, <3>2
  <2> QED BY <2>1, <2>2, <2>3, <2>4, <1>1
<1>10. Members(q) = S \cup T
  <2>1. ASSUME NEW i \in 1..Len(q) PROVE q[i] \in S \cup T
    <3>1. CASE i <= Len(s) BY <3>1, <1>1, <1>5
    <3>2. CASE i > Len(s) BY <3>2, <1>2, <1>6
    <3> QED BY <3>1, <3>2, <1>1
  <2>2. ASSUME NEW x \in S PROVE x \in Members(q)
    <3>1. PICK i \in 1..Len(s) : s[i] = x BY <1>4 DEF ListOf, Members
    <3>2. i \in 1..Len(q) /\ q[i] = x BY <3>1, <1>1
    <3> QED BY <3>2, <1>4 DEF Members
  <2>3. ASSUME NEW x \in T PROVE x \in Members(q)
    <3>1. PICK i \in 1..Len(r) : r[i] = x BY <1>4 DEF ListOf, Members
    <3>2. i + Len(s) \in 1..Len(q) /\ q[i + Len(s)] = x BY <3>1, <1>1, <1>3
    <3> QED BY <3>2, <1>4 DEF Members
  <2> QED BY <2>1, <2>2, <2>3, <1>4 DEF Members
<1> QED BY <1>1, <1>9, <1>10 DEF ListOf, q

\* A thread whose node is in use is inside the monitor of the object.
LEMMA NodeInside ==
  ASSUME Inv, QInv, NEW t \in Threads, TState(t) # "RUN" \/ loc[t].inwait
  PROVE  pc[t] \notin Outside /\ mon[t] \in Monitors /\ mark = Inflated(mon[t]) /\ mark.monitor = mon[t]
<1>1. ASSUME pc[t] \in Outside PROVE FALSE
  <2>1. pc[t] \in Off /\ ~loc[t].inwait BY <1>1, OffWait
  <2>2. States(t) = {"RUN"} BY <2>1, OfThread, OffRuns
  <2> QED BY <2>1, <2>2 DEF QInv, NodeInv
<1> QED BY <1>1, AtThe

\* The queues of a monitor.
LEMMA QueuesOf ==
  ASSUME Inv, QInv, NEW m \in Monitors
  PROVE  /\ IsInjective(om[m].cxq \o om[m].EntryList \o om[m].WaitSet)
         /\ \A t \in Members(om[m].cxq)       : node[t].TState = "CXQ" /\ mon[t] = m
         /\ \A t \in Members(om[m].EntryList) : node[t].TState = "ENTER" /\ mon[t] = m
         /\ \A t \in Members(om[m].WaitSet)   : node[t].TState = "WAIT" /\ mon[t] = m
         /\ om[m].waiters = Cardinality({t \in Threads : loc[t].inwait /\ mon[t] = m})
<1>1. CASE mark = Inflated(m)
  <2> DEFINE C == {t \in Threads : OnCxq(t)}
             E == {t \in Threads : OnEntries(t)}
             W == {t \in Threads : OnWaits(t)}
  <2>1. mark.monitor = m /\ Heavy
    BY <1>1, MarkFacts DEF Heavy
  <2>2. Cxq = om[m].cxq /\ Entries = om[m].EntryList /\ Waits = om[m].WaitSet
    BY <2>1 DEF Cxq, Entries, Waits
  <2>3. /\ Cxq \in Seq(NT) /\ Entries \in Seq(NT) /\ Waits \in Seq(NT)
        /\ ListOf(Cxq, C) /\ ListOf(Entries, E) /\ ListOf(Waits, W)
    BY <2>1, Before
  <2>4. /\ \A t \in C : t \in Threads /\ TState(t) = "CXQ"
        /\ \A t \in E : t \in Threads /\ TState(t) = "ENTER"
        /\ \A t \in W : t \in Threads /\ TState(t) = "WAIT"
    BY DEF OnCxq, OnEntries, OnWaits
  <2>5. \A t \in Threads : TState(t) # "RUN" \/ loc[t].inwait => mon[t] = m
    BY <2>1, NodeInside
  <2> HIDE DEF C, E, W
  <2>6. C \cap E = {} /\ (C \cup E) \cap W = {}
    BY <2>4
  <2>7. ListOf(Cxq \o Entries, C \cup E) /\ Cxq \o Entries \in Seq(NT)
    BY <2>3, <2>6, JoinLists
  <2>8. ListOf(Cxq \o Entries \o Waits, C \cup E \cup W)
    BY <2>3, <2>6, <2>7, JoinLists
  <2>9. IsInjective(Cxq \o Entries \o Waits)
    BY <2>8 DEF ListOf
  <2>10. Members(Cxq) = C /\ Members(Entries) = E /\ Members(Waits) = W
    BY <2>3 DEF ListOf
  <2>11. om[m].waiters = Cardinality({t \in Threads : loc[t].inwait})
    BY <1>1 DEF Inv, MonitorInv, MonitorOK
  <2>12. {t \in Threads : loc[t].inwait /\ mon[t] = m} = {t \in Threads : loc[t].inwait}
    BY <2>5
  <2>13. om[m].waiters = Cardinality({t \in Threads : loc[t].inwait /\ mon[t] = m})
    BY <2>11, <2>12
  <2>14. \A t \in Members(Cxq) : node[t].TState = "CXQ" /\ mon[t] = m
    BY <2>4, <2>5, <2>10 DEF TState
  <2>15. \A t \in Members(Entries) : node[t].TState = "ENTER" /\ mon[t] = m
    BY <2>4, <2>5, <2>10 DEF TState
  <2>16. \A t \in Members(Waits) : node[t].TState = "WAIT" /\ mon[t] = m
    BY <2>4, <2>5, <2>10 DEF TState
  <2> QED BY <2>2, <2>9, <2>13, <2>14, <2>15, <2>16
<1>2. CASE mark # Inflated(m)
  <2>1. om[m].cxq = <<>> /\ om[m].EntryList = <<>> /\ om[m].WaitSet = <<>>
    BY <1>2 DEF QInv, FreshInv
  <2>2. IsInjective(<<>> \o <<>> \o <<>>) /\ Members(<<>>) = {}
    BY DEF IsInjective, Members
  <2>3. om[m].waiters = 0
    BY <1>2 DEF Inv, MonitorInv, MonitorOK
  <2>4. {t \in Threads : loc[t].inwait /\ mon[t] = m} = {}
    BY <1>2, NodeInside
  <2>5. Cardinality({}) = 0
    BY FS_EmptySet
  <2> QED BY <2>1, <2>2, <2>3, <2>4, <2>5
<1> QED BY <1>1, <1>2

\* A thread that contends is queued, and one that runs is not.
LEMMA QueuedAt ==
  ASSUME Inv, QInv, NEW t \in Threads
  PROVE  /\ pc[t] \in {"contend", "park?", "park", "park_timed", "egress", "reegress"}
              => t \in Queued(mon[t])
         /\ node[t].TState = "RUN" => \A m \in Monitors : t \notin Queued(m)
<1>1. ASSUME pc[t] \in {"contend", "park?", "park", "park_timed", "egress", "reegress"}
      PROVE  t \in Queued(mon[t])
  <2>1. Site(t) = pc[t]
    BY <1>1 DEF Site, Where, Spinning, Inflation, Preparing
  <2>2. TState(t) \in {"CXQ", "ENTER"}
    BY <1>1, <2>1 DEF QInv, NodeInv, States, Linked, Relinked
  <2>3. Heavy /\ mark.monitor = mon[t] /\ Cxq = om[mon[t]].cxq /\ Entries = om[mon[t]].EntryList
    <3>1. pc[t] \notin Outside BY <1>1 DEF Outside
    <3> QED BY <3>1, AtThe
  <2>4. ListOf(Cxq, {u \in Threads : OnCxq(u)}) /\ ListOf(Entries, {u \in Threads : OnEntries(u)})
    BY <2>3, Before
  <2>5. ~Carried(t)
    <3>1. CASE pc[t] = "reegress"
      <4>1. Owner = t BY <3>1, OwnerAt DEF Reentered
      <4>2. Carried(t) <=> Hand(t, t) BY <4>1, OneNotifier
      <4> QED BY <3>1, <4>2 DEF Hand
    <3>2. CASE pc[t] # "reegress"
      BY <3>2, <1>1, <2>1 DEF QInv, FarInv, Carried, Linked
    <3> QED BY <3>1, <3>2
  <2>6. OnCxq(t) \/ OnEntries(t)
    BY <1>1, <2>1, <2>2, <2>5 DEF OnCxq, OnEntries
  <2>7. t \in Members(Cxq) \/ t \in Members(Entries)
    BY <2>4, <2>6 DEF ListOf
  <2> QED BY <2>3, <2>7 DEF Queued
<1>2. ASSUME node[t].TState = "RUN", NEW m \in Monitors PROVE t \notin Queued(m)
  BY <1>2, QueuesOf DEF Queued
<1> QED BY <1>1, <1>2

(* QueuesAgree: a thread is on one list of one monitor, the one its       *)
(* ObjectWaiter names, and is queued there before it parks and when it    *)
(* comes to unlink itself.                                                *)
THEOREM QueuesAgreeCorrect == Spec => []QueuesAgree
<1>1. Inv /\ QInv => QueuesAgree
  BY QueuesOf, QueuedAt DEF QueuesAgree
<1> QED BY <1>1, QueuesHold, PTL

\* What ObjectMonitor asserts of a thread inside the monitor.
LEMMA AssertsInside ==
  ASSUME Inv, QInv, NEW t \in Threads
  PROVE  /\ pc[t] \in {"EnterI", "enqueue"} => this(t).succ # t /\ this(t).owner # t
         /\ pc[t] = "enqueue" => this(t).Responsible # t
         /\ pc[t] \in {"entered", "wait_reentered"} =>
              /\ this(t).succ # t /\ this(t).owner = t /\ this(t).recursions = 0
              /\ node[t].TState \in {"RUN", "CXQ"}
         /\ pc[t] \in {"exit", "drop", "drain", "drained", "epilog"} =>
              this(t).owner = t
         /\ pc[t] \in {"reenter", "repark", "rewoken"} =>
              node[t].TState \in {"ENTER", "CXQ"} /\ this(t).owner # t
<1> DEFINE P == {"EnterI", "enqueue", "entered", "wait_reentered", "exit", "drop", "drain", "drained",
                 "epilog", "reenter", "repark", "rewoken"}
<1> SUFFICES ASSUME pc[t] \in P
             PROVE  /\ pc[t] \in {"EnterI", "enqueue"} => this(t).succ # t /\ this(t).owner # t
                    /\ pc[t] = "enqueue" => this(t).Responsible # t
                    /\ pc[t] \in {"entered", "wait_reentered"} =>
                         /\ this(t).succ # t /\ this(t).owner = t /\ this(t).recursions = 0
                         /\ node[t].TState \in {"RUN", "CXQ"}
                    /\ pc[t] \in {"exit", "drop", "drain", "drained", "epilog"} =>
                         this(t).owner = t
                    /\ pc[t] \in {"reenter", "repark", "rewoken"} =>
                         node[t].TState \in {"ENTER", "CXQ"} /\ this(t).owner # t
  OBVIOUS
<1>1. /\ Heavy /\ mark.monitor = mon[t] /\ this(t).owner = Owner /\ this(t).succ = Succ
      /\ this(t).Responsible = Resp
  <2>1. pc[t] \notin Outside BY DEF Outside
  <2> QED BY <2>1, AtThe DEF this
<1>2. Where(t) = pc[t] /\ Site(t) = pc[t]
  BY DEF Where, Site, Spinning, Inflation, Preparing
<1>3. TState(t) \in States(t) /\ node[t].TState = TState(t)
  BY DEF QInv, NodeInv, TState
<1>4. ASSUME pc[t] \in {"EnterI", "enqueue", "reenter", "repark", "rewoken"} PROVE this(t).owner # t
  <2>1. ~Has(t)
    BY <1>2, <1>4 DEF Has, Entering, Exiting, Last_exit, Reentered, Plain, Owned, Acquiring,
       Unlocking, Last_unlock
  <2>2. Owner # t
    BY <1>1, <2>1 DEF Inv, OwnerInv, MonitorOwner, Heavy, Owner
  <2> QED BY <1>1, <2>2
<1>5. ASSUME pc[t] \in {"EnterI", "enqueue", "entered", "wait_reentered"}
      PROVE  TState(t) \in {"RUN", "CXQ"} /\ this(t).succ # t
  <2>1. TState(t) \in {"RUN", "CXQ"}
    BY <1>2, <1>3, <1>5 DEF States, Linked, Relinked, Asleep, Exiting, Last_exit, Released
  <2>2. Succ # t
    BY <1>1, <1>5, <2>1 DEF QInv, SuccInv, OnEntries, Naming
  <2> QED BY <1>1, <2>1, <2>2
<1>6. pc[t] = "enqueue" => this(t).Responsible # t
  BY <1>1, <1>2 DEF QInv, RespInv, Linked
<1>7. ASSUME pc[t] \in {"entered", "wait_reentered", "exit", "drop", "drain", "drained", "epilog"}
      PROVE  this(t).owner = t
  BY <1>1, <1>7, OwnerAt DEF Exiting, Last_exit, Entering, Reentered
<1>8. ASSUME pc[t] \in {"entered", "wait_reentered"} PROVE this(t).recursions = 0
  <2>1. MonitorOwner(t) /\ Counted(t) /\ Depths(t) /\ Control(t) /\ loc[t].inwait \in BOOLEAN
    <3>1. MonitorOwner(t) BY <1>1, <1>7, <1>8 DEF MonitorOwner, Heavy, Owner
    <3> QED BY <3>1, OfThread DEF LocRec
  <2>2. this(t) = om[mark.monitor]
    BY <1>1 DEF this
  <2>3. CASE loc[t].inwait
    BY <2>1, <2>2, <2>3 DEF Counted
  <2>4. CASE ~loc[t].inwait
    <3>1. pc[t] = "entered" BY <1>8, <2>1, <2>4 DEF Control, Reentered
    <3>2. Depth(t) = 1
      BY <1>2, <2>1, <2>4, <3>1 DEF Depths, Entering
    <3>3. ~Trying(t) /\ ~Releasing(t)
      BY <1>2, <3>1 DEF Trying, Releasing, Acquiring, Contending, Spinning, Unlocking,
         Last_unlock, Exiting, Last_exit
    <3>4. Has(t)
      BY <1>2, <2>4, <3>1 DEF Has, Entering
    <3>5. Reals(t) = {1}
      <4>1. Top(t) = 1 /\ ~Extra(t) BY <3>2, <3>3 DEF Top, Extra
      <4>2. 1 \in Reals(t) BY <2>1, <3>4 DEF Counted
      <4>3. Reals(t) \subseteq 1..1 BY <4>1 DEF Reals
      <4> QED BY <4>2, <4>3
    <3>6. Cardinality({1}) = 1
      BY FS_Singleton
    <3>7. om[mark.monitor].recursions \in Int
      BY <1>1, WordTypes DEF Inv, Typing, MonitorRec
    <3> QED BY <2>1, <2>2, <2>4, <3>5, <3>6, <3>7 DEF Counted
  <2> QED BY <2>1, <2>3, <2>4
<1>9. ASSUME pc[t] \in {"reenter", "repark", "rewoken"} PROVE TState(t) \in {"ENTER", "CXQ"}
  BY <1>2, <1>3, <1>9 DEF States, Linked, Relinked
<1> QED BY <1>3, <1>4, <1>5, <1>6, <1>7, <1>8, <1>9

\* What ObjectSynchronizer asserts of a thread that inflates or hashes.
LEMMA AssertsOutside ==
  ASSUME Inv, NEW t \in Threads
  PROVE  /\ pc[t] = "inflate_publish" => mark = INFLATING
         /\ pc[t] \in {"FastHashCode", "hash_monitor"} /\ mark.kind = "inflated" =>
              om[mark.monitor].header.kind = "neutral"
<1>1. pc[t] = "inflate_publish" => mark = INFLATING
  BY DEF Inv, InflateInv, Inflater
<1>2. mark.kind = "inflated" => om[mark.monitor].header.kind = "neutral"
  BY MarkFacts DEF Inv, HeaderInv, Agrees, Neutrals
<1> QED BY <1>1, <1>2

\* A monitor without an object is idle.
LEMMA NotBusy ==
  ASSUME Inv, QInv, NEW m \in Monitors, ~om[m].object
  PROVE  ~is_busy(m)
<1>1. mark # Inflated(m)
  BY DEF QInv, ObjectInv
<1>2. om[m].cxq = <<>> /\ om[m].EntryList = <<>>
  BY <1>1 DEF QInv, FreshInv
<1>3. \A t \in Threads : ~(pc[t] = "inflate_publish" /\ mon[t] = m)
  BY DEF QInv, ObjectInv
<1>4. om[m].count = 0 /\ om[m].waiters = 0 /\ om[m].owner = None
  BY <1>1, <1>3 DEF Inv, MonitorInv, MonitorOK
<1> QED BY <1>2, <1>4 DEF is_busy

(* Asserts: the assertions of ObjectMonitor and ObjectSynchronizer that it *)
(* lists hold wherever the code makes them.                                *)
THEOREM AssertsCorrect == Spec => []Asserts
<1>1. Inv /\ QInv => Asserts
  BY AssertsInside, AssertsOutside, NotBusy DEF Asserts
<1> QED BY <1>1, QueuesHold, PTL

-----------------------------------------------------------------------------
(* Who wakes whom: what is known of the threads on the queues *)

\* A thread that clears _succ with the lock.
LEMMA ClearOwner ==
  ASSUME Inv, SInv, NEW t \in Threads, pc[t] = "clearing",
         loc[t].then \notin {"contend", "reenter", "wait_was"}
  PROVE  Owner = t
<1>1. pc[t] \notin Outside /\ Where(t) = loc[t].then
  BY DEF Outside, Where
<1>2. Heavy /\ mark = Inflated(mon[t]) /\ Control(t)
  BY <1>1, AtThe
<1>3. CASE loc[t].then = "java"
  BY <1>3 DEF SInv, ClearInv
<1>4. CASE loc[t].then \in Entering \cup Reentered
  <2>1. Has(t)
    BY <1>1, <1>2, <1>4 DEF Has, Control
  <2>2. ~StackOwner(t)
    BY <1>2, MarkFacts DEF StackOwner, Heavy, Inv, InflateInv
  <2> QED BY <2>1, <2>2 DEF Inv, OwnerInv, MonitorOwner, Owner
<1> QED BY <1>2, <1>3, <1>4 DEF Control

\* An unpark is what t needs.
Dozes(t) ==
  \/ pc[t] \in {"spin_succ", "spin_store", "spinning", "park?", "park", "repark", "wait_park"}
  \/ pc[t] \in {"wait_exited", "wait_check", "wait_notified"} \cup Released /\ loc[t].inwait

\* A thread on cxq or EntryList of a free monitor tries the lock once it is unparked.
LEMMA QueuedTries ==
  ASSUME Inv, QInv, SInv, Heavy, Owner = None, NEW t \in Threads, OnCxq(t) \/ TState(t) = "ENTER"
  PROVE  Trier(t) \/ Dozes(t)
<1>0. loc[t] \in LocRec /\ Control(t) /\ None # t /\ TState(t) \in States(t)
  BY OfThread, ThreadsAssumption DEF QInv, NodeInv
<1>1. pc[t] \notin Exiting \cup Entering \cup Reentered
  BY <1>0, OwnerAt
<1>2. CASE pc[t] \in Spinning
  BY <1>2 DEF Spinning, Trier, Dozes
<1>3. CASE pc[t] = "clearing"
  <2>1. loc[t].then \in {"contend", "reenter", "wait_was"} BY <1>0, <1>3, ClearOwner
  <2> QED BY <1>3, <2>1 DEF Trier
<1>4. CASE pc[t] \in Inflation
  <2>1. Site(t) = loc[t].then /\ ~loc[t].inwait
        /\ Site(t) \in {"enter", "exit", "wait", "notify", "notifyAll", "hash_monitor"}
    BY <1>0, <1>4 DEF Site, Where, Control, Inflation, Preparing, Spinning
  <2> QED BY <1>0, <2>1 DEF States, Linked, Relinked, OnCxq
<1>5. CASE pc[t] \notin Spinning \cup Inflation \cup {"clearing"}
  <2>1. Site(t) = pc[t] BY <1>5 DEF Site, Where
  <2>2. \/ pc[t] \in Linked \cup Relinked \cup {"wait_was"}
        \/ loc[t].inwait /\ pc[t] \in Asleep
    BY <1>0, <2>1 DEF States, OnCxq
  <2> QED BY <1>1, <2>2 DEF Linked, Relinked, Asleep, Entering, Reentered, Trier, Dozes
<1> QED BY <1>2, <1>3, <1>4, <1>5

\* The thread that _succ names tries the lock of a free monitor, or is about to be unparked.
LEMMA HeirTries ==
  ASSUME Inv, QInv, SInv, Heavy, Owner = None, Succ # None
  PROVE  \E x \in Threads : \/ Trier(x)
                            \/ pc[x] = "epilog_unpark" /\ loc[x].w \in Members(Cxq) \cup Members(Entries)
<1>0. PICK h \in Threads : h = Succ
  BY WordTypes DEF NT
<1>1. event[h] = 1 \/ Pending(h) \/ Heeds(h)
  BY <1>0 DEF SInv, HeirInv
<1>2. OnEntries(h) \/ pc[h] \in Naming
  BY <1>0 DEF QInv, SuccInv
<1>3. None # h
  BY ThreadsAssumption
<1>4. CASE pc[h] \in Naming
  <2>1. pc[h] = "clearing" => loc[h].then \in {"contend", "reenter", "wait_was"} BY <1>3, ClearOwner
  <2>2. Trier(h) BY <1>0, <1>4, <2>1 DEF Naming, Trier
  <2> QED BY <2>2
<1>5. CASE pc[h] \notin Naming
  <2>1. OnEntries(h) /\ TState(h) = "ENTER" BY <1>2, <1>5 DEF OnEntries
  <2>2. Trier(h) \/ Dozes(h) BY <2>1, QueuedTries
  <2>3. CASE event[h] = 1
    <3>1. Dozes(h) => Trier(h) BY <2>3 DEF Dozes, Trier
    <3> QED BY <2>2, <3>1
  <2>4. CASE Pending(h)
    <3>1. PICK v \in Threads : pc[v] \in {"epilog_drop", "epilog_unpark"} /\ loc[v].w = h
      BY <2>4 DEF Pending
    <3>2. pc[v] # "epilog_drop"
      <4>1. v # None BY ThreadsAssumption
      <4> QED BY <4>1, OwnerAt DEF Exiting, Last_exit
    <3>3. h \in Members(Entries) BY <2>1, Before DEF ListOf
    <3> QED BY <3>1, <3>2, <3>3
  <2>5. CASE Heeds(h)
    <3>1. ~Dozes(h) BY <2>5, <1>5 DEF Heeds, Dozes, Naming, Released
    <3> QED BY <2>2, <3>1
  <2> QED BY <1>1, <2>3, <2>4, <2>5
<1> QED BY <1>4, <1>5

\* The Responsible thread tries the lock that another one is about to drop.
LEMMA ResponsibleTries ==
  ASSUME Inv, QInv, SInv, Heavy, NEW t \in Threads, Owner = t, NEW r \in Threads \ {t}, Resp = r
  PROVE  Trier(r)
<1>0. loc[r] \in LocRec /\ Control(r) /\ Site(r) \in Linked \cup {"entered"} /\ pc[r] # "park"
  BY OfThread DEF QInv, RespInv
<1>1. pc[r] \notin Exiting \cup Entering \cup Reentered
  BY OwnerAt
<1>2. CASE pc[r] \in Spinning
  BY <1>0, <1>2 DEF Spinning, Trier, Site, Linked
<1>3. CASE pc[r] = "clearing"
  <2>1. loc[r].then \in {"contend", "reenter", "wait_was"} BY <1>3, ClearOwner
  <2> QED BY <1>3, <2>1 DEF Trier
<1>4. CASE pc[r] \in Inflation
  BY <1>0, <1>4 DEF Site, Where, Control, Inflation, Preparing, Spinning, Linked
<1>5. CASE pc[r] \notin Spinning \cup Inflation \cup {"clearing"}
  <2>1. Site(r) = pc[r] BY <1>5 DEF Site, Where
  <2> QED BY <1>0, <1>1, <2>1 DEF Linked, Entering, Trier
<1> QED BY <1>2, <1>3, <1>4, <1>5

\* A step of t takes the lock, or drops its own, and loses no unpark of the others.
LockOK(t) ==
  /\ Owner' = Owner \/ (Owner = None /\ Owner' = t) \/ (Owner = t /\ Owner' = None)
  /\ event' \in [Threads -> {0, 1}] /\ \A u \in Threads \ {t} : event[u] = 1 => event'[u] = 1

\* It names a thread that it will unpark, or itself; and when it is named it does not fall asleep.
HeirOK(t) ==
  /\ \/ Succ' \in {Succ, None}
     \/ Succ' = t /\ pc'[t] \in Naming
     \/ pc'[t] = "epilog_drop" /\ loc'[t].w = Succ'
  /\ Succ = t /\ Succ' = t /\ (event[t] = 1 \/ Heeds(t)) => event'[t] = 1 \/ Heeds(t)'
  /\ pc[t] = "epilog_drop" => pc'[t] = "epilog_unpark" /\ loc'[t].w = loc[t].w
  /\ pc[t] = "epilog_unpark" => \A u \in Threads : u = loc[t].w => event'[u] = 1

\* It comes to the 1-0 unlock with nobody in sight, and leaves the lists to the owner.
PollOK(t) ==
  /\ pc'[t] = "clearing" /\ loc'[t].then = "java" => Owner' = t
  /\ pc'[t] = "unlock_EntryList" => Cxq' = <<>>
  /\ pc'[t] = "unlock_store" => /\ pc[t] = "unlock_EntryList"
                                /\ Entries = <<>> /\ Entries' = <<>> /\ Cxq' = Cxq /\ Resp' = Resp
  /\ Owner # t => /\ Entries' = Entries
                  /\ (Cxq = <<>> => Cxq' = <<>> \/ pc'[t] = "responsible")
                  /\ (Resp # None => Resp' # None)
                  /\ (pc[t] \in {"responsible", "responsible_cas"} /\ Entries = <<>> =>
                        pc'[t] = "responsible_cas" \/ Resp' # None)

\* It hands the duty to try or to wake on.
WakeOK(t) ==
  /\ Owner = t /\ Owner' = None =>
       Waker(t)' \/ (pc[t] = "unlock_store" /\ SameLists /\ Resp' = Resp)
  /\ Owner = None /\ Owner' = None =>
       /\ Trier(t)' \/ (Cxq' = Cxq /\ Entries' = Entries /\ Succ' = Succ /\ Resp' = Resp)
       /\ (Trier(t) => Trier(t)')
       /\ (Waker(t) /\ (Cxq # <<>> \/ Entries # <<>>) =>
             Trier(t)' \/ Waker(t)' \/ Succ # None \/ pc[t] = "epilog_unpark")
       /\ (pc[t] = "epilog_unpark" /\ loc[t].inwait /\ event'[t] = 1 => Trier(t)')

\* Such a step keeps the invariant of the wakeups.
LEMMA WakesKeep ==
  ASSUME Inv, QInv, SInv, NEW t \in Threads, Step(t), LockOK(t), HeirOK(t), PollOK(t), WakeOK(t)
  PROVE  SInv'
<1>0. Heavy /\ Heavy' /\ None \notin Threads /\ \A u \in Threads \ {t} : pc'[u] = pc[u] /\ loc'[u] = loc[u]
  BY ThreadsAssumption DEF Step
<1>1. EventInv'
  BY DEF LockOK, EventInv
<1>2. HeirInv'
  <2> SUFFICES ASSUME NEW u \in Threads, Succ' = u PROVE event'[u] = 1 \/ Pending(u)' \/ Heeds(u)'
    BY DEF HeirInv
  <2>1. CASE Succ' = t /\ pc'[t] \in Naming
    BY <2>1 DEF Heeds
  <2>2. CASE pc'[t] = "epilog_drop" /\ loc'[t].w = Succ'
    BY <2>2 DEF Pending
  <2>3. CASE Succ' = Succ
    <3>1. event[u] = 1 \/ Pending(u) \/ Heeds(u) BY <1>0, <2>3 DEF SInv, HeirInv
    <3>2. CASE Pending(u)
      <4>1. PICK v \in Threads : pc[v] \in {"epilog_drop", "epilog_unpark"} /\ loc[v].w = u
        BY <3>2 DEF Pending
      <4>2. CASE v = t
        BY <4>1, <4>2 DEF HeirOK, Pending
      <4>3. CASE v # t
        BY <4>1, <4>3, <1>0 DEF Pending
      <4> QED BY <4>2, <4>3
    <3>3. CASE event[u] = 1 \/ Heeds(u)
      <4>1. CASE u = t
        BY <2>3, <3>3, <4>1 DEF HeirOK
      <4>2. CASE u # t
        BY <3>3, <4>2, <1>0 DEF LockOK, Heeds
      <4> QED BY <4>1, <4>2
    <3> QED BY <3>1, <3>2, <3>3
  <2> QED BY <1>0, <2>1, <2>2, <2>3 DEF HeirOK
<1>3. ClearInv'
  <2> SUFFICES ASSUME NEW u \in Threads, pc'[u] = "clearing", loc'[u].then = "java" PROVE Owner' = u
    BY DEF ClearInv
  <2>1. CASE u = t
    BY <2>1 DEF PollOK
  <2>2. CASE u # t
    <3>1. Owner = u BY <2>2, <1>0 DEF SInv, ClearInv
    <3> QED BY <2>2, <3>1, <1>0 DEF LockOK
  <2> QED BY <2>1, <2>2
<1>4. PollInv'
  <2> SUFFICES ASSUME NEW u \in Threads, pc'[u] \in {"unlock_EntryList", "unlock_store"}
               PROVE  /\ (pc'[u] = "unlock_store" => Entries' = <<>>)
                      /\ (Entries' = <<>> => Polled')
    BY DEF PollInv
  <2>1. CASE u = t
    <3>1. CASE pc'[t] = "unlock_EntryList"
      BY <2>1, <3>1 DEF PollOK, Polled
    <3>2. CASE pc'[t] = "unlock_store"
      <4>1. Polled BY <3>2 DEF PollOK, SInv, PollInv
      <4>2. pc[t] = "unlock_EntryList" /\ Entries' = <<>> /\ Cxq' = Cxq /\ Resp' = Resp
        BY <3>2 DEF PollOK
      <4>3. ASSUME NEW r \in Threads, pc[r] \in {"responsible", "responsible_cas"} PROVE Polled'
        BY <4>2, <4>3, <1>0 DEF Polled
      <4>4. Polled' BY <4>1, <4>2, <4>3 DEF Polled
      <4> QED BY <4>2, <4>4, <2>1
    <3> QED BY <2>1, <3>1, <3>2
  <2>2. CASE u # t
    <3>1. pc[u] = pc'[u] BY <2>2, <1>0
    <3>2. Owner = u BY <3>1, OwnerAt DEF Last_unlock
    <3>3. /\ Entries' = Entries
          /\ (Cxq = <<>> => Cxq' = <<>> \/ pc'[t] = "responsible")
          /\ (Resp # None => Resp' # None)
          /\ (pc[t] \in {"responsible", "responsible_cas"} /\ Entries = <<>> =>
                pc'[t] = "responsible_cas" \/ Resp' # None)
      BY <2>2, <3>2 DEF PollOK
    <3>4. ASSUME Entries = <<>> PROVE Polled'
      <4>1. Polled BY <3>1, <3>4 DEF SInv, PollInv
      <4>2. ASSUME NEW r \in Threads, pc[r] \in {"responsible", "responsible_cas"} PROVE Polled'
        <5>1. CASE r = t BY <5>1, <4>2, <3>3, <3>4 DEF Polled
        <5>2. CASE r # t BY <5>2, <4>2, <1>0 DEF Polled
        <5> QED BY <5>1, <5>2
      <4> QED BY <4>1, <4>2, <3>3 DEF Polled
    <3> QED BY <3>1, <3>3, <3>4 DEF SInv, PollInv
  <2> QED BY <2>1, <2>2
<1>5. WakeInv'
  <2> SUFFICES ASSUME Owner' = None, Cxq' # <<>> \/ Entries' # <<>>
               PROVE  \E x \in Threads : Trier(x)' \/ Waker(x)'
    BY DEF WakeInv
  <2>1. CASE Owner = t
    <3>1. Waker(t)' \/ (pc[t] = "unlock_store" /\ SameLists /\ Resp' = Resp)
      BY <2>1 DEF WakeOK
    <3>2. CASE pc[t] = "unlock_store" /\ SameLists /\ Resp' = Resp
      <4>1. Entries = <<>> /\ Polled /\ Cxq # <<>>
        BY <3>2 DEF SInv, PollInv, SameLists
      <4>2. CASE Resp # None
        <5>1. PICK r \in Threads : Resp = r BY <4>2, <1>0, WordTypes DEF NT
        <5>2. r # t
          <6>1. Site(t) = "unlock_store" BY <3>2 DEF Site, Where, Spinning, Inflation, Preparing
          <6> QED BY <5>1, <6>1, <1>0 DEF QInv, RespInv, Linked
        <5>3. Trier(r) BY <5>1, <5>2, <1>0, <2>1, ResponsibleTries
        <5>4. pc'[r] = pc[r] /\ loc'[r] = loc[r] /\ (event[r] = 1 => event'[r] = 1) BY <5>2, <1>0 DEF LockOK
        <5>5. pc[r] \in {"spin_succ", "spin_store", "spinning"} => loc[r].spin # "reenter"
          <6>1. Site(r) \in Linked \cup {"entered"} BY <5>1, <1>0 DEF QInv, RespInv
          <6> QED BY <6>1 DEF Site, Spinning, Linked
        <5>6. Trier(r)' BY <5>1, <5>3, <5>4, <5>5, <3>2 DEF Trier
        <5> QED BY <5>6
      <4>3. ASSUME NEW r \in Threads, pc[r] \in {"responsible", "responsible_cas"}
            PROVE  \E x \in Threads : Trier(x)' \/ Waker(x)'
        <5>1. pc'[r] = pc[r] BY <4>3, <3>2, <1>0
        <5>2. Trier(r)' BY <5>1, <4>3 DEF Trier
        <5> QED BY <5>2
      <4> QED BY <4>1, <4>2, <4>3 DEF Polled
    <3> QED BY <3>1, <3>2
  <2>2. CASE Owner # t
    <3>0. Owner = None
      BY <2>2, <1>0 DEF LockOK
    <3>1. CASE Trier(t)'
      BY <3>1
    <3>2. CASE ~Trier(t)'
      <4>1. Cxq' = Cxq /\ Entries' = Entries /\ Succ' = Succ /\ Resp' = Resp
        BY <3>0, <3>2 DEF WakeOK
      <4>2. PICK y \in Threads : Trier(y) \/ Waker(y)
        BY <4>1, <3>0, <1>0 DEF SInv, WakeInv
      <4>3. ASSUME NEW x \in Threads \ {t} PROVE (Trier(x) => Trier(x)') /\ (Waker(x) => Waker(x)')
        <5>1. pc'[x] = pc[x] /\ loc'[x] = loc[x] /\ (event[x] = 1 => event'[x] = 1) BY <1>0 DEF LockOK
        <5>2. Trier(x) => Trier(x)' BY <5>1, <4>1 DEF Trier
        <5>3. Waker(x) => Waker(x)' BY <5>1, <4>1 DEF Waker, Members
        <5> QED BY <5>2, <5>3
      <4>4. CASE y # t
        BY <4>2, <4>3, <4>4
      <4>5. CASE y = t
        <5>1. Waker(t) /\ (Waker(t)' \/ Succ # None \/ pc[t] = "epilog_unpark")
          BY <4>1, <4>2, <4>5, <3>0, <3>2 DEF WakeOK
        <5>2. CASE pc[t] = "epilog_unpark"
          <6>1. PICK w : w = loc[t].w OBVIOUS
          <6>2. w \in Members(Cxq) \/ w \in Members(Entries)
            BY <5>1, <5>2, <6>1 DEF Waker
          <6>3. w \in Threads /\ (OnCxq(w) \/ TState(w) = "ENTER")
            BY <6>2, <1>0, Before DEF ListOf, OnEntries
          <6>4. Trier(w) \/ Dozes(w)
            BY <6>3, <1>0, <3>0, QueuedTries
          <6>5. event'[w] = 1
            BY <5>2, <6>1, <6>3 DEF HeirOK
          <6>6. CASE w = t
            <7>1. loc[t].inwait
              BY <5>2, <6>4, <6>6 DEF Trier, Dozes, Released
            <7> QED BY <5>2, <6>5, <6>6, <7>1, <3>0 DEF WakeOK
          <6>7. CASE w # t
            <7>1. pc'[w] = pc[w] /\ loc'[w] = loc[w] BY <6>3, <6>7, <1>0
            <7>2. Dozes(w) => Trier(w)' BY <7>1, <6>5 DEF Dozes, Trier
            <7> QED BY <6>3, <6>4, <6>7, <7>2, <4>3
          <6> QED BY <6>6, <6>7
        <5>3. CASE Succ # None /\ pc[t] # "epilog_unpark"
          <6>1. PICK x \in Threads :
                  \/ Trier(x)
                  \/ pc[x] = "epilog_unpark" /\ loc[x].w \in Members(Cxq) \cup Members(Entries)
            BY <5>3, <1>0, <3>0, HeirTries
          <6>2. CASE x = t
            BY <6>1, <6>2, <5>3, <3>0, <3>2 DEF WakeOK
          <6>3. CASE x # t
            BY <6>1, <6>3, <4>3 DEF Waker
          <6> QED BY <6>2, <6>3
        <5> QED BY <5>1, <5>2, <5>3
      <4> QED BY <4>4, <4>5
    <3> QED BY <3>1, <3>2
  <2> QED BY <2>1, <2>2
<1> QED BY <1>1, <1>2, <1>3, <1>4, <1>5 DEF SInv

\* What is known of a thread inside the monitor.
LEMMA Around ==
  ASSUME Inv, QInv, SInv, NEW t \in Threads, pc[t] \notin Outside
  PROVE  /\ loc[t] \in LocRec /\ Control(t) /\ event \in [Threads -> {0, 1}] /\ None # t
         /\ (pc[t] \in Exiting \cup Last_unlock \cup Owned \cup Entering \cup Reentered => Owner = t)
         /\ (pc[t] = "clearing" /\ loc[t].then \notin {"contend", "reenter", "wait_was"} => Owner = t)
         /\ (Succ = t => TState(t) = "ENTER" \/ pc[t] \in Naming) /\ TState(t) \in States(t)
BY Here, OwnerAt, ClearOwner DEF SInv, EventInv

\* The steps of TrySpin.
LEMMA TrySpinWakes ==
  ASSUME Inv, QInv, SInv, NEW t \in Threads, TrySpin(t), UNCHANGED objectVars
  PROVE  SInv'
<1> USE DEF LockOK, HeirOK, PollOK, WakeOK, Trier, Waker, Heeds, Naming, Released, LocRec, Control, Exiting,
            Last_exit, Last_unlock, Owned, Entering, Reentered, Spinning, SameLists, SameWords,
            SpinGot, SpinFailed, EnterReturn
<1>1. CASE Spin_try(t)
  <2>1. Step(t) /\ pc[t] \notin Outside BY <1>1, Spin_tryDoes DEF Outside
  <2>2. LockOK(t) /\ HeirOK(t) /\ PollOK(t) /\ WakeOK(t)
    BY <1>1, <2>1, Spin_tryDoes, Around
  <2> QED BY <2>1, <2>2, WakesKeep
<1>2. CASE Spin_succ(t)
  <2>1. Step(t) /\ pc[t] \notin Outside BY <1>2, Spin_succDoes DEF Outside
  <2>2. LockOK(t) /\ HeirOK(t) /\ PollOK(t) /\ WakeOK(t)
    BY <1>2, <2>1, Spin_succDoes, Around
  <2> QED BY <2>1, <2>2, WakesKeep
<1>3. CASE Spin_store(t)
  <2>1. Step(t) /\ pc[t] \notin Outside BY <1>3, Spin_storeDoes DEF Outside
  <2>2. LockOK(t) /\ HeirOK(t) /\ PollOK(t) /\ WakeOK(t)
    BY <1>3, <2>1, Spin_storeDoes, Around
  <2> QED BY <2>1, <2>2, WakesKeep
<1>4. CASE Spin_again(t)
  <2>1. Step(t) /\ pc[t] \notin Outside BY <1>4, Spin_againDoes DEF Outside
  <2>2. LockOK(t) /\ HeirOK(t) /\ PollOK(t) /\ WakeOK(t)
    BY <1>4, <2>1, Spin_againDoes, Around
  <2> QED BY <2>1, <2>2, WakesKeep
<1>5. CASE Spin_got(t)
  <2>1. Step(t) /\ pc[t] \notin Outside BY <1>5, Spin_gotDoes DEF Outside
  <2>2. LockOK(t) /\ HeirOK(t) /\ PollOK(t) /\ WakeOK(t)
    BY <1>5, <2>1, Spin_gotDoes, Around
  <2> QED BY <2>1, <2>2, WakesKeep
<1>6. CASE Spin_abort(t)
  <2>1. Step(t) /\ pc[t] \notin Outside BY <1>6, Spin_abortDoes DEF Outside
  <2>2. LockOK(t) /\ HeirOK(t) /\ PollOK(t) /\ WakeOK(t)
    BY <1>6, <2>1, Spin_abortDoes, Around
  <2> QED BY <2>1, <2>2, WakesKeep
<1>7. CASE Spin_clear(t)
  <2>1. Step(t) /\ pc[t] \notin Outside BY <1>7, Spin_clearDoes DEF Outside
  <2>2. LockOK(t) /\ HeirOK(t) /\ PollOK(t) /\ WakeOK(t)
    BY <1>7, <2>1, Spin_clearDoes, Around
  <2> QED BY <2>1, <2>2, WakesKeep
<1>8. CASE Spin_retry(t)
  <2>1. Step(t) /\ pc[t] \notin Outside BY <1>8, Spin_retryDoes DEF Outside
  <2>2. LockOK(t) /\ HeirOK(t) /\ PollOK(t) /\ WakeOK(t)
    BY <1>8, <2>1, Spin_retryDoes, Around
  <2> QED BY <2>1, <2>2, WakesKeep
<1>9. CASE Clear_store(t)
  <2>1. Step(t) /\ pc[t] \notin Outside BY <1>9, Clear_storeDoes DEF Outside
  <2>2. LockOK(t) /\ HeirOK(t) /\ PollOK(t) /\ WakeOK(t)
    BY <1>9, <2>1, Clear_storeDoes, Around
  <2> QED BY <2>1, <2>2, WakesKeep
<1> QED BY <1>1, <1>2, <1>3, <1>4, <1>5, <1>6, <1>7, <1>8, <1>9 DEF TrySpin

\* The steps of enter and EnterI.
LEMMA EnterWakes ==
  ASSUME Inv, QInv, SInv, NEW t \in Threads, Enter(t), UNCHANGED objectVars
  PROVE  SInv'
<1> USE DEF LockOK, HeirOK, PollOK, WakeOK, Trier, Waker, Heeds, Naming, Released, LocRec, Control, Exiting,
            Last_exit, Last_unlock, Owned, Entering, Reentered, Spinning, SameLists, SameWords,
            EnterReturn, Site, Where, States, Linked, Relinked, Asleep, TState, Inflation, Preparing
<1>1. CASE Enter_cas(t)
  <2>1. Step(t) /\ pc[t] \notin Outside BY <1>1, Enter_casDoes DEF Outside
  <2>2. LockOK(t) /\ HeirOK(t) /\ PollOK(t) /\ WakeOK(t)
    BY <1>1, <2>1, Enter_casDoes, Around
  <2> QED BY <2>1, <2>2, WakesKeep
<1>2. CASE Enter_recursive(t)
  <2>1. Step(t) /\ pc[t] \notin Outside BY <1>2, Enter_recursiveDoes DEF Outside
  <2>2. LockOK(t) /\ HeirOK(t) /\ PollOK(t) /\ WakeOK(t)
    BY <1>2, <2>1, Enter_recursiveDoes, Around
  <2> QED BY <2>1, <2>2, WakesKeep
<1>3. CASE Enter_contended(t)
  <2>1. Step(t) /\ pc[t] \notin Outside BY <1>3, Enter_contendedDoes DEF Outside
  <2>2. LockOK(t) /\ HeirOK(t) /\ PollOK(t) /\ WakeOK(t)
    BY <1>3, <2>1, Enter_contendedDoes, Around
  <2> QED BY <2>1, <2>2, WakesKeep
<1>4. CASE EnterI(t)
  <2>1. Step(t) /\ pc[t] \notin Outside BY <1>4, EnterIDoes DEF Outside
  <2>2. LockOK(t) /\ HeirOK(t) /\ PollOK(t) /\ WakeOK(t)
    BY <1>4, <2>1, EnterIDoes, Around
  <2> QED BY <2>1, <2>2, WakesKeep
<1>5. CASE Enqueue(t)
  <2>1. Step(t) /\ pc[t] \notin Outside BY <1>5, EnqueueDoes DEF Outside
  <2>2. LockOK(t) /\ HeirOK(t) /\ PollOK(t) /\ WakeOK(t)
    BY <1>5, <2>1, EnqueueDoes, Around
  <2> QED BY <2>1, <2>2, WakesKeep
<1>6. CASE Push(t)
  <2>1. Step(t) /\ pc[t] \notin Outside BY <1>6, PushDoes DEF Outside
  <2>6. /\ pc[t] = "push" /\ SameWords /\ Entries' = Entries /\ pc'[t] \in {"responsible", "contend"}
        /\ (Cxq = <<>> => pc'[t] = "responsible") /\ event' = event /\ loc'[t] = loc[t]
    BY <1>6, PushDoes DEF First
  <2>2. LockOK(t) BY <2>1, <2>6, Around
  <2>3. HeirOK(t) BY <2>1, <2>6, Around
  <2>4. PollOK(t) BY <2>6
  <2>5. WakeOK(t) BY <2>1, <2>6, Around
  <2> QED BY <2>1, <2>2, <2>3, <2>4, <2>5, WakesKeep
<1>7. CASE Push_failed(t)
  <2>1. Step(t) /\ pc[t] \notin Outside BY <1>7, Push_failedDoes DEF Outside
  <2>2. LockOK(t) /\ HeirOK(t) /\ PollOK(t) /\ WakeOK(t)
    BY <1>7, <2>1, Push_failedDoes, Around
  <2> QED BY <2>1, <2>2, WakesKeep
<1>8. CASE Responsible_read(t)
  <2>1. Step(t) /\ pc[t] \notin Outside BY <1>8, Responsible_readDoes DEF Outside
  <2>2. LockOK(t) /\ HeirOK(t) /\ PollOK(t) /\ WakeOK(t)
    BY <1>8, <2>1, Responsible_readDoes, Around
  <2> QED BY <2>1, <2>2, WakesKeep
<1>9. CASE Responsible_cas(t)
  <2>1. Step(t) /\ pc[t] \notin Outside BY <1>9, Responsible_casDoes DEF Outside
  <2>2. LockOK(t) /\ HeirOK(t) /\ PollOK(t) /\ WakeOK(t)
    BY <1>9, <2>1, Responsible_casDoes, Around
  <2> QED BY <2>1, <2>2, WakesKeep
<1>10. CASE Contend(t)
  <2>1. Step(t) /\ pc[t] \notin Outside BY <1>10, ContendDoes DEF Outside
  <2>2. LockOK(t) /\ HeirOK(t) /\ PollOK(t) /\ WakeOK(t)
    BY <1>10, <2>1, ContendDoes, Around
  <2> QED BY <2>1, <2>2, WakesKeep
<1>11. CASE Park_kind(t)
  <2>1. Step(t) /\ pc[t] \notin Outside BY <1>11, Park_kindDoes DEF Outside
  <2>2. LockOK(t) /\ HeirOK(t) /\ PollOK(t) /\ WakeOK(t)
    BY <1>11, <2>1, Park_kindDoes, Around
  <2> QED BY <2>1, <2>2, WakesKeep
<1>12. CASE Park(t)
  <2>1. Step(t) /\ pc[t] \notin Outside BY <1>12, ParkDoes DEF Outside
  <2>2. LockOK(t) /\ HeirOK(t) /\ PollOK(t) /\ WakeOK(t)
    BY <1>12, <2>1, ParkDoes, Around
  <2> QED BY <2>1, <2>2, WakesKeep
<1>13. CASE Woken(t)
  <2>1. Step(t) /\ pc[t] \notin Outside BY <1>13, WokenDoes DEF Outside
  <2>2. LockOK(t) /\ HeirOK(t) /\ PollOK(t) /\ WakeOK(t)
    BY <1>13, <2>1, WokenDoes, Around
  <2> QED BY <2>1, <2>2, WakesKeep
<1>14. CASE Futile(t)
  <2>1. Step(t) /\ pc[t] \notin Outside BY <1>14, FutileDoes DEF Outside
  <2>2. LockOK(t) /\ HeirOK(t) /\ PollOK(t) /\ WakeOK(t)
    BY <1>14, <2>1, FutileDoes, Around
  <2> QED BY <2>1, <2>2, WakesKeep
<1>15. CASE Egress(t)
  <2>1. Step(t) /\ pc[t] \notin Outside BY <1>15, EgressDoes DEF Outside
  <2>2. LockOK(t) /\ HeirOK(t) /\ PollOK(t) /\ WakeOK(t)
    BY <1>15, <2>1, EgressDoes, Around
  <2> QED BY <2>1, <2>2, WakesKeep
<1>16. CASE Entered(t)
  <2>1. Step(t) /\ pc[t] \notin Outside BY <1>16, EnteredDoes DEF Outside
  <2>2. LockOK(t) /\ HeirOK(t) /\ PollOK(t) /\ WakeOK(t)
    BY <1>16, <2>1, EnteredDoes, Around
  <2> QED BY <2>1, <2>2, WakesKeep
<1> QED BY <1>1, <1>2, <1>3, <1>4, <1>5, <1>6, <1>7, <1>8, <1>9, <1>10, <1>11, <1>12, <1>13,
   <1>14, <1>15, <1>16 DEF Enter

\* The steps of exit and ExitEpilog.
LEMMA ExitWakes ==
  ASSUME Inv, QInv, SInv, NEW t \in Threads, Exit(t), UNCHANGED objectVars
  PROVE  SInv'
<1> USE DEF LockOK, HeirOK, PollOK, WakeOK, Trier, Waker, Heeds, Naming, Released, LocRec, Control, Exiting,
            Last_exit, Last_unlock, Owned, Entering, Reentered, Spinning, SameLists, SameWords,
            ExitReturn
<1>1. CASE Exit_prolog(t)
  <2>1. Step(t) /\ pc[t] \notin Outside BY <1>1, Exit_prologDoes DEF Outside
  <2>2. LockOK(t) /\ HeirOK(t) /\ PollOK(t) /\ WakeOK(t)
    BY <1>1, <2>1, Exit_prologDoes, Around
  <2> QED BY <2>1, <2>2, WakesKeep
<1>2. CASE Drop(t)
  <2>1. Step(t) /\ pc[t] \notin Outside BY <1>2, DropDoes DEF Outside
  <2>2. LockOK(t) /\ HeirOK(t) /\ PollOK(t) /\ WakeOK(t)
    BY <1>2, <2>1, DropDoes, Around
  <2> QED BY <2>1, <2>2, WakesKeep
<1>3. CASE Exit_EntryList(t)
  <2>1. Step(t) /\ pc[t] \notin Outside BY <1>3, Exit_EntryListDoes DEF Outside
  <2>2. LockOK(t) /\ HeirOK(t) /\ PollOK(t) /\ WakeOK(t)
    BY <1>3, <2>1, Exit_EntryListDoes, Around
  <2> QED BY <2>1, <2>2, WakesKeep
<1>4. CASE Exit_cxq(t)
  <2>1. Step(t) /\ pc[t] \notin Outside BY <1>4, Exit_cxqDoes DEF Outside
  <2>2. LockOK(t) /\ HeirOK(t) /\ PollOK(t) /\ WakeOK(t)
    BY <1>4, <2>1, Exit_cxqDoes, Around
  <2> QED BY <2>1, <2>2, WakesKeep
<1>5. CASE Exit_succ(t)
  <2>1. Step(t) /\ pc[t] \notin Outside BY <1>5, Exit_succDoes DEF Outside
  <2>2. LockOK(t) /\ HeirOK(t) /\ PollOK(t) /\ WakeOK(t)
    BY <1>5, <2>1, Exit_succDoes, Around
  <2> QED BY <2>1, <2>2, WakesKeep
<1>6. CASE Exit_cas(t)
  <2>1. Step(t) /\ pc[t] \notin Outside BY <1>6, Exit_casDoes DEF Outside
  <2>2. LockOK(t) /\ HeirOK(t) /\ PollOK(t) /\ WakeOK(t)
    BY <1>6, <2>1, Exit_casDoes, Around
  <2> QED BY <2>1, <2>2, WakesKeep
<1>7. CASE Drain_none(t)
  <2>1. Step(t) /\ pc[t] \notin Outside BY <1>7, Drain_noneDoes DEF Outside
  <2>2. LockOK(t) /\ HeirOK(t) /\ PollOK(t) /\ WakeOK(t)
    BY <1>7, <2>1, Drain_noneDoes, Around
  <2> QED BY <2>1, <2>2, WakesKeep
<1>8. CASE Drain(t)
  <2>1. Step(t) /\ pc[t] \notin Outside BY <1>8, DrainDoes DEF Outside
  <2>2. LockOK(t) /\ HeirOK(t) /\ PollOK(t) /\ WakeOK(t)
    BY <1>8, <2>1, DrainDoes, Around
  <2> QED BY <2>1, <2>2, WakesKeep
<1>9. CASE Drained(t)
  <2>1. Step(t) /\ pc[t] \notin Outside BY <1>9, DrainedDoes DEF Outside
  <2>2. LockOK(t) /\ HeirOK(t) /\ PollOK(t) /\ WakeOK(t)
    BY <1>9, <2>1, DrainedDoes, Around
  <2> QED BY <2>1, <2>2, WakesKeep
<1>10. CASE Epilog_succ(t)
  <2>1. Step(t) /\ pc[t] \notin Outside BY <1>10, Epilog_succDoes DEF Outside
  <2>2. LockOK(t) /\ HeirOK(t) /\ PollOK(t) /\ WakeOK(t)
    BY <1>10, <2>1, Epilog_succDoes, Around
  <2> QED BY <2>1, <2>2, WakesKeep
<1>11. CASE Epilog_drop(t)
  <2>1. Step(t) /\ pc[t] \notin Outside BY <1>11, Epilog_dropDoes DEF Outside
  <2>2. LockOK(t) BY <1>11, <2>1, Epilog_dropDoes, Around
  <2>3. HeirOK(t) BY <1>11, <2>1, Epilog_dropDoes, Around
  <2>4. PollOK(t) BY <1>11, <2>1, Epilog_dropDoes, Around
  <2>6. loc[t].w \in Members(Entries) BY <1>11, Epilog_dropDoes DEF QInv, ExitInv
  <2>7. loc'[t].w \in Members(Entries') BY <1>11, <2>6, Epilog_dropDoes
  <2>8. pc[t] = "epilog_drop" /\ pc'[t] = "epilog_unpark" /\ Owner = t BY <1>11, <2>1, Epilog_dropDoes, Around
  <2>5. WakeOK(t) BY <2>1, <2>7, <2>8, Around
  <2> QED BY <2>1, <2>2, <2>3, <2>4, <2>5, WakesKeep
<1>12. CASE Epilog_unpark(t)
  <2>1. Step(t) /\ pc[t] \notin Outside BY <1>12, Epilog_unparkDoes DEF Outside
  <2>2. LockOK(t) /\ HeirOK(t) /\ PollOK(t) /\ WakeOK(t)
    BY <1>12, <2>1, Epilog_unparkDoes, Around
  <2> QED BY <2>1, <2>2, WakesKeep
<1> QED BY <1>1, <1>2, <1>3, <1>4, <1>5, <1>6, <1>7, <1>8, <1>9, <1>10, <1>11, <1>12 DEF Exit

\* The steps of the unlock of compiled code.
LEMMA Fast_UnlockWakes ==
  ASSUME Inv, QInv, SInv, NEW t \in Threads, Fast_Unlock(t), UNCHANGED objectVars
  PROVE  SInv'
<1> USE DEF LockOK, HeirOK, PollOK, WakeOK, Trier, Waker, Heeds, Naming, Released, LocRec, Control, Exiting,
            Last_exit, Last_unlock, Owned, Entering, Reentered, Spinning, SameLists, SameWords
<1>1. CASE Unlock_cxq(t)
  <2>1. Step(t) /\ pc[t] \notin Outside BY <1>1, Unlock_cxqDoes DEF Outside
  <2>2. LockOK(t) /\ HeirOK(t) /\ PollOK(t) /\ WakeOK(t)
    BY <1>1, <2>1, Unlock_cxqDoes, Around
  <2> QED BY <2>1, <2>2, WakesKeep
<1>2. CASE Unlock_EntryList(t)
  <2>1. Step(t) /\ pc[t] \notin Outside BY <1>2, Unlock_EntryListDoes DEF Outside
  <2>2. LockOK(t) /\ HeirOK(t) /\ PollOK(t) /\ WakeOK(t)
    BY <1>2, <2>1, Unlock_EntryListDoes, Around
  <2> QED BY <2>1, <2>2, WakesKeep
<1>3. CASE Unlock_store(t)
  <2>1. Step(t) /\ pc[t] \notin Outside BY <1>3, Unlock_storeDoes DEF Outside
  <2>2. LockOK(t) /\ HeirOK(t) /\ PollOK(t) /\ WakeOK(t)
    BY <1>3, <2>1, Unlock_storeDoes, Around
  <2> QED BY <2>1, <2>2, WakesKeep
<1>4. CASE Unlock_succ(t)
  <2>1. Step(t) /\ pc[t] \notin Outside BY <1>4, Unlock_succDoes DEF Outside
  <2>2. LockOK(t) /\ HeirOK(t) /\ PollOK(t) /\ WakeOK(t)
    BY <1>4, <2>1, Unlock_succDoes, Around
  <2> QED BY <2>1, <2>2, WakesKeep
<1>5. CASE Unlock_drop(t)
  <2>1. Step(t) /\ pc[t] \notin Outside BY <1>5, Unlock_dropDoes DEF Outside
  <2>2. LockOK(t) /\ HeirOK(t) /\ PollOK(t) /\ WakeOK(t)
    BY <1>5, <2>1, Unlock_dropDoes, Around
  <2> QED BY <2>1, <2>2, WakesKeep
<1>6. CASE Unlock_recheck(t)
  <2>1. Step(t) /\ pc[t] \notin Outside BY <1>6, Unlock_recheckDoes DEF Outside
  <2>2. LockOK(t) /\ HeirOK(t) /\ PollOK(t) /\ WakeOK(t)
    BY <1>6, <2>1, Unlock_recheckDoes, Around
  <2> QED BY <2>1, <2>2, WakesKeep
<1>7. CASE Unlock_cas(t)
  <2>1. Step(t) /\ pc[t] \notin Outside BY <1>7, Unlock_casDoes DEF Outside
  <2>2. LockOK(t) /\ HeirOK(t) /\ PollOK(t) /\ WakeOK(t)
    BY <1>7, <2>1, Unlock_casDoes, Around
  <2> QED BY <2>1, <2>2, WakesKeep
<1> QED BY <1>1, <1>2, <1>3, <1>4, <1>5, <1>6, <1>7 DEF Fast_Unlock

\* The steps of wait and ReenterI.
LEMMA WaitWakes ==
  ASSUME Inv, QInv, SInv, NEW t \in Threads, Wait(t), UNCHANGED objectVars
  PROVE  SInv'
<1> USE DEF LockOK, HeirOK, PollOK, WakeOK, Trier, Waker, Heeds, Naming, Released, LocRec, Control, Exiting,
            Last_exit, Last_unlock, Owned, Entering, Reentered, Spinning, SameLists, SameWords,
            Site, Where, States, Linked, Relinked, Asleep, TState, Inflation, Preparing
<1>1. CASE Wait_interrupted(t)
  <2>1. Step(t) /\ pc[t] \notin Outside BY <1>1, Wait_interruptedDoes DEF Outside
  <2>2. LockOK(t) /\ HeirOK(t) /\ PollOK(t) /\ WakeOK(t)
    BY <1>1, <2>1, Wait_interruptedDoes, Around
  <2> QED BY <2>1, <2>2, WakesKeep
<1>2. CASE Wait_node(t)
  <2>1. Step(t) /\ pc[t] \notin Outside BY <1>2, Wait_nodeDoes DEF Outside
  <2>2. LockOK(t) /\ HeirOK(t) /\ PollOK(t) /\ WakeOK(t)
    BY <1>2, <2>1, Wait_nodeDoes, Around
  <2> QED BY <2>1, <2>2, WakesKeep
<1>3. CASE Wait_add(t)
  <2>1. Step(t) /\ pc[t] \notin Outside BY <1>3, Wait_addDoes DEF Outside
  <2>2. LockOK(t) /\ HeirOK(t) /\ PollOK(t) /\ WakeOK(t)
    BY <1>3, <2>1, Wait_addDoes, Around
  <2> QED BY <2>1, <2>2, WakesKeep
<1>4. CASE Wait_exited(t)
  <2>1. Step(t) /\ pc[t] \notin Outside BY <1>4, Wait_exitedDoes DEF Outside
  <2>2. LockOK(t) /\ HeirOK(t) /\ PollOK(t) /\ WakeOK(t)
    BY <1>4, <2>1, Wait_exitedDoes, Around
  <2> QED BY <2>1, <2>2, WakesKeep
<1>5. CASE Wait_check(t)
  <2>1. Step(t) /\ pc[t] \notin Outside BY <1>5, Wait_checkDoes DEF Outside
  <2>2. LockOK(t) /\ HeirOK(t) /\ PollOK(t) /\ WakeOK(t)
    BY <1>5, <2>1, Wait_checkDoes, Around
  <2> QED BY <2>1, <2>2, WakesKeep
<1>6. CASE Wait_notified(t)
  <2>1. Step(t) /\ pc[t] \notin Outside BY <1>6, Wait_notifiedDoes DEF Outside
  <2>2. LockOK(t) /\ HeirOK(t) /\ PollOK(t) /\ WakeOK(t)
    BY <1>6, <2>1, Wait_notifiedDoes, Around
  <2> QED BY <2>1, <2>2, WakesKeep
<1>7. CASE Wait_park(t)
  <2>1. Step(t) /\ pc[t] \notin Outside BY <1>7, Wait_parkDoes DEF Outside
  <2>2. LockOK(t) /\ HeirOK(t) /\ PollOK(t) /\ WakeOK(t)
    BY <1>7, <2>1, Wait_parkDoes, Around
  <2> QED BY <2>1, <2>2, WakesKeep
<1>8. CASE Wait_state(t)
  <2>1. Step(t) /\ pc[t] \notin Outside BY <1>8, Wait_stateDoes DEF Outside
  <2>2. LockOK(t) /\ HeirOK(t) /\ PollOK(t) /\ WakeOK(t)
    BY <1>8, <2>1, Wait_stateDoes, Around
  <2> QED BY <2>1, <2>2, WakesKeep
<1>9. CASE Wait_unlink(t)
  <2>1. Step(t) /\ pc[t] \notin Outside BY <1>9, Wait_unlinkDoes DEF Outside
  <2>2. LockOK(t) /\ HeirOK(t) /\ PollOK(t) /\ WakeOK(t)
    BY <1>9, <2>1, Wait_unlinkDoes, Around
  <2> QED BY <2>1, <2>2, WakesKeep
<1>10. CASE Wait_was(t)
  <2>1. Step(t) /\ pc[t] \notin Outside BY <1>10, Wait_wasDoes DEF Outside
  <2>2. LockOK(t) /\ HeirOK(t) /\ PollOK(t) /\ WakeOK(t)
    BY <1>10, <2>1, Wait_wasDoes, Around
  <2> QED BY <2>1, <2>2, WakesKeep
<1>11. CASE Reenter(t)
  <2>1. Step(t) /\ pc[t] \notin Outside BY <1>11, ReenterDoes DEF Outside
  <2>2. LockOK(t) /\ HeirOK(t) /\ PollOK(t) /\ WakeOK(t)
    BY <1>11, <2>1, ReenterDoes, Around
  <2> QED BY <2>1, <2>2, WakesKeep
<1>12. CASE Reenter_park(t)
  <2>1. Step(t) /\ pc[t] \notin Outside BY <1>12, Reenter_parkDoes DEF Outside
  <2>2. LockOK(t) /\ HeirOK(t) /\ PollOK(t) /\ WakeOK(t)
    BY <1>12, <2>1, Reenter_parkDoes, Around
  <2> QED BY <2>1, <2>2, WakesKeep
<1>13. CASE Reenter_woken(t)
  <2>1. Step(t) /\ pc[t] \notin Outside BY <1>13, Reenter_wokenDoes DEF Outside
  <2>2. LockOK(t) /\ HeirOK(t) /\ PollOK(t) /\ WakeOK(t)
    BY <1>13, <2>1, Reenter_wokenDoes, Around
  <2> QED BY <2>1, <2>2, WakesKeep
<1>14. CASE Reenter_egress(t)
  <2>1. Step(t) /\ pc[t] \notin Outside BY <1>14, Reenter_egressDoes DEF Outside
  <2>2. LockOK(t) /\ HeirOK(t) /\ PollOK(t) /\ WakeOK(t)
    BY <1>14, <2>1, Reenter_egressDoes, Around
  <2> QED BY <2>1, <2>2, WakesKeep
<1>15. CASE Wait_end(t)
  <2>1. Step(t) /\ pc[t] \notin Outside BY <1>15, Wait_endDoes DEF Outside
  <2>2. LockOK(t) /\ HeirOK(t) /\ PollOK(t) /\ WakeOK(t)
    BY <1>15, <2>1, Wait_endDoes, Around
  <2> QED BY <2>1, <2>2, WakesKeep
<1> QED BY <1>1, <1>2, <1>3, <1>4, <1>5, <1>6, <1>7, <1>8, <1>9, <1>10, <1>11, <1>12, <1>13,
   <1>14, <1>15 DEF Wait

\* The steps of notify and notifyAll.
LEMMA NotifyWakes ==
  ASSUME Inv, QInv, SInv, NEW t \in Threads, Notify(t), UNCHANGED objectVars
  PROVE  SInv'
<1> USE DEF LockOK, HeirOK, PollOK, WakeOK, Trier, Waker, Heeds, Naming, Released, LocRec, Control, Exiting,
            Last_exit, Last_unlock, Owned, Entering, Reentered, Spinning, SameLists, SameWords
<1>1. CASE Notify_begin(t)
  <2>1. Step(t) /\ pc[t] \notin Outside BY <1>1, Notify_beginDoes DEF Outside
  <2>2. LockOK(t) /\ HeirOK(t) /\ PollOK(t) /\ WakeOK(t)
    BY <1>1, <2>1, Notify_beginDoes, Around
  <2> QED BY <2>1, <2>2, WakesKeep
<1>2. CASE Notify_dequeue(t)
  <2>1. Step(t) /\ pc[t] \notin Outside BY <1>2, Notify_dequeueDoes DEF Outside
  <2>2. LockOK(t) /\ HeirOK(t) /\ PollOK(t) /\ WakeOK(t)
    BY <1>2, <2>1, Notify_dequeueDoes, Around
  <2> QED BY <2>1, <2>2, WakesKeep
<1>3. CASE Notify_set(t)
  <2>1. Step(t) /\ pc[t] \notin Outside BY <1>3, Notify_setDoes DEF Outside
  <2>2. LockOK(t) /\ HeirOK(t) /\ PollOK(t) /\ WakeOK(t)
    BY <1>3, <2>1, Notify_setDoes, Around
  <2> QED BY <2>1, <2>2, WakesKeep
<1>4. CASE Notify_link(t)
  <2>1. Step(t) /\ pc[t] \notin Outside BY <1>4, Notify_linkDoes DEF Outside
  <2>2. LockOK(t) BY <1>4, <2>1, Notify_linkDoes, Around
  <2>3. HeirOK(t) BY <1>4, <2>1, Notify_linkDoes, Around
  <2>4. PollOK(t) BY <1>4, <2>1, Notify_linkDoes, Around
  <2>7. SameWords /\ pc[t] = "notify_link" BY <1>4, Notify_linkDoes
  <2>6. Owner = t /\ Owner' = t /\ None # t BY <2>1, <2>7, Around
  <2>5. WakeOK(t) BY <2>6
  <2> QED BY <2>1, <2>2, <2>3, <2>4, <2>5, WakesKeep
<1>5. CASE NotifyAll_lock(t)
  <2>1. Step(t) /\ pc[t] \notin Outside BY <1>5, NotifyAll_lockDoes DEF Outside
  <2>2. LockOK(t) /\ HeirOK(t) /\ PollOK(t) /\ WakeOK(t)
    BY <1>5, <2>1, NotifyAll_lockDoes, Around
  <2> QED BY <2>1, <2>2, WakesKeep
<1>6. CASE NotifyAll_dequeue(t)
  <2>1. Step(t) /\ pc[t] \notin Outside BY <1>6, NotifyAll_dequeueDoes DEF Outside
  <2>2. LockOK(t) /\ HeirOK(t) /\ PollOK(t) /\ WakeOK(t)
    BY <1>6, <2>1, NotifyAll_dequeueDoes, Around
  <2> QED BY <2>1, <2>2, WakesKeep
<1>7. CASE NotifyAll_link(t)
  <2>1. Step(t) /\ pc[t] \notin Outside BY <1>7, NotifyAll_linkDoes DEF Outside
  <2>2. LockOK(t) BY <1>7, <2>1, NotifyAll_linkDoes, Around
  <2>3. HeirOK(t) BY <1>7, <2>1, NotifyAll_linkDoes, Around
  <2>4. PollOK(t) BY <1>7, <2>1, NotifyAll_linkDoes, Around
  <2>6. Owner = t /\ Owner' = t /\ None # t BY <1>7, <2>1, NotifyAll_linkDoes, Around
  <2>5. WakeOK(t) BY <2>6
  <2> QED BY <2>1, <2>2, <2>3, <2>4, <2>5, WakesKeep
<1> QED BY <1>1, <1>2, <1>3, <1>4, <1>5, <1>6, <1>7 DEF Notify

-----------------------------------------------------------------------------
(* Every step keeps the invariant of the wakeups *)

\* A step outside the monitor takes no unpark away.
LEMMA OuterUnparks ==
  ASSUME SInv, NEW t \in Threads, Outer(t)
  PROVE  Unparks
<1>1. event \in [Threads -> {0, 1}]
  BY DEF SInv, EventInv
<1>2. CASE Interrupt_unpark(t)
  BY <1>1, <1>2 DEF Interrupt_unpark, Unparks
<1>3. CASE Interrupt_set(t) \/ InflateStep(t)
  <2>1. event' = event
    BY <1>3 DEF Interrupt_set, InflateStep, Inflate_inflated, Inflate_read, omAlloc_own,
       omAlloc_global,
       omAlloc_block, Inflate_failed, Inflate_neutral, Inflate_stack, Inflate_dmw, Inflate_publish
  <2> QED BY <1>1, <2>1 DEF Unparks
<1>4. CASE LockStep(t) \/ HashStep(t)
  <2>1. event' = event
    BY <1>4 DEF LockStep, Slow_enter, Stack_lock, Fast_exit, Stack_unlock, Compiled_unlock,
       HashStep, Hash_read, Hash_mark, Hash_monitor, Hash_header
  <2> QED BY <1>1, <2>1 DEF Unparks
<1>5. CASE CallStep(t)
  <2>1. event' = event
    BY <1>5 DEF CallStep, Call_enter, Call_exit, Call_wait, Call_notify, Call_hash, Call_interrupt,
       Call_omFlush
  <2> QED BY <1>1, <2>1 DEF Unparks
<1> QED BY <1>2, <1>3, <1>4, <1>5 DEF Outer, Interrupt

\* A step that changes nothing.
LEMMA StutterWakes ==
  ASSUME SInv, UNCHANGED <<om, pc, event, loc, mark>>
  PROVE  SInv'
<1>1. /\ Cxq' = Cxq /\ Entries' = Entries /\ Owner' = Owner /\ Succ' = Succ /\ Resp' = Resp
      /\ (Heavy' <=> Heavy)
  BY DEF Cxq, Entries, Owner, Succ, Resp, Heavy
<1>2. EventInv' /\ ClearInv'
  BY <1>1 DEF SInv, EventInv, ClearInv
<1>3. HeirInv'
  <2>1. \A t : (Pending(t)' <=> Pending(t)) /\ (Heeds(t)' <=> Heeds(t))
    BY DEF Pending, Heeds
  <2> QED BY <1>1, <2>1 DEF SInv, HeirInv
<1>4. PollInv'
  <2>1. Polled' <=> Polled
    BY <1>1 DEF Polled
  <2> QED BY <1>1, <2>1 DEF SInv, PollInv
<1>5. WakeInv'
  <2>1. \A t : (Trier(t)' <=> Trier(t)) /\ (Waker(t)' <=> Waker(t))
    BY <1>1 DEF Trier, Waker, Members
  <2> QED BY <1>1, <2>1 DEF SInv, WakeInv
<1> QED BY <1>2, <1>3, <1>4, <1>5 DEF SInv

\* The steps of a thread.
LEMMA ThreadWakes ==
  ASSUME Inv, Inv', QInv, SInv, NEW t \in Threads,
         \/ MonitorStep(t) /\ UNCHANGED objectVars
         \/ InflateStep(t) \/ LockStep(t) \/ HashStep(t) \/ CallStep(t)
  PROVE  SInv'
<1>1. CASE MonitorStep(t) /\ UNCHANGED objectVars /\ ~Interrupt(t)
  BY <1>1, TrySpinWakes, EnterWakes, ExitWakes, Fast_UnlockWakes, WaitWakes, NotifyWakes
     DEF MonitorStep
<1>2. CASE Outer(t)
  BY <1>2, OuterAway, OuterUnparks DEF Undisturbed
<1> QED BY <1>1, <1>2 DEF Outer

\* Every step.
LEMMA NextWakes == Inv /\ Inv' /\ QInv /\ SInv /\ [Next]_vars => SInv'
<1> SUFFICES ASSUME Inv, Inv', QInv, SInv, [Next]_vars PROVE SInv'
  OBVIOUS
<1>1. CASE UNCHANGED vars
  BY <1>1, StutterWakes DEF vars
<1>2. CASE \E t \in Threads : \/ MonitorStep(t) /\ UNCHANGED objectVars
                              \/ InflateStep(t) \/ LockStep(t) \/ HashStep(t) \/ CallStep(t)
  BY <1>2, ThreadWakes
<1>3. ASSUME NEW m \in Monitors, Deflate(m) PROVE SInv'
  <2>1. event' = event /\ event \in [Threads -> {0, 1}]
    BY <1>3 DEF Deflate, SInv, EventInv
  <2>2. Unparks
    BY <2>1 DEF Unparks
  <2> QED BY <1>3, <2>2, DeflateAway DEF Undisturbed
<1> QED BY <1>1, <1>2, <1>3 DEF Next

\* The first state: nobody is on cxq or EntryList.
LEMMA InitWakes == Init => SInv
<1> SUFFICES ASSUME Init PROVE SInv
  OBVIOUS
<1>1. PICK s \in Scenarios :
        /\ mark = (IF s.inflated THEN Inflated(1) ELSE Neutral(0))
        /\ om = [m \in Monitors |-> IF s.inflated /\ m = 1 THEN Waited(s.waiters) ELSE Idle]
        /\ pc = [t \in Threads |-> IF t \in Members(s.waiters) THEN "wait_park" ELSE "java"]
        /\ event = [t \in Threads |-> 0]
  BY DEF Init
<1>2. \A t \in Threads : pc[t] \in {"wait_park", "java"}
  BY <1>1
<1>3. event \in [Threads -> {0, 1}]
  BY <1>1
<1>4. Heavy => Cxq = <<>> /\ Entries = <<>> /\ Succ = None
  <2> SUFFICES ASSUME Heavy PROVE Cxq = <<>> /\ Entries = <<>> /\ Succ = None
    OBVIOUS
  <2>1. s.inflated /\ mark = Inflated(1) /\ mark.monitor = 1
    BY <1>1, MarkFacts DEF Heavy
  <2>2. om[1] = Waited(s.waiters)
    BY <1>1, <2>1, MonitorsAssumption
  <2>3. LET q == Waited(s.waiters) IN q.cxq = <<>> /\ q.EntryList = <<>> /\ q.succ = None
    BY DEF Waited, Idle
  <2> QED BY <2>1, <2>2, <2>3 DEF Cxq, Entries, Succ
<1>5. EventInv /\ PollInv /\ ClearInv
  BY <1>2, <1>3 DEF EventInv, PollInv, ClearInv
<1>6. HeirInv /\ WakeInv
  BY <1>4, ThreadsAssumption DEF HeirInv, WakeInv
<1> QED BY <1>5, <1>6 DEF SInv

\* Who wakes whom, in every reachable state.
THEOREM WakesHold == Spec => [](Inv /\ QInv /\ SInv)
<1>1. Init => SInv
  BY InitWakes
<1>2. Inv /\ Inv' /\ QInv /\ SInv /\ [Next]_vars => SInv'
  BY NextWakes
<1> QED
  BY <1>1, <1>2, QueuesHold, PTL DEF Spec

\* A thread of WakeInv is one of those that NoStranding asks for.
LEMMA TrierWakes ==
  ASSUME Inv, NEW t \in Threads, Trier(t) \/ Waker(t)
  PROVE  mon[t] = mark.monitor /\ (WillTry(t) \/ WillWake(t))
<1>1. pc[t] \notin Outside
  BY DEF Trier, Waker, Outside, Released
<1>2. mon[t] = mark.monitor /\ this(t).succ = Succ /\ this(t).Responsible = Resp
  BY <1>1, AtThe DEF this
<1>3. CASE Waker(t)
  BY <1>2, <1>3 DEF Waker, WillWake
<1>4. CASE Trier(t)
  BY <1>2, <1>4 DEF Trier, Released, WillTry, WillWake
<1> QED BY <1>2, <1>3, <1>4

(* NoStranding: a free monitor with threads on cxq or EntryList has a      *)
(* thread that will try the lock before it sleeps for good, or one that    *)
(* will wake another.                                                      *)
THEOREM NoStrandingCorrect == Spec => []NoStranding
<1>1. ASSUME Inv, QInv, SInv PROVE NoStranding
  <2> SUFFICES ASSUME NEW m \in Monitors, om[m].owner = None, Queued(m) # {}
               PROVE  \E t \in Threads : mon[t] = m /\ (WillTry(t) \/ WillWake(t))
    BY DEF NoStranding
  <2>1. Members(<<>>) = {}
    BY DEF Members
  <2>2. om[m].cxq # <<>> \/ om[m].EntryList # <<>>
    BY <2>1 DEF Queued
  <2>3. mark = Inflated(m)
    BY <1>1, <2>2 DEF QInv, FreshInv
  <2>4. Heavy /\ mark.monitor = m
    BY <2>3, MarkFacts DEF Heavy
  <2>5. \E t \in Threads : Trier(t) \/ Waker(t)
    BY <1>1, <2>2, <2>4 DEF SInv, WakeInv, Owner, Cxq, Entries
  <2> QED BY <1>1, <2>4, <2>5, TrierWakes
<1> QED BY <1>1, WakesHold, PTL

=============================================================================
