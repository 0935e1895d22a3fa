--------------------------- MODULE ParkEventList ---------------------------
(***************************************************************************)
(* ParkEvent::Allocate and ParkEvent::Release, runtime/thread.cpp: the free *)
(* list of immortal ParkEvents, shared without a lock.  Release pushes one  *)
(* event.  Allocate detaches the whole list, keeps the first event and puts *)
(* the rest back, merging what was released in between.  Parker::Allocate   *)
(* and Parker::Release are copies of this code.                             *)
(*                                                                          *)
(* The list is modelled by its pointers.  One action is one access to       *)
(* FreeList or one step of the walk over a detached list.                   *)
(***************************************************************************)
EXTENDS Naturals, FiniteSets

CONSTANTS
  Threads,    \* the threads that create and destroy threads
  Events,     \* the ParkEvents that can be materialised: bounds the model
  MaxInUse,   \* the largest number of events in use at a time: bounds the model
  NULL

ASSUME ListAssumption ==
  /\ NULL \notin Events
  /\ IsFiniteSet(Events) /\ MaxInUse \in Nat

VARIABLES
  FreeList,        \* the head of the free list
  FreeNext,        \* FreeNext[e]: the link of event e
  made,            \* the events materialised so far
  inUse,           \* those with AssociatedWith # NULL: a thread has them
  list_pc, ev, List, Arv, tail   \* each thread's place and locals

locals == <<ev, List, Arv, tail>>
list_vars == <<FreeList, FreeNext, made, inUse, list_pc, ev, List, Arv, tail>>

Ptr == Events \cup {NULL}
AllocPCs == {"read", "detach", "extract", "attach", "arrivals", "merge", "new",
             "associate"}
ListPCs == AllocPCs \cup {"idle", "push", "cas"}

\* Every variable has its type, and no pointer that is dereferenced is NULL.
ListTypeOK ==
  /\ FreeList \in Ptr /\ FreeNext \in [Events -> Ptr]
  /\ inUse \subseteq made /\ made \subseteq Events
  /\ list_pc \in [Threads -> ListPCs]
  /\ ev \in [Threads -> Ptr] /\ List \in [Threads -> Ptr]
  /\ Arv \in [Threads -> Ptr] /\ tail \in [Threads -> Ptr]
  /\ \A t \in Threads :
        /\ list_pc[t] \in {"detach", "extract", "associate", "push", "cas"} =>
              ev[t] \in Events
        /\ list_pc[t] = "merge" => tail[t] \in Events

ListInit ==
  /\ FreeList = NULL
  /\ FreeNext = [e \in Events |-> NULL]
  /\ made = {} /\ inUse = {}
  /\ list_pc = [t \in Threads |-> "idle"]
  /\ ev = [t \in Threads |-> NULL] /\ List = [t \in Threads |-> NULL]
  /\ Arv = [t \in Threads |-> NULL] /\ tail = [t \in Threads |-> NULL]

Goto(t, l) == list_pc' = [list_pc EXCEPT ![t] = l]

-----------------------------------------------------------------------------
(* ParkEvent::Allocate *)

Allocate(t) ==
  /\ list_pc[t] = "idle"
  /\ Cardinality(inUse) + Cardinality({u \in Threads : list_pc[u] \in AllocPCs})
       < MaxInUse
  /\ Goto(t, "read")
  /\ UNCHANGED <<FreeList, FreeNext, made, inUse, locals>>

Allocate_read(t) ==
  /\ list_pc[t] = "read"
  /\ ev' = [ev EXCEPT ![t] = FreeList]
  /\ Goto(t, IF FreeList = NULL THEN "new" ELSE "detach")
  /\ UNCHANGED <<FreeList, FreeNext, made, inUse, List, Arv,
                 tail>>

\* Variant: the list is detached by a plain store.
Allocate_detach_store(t) ==
  /\ list_pc[t] = "detach"
  /\ FreeList' = NULL
  /\ Goto(t, "extract")
  /\ UNCHANGED <<FreeNext, made, inUse, locals>>

\* 1: cmpxchg_ptr (NULL, &FreeList, ev)
Allocate_detach(t) ==
  /\ list_pc[t] = "detach"
  /\ FreeList' = IF FreeList = ev[t] THEN NULL ELSE FreeList
  /\ Goto(t, IF FreeList = ev[t] THEN "extract" ELSE "read")
  /\ UNCHANGED <<FreeNext, made, inUse, locals>>

\* 2: take the first element.
Allocate_extract(t) ==
  /\ list_pc[t] = "extract"
  /\ List' = [List EXCEPT ![t] = FreeNext[ev[t]]]
  /\ Goto(t, IF FreeNext[ev[t]] = NULL THEN "associate" ELSE "attach")
  /\ UNCHANGED <<FreeList, FreeNext, made, inUse, ev, Arv, tail>>

\* 3: cmpxchg_ptr (List, &FreeList, NULL)
Allocate_attach(t) ==
  /\ list_pc[t] = "attach"
  /\ Arv' = [Arv EXCEPT ![t] = FreeList]
  /\ FreeList' = IF FreeList = NULL THEN List[t] ELSE FreeList
  /\ Goto(t, IF FreeList = NULL THEN "associate" ELSE "arrivals")
  /\ UNCHANGED <<FreeNext, made, inUse, ev, List, tail>>

\* Variant: a failed detach of the arrivals is tried again for ever.
Allocate_arrivals_insist(t) ==
  /\ list_pc[t] = "arrivals"
  /\ FreeList' = IF FreeList = Arv[t] THEN NULL ELSE FreeList
  /\ tail' = [tail EXCEPT ![t] = List[t]]
  /\ Goto(t, IF FreeList = Arv[t] THEN "merge" ELSE "arrivals")
  /\ UNCHANGED <<FreeNext, made, inUse, ev, List, Arv>>

\* cmpxchg_ptr (NULL, &FreeList, Arv)
Allocate_arrivals(t) ==
  /\ list_pc[t] = "arrivals"
  /\ FreeList' = IF FreeList = Arv[t] THEN NULL ELSE FreeList
  /\ tail' = [tail EXCEPT ![t] = List[t]]
  /\ Goto(t, IF FreeList = Arv[t] THEN "merge" ELSE "attach")
  /\ UNCHANGED <<FreeNext, made, inUse, ev, List, Arv>>

\* 4: walk to the tail ...
Allocate_walk(t) ==
  /\ list_pc[t] = "merge" /\ FreeNext[tail[t]] # NULL
  /\ tail' = [tail EXCEPT ![t] = FreeNext[tail[t]]]
  /\ UNCHANGED <<FreeList, FreeNext, made, inUse, list_pc, ev, List,
                 Arv>>

\* ... and append the arrivals.
Allocate_merge(t) ==
  /\ list_pc[t] = "merge" /\ FreeNext[tail[t]] = NULL
  /\ FreeNext' = [FreeNext EXCEPT ![tail[t]] = Arv[t]]
  /\ Goto(t, "attach")
  /\ UNCHANGED <<FreeList, made, inUse, locals>>

\* ev = new ParkEvent ().  New events are alike: which one it is makes no difference.
Allocate_new(t) ==
  /\ list_pc[t] = "new" /\ made # Events
  /\ LET e == CHOOSE e \in Events : e \notin made
     IN  made' = made \cup {e} /\ ev' = [ev EXCEPT ![t] = e]
  /\ Goto(t, "associate")
  /\ UNCHANGED <<FreeList, FreeNext, inUse, List, Arv, tail>>

\* The event leaves Allocate, and the locals go out of scope.
Allocate_associate(t) ==
  /\ list_pc[t] = "associate"
  /\ FreeNext' = [FreeNext EXCEPT ![ev[t]] = NULL]
  /\ inUse' = inUse \cup {ev[t]}
  /\ Goto(t, "idle")
  /\ ev' = [ev EXCEPT ![t] = NULL] /\ List' = [List EXCEPT ![t] = NULL]
  /\ Arv' = [Arv EXCEPT ![t] = NULL] /\ tail' = [tail EXCEPT ![t] = NULL]
  /\ UNCHANGED <<FreeList, made>>

-----------------------------------------------------------------------------
(* ParkEvent::Release, by any thread *)

Release(t, e) ==
  /\ list_pc[t] = "idle"
  /\ e \in inUse
  /\ inUse' = inUse \ {e}
  /\ ev' = [ev EXCEPT ![t] = e]
  /\ Goto(t, "push")
  /\ UNCHANGED <<FreeList, FreeNext, made, List, Arv, tail>>

Release_push(t) ==
  /\ list_pc[t] = "push"
  /\ List' = [List EXCEPT ![t] = FreeList]
  /\ FreeNext' = [FreeNext EXCEPT ![ev[t]] = FreeList]
  /\ Goto(t, "cas")
  /\ UNCHANGED <<FreeList, made, inUse, ev, Arv, tail>>

\* cmpxchg_ptr (ev, &FreeList, List): pushed ...
Release_cas(t) ==
  /\ list_pc[t] = "cas" /\ FreeList = List[t]
  /\ FreeList' = ev[t]
  /\ Goto(t, "idle")
  /\ ev' = [ev EXCEPT ![t] = NULL] /\ List' = [List EXCEPT ![t] = NULL]
  /\ UNCHANGED <<FreeNext, made, inUse, Arv, tail>>

\* ... or tried again.
Release_retry(t) ==
  /\ list_pc[t] = "cas" /\ FreeList # List[t]
  /\ Goto(t, "push")
  /\ UNCHANGED <<FreeList, FreeNext, made, inUse, locals>>

-----------------------------------------------------------------------------
Step(t) ==
  \/ Allocate_read(t) \/ Allocate_detach(t) \/ Allocate_extract(t)
  \/ Allocate_attach(t) \/ Allocate_arrivals(t) \/ Allocate_walk(t)
  \/ Allocate_merge(t) \/ Allocate_associate(t)
  \/ Release_push(t) \/ Release_cas(t) \/ Release_retry(t)
  \/ Allocate_new(t)

ListNext == \E t \in Threads :
  \/ Step(t) \/ Allocate(t) \/ \E e \in Events : Release(t, e)

ListSpec == ListInit /\ [][ListNext]_list_vars

\* A thread inside Allocate or Release keeps being scheduled.
ListFairness == \A t \in Threads : WF_list_vars(Step(t))

-----------------------------------------------------------------------------
(* Properties *)

\* The events reachable from p along next: the least set with p that next does
\* not lead out of.
Reach(next, p) ==
  {e \in Events : \A S \in SUBSET Events :
     (p \in S \cup {NULL} /\ \A d \in S : next[d] \in S \cup {NULL}) => e \in S}

Chain(p) == Reach(FreeNext, p)

\* The events a thread has privatised: the one in its hand, the rest of the
\* list it detached, and the arrivals it has taken but not appended.
InHand(t) ==
  IF list_pc[t] \in {"extract", "attach", "arrivals", "merge", "associate", "push",
                "cas"} THEN {ev[t]} ELSE {}
Rest(t) ==
  IF list_pc[t] = "extract" THEN Chain(FreeNext[ev[t]])
  ELSE IF list_pc[t] \in {"attach", "arrivals", "merge"} THEN Chain(List[t]) ELSE {}
Arrivals(t) == IF list_pc[t] = "merge" THEN Chain(Arv[t]) ELSE {}

Places == {<<"list", NULL>>, <<"use", NULL>>}
            \cup {"hand", "rest", "arrivals"} \X Threads
At(p) ==
  IF p[1] = "list" THEN Chain(FreeList)
  ELSE IF p[1] = "use" THEN inUse
  ELSE IF p[1] = "hand" THEN InHand(p[2])
  ELSE IF p[1] = "rest" THEN Rest(p[2]) ELSE Arrivals(p[2])

\* Every event is in exactly one place: none is lost, none is handed out twice
\* and none is on two lists, however detaching, merging and pushing interleave
\* and even though an event can leave and rejoin the list under a thread that
\* read it as the head (ABA); and no walk runs off a list (ListTypeOK).
OnePlace ==
  /\ ListTypeOK
  /\ \A e \in made : Cardinality({p \in Places : e \in At(p)}) = 1

\* Detaching and putting back is lock-free: as long as a thread is inside
\* Allocate or Release some call completes.  (A thread that materialises an
\* event is held up only by the bound Events.)
LockFree ==
  \/ []<><<\E t \in Threads : list_pc[t] # "idle" /\ list_pc'[t] = "idle">>_list_vars
  \/ <>[](\A t \in Threads : list_pc[t] \in {"idle", "new"})
=============================================================================
