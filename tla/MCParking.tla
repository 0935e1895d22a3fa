----------------------------- MODULE MCParking -----------------------------
(***************************************************************************)
(* The two places a thread can block in, its PlatformEvent and its Parker, *)
(* with three unparkers: one whose signal is late, one that finds the      *)
(* permit pending and one for the thread's next park; and the free list    *)
(* the events come from, with two threads and four events, three of them   *)
(* in use at a time: enough for one thread to take, use and release the    *)
(* head between the other's read and its compare-and-swap, and for events  *)
(* to arrive while the other has a residual list to walk.                  *)
(*                                                                         *)
(* The three are used one at a time: a behavior is one of PlatformEvent,   *)
(* of Parker or of ParkEventList.                                          *)
(***************************************************************************)
EXTENDS PlatformEvent, Parker, ParkEventList, TLC

CONSTANTS me, u1, u2, u3, t1, t2, e1, e2, e3, e4
MCUnparkers == {u1, u2, u3}
MCThreads == {t1, t2}
MCEvents == {e1, e2, e3, e4}

VARIABLE place  \* "PlatformEvent", "Parker" or "FreeList"

event  == <<Event, nParked, self, unparker>>
parker == <<counter, interrupted, parker_self, unpark_pc>>
all    == <<place, pthread, event, parker, list_vars>>

ParkingInit ==
  /\ Init /\ ParkerInit /\ ListInit
  /\ place \in {"PlatformEvent", "Parker", "FreeList"}
  \* The filter is a flag of PlatformEvents only, and the free list uses no
  \* pthread object.
  /\ place # "PlatformEvent" => FilterSpuriousWakeups
  /\ place = "FreeList" => TimedWaitHang

ParkingNext ==
  \/ place = "PlatformEvent" /\ Next /\ UNCHANGED <<place, parker, list_vars>>
  \/ place = "Parker" /\ ParkerNext /\ UNCHANGED <<place, event, list_vars>>
  \/ place = "FreeList" /\ ListNext /\ UNCHANGED <<place, pthread, event, parker>>

ParkingSpec ==
  /\ ParkingInit /\ [][ParkingNext]_all
  /\ Fairness /\ ParkerFairness /\ ListFairness
=============================================================================
