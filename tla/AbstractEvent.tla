--------------------------- MODULE AbstractEvent ---------------------------
(***************************************************************************)
(* What runtime/thread.hpp and os_linux.cpp promise of a ParkEvent: a binary *)
(* semaphore owned by one thread.  unpark() leaves a permit.  park() takes  *)
(* the permit, or blocks until there is one and takes it.  park(millis) may *)
(* also give up, and then no permit is left over from before it returned.   *)
(***************************************************************************)
VARIABLES permit, mode   \* mode: "running", "park" or "timedpark"

vars == <<permit, mode>>

Init == permit = FALSE /\ mode = "running"

Unpark == permit' = TRUE /\ UNCHANGED mode

\* park, park(millis) and TryPark when a permit is there; TryPark and reset
\* when there is none.
Take == mode = "running" /\ permit' = FALSE /\ UNCHANGED mode

Block ==
  /\ mode = "running" /\ ~permit
  /\ mode' \in {"park", "timedpark"}
  /\ UNCHANGED permit

Return ==
  /\ mode # "running"
  /\ permit \/ mode = "timedpark"
  /\ permit' = FALSE /\ mode' = "running"

Next == Unpark \/ Take \/ Block \/ Return

Spec == Init /\ [][Next]_vars
=============================================================================
