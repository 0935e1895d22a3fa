-------------------------- MODULE AbstractMonitor --------------------------
(***************************************************************************)
(* What runtime/mutex.hpp promises its clients: a lock with one holder, a   *)
(* set of threads queued for it, and a set of threads waiting on it for a   *)
(* notification or a timeout.  Nothing is said about the order in which     *)
(* queued threads get the lock: newcomers may barge.                        *)
(***************************************************************************)
CONSTANTS Threads, NULL
VARIABLES holder, contenders, waiters

vars == <<holder, contenders, waiters>>

Init == holder = NULL /\ contenders = {} /\ waiters = {}

\* A queued thread, or one that just arrived, takes the free lock.
Acquire(t) ==
  /\ holder = NULL
  /\ t \notin waiters
  /\ holder' = t
  /\ contenders' = contenders \ {t}
  /\ UNCHANGED waiters

\* A thread finds the lock held and queues for it.
Contend(t) ==
  /\ holder \notin {NULL, t}
  /\ t \notin contenders \cup waiters
  /\ contenders' = contenders \cup {t}
  /\ UNCHANGED <<holder, waiters>>

Release(t) ==
  /\ holder = t
  /\ holder' = NULL
  /\ UNCHANGED <<contenders, waiters>>

\* The holder joins the waiters, and releases the lock next.
Join(t) ==
  /\ holder = t
  /\ t \notin waiters
  /\ waiters' = waiters \cup {t}
  /\ UNCHANGED <<holder, contenders>>

\* The holder moves a waiter to the queue.
Notify(t, w) ==
  /\ holder = t
  /\ t \notin waiters
  /\ w \in waiters
  /\ waiters' = waiters \ {w}
  /\ contenders' = contenders \cup {w}
  /\ UNCHANGED holder

\* A waiter gives up waiting by itself.
Timeout(w) ==
  /\ w \in waiters
  /\ w # holder
  /\ waiters' = waiters \ {w}
  /\ UNCHANGED <<holder, contenders>>

Next ==
  \E t \in Threads :
    \/ Acquire(t) \/ Contend(t) \/ Release(t) \/ Join(t) \/ Timeout(t)
    \/ \E w \in Threads : Notify(t, w)

Spec == Init /\ [][Next]_vars
=============================================================================
