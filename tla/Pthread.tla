------------------------------ MODULE Pthread ------------------------------
(***************************************************************************)
(* The pthread mutex and condition variable under a PlatformEvent and under *)
(* a Parker, as os_linux.cpp uses them: one mutex, and one condition        *)
(* variable on which only the associated thread ever waits.  A wait may     *)
(* return spuriously.  A condition variable that has been destroyed and not *)
(* yet reinitialised must not be signalled.                                 *)
(*                                                                         *)
(* Which C library the VM runs on, and whether it works round that library, *)
(* is settled before the first event exists.                                *)
(***************************************************************************)
CONSTANTS
  Self,           \* the thread associated with the event
  Unparkers,      \* the threads that unpark it
  FREE            \* the mutex is not held

ASSUME PthreadAssumption ==
  Self \notin Unparkers /\ FREE \notin Unparkers \cup {Self}

VARIABLES
  mutex,     \* FREE or its holder
  cond,      \* "ok", "corrupt" after a defective timed wait, or "destroyed"
  asleep,    \* Self is in the condition variable's wait set
  TimedWaitHang,               \* this NPTL has the defect of os_linux.cpp 4360-4428
  WorkAroundNPTLTimedWaitHang  \* -XX:WorkAroundNPTLTimedWaitHang # 0

config  == <<TimedWaitHang, WorkAroundNPTLTimedWaitHang>>
pthread == <<mutex, cond, asleep, config>>

PthreadTypeOK ==
  /\ mutex \in Unparkers \cup {Self, FREE}
  /\ cond \in {"ok", "corrupt", "destroyed"}
  /\ asleep \in BOOLEAN
  /\ TimedWaitHang \in BOOLEAN /\ WorkAroundNPTLTimedWaitHang \in BOOLEAN

\* The flag is on by default, globals.hpp 936: whoever turns it off runs on a
\* library without the defect.
PthreadInit ==
  /\ mutex = FREE /\ cond = "ok" /\ asleep = FALSE
  /\ TimedWaitHang \in BOOLEAN /\ WorkAroundNPTLTimedWaitHang \in BOOLEAN
  /\ TimedWaitHang => WorkAroundNPTLTimedWaitHang

pthread_mutex_lock(t) ==
  mutex = FREE /\ mutex' = t /\ UNCHANGED <<cond, asleep, config>>

pthread_mutex_unlock(t) ==
  mutex = t /\ mutex' = FREE /\ UNCHANGED <<cond, asleep, config>>

\* Release the mutex and join the wait set in one step.
pthread_cond_wait ==
  mutex = Self /\ mutex' = FREE /\ asleep' = TRUE /\ UNCHANGED <<cond, config>>

\* The wait ends by itself: a spurious wakeup or EINTR.
cond_wakeup ==
  asleep /\ cond = "ok" /\ asleep' = FALSE /\ UNCHANGED <<mutex, cond, config>>

\* A timed wait ends with ETIMEDOUT.  The defective NPTL may leave the
\* condition variable so that later waits on it hang.
cond_timeout ==
  /\ asleep /\ cond = "ok"
  /\ asleep' = FALSE
  /\ cond' \in IF TimedWaitHang THEN {"ok", "corrupt"} ELSE {"ok"}
  /\ UNCHANGED <<mutex, config>>

\* Wakes Self if it waits: a signal that finds nobody waiting is lost, and so
\* is one on a corrupt condition variable.
pthread_cond_signal ==
  /\ asleep' = (asleep /\ cond # "ok")
  /\ UNCHANGED <<mutex, cond, config>>

pthread_cond_destroy == cond' = "destroyed" /\ UNCHANGED <<mutex, asleep, config>>
pthread_cond_init    == cond' = "ok" /\ UNCHANGED <<mutex, asleep, config>>

=============================================================================
