----------------------- MODULE MCObjectSynchronizer ------------------------
(* t1 is the thread that may spin; t2 and t3 are interchangeable, so every *)
(* scenario comes with their roles swapped.                                *)
EXTENDS ObjectSynchronizer

CONSTANTS t1, t2, t3

C(op) == [op |-> op, target |-> None]

Programs(p, q, r) ==
  [t \in Threads |-> CASE t = t1 -> p [] t = t2 -> q [] t = t3 -> r]

\* The locks before each call of p, when it starts with those of start.
Nest(p, start) ==
  LET f[i \in 1..Len(p) + 1] ==
        IF i = 1 THEN start
        ELSE LET op == p[i - 1].op IN
             CASE op = "lock"      -> Append(f[i - 1], "java")
               [] op = "jni_enter" -> Append(f[i - 1], "jni")
               [] op \in {"unlock", "compiled_unlock", "jni_exit"} -> Front(f[i - 1])
               [] OTHER            -> f[i - 1]
  IN  f

WithNest(inflated, waiters, prog) ==
  [inflated |-> inflated, waiters |-> waiters, prog |-> prog,
   nest |-> [t \in Threads |->
               Nest(prog[t], IF t \in Members(waiters) THEN <<"java">> ELSE <<>>)]]

Scenario(inflated, waiters, p, q, r) ==
  LET swap == [t \in Threads |-> CASE t = t1 -> t1 [] t = t2 -> t3 [] t = t3 -> t2]
  IN  {WithNest(inflated, waiters, Programs(p, q, r)),
       WithNest(inflated, [k \in DOMAIN waiters |-> swap[waiters[k]]], Programs(p, r, q))}

\* Three threads contend; two of them unlock in compiled code.
Contention == Scenario(TRUE, <<>>,
  <<C("lock"), C("unlock")>>,
  <<C("lock"), C("compiled_unlock")>>,
  <<C("lock"), C("compiled_unlock")>>)

\* Stack locks, hash codes, inflation and deflation of a neutral object.
Hashed == Scenario(FALSE, <<>>,
  <<C("lock"), C("hash"), C("unlock"), C("lock"), C("unlock")>>,
  <<C("hash"), C("lock"), C("compiled_unlock"), C("omFlush")>>,
  <<>>)

\* Recursive locks of all kinds, one of them held through wait().
Recursion == Scenario(FALSE, <<>>,
  <<C("lock"), C("lock"), C("timed_wait"), C("unlock"), C("unlock")>>,
  <<C("lock"), C("notifyAll"), C("compiled_unlock")>>,
  <<>>)

Jni == Scenario(FALSE, <<>>,
  <<C("lock"), C("lock"), C("jni_enter"), C("jni_exit"), C("unlock"),
    C("compiled_unlock")>>,
  <<C("lock"), C("notifyAll"), C("unlock"), C("hash")>>,
  <<>>)

\* A notify and an interrupt race for a waiter.
Interrupted == Scenario(TRUE, <<>>,
  <<C("lock"), C("wait"), C("unlock")>>,
  <<C("lock"), C("notify"), C("compiled_unlock")>>,
  <<[op |-> "interrupt", target |-> t1]>>)

\* Waiters that time out, are notified, and contend.
Notified == Scenario(TRUE, <<t1>>,
  <<C("unlock")>>,
  <<C("lock"), C("notify"), C("compiled_unlock")>>,
  <<C("lock"), C("compiled_unlock")>>)

AllNotified == Scenario(TRUE, <<t2, t1>>,
  <<C("unlock")>>,
  <<C("unlock")>>,
  <<C("lock"), C("notifyAll"), C("compiled_unlock")>>)

TwiceNotified == Scenario(TRUE, <<t2, t1>>,
  <<C("unlock")>>,
  <<C("unlock")>>,
  <<C("lock"), C("notify"), C("notify"), C("compiled_unlock")>>)

All == Contention \cup Hashed \cup Recursion \cup Jni \cup Interrupted
         \cup Notified \cup AllNotified \cup TwiceNotified

Symmetry == Permutations({t2, t3}) \cup Permutations(Hashes)

==============================================================================
