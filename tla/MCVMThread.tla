----------------------------- MODULE MCVMThread -----------------------------
(***************************************************************************)
(* VMThread with two Java threads and a thread that is not a Java thread.  *)
(***************************************************************************)
EXTENDS VMThread
CONSTANTS j1, j2, w
Java == {j1, j2}
All == {j1, j2, w}
\* Two sources of safepoint operations, to coalesce and to starve the others.
\* The thread that a safepoint does not stop requests none of them: it could keep
\* adding operations and the safepoint would never end.
MCModes == [r \in All |-> IF r = j1 THEN {"safepoint"}
                          ELSE IF r = j2 THEN {"async_safepoint"}
                          ELSE {"no_safepoint", "concurrent"}]
=============================================================================
