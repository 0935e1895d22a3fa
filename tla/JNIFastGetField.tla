--------------------------- MODULE JNIFastGetField ---------------------------
(***************************************************************************)
(* The fast versions of jni_Get<Primitive>Field that                       *)
(* cpu/x86/vm/jniFastGetField_x86_64.cpp generates, run beside Safepoint.  *)
(* A reader is a thread in native code: it makes no state transition, so a *)
(* safepoint does not wait for it.  It loads the object's address from a   *)
(* handle and then the field, while a VM operation may be moving objects,  *)
(* and relies on SafepointSynchronize::_safepoint_counter to find out.     *)
(***************************************************************************)
EXTENDS Safepoint

CONSTANT Readers   \* a scenario's field `readers' names those that read in it

VARIABLES
  heap,     \* how often objects began or ceased to move; odd while they move
  rpc,      \* where each reader is
  rcounter, \* the counter it read first
  robj      \* the heap at which it loaded the object's address

reader == <<rpc, rcounter, robj>>
allVars == <<vars, heap, reader>>

FGInit ==
  /\ Init
  /\ heap = 0
  /\ rpc = [r \in Readers |-> "native"]
  /\ rcounter = [r \in Readers |-> 0]
  /\ robj = [r \in Readers |-> 0]

\* A VM operation moves objects from the moment the safepoint is reached until
\* it has been carried out.
Moving == vmpc = "op"

SafepointStep ==
  /\ Next
  /\ heap' = IF Moving' = Moving THEN heap ELSE heap + 1
  /\ UNCHANGED reader

\* Reads the counter; if it is odd the slow version is called.
Read_counter(r) ==
  /\ rpc[r] = "native" /\ r \in scenario.readers
  /\ rcounter' = [rcounter EXCEPT ![r] = safepoint_counter]
  /\ rpc' = [rpc EXCEPT ![r] = IF safepoint_counter % 2 = 0 THEN "load" ELSE "slow"]
  /\ UNCHANGED <<vars, heap, robj>>

\* *obj: the address is as the heap is now.
Load_obj(r) ==
  /\ rpc[r] = "load"
  /\ robj' = [robj EXCEPT ![r] = heap]
  /\ rpc' = [rpc EXCEPT ![r] = "field"]
  /\ UNCHANGED <<vars, heap, rcounter>>

\* The speculative load of the field is good if the heap has not changed since
\* and is not changing.
Load_field(r) ==
  /\ rpc[r] = "field"
  /\ rpc' = [rpc EXCEPT ![r] = IF robj[r] = heap /\ heap % 2 = 0 THEN "good" ELSE "bad"]
  /\ UNCHANGED <<vars, heap, rcounter, robj>>

\* Compares the counter and returns the value, or calls the slow version.
Compare(r) ==
  /\ rpc[r] \in {"good", "bad"}
  /\ rpc' = [rpc EXCEPT ![r] = IF rcounter[r] # safepoint_counter THEN "slow"
                               ELSE IF rpc[r] = "good" THEN "returned" ELSE "returned_bad"]
  /\ UNCHANGED <<vars, heap, rcounter, robj>>

\* The reader goes on in native code.
Return(r) ==
  /\ rpc[r] \in {"returned", "slow"}
  /\ rpc' = [rpc EXCEPT ![r] = "native"]
  /\ rcounter' = [rcounter EXCEPT ![r] = 0]
  /\ robj' = [robj EXCEPT ![r] = 0]
  /\ UNCHANGED <<vars, heap>>

FGNext ==
  \/ SafepointStep
  \/ \E r \in Readers :
       Read_counter(r) \/ Load_obj(r) \/ Load_field(r) \/ Compare(r) \/ Return(r)

FGSpec == FGInit /\ [][FGNext]_allVars

\* A fast version never returns a value it loaded from an object that was moving
\* or had moved between its two loads: "An even value means there is no ongoing
\* safepoint operations."
FastGetConsistent == \A r \in Readers : rpc[r] # "returned_bad"

=============================================================================
