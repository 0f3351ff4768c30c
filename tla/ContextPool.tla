------------------------------ MODULE ContextPool ------------------------------
(***************************************************************************)
(* What the handle functions of libocxl promise about contexts, in one     *)
(* step each: opening takes a free context of the device for the handle,   *)
(* attaching marks it, closing gives it back.  Everything else the library *)
(* does, and every failure on the way, changes nothing here.               *)
(***************************************************************************)
CONSTANTS Handles, Pasids, NoContext

VARIABLES
  pool,       \* the contexts the device still has to give
  holder,     \* the context of each handle, or NoContext
  attached    \* whether the handle's context sees the process's memory

poolVars == <<pool, holder, attached>>

Init ==
  /\ pool = Pasids
  /\ holder = [h \in Handles |-> NoContext]
  /\ attached = [h \in Handles |-> FALSE]

Acquire(h) ==
  /\ holder[h] = NoContext
  /\ \E p \in pool :
       /\ pool' = pool \ {p}
       /\ holder' = [holder EXCEPT ![h] = p]
  /\ UNCHANGED attached

Attach(h) ==
  /\ holder[h] # NoContext
  /\ attached' = [attached EXCEPT ![h] = TRUE]
  /\ UNCHANGED <<pool, holder>>

Release(h) ==
  /\ holder[h] # NoContext
  /\ pool' = pool \cup {holder[h]}
  /\ holder' = [holder EXCEPT ![h] = NoContext]
  /\ attached' = [attached EXCEPT ![h] = FALSE]

Next == \E h \in Handles : Acquire(h) \/ Attach(h) \/ Release(h)

Spec == Init /\ [][Next]_poolVars

===============================================================================
