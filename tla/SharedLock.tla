----------------------------- MODULE SharedLock -----------------------------
(***************************************************************************)
(* What cThreadLockRW promises: "Only one thread may write lock something", *)
(* and a reader is protected from every writer but itself.                  *)
(***************************************************************************)
EXTENDS Integers

CONSTANT Threads

VARIABLES reading,   \* reading[t]: read guards that t has alive
          writing    \* writing[t]: write guards that t has alive

vars == <<reading, writing>>

Init ==
  /\ reading = [t \in Threads |-> 0]
  /\ writing = [t \in Threads |-> 0]

NoOther(t, guards) == \A u \in Threads \ {t} : guards[u] = 0

BeginRead(t) ==
  /\ NoOther(t, writing)
  /\ reading' = [reading EXCEPT ![t] = @ + 1]
  /\ UNCHANGED writing

BeginWrite(t) ==
  /\ NoOther(t, writing) /\ NoOther(t, reading)
  /\ writing' = [writing EXCEPT ![t] = @ + 1]
  /\ UNCHANGED reading

EndRead(t) ==
  /\ reading[t] > 0
  /\ reading' = [reading EXCEPT ![t] = @ - 1]
  /\ UNCHANGED writing

EndWrite(t) ==
  /\ writing[t] > 0
  /\ writing' = [writing EXCEPT ![t] = @ - 1]
  /\ UNCHANGED reading

Next ==
  \E t \in Threads : BeginRead(t) \/ BeginWrite(t) \/ EndRead(t) \/ EndWrite(t)

Spec == Init /\ [][Next]_vars
=============================================================================
