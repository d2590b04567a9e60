------------------------------ MODULE LogNexus ------------------------------
(***************************************************************************)
(* cLogNexus (cLogMgr.h, cLogMgr.cpp): a list of log sinks, some of which   *)
(* are a nexus themselves.  addEvent walks the list by index and takes      *)
(* _LockLog only to look up each sink: other threads add and remove sinks   *)
(* between two lookups, and while a sink is at work.                        *)
(***************************************************************************)
EXTENDS Naturals, SequencesExt

CONSTANTS LogThreads,
          NoThread,      \* nobody holds _LockLog
          Nexuses,       \* every cLogNexus ...
          Root,          \* ... the one that is not the sink of another
          Leaves,        \* the other sinks
          MaxCalls       \* BOUND: calls of AddSink, RemoveSink and FlushLogs

ASSUME LogAssumption == Root \in Nexuses /\ NoThread \notin LogThreads

Sinks == Leaves \cup (Nexuses \ {Root})

(* The loop of RemoveSink takes x out wherever it is in the list; the       *)
(* others stay in order, so the k-th one left has k - 1 of them before it.  *)
Without(list, x) ==
  LET left == {i \in DOMAIN list : list[i] # x} IN
  [k \in 1..Cardinality(left) |->
     list[CHOOSE i \in left : Cardinality({j \in left : j < i}) = k - 1]]

VARIABLES sinks,    \* _aSinks of each nexus
          lock,     \* _LockLog of each nexus: the thread that holds it
          stack,    \* the addEvent calls each thread is in, the inner one first
          pSink,    \* the sink each thread has looked up
          pc,       \* where each thread is
          job,      \* the AddSink, RemoveSink or FlushLogs each thread is in
          calls     \* how many of them were made

logVars == <<sinks, lock, stack, pSink, pc, job, calls>>

NoJob == [kind |-> "none", nexus |-> Root, sink |-> Root, todo |-> {}]

LogInit ==
  /\ sinks = [n \in Nexuses |-> <<>>]
  /\ lock = [n \in Nexuses |-> NoThread]
  /\ stack = [t \in LogThreads |-> <<>>]
  /\ pSink = [t \in LogThreads |-> Root]
  /\ pc = [t \in LogThreads |-> "client"]
  /\ job = [t \in LogThreads |-> NoJob]
  /\ calls = 0

Goto(t, loc) == pc' = [pc EXCEPT ![t] = loc]

(* One loop of addEvent: the index, and, to state what it does, how often   *)
(* each sink got the event (2 = more than once), which sinks were there all *)
(* the time, and how often a sink was put in before, or taken out of, the   *)
(* part of the list that the loop has looked up.                            *)
Loop(n) ==
  [nexus |-> n, i |-> 0, got |-> [s \in Sinks |-> 0],
   stay |-> ToSet(sinks[n]), added |-> 0, removed |-> 0]

(* How many places of its list the k-th loop of t has looked up.            *)
Reached(t, k) == stack[t][k].i + (IF k = 1 /\ pc[t] = "deliver" THEN 1 ELSE 0)

(* The list of nexus n becomes s: what that means for a loop at place i.    *)
PutBefore(i, n, s) == i > 0 /\ Len(s) > Len(sinks[n])
TakenOut(i, n, s) == \E p \in DOMAIN sinks[n] : p <= i /\ sinks[n][p] \notin ToSet(s)

Note(f, i, n, s) ==
  IF f.nexus # n THEN f
  ELSE [f EXCEPT !.stay    = @ \cap ToSet(s),
                 !.added   = IF PutBefore(i, n, s) THEN @ + 1 ELSE @,
                 !.removed = IF TakenOut(i, n, s) THEN @ + 1 ELSE @]

SetSinks(n, s) ==
  /\ sinks' = [sinks EXCEPT ![n] = s]
  /\ stack' = [t \in LogThreads |->
                 [k \in DOMAIN stack[t] |-> Note(stack[t][k], Reached(t, k), n, s)]]

-----------------------------------------------------------------------------
(* A thread logs an event that passes the filter of the nexus.              *)
AddEvent(t, n) ==
  /\ pc[t] = "client"
  /\ stack' = [stack EXCEPT ![t] = <<Loop(n)>>]
  /\ Goto(t, "enum")
  /\ UNCHANGED <<sinks, lock, pSink, job, calls>>

(* One turn of the loop, up to the end of the guard of _LockLog.            *)
EnumSinks(t) ==
  /\ pc[t] = "enum"
  /\ LET f == stack[t][1] IN
       /\ lock[f.nexus] = NoThread
       /\ f.i < Len(sinks[f.nexus])
       /\ pSink' = [pSink EXCEPT ![t] = sinks[f.nexus][f.i + 1]]
  /\ Goto(t, "deliver")
  /\ UNCHANGED <<sinks, lock, stack, job, calls>>

(* The bare pointer pSink is used after the guard is gone.                  *)
DeliverThen(t, step) ==
  LET s == pSink[t]
      f == [stack[t][1] EXCEPT !.i = @ + step, !.got[s] = IF @ = 0 THEN 1 ELSE 2]
  IN /\ pc[t] = "deliver"
     /\ stack' = [stack EXCEPT ![t] =
          (IF s \in Nexuses THEN <<Loop(s)>> ELSE <<>>) \o <<f>> \o Tail(@)]
     /\ pSink' = [pSink EXCEPT ![t] = Root]
     /\ Goto(t, "enum")
     /\ UNCHANGED <<sinks, lock, job, calls>>

(* Mutants: the index is not advanced; it skips a sink.                     *)
DeliverAgain(t) == DeliverThen(t, 0)
DeliverSkips(t) == DeliverThen(t, 2)

(* pSink->addEvent; for a sink that is a nexus that is a loop of its own.   *)
Deliver(t) == DeliverThen(t, 1)

(* EnumSinks finds no more: the loop ends, addEvent returns.                *)
EnumEnds(t) ==
  /\ pc[t] = "enum"
  /\ LET f == stack[t][1] IN
       lock[f.nexus] = NoThread /\ f.i >= Len(sinks[f.nexus])
  /\ Goto(t, "return")
  /\ UNCHANGED <<sinks, lock, stack, pSink, job, calls>>

AddEventReturn(t) ==
  /\ pc[t] = "return"
  /\ stack' = [stack EXCEPT ![t] = Tail(@)]
  /\ Goto(t, IF Len(stack[t]) = 1 THEN "client" ELSE "enum")
  /\ UNCHANGED <<sinks, lock, pSink, job, calls>>

-----------------------------------------------------------------------------
Children(n) == ToSet(sinks[n]) \cap Nexuses

(* AddSink, RemoveSink and FlushLogs take _LockLog of their nexus, and, as  *)
(* they descend, one after the other that of the nexuses below it.          *)
Begin(t, kind, n, s) ==
  /\ pc[t] = "client" /\ calls < MaxCalls
  /\ lock[n] = NoThread
  /\ lock' = [lock EXCEPT ![n] = t]
  /\ job' = [job EXCEPT ![t] = [kind |-> kind, nexus |-> n, sink |-> s,
                                todo |-> Children(n) \ {s}]]
  /\ calls' = calls + 1
  /\ Goto(t, "job")
  /\ UNCHANGED pSink

(* Mutant: AddSink looks for the sink before it takes the lock.             *)
AddSinkUnlocked(t, n, s) ==
  /\ pc[t] = "client" /\ calls < MaxCalls
  /\ s \in Nexuses => n = Root
  /\ ~Contains(sinks[n], s)
  /\ job' = [job EXCEPT ![t] = [kind |-> "add", nexus |-> n, sink |-> s, todo |-> {}]]
  /\ calls' = calls + 1
  /\ Goto(t, "job")
  /\ UNCHANGED <<sinks, lock, stack, pSink>>

(* AddSink: HasSink looks in this list first.  Nobody adds a nexus below    *)
(* another one than Root, which keeps the tree a tree.                      *)
AddSink(t, n, s) ==
  /\ s \in Nexuses => n = Root
  /\ Begin(t, IF Contains(sinks[n], s) THEN "found" ELSE "add", n, s)
  /\ UNCHANGED <<sinks, stack>>

RemoveSink(t, n, s) ==
  /\ Begin(t, "remove", n, s)
  /\ SetSinks(n, Without(sinks[n], s))

FlushLogs(t, n) ==
  /\ Begin(t, "flush", n, Root)
  /\ UNCHANGED <<sinks, stack>>

(* HasSink, RemoveSink or FlushLogs of a nexus below, under its lock too.   *)
Visited(j, m) ==
  [j EXCEPT !.todo = @ \ {m},
            !.kind = IF @ = "add" /\ Contains(sinks[m], j.sink) THEN "found" ELSE @]

Descend(t) ==
  /\ pc[t] = "job"
  /\ \E m \in job[t].todo :
       /\ lock[m] = NoThread
       /\ IF job[t].kind = "remove"
          THEN SetSinks(m, Without(sinks[m], job[t].sink))
          ELSE UNCHANGED <<sinks, stack>>
       /\ job' = [job EXCEPT ![t] = Visited(job[t], m)]
  /\ UNCHANGED <<lock, pSink, pc, calls>>

(* AddSink inserts the sink at the head; the guard of _LockLog ends.        *)
End(t) ==
  /\ pc[t] = "job" /\ job[t].todo = {}
  /\ LET n == job[t].nexus IN
       /\ IF job[t].kind = "add"
          THEN SetSinks(n, <<job[t].sink>> \o sinks[n])
          ELSE UNCHANGED <<sinks, stack>>
       /\ lock' = [lock EXCEPT ![n] = NoThread]
  /\ job' = [job EXCEPT ![t] = NoJob]
  /\ Goto(t, "client")
  /\ UNCHANGED <<pSink, calls>>

-----------------------------------------------------------------------------
Work(t) ==
  EnumSinks(t) \/ Deliver(t) \/ EnumEnds(t) \/ AddEventReturn(t) \/ Descend(t) \/ End(t)

LogNext ==
  \E t \in LogThreads :
    \/ \E n \in Nexuses :
         \/ AddEvent(t, n)
         \/ \E s \in Sinks \ {n} : AddSink(t, n, s) \/ RemoveSink(t, n, s)
         \/ FlushLogs(t, n)
    \/ Work(t)

LogSpec == LogInit /\ [][LogNext]_logVars

(* Threads run, and the sinks' own addEvent and FlushLogs return.          *)
FairLogSpec == LogSpec /\ \A t \in LogThreads : WF_logVars(Work(t))

-----------------------------------------------------------------------------
LogTypeOK ==
  /\ sinks \in [Nexuses -> Seq(Sinks)]
  /\ lock \in [Nexuses -> LogThreads \cup {NoThread}]
  /\ \A t \in LogThreads :
       /\ pc[t] \in {"client", "enum", "deliver", "return", "job"}
       /\ pSink[t] \in Sinks \cup {Root}
       /\ (pc[t] = "job") = (job[t] # NoJob)
       /\ (pc[t] \in {"enum", "deliver", "return"}) = (stack[t] # <<>>)
       /\ \A k \in DOMAIN stack[t] : stack[t][k].nexus \in Nexuses /\ stack[t][k].i \in Nat

(* "no dupes": however the calls of several threads interleave, no list     *)
(* has a sink twice.                                                        *)
NoDupes == LogTypeOK /\ \A n \in Nexuses : IsInjective(sinks[n])

(* What addEvent does for the sinks that are in the list from the first     *)
(* lookup to the last, while others come and go.  Each sink taken out of    *)
(* the part of the list that the loop has passed costs at most one of them  *)
(* the event, each one put in before it gives it to at most one of them     *)
(* again, and nothing that happens further down the list matters.           *)
EventReachesSinks ==
  \A t \in LogThreads : pc[t] = "return" =>
    LET f == stack[t][1] IN
    /\ Cardinality({s \in f.stay : f.got[s] = 0}) <= f.removed
    /\ Cardinality({s \in f.stay : f.got[s] = 2}) <= f.added

(* Every call returns, although the locks of a nexus and of those below it  *)
(* are taken together and lists may grow under the loop of addEvent.        *)
EveryCallReturns == \A t \in LogThreads : pc[t] # "client" ~> pc[t] = "client"

(* NOT invariants, see the README.  "route it to all applicable sinks":     *)
(* each sink that is there all the time gets the event, and gets it once.   *)
EventReachesAll ==
  \A t \in LogThreads : pc[t] = "return" =>
    LET f == stack[t][1] IN \A s \in f.stay : f.got[s] = 1

(* "addEvent() is multi thread safe": the sink that addEvent uses is still  *)
(* in a list, which has the only reference to a sink that AddSinkCheck made.*)
SinkOutlivesCall ==
  \A t \in LogThreads : pc[t] = "deliver" => \E n \in Nexuses : Contains(sinks[n], pSink[t])
=============================================================================
