----------------------------- MODULE Factories ------------------------------
(***************************************************************************)
(* The registration list of cObjectService (cObjectService.cpp): an array  *)
(* of factories (cObjectFactory.h), sorted by the name of the type they    *)
(* make.  A factory registers itself when it is constructed and leaves     *)
(* when it is destructed, or when the module that it is in unloads.        *)
(* name[f] and module[f] are those of factory f.  The factories of unit    *)
(* tests have a second list, cUnitTests (cUnitTest.cpp), in the order they *)
(* came, which runs them.                                                  *)
(***************************************************************************)
EXTENDS SortedArrays

(* The first of a name stays: another one is not registered.                *)
RegisterFactory(name, s, f) ==
  IF FindIForKey(name, s, name[f]) # None THEN s ELSE AddSort(name, s, f, 0)
(* RemoveArg: by its address, not by its name.                              *)
RemoveFactory(s, f) == SelectSeq(s, LAMBDA g : g # f)

ConstructFactory(name, s, f) == RegisterFactory(name, s, f)
(* At the exit of the process the service may be gone already.              *)
DestructFactory(s, f, isInCExit) == IF isInCExit THEN s ELSE RemoveFactory(s, f)

(* From the last one down, so that a removal moves none still to be seen.   *)
ReleaseModuleChildren(module, s, hMod) ==
  LET Left[i \in 0..Len(s)] ==                     \* when i are still to be seen
        IF i = Len(s) THEN s
        ELSE IF module[s[i + 1]] = hMod THEN Drop(Left[i + 1], i) ELSE Left[i + 1]
  IN Left[0]

-----------------------------------------------------------------------------
(* cUnitTests.  level[f] is the level of test f.  A pattern is the set of   *)
(* the tests whose names it matches.  sinks counts the log files attached;  *)
(* callback is what an assertion calls, "counting" the one of cUnitTests.   *)
NoTests == [tests |-> <<>>, level |-> 4, names |-> <<>>, failures |-> 0, running |-> FALSE,
            callback |-> "default", orig |-> "none", sinks |-> 0]
RegisterUnitTest(u, f) ==
  IF \E k \in DOMAIN u.tests : u.tests[k] = f THEN u ELSE [u EXCEPT !.tests = Append(@, f)]
DestructUnitTest(u, f) == [u EXCEPT !.tests = RemoveFactory(@, f)]
ReleaseUnitTests(module, u, hMod) == [u EXCEPT !.tests = ReleaseModuleChildren(module, @, hMod)]

SetTestLevel(u, n) == [u EXCEPT !.level = n, !.failures = 0]
RunInitialize(u) == [u EXCEPT !.orig = u.callback, !.callback = "counting", !.sinks = @ + 1]
(* One sink of the type goes, however many there are.                       *)
RunCleanup(u) == [u EXCEPT !.callback = u.orig, !.sinks = @ - 1]
UnitTest_AssertCallback(u) == IF u.callback = "counting" THEN [u EXCEPT !.failures = @ + 1] ELSE u

(* A test is active if its level is, and a pattern matches it or there are  *)
(* no patterns.  A pattern that is no wildcard is taken out by the test it  *)
(* matches; once all of them are, the empty list allows every test.         *)
TestActive(level, u, f, remove) ==
  LET hits == {j \in DOMAIN u.names : f \in u.names[j]}
      first == CHOOSE j \in hits : \A i \in hits : j <= i
  IN IF level[f] > u.level THEN [is |-> FALSE, u |-> u]
     ELSE IF u.names = <<>> THEN [is |-> TRUE, u |-> u]
     ELSE [is |-> hits # {},
           u |-> IF hits # {} /\ remove THEN [u EXCEPT !.names = Drop(@, first - 1)] ELSE u]
(* The first test that fails, one of bad, ends the run before its clean up. *)
RunUnitTests(level, u, nTestLevel, patterns, isWildCard, bad) ==
  LET set == SetTestLevel(u, nTestLevel)
      init == [RunInitialize(set) EXCEPT !.running = TRUE, !.names = patterns]
      Run[k \in 0..Len(u.tests)] ==
        IF k = 0 THEN [u |-> init, ran |-> <<>>]
        ELSE LET before == Run[k - 1]
                 f == u.tests[k]
                 active == TestActive(level, before.u, f, ~isWildCard)
             IN IF before.u.failures > 0 THEN before
                ELSE IF ~active.is THEN [before EXCEPT !.u = active.u]
                ELSE [u |-> IF f \in bad THEN UnitTest_AssertCallback(active.u) ELSE active.u,
                      ran |-> Append(before.ran, f)]
      last == Run[Len(u.tests)]
  IN IF nTestLevel <= 0 THEN [u |-> set, ran |-> <<>>]
     ELSE IF last.u.failures > 0 THEN last
     ELSE [last EXCEPT !.u = RunCleanup([@ EXCEPT !.running = FALSE])]
=============================================================================
