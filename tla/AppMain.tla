------------------------------- MODULE AppMain --------------------------------
(***************************************************************************)
(* An application from main() to the end of its process (cAppState,         *)
(* cAppStateMain, cAppImpl, cAppExitCatcher): the state it is in, the       *)
(* commands in its arguments, which may run each other and may be run ahead *)
(* of the others, and the ways in which the process ends.                   *)
(*   state, inExit     _eAppState, sm_IsInAppExit                           *)
(*   args              the names after the app's, without switches          *)
(*   table, loaded     _Commands, and the modules they came from            *)
(*   valid, close      _ArgsValid, _isCloseSignaled                         *)
(*   mainPc, next, calls, code   where main() is, the argument RunCommands  *)
(*                     is at, the commands that run, iRet                   *)
(*   at, gone          where the other threads are, whether the process is  *)
(*                     at its end                                           *)
(* What has become of the arguments is kept besides: ran, taken (by the     *)
(* command before them), failed, later (how often put off), told.           *)
(***************************************************************************)
EXTENDS Integers, Sequences, FiniteSets, SequencesExt

CONSTANTS
  OtherThreads, \* the threads beside main()'s
  Aborters,     \* those of them that may call AbortApp
  Modules,      \* that may be loaded while the app runs
  Own, Brought, \* the commands of the app, and those of a module, in order
  Lines,        \* the arguments it may be started with
  MaxExtra,     \* arguments a command takes at most
  MaxDepth,     \* commands that run each other
  MaxLater      \* times an argument's command is put off

(* A command line is a sequence; there is a longest one.                    *)
ASSUME LinesAssumption ==
  /\ \A line \in Lines : Len(line) \in Nat /\ DOMAIN line = 1..Len(line)
  /\ \E longest \in Lines : \A line \in Lines : Len(line) <= Len(longest)
ASSUME AppAssumption == Aborters \subseteq OtherThreads /\ MaxExtra \in Nat

VARIABLES state, inExit, args, table, loaded, valid, close, mainPc, next, calls, code,
          at, gone, ran, taken, failed, later, told
app == <<state, inExit>>
commands == <<table, loaded>>
history == <<ran, taken, failed, later>>
main == <<mainPc, next, calls, code>>
appVars == <<app, commands, history, main, args, valid, close, at, gone, told>>

MaxArgs == CHOOSE n \in {Len(line) : line \in Lines} : \A line \in Lines : Len(line) <= n
AppTypeOK ==
  /\ state \in {"Init", "RunInit", "Run", "RunExit", "Exit"} /\ {inExit, close, gone} \subseteq BOOLEAN
  /\ args \in Lines /\ loaded \subseteq Modules /\ valid \subseteq 1..(MaxArgs + MaxExtra)
  /\ mainPc \in {"static", "main", "init", "commands", "tick", "ran", "exiting", "exit", "leave", "left", "abort", "passed"}
  /\ next \in 1..(MaxArgs + MaxExtra + 1) /\ Len(calls) <= MaxDepth /\ code \in {"OK", "FAIL"}
  /\ at \in [OtherThreads -> {"idle", "exit", "abort", "redirected", "blocked"}]
  /\ ran \in [1..MaxArgs -> Nat] /\ later \in [1..MaxArgs -> 0..MaxLater]
  /\ failed \subseteq 1..MaxArgs /\ taken \subseteq 1..(MaxArgs + MaxExtra) /\ told \subseteq SUBSET (1..MaxArgs)

-----------------------------------------------------------------------------
(* The table of commands.  A name is kept by the first that registers it.   *)
IsMatch(cmd, name) == name \in {cmd.abbrev, cmd.name}
RegisterCommand(tab, cmd) == IF \E k \in DOMAIN tab : tab[k].name = cmd.name THEN tab ELSE Append(tab, cmd)
RegisterAll(tab, cmds) == FoldLeft(RegisterCommand, tab, cmds)
FindCommand(tab, name) ==
  LET k == SelectInSeq(tab, LAMBDA cmd : IsMatch(cmd, name)) IN IF k = 0 THEN {} ELSE {tab[k]}
ReleaseModuleChildren(tab, m) == SelectSeq(tab, LAMBDA cmd : cmd.mod # m)

AppInit ==
  /\ state = "Init" /\ inExit = FALSE /\ args \in Lines
  /\ table = RegisterAll(<<>>, Own) /\ loaded = {} /\ valid = {} /\ close = FALSE
  /\ mainPc = "static" /\ next = 1 /\ calls = <<>> /\ code = "FAIL"
  /\ at = [t \in OtherThreads |-> "idle"] /\ gone = FALSE
  /\ ran = [i \in 1..MaxArgs |-> 0] /\ later = [i \in 1..MaxArgs |-> 0]
  /\ taken = {} /\ failed = {} /\ told = {}

put_AppState(s) == state' = s /\ inExit' = (inExit \/ s = "Exit")
GoTo(from, to) == ~gone /\ mainPc = from /\ calls = <<>> /\ mainPc' = to

-----------------------------------------------------------------------------
(* main(): cAppStateMain, then cAppImpl::Main.                              *)
BeginMain ==
  /\ GoTo("static", "main") /\ put_AppState("Run")
  /\ UNCHANGED <<commands, history, next, calls, code, args, valid, close, at, gone, told>>
RunInit ==
  /\ GoTo("main", "init") /\ put_AppState("RunInit")
  /\ UNCHANGED <<commands, history, next, calls, code, args, valid, close, at, gone, told>>
InitInstance ==
  /\ \/ GoTo("init", "commands") /\ put_AppState("Run")
     \/ GoTo("init", "exit") /\ UNCHANGED app
  /\ UNCHANGED <<commands, history, next, calls, code, args, valid, close, at, gone, told>>

(* RunCommandN goes past an argument that is done with, or that is no       *)
(* command; the bit that is set before the command runs keeps it from       *)
(* running again inside itself.                                             *)
Passes(i) == i \in valid \/ FindCommand(table, args[i]) = {}
BlockedAfterwards(i) == valid' = valid
Blocked(i) == valid' = valid \cup {i}
Start(i) ==
  /\ ~gone /\ ~Passes(i) /\ Len(calls) < MaxDepth
  /\ Blocked(i)
  /\ calls' = Append(calls, [arg |-> i, cmd |-> CHOOSE cmd \in FindCommand(table, args[i]) : TRUE])
  /\ UNCHANGED <<app, commands, history, mainPc, next, code, args, close, at, gone, told>>
RunCommandAhead == \E i \in DOMAIN args : mainPc = "init" /\ calls = <<>> /\ Start(i)
RunCommandInside == \E i \in DOMAIN args : calls # <<>> /\ mainPc # "abort" /\ Start(i)
StartCommand == mainPc = "commands" /\ calls = <<>> /\ next \in DOMAIN args /\ Start(next)
SkipArgument ==
  /\ ~gone /\ mainPc = "commands" /\ calls = <<>> /\ next \in DOMAIN args /\ Passes(next)
  /\ next' = next + 1
  /\ UNCHANGED <<app, commands, history, mainPc, calls, code, args, valid, close, at, gone, told>>

Fails == -1
PutsOff == -2      \* ERROR_INVALID_STATE
Outcomes(cmd) == CASE cmd.name = "help" -> {0} [] cmd.name = "waitfordebugger" -> {Fails}
                   [] OTHER -> 0..MaxExtra \cup {Fails, PutsOff}
(* A command that fails in the loop ends it; one that runs inside another,  *)
(* or ahead, tells its caller, who goes on.                                 *)
EndCommand(f, res) ==
  LET inLoop == Len(calls) = 1 /\ mainPc = "commands"
      extra == (f.arg + 1)..(f.arg + res)
  IN /\ ~gone /\ mainPc # "abort" /\ calls # <<>> /\ f = calls[Len(calls)]
     /\ res = PutsOff => later[f.arg] < MaxLater
     /\ calls' = SubSeq(calls, 1, Len(calls) - 1)
     /\ valid' = IF res = PutsOff THEN valid \ {f.arg} ELSE valid \cup extra
     /\ next' = IF inLoop /\ res # Fails THEN f.arg + (IF res > 0 THEN res ELSE 0) + 1 ELSE next
     /\ close' = (close \/ (inLoop /\ res = Fails))
     /\ mainPc' = IF inLoop /\ res = Fails THEN "ran" ELSE mainPc
     /\ ran' = IF res >= 0 THEN [ran EXCEPT ![f.arg] = @ + 1] ELSE ran
     /\ taken' = IF res = PutsOff THEN taken \ {f.arg} ELSE taken \cup extra
     /\ failed' = IF res = Fails THEN failed \cup {f.arg} ELSE failed
     /\ later' = IF res = PutsOff THEN [later EXCEPT ![f.arg] = @ + 1] ELSE later
     /\ UNCHANGED <<app, commands, code, args, at, gone, told>>
DoCommand == calls # <<>> /\ \E res \in Outcomes(calls[Len(calls)].cmd) : EndCommand(calls[Len(calls)], res)

(* get_InvalidArgs goes into the log, once.                                 *)
get_InvalidArgs == {i \in DOMAIN args : i \notin valid}
ReportInvalid ==
  /\ next \notin DOMAIN args /\ GoTo("commands", "tick")
  /\ told' = {get_InvalidArgs}
  /\ UNCHANGED <<app, commands, history, next, calls, code, args, valid, close, at, gone>>
(* A tick that does not end the loop changes nothing.                       *)
OnTickAppIgnoresClose == state = "Run"
OnTickApp == ~close /\ state = "Run"
EndRun ==
  /\ ~OnTickApp /\ GoTo("tick", "ran")
  /\ close' = TRUE /\ code' = "OK"
  /\ UNCHANGED <<app, commands, history, next, calls, args, valid, at, gone, told>>
RunExit ==
  /\ GoTo("ran", "exiting") /\ put_AppState("RunExit")
  /\ UNCHANGED <<commands, history, next, calls, code, args, valid, close, at, gone, told>>
ExitInstance ==
  /\ GoTo("exiting", "exit") /\ code' \in {code, "FAIL"}
  /\ UNCHANGED <<app, commands, history, next, calls, args, valid, close, at, gone, told>>
EndMain ==
  /\ GoTo("exit", "leave") /\ put_AppState("Exit")
  /\ UNCHANGED <<commands, history, next, calls, code, args, valid, close, at, gone, told>>
LeaveMain ==
  /\ GoTo("leave", "left") /\ put_AppState("Exit")
  /\ UNCHANGED <<commands, history, next, calls, code, args, valid, close, at, gone, told>>

(* A command may give the process up, and may load or unload a module, but  *)
(* none whose command runs.                                                 *)
AbortInside ==
  /\ ~gone /\ calls # <<>> /\ mainPc # "abort" /\ mainPc' = "abort" /\ put_AppState("Exit")
  /\ UNCHANGED <<commands, history, next, calls, code, args, valid, close, at, gone, told>>
MayLoad == ~gone /\ (calls # <<>> \/ mainPc = "tick") /\ mainPc # "abort"
LoadModule(m) ==
  /\ MayLoad /\ m \notin loaded /\ loaded' = loaded \cup {m}
  /\ table' = RegisterAll(table, [k \in DOMAIN Brought |-> [Brought[k] EXCEPT !.mod = m]])
  /\ UNCHANGED <<app, main, history, args, valid, close, at, gone, told>>
UnloadModule(m) ==
  /\ MayLoad /\ m \in loaded /\ \A k \in DOMAIN calls : calls[k].cmd.mod # m
  /\ loaded' = loaded \ {m} /\ table' = ReleaseModuleChildren(table, m)
  /\ UNCHANGED <<app, main, history, args, valid, close, at, gone, told>>

-----------------------------------------------------------------------------
(* The end of the process.  Before anything static is destructed, the       *)
(* catcher lets an exit pass that comes after main(), or out of AbortApp;   *)
(* the exception it throws otherwise goes to whoever called exit().         *)
LegitWhileCleaningUp(s) == s \in {"RunExit", "Exit"}
Legit(s) == s = "Exit"
ExitOfMain ==
  /\ ~gone /\ mainPc \in {"left", "abort"}
  /\ Legit(state) /\ gone' = TRUE /\ mainPc' = "passed"
  /\ UNCHANGED <<app, commands, history, next, calls, code, args, valid, close, at, told>>
(* The other threads are started by InitInstance or later.                  *)
Idle(t) == ~gone /\ at[t] = "idle" /\ mainPc \notin {"static", "main"}
others == <<app, commands, history, main, args, valid, told>>
SignalClose(t) ==
  /\ Idle(t) /\ ~close /\ close' = TRUE
  /\ UNCHANGED <<others, at, gone>>
CallExit(t) ==
  /\ Idle(t) /\ at' = [at EXCEPT ![t] = "exit"]
  /\ UNCHANGED <<others, close, gone>>
AbortApp(t) ==
  /\ Idle(t) /\ at' = [at EXCEPT ![t] = "abort"] /\ put_AppState("Exit")
  /\ UNCHANGED <<commands, history, main, args, valid, told, close, gone>>
ExitCatch(t) ==
  /\ ~gone /\ at[t] \in {"exit", "abort"}
  /\ \/ Legit(state) /\ gone' = TRUE /\ UNCHANGED at
     \/ /\ ~Legit(state) /\ UNCHANGED gone
        /\ at' = [at EXCEPT ![t] = IF @ = "exit" THEN "redirected" ELSE "blocked"]
  /\ UNCHANGED <<others, close>>

MainNext ==
  \/ BeginMain \/ RunInit \/ InitInstance
  \/ RunCommandAhead \/ RunCommandInside \/ StartCommand \/ SkipArgument \/ DoCommand
  \/ ReportInvalid \/ EndRun \/ RunExit \/ ExitInstance \/ EndMain \/ LeaveMain
  \/ AbortInside \/ ExitOfMain
AppNext ==
  \/ MainNext
  \/ \E m \in Modules : LoadModule(m) \/ UnloadModule(m)
  \/ \E t \in OtherThreads : SignalClose(t) \/ CallExit(t) \/ (t \in Aborters /\ AbortApp(t)) \/ ExitCatch(t)
AppSpec == AppInit /\ [][AppNext]_appVars /\ WF_appVars(MainNext)

-----------------------------------------------------------------------------
Done(i) == ran[i] > 0 \/ i \in taken \cup failed
(* INVARIANT (cAppImpl::RunCommandN, get_InvalidArgs): no argument's        *)
(* command runs twice, not inside itself either, whatever ran ahead and     *)
(* took arguments; and those the user is told of are exactly those that     *)
(* nobody has done, taken or failed at.                                     *)
ArgsAreAccounted ==
  /\ \A i \in DOMAIN args : ran[i] <= 1
  /\ \A j, k \in DOMAIN calls : calls[j].arg = calls[k].arg => j = k
  /\ told # {} => told = {{i \in DOMAIN args : ~Done(i)}}

(* INVARIANT (cAppExitCatcher::ExitCatch, "preclude naughty libraries from  *)
(* exiting badly", cAppState.h): whoever calls exit(), the process only     *)
(* ends once main() has been through its exit, or somebody gave it up.      *)
GivenUp == \E t \in Aborters : at[t] \in {"abort", "blocked"}
StrayExitIsBlocked == gone => mainPc \in {"leave", "left", "abort", "passed"} \/ GivenUp

(* LIVENESS (cAppImpl::_isCloseSignaled, "Polite request to close"): an app *)
(* that is asked to close ends its process, as long as main() goes on, its  *)
(* commands come back and none is put off for ever.                         *)
CloseIsObeyed == close ~> gone

(* What AbortApp counts on ("cAppExitCatcher should not block this now.") is*)
(* no invariant: main() may store its own state over the _Exit of another   *)
(* thread before that gets to the catcher.                                  *)
AbortIsNotBlocked == \A t \in OtherThreads : at[t] # "blocked"
=============================================================================
