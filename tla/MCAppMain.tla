------------------------------ MODULE MCAppMain ------------------------------
(* Model checking AppMain: an app with the two commands it always has and   *)
(* one of its own, a module that brings one more and one whose name is      *)
(* taken, and up to three arguments.                                        *)
EXTENDS AppMain

Cmd(abbrev, name) == [abbrev |-> abbrev, name |-> name, mod |-> "app"]
OwnCommands == <<Cmd("?", "help"), Cmd("wfd", "waitfordebugger"), Cmd("c", "copy")>>
BroughtCommands == <<Cmd("m", "more"), Cmd("c", "copy")>>
MCLines == {<<"copy", "more", "c">>, <<"?", "m", "file">>, <<"c", "file", "wfd">>, <<"copy", "c">>}
=============================================================================
