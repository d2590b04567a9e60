----------------------------- MODULE MCSingleton -----------------------------
(***************************************************************************)
(* Model checking Singleton.  app and ext use log in their constructors, as *)
(* most singletons of the library use cLogMgr.  ext and late belong to a    *)
(* module that unloads; the destructor of ext calls get_Single() of app and *)
(* of late, which may create either while ReleaseModule is in its loop.     *)
(* tool is of the program and uses ext: the program is linked to dll, which *)
(* stays mapped when it is told to unload.                                  *)
(***************************************************************************)
EXTENDS Singleton
CONSTANTS log, app, ext, late, tool, dll
MCTypes    == {log, app, ext, late, tool}
MCUses     == [y \in MCTypes |-> IF y \in {app, ext} THEN <<log>> ELSE IF y = tool THEN <<ext>> ELSE <<>>]
MCDtorUses == [y \in MCTypes |-> IF y = ext THEN <<app, late>> ELSE <<>>]
MCModuleOf == [y \in MCTypes |-> IF y \in {ext, late} THEN dll ELSE Program]
MCMaps     == [m \in Modules \cup {Program} |-> Modules \cup {Program}]
=============================================================================
