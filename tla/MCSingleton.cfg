\* Two threads, five singletons; somebody else has a reference to late,
\* so ReleaseModule removes it from the list but does not delete it.
SPECIFICATION FairSpec
CONSTANTS
  Threads = {t1, t2}
  Main = t1
  log = log
  app = app
  ext = ext
  late = late
  tool = tool
  dll = dll
  Types <- MCTypes
  Uses <- MCUses
  DtorUses <- MCDtorUses
  ModuleOf <- MCModuleOf
  Maps <- MCMaps
  Referenced = {late}
  Modules = {dll}
  Program = program
  AllModules = none
  MaxNest = 3
INVARIANTS UsedOutlivesUser NothingLeftOfModule
PROPERTIES OneObjectPerType ReleaseReturns
