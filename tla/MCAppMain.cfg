\* One more thread, which may close the app, call exit() or call AbortApp.
SPECIFICATION AppSpec
CONSTANTS
  OtherThreads = {helper}
  Aborters = {helper}
  Modules = {m1}
  Own <- OwnCommands
  Brought <- BroughtCommands
  Lines <- MCLines
  MaxExtra = 1
  MaxDepth = 3
  MaxLater = 1
INVARIANTS ArgsAreAccounted StrayExitIsBlocked
PROPERTY CloseIsObeyed
CHECK_DEADLOCK FALSE
