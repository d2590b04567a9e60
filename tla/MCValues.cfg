SPECIFICATION Spec
INVARIANTS
  TimesAgree
  TextAgrees
  NumbersAgree
  PathsAgree
CHECK_DEADLOCK FALSE
