SPECIFICATION Spec
INVARIANTS
  AcceptsWhatIsDocumented
CHECK_DEADLOCK FALSE
