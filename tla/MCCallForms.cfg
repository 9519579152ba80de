SPECIFICATION Spec
INVARIANTS
  OnlyBareFormsAreRefused
  NothingDangles
PROPERTIES
  SharedReceiverReleased
CHECK_DEADLOCK FALSE
