\* Clients may be done and the bounds on versions reached.
SPECIFICATION MCSpec
INVARIANTS  ReadsAreTrue 
PROPERTIES OmittedIsKept 
CHECK_DEADLOCK FALSE
