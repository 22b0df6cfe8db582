SPECIFICATION Spec
INVARIANT TypeOK
INVARIANT ChecksHold
INVARIANT DoneMeansQuiet
PROPERTY AdmissionIsWatched
PROPERTY ImplementsQuietUnit
PROPERTY Completes
CHECK_DEADLOCK FALSE
