\* Docker may fail to stop or to remove the container.
SPECIFICATION FairSpec
CONSTANT Docker <- AllFail
INVARIANTS TypeOK NothingLeft LogSent
PROPERTIES SignalEnds SessionEnds
CHECK_DEADLOCK FALSE
