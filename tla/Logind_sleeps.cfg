SPECIFICATION FairSpec
CONSTANTS
  DelayMayExpire = TRUE
  UpdateMayRaise = TRUE
  MaxSleeps = 3
INVARIANTS TypeOK LockIsTracked StoppedHoldsNothing AsleepIsConfigured
PROPERTIES ResumeIsApplied SleepProceeds InhibitedAgain
\* Nobody need suspend the system again.
CHECK_DEADLOCK FALSE
