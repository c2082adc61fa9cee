SPECIFICATION Spec
CONSTANTS
  DelayMayExpire = TRUE
  UpdateMayRaise = FALSE
  MaxSleeps = 3
INVARIANT ReliablyConfigured
\* Nobody need suspend the system again.
CHECK_DEADLOCK FALSE
