SPECIFICATION FairSpec
CONSTANTS
  Kinds = {"i3lock", "physlock", "xbacklight", "monitor"}
  MaxStarts = 4
INVARIANTS TypeOK StoppedIsGone
PROPERTIES UnlockOnlyByOwnExit ExitIsNoticed MainIsFreed
