\* Two releases, two checks, two changes of the preferences and two confirmed
\* installations. It ends when the bounds are used up.
CONSTANTS
  Versions = {1, 2}
  None = None
  MaxChecks = 2
  MaxChoices = 2
  MaxConfirms = 2
SPECIFICATION Spec
CHECK_DEADLOCK FALSE
INVARIANTS
  InstallsWhatWasConfirmed
  ConsentWithdrawn
  NothingLeftPrepared
  OfferedIsCached
