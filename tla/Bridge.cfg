\* Two mutations, one request of the direct lane (a wait or a gesture), one
\* change by the user. It ends when every request is done.
CONSTANTS
  a = a
  b = b
  w = w
  None = None
  Requests = {a, b, w}
  Kind <- KindOf
  Changes <- ChangesOf
  Domains = {"presets", "workspace"}
  Persisted = {"workspace"}
  MaxWaits = 1
  MaxEdits = 1
SPECIFICATION FairSpec
CHECK_DEADLOCK FALSE
INVARIANTS
  TypeOK
  WaitersAwake
  CommandAdvancesOnce
  SuccessWasRendered
  NotObserved
PROPERTY QueueMoves
