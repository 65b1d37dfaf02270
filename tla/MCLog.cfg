SPECIFICATION Spec
CONSTANTS
  NULL = NULL
  Threads = {t1}
  Logs = {l1}
  Ids = {"a*b", "a_b"}
  Sanitized <- Sanitizer
  Pointers = {"global", "printc", "printx"}
  Global = "global"
  LanguageOf <- Languages
  Levels <- SomeLevels
  MaximumLevel = 5
  Calls <- AllCalls
  InitialLogs <- AnyObjects
  MaxTime = 2
  MaxSequence = 2
  MaxDepth = 2
  MaxCalls = 2
CONSTRAINT Bounds
\* The bounds on time and on entries end a behaviour.
CHECK_DEADLOCK FALSE
INVARIANT DefaultsAreSound
PROPERTIES
  ImplementsAbstractLog
  EntriesAreNumbered
