CONSTANTS
  Handlers = {h1, h2}
  Tasks = {t1, t2}
  Keys = {"todo", "done", "review"}
  Rules <- MCRules
  MaxRequests = 2
SPECIFICATION FairSpec
INVARIANTS
  CompletionConsistent
  StatusesKnown
  OneOccurrencePerCompletion
PROPERTY RequestsEnd
CHECK_DEADLOCK FALSE
