\* One thread more than calls, every behaviour, an exchange that breaks.
SPECIFICATION FairSpec
CONSTANTS
  Calls = {c1, c2}
  Threads = {t1, t2, t3}
  Kinds <- EachBehaviour
  MaxLosses = 1
INVARIANTS TypeOK SomeThreadCanServe ClientReleased JobDiscipline HandledDiscipline
PROPERTIES ImplementsService InsideCallsAnswered
