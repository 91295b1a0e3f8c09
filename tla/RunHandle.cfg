CONSTANTS
  Origins = {"stream", "snapshot"}
  Listeners = {"l1", "l2"}
  MaxMessages = 2
  MaxAnswers = 2
SPECIFICATION FairSpec
INVARIANTS EventsOnce StatusTruth WaitAgrees ListenersKept
PROPERTIES WaitAnswers
