CONSTANTS
  Origins = {"stream"}
  Listeners = {"l1", "l2", "l3"}
  MaxMessages = 0
  MaxAnswers = 0
SPECIFICATION FairSpec
PROPERTY ListenersTold
