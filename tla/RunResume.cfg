CONSTANTS
  SendKinds = {"plain", "merged"}
  MaxMessages = 3
  MaxDeltas = 2
  MaxDisconnects = 2
SPECIFICATION FairSpec
INVARIANTS ResumeInOrder
PROPERTY LearnsResult
