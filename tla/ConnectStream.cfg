CONSTANTS
  MaxFrames = 3
  MaxCalls = 5
SPECIFICATION FairSpec
INVARIANTS MessagesInOrder HonestEOF
PROPERTY NextReturns
