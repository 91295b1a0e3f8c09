\* Every event of the interleaving is reached: the high-water mark, the hard
\* limit, a full queue at the result, a full queue at the end marker.
CONSTANTS
  HighWater = 2
  HardLimit = 3
  MaxMessages = 3
  MaxCallbacks = 3
SPECIFICATION FairSpec
INVARIANTS
  TypeOK
  GapFreeOffsets
  BoundedBuffer
  NoLostWakeup
  SourceOrder
  HonestEnd
  NoOrphanProducer
PROPERTIES
  ImplementsOrderedRunStream
  Terminates
