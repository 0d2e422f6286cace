SPECIFICATION FairSpec
CONSTANTS
  NumCalls = 3
  Lanes = {f1}
  NoLane = NoLane
  Workers = {w1, w2, w3}
  Sizes = {1, 2}
INVARIANTS IInv LaneOrder LoopStartsWhatPumpStarts
PROPERTIES GrowsWithinSize EveryCallAnswered ClosedPoolDrains
