CONSTANTS
  w1 = w1
  w2 = w2
  Reviews = {1, 2}
  Workers = {w1, w2}
  Limit = 1
  MaxFaults = 2
SPECIFICATION FairSpec
INVARIANTS TypeOK
PROPERTIES ImplementsDelivery EveryReviewArrives
