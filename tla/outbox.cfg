SPECIFICATION FairSpec
CONSTANTS
  Events = {1, 2}
  Workers = {w1, w2}
  Consumers = {k1}
  Bus = "nats"
  BatchSize = 2
  MaxRetries = 2
  MaxFaults = 2
CHECK_DEADLOCK FALSE
INVARIANTS TypeOK MarksAreTrue BoundedDuplicates
PROPERTIES EventuallySettled EventuallyHandled
