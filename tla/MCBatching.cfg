SPECIFICATION FairSpec
CONSTANTS
  t = t
  k = k
  NoKey = NoKey
  Unset = Unset
  Groups <- Keyed
  Deliveries <- Mixed
  Sizes = {4}
  Envelope = 1
  Tag = 1
  Conns = {c1, c2}
  MaxSends = 3
  MaxChanges = 2
  MaxEvents = 1
  c1 = c1
  c2 = c2
CHECK_DEADLOCK FALSE
INVARIANTS EachOnceInOrder AsAskedFor WaitsForCause
PROPERTIES QuietSend EveryBatchGoes
