SPECIFICATION Spec
CONSTANTS
  n1 = n1
  k1 = k1
  k2 = k2
  Namespaces = {n1}
  Keys = {k1, k2}
  Wild = Wild
  Watchers = {w1}
  Pollers = {p1}
  WatchFilters <- KeyOrAll
  PollTopics <- OneKey
  SinceRevs = {0, 1}
  BufCap = 1
  Kinds = {"publish", "rollback", "delete"}
  MaxEvents = 3
INVARIANT TypeOK
INVARIANT InOrder
INVARIANT NewestKept
INVARIANT ClosedIsRemoved
INVARIANT WaitFresh
PROPERTY SilentAfterCancel
