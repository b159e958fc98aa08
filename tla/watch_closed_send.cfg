SPECIFICATION Spec
CONSTANTS
  n1 = n1
  k1 = k1
  k2 = k2
  Namespaces = {n1}
  Keys = {k1}
  Wild = Wild
  Watchers = {w1}
  Pollers = {}
  WatchFilters <- OneKey
  PollTopics <- OneKey
  SinceRevs = {0, 1}
  BufCap = 1
  Kinds = {"publish"}
  MaxEvents = 1
INVARIANT NeverSendsOnClosed
