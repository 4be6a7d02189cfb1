SPECIFICATION FairSpec
CONSTANTS
  Item = {i1}
  Source = {s1}
  Host = {h1}
  SourceOf <- OneSource
  HostOf <- OneHost
  Cycle = {c1, c2}
  NoOne = NoOne
  Batch = 1
  LastRetry = 1
  DisableAfter = 1
  MaxAdmin = 1
  MaxCrash = 2
PROPERTIES FetchingEnds WaitingSettles DisableStays
INVARIANTS HostsServedSingly
