\* Two relays, with the lease of the default configuration and clocks that agree.
SPECIFICATION Spec
CONSTANTS
  Relays = {r1, r2}
  Channels = {c1}
  Events = {e1}
  ChannelOf <- OneChannelOf
  Version <- OneVersion
  CreatedAt <- OneCreatedAt
  MaxPublishAttempts = 3
  HeadLimit = 2
  BatchLimit = 2
  LeaseDuration = 3
  PublishTimeout = 1
  MongoTimeout = 1
  HeadsTimeout = 1
  MaxSkew = 0
  MaxFaults = 0
  None = None
  e1 = e1
  e2 = e2
  e3 = e3
  c1 = c1
  c2 = c2
SYMMETRY RelaySymmetry
INVARIANTS
  OneLeaderPublishes
