\* A relay that dies or is shut down, twice, and is started again.
SPECIFICATION LiveSpec
CONSTANTS
  Relays = {r1}
  Channels = {c1}
  Events = {e1, e2}
  ChannelOf <- PairChannelOf
  Version <- PairVersion
  CreatedAt <- PairCreatedAt
  MaxPublishAttempts = 2
  HeadLimit = 2
  BatchLimit = 2
  LeaseDuration = 3
  PublishTimeout = 1
  MongoTimeout = 1
  HeadsTimeout = 1
  MaxSkew = 0
  MaxFaults = 2
  None = None
  e1 = e1
  e2 = e2
  e3 = e3
  c1 = c1
  c2 = c2
INVARIANTS
  ExtraTriesAccounted
PROPERTIES
  EventuallySettled
