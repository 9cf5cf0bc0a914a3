\* More channels are delayed than the limit of the heads.
SPECIFICATION Spec
CONSTANTS
  Relays = {r1}
  Channels = {c1, c2}
  Events = {e1, e2, e3}
  ChannelOf <- MCChannelOf
  Version <- MCVersion
  CreatedAt <- MCCreatedAt
  MaxPublishAttempts = 3
  HeadLimit = 1
  BatchLimit = 1
  LeaseDuration = 5
  PublishTimeout = 1
  MongoTimeout = 1
  HeadsTimeout = 1
  MaxSkew = 0
  MaxFaults = 0
  None = None
  e1 = e1
  e2 = e2
  e3 = e3
  c1 = c1
  c2 = c2
INVARIANTS
  DelayBlocksOwnChannelOnly
