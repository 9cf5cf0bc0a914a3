\* Two relays, with clocks that are off and a lease that a round may outlast.
SPECIFICATION Spec
CONSTANTS
  Relays = {r1, r2}
  Channels = {c1}
  Events = {e1, e2}
  ChannelOf <- PairChannelOf
  Version <- PairVersion
  CreatedAt <- PairCreatedAt
  MaxPublishAttempts = 2
  HeadLimit = 2
  BatchLimit = 2
  LeaseDuration = 3
  PublishTimeout = 1
  MongoTimeout = 0
  HeadsTimeout = 0
  MaxSkew = 1
  MaxFaults = 0
  None = None
  e1 = e1
  e2 = e2
  e3 = e3
  c1 = c1
  c2 = c2
SYMMETRY RelaySymmetry
INVARIANTS
  TypeOK
  OneLeaderInTerm
  ExtraTriesAccounted
  ParkedOnlyAfterAttempts
  OvertakesOnlyLateOrParked
PROPERTIES
  ImplementsTopic
  SettledIsFinal
