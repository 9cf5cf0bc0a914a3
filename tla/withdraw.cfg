\* The channel is cleared while messages are posted, edited and read.
CONSTANTS
  Ann = Ann
  Bob = Bob
  Users = {Ann, Bob}
  Channels = {c1}
  Participants <- MCParticipants
  Keys = {k1}
  Bodies = {b1}
  Malformed = bad
  CreateReqs = {p1, p2}
  AIReqs = {}
  EditReqs = {e1}
  RecallReqs = {}
  ReadReqs = {d1}
  ReadSeqs = {2}
  WithReplies = FALSE
  Deactivatable = {c1}
  MaxAttempts = 2
  None = None
SYMMETRY SendSymmetry
SPECIFICATION Spec
CHECK_DEADLOCK FALSE
INVARIANTS
  EventsTellHistory
  VersionsDistinct
PROPERTIES
  ImplementsHistory
