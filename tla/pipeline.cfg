\* Two posts and a recall race while a client follows the channel, with pages of
\* one message; the channel may be cleared.
CONSTANTS
  Ann = Ann
  Bob = Bob
  Users = {Ann, Bob}
  Channels = {c1}
  Participants <- MCParticipants
  Keys = {k1}
  Bodies = {b1}
  Malformed = bad
  CreateReqs = {p1, p2}
  AIReqs = {}
  EditReqs = {}
  RecallReqs = {w1}
  ReadReqs = {}
  ReadSeqs = {}
  WithReplies = FALSE
  Deactivatable = {c1}
  MaxAttempts = 1
  None = None
  Viewer = Bob
  Viewed = c1
  PageLimit = 1
SPECIFICATION PLiveSpec
CHECK_DEADLOCK FALSE
INVARIANTS
  ViewCoversVersions
  ViewIsTrue
  ViewContiguous
PROPERTIES
  LoadEnds
