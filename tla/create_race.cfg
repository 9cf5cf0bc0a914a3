\* Posts, replies and an AI reply race for sequences and keys in two channels, one
\* of which may be cleared, with an outsider and payloads that are rejected.
CONSTANTS
  Ann = Ann
  Bob = Bob
  Users = {Ann, Bob, Eve}
  Channels = {c1, c2}
  Participants <- MCParticipants
  Keys = {k1, k2}
  Bodies = {b1, bad}
  Malformed = bad
  CreateReqs = {p1, p2}
  AIReqs = {a1}
  EditReqs = {}
  RecallReqs = {}
  ReadReqs = {}
  ReadSeqs = {}
  WithReplies = TRUE
  Deactivatable = {c1}
  MaxAttempts = 2
  None = None
SYMMETRY SendSymmetry
SPECIFICATION Spec
CHECK_DEADLOCK FALSE
INVARIANTS
  TypeOK
  RepliesFollowTheirSource
  SequencesContiguous
  IdempotentAnswers
  ExhaustionNeedsRivals
  SummaryPointsAtStored
  SummaryCoversCreated
PROPERTIES
  SummaryNeverRegresses
