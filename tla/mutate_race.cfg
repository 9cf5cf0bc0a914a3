\* Edits and recalls of a message race.
CONSTANTS
  Ann = Ann
  Bob = Bob
  Users = {Ann, Bob}
  Channels = {c1}
  Participants <- MCParticipants
  Keys = {k1}
  Bodies = {b1}
  Malformed = bad
  CreateReqs = {p1}
  AIReqs = {}
  EditReqs = {e1, e2}
  RecallReqs = {x1, x2}
  ReadReqs = {}
  ReadSeqs = {}
  WithReplies = FALSE
  Deactivatable = {}
  MaxAttempts = 2
  None = None
SYMMETRY ReviseSymmetry
SPECIFICATION Spec
CHECK_DEADLOCK FALSE
INVARIANTS
  RecallIsFinal
  EventsTellHistory
PROPERTIES
  FirstCommitterWins
