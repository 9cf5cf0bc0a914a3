\* Cursors are advanced while messages come in.
CONSTANTS
  Ann = Ann
  Bob = Bob
  Users = {Ann, Bob}
  Channels = {c1}
  Participants <- MCParticipants
  Keys = {k1, k2}
  Bodies = {b1}
  Malformed = bad
  CreateReqs = {p1, p2}
  AIReqs = {}
  EditReqs = {}
  RecallReqs = {}
  ReadReqs = {d1, d2}
  ReadSeqs = {1, 2, 3}
  WithReplies = FALSE
  Deactivatable = {}
  MaxAttempts = 2
  None = None
SYMMETRY ReadSymmetry
SPECIFICATION Spec
CHECK_DEADLOCK FALSE
INVARIANTS
  CursorWithinHistory
  CursorEventsCoverRequest
PROPERTIES
  CursorNeverRegresses
