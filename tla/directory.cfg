\* Three requests open channels between any two of three users.
CONSTANTS
  Ann = Ann
  Bob = Bob
  Eve = Eve
  Users = {Ann, Bob, Eve}
  Opens = {o1, o2, o3}
  UserLess <- MCUserLess
  None = None
SPECIFICATION LiveSpec
CHECK_DEADLOCK FALSE
INVARIANTS
  OneChannelPerPair
  OpensAgree
  LoserFindsWinner
PROPERTIES
  OpensAnswered
