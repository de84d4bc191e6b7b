CONSTANTS
  NumParticipants = 4
  Rounds = 1
SPECIFICATION DBSpec
INVARIANT AllReached
CHECK_DEADLOCK FALSE
