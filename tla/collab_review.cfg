SPECIFICATION GroupFairSpec
CONSTANT Width = 2
PROPERTIES ReviewerIsAsked
CHECK_DEADLOCK FALSE
