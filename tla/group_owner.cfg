SPECIFICATION GroupSpec
CONSTANTS Site = {left, right, far}
 MemberHome = far
 FirstHome = left
 PerHome = 1
 MaxMoves = 5
CHECK_DEADLOCK FALSE
INVARIANT LastMoveWins
