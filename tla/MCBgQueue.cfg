CONSTANTS
  a1 = a1
  h1 = h1
  Alliance <- MCAlliance
  Horde <- MCHorde
  Travellers <- MCTravellers
  MinPlayersPerTeam = 1
  MaxPlayersPerTeam = 2
  MaxJoins <- MCMaxJoins
  Leavers <- MCLeavers
  MaxPending = 1
  MaxAhead = 0
  MaxCount = 3
  None = None
SPECIFICATION Spec
INVARIANTS
  BgQueueTypeOK
  BgInQueue
  AcceptsOnce
  PlacesCounted
PROPERTIES
  ExpiresOwnInvitation
  InvitationEnds
\* When all who can have joined have left, nothing more happens.
CHECK_DEADLOCK FALSE
