CONSTANTS
  None = None
  Reload = Reload
  Slots = {x, y}
  Ids = {e1, e2}
  Positions = {p}
  MaxAttempts = 2
SPECIFICATION LiveSpec
INVARIANTS
  ShowsTransport
  OfflineIsShown
PROPERTY LateTransportIsFollowed
