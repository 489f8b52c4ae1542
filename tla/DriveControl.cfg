SPECIFICATION Spec
CONSTANTS
  Clients = {c1, c2}
  SecondPage = c2
  Buttons = {"s", "a", "f"}
  MaxInFlight = 2
INVARIANTS
  TypeOK
  CommandMatchesKeys
  TankObeysDriver
PROPERTY
  OnlyFastReverseTurnsWrap
CONSTRAINTS
  SecondPageIsSimple
  SecondPageIsFirst
  FewInFlight
