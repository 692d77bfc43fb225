SPECIFICATION Spec
CONSTANTS
  Hosts = {h1, h2}
  NoExpectation = NoExpectation
INVARIANTS OneHostClaims
CHECK_DEADLOCK FALSE
