SPECIFICATION Spec
CONSTANTS
  head = head
  desk = desk
  lan = lan
  far = far
  j = j
  k = k
  a = a
  b = b
  c = c
  NoNode = NoNode
  NoKind = NoKind
  NoCall = NoCall
  Nodes = {head, desk, lan, far}
  Head = head
  Remote = {far}
  Kinds = {j, k}
  Offers <- MCOffers
  Calls = {a, b, c}
  Parent <- MCParent
  Home = desk
  Wants <- MCWants
  Slots = 1
  Start = {head, desk, lan}
  Frail = {lan}
  MaxRestarts = 1
  Shaky = {a, c}
  MaxRetries = 1
  CancelOnStuck = FALSE
  MinFree = 50
CHECK_DEADLOCK FALSE
INVARIANTS TypeOK HangsOnlyOnNewcomers
PROPERTIES ReadyIsFinal HungIsRetried RelayServes
