SPECIFICATION Spec
CONSTANTS
  Conns = {g1, g2}
  Clients = {"a", "b"}
  MaxClients = 1
  MaxSilent = 2
  None = None
INVARIANTS
  ProxyTypeOK
  OneConnection
  NoForgottenClient
  HandshakeAnswered
PROPERTIES
  OwnWatchdogOnly
