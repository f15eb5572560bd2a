CONSTANTS
  c1 = c1
  c2 = c2
  e1 = e1
  Acceptor = Acceptor
  Conns <- TwoConns
  Emitters <- OneEmitter
  Tls = TRUE
SPECIFICATION FairSpec
INVARIANTS
  EmissionsArrive
PROPERTIES
  ToldLeave
