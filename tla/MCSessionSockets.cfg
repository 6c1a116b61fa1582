\* A call that fails to connect leaves its socket.
SPECIFICATION Spec
CONSTANTS
  Configured = Configured
  Guest = Guest
  MaxConns = 1
INVARIANTS
  SocketsReleased
