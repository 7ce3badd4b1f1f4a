\* A connection that aborts in a full ring stays in the accept queue.
CONSTANTS
  s1 = s1
  s2 = s2
  c1 = c1
  c2 = c2
  c3 = c3
  SockIds <- MCSockIds
  NoSock = NoSock
  SemMax = 4
  RingSize = 3
  Conns <- MCConns
  NoConn = NoConn
  ServerPrio = 56
  ListenSize = 4
  IdleMax = 2
  ErrMax = 2
  ErrBound = 3
  Requests <- MCRequests
SYMMETRY MCSymmetry
SPECIFICATION Spec
INVARIANT QueueNamesPending
