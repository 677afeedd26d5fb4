CONSTANTS
  Conns = {k1, k2}
  Secure = {k1, k2}
  MaxHandlers = 3
  MaxSessions = 1
  Subjects = {alice, bob}
  Tickets = {t1, t2, t3, t4}
  Requests = {r1, r2}
  Ttl = 2
  MaxLive = 3
  MaxPerSubject = 2
  Byte = {0, 1}
  Capacity = 3
  MaxProduced = 7
SPECIFICATION TerminalSpec
INVARIANTS
  ClaimIsExclusive
  NoShellIsOrphaned
  LiveShellsBounded
  TurnedOffLeavesNoLocalShell
  SingleUse
  ReplayIsExact
SYMMETRY Symmetry
CHECK_DEADLOCK FALSE
