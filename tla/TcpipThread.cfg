SPECIFICATION Spec
CONSTANTS
  Callers = {a}
  Cyclic <- MCCyclic
  Period <- MCPeriod
  MboxSize = 2
  MaxTries = 2
  MaxOrphans = 1
  MayFail = {"dhcp", "tcp"}
INVARIANTS TcpTimerOn SignalsMatch
PROPERTIES NeverEarly KeepsTime CallsReturn TimersGoOn
