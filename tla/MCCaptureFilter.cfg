CONSTANTS
  Threads = {1, 2}
  Task <- MCTask
  Calls <- MCCalls
  Clients = {1}
  Options <- MCOptions
  ServerOptions <- MCServerOptions
  MaxCalls = 3
SPECIFICATION Spec
CHECK_DEADLOCK FALSE
INVARIANT DataSizeDecides
