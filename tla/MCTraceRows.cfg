CONSTANTS
  Ifaces = {1, 2}
  IfaceOf <- MCIfaceOf
  Programs = {{"mcp","webui"}, {"tui"}}
  FirstId = 1
  McpRoom = 3
  WebuiRoom = 3
  McpDefault = 2
  McpMax = 2
  WebuiDefault = 2
  WebuiMax = 2
  TopDefault = 1
  TopMax = 2
  MaxOptions = 2
  McpSlow = 2
  WebuiSlow = 1
  MaxEvents = 3
  MaxId = 4
  MaxHooks = 2
SPECIFICATION Spec
CHECK_DEADLOCK FALSE
INVARIANTS RepliesNameTheirCall LatenciesAgree FrontEndsAgree PagesJoinUp LookupsMatchHistory
