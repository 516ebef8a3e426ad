CONSTANTS
  First = 1
  Last = 4
  MaxBatch = 2
  AgentEvents = 4
  Programs = {1, 2}
  Typed = {"quit", "space", "up", "home", "esc", "letter"}
  ReadSize = 3
  MaxKeys = 4
  Keys = {1, 2, 3}
  Unnamed = {3}
  Payload <- MCPayload
  Rows = 2
  PageSize = 10
  MaxDrain = 2
  MaxEvents = 3
  ListEvents = 4
  ListPage = 2
  Threads = {1, 2}
  Task <- MCTask
  Calls <- MCCalls
  Clients = {1}
  Options <- MCOptions
  ServerOptions <- NoOption
  MaxCalls = 3
  Touches <- MCTouches
  Guarded = {1, 3, 4}
SPECIFICATION AllSpec
CHECK_DEADLOCK FALSE
INVARIANTS ConnectTellsTheTruth FilesAreWhole KeysAreAccountedFor PanesStayInside GuardsComeBack
INVARIANTS CapturedAsAsked NothingIsStranded WindowHasNoGaps SelectionIsLoaded
