SPECIFICATION AllSpec
CONSTANTS
  Requests = {r1, r2, r3, r4}
  NoRequest = NoRequest
  MaxLookups = 2
  MaxFaults = 3
  Askers = {1, 2}
  Hosts = {"h", "i"}
  Text = {"", "n", "m", "1", "Not found", "Try again"}
  Names <- OneName
  MaxQuestions = 2
INVARIANT WakesRequester
CHECK_DEADLOCK FALSE
