\* Calls of an unloaded client go on while its successor is set up; no other
\* fault.
SPECIFICATION Spec
CONSTANTS
  Client = {c1, c2}
  Token = {r1, r2, r3}
  NoToken = NoToken
  NoTask = NoTask
  MaxRetries = 1
  Faults = {"overlap"}
INVARIANT NewestTokenStored
