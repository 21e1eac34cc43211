\* One client at a time, which may go on after it was unloaded; every fault but
\* failures of the token endpoint.
SPECIFICATION FairSpec
CONSTANTS
  Client = {c1}
  Token = {r1, r2, r3}
  NoToken = NoToken
  NoTask = NoTask
  MaxRetries = 1
  Faults = {"fail", "cancel", "crash", "overlap", "revoke"}
INVARIANT TypeOK
INVARIANT StoredTokenLives
INVARIANT ReauthJustified
INVARIANT PasswordDiscarded
PROPERTY CallsEnd
