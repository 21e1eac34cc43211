------------------------------ MODULE TokenAuth ------------------------------
(***************************************************************************)
(* The tokens of one config entry.  A client (a SharetribeFlexAPI, one per  *)
(* generation of the entry) exchanges its refresh token, or the account's   *)
(* password, for an access token and a new refresh token, which is stored   *)
(* in the entry; the marketplace accepts a refresh token once.  The polls   *)
(* and the service calls of a client share its tokens and its lock.  When   *)
(* neither token nor password is accepted, the provider is asked again.     *)
(*                                                                          *)
(* What a call asks for is left out, and how long it waits between tries.   *)
(* The name of a token that nobody holds any more is used again, so Token   *)
(* bounds the tokens held at one time, not their number.                    *)
(***************************************************************************)
EXTENDS Naturals

CONSTANTS
  Client,     \* room for clients: the one in use, others that outlived a reload
  Token,      \* refresh tokens
  NoToken,    \* "no token"
  NoTask,     \* nobody holds the lock
  MaxRetries, \* MAX_RATE_LIMIT_RETRIES
  Faults      \* "fail": a request fails; "cancel": a setup or poll is cancelled;
              \* "crash"; "overlap": calls go on after their client was
              \* unloaded; "revoke": a token or the password is accepted no
              \* more; "outage": a token request gets another status than 200

\* "poll": the fetch of the transactions; "service": a service call, or one of
\* the later calls of a poll, which like it asks nobody for credentials
Kind == {"poll", "service"}
Task == Client \X Kind

\* NoToken and NoTask are what the code writes None, and a retry budget a number.
ASSUME TokenAssumption ==
  /\ NoToken \notin Token
  /\ NoTask \notin Task
  /\ MaxRetries \in Nat
  /\ Faults \subseteq {"fail", "cancel", "crash", "overlap", "revoke", "outage"}

VARIABLES
  live,      \* refresh tokens the marketplace accepts
  account,   \* it accepts the password
  entry,     \* entry.data: the refresh token, and whether a password is stored
  client,    \* the clients
  task,      \* a poll and a service call of each client
  reauth,    \* Home Assistant asks the provider for credentials
  exposed    \* something happened that can cost the entry its token (observation)

vars == <<live, account, entry, client, task, reauth, exposed>>
marketVars == <<live, account>>

-----------------------------------------------------------------------------
(* Clients and calls.                                                        *)

MaybeToken == Token \cup {NoToken}

\* access: it has an access token that does not expire within
\* TOKEN_REFRESH_BUFFER
ClientState ==
  [phase : {"none", "setup", "up", "old"}, refresh : MaybeToken, password : BOOLEAN,
   access : BOOLEAN, lock : Task \cup {NoTask}]

NoClient == [phase |-> "none", refresh |-> NoToken, password |-> FALSE, access |-> FALSE,
             lock |-> NoTask]

\* at: waits for the lock in _ensure_valid_token ("ensure") or, after a 401, in
\* _refresh_access_token ("force"); has asked for a token, which the marketplace
\* has granted or refused; waits for the answer to its call.  again: a 401 is
\* not final; tries: the times it was told to try later.
TaskState ==
  [at : {"idle", "ensure", "force", "token", "granted", "refused", "call"},
   grant : {"refresh", "password"}, got : MaybeToken, setup : BOOLEAN, again : BOOLEAN,
   tries : 0..MaxRetries]

Idle == [at |-> "idle", grant |-> "refresh", got |-> NoToken, setup |-> FALSE,
         again |-> TRUE, tries |-> 0]

Of(t) == client[t[1]]
Running == {c \in Client : client[c].phase # "none"}
Busy(t) == task[t].at # "idle"

Held == {entry.token} \cup {client[c].refresh : c \in Client} \cup {task[t].got : t \in Task}

\* a token that nobody holds is forgotten, and its name means another one later
Accepted == live \cap Held

\* job k asks for a token, with refresh token r if there is one
Asks(k, r) == [k EXCEPT !.at = "token", !.grant = IF r = NoToken THEN "password" ELSE "refresh"]

\* Variant for the checks: a token that is stored already is not stored again.
PersistedIfNew(n) == IF entry.token = n THEN entry ELSE [token |-> n, password |-> FALSE]

\* persist_refresh_token: the entry has token n, and the password no more; the
\* reload by the entry's update listener is an Unload and a Setup that follow
Persisted(n) == [token |-> n, password |-> FALSE]

\* Variant for the checks: only a setup has its token stored.
StoresInSetup(t, n) == task[t].setup

\* _process_token_response and async_setup_entry have token n stored, which t got
Stores(t, n) == task[t].setup \/ n # Of(t).refresh

\* Variant for the checks: the budget is one try too large.
TriesLeftOver(k) == k.tries <= MaxRetries

\* job k may be told once more to try later
TriesLeft(k) == k.tries < MaxRetries

\* the answers under way of tasks ts, which nobody will read, change the token
Costly(ts) ==
  \E t \in ts : task[t].at = "granted" /\ task[t].grant = "refresh" /\ task[t].got # Of(t).refresh

\* the tasks of c are no more
Without(c) == [t \in Task |-> IF t[1] = c THEN Idle ELSE task[t]]

-----------------------------------------------------------------------------
(* Setting up, unloading.                                                    *)

\* async_setup_entry makes a client of what the entry holds, and authenticates
Setup(c) ==
  /\ client[c].phase = "none"
  /\ \A d \in Client : client[d].phase \in {"none", "old"}
  /\ client' = [client EXCEPT ![c] =
       [phase |-> "setup", refresh |-> entry.token, password |-> entry.password,
        access |-> FALSE, lock |-> <<c, "poll">>]]
  /\ task' = [task EXCEPT ![<<c, "poll">>] = Asks([Idle EXCEPT !.setup = TRUE], entry.token)]
  /\ UNCHANGED <<marketVars, entry, reauth, exposed>>

\* async_unload_entry; calls under way are cancelled
Unload(c) ==
  /\ client[c].phase = "up"
  /\ "cancel" \in Faults \/ \A k \in Kind : ~Busy(<<c, k>>)
  /\ client' = [client EXCEPT ![c] = NoClient]
  /\ task' = Without(c)
  /\ exposed' = (exposed \/ Costly({c} \X Kind))
  /\ UNCHANGED <<marketVars, entry, reauth>>

\* async_unload_entry; calls under way go on
UnloadInFlight(c) ==
  /\ "overlap" \in Faults
  /\ client[c].phase = "up"
  /\ \E k \in Kind : Busy(<<c, k>>)
  /\ client' = [client EXCEPT ![c].phase = "old"]
  /\ exposed' = TRUE
  /\ UNCHANGED task
  /\ UNCHANGED <<marketVars, entry, reauth>>

\* a setup is cancelled
SetupCancelled(c) ==
  /\ "cancel" \in Faults
  /\ client[c].phase = "setup"
  /\ client' = [client EXCEPT ![c] = NoClient]
  /\ task' = Without(c)
  /\ exposed' = (exposed \/ Costly({c} \X Kind))
  /\ UNCHANGED <<marketVars, entry, reauth>>

\* the last call of an unloaded client is over
Forget(c) ==
  /\ client[c].phase = "old"
  /\ \A k \in Kind : ~Busy(<<c, k>>)
  /\ client' = [client EXCEPT ![c] = NoClient]
  /\ UNCHANGED <<marketVars, entry, task, reauth, exposed>>

\* Home Assistant stops and starts again
Restart ==
  /\ "crash" \in Faults
  /\ client' = [c \in Client |-> NoClient]
  /\ task' = [t \in Task |-> Idle]
  /\ reauth' = FALSE
  /\ exposed' = (exposed \/ Costly(Task))
  /\ UNCHANGED <<marketVars, entry>>

-----------------------------------------------------------------------------
(* Calls.                                                                    *)

\* a call of a client in use begins
BeginCall(t) ==
  /\ task[t].at = "idle"
  /\ Of(t).phase = "up"
  /\ task' = [task EXCEPT ![t].at = "ensure"]
  /\ UNCHANGED <<marketVars, entry, client, reauth, exposed>>

\* Variant for the checks: nobody waits for the lock.
AuthenticateUnlocked(t) ==
  /\ client' = [client EXCEPT ![t[1]].lock = t]
  /\ task' = [task EXCEPT ![t] = Asks(@, Of(t).refresh)]

\* t takes the lock and asks for a token: _authenticate_internal
Authenticate(t) ==
  /\ Of(t).lock = NoTask
  /\ client' = [client EXCEPT ![t[1]].lock = t]
  /\ task' = [task EXCEPT ![t] = Asks(@, Of(t).refresh)]

\* _ensure_valid_token: t has a token that lasts, or authenticates
EnsureToken(t) ==
  /\ task[t].at = "ensure"
  /\ IF Of(t).access
     THEN /\ Of(t).lock = NoTask
          /\ task' = [task EXCEPT ![t].at = "call"]
          /\ UNCHANGED client
     ELSE Authenticate(t)
  /\ UNCHANGED <<marketVars, entry, reauth, exposed>>

\* _refresh_access_token, after a 401
ForceToken(t) ==
  /\ task[t].at = "force"
  /\ Authenticate(t)
  /\ UNCHANGED <<marketVars, entry, reauth, exposed>>

\* Variant for the checks: a call that fails keeps the lock.
FailsHolding(t) ==
  IF task[t].setup
  THEN client' = [client EXCEPT ![t[1]] = NoClient] /\ task' = Without(t[1])
  ELSE UNCHANGED client /\ task' = [task EXCEPT ![t] = Idle]

\* t's call ends without an answer it can use, and t lets go of the lock; a
\* client that was being set up is no more
Fails(t) ==
  IF task[t].setup
  THEN client' = [client EXCEPT ![t[1]] = NoClient] /\ task' = Without(t[1])
  ELSE /\ client' = [client EXCEPT ![t[1]].lock = IF @ = t THEN NoTask ELSE @]
       /\ task' = [task EXCEPT ![t] = Idle]

\* the marketplace grants a token, a new one or the same again, and does not
\* accept the one it was asked with again if it is another
TokenGranted(t) ==
  /\ task[t].at = "token"
  /\ \E n \in Token :
       /\ \/ n \notin Held
          \/ task[t].grant = "refresh" /\ n = Of(t).refresh
       /\ IF task[t].grant = "refresh"
          THEN /\ Of(t).refresh \in live
               /\ live' = (Accepted \ {Of(t).refresh}) \cup {n}
          ELSE /\ account /\ Of(t).password
               /\ live' = Accepted \cup {n}
       /\ task' = [task EXCEPT ![t].at = "granted", ![t].got = n]
  /\ UNCHANGED <<account, entry, client, reauth, exposed>>

\* the marketplace does not accept the token or the password, or cannot say
TokenRefused(t) ==
  /\ task[t].at = "token"
  /\ \/ task[t].grant = "refresh" /\ Of(t).refresh \notin live
     \/ task[t].grant = "password" /\ ~(account /\ Of(t).password)
     \/ "outage" \in Faults
  /\ task' = [task EXCEPT ![t].at = "refused"]
  /\ UNCHANGED <<marketVars, entry, client, reauth, exposed>>

\* client k has token n, and after a setup is published
Renewed(k, n) ==
  [k EXCEPT !.refresh = n, !.access = TRUE, !.lock = NoTask,
            !.phase = IF @ = "setup" THEN "up" ELSE @]

\* what was lost is made up for: client c, the only one, got token n stored
Settled(c, n) ==
  /\ Running = {c} /\ client[c].phase # "old"
  /\ entry'.token = n /\ n \in live
  /\ ~reauth

\* _process_token_response; a setup is done, a call goes on
ReceiveToken(t) ==
  LET n == task[t].got
  IN /\ task[t].at = "granted"
     /\ client' = [client EXCEPT ![t[1]] = Renewed(@, n)]
     /\ entry' = IF Stores(t, n) THEN Persisted(n) ELSE entry
     /\ task' = [task EXCEPT ![t] =
          IF @.setup THEN Idle
          ELSE [@ EXCEPT !.at = "call", !.grant = "refresh", !.got = NoToken]]
     /\ exposed' = (exposed /\ ~Settled(t[1], n))
     /\ UNCHANGED <<marketVars, reauth>>

\* a refused token is followed by the password, if there is one; otherwise the
\* call fails, and the setup or the poll asks for credentials
ReceiveRefusal(t) ==
  /\ task[t].at = "refused"
  /\ IF task[t].grant = "refresh" /\ Of(t).password
     THEN /\ task' = [task EXCEPT ![t].at = "token", ![t].grant = "password"]
          /\ UNCHANGED <<client, reauth>>
     ELSE /\ Fails(t)
          /\ reauth' = (reauth \/ t[2] = "poll")
  /\ UNCHANGED <<marketVars, entry, exposed>>

\* a network error, of the request for a token or of the call
RequestFails(t) ==
  /\ "fail" \in Faults
  /\ task[t].at \in {"token", "granted", "refused", "call"}
  /\ Fails(t)
  /\ exposed' = (exposed \/ Costly({t}))
  /\ UNCHANGED <<marketVars, entry, reauth>>

\* the call is answered; a poll looks whether the entry has the token
CallAnswered(t) ==
  /\ task[t].at = "call"
  /\ task' = [task EXCEPT ![t] = Idle]
  /\ entry' = IF /\ t[2] = "poll"
                 /\ Of(t).refresh # NoToken
                 /\ entry.token # Of(t).refresh \/ entry.password
              THEN Persisted(Of(t).refresh)
              ELSE entry
  /\ UNCHANGED <<marketVars, client, reauth, exposed>>

\* the marketplace does not accept the access token: the first time, t refreshes
\* it and tries again
CallUnauthorized(t) ==
  /\ task[t].at = "call"
  /\ IF task[t].again
     THEN /\ task' = [task EXCEPT ![t].at = "force", ![t].again = FALSE, ![t].tries = 0]
          /\ UNCHANGED client
     ELSE Fails(t)
  /\ UNCHANGED <<marketVars, entry, reauth, exposed>>

\* the marketplace answers 429, 502, 503 or 504: t tries later, or no more
CallLimited(t) ==
  /\ task[t].at = "call"
  /\ IF TriesLeft(task[t])
     THEN /\ task' = [task EXCEPT ![t].tries = @ + 1]
          /\ UNCHANGED client
     ELSE Fails(t)
  /\ UNCHANGED <<marketVars, entry, reauth, exposed>>

-----------------------------------------------------------------------------
(* The provider, the marketplace, time.                                      *)

\* async_step_reauth_confirm: the provider gives credentials that the
\* marketplace accepts, and the token they get is stored; the reload that
\* follows is an Unload and a Setup
CredentialsGiven ==
  /\ reauth
  /\ \E n \in Token \ Held : entry' = Persisted(n) /\ live' = Accepted \cup {n}
  /\ account' = TRUE
  /\ reauth' = FALSE
  /\ exposed' = (Running # {})
  /\ UNCHANGED <<client, task>>

\* an access token comes to its end
Expire(c) ==
  /\ client[c].access
  /\ client' = [client EXCEPT ![c].access = FALSE]
  /\ UNCHANGED <<marketVars, entry, task, reauth, exposed>>

\* a refresh token, or the password, is not accepted any more
Revoke ==
  /\ "revoke" \in Faults
  /\ \/ \E n \in Accepted : live' = live \ {n} /\ UNCHANGED account
     \/ /\ account /\ (entry.password \/ \E c \in Client : client[c].password)
        /\ account' = FALSE
        /\ UNCHANGED live
  /\ exposed' = TRUE
  /\ UNCHANGED <<entry, client, task, reauth>>

-----------------------------------------------------------------------------

\* an entry of the config flow, or of a version that kept the password
Init ==
  /\ account = TRUE
  /\ \/ \E n \in Token : entry \in [token : {n}, password : BOOLEAN] /\ live = {n}
     \/ entry = [token |-> NoToken, password |-> TRUE] /\ live = {}
  /\ client = [c \in Client |-> NoClient]
  /\ task = [t \in Task |-> Idle]
  /\ reauth = FALSE
  /\ exposed = FALSE

Step(t) ==
  \/ BeginCall(t) \/ EnsureToken(t) \/ ForceToken(t)
  \/ TokenGranted(t) \/ TokenRefused(t) \/ ReceiveToken(t) \/ ReceiveRefusal(t)
  \/ RequestFails(t) \/ CallAnswered(t) \/ CallUnauthorized(t) \/ CallLimited(t)

Next ==
  \/ \E c \in Client :
       Setup(c) \/ Unload(c) \/ UnloadInFlight(c) \/ SetupCancelled(c) \/ Forget(c) \/ Expire(c)
  \/ Restart
  \/ \E t \in Task : Step(t)
  \/ CredentialsGiven
  \/ Revoke

Spec == Init /\ [][Next]_vars

\* answers come, and who waits for a lock gets it
Fairness ==
  \A t \in Task :
    /\ SF_vars(EnsureToken(t)) /\ SF_vars(ForceToken(t))
    /\ WF_vars(TokenGranted(t) \/ TokenRefused(t))
    /\ WF_vars(ReceiveToken(t) \/ ReceiveRefusal(t))
    /\ WF_vars(CallAnswered(t) \/ CallUnauthorized(t) \/ CallLimited(t))

FairSpec == Spec /\ Fairness

-----------------------------------------------------------------------------
(* Properties.                                                              *)

\* Types.
TypeOK ==
  /\ live \subseteq Token
  /\ account \in BOOLEAN
  /\ entry \in [token : MaybeToken, password : BOOLEAN]
  /\ client \in [Client -> ClientState]
  /\ task \in [Task -> TaskState]
  /\ reauth \in BOOLEAN
  /\ exposed \in BOOLEAN

\* what the next start authenticates with: a token the marketplace accepts, or
\* the password of an entry that never had one
CanStart == entry.token \in live \/ (entry.token = NoToken /\ entry.password)

\* The next start can authenticate: whatever polls and service calls do at the
\* same time, each rotation of the token reaches the entry, and none is asked
\* for with a token that was used up.  Not while the answer with a new token is
\* on its way, and not after such an answer was lost, a token was revoked, or a
\* client was still at work when its successor or the provider stored a token.
StoredTokenLives == ~exposed /\ ~Costly(Task) => CanStart

\* The provider is asked for credentials only after something of that kind: two
\* calls that need a token at once never use one token twice.
ReauthJustified == reauth => exposed

\* Once a client was set up, the entry holds no password any more, whatever
\* clients came before or come after it (README.md:126-127).
PasswordDiscarded ==
  \A c \in Client : client[c].phase \in {"up", "old"} => ~entry.password

\* "refresh tokens rotate - persist the newest one" (docs/SHARETRIBE_API.md:65):
\* in any order of polls, calls and reloads, while no new token is on its way
\* the stored one is the one the marketplace accepts.
NewestTokenStored == ~Costly(Task) => CanStart

\* No call waits for ever, for the lock, for a token or between its tries.
CallsEnd == \A t \in Task : Busy(t) ~> ~Busy(t)
=============================================================================
