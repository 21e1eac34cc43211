-------------------------- MODULE TokenAuth_proofs --------------------------
(***************************************************************************)
(* What holds of TokenAuth for any number of clients and tokens, any retry  *)
(* budget and with every fault it models: the types, that the password is   *)
(* discarded for good, that the stored token lives, and who is asked for    *)
(* credentials.  Without a fault the stored token is always the newest.     *)
(***************************************************************************)
EXTENDS TokenAuth, TLAPS

-----------------------------------------------------------------------------
(* Lemmas about the operators.                                             *)

\* A call is made by a poll or a service call of a client.
LEMMA TaskType ==
  ASSUME NEW t \in Task
  PROVE  t[1] \in Client /\ t[2] \in Kind /\ t = <<t[1], t[2]>>
BY DEF Task

LEMMA ClientsTask == ASSUME NEW c \in Client PROVE <<c, "poll">> \in Task /\ <<c, "service">> \in Task
BY DEF Task, Kind

\* The client and the call that are nobody's are of the types.
LEMMA IdleType == NoClient \in ClientState /\ Idle \in TaskState
BY TokenAssumption DEF NoClient, ClientState, Idle, TaskState, MaybeToken

\* What a task asks for is of the type.
LEMMA AsksType ==
  ASSUME NEW k \in TaskState, NEW r
  PROVE  Asks(k, r) \in TaskState
BY DEF Asks, TaskState

LEMMA PersistedType ==
  ASSUME NEW n \in MaybeToken
  PROVE  Persisted(n) \in [token : MaybeToken, password : BOOLEAN]
BY DEF Persisted

LEMMA WithoutType ==
  ASSUME TypeOK, NEW c
  PROVE  Without(c) \in [Task -> TaskState]
BY IdleType DEF Without, TypeOK

\* A call that fails leaves clients and calls behind.
LEMMA FailsType ==
  ASSUME TypeOK, NEW t \in Task, Fails(t)
  PROVE  client' \in [Client -> ClientState] /\ task' \in [Task -> TaskState]
<1>1. CASE task[t].setup
  BY <1>1, IdleType, WithoutType DEF TypeOK, Fails
<1>2. CASE ~task[t].setup
  <2>1. task' \in [Task -> TaskState]
    BY <1>2, IdleType DEF TypeOK, Fails
  <2>2. client[t[1]] \in ClientState
    BY TaskType DEF TypeOK
  <2>3. [client[t[1]] EXCEPT !.lock = IF @ = t THEN NoTask ELSE @] \in ClientState
    BY <2>2 DEF ClientState
  <2>. QED  BY <1>2, <2>1, <2>3, TaskType DEF TypeOK, Fails
<1>. QED  BY <1>1, <1>2

\* A task that takes the lock stays one, and so does its client.
LEMMA AuthenticateType ==
  ASSUME TypeOK, NEW t \in Task, Authenticate(t)
  PROVE  client' \in [Client -> ClientState] /\ task' \in [Task -> TaskState]
<1>1. task[t] \in TaskState /\ client[t[1]] \in ClientState
  BY TaskType DEF TypeOK
<1>2. [client[t[1]] EXCEPT !.lock = t] \in ClientState
  BY <1>1 DEF ClientState
<1>3. Asks(task[t], client[t[1]].refresh) \in TaskState
  BY <1>1, AsksType
<1>. QED  BY <1>2, <1>3, TaskType DEF TypeOK, Authenticate, Of

-----------------------------------------------------------------------------
(* Type correctness.                                                       *)

LEMMA TypeInit == Init => TypeOK
<1>. SUFFICES ASSUME Init PROVE TypeOK
  OBVIOUS
<1>1. CASE entry = [token |-> NoToken, password |-> TRUE] /\ live = {}
  BY <1>1, IdleType DEF Init, TypeOK, MaybeToken
<1>2. ASSUME NEW n \in Token, entry \in [token : {n}, password : BOOLEAN], live = {n}
      PROVE  TypeOK
  <2>1. PICK b \in BOOLEAN : entry = [token |-> n, password |-> b]
    BY <1>2
  <2>2. entry \in [token : MaybeToken, password : BOOLEAN]
    BY <2>1 DEF MaybeToken
  <2>. QED  BY <1>2, <2>2, IdleType DEF Init, TypeOK
<1>. QED  BY <1>1, <1>2 DEF Init

LEMMA TypeNext == TypeOK /\ [Next]_vars => TypeOK'
<1>. SUFFICES ASSUME TypeOK, [Next]_vars PROVE TypeOK'
  OBVIOUS
<1>1. ASSUME NEW c \in Client, Setup(c) PROVE TypeOK'
  <2>1. [phase |-> "setup", refresh |-> entry.token, password |-> entry.password,
         access |-> FALSE, lock |-> <<c, "poll">>] \in ClientState
    BY ClientsTask DEF ClientState, TypeOK
  <2>2. [Idle EXCEPT !.setup = TRUE] \in TaskState
    BY IdleType DEF TaskState
  <2>3. Asks([Idle EXCEPT !.setup = TRUE], entry.token) \in TaskState
    BY <2>2, AsksType
  <2>. QED  BY <1>1, <2>1, <2>3 DEF Setup, TypeOK, marketVars
<1>2. ASSUME NEW c \in Client, Unload(c) \/ SetupCancelled(c) PROVE TypeOK'
  <2>1. /\ client' = [client EXCEPT ![c] = NoClient] /\ task' = Without(c)
        /\ UNCHANGED <<live, account, entry, reauth>>
        /\ exposed' = (exposed \/ Costly({c} \X Kind))
    BY <1>2 DEF Unload, SetupCancelled, marketVars
  <2>2. exposed' \in BOOLEAN
    BY <2>1 DEF Costly, TypeOK
  <2>. QED  BY <2>1, <2>2, IdleType, WithoutType DEF TypeOK
<1>3. ASSUME NEW c \in Client, UnloadInFlight(c) \/ Forget(c) \/ Expire(c) PROVE TypeOK'
  <2>1. client[c] \in ClientState
    BY DEF TypeOK
  <2>2. /\ [client[c] EXCEPT !.phase = "old"] \in ClientState
        /\ [client[c] EXCEPT !.access = FALSE] \in ClientState
    BY <2>1 DEF ClientState
  <2>. QED  BY <1>3, <2>2, IdleType DEF UnloadInFlight, Forget, Expire, TypeOK, marketVars
<1>4. ASSUME Restart PROVE TypeOK'
  BY <1>4, IdleType DEF Restart, Costly, TypeOK, marketVars
<1>5. ASSUME NEW t \in Task, BeginCall(t) PROVE TypeOK'
  <2>1. [task[t] EXCEPT !.at = "ensure"] \in TaskState
    BY DEF TypeOK, TaskState
  <2>. QED  BY <1>5, <2>1 DEF BeginCall, TypeOK, marketVars
<1>6. ASSUME NEW t \in Task, EnsureToken(t) PROVE TypeOK'
  <2>1. [task[t] EXCEPT !.at = "call"] \in TaskState
    BY DEF TypeOK, TaskState
  <2>. QED  BY <1>6, <2>1, AuthenticateType DEF EnsureToken, TypeOK, marketVars
<1>7. ASSUME NEW t \in Task, ForceToken(t) PROVE TypeOK'
  BY <1>7, AuthenticateType DEF ForceToken, TypeOK, marketVars
<1>8. ASSUME NEW t \in Task, TokenGranted(t) PROVE TypeOK'
  <2>1. PICK n \in Token :
          /\ live' \subseteq Token
          /\ task' = [task EXCEPT ![t] = [@ EXCEPT !.at = "granted", !.got = n]]
    BY <1>8 DEF TokenGranted, Accepted, TypeOK
  <2>2. [task[t] EXCEPT !.at = "granted", !.got = n] \in TaskState
    BY DEF TypeOK, TaskState, MaybeToken
  <2>. QED  BY <1>8, <2>1, <2>2 DEF TokenGranted, TypeOK
<1>9. ASSUME NEW t \in Task, TokenRefused(t) PROVE TypeOK'
  <2>1. [task[t] EXCEPT !.at = "refused"] \in TaskState
    BY DEF TypeOK, TaskState
  <2>. QED  BY <1>9, <2>1 DEF TokenRefused, TypeOK, marketVars
<1>10. ASSUME NEW t \in Task, ReceiveToken(t) PROVE TypeOK'
  <2>1. task[t] \in TaskState /\ client[t[1]] \in ClientState
    BY TaskType DEF TypeOK
  <2>2. task[t].got \in MaybeToken
    BY <2>1 DEF TaskState
  <2>3. Renewed(client[t[1]], task[t].got) \in ClientState
    BY <2>1, <2>2 DEF ClientState, Renewed
  <2>4. [task[t] EXCEPT !.at = "call", !.grant = "refresh", !.got = NoToken] \in TaskState
    BY <2>1 DEF TaskState, MaybeToken
  <2>5. client' \in [Client -> ClientState]
    BY <1>10, <2>3, TaskType DEF ReceiveToken, TypeOK
  <2>7. task' \in [Task -> TaskState]
    BY <1>10, <2>4, IdleType DEF ReceiveToken, TypeOK
  <2>6. entry' \in [token : MaybeToken, password : BOOLEAN]
    BY <1>10, <2>2, PersistedType DEF ReceiveToken, TypeOK
  <2>. QED  BY <1>10, <2>5, <2>6, <2>7 DEF ReceiveToken, Settled, TypeOK, marketVars
<1>11. ASSUME NEW t \in Task, ReceiveRefusal(t) PROVE TypeOK'
  <2>1. [task[t] EXCEPT !.at = "token", !.grant = "password"] \in TaskState
    BY DEF TypeOK, TaskState
  <2>. QED  BY <1>11, <2>1, FailsType DEF ReceiveRefusal, TypeOK, marketVars
<1>12. ASSUME NEW t \in Task, RequestFails(t) PROVE TypeOK'
  BY <1>12, FailsType DEF RequestFails, Costly, TypeOK, marketVars
<1>13. ASSUME NEW t \in Task, CallAnswered(t) PROVE TypeOK'
  <2>1. Of(t).refresh \in MaybeToken
    BY TaskType DEF TypeOK, Of, ClientState
  <2>. QED  BY <1>13, <2>1, PersistedType, IdleType DEF CallAnswered, TypeOK, marketVars
<1>14. ASSUME NEW t \in Task, CallUnauthorized(t) PROVE TypeOK'
  <2>1. task[t] \in TaskState /\ 0 \in 0 .. MaxRetries
    BY TokenAssumption DEF TypeOK
  <2>2. [task[t] EXCEPT !.at = "force", !.again = FALSE, !.tries = 0] \in TaskState
    BY <2>1 DEF TaskState
  <2>. QED  BY <1>14, <2>2, FailsType DEF CallUnauthorized, TypeOK, marketVars
<1>15. ASSUME NEW t \in Task, CallLimited(t) PROVE TypeOK'
  <2>1. CASE TriesLeft(task[t])
    <3>1. task[t] \in TaskState /\ task[t].tries + 1 \in 0 .. MaxRetries
      BY <2>1, TokenAssumption DEF TypeOK, TaskState, TriesLeft
    <3>2. [task[t] EXCEPT !.tries = @ + 1] \in TaskState
      BY <3>1 DEF TaskState
    <3>. QED  BY <1>15, <2>1, <3>2 DEF CallLimited, TypeOK, marketVars
  <2>2. CASE ~TriesLeft(task[t])
    BY <1>15, <2>2, FailsType DEF CallLimited, TypeOK, marketVars
  <2>. QED  BY <2>1, <2>2
<1>16. ASSUME CredentialsGiven PROVE TypeOK'
  <2>1. PICK n \in Token : entry' = Persisted(n) /\ live' = Accepted \cup {n}
    BY <1>16 DEF CredentialsGiven
  <2>. QED  BY <1>16, <2>1, PersistedType DEF CredentialsGiven, Accepted, MaybeToken, TypeOK
<1>17. ASSUME Revoke PROVE TypeOK'
  BY <1>17 DEF Revoke, TypeOK
<1>18. CASE UNCHANGED vars
  BY <1>18 DEF vars, TypeOK
<1>. QED
  BY <1>1, <1>2, <1>3, <1>4, <1>5, <1>6, <1>7, <1>8, <1>9, <1>10, <1>11, <1>12, <1>13, <1>14,
     <1>15, <1>16, <1>17, <1>18 DEF Next, Step

\* Every state of the entry, its clients and their calls is of the types.
THEOREM TypeCorrect == Spec => []TypeOK
BY TypeInit, TypeNext, PTL DEF Spec

-----------------------------------------------------------------------------
(* The lock and the setup.                                                 *)

\* Who has asked for a token holds the lock of its client, and a granted one is
\* a token; a client that is set up makes one call, which is the setup's, and
\* one that is gone makes none.
CallOK(t) ==
  /\ task[t].at \in {"token", "granted", "refused"} => Of(t).lock = t
  /\ task[t].at = "granted" => task[t].got \in Token
  /\ task[t].setup => /\ Of(t).phase = "setup"
                      /\ task[t].at \in {"token", "granted", "refused"}
  /\ Of(t).phase = "setup" /\ Busy(t) => task[t].setup
  /\ Of(t).phase = "none" => ~Busy(t)

CallInv == \A t \in Task : CallOK(t)

LEMMA CallInit == Init => CallInv
BY TaskType DEF Init, CallInv, CallOK, Of, Busy, Idle, NoClient

\* When client c is gone, with its calls, everything else is as it was.
LEMMA CallGone ==
  ASSUME TypeOK, CallInv, NEW c \in Client,
         client' = [client EXCEPT ![c] = NoClient],
         task' = Without(c) \/ (UNCHANGED task /\ \A k \in Kind : ~Busy(<<c, k>>))
  PROVE  CallInv'
<1>. SUFFICES ASSUME NEW s \in Task PROVE CallOK(s)'
  BY DEF CallInv
<1>1. CallOK(s) /\ s[1] \in Client /\ s[2] \in Kind /\ s = <<s[1], s[2]>>
  BY TaskType DEF CallInv
<1>2. CASE s[1] = c
  <2>1. task'[s].at = "idle" /\ ~task'[s].setup
    BY <1>1, <1>2 DEF Without, Idle, CallOK, Busy, TypeOK, TaskState
  <2>2. client'[c] = NoClient
    BY DEF TypeOK
  <2>. QED  BY <1>2, <2>1, <2>2 DEF CallOK, Of, Busy, NoClient
<1>3. CASE s[1] # c
  BY <1>1, <1>3 DEF Without, CallOK, Of, Busy, TypeOK
<1>. QED  BY <1>2, <1>3

\* When a task changes, and its client's lock only from or to its own, the other
\* tasks are as they were.
LEMMA CallOthers ==
  ASSUME TypeOK, CallInv, NEW t \in Task, NEW s \in Task, s # t,
         task'[s] = task[s],
         \A c \in Client : c # t[1] => client'[c] = client[c],
         client'[t[1]].phase = client[t[1]].phase,
         client'[t[1]].lock = client[t[1]].lock \/ client[t[1]].lock \in {t, NoTask}
  PROVE  CallOK(s)'
<1>1. CallOK(s) /\ s[1] \in Client
  BY TaskType DEF CallInv
<1>2. s # NoTask
  BY TokenAssumption
<1>3. CASE s[1] # t[1]
  BY <1>1, <1>3 DEF CallOK, Of, Busy
<1>4. CASE s[1] = t[1]
  BY <1>1, <1>2, <1>4 DEF CallOK, Of, Busy
<1>. QED  BY <1>3, <1>4

LEMMA CallFails ==
  ASSUME TypeOK, CallInv, NEW t \in Task, Fails(t), Busy(t)
  PROVE  CallInv'
<1>1. t[1] \in Client /\ task[t] \in TaskState /\ client[t[1]] \in ClientState /\ CallOK(t)
  BY TaskType DEF TypeOK, CallInv
<1>2. CASE task[t].setup
  BY <1>1, <1>2, CallGone DEF Fails
<1>3. CASE ~task[t].setup
  <2>. SUFFICES ASSUME NEW s \in Task PROVE CallOK(s)'
    BY DEF CallInv
  <2>1. PICK l : client' = [client EXCEPT ![t[1]] = [@ EXCEPT !.lock = l]]
                 /\ (l = client[t[1]].lock \/ client[t[1]].lock = t)
    BY <1>3 DEF Fails
  <2>2. /\ \A c \in Client : c # t[1] => client'[c] = client[c]
        /\ client'[t[1]].phase = client[t[1]].phase
        /\ client'[t[1]].lock = l
    BY <1>1, <2>1 DEF TypeOK, ClientState
  <2>3. task' = [task EXCEPT ![t] = Idle]
    BY <1>3 DEF Fails
  <2>4. CASE s = t
    BY <1>1, <1>3, <2>2, <2>3, <2>4 DEF CallOK, Of, Busy, Idle, TypeOK
  <2>5. CASE s # t
    <3>1. task'[s] = task[s]
      BY <2>3, <2>5 DEF TypeOK
    <3>. QED  BY <2>1, <2>2, <2>5, <3>1, CallOthers
  <2>. QED  BY <2>4, <2>5
<1>. QED  BY <1>2, <1>3

LEMMA CallAuthenticates ==
  ASSUME TypeOK, CallInv, NEW t \in Task, Authenticate(t), Busy(t)
  PROVE  CallInv'
<1>1. t[1] \in Client /\ task[t] \in TaskState /\ client[t[1]] \in ClientState /\ CallOK(t)
  BY TaskType DEF TypeOK, CallInv
<1>. SUFFICES ASSUME NEW s \in Task PROVE CallOK(s)'
  BY DEF CallInv
<1>2. /\ client' = [client EXCEPT ![t[1]] = [@ EXCEPT !.lock = t]]
      /\ task' = [task EXCEPT ![t] = Asks(@, Of(t).refresh)]
      /\ client[t[1]].lock = NoTask
  BY DEF Authenticate, Of
<1>3. /\ \A c \in Client : c # t[1] => client'[c] = client[c]
      /\ client'[t[1]].phase = client[t[1]].phase
      /\ client'[t[1]].lock = t
  BY <1>1, <1>2 DEF TypeOK, ClientState
<1>4. task'[t].at = "token" /\ task'[t].setup = task[t].setup
  BY <1>1, <1>2 DEF TypeOK, TaskState, Asks
<1>5. CASE s = t
  BY <1>1, <1>3, <1>4, <1>5 DEF CallOK, Of, Busy
<1>6. CASE s # t
  <2>1. task'[s] = task[s]
    BY <1>2, <1>6 DEF TypeOK
  <2>. QED  BY <1>2, <1>3, <1>6, <2>1, CallOthers
<1>. QED  BY <1>5, <1>6

\* A task that goes on by itself keeps what is said of it.
LEMMA CallGoesOn ==
  ASSUME TypeOK, CallInv, NEW t \in Task, NEW k \in TaskState, UNCHANGED client,
         task' = [task EXCEPT ![t] = k], Busy(t) \/ Of(t).phase = "up", k.setup = task[t].setup,
         k.at \in {"token", "granted", "refused"} =>
           task[t].at \in {"token", "granted", "refused"},
         k.setup => k.at \in {"token", "granted", "refused"},
         k.at = "granted" => k.got \in Token
  PROVE  CallInv'
<1>. SUFFICES ASSUME NEW s \in Task PROVE CallOK(s)'
  BY DEF CallInv
<1>1. t[1] \in Client /\ CallOK(t) /\ task'[t] = k
  BY TaskType DEF CallInv, TypeOK
<1>2. CASE s = t
  BY <1>1, <1>2 DEF CallOK, Of, Busy
<1>3. CASE s # t
  <2>1. task'[s] = task[s]
    BY <1>3 DEF TypeOK
  <2>. QED  BY <1>3, <2>1, CallOthers
<1>. QED  BY <1>2, <1>3

LEMMA CallNext == TypeOK /\ CallInv /\ [Next]_vars => CallInv'
<1>. SUFFICES ASSUME TypeOK, CallInv, [Next]_vars PROVE CallInv'
  OBVIOUS
<1>1. ASSUME NEW c \in Client, Setup(c) PROVE CallInv'
  <2>. SUFFICES ASSUME NEW s \in Task PROVE CallOK(s)'
    BY DEF CallInv
  <2>1. CallOK(s) /\ s[1] \in Client /\ s[2] \in Kind /\ s = <<s[1], s[2]>>
    BY TaskType DEF CallInv
  <2>2. /\ client'[c].phase = "setup" /\ client'[c].lock = <<c, "poll">>
        /\ \A d \in Client : d # c => client'[d] = client[d]
    BY <1>1 DEF Setup, TypeOK
  <2>3. /\ task'[<<c, "poll">>].at = "token" /\ task'[<<c, "poll">>].setup
        /\ s # <<c, "poll">> => task'[s] = task[s]
    BY <1>1, ClientsTask DEF Setup, TypeOK, Asks, Idle
  <2>4. CASE s = <<c, "poll">>
    BY <2>2, <2>3, <2>4 DEF CallOK, Of, Busy
  <2>5. CASE s # <<c, "poll">> /\ s[1] = c
    BY <1>1, <2>1, <2>2, <2>3, <2>5 DEF CallOK, Of, Busy, Setup
  <2>6. CASE s[1] # c
    BY <2>1, <2>2, <2>3, <2>6 DEF CallOK, Of, Busy
  <2>. QED  BY <2>4, <2>5, <2>6
<1>2. ASSUME NEW c \in Client, Unload(c) \/ SetupCancelled(c) \/ Forget(c) PROVE CallInv'
  BY <1>2, CallGone DEF Unload, SetupCancelled, Forget
<1>3. ASSUME NEW c \in Client, UnloadInFlight(c) \/ Expire(c) PROVE CallInv'
  <2>. SUFFICES ASSUME NEW s \in Task PROVE CallOK(s)'
    BY DEF CallInv
  <2>1. CallOK(s) /\ s[1] \in Client /\ client[c] \in ClientState /\ task' = task
    BY <1>3, TaskType DEF CallInv, TypeOK, UnloadInFlight, Expire
  <2>2. \A d \in Client : d # c => client'[d] = client[d]
    BY <1>3 DEF UnloadInFlight, Expire, TypeOK
  <2>3. /\ client'[c].lock = client[c].lock
        /\ \/ client'[c].phase = client[c].phase
           \/ client[c].phase = "up" /\ client'[c].phase = "old"
    BY <1>3, <2>1 DEF UnloadInFlight, Expire, TypeOK, ClientState
  <2>4. CASE s[1] = c
    BY <2>1, <2>3, <2>4 DEF CallOK, Of, Busy
  <2>5. CASE s[1] # c
    BY <2>1, <2>2, <2>5 DEF CallOK, Of, Busy
  <2>. QED  BY <2>4, <2>5
<1>4. ASSUME Restart PROVE CallInv'
  BY <1>4, TaskType DEF Restart, CallInv, CallOK, Of, Busy, Idle, NoClient
<1>5. ASSUME NEW t \in Task, BeginCall(t) PROVE CallInv'
  <2>1. task[t] \in TaskState /\ CallOK(t)
    BY DEF TypeOK, CallInv
  <2>. DEFINE K == [task[t] EXCEPT !.at = "ensure"]
  <2>2. K \in TaskState /\ K.at = "ensure" /\ K.setup = task[t].setup /\ ~task[t].setup
    BY <1>5, <2>1 DEF TaskState, CallOK, BeginCall
  <2>3. task' = [task EXCEPT ![t] = K] /\ UNCHANGED client /\ Of(t).phase = "up"
    BY <1>5 DEF BeginCall
  <2>. HIDE DEF K
  <2>. QED  BY <2>2, <2>3, CallGoesOn
<1>6. ASSUME NEW t \in Task, EnsureToken(t) PROVE CallInv'
  <2>1. task[t] \in TaskState /\ CallOK(t) /\ Busy(t)
    BY <1>6 DEF TypeOK, CallInv, EnsureToken, Busy
  <2>2. CASE Of(t).access
    <3>. DEFINE K == [task[t] EXCEPT !.at = "call"]
    <3>1. K \in TaskState /\ K.at = "call" /\ K.setup = task[t].setup /\ ~task[t].setup
      BY <1>6, <2>1 DEF TaskState, CallOK, EnsureToken
    <3>2. task' = [task EXCEPT ![t] = K] /\ UNCHANGED client
      BY <1>6, <2>2 DEF EnsureToken
    <3>. HIDE DEF K
    <3>. QED  BY <2>1, <3>1, <3>2, CallGoesOn
  <2>3. CASE ~Of(t).access
    BY <1>6, <2>1, <2>3, CallAuthenticates DEF EnsureToken
  <2>. QED  BY <2>2, <2>3
<1>7. ASSUME NEW t \in Task, ForceToken(t) PROVE CallInv'
  BY <1>7, CallAuthenticates DEF ForceToken, Busy
<1>8. ASSUME NEW t \in Task, TokenGranted(t) PROVE CallInv'
  <2>1. task[t] \in TaskState /\ CallOK(t) /\ Busy(t) /\ task[t].at = "token"
    BY <1>8 DEF TypeOK, CallInv, TokenGranted, Busy
  <2>2. PICK n \in Token : task' = [task EXCEPT ![t] = [@ EXCEPT !.at = "granted", !.got = n]]
    BY <1>8 DEF TokenGranted
  <2>. DEFINE K == [task[t] EXCEPT !.at = "granted", !.got = n]
  <2>3. K \in TaskState /\ K.at = "granted" /\ K.got = n /\ K.setup = task[t].setup
    BY <2>1 DEF TaskState, MaybeToken
  <2>4. task' = [task EXCEPT ![t] = K] /\ UNCHANGED client
    BY <1>8, <2>2 DEF TokenGranted
  <2>. HIDE DEF K
  <2>. QED  BY <2>1, <2>3, <2>4, CallGoesOn
<1>9. ASSUME NEW t \in Task, TokenRefused(t) PROVE CallInv'
  <2>1. task[t] \in TaskState /\ CallOK(t) /\ Busy(t) /\ task[t].at = "token"
    BY <1>9 DEF TypeOK, CallInv, TokenRefused, Busy
  <2>. DEFINE K == [task[t] EXCEPT !.at = "refused"]
  <2>2. K \in TaskState /\ K.at = "refused" /\ K.setup = task[t].setup
    BY <2>1 DEF TaskState
  <2>3. task' = [task EXCEPT ![t] = K] /\ UNCHANGED client
    BY <1>9 DEF TokenRefused
  <2>. HIDE DEF K
  <2>. QED  BY <2>1, <2>2, <2>3, CallGoesOn
<1>10. ASSUME NEW t \in Task, ReceiveToken(t) PROVE CallInv'
  <2>. SUFFICES ASSUME NEW s \in Task PROVE CallOK(s)'
    BY DEF CallInv
  <2>1. /\ task[t] \in TaskState /\ CallOK(t) /\ task[t].at = "granted"
        /\ t[1] \in Client /\ client[t[1]] \in ClientState
    BY <1>10, TaskType DEF TypeOK, CallInv, ReceiveToken
  <2>2. client' = [client EXCEPT ![t[1]] = Renewed(@, task[t].got)]
    BY <1>10 DEF ReceiveToken
  <2>3. /\ \A c \in Client : c # t[1] => client'[c] = client[c]
        /\ client'[t[1]].phase =
             IF client[t[1]].phase = "setup" THEN "up" ELSE client[t[1]].phase
        /\ client'[t[1]].lock = NoTask
    BY <2>1, <2>2 DEF TypeOK, ClientState, Renewed
  <2>4. task'[t].at \in {"idle", "call"} /\ ~task'[t].setup
    BY <1>10, <2>1 DEF ReceiveToken, TypeOK, TaskState, Idle
  <2>5. s # t => task'[s] = task[s]
    BY <1>10 DEF ReceiveToken, TypeOK
  <2>6. client'[t[1]].phase # "setup" /\ client'[t[1]].phase # "none"
    BY <2>1, <2>3 DEF CallOK, Of, Busy
  <2>7. CASE s = t
    BY <2>4, <2>6, <2>7 DEF CallOK, Of, Busy
  <2>8. CASE s # t /\ s[1] = t[1]
    <3>1. CallOK(s) /\ Of(s) = Of(t) /\ Of(t).lock = t
      BY <2>1, <2>8 DEF CallInv, CallOK, Of
    <3>2. task[s].at \notin {"token", "granted", "refused"} /\ ~task[s].setup
      BY <2>8, <3>1 DEF CallOK
    <3>. QED  BY <2>5, <2>6, <2>8, <3>2 DEF CallOK, Of, Busy
  <2>9. CASE s[1] # t[1]
    BY <2>3, <2>5, <2>9, TaskType DEF CallInv, CallOK, Of, Busy
  <2>. QED  BY <2>7, <2>8, <2>9
<1>11. ASSUME NEW t \in Task, ReceiveRefusal(t) PROVE CallInv'
  <2>1. task[t] \in TaskState /\ CallOK(t) /\ Busy(t) /\ task[t].at = "refused"
    BY <1>11 DEF TypeOK, CallInv, ReceiveRefusal, Busy
  <2>. DEFINE K == [task[t] EXCEPT !.at = "token", !.grant = "password"]
  <2>2. CASE Fails(t)
    BY <2>1, <2>2, CallFails
  <2>3. CASE task' = [task EXCEPT ![t] = K] /\ UNCHANGED client
    <3>1. K \in TaskState /\ K.at = "token" /\ K.setup = task[t].setup
      BY <2>1 DEF TaskState
    <3>. HIDE DEF K
    <3>. QED  BY <2>1, <2>3, <3>1, CallGoesOn
  <2>. QED  BY <1>11, <2>2, <2>3 DEF ReceiveRefusal
<1>12. ASSUME NEW t \in Task, RequestFails(t) PROVE CallInv'
  BY <1>12, CallFails DEF RequestFails, Busy
<1>13. ASSUME NEW t \in Task, CallAnswered(t) PROVE CallInv'
  <2>1. CallOK(t) /\ Busy(t) /\ task[t].setup = FALSE
    BY <1>13 DEF CallInv, CallOK, CallAnswered, Busy, TypeOK, TaskState
  <2>2. /\ Idle \in TaskState /\ Idle.at = "idle" /\ Idle.setup = task[t].setup
        /\ task' = [task EXCEPT ![t] = Idle] /\ UNCHANGED client
    BY <1>13, <2>1, IdleType DEF CallAnswered, Idle
  <2>. QED  BY <2>1, <2>2, CallGoesOn
<1>14. ASSUME NEW t \in Task, CallUnauthorized(t) \/ CallLimited(t) PROVE CallInv'
  <2>1. task[t] \in TaskState /\ CallOK(t) /\ Busy(t) /\ ~task[t].setup /\ task[t].at = "call"
    BY <1>14 DEF TypeOK, CallInv, CallOK, CallUnauthorized, CallLimited, Busy
  <2>2. CASE Fails(t)
    BY <2>1, <2>2, CallFails
  <2>3. ASSUME ~Fails(t) PROVE CallInv'
    <3>. DEFINE K == task'[t]
    <3>1. /\ UNCHANGED client /\ task' = [task EXCEPT ![t] = K]
          /\ K.at \in {"force", "call"} /\ K.setup = task[t].setup
      BY <1>14, <2>1, <2>3 DEF CallUnauthorized, CallLimited, TypeOK, TaskState
    <3>2. K \in TaskState
      BY TypeNext DEF TypeOK
    <3>. HIDE DEF K
    <3>. QED  BY <2>1, <3>1, <3>2, CallGoesOn
  <2>. QED  BY <2>2, <2>3
<1>15. ASSUME CredentialsGiven \/ Revoke PROVE CallInv'
  BY <1>15 DEF CredentialsGiven, Revoke, CallInv, CallOK, Of, Busy
<1>16. CASE UNCHANGED vars
  BY <1>16 DEF vars, CallInv, CallOK, Of, Busy
<1>. QED
  BY <1>1, <1>2, <1>3, <1>4, <1>5, <1>6, <1>7, <1>8, <1>9, <1>10, <1>11, <1>12, <1>13, <1>14,
     <1>15, <1>16 DEF Next, Step

-----------------------------------------------------------------------------
(* The password.                                                           *)

\* What is written into the entry never has a password, and a setup writes.
LEMMA PasswordNext ==
  TypeOK /\ CallInv /\ PasswordDiscarded /\ [Next]_vars => PasswordDiscarded'
<1>. SUFFICES ASSUME TypeOK, CallInv, PasswordDiscarded, [Next]_vars,
                     NEW c \in Client, client'[c].phase \in {"up", "old"}
              PROVE  ~entry'.password
  BY DEF PasswordDiscarded
<1>. DEFINE Used(d) == client[d].phase \in {"up", "old"}
<1>0. Used(c) => ~entry.password
  BY DEF PasswordDiscarded
<1>1. ASSUME NEW d \in Client,
             Setup(d) \/ Unload(d) \/ SetupCancelled(d) \/ Forget(d)
      PROVE  Used(c) /\ entry' = entry
  BY <1>1 DEF Setup, Unload, SetupCancelled, Forget, TypeOK, NoClient
<1>2. ASSUME NEW d \in Client, UnloadInFlight(d) \/ Expire(d)
      PROVE  Used(c) /\ entry' = entry
  BY <1>2 DEF UnloadInFlight, Expire, TypeOK, ClientState
<1>3. ASSUME Restart PROVE FALSE
  BY <1>3 DEF Restart, NoClient
<1>4. ASSUME NEW t \in Task, BeginCall(t) \/ TokenGranted(t) \/ TokenRefused(t) \/ CallAnswered(t)
      PROVE  Used(c) /\ (entry' = entry \/ ~entry'.password)
  BY <1>4 DEF BeginCall, TokenGranted, TokenRefused, CallAnswered, Persisted
<1>5. ASSUME NEW t \in Task, Authenticate(t) PROVE Used(c)
  BY <1>5, TaskType DEF Authenticate, TypeOK, ClientState
<1>6. ASSUME NEW t \in Task, Fails(t) PROVE Used(c)
  <2>1. CASE task[t].setup
    BY <1>6, <2>1, TaskType DEF Fails, TypeOK, NoClient
  <2>2. CASE ~task[t].setup
    <3>1. PICK l : client' = [client EXCEPT ![t[1]] = [@ EXCEPT !.lock = l]]
      BY <1>6, <2>2 DEF Fails
    <3>. QED  BY <3>1, TaskType DEF TypeOK, ClientState
  <2>. QED  BY <2>1, <2>2
<1>7. ASSUME NEW t \in Task, EnsureToken(t) \/ ForceToken(t)
      PROVE  Used(c) /\ entry' = entry
  BY <1>5, <1>7 DEF EnsureToken, ForceToken
<1>8. ASSUME NEW t \in Task, ReceiveToken(t) PROVE ~entry'.password
  <2>1. CASE task[t].setup
    BY <1>8, <2>1 DEF ReceiveToken, Stores, Persisted
  <2>2. CASE ~task[t].setup
    <3>1. client[t[1]].phase # "setup"
      BY <1>8, <2>2 DEF CallInv, CallOK, Of, Busy, ReceiveToken
    <3>2. Renewed(client[t[1]], task[t].got).phase = client[t[1]].phase
      BY <3>1, TaskType DEF Renewed, TypeOK, ClientState
    <3>3. Used(c)
      BY <1>8, <3>2, TaskType DEF ReceiveToken, TypeOK
    <3>. QED  BY <1>0, <1>8, <3>3 DEF ReceiveToken, Persisted
  <2>. QED  BY <2>1, <2>2
<1>9. ASSUME NEW t \in Task,
             ReceiveRefusal(t) \/ RequestFails(t) \/ CallUnauthorized(t) \/ CallLimited(t)
      PROVE  Used(c) /\ entry' = entry
  BY <1>6, <1>9 DEF ReceiveRefusal, RequestFails, CallUnauthorized, CallLimited
<1>10. ASSUME CredentialsGiven PROVE ~entry'.password
  BY <1>10 DEF CredentialsGiven, Persisted
<1>11. CASE Revoke \/ UNCHANGED vars
  BY <1>0, <1>11 DEF Revoke, vars
<1>. HIDE DEF Used
<1>. QED
  BY <1>0, <1>1, <1>2, <1>3, <1>4, <1>7, <1>8, <1>9, <1>10, <1>11 DEF Next, Step

\* PasswordDiscarded holds in every state, whatever clients come and go.
THEOREM PasswordIsDiscarded == Spec => []PasswordDiscarded
<1>1. Init => PasswordDiscarded
  BY DEF Init, PasswordDiscarded, NoClient
<1>. QED  BY <1>1, TypeInit, TypeNext, CallInit, CallNext, PasswordNext, PTL DEF Spec

-----------------------------------------------------------------------------
(* The stored token.                                                       *)

\* Nothing happened that can cost the entry its token: one client at most, with
\* the token of the entry, which the marketplace accepts or is replacing.
TokenInv ==
  ~exposed =>
    /\ \A c, d \in Running : c = d
    /\ \A c \in Running : /\ client[c].phase # "old"
                          /\ client[c].refresh = entry.token
                          /\ client[c].refresh = NoToken => client[c].password
    /\ entry.token = NoToken => entry.password /\ account
    /\ entry.token # NoToken => entry.token \in live \/ Costly(Task)
    /\ \A t \in Task : task[t].at = "granted" => task[t].got \in live

LEMMA TokenInit == Init => TokenInv
<1>. SUFFICES ASSUME Init PROVE TokenInv
  OBVIOUS
<1>1. Running = {} /\ \A t \in Task : task[t].at # "granted"
  BY DEF Init, Running, NoClient, Idle
<1>2. CASE entry = [token |-> NoToken, password |-> TRUE]
  BY <1>1, <1>2 DEF Init, TokenInv
<1>3. CASE \E n \in Token : entry \in [token : {n}, password : BOOLEAN] /\ live = {n}
  <2>1. entry.token \in live /\ entry.token # NoToken
    BY <1>3, TokenAssumption
  <2>. QED  BY <1>1, <2>1 DEF TokenInv
<1>. QED  BY <1>2, <1>3 DEF Init

\* A call is one of a client that runs.
LEMMA BusyRuns ==
  ASSUME CallInv, NEW t \in Task, Busy(t)
  PROVE  t[1] \in Running
BY TaskType DEF CallInv, CallOK, Of, Running

\* Only one task of the clients that run can be asking for a token.
LEMMA OneAsks ==
  ASSUME TypeOK, CallInv, NEW s \in Task, NEW t \in Task,
         \A c, d \in Running : c = d,
         task[s].at \in {"token", "granted", "refused"},
         task[t].at \in {"token", "granted", "refused"}
  PROVE  s = t
<1>1. s[1] \in Running /\ t[1] \in Running
  BY TaskType DEF CallInv, CallOK, Of, Busy, Running
<1>. QED  BY <1>1 DEF CallInv, CallOK, Of

\* What happens to one client and its calls, and loses no answer, keeps the
\* token as it is.
LEMMA TokenKept ==
  ASSUME TypeOK, TokenInv, ~exposed,
         UNCHANGED <<live, account, entry>>,
         \A c \in Client :
           \/ client'[c].phase = "none"
           \/ /\ client[c].phase # "none" /\ client'[c].phase = client[c].phase
              /\ client'[c].refresh = client[c].refresh
              /\ client'[c].password = client[c].password,
         \A t \in Task : task'[t].at = "granted" =>
           task[t].at = "granted" /\ task'[t].got = task[t].got,
         ~Costly(Task) \/ Costly(Task)'
  PROVE  TokenInv'
BY DEF TokenInv, Running

\* Those of the tasks whose answers are left alone can still be costly.
LEMMA CostlyKept ==
  ASSUME TypeOK, CallInv, NEW T \in SUBSET Task, ~Costly(T),
         \A t \in Task \ T : task'[t] = task[t] /\ client'[t[1]].refresh = client[t[1]].refresh
  PROVE  ~Costly(Task) \/ Costly(Task)'
BY DEF Costly, Of

LEMMA TokenFails ==
  ASSUME TypeOK, CallInv, TokenInv, ~exposed, NEW t \in Task, Fails(t), ~Costly({t}),
         UNCHANGED <<live, account, entry>>
  PROVE  TokenInv'
<1>1. CASE task[t].setup
  <2>1. /\ client' = [client EXCEPT ![t[1]] = NoClient]
        /\ task' = Without(t[1])
    BY <1>1 DEF Fails
  <2>2. \A s \in Task : task[s].at = "granted" /\ s[1] = t[1] => s = t
    BY <1>1 DEF CallInv, CallOK, Of
  <2>3. ~Costly({s \in Task : s[1] = t[1]})
    BY <2>2 DEF Costly
  <2>4. \A s \in Task \ {q \in Task : q[1] = t[1]} :
          task'[s] = task[s] /\ client'[s[1]] = client[s[1]]
    BY <2>1, TaskType DEF Without, TypeOK
  <2>5. ~Costly(Task) \/ Costly(Task)'
    BY <2>3, <2>4, CostlyKept
  <2>6. \A c \in Client : client'[c] = client[c] \/ client'[c].phase = "none"
    BY <2>1 DEF TypeOK, NoClient
  <2>7. \A s \in Task : task'[s].at = "granted" => task'[s] = task[s]
    BY <2>1 DEF Without, Idle
  <2>. QED  BY <2>5, <2>6, <2>7, TokenKept
<1>2. CASE ~task[t].setup
  <2>1. PICK l : client' = [client EXCEPT ![t[1]] = [@ EXCEPT !.lock = l]]
    BY <1>2 DEF Fails
  <2>2. task' = [task EXCEPT ![t] = Idle]
    BY <1>2 DEF Fails
  <2>3. \A c \in Client : /\ client'[c].phase = client[c].phase
                          /\ client'[c].refresh = client[c].refresh
                          /\ client'[c].password = client[c].password
    BY <2>1 DEF TypeOK, ClientState
  <2>4. \A s \in Task \ {t} : task'[s] = task[s]
    BY <2>2 DEF TypeOK
  <2>5. ~Costly(Task) \/ Costly(Task)'
    BY <2>3, <2>4, CostlyKept, TaskType
  <2>6. \A s \in Task : task'[s].at = "granted" => task'[s] = task[s]
    BY <2>2 DEF TypeOK, Idle
  <2>. QED  BY <2>3, <2>5, <2>6, TokenKept
<1>. QED  BY <1>1, <1>2

LEMMA TokenAuthenticates ==
  ASSUME TypeOK, CallInv, TokenInv, ~exposed, NEW t \in Task, Authenticate(t),
         task[t].at \in {"ensure", "force"}, UNCHANGED <<live, account, entry>>
  PROVE  TokenInv'
<1>1. /\ client' = [client EXCEPT ![t[1]] = [@ EXCEPT !.lock = t]]
      /\ task' = [task EXCEPT ![t] = Asks(@, Of(t).refresh)]
  BY DEF Authenticate
<1>2. \A c \in Client : /\ client'[c].phase = client[c].phase
                        /\ client'[c].refresh = client[c].refresh
                        /\ client'[c].password = client[c].password
  BY <1>1 DEF TypeOK, ClientState
<1>3. task'[t].at = "token" /\ \A s \in Task \ {t} : task'[s] = task[s]
  BY <1>1 DEF TypeOK, TaskState, Asks
<1>4. ~Costly({t})
  BY DEF Costly
<1>5. ~Costly(Task) \/ Costly(Task)'
  BY <1>2, <1>3, <1>4, CostlyKept, TaskType
<1>. QED  BY <1>2, <1>3, <1>5, TokenKept

\* An answer is all that counts of a task.
LEMMA TokenGoesOn ==
  ASSUME TypeOK, CallInv, TokenInv, ~exposed, NEW t \in Task, NEW k,
         UNCHANGED <<live, account, entry, client>>, task' = [task EXCEPT ![t] = k],
         task[t].at # "granted", k.at # "granted"
  PROVE  TokenInv'
<1>1. task'[t] = k /\ \A s \in Task \ {t} : task'[s] = task[s]
  BY DEF TypeOK
<1>2. ~Costly({t})
  BY DEF Costly
<1>3. ~Costly(Task) \/ Costly(Task)'
  BY <1>1, <1>2, CostlyKept
<1>4. \A s \in Task : task'[s].at = "granted" =>
        task[s].at = "granted" /\ task'[s].got = task[s].got
  BY <1>1
<1>. QED  BY <1>3, <1>4, TokenKept

\* A client that is gone with its calls costs nothing unless an answer is lost.
LEMMA TokenGone ==
  ASSUME TypeOK, CallInv, TokenInv, ~exposed, NEW c \in Client,
         UNCHANGED <<live, account, entry>>, client' = [client EXCEPT ![c] = NoClient],
         \/ task' = Without(c) /\ ~Costly({c} \X Kind)
         \/ UNCHANGED task /\ \A k \in Kind : ~Busy(<<c, k>>)
  PROVE  TokenInv'
<1>1. \A d \in Client : d # c => client'[d] = client[d]
  BY DEF TypeOK
<1>2. client'[c].phase = "none"
  BY DEF TypeOK, NoClient
<1>3. \A s \in Task : task'[s].at = "granted" => task'[s] = task[s]
  BY DEF Without, Idle
<1>4. {c} \X Kind \subseteq Task /\ \A s \in Task \ ({c} \X Kind) : s[1] # c
  BY DEF Task
<1>5. \A s \in Task \ ({c} \X Kind) : task'[s] = task[s] /\ client'[s[1]] = client[s[1]]
  BY <1>1, <1>4, TaskType DEF Without
<1>6. ~Costly({c} \X Kind)
  BY DEF Costly, Busy
<1>7. ~Costly(Task) \/ Costly(Task)'
  BY <1>4, <1>5, <1>6, CostlyKept
<1>. QED  BY <1>1, <1>2, <1>3, <1>7, TokenKept

\* A token that comes while nothing was lost.
LEMMA TokenIsGranted ==
  ASSUME TypeOK, CallInv, TokenInv, ~exposed, NEW t \in Task, TokenGranted(t)
  PROVE  TokenInv'
<1>1. PICK n \in Token :
        /\ IF task[t].grant = "refresh"
           THEN live' = (Accepted \ {Of(t).refresh}) \cup {n}
           ELSE live' = Accepted \cup {n}
        /\ task' = [task EXCEPT ![t] = [@ EXCEPT !.at = "granted", !.got = n]]
  BY DEF TokenGranted
<1>2. /\ task'[t].at = "granted" /\ task'[t].got = n /\ task'[t].grant = task[t].grant
      /\ \A s \in Task : s # t => task'[s] = task[s]
  BY <1>1 DEF TypeOK, TaskState
<1>3. task[t].at = "token" /\ UNCHANGED <<account, entry, client, exposed>>
  BY DEF TokenGranted
<1>4. \A s \in Task : task'[s].at = "granted" => s = t
  BY <1>2, <1>3, OneAsks DEF TokenInv
<1>5. n \in live'
  BY <1>1
<1>6. ~Costly(Task)
  BY <1>3, OneAsks DEF TokenInv, Costly
<1>7. t[1] \in Running /\ client[t[1]].refresh = entry.token
  <2>1. t[1] \in Running
    BY <1>3, BusyRuns DEF Busy
  <2>. QED  BY <2>1 DEF TokenInv
<1>8. ASSUME entry.token # NoToken, entry.token \notin live' PROVE Costly(Task)'
  <2>1. entry.token \in Accepted
    BY <1>6, <1>8 DEF TokenInv, Accepted, Held
  <2>2. task[t].grant = "refresh" /\ n # entry.token
    BY <1>1, <1>8, <2>1
  <2>. QED  BY <1>2, <1>3, <1>7, <2>2 DEF Costly, Of
<1>. QED  BY <1>2, <1>3, <1>4, <1>5, <1>8 DEF TokenInv, Running

\* A token that reaches its client and the entry.
LEMMA TokenIsReceived ==
  ASSUME TypeOK, CallInv, TokenInv, NEW t \in Task, ReceiveToken(t)
  PROVE  TokenInv'
<1>. DEFINE n == task[t].got
<1>1. /\ task[t].at = "granted" /\ n \in Token /\ n # NoToken
      /\ t[1] \in Running /\ t[1] \in Client /\ client[t[1]] \in ClientState
  BY TaskType, TokenAssumption DEF ReceiveToken, CallInv, CallOK, Of, Busy, Running, TypeOK
<1>2. /\ client' = [client EXCEPT ![t[1]] = Renewed(@, n)]
      /\ entry' = IF Stores(t, n) THEN Persisted(n) ELSE entry
      /\ UNCHANGED <<live, account>>
      /\ exposed' = (exposed /\ ~Settled(t[1], n))
  BY DEF ReceiveToken, marketVars
<1>3. /\ \A c \in Client : c # t[1] => client'[c] = client[c]
      /\ client'[t[1]].refresh = n
      /\ client'[t[1]].phase # "none"
      /\ client[t[1]].phase # "old" => client'[t[1]].phase # "old"
  BY <1>1, <1>2 DEF TypeOK, ClientState, Renewed, Running
<1>4. /\ \A s \in Task : s # t => task'[s] = task[s]
      /\ task'[t].at # "granted"
  BY DEF ReceiveToken, TypeOK, TaskState, Idle
<1>5. SUFFICES ASSUME ~exposed' PROVE TokenInv'
  BY DEF TokenInv
<1>6. /\ Running = {t[1]} /\ client[t[1]].phase # "old"
      /\ entry'.token = n /\ n \in live
  <2>1. CASE exposed
    BY <1>2, <1>5, <2>1 DEF Settled
  <2>2. CASE ~exposed
    <3>1. client[t[1]].phase # "old" /\ client[t[1]].refresh = entry.token /\ n \in live
      BY <1>1, <2>2 DEF TokenInv
    <3>2. Running = {t[1]}
      BY <1>1, <2>2 DEF TokenInv
    <3>3. CASE Stores(t, n)
      BY <1>2, <3>1, <3>2, <3>3 DEF Persisted
    <3>4. CASE ~Stores(t, n)
      BY <1>2, <3>1, <3>2, <3>4 DEF Stores, Of
    <3>. QED  BY <3>3, <3>4
  <2>. QED  BY <2>1, <2>2
<1>7. Running' = {t[1]}
  BY <1>1, <1>3, <1>6 DEF Running
<1>8. \A s \in Task : task'[s].at # "granted"
  <2>. SUFFICES ASSUME NEW s \in Task, s # t, task[s].at = "granted" PROVE FALSE
    BY <1>4
  <2>. QED  BY <1>1, <1>6, OneAsks
<1>. QED  BY <1>1, <1>2, <1>3, <1>6, <1>7, <1>8 DEF TokenInv

\* Whoever takes over, the invariant stays.
LEMMA TokenNext == TypeOK /\ CallInv /\ TokenInv /\ [Next]_vars => TokenInv'
<1>. SUFFICES ASSUME TypeOK, CallInv, TokenInv, [Next]_vars, ~exposed' PROVE TokenInv'
  BY DEF TokenInv
<1>1. ASSUME NEW c \in Client, Setup(c) PROVE TokenInv'
  <2>1. ~exposed /\ UNCHANGED <<live, account, entry>>
    BY <1>1 DEF Setup, marketVars
  <2>2. Running = {}
    <3>1. \A d \in Running : d \in Client /\ client[d].phase # "none" /\ client[d].phase # "old"
      BY <2>1 DEF TokenInv, Running
    <3>2. \A d \in Client : client[d].phase \in {"none", "old"}
      BY <1>1 DEF Setup
    <3>. QED  BY <3>1, <3>2
  <2>3. /\ client'[c].refresh = entry.token /\ client'[c].password = entry.password
        /\ client'[c].phase = "setup"
        /\ \A d \in Client : d # c => client'[d] = client[d]
    BY <1>1 DEF Setup, TypeOK
  <2>4. Running' = {c}
    BY <2>2, <2>3 DEF Running
  <2>5. \A s \in Task : task[s].at # "granted"
    BY <2>2, TaskType DEF CallInv, CallOK, Of, Busy, Running
  <2>6. \A s \in Task : task'[s].at # "granted"
    BY <1>1, <2>5 DEF Setup, Asks, Idle, TypeOK
  <2>7. ~Costly(Task)
    BY <2>5 DEF Costly
  <2>8. \A d \in Running' : /\ client'[d].phase # "old"
                            /\ client'[d].refresh = entry'.token
                            /\ client'[d].refresh = NoToken => client'[d].password
    BY <2>1, <2>3, <2>4 DEF TokenInv
  <2>. QED  BY <2>1, <2>4, <2>6, <2>7, <2>8 DEF TokenInv
<1>2. ASSUME NEW c \in Client, Unload(c) \/ SetupCancelled(c) \/ Forget(c) PROVE TokenInv'
  <2>1. UNCHANGED <<live, account, entry>> /\ client' = [client EXCEPT ![c] = NoClient]
    BY <1>2 DEF Unload, SetupCancelled, Forget, marketVars
  <2>2. CASE Unload(c) \/ SetupCancelled(c)
    <3>1. task' = Without(c) /\ exposed' = (exposed \/ Costly({c} \X Kind))
      BY <2>2 DEF Unload, SetupCancelled
    <3>2. ~exposed /\ ~Costly({c} \X Kind)
      BY <3>1
    <3>. QED  BY <2>1, <3>1, <3>2, TokenGone
  <2>3. CASE Forget(c)
    <3>1. ~exposed /\ UNCHANGED task /\ \A k \in Kind : ~Busy(<<c, k>>)
      BY <2>3 DEF Forget
    <3>. QED  BY <2>1, <3>1, TokenGone
  <2>. QED  BY <1>2, <2>2, <2>3
<1>3. ASSUME NEW c \in Client, UnloadInFlight(c) PROVE FALSE
  BY <1>3 DEF UnloadInFlight
<1>4. ASSUME NEW c \in Client, Expire(c) PROVE TokenInv'
  <2>1. \A d \in Client : /\ client'[d].phase = client[d].phase
                          /\ client'[d].refresh = client[d].refresh
                          /\ client'[d].password = client[d].password
    BY <1>4 DEF Expire, TypeOK, ClientState
  <2>2. ~Costly(Task) \/ Costly(Task)'
    BY <1>4, <2>1, TaskType DEF Expire, Costly, Of
  <2>3. UNCHANGED <<live, account, entry, task, exposed>>
    BY <1>4 DEF Expire, marketVars
  <2>4. \A s \in Task : task'[s] = task[s]
    BY <2>3
  <2>. QED  BY <2>1, <2>2, <2>3, <2>4, TokenKept
<1>5. ASSUME Restart PROVE TokenInv'
  <2>1. ~exposed /\ ~Costly(Task) /\ UNCHANGED <<live, account, entry>>
    BY <1>5 DEF Restart, marketVars
  <2>2. /\ \A c \in Client : client'[c].phase = "none"
        /\ \A s \in Task : task'[s].at # "granted"
    BY <1>5 DEF Restart, NoClient, Idle
  <2>. QED  BY <2>1, <2>2, TokenKept
<1>6. ASSUME NEW t \in Task, BeginCall(t) PROVE TokenInv'
  <2>1. [task[t] EXCEPT !.at = "ensure"].at # "granted"
    BY DEF TypeOK, TaskState
  <2>. QED  BY <1>6, <2>1, TokenGoesOn DEF BeginCall, marketVars
<1>7. ASSUME NEW t \in Task, EnsureToken(t) \/ ForceToken(t) PROVE TokenInv'
  <2>1. [task[t] EXCEPT !.at = "call"].at # "granted"
    BY DEF TypeOK, TaskState
  <2>2. /\ task[t].at \in {"ensure", "force"} /\ ~exposed
        /\ UNCHANGED <<live, account, entry>>
    BY <1>7 DEF EnsureToken, ForceToken, marketVars
  <2>3. CASE Authenticate(t)
    BY <2>2, <2>3, TokenAuthenticates
  <2>4. CASE task' = [task EXCEPT ![t].at = "call"] /\ UNCHANGED client
    BY <2>1, <2>2, <2>4, TokenGoesOn
  <2>. QED  BY <1>7, <2>3, <2>4 DEF EnsureToken, ForceToken
<1>8. ASSUME NEW t \in Task, TokenGranted(t) PROVE TokenInv'
  BY <1>8, TokenIsGranted DEF TokenGranted
<1>9. ASSUME NEW t \in Task, TokenRefused(t) PROVE TokenInv'
  <2>1. [task[t] EXCEPT !.at = "refused"].at # "granted"
    BY DEF TypeOK, TaskState
  <2>. QED  BY <1>9, <2>1, TokenGoesOn DEF TokenRefused, marketVars
<1>10. ASSUME NEW t \in Task, ReceiveToken(t) PROVE TokenInv'
  BY <1>10, TokenIsReceived
<1>11. ASSUME NEW t \in Task, ReceiveRefusal(t) PROVE TokenInv'
  <2>1. [task[t] EXCEPT !.at = "token", !.grant = "password"].at # "granted"
    BY DEF TypeOK, TaskState
  <2>2. ~Costly({t}) /\ ~exposed
    BY <1>11 DEF Costly, ReceiveRefusal
  <2>3. CASE Fails(t)
    BY <1>11, <2>2, <2>3, TokenFails DEF ReceiveRefusal, marketVars
  <2>4. CASE task' = [task EXCEPT ![t].at = "token", ![t].grant = "password"] /\ UNCHANGED client
    BY <1>11, <2>1, <2>4, TokenGoesOn DEF ReceiveRefusal, marketVars
  <2>. QED  BY <1>11, <2>3, <2>4 DEF ReceiveRefusal
<1>12. ASSUME NEW t \in Task, RequestFails(t) PROVE TokenInv'
  BY <1>12, TokenFails DEF RequestFails, marketVars
<1>13. ASSUME NEW t \in Task, CallAnswered(t) PROVE TokenInv'
  <2>1. /\ task[t].at = "call" /\ ~exposed /\ UNCHANGED <<live, account, client>>
        /\ task' = [task EXCEPT ![t] = Idle]
    BY <1>13 DEF CallAnswered, marketVars
  <2>2. Of(t).refresh = entry.token
    <3>1. t[1] \in Running
      BY <2>1, BusyRuns DEF Busy
    <3>. QED  BY <2>1, <3>1 DEF TokenInv, Of
  <2>3. entry' = entry \/ (entry'.token = entry.token /\ entry.token # NoToken)
    BY <1>13, <2>2 DEF CallAnswered, Persisted
  <2>4. \A s \in Task : s # t => task'[s] = task[s]
    BY <2>1 DEF TypeOK
  <2>5. task'[t].at # "granted"
    BY <2>1 DEF TypeOK, Idle
  <2>6. ~Costly(Task) \/ Costly(Task)'
    BY <2>1, <2>4 DEF Costly, Of
  <2>. QED  BY <2>1, <2>3, <2>4, <2>5, <2>6 DEF TokenInv, Running
<1>14. ASSUME NEW t \in Task, CallUnauthorized(t) \/ CallLimited(t) PROVE TokenInv'
  <2>1. /\ [task[t] EXCEPT !.at = "force", !.again = FALSE, !.tries = 0].at # "granted"
        /\ [task[t] EXCEPT !.tries = @ + 1].at = task[t].at
    BY DEF TypeOK, TaskState
  <2>2. ~Costly({t}) /\ ~exposed /\ task[t].at = "call"
    BY <1>14 DEF Costly, CallUnauthorized, CallLimited
  <2>3. CASE Fails(t)
    BY <1>14, <2>2, <2>3, TokenFails DEF CallUnauthorized, CallLimited, marketVars
  <2>4. CASE task' = [task EXCEPT ![t].at = "force", ![t].again = FALSE, ![t].tries = 0]
             /\ UNCHANGED client
    BY <1>14, <2>1, <2>2, <2>4, TokenGoesOn DEF CallUnauthorized, CallLimited, marketVars
  <2>5. CASE task' = [task EXCEPT ![t].tries = @ + 1] /\ UNCHANGED client
    BY <1>14, <2>1, <2>2, <2>5, TokenGoesOn DEF CallUnauthorized, CallLimited, marketVars
  <2>. QED  BY <1>14, <2>3, <2>4, <2>5 DEF CallUnauthorized, CallLimited
<1>15. ASSUME CredentialsGiven PROVE TokenInv'
  <2>1. PICK n \in Token : entry' = Persisted(n) /\ live' = Accepted \cup {n}
    BY <1>15 DEF CredentialsGiven
  <2>2. Running = {} /\ UNCHANGED <<client, task>>
    BY <1>15 DEF CredentialsGiven
  <2>3. entry'.token = n /\ n # NoToken /\ n \in live'
    BY <2>1, TokenAssumption DEF Persisted
  <2>4. \A s \in Task : task[s].at # "granted"
    BY <2>2, TaskType DEF CallInv, CallOK, Of, Busy, Running
  <2>5. Running' = {}
    BY <2>2 DEF Running
  <2>. QED  BY <2>2, <2>3, <2>4, <2>5 DEF TokenInv
<1>16. ASSUME Revoke PROVE FALSE
  BY <1>16 DEF Revoke
<1>17. CASE UNCHANGED vars
  BY <1>17 DEF vars, TokenInv, Running, Costly, Of
<1>. QED
  BY <1>1, <1>2, <1>3, <1>4, <1>5, <1>6, <1>7, <1>8, <1>9, <1>10, <1>11, <1>12, <1>13,
     <1>14, <1>15, <1>16, <1>17 DEF Next, Step

\* StoredTokenLives holds in every state: the entry's token can only be lost by
\* what the observation names.
THEOREM StoredTokenIsAlive == Spec => []StoredTokenLives
<1>1. TokenInv => StoredTokenLives
  BY DEF TokenInv, StoredTokenLives, CanStart
<1>. QED
  BY <1>1, TypeInit, TypeNext, CallInit, CallNext, TokenInit, TokenNext, PTL DEF Spec

-----------------------------------------------------------------------------
(* Who is asked for credentials.                                           *)

\* Nothing happened that can cost the entry its token, and the token endpoint
\* works: nobody is asked, no request for a token is refused, and the password
\* is used only by who has no token.
ReauthInv ==
  "outage" \notin Faults /\ ~exposed =>
    /\ ~reauth
    /\ \A t \in Task :
         /\ task[t].at # "refused"
         /\ task[t].at = "token" => (task[t].grant = "refresh" <=> Of(t).refresh # NoToken)

LEMMA ReauthInit == Init => ReauthInv
BY DEF Init, ReauthInv, Idle

\* Where nobody is asked and no task newly asks for a token, it stays so.
LEMMA ReauthKept ==
  ASSUME ReauthInv, ~exposed, reauth' = reauth \/ ~reauth',
         \A t \in Task :
           \/ task'[t].at \notin {"token", "refused"}
           \/ task'[t] = task[t] /\ client'[t[1]].refresh = client[t[1]].refresh
  PROVE  ReauthInv'
BY DEF ReauthInv, Of

\* A task that asks for a token begins with the one it has.
LEMMA ReauthAuthenticates ==
  ASSUME TypeOK, ReauthInv, ~exposed, NEW t \in Task, Authenticate(t), UNCHANGED reauth
  PROVE  ReauthInv'
<1>1. client' = [client EXCEPT ![t[1]] = [@ EXCEPT !.lock = t]]
  BY DEF Authenticate
<1>2. \A c \in Client : client'[c].refresh = client[c].refresh
  BY <1>1 DEF TypeOK, ClientState
<1>3. /\ task'[t].at = "token"
      /\ task'[t].grant = IF Of(t).refresh = NoToken THEN "password" ELSE "refresh"
      /\ \A s \in Task : s # t => task'[s] = task[s]
  BY DEF Authenticate, Asks, TypeOK, TaskState
<1>. QED  BY <1>2, <1>3, TaskType DEF ReauthInv, Of

LEMMA ReauthFails ==
  ASSUME TypeOK, CallInv, TokenInv, ReauthInv, ~exposed, NEW t \in Task, Fails(t),
         UNCHANGED reauth
  PROVE  ReauthInv'
<1>1. CASE task[t].setup
  BY <1>1, TaskType, ReauthKept DEF Fails, Without, Idle, TypeOK
<1>2. CASE ~task[t].setup
  <2>1. PICK l : client' = [client EXCEPT ![t[1]] = [@ EXCEPT !.lock = l]]
    BY <1>2 DEF Fails
  <2>2. \A c \in Client : client'[c].refresh = client[c].refresh
    BY <2>1 DEF TypeOK, ClientState
  <2>3. \A s \in Task : task'[s].at = "idle" \/ task'[s] = task[s]
    BY <1>2 DEF Fails, Idle, TypeOK
  <2>. QED  BY <2>2, <2>3, TaskType, ReauthKept
<1>. QED  BY <1>1, <1>2

\* The marketplace has no reason to refuse.
LEMMA NotRefused ==
  ASSUME TypeOK, CallInv, TokenInv, ReauthInv, "outage" \notin Faults, ~exposed,
         NEW t \in Task, TokenRefused(t)
  PROVE  FALSE
<1>1. task[t].at = "token"
  BY DEF TokenRefused
<1>2. t[1] \in Running
  BY <1>1, BusyRuns DEF Busy
<1>3. /\ Of(t).refresh = entry.token
      /\ Of(t).refresh = NoToken => Of(t).password /\ account
      /\ Of(t).refresh # NoToken => entry.token \in live \/ Costly(Task)
  BY <1>2 DEF TokenInv, Of
<1>4. ~Costly(Task)
  BY <1>1, OneAsks DEF TokenInv, Costly
<1>5. task[t].grant = "refresh" <=> Of(t).refresh # NoToken
  BY <1>1 DEF ReauthInv
<1>. QED  BY <1>3, <1>4, <1>5 DEF TokenRefused

\* A token that reaches its client leaves nobody who asks with the old one.
LEMMA ReauthReceived ==
  ASSUME TypeOK, CallInv, TokenInv, TokenInv', CallInv', ReauthInv, ~exposed',
         NEW t \in Task, ReceiveToken(t)
  PROVE  ReauthInv'
<1>1. /\ task[t].at = "granted" /\ task'[t].at \in {"idle", "call"}
      /\ \A s \in Task : s # t => task'[s] = task[s]
  BY DEF ReceiveToken, Idle, TypeOK, TaskState
<1>2. \A c, d \in Running : c = d
  <2>1. CASE exposed
    BY <2>1 DEF ReceiveToken, Settled
  <2>2. CASE ~exposed
    BY <2>2 DEF TokenInv
  <2>. QED  BY <2>1, <2>2
<1>3. \A s \in Task : task'[s].at \notin {"token", "refused"}
  <2>. SUFFICES ASSUME NEW s \in Task, s # t, task[s].at \in {"token", "refused"} PROVE FALSE
    BY <1>1
  <2>. QED  BY <1>1, <1>2, OneAsks
<1>4. "outage" \notin Faults => ~reauth'
  <2>1. CASE exposed
    BY <2>1 DEF ReceiveToken, Settled
  <2>2. CASE ~exposed
    BY <2>2 DEF ReceiveToken, ReauthInv
  <2>. QED  BY <2>1, <2>2
<1>. QED  BY <1>3, <1>4 DEF ReauthInv

LEMMA ReauthNext ==
  TypeOK /\ CallInv /\ TokenInv /\ ReauthInv /\ [Next]_vars => ReauthInv'
<1>. SUFFICES ASSUME TypeOK, CallInv, TokenInv, ReauthInv, [Next]_vars,
                     "outage" \notin Faults, ~exposed'
              PROVE  ReauthInv'
  BY DEF ReauthInv
<1>1. ASSUME NEW c \in Client, Setup(c) PROVE ReauthInv'
  <2>1. /\ ~exposed /\ UNCHANGED reauth
        /\ client'[c].refresh = entry.token
        /\ \A d \in Client : d # c => client'[d] = client[d]
    BY <1>1 DEF Setup, TypeOK
  <2>2. /\ task'[<<c, "poll">>].at = "token"
        /\ task'[<<c, "poll">>].grant = IF entry.token = NoToken THEN "password" ELSE "refresh"
        /\ \A s \in Task : s # <<c, "poll">> => task'[s] = task[s]
    BY <1>1, ClientsTask DEF Setup, Asks, Idle, TypeOK
  <2>3. \A s \in Task : s[1] = c => task[s].at = "idle"
    BY <1>1 DEF Setup, CallInv, CallOK, Of, Busy
  <2>. QED  BY <2>1, <2>2, <2>3, TaskType DEF ReauthInv, Of
<1>2. ASSUME NEW c \in Client, Unload(c) \/ SetupCancelled(c) PROVE ReauthInv'
  <2>1. /\ exposed' = (exposed \/ Costly({c} \X Kind)) /\ UNCHANGED reauth
        /\ client' = [client EXCEPT ![c] = NoClient] /\ task' = Without(c)
    BY <1>2 DEF Unload, SetupCancelled
  <2>2. ~exposed
    BY <2>1
  <2>3. \A s \in Task :
          \/ task'[s].at = "idle"
          \/ task'[s] = task[s] /\ client'[s[1]] = client[s[1]]
    BY <2>1, TaskType DEF Without, Idle, TypeOK
  <2>. QED  BY <2>1, <2>2, <2>3, ReauthKept
<1>3. ASSUME NEW c \in Client, Forget(c) PROVE ReauthInv'
  <2>1. \A s \in Task : s[1] = c => task[s].at = "idle"
    BY <1>3, TaskType DEF Forget, Busy
  <2>2. \A d \in Client : d # c => client'[d] = client[d]
    BY <1>3 DEF Forget, TypeOK
  <2>. QED  BY <1>3, <2>1, <2>2, TaskType, ReauthKept DEF Forget
<1>4. ASSUME NEW c \in Client, UnloadInFlight(c) PROVE FALSE
  BY <1>4 DEF UnloadInFlight
<1>5. ASSUME NEW c \in Client, Expire(c) PROVE ReauthInv'
  <2>1. \A d \in Client : client'[d].refresh = client[d].refresh
    BY <1>5 DEF Expire, TypeOK, ClientState
  <2>. QED  BY <1>5, <2>1, TaskType, ReauthKept DEF Expire
<1>6. ASSUME Restart PROVE ReauthInv'
  <2>1. ~reauth' /\ \A s \in Task : task'[s].at = "idle"
    BY <1>6 DEF Restart, Idle
  <2>. QED  BY <2>1 DEF ReauthInv
<1>7. ASSUME NEW t \in Task, BeginCall(t) PROVE ReauthInv'
  <2>1. task'[t].at = "ensure" /\ \A s \in Task : s # t => task'[s] = task[s]
    BY <1>7 DEF BeginCall, TypeOK, TaskState
  <2>. QED  BY <1>7, <2>1, ReauthKept DEF BeginCall
<1>8. ASSUME NEW t \in Task, EnsureToken(t) \/ ForceToken(t) PROVE ReauthInv'
  <2>1. ~exposed /\ UNCHANGED reauth
    BY <1>8 DEF EnsureToken, ForceToken
  <2>2. CASE Authenticate(t)
    BY <2>1, <2>2, ReauthAuthenticates
  <2>3. CASE task' = [task EXCEPT ![t].at = "call"] /\ UNCHANGED client
    <3>1. task'[t].at = "call" /\ \A s \in Task : s # t => task'[s] = task[s]
      BY <2>3 DEF TypeOK, TaskState
    <3>. QED  BY <2>1, <2>3, <3>1, ReauthKept
  <2>. QED  BY <1>8, <2>2, <2>3 DEF EnsureToken, ForceToken
<1>9. ASSUME NEW t \in Task, TokenGranted(t) PROVE ReauthInv'
  <2>1. task'[t].at = "granted" /\ \A s \in Task : s # t => task'[s] = task[s]
    BY <1>9 DEF TokenGranted, TypeOK, TaskState
  <2>. QED  BY <1>9, <2>1, ReauthKept DEF TokenGranted
<1>10. ASSUME NEW t \in Task, TokenRefused(t) PROVE FALSE
  BY <1>10, NotRefused DEF TokenRefused
<1>11. ASSUME NEW t \in Task, ReceiveToken(t) PROVE ReauthInv'
  BY <1>11, CallNext, TokenNext, ReauthReceived
<1>12. ASSUME NEW t \in Task, ReceiveRefusal(t) PROVE FALSE
  BY <1>12 DEF ReceiveRefusal, ReauthInv
<1>13. ASSUME NEW t \in Task, RequestFails(t) PROVE ReauthInv'
  <2>1. exposed' = (exposed \/ Costly({t})) /\ Fails(t) /\ UNCHANGED reauth
    BY <1>13 DEF RequestFails
  <2>2. ~exposed
    BY <2>1
  <2>. QED  BY <2>1, <2>2, ReauthFails
<1>14. ASSUME NEW t \in Task, CallAnswered(t) PROVE ReauthInv'
  <2>1. \A s \in Task : task'[s].at = "idle" \/ task'[s] = task[s]
    BY <1>14 DEF CallAnswered, TypeOK, Idle
  <2>. QED  BY <1>14, <2>1, ReauthKept DEF CallAnswered
<1>15. ASSUME NEW t \in Task, CallUnauthorized(t) \/ CallLimited(t) PROVE ReauthInv'
  <2>1. ~exposed /\ UNCHANGED reauth /\ task[t].at = "call"
    BY <1>15 DEF CallUnauthorized, CallLimited
  <2>2. CASE Fails(t)
    BY <2>1, <2>2, ReauthFails
  <2>3. ASSUME ~Fails(t) PROVE ReauthInv'
    <3>1. UNCHANGED client
      BY <1>15, <2>3 DEF CallUnauthorized, CallLimited
    <3>2. \/ task' = [task EXCEPT ![t].at = "force", ![t].again = FALSE, ![t].tries = 0]
          \/ task' = [task EXCEPT ![t].tries = @ + 1]
      BY <1>15, <2>3 DEF CallUnauthorized, CallLimited
    <3>3. task'[t].at \in {"force", "call"} /\ \A s \in Task : s # t => task'[s] = task[s]
      BY <2>1, <3>2 DEF TypeOK, TaskState
    <3>. QED  BY <2>1, <3>1, <3>3, ReauthKept
  <2>. QED  BY <2>2, <2>3
<1>16. ASSUME CredentialsGiven PROVE ReauthInv'
  <2>1. Running = {} /\ ~reauth' /\ UNCHANGED <<client, task>>
    BY <1>16 DEF CredentialsGiven
  <2>2. \A s \in Task : task[s].at = "idle"
    BY <2>1, BusyRuns DEF Busy
  <2>. QED  BY <2>1, <2>2 DEF ReauthInv
<1>17. ASSUME Revoke PROVE FALSE
  BY <1>17 DEF Revoke
<1>18. CASE UNCHANGED vars
  BY <1>18 DEF vars, ReauthInv, Of
<1>. QED
  BY <1>1, <1>2, <1>3, <1>4, <1>5, <1>6, <1>7, <1>8, <1>9, <1>10, <1>11, <1>12, <1>13, <1>14,
     <1>15, <1>16, <1>17, <1>18 DEF Next, Step

\* ReauthJustified holds in every state while the token endpoint works.
THEOREM ReauthIsJustified ==
  ASSUME "outage" \notin Faults
  PROVE  Spec => []ReauthJustified
<1>1. ReauthInv => ReauthJustified
  BY DEF ReauthInv, ReauthJustified
<1>. QED
  BY <1>1, TypeInit, TypeNext, CallInit, CallNext, TokenInit, TokenNext, ReauthInit, ReauthNext,
     PTL DEF Spec

-----------------------------------------------------------------------------
(* Without a fault.                                                        *)

\* A client is unloaded between its calls, no request is lost, and nobody is
\* asked for credentials: nothing happens that can cost the entry its token.
LEMMA QuietNext ==
  ASSUME Faults = {}
  PROVE  TypeOK /\ CallInv /\ ReauthInv /\ ~exposed /\ [Next]_vars => (~exposed)'
<1>. SUFFICES ASSUME TypeOK, CallInv, ReauthInv, ~exposed, [Next]_vars
              PROVE  ~exposed'
  OBVIOUS
<1>1. ASSUME NEW c \in Client, Unload(c) PROVE ~exposed'
  <2>1. \A k \in Kind : task[<<c, k>>].at = "idle"
    BY <1>1 DEF Unload, Busy
  <2>2. \A t \in {c} \X Kind : task[t].at = "idle"
    BY <2>1
  <2>. QED  BY <1>1, <2>2 DEF Unload, Costly
<1>2. ASSUME NEW t \in Task, ReceiveToken(t) PROVE ~exposed'
  BY <1>2 DEF ReceiveToken
<1>3. ASSUME CredentialsGiven PROVE FALSE
  BY <1>3 DEF CredentialsGiven, ReauthInv
<1>4. ASSUME NEW c \in Client, UnloadInFlight(c) \/ SetupCancelled(c) PROVE FALSE
  BY <1>4 DEF UnloadInFlight, SetupCancelled
<1>5. ASSUME Restart \/ Revoke \/ \E t \in Task : RequestFails(t) PROVE FALSE
  BY <1>5 DEF Restart, Revoke, RequestFails
<1>6. ASSUME NEW c \in Client, Setup(c) \/ Forget(c) \/ Expire(c) PROVE ~exposed'
  BY <1>6 DEF Setup, Forget, Expire
<1>7. ASSUME NEW t \in Task,
             BeginCall(t) \/ EnsureToken(t) \/ ForceToken(t) \/ TokenGranted(t) \/ TokenRefused(t)
      PROVE  ~exposed'
  BY <1>7 DEF BeginCall, EnsureToken, ForceToken, TokenGranted, TokenRefused
<1>8. ASSUME NEW t \in Task,
             ReceiveRefusal(t) \/ CallAnswered(t) \/ CallUnauthorized(t) \/ CallLimited(t)
      PROVE  ~exposed'
  BY <1>8 DEF ReceiveRefusal, CallAnswered, CallUnauthorized, CallLimited
<1>9. CASE UNCHANGED vars
  BY <1>9 DEF vars
<1>. QED
  BY <1>1, <1>2, <1>3, <1>4, <1>5, <1>6, <1>7, <1>8, <1>9 DEF Next, Step

\* NewestTokenStored holds in every state when calls are answered, in whatever
\* order polls, calls, reloads and the end of access tokens come: only a fault
\* refutes what docs/SHARETRIBE_API.md:65 says.
THEOREM NewestIsStored ==
  ASSUME Faults = {}
  PROVE  Spec => []NewestTokenStored
<1>1. Init => ~exposed
  BY DEF Init
<1>2. TokenInv /\ ~exposed => NewestTokenStored
  BY DEF TokenInv, NewestTokenStored, CanStart
<1>. QED
  BY <1>1, <1>2, QuietNext, TypeInit, TypeNext, CallInit, CallNext, TokenInit, TokenNext,
     ReauthInit, ReauthNext, PTL DEF Spec
=============================================================================
