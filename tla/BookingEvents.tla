---------------------------- MODULE BookingEvents ----------------------------
(***************************************************************************)
(* How the coordinator turns what it polls from the marketplace into       *)
(* booking events, what it remembers about each transaction, and what the  *)
(* automation and the services do with those events and that memory.       *)
(*                                                                         *)
(* One config entry.  Every setup of the entry builds a coordinator of its *)
(* own (a "generation") around a dictionary it loads from the store; a     *)
(* reload replaces the generation, and work the old one has in flight (a   *)
(* poll, a service call) may still run against the old dictionary and save *)
(* it over the same file.                                                  *)
(*                                                                         *)
(* The polls of one generation exclude one another, but for one: the first *)
(* refresh of its setup.  The runtime is published before that refresh, so *)
(* that a service may request another while it is under way (EarlyRefresh),*)
(* and two polls with lists of different age detect over one dictionary.   *)
(***************************************************************************)
EXTENDS Naturals, Sequences, FiniteSets

CONSTANTS
  Txn,         \* transaction ids
  Gen,         \* slots for coordinator generations
  NoGen,       \* "no runtime in hass.data"
  NoTxn,       \* "no transaction"
  Callers,     \* who calls services: a subset of {"automation", "provider"}
  EarlyRefresh,\* a refresh may be requested during the first one of a setup
  Faults,      \* a subset of {"crash", "cancel", "overlap"}: see the actions
  MaxAt,       \* bound: transitions per transaction
  MaxPending,  \* bound: automation runs waiting per transaction
  MaxCount     \* bound: the counters of events and messages stop here

ASSUME BoundsAssumption ==
  /\ MaxAt \in Nat \ {0}
  /\ MaxPending \in Nat \ {0}
  /\ MaxCount \in Nat \ {0}

ASSUME SentinelAssumption == NoGen \notin Gen /\ NoTxn \notin Txn

ASSUME ConfigAssumption ==
  /\ Callers \subseteq {"automation", "provider"}
  /\ EarlyRefresh \in BOOLEAN
  /\ Faults \subseteq {"crash", "cancel", "overlap"}

VARIABLES
  hist,        \* hist[t]: every transition of t on the marketplace, in order
  disk,        \* the transaction_states mapping in the store's file
  mem,         \* mem[g]: the same mapping in generation g's dictionary
  pc,          \* pc[p]: where poll p stands
  snap,        \* snap[p][t]: the position in hist[t] that poll p fetched
  live,        \* the generation in hass.data, or NoGen
  ready,       \* the live generation's setup has completed
  pending,     \* pending[t]: automation runs waiting for t
  job,         \* job[c]: the service call caller c has in flight
  reqEvents,   \* reqEvents[t][a]: booking_request_received events fired
  confEvents,  \* confEvents[t][a]: booking_confirmed events fired
  delivered    \* delivered[t]: confirmation messages the customer received

entryVars   == <<live, ready>>
serviceVars == <<pending, job, delivered>>
eventVars   == <<reqEvents, confEvents>>
vars == <<hist, disk, mem, pc, snap, live, ready, pending, job,
          reqEvents, confEvents, delivered>>

-----------------------------------------------------------------------------
(* Data. Transitions are told apart as far as the code tells them apart.  A *)
(* last_transitioned_at value is the position of the transition in hist[t]; *)
(* 0 stands for None.                                                       *)

Transition == {"request", "confirmed", "other"}
At == 0 .. MaxAt

\* An entry of transaction_states. "absent": the id is not in the mapping;
\* "unset": the entry was made by mark_message_sent and has no transition.
\* message_sent_at and event_fired_at are never read by these handlers.
Record == [tr : Transition \cup {"absent", "unset"}, at : At,
           sent : BOOLEAN, reqFired : BOOLEAN]

Absent == [tr |-> "absent", at |-> 0, sent |-> FALSE, reqFired |-> FALSE]

\* What the v1 to v2 store migration makes of one entry of seen_transitions.
MigratedRecord(tr, sent) ==
  [tr |-> tr, at |-> 0, sent |-> sent, reqFired |-> FALSE]

\* What may follow on the marketplace: a request or an instant booking opens
\* a hire, a confirmed one can be changed or leave its refundable period.
Successors(tr) ==
  CASE tr = "none"      -> {"request", "confirmed", "other"}
    [] tr = "request"   -> {"confirmed", "other"}
    [] tr = "confirmed" -> {"confirmed", "other"}
    [] tr = "other"     -> {"request", "other"}

LastTransition(t) == IF hist[t] = <<>> THEN "none" ELSE hist[t][Len(hist[t])]

Idle == [step |-> "idle", txn |-> NoTxn, gen |-> NoGen]
Job == [step : {"idle", "send", "answered", "save"},
        txn : Txn \cup {NoTxn}, gen : Gen \cup {NoGen}]

Empty == [t \in Txn |-> Absent]
NoSnap == [t \in Txn |-> 0]

Capped(n) == IF n < MaxCount THEN n + 1 ELSE n

\* Variant for the checks: the automation's queue has no limit.
QueuedUnbounded(n) == n + 1

\* a run of the automation, where there is one, joins its bounded queue or is
\* dropped
Queued(n) == IF "automation" \in Callers /\ n < MaxPending THEN n + 1 ELSE n

-----------------------------------------------------------------------------
(* The decisions of one poll, per transaction of the fetched list.         *)

\* Variant for the checks: only a booking never seen before is a new request.
IsNewRequestFirstSeen(r, tr, a) == tr = "request" /\ r.tr = "absent"

\* booking transition tr at a still needs its booking_request_received event
IsNewRequest(r, tr, a) ==
  /\ tr = "request"
  /\ ~(r.reqFired /\ r.at = a)

\* Variant for the checks: request_event_fired_at is not recorded.
AfterRequestForgotten(r, tr, a) == [r EXCEPT !.tr = tr, !.at = a]

AfterRequest(r, tr, a) == [r EXCEPT !.tr = tr, !.at = a, !.reqFired = TRUE]

\* Variant for the checks: the timestamps are not compared.
IsNewConfirmationByName(r, tr, a) ==
  tr = "confirmed" /\ r.tr # "confirmed"

IsNewConfirmation(r, tr, a) ==
  /\ tr = "confirmed"
  /\ \/ r.tr = "absent"
     \/ r.at # a
     \/ r.tr # "confirmed"

\* Variant for the checks: a marked message does not silence the event.
FiresConfirmationAlways(r, tr, a) == IsNewConfirmation(r, tr, a)

\* Variant for the checks: a first sighting is only a baseline.
FiresConfirmationKnown(r, tr, a) ==
  IsNewConfirmation(r, tr, a) /\ ~r.sent /\ r.tr # "absent"

FiresConfirmation(r, tr, a) == IsNewConfirmation(r, tr, a) /\ ~r.sent

\* Variant for the checks: message_sent is not carried over.
AfterConfirmationUnmarked(r, tr, a) ==
  CASE IsNewConfirmation(r, tr, a) ->
         [tr |-> tr, at |-> a, sent |-> FALSE, reqFired |-> FALSE]
    [] tr # "confirmed" /\ (r.tr = "absent" \/ r.at # a) ->
         [r EXCEPT !.tr = tr, !.at = a]
    [] OTHER -> r

\* A new confirmation replaces the whole entry, message_sent apart; another
\* transition is written into the entry there is.
AfterConfirmation(r, tr, a) ==
  CASE IsNewConfirmation(r, tr, a) ->
         [tr |-> tr, at |-> a, sent |-> r.sent, reqFired |-> FALSE]
    [] tr # "confirmed" /\ (r.tr = "absent" \/ r.at # a) ->
         [r EXCEPT !.tr = tr, !.at = a]
    [] OTHER -> r

AfterMark(r) ==
  [r EXCEPT !.sent = TRUE, !.tr = IF r.tr = "absent" THEN "unset" ELSE r.tr]

\* the polls: a generation's first refresh, and the one that its timer or a
\* service starts; p[1] is the generation, whose dictionary they share
Polls == Gen \X {"first", "later"}
First(g) == <<g, "first">>
Later(g) == <<g, "later">>

\* the transactions poll p fetched, and what it saw of each
Listed(p) == {t \in Txn : snap[p][t] # 0}
Seen(p, t) == hist[t][snap[p][t]]

Requests(p) ==
  {t \in Listed(p) : IsNewRequest(mem[p[1]][t], Seen(p, t), snap[p][t])}
Confirmations(p) ==
  {t \in Listed(p) : FiresConfirmation(mem[p[1]][t], Seen(p, t), snap[p][t])}
AfterRequests(p) ==
  [t \in Txn |-> IF t \in Requests(p)
                 THEN AfterRequest(mem[p[1]][t], Seen(p, t), snap[p][t])
                 ELSE mem[p[1]][t]]
AfterConfirmations(p) ==
  [t \in Txn |-> IF t \in Listed(p)
                 THEN AfterConfirmation(mem[p[1]][t], Seen(p, t), snap[p][t])
                 ELSE mem[p[1]][t]]

\* the bookings of T fired an event at the position p saw them at
Fired(events, p, T) ==
  [t \in Txn |-> [a \in 1 .. MaxAt |->
      IF t \in T /\ a = snap[p][t] THEN Capped(events[t][a]) ELSE events[t][a]]]

-----------------------------------------------------------------------------
(* The generations of the entry's setup.                                   *)

\* A poll from its start to its end; the first refresh of a generation that has
\* loaded the store but is not published yet stands at "loaded".
InFlight == {"fetch", "detect", "saveReq", "conf", "saveConf", "rest"}
Phase == InFlight \cup {"none", "loaded"}

Referenced(g, runtime, polls, jobs) ==
  \/ runtime = g
  \/ polls[First(g)] # "none" \/ polls[Later(g)] # "none"
  \/ \E c \in Callers : jobs[c].gen = g

\* nothing refers to the dictionary of a finished generation
Collect(m, runtime, polls, jobs) ==
  [g \in Gen |-> IF Referenced(g, runtime, polls, jobs) THEN m[g] ELSE Empty]

SettingUp == \E g \in Gen : pc[First(g)] = "loaded"

\* async_setup_entry reads the store, then authenticates
Load(g) ==
  /\ live = NoGen /\ ~SettingUp /\ ~Referenced(g, live, pc, job)
  /\ pc' = [pc EXCEPT ![First(g)] = "loaded"]
  /\ mem' = [mem EXCEPT ![g] = disk]
  /\ UNCHANGED <<hist, disk, snap, entryVars, serviceVars, eventVars>>

AuthenticationFails(g) ==
  /\ pc[First(g)] = "loaded"
  /\ pc' = [pc EXCEPT ![First(g)] = "none"]
  /\ mem' = Collect(mem, live, pc', job)
  /\ UNCHANGED <<hist, disk, snap, entryVars, serviceVars, eventVars>>

\* Variant for the checks: the first refresh starts before the runtime is there.
PublishLate(g) ==
  /\ pc[First(g)] = "loaded"
  /\ pc' = [pc EXCEPT ![First(g)] = "fetch"]
  /\ UNCHANGED <<hist, disk, mem, snap, entryVars, serviceVars, eventVars>>

\* the runtime is published before the first refresh starts
Publish(g) ==
  /\ pc[First(g)] = "loaded"
  /\ live' = g
  /\ pc' = [pc EXCEPT ![First(g)] = "fetch"]
  /\ UNCHANGED <<hist, disk, mem, snap, ready, serviceVars, eventVars>>

\* The runtime of generation g is gone, and with it the polls in ended; another
\* poll and a service call may still hold its dictionary.
Withdraw(g, ended) ==
  /\ live' = NoGen
  /\ ready' = FALSE
  /\ pc' = [p \in Polls |-> IF p \in ended THEN "none" ELSE pc[p]]
  /\ snap' = [p \in Polls |-> IF p \in ended THEN NoSnap ELSE snap[p]]
  /\ mem' = Collect(mem, live', pc', job)
  /\ UNCHANGED <<hist, disk, serviceVars, eventVars>>

\* what is in flight keeps a withdrawn generation only if overlaps happen
NoCallLeftBehind(g) ==
  "overlap" \in Faults \/ \A c \in Callers : job[c].gen # g
NoPollLeftBehind(g) ==
  "overlap" \in Faults \/ pc[Later(g)] = "none"

\* the first refresh fails, or a platform does after it, and setup unwinds; a
\* refresh that a service has requested meanwhile runs on
SetupFails(g) ==
  /\ live = g /\ ~ready
  /\ pc[First(g)] \in {"fetch", "rest"}
  /\ NoCallLeftBehind(g) /\ NoPollLeftBehind(g)
  /\ Withdraw(g, {First(g)})

SetupCancelled(g) ==
  /\ "cancel" \in Faults
  /\ live = g /\ ~ready
  /\ NoCallLeftBehind(g) /\ NoPollLeftBehind(g)
  /\ Withdraw(g, {First(g)})

\* Unloading removes the runtime. Home Assistant cancels a poll its timer
\* started; one that refresh_now started, and a service call, runs on.
UnloadAndStop(g) ==
  /\ live = g /\ ready
  /\ pc[Later(g)] = "none" \/ "cancel" \in Faults
  /\ NoCallLeftBehind(g)
  /\ Withdraw(g, {Later(g)})

UnloadInFlight(g) ==
  /\ "overlap" \in Faults
  /\ live = g /\ ready
  /\ pc[Later(g)] \in InFlight
  /\ Withdraw(g, {})

AtRest ==
  /\ \A p \in Polls : pc[p] = "none"
  /\ \A c \in Callers : job[c] = Idle

\* Home Assistant stops, at any moment if it crashes: the file is what stays
Restart ==
  /\ AtRest \/ "crash" \in Faults
  /\ pc' = [p \in Polls |-> "none"]
  /\ mem' = [g \in Gen |-> Empty]
  /\ snap' = [p \in Polls |-> NoSnap]
  /\ live' = NoGen
  /\ ready' = FALSE
  /\ pending' = [t \in Txn |-> 0]
  /\ job' = [c \in Callers |-> Idle]
  /\ UNCHANGED <<hist, disk, delivered, eventVars>>

-----------------------------------------------------------------------------
(* One poll, from one await to the next.                                   *)

\* The timer and the services share one lock, so that at most one poll of the
\* generation is later than the first refresh; that one does not take it.
StartPoll(g) ==
  /\ live = g /\ pc[Later(g)] = "none"
  /\ ready \/ EarlyRefresh
  /\ pc' = [pc EXCEPT ![Later(g)] = "fetch"]
  /\ UNCHANGED <<hist, disk, mem, snap, entryVars, serviceVars, eventVars>>

FetchSucceeds(p) ==
  /\ pc[p] = "fetch"
  /\ snap' = [snap EXCEPT ![p] = [t \in Txn |-> Len(hist[t])]]
  /\ pc' = [pc EXCEPT ![p] = "detect"]
  /\ UNCHANGED <<hist, disk, mem, entryVars, serviceVars, eventVars>>

\* a poll is over: its generation idles, or ends if it was unloaded meanwhile
EndPoll(p) ==
  /\ pc' = [pc EXCEPT ![p] = "none"]
  /\ snap' = [snap EXCEPT ![p] = NoSnap]
  /\ mem' = Collect(mem, live, pc', job)
  /\ UNCHANGED <<hist, disk, live, serviceVars, eventVars>>

\* the first refresh that fails is SetupFails
FetchFails(p) ==
  /\ p = Later(p[1]) /\ pc[p] = "fetch"
  /\ EndPoll(p)
  /\ UNCHANGED ready

\* Variant for the checks: the dictionary is saved before the events are fired.
DetectRequestsSaved(p) ==
  /\ pc[p] = "detect" /\ Requests(p) # {}
  /\ disk' = AfterRequests(p)
  /\ mem' = [mem EXCEPT ![p[1]] = AfterRequests(p)]
  /\ reqEvents' = Fired(reqEvents, p, Requests(p))
  /\ pc' = [pc EXCEPT ![p] = "conf"]
  /\ UNCHANGED <<hist, snap, entryVars, serviceVars, confEvents>>

\* _detect_booking_requests found requests: events first, then the save
DetectRequests(p) ==
  /\ pc[p] = "detect" /\ Requests(p) # {}
  /\ reqEvents' = Fired(reqEvents, p, Requests(p))
  /\ mem' = [mem EXCEPT ![p[1]] = AfterRequests(p)]
  /\ pc' = [pc EXCEPT ![p] = "saveReq"]
  /\ UNCHANGED <<hist, disk, snap, entryVars, serviceVars, confEvents>>

\* _detect_confirmed_bookings; every event starts the message automation
DetectConfirmations(p) ==
  /\ pc[p] = "conf" \/ (pc[p] = "detect" /\ Requests(p) = {})
  /\ confEvents' = Fired(confEvents, p, Confirmations(p))
  /\ pending' = [t \in Txn |-> IF t \in Confirmations(p) THEN Queued(pending[t])
                                                    ELSE pending[t]]
  /\ mem' = [mem EXCEPT ![p[1]] = AfterConfirmations(p)]
  /\ pc' = [pc EXCEPT ![p] = IF AfterConfirmations(p) = mem[p[1]]
                            THEN "rest" ELSE "saveConf"]
  /\ UNCHANGED <<hist, disk, snap, entryVars, job, delivered, reqEvents>>

\* the await on async_save writes the dictionary as it is then
SavePoll(p) ==
  /\ pc[p] \in {"saveReq", "saveConf"}
  /\ disk' = mem[p[1]]
  /\ pc' = [pc EXCEPT ![p] = IF pc[p] = "saveReq" THEN "conf" ELSE "rest"]
  /\ UNCHANGED <<hist, mem, snap, entryVars, serviceVars, eventVars>>

\* The customer history and the message archive live in the same dictionary:
\* a poll saves them before and after the detection, a service at any time.
SaveArchives(g) ==
  /\ live = g \/ pc[Later(g)] \in {"detect", "rest"}
  /\ disk' = mem[g]
  /\ UNCHANGED <<hist, mem, pc, snap, entryVars, serviceVars, eventVars>>

\* the end of the first refresh completes the setup
FinishPoll(p) ==
  /\ pc[p] = "rest"
  /\ EndPoll(p)
  /\ ready' = (ready \/ p = First(p[1]))

-----------------------------------------------------------------------------
(* The marketplace, the automation and the services.                       *)

Transact(t) ==
  /\ Len(hist[t]) < MaxAt
  /\ \E tr \in Successors(LastTransition(t)) :
       hist' = [hist EXCEPT ![t] = Append(@, tr)]
  /\ UNCHANGED <<disk, mem, pc, snap, entryVars, serviceVars, eventVars>>

Call(c, step, t) == job' = [job EXCEPT ![c] = [step |-> step, txn |-> t, gen |-> live]]

\* a queued run of auto_message.yaml calls send_message on the live runtime
AutomationSends(t) ==
  /\ "automation" \in Callers /\ job["automation"] = Idle
  /\ pending[t] > 0 /\ live # NoGen
  /\ pending' = [pending EXCEPT ![t] = @ - 1]
  /\ Call("automation", "send", t)
  /\ UNCHANGED <<hist, disk, mem, pc, snap, entryVars, eventVars, delivered>>

\* without a runtime the call is refused and the run ends
AutomationRefused(t) ==
  /\ "automation" \in Callers /\ job["automation"] = Idle
  /\ pending[t] > 0 /\ live = NoGen
  /\ pending' = [pending EXCEPT ![t] = @ - 1]
  /\ UNCHANGED <<hist, disk, mem, pc, snap, entryVars, eventVars, job, delivered>>

\* the mark_message_sent service, up to its save
ProviderMarks(t) ==
  /\ "provider" \in Callers /\ job["provider"] = Idle
  /\ live # NoGen
  /\ mem' = [mem EXCEPT ![live][t] = AfterMark(@)]
  /\ Call("provider", "save", t)
  /\ UNCHANGED <<hist, disk, pc, snap, entryVars, pending, delivered, eventVars>>

SendDelivered(c) ==
  /\ job[c].step = "send"
  /\ delivered' = [delivered EXCEPT ![job[c].txn] = Capped(@)]
  /\ job' = [job EXCEPT ![c].step = "answered"]
  /\ UNCHANGED <<hist, disk, mem, pc, snap, entryVars, pending, eventVars>>

\* an APIError: the request or its answer was lost, and nothing is marked
SendFails(c) ==
  /\ job[c].step \in {"send", "answered"}
  /\ job' = [job EXCEPT ![c] = Idle]
  /\ mem' = Collect(mem, live, pc, job')
  /\ UNCHANGED <<hist, disk, pc, snap, entryVars, pending, delivered, eventVars>>

\* send_message goes on with the runtime it resolved before its await
MarkSent(c) ==
  /\ job[c].step = "answered"
  /\ mem' = [mem EXCEPT ![job[c].gen][job[c].txn] = AfterMark(@)]
  /\ job' = [job EXCEPT ![c].step = "save"]
  /\ UNCHANGED <<hist, disk, pc, snap, entryVars, pending, delivered, eventVars>>

SaveMark(c) ==
  /\ job[c].step = "save"
  /\ disk' = mem[job[c].gen]
  /\ job' = [job EXCEPT ![c] = Idle]
  /\ mem' = Collect(mem, live, pc, job')
  /\ UNCHANGED <<hist, pc, snap, entryVars, pending, delivered, eventVars>>

-----------------------------------------------------------------------------
Init ==
  /\ hist \in [Txn -> {<<>>} \cup {<<tr>> : tr \in Transition}]
  /\ disk \in [Txn -> {Absent} \cup
                    {MigratedRecord(tr, sent) : tr \in Transition, sent \in BOOLEAN}]
  /\ \A t \in Txn : hist[t] = <<>> => disk[t] = Absent
  /\ mem = [g \in Gen |-> Empty]
  /\ pc = [p \in Polls |-> "none"]
  /\ snap = [p \in Polls |-> NoSnap]
  /\ live = NoGen
  /\ ready = FALSE
  /\ pending = [t \in Txn |-> 0]
  /\ job = [c \in Callers |-> Idle]
  /\ reqEvents = [t \in Txn |-> [a \in 1 .. MaxAt |-> 0]]
  /\ confEvents = [t \in Txn |-> [a \in 1 .. MaxAt |-> 0]]
  /\ delivered = [t \in Txn |-> 0]

Setup(g) ==
  \/ Load(g) \/ AuthenticationFails(g) \/ Publish(g)
  \/ SetupFails(g) \/ SetupCancelled(g) \/ UnloadAndStop(g) \/ UnloadInFlight(g)

Poll(p) ==
  \/ FetchSucceeds(p) \/ FetchFails(p)
  \/ DetectRequests(p) \/ DetectConfirmations(p) \/ SavePoll(p) \/ FinishPoll(p)

Service ==
  \/ \E t \in Txn : AutomationSends(t) \/ AutomationRefused(t) \/ ProviderMarks(t)
  \/ \E c \in Callers :
       SendDelivered(c) \/ SendFails(c) \/ MarkSent(c) \/ SaveMark(c)

Next ==
  \/ \E g \in Gen : Setup(g) \/ StartPoll(g) \/ SaveArchives(g)
  \/ \E p \in Polls : Poll(p)
  \/ Restart
  \/ \E t \in Txn : Transact(t)
  \/ Service

Spec == Init /\ [][Next]_vars

\* Polls are scheduled again and again and run to their end, setup is retried,
\* and a marketplace that is asked again and again answers now and then.
Fairness ==
  /\ \A g \in Gen : WF_vars(ready /\ StartPoll(g)) /\ SF_vars(Publish(g))
  /\ \A p \in Polls :
       /\ WF_vars(DetectRequests(p)) /\ WF_vars(DetectConfirmations(p))
       /\ WF_vars(SavePoll(p)) /\ WF_vars(FinishPoll(p))
       /\ SF_vars(FetchSucceeds(p))
  /\ WF_vars(\E g \in Gen : Load(g))

FairSpec == Spec /\ Fairness

-----------------------------------------------------------------------------
(* Properties.                                                             *)

TypeOK ==
  /\ hist \in [Txn -> Seq(Transition)] /\ \A t \in Txn : Len(hist[t]) <= MaxAt
  /\ disk \in [Txn -> Record]
  /\ mem \in [Gen -> [Txn -> Record]]
  /\ pc \in [Polls -> Phase]
  /\ snap \in [Polls -> [Txn -> At]]
  /\ \A p \in Polls, t \in Txn : snap[p][t] <= Len(hist[t])
  /\ live \in Gen \cup {NoGen}
  /\ ready \in BOOLEAN
  /\ pending \in [Txn -> 0 .. MaxPending]
  /\ job \in [Callers -> Job]
  /\ \A c \in Callers : job[c] # Idle => job[c].txn \in Txn /\ job[c].gen \in Gen
  /\ reqEvents \in [Txn -> [1 .. MaxAt -> 0 .. MaxCount]]
  /\ confEvents \in [Txn -> [1 .. MaxAt -> 0 .. MaxCount]]
  /\ delivered \in [Txn -> 0 .. MaxCount]

Announced(t, a) == confEvents[t][a] > 0
RequestAnnounced(t, a) == reqEvents[t][a] > 0

\* a recorded confirmation was announced, or its message had been sent before
ConfirmationAccounted(r, t) ==
  r.tr = "confirmed" /\ r.at # 0 => r.sent \/ Announced(t, r.at)

\* Whatever is reloaded, cancelled or lost in a crash, no confirmation slips
\* through: an entry of the mapping (in the file or in a dictionary) that says
\* "confirmed at a" is there only after the event of a was fired or a message
\* marked, and so is every confirmed booking of a poll past its detection
\* (_detect_confirmed_bookings fires before it records, and records only then).
NoMissedConfirmation ==
  /\ \A t \in Txn : ConfirmationAccounted(disk[t], t)
  /\ \A g \in Gen, t \in Txn : ConfirmationAccounted(mem[g][t], t)
  /\ \A p \in Polls : pc[p] \in {"saveConf", "rest"} =>
       \A t \in Listed(p) :
         Seen(p, t) = "confirmed" => mem[p[1]][t].sent \/ Announced(t, snap[p][t])

\* a recorded request was announced
RequestAccounted(r, t) ==
  r.tr = "request" /\ r.at # 0 => RequestAnnounced(t, r.at)

\* The same for booking requests: _detect_confirmed_bookings also records the
\* requests of the list it scans, and must never do so for one that
\* _detect_booking_requests did not announce, in this poll or an earlier one.
NoMissedRequest ==
  /\ \A t \in Txn : RequestAccounted(disk[t], t)
  /\ \A g \in Gen, t \in Txn : RequestAccounted(mem[g][t], t)
  /\ \A p \in Polls : pc[p] \in {"saveReq", "conf", "saveConf", "rest"} =>
       \A t \in Listed(p) :
         Seen(p, t) = "request" => RequestAnnounced(t, snap[p][t])

\* Why NoMissedRequest is preserved: an entry's timestamp is that of a
\* transition there has been, and request_event_fired_at on an entry that
\* stands at a request says that this request was announced.
RequestMemory(r, t) ==
  /\ r.at <= Len(hist[t])
  /\ r.reqFired /\ r.at # 0 /\ hist[t][r.at] = "request" => RequestAnnounced(t, r.at)

RequestsRemembered ==
  /\ \A t \in Txn : RequestMemory(disk[t], t)
  /\ \A g \in Gen, t \in Txn : RequestMemory(mem[g][t], t)

\* Without faults (Faults = {}), and as long as nobody requests a refresh during
\* the first one of a setup (~EarlyRefresh), every transition is announced once,
\* across any number of polls, marks, clean restarts and reloads, and after the
\* v1 migration, which leaves entries without a timestamp.  With EarlyRefresh
\* this is false: the first refresh may detect an older list after the other
\* poll, put an entry back, and the next poll announces once more.
AnnouncedOnce ==
  \A t \in Txn, a \in 1 .. MaxAt : reqEvents[t][a] <= 1 /\ confEvents[t][a] <= 1

\* Without faults a message that was marked stays marked in the file,
\* whatever poll, mark, archive save or restart comes after it.
MarksSurvive == [][\A t \in Txn : disk[t].sent => disk'[t].sent]_vars

\* Without faults a booking whose message is marked in the file is announced
\* no more, whatever confirmed transitions follow it.
QuietOnceMarked ==
  [][\A t \in Txn : disk[t].sent => confEvents'[t] = confEvents[t]]_vars

\* Without faults no confirmation is announced while send_message could not
\* resolve the runtime, the first refresh of a setup included.
RuntimeForEvents == [][confEvents' # confEvents => live # NoGen]_vars

\* A booking that stays confirmed is announced in the end, or its message is
\* marked: polls and setups are retried for ever.
EventuallyAnnounced ==
  \A t \in Txn, a \in 1 .. MaxAt :
    (Len(hist[t]) = a /\ LastTransition(t) = "confirmed") ~>
      (Announced(t, a) \/ Len(hist[t]) # a \/ \E g \in Gen : mem[g][t].sent)

\* What auto_message.yaml and the mark_message_sent service promise: once a
\* message is marked, no other is sent for the same transaction.
NoSendAfterMark ==
  [][\A t \in Txn : disk[t].sent => delivered'[t] = delivered[t]]_vars

\* the requests and the confirmations of the marketplace, those announced, and
\* those the file counts as dealt with, without an excuse by a marked message
Announceable == {"request", "confirmed"} \X Txn \X (1 .. MaxAt)

HappenedBar ==
  UNION {{<<hist[t][a], t, a>> : a \in {b \in DOMAIN hist[t] : hist[t][b] # "other"}}
           : t \in Txn}

ToldBar ==
  {i \in Announceable :
     (IF i[1] = "request" THEN reqEvents ELSE confEvents)[i[2]][i[3]] > 0}

SettledBar ==
  {<<disk[t].tr, t, disk[t].at>> :
     t \in {u \in Txn : /\ disk[u].tr \in {"request", "confirmed"} /\ disk[u].at # 0
                        /\ disk[u].tr = "confirmed" => ~disk[u].sent}}

Notifier == INSTANCE AtLeastOnce
  WITH Item <- Announceable, happened <- HappenedBar,
       told <- ToldBar, settled <- SettledBar

\* Under all faults the coordinator is an at-least-once notifier: it fires no
\* event for a request or a confirmation that the booking did not have at that
\* position, and the file never says that one was dealt with before its event
\* was fired, in an earlier step. It may be fired again, after a crash, a
\* cancelled setup, by a poll that outlives the reload of its entry, or after
\* the older of two lists was detected last.
NotifiesAtLeastOnce == Notifier!Spec
=============================================================================
