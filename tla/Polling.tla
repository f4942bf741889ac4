------------------------------- MODULE Polling -------------------------------
(***************************************************************************)
(* How the dashboard asks the server (src/frontend/src/hooks): usePolling,   *)
(* whose effect runs one loop of requests until it is cleaned up, and        *)
(* useSessionList, whose refresh may be called while another is on its way.  *)
(* The server's state is a version; a request is served with the version of  *)
(* that moment, or fails (request() in api/client.ts gives up after eight    *)
(* seconds), and its answer arrives later.  Delays, which the back-off and   *)
(* a hidden tab only stretch, are left out; a component that is taken off    *)
(* the page is one that is disabled.                                         *)
(***************************************************************************)
EXTENDS Integers

CONSTANTS
  MaxVersion,  \* bound on the server's versions
  MaxAsked     \* bound on effects of the poller, and on refreshes of the list

ASSUME PollingAssumption == {MaxVersion, MaxAsked} \subseteq Nat

VARIABLES
  version,  \* what the server would answer
  up,       \* whether it answers
  enabled,  \* the poller's option
  effect,   \* the effect whose tick is in tickRef
  flight,   \* the request of each effect (inFlight)
  timer,    \* whether the timer of the running effect is set
  shown,    \* data, of usePolling
  asked,    \* requestIdRef, of useSessionList
  calls,    \* the request of each refresh
  listed,   \* sessions
  loading,  \* of the list
  clicks    \* what people still do

poller == <<enabled, effect, timer, shown>>
list == <<asked, listed, loading>>
pollingVars == <<version, up, enabled, effect, flight, timer, shown, asked, calls,
                 listed, loading, clicks>>

Ids == 1..MaxAsked
Silent == [at |-> "none", version |-> 0]
Sent == [at |-> "sent", version |-> 0]

PollingInit ==
  /\ version = 0 /\ up = TRUE
  /\ enabled = FALSE /\ effect = 0 /\ timer = FALSE
  /\ flight = [e \in Ids |-> Silent]
  /\ shown = 0
  /\ asked = 0 /\ listed = 0 /\ loading = FALSE
  /\ calls = [i \in Ids |-> Silent]
  /\ clicks \in Nat

Click == clicks > 0 /\ clicks' = clicks - 1

(***************************************************************************)
(* The server, the network and the browser                                  *)
(***************************************************************************)
ServerTurns ==
  /\ Click
  /\ \/ version < MaxVersion /\ version' = version + 1 /\ UNCHANGED up
     \/ up' = ~up /\ UNCHANGED version
  /\ UNCHANGED <<poller, flight, list, calls>>

Reply == IF up THEN [at |-> "answered", version |-> version]
         ELSE [at |-> "failed", version |-> 0]

Serve(e) ==
  /\ flight[e] = Sent
  /\ flight' = [flight EXCEPT ![e] = Reply]
  /\ UNCHANGED <<version, up, poller, list, calls, clicks>>

ServeCall(i) ==
  /\ calls[i] = Sent
  /\ calls' = [calls EXCEPT ![i] = Reply]
  /\ UNCHANGED <<version, up, poller, flight, list, clicks>>

(***************************************************************************)
(* usePolling                                                               *)
(***************************************************************************)
\* tick(), which does nothing while the effect waits for an answer.
Ticked(e) ==
  flight' = IF flight[e] = Silent THEN [flight EXCEPT ![e] = Sent] ELSE flight

\* The effect runs when the hook is enabled, and asks at once.
Enable ==
  /\ Click /\ ~enabled /\ effect < MaxAsked
  /\ enabled' = TRUE
  /\ effect' = effect + 1
  /\ Ticked(effect + 1)
  /\ UNCHANGED <<version, up, timer, shown, list, calls>>

\* The clean-up: cancelled is set and the timer cleared.
Disable ==
  /\ Click /\ enabled
  /\ enabled' = FALSE
  /\ timer' = FALSE
  /\ UNCHANGED <<version, up, effect, flight, shown, list, calls>>

\* refresh() calls the tick of the last effect, cleaned up or not; so does the
\* tab that comes to the front, while the effect listens.
RefreshNow ==
  /\ Click /\ effect > 0
  /\ Ticked(effect)
  /\ UNCHANGED <<version, up, poller, list, calls>>

TimerFires ==
  /\ timer
  /\ timer' = FALSE
  /\ Ticked(effect)
  /\ UNCHANGED <<version, up, enabled, effect, shown, list, calls, clicks>>

\* The answer arrives: dropped if the effect was cleaned up, else shown, and
\* the timer set anew after an answer and after a failure.
Receive_Stuck(e) ==
  /\ flight[e].at \in {"answered", "failed"}
  /\ flight' = IF flight[e].at = "failed" THEN flight ELSE [flight EXCEPT ![e] = Silent]
  /\ IF enabled /\ e = effect
     THEN /\ timer' = TRUE
          /\ shown' = IF flight[e].at = "answered" THEN flight[e].version ELSE shown
     ELSE UNCHANGED <<timer, shown>>
  /\ UNCHANGED <<version, up, enabled, effect, list, calls, clicks>>

Receive(e) ==
  /\ flight[e].at \in {"answered", "failed"}
  /\ flight' = [flight EXCEPT ![e] = Silent]
  /\ IF enabled /\ e = effect
     THEN /\ timer' = TRUE
          /\ shown' = IF flight[e].at = "answered" THEN flight[e].version ELSE shown
     ELSE UNCHANGED <<timer, shown>>
  /\ UNCHANGED <<version, up, enabled, effect, list, calls, clicks>>

(***************************************************************************)
(* useSessionList                                                           *)
(***************************************************************************)
RefreshList ==
  /\ Click /\ asked < MaxAsked
  /\ asked' = asked + 1
  /\ calls' = [calls EXCEPT ![asked + 1] = Sent]
  /\ loading' = TRUE
  /\ UNCHANGED <<version, up, poller, flight, listed>>

\* Only the answer to the newest request counts.
Newest_Any(i) == TRUE

Newest(i) == i = asked

ReceiveList(i) ==
  /\ calls[i].at \in {"answered", "failed"}
  /\ calls' = [calls EXCEPT ![i] = Silent]
  /\ IF Newest(i)
     THEN /\ listed' = IF calls[i].at = "answered" THEN calls[i].version ELSE listed
          /\ loading' = FALSE
     ELSE UNCHANGED <<listed, loading>>
  /\ UNCHANGED <<version, up, poller, flight, asked, clicks>>

PollingNext ==
  \/ ServerTurns \/ Enable \/ Disable \/ RefreshNow \/ TimerFires \/ RefreshList
  \/ \E i \in Ids : Serve(i) \/ Receive(i) \/ ServeCall(i) \/ ReceiveList(i)

Requests == [at : {"none", "sent", "answered", "failed"}, version : 0..MaxVersion]

PollingTypeOK ==
  /\ {version, shown, listed} \subseteq 0..MaxVersion
  /\ {effect, asked} \subseteq 0..MaxAsked
  /\ {up, enabled, timer, loading} \subseteq BOOLEAN
  /\ flight \in [Ids -> Requests] /\ calls \in [Ids -> Requests]
  /\ clicks \in Nat

(***************************************************************************)
(* Properties                                                               *)
(***************************************************************************)
\* "Without this, an older answer arriving later could overwrite fresher data
\* already shown" (useSessionList.ts:77): neither the list nor what a poller
\* shows ever goes back to an older state of the server, in whatever order
\* answers arrive and however often the poller is turned off and on.
LateAnswersAreDropped == [][shown' >= shown /\ listed' >= listed]_pollingVars

\* "a manual retry reuses the same loop", "guarantees progress in every
\* circumstance" (usePolling.ts:41,122): a poller that stays enabled comes to
\* show what a server that is there has to say, whatever timers, refreshes,
\* failures and earlier effects did before; and the list stops loading.
PollGoesOn ==
  /\ <>[](enabled /\ up) => <>[](shown = version)
  /\ []<>~loading
=============================================================================
