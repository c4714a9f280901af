----------------------------- MODULE ObexServer -----------------------------
(***************************************************************************)
(* Receiving files: bluetooth_obex_server_*                                *)
(* (lib/bluetooth-obex-server-api.c) and the obexd that asks it whether a  *)
(* push may come in and tells it how the transfers go.                     *)
(*                                                                         *)
(* One slot holds the call to answer and what it is about; the transfers   *)
(* that have started are in a list.  accept_connection runs the main loop  *)
(* inside itself until a transfer starts, and has the next push accepted   *)
(* without asking.  A push is named by a number; 0 stands for NULL.        *)
(***************************************************************************)
EXTENDS Naturals, Sequences, FiniteSets, SequencesExt

CONSTANTS
  MaxPushes,    \* bound on the files other devices send
  MaxInits,     \* bound on the initialisations
  MaxRestarts   \* bound on how often the adapter goes

ASSUME ObexServerAssumption ==
  MaxPushes \in Nat /\ MaxInits \in Nat /\ MaxRestarts \in Nat

VARIABLES
  obex_server_agent,  \* TRUE: the agent is registered with obexd
  system_bus,         \* TRUE: questions about connections come to the library
  reply_context,      \* the call of the last Authorize, never cleared
  transfer_path,      \* the push its path, file name and device name are of
  transfers,          \* the list
  auto_authorize,
  waiting,            \* accept_connection is in its main loop
  careful,            \* the application answers no question it could know is over
  asked, knocking,    \* pushes and connections it was asked about, not answered
  inits, restarts,    \* bounded
  enabled,            \* the adapter is there
  session,            \* what obexd and the framework agent do with each push
  answers,            \* how often the call of each push was answered
  inbox,              \* messages of obexd and the agent not yet dispatched
  permits, unasked    \* history: connections accepted, pushes let in unasked

slotVars == <<reply_context, transfer_path>>
libVars == <<obex_server_agent, system_bus, slotVars, transfers, auto_authorize,
             waiting>>
appVars == <<careful, asked, knocking>>
counters == <<inits, restarts>>
history == <<permits, unasked>>
vars == <<libVars, appVars, counters, enabled, session, answers, inbox, history>>

Push == 1..MaxPushes
SessionState ==
  {"none", "connecting", "connected", "authorizing", "sending", "over"}
Msg(kind, k) == [kind |-> kind, push |-> k]

Init ==
  /\ obex_server_agent = FALSE /\ system_bus = FALSE
  /\ reply_context = 0 /\ transfer_path = 0
  /\ transfers = {} /\ auto_authorize = FALSE /\ waiting = FALSE
  /\ careful \in BOOLEAN /\ asked = {} /\ knocking = {}
  /\ inits = 0 /\ restarts = 0
  /\ enabled = TRUE
  /\ session = [k \in Push |-> "none"]
  /\ answers = [k \in Push |-> 0]
  /\ inbox = <<>>
  /\ permits = 0 /\ unasked = {}

(***************************************************************************)
(* obexd, the framework agent, the remote devices and the adapter.         *)
(***************************************************************************)

\* A device connects, one at a time.  With the filter the framework agent asks the
\* library, without it has decided by itself or with a popup.
Connect(k) ==
  /\ session[k] = "none" /\ enabled /\ obex_server_agent
  /\ \A j \in Push : (j < k => session[j] # "none") /\ session[j] # "connecting"
  /\ IF system_bus
     THEN /\ session' = [session EXCEPT ![k] = "connecting"]
          /\ inbox' = Append(inbox, Msg("CONNECTION", k))
     ELSE /\ session' = [session EXCEPT ![k] = "connected"]
          /\ UNCHANGED inbox
  /\ UNCHANGED <<libVars, appVars, counters, enabled, answers, history>>

\* obexd asks about one push at a time.
Authorize(k) ==
  /\ session[k] = "connected" /\ obex_server_agent
  /\ \A j \in Push : session[j] # "authorizing"
  /\ session' = [session EXCEPT ![k] = "authorizing"]
  /\ inbox' = Append(inbox, Msg("AUTHORIZE", k))
  /\ UNCHANGED <<libVars, appVars, counters, enabled, answers, history>>

\* A transfer of another profile, file transfer, which obexd does not ask about.
OtherTransfer(k) ==
  /\ session[k] = "connected"
  /\ session' = [session EXCEPT ![k] = "sending"]
  /\ inbox' = Append(inbox, Msg("STARTED", k))
  /\ UNCHANGED <<libVars, appVars, counters, enabled, answers, history>>

\* The sessions of K are over; obexd says so of those that had come to a transfer.
Ends(K, rest) ==
  LET had == SetToSeq({k \in K : session[k] \in {"authorizing", "sending"}})
  IN /\ session' = [k \in Push |-> IF k \in K THEN "over" ELSE session[k]]
     /\ inbox' = rest \o [i \in DOMAIN had |-> Msg("COMPLETED", had[i])]

\* The file j is complete and k is the next one of the same device.
NextFile(j, k) ==
  /\ session[j] = "sending" /\ session[k] = "none"
  /\ \A i \in 1..(k - 1) : session[i] # "none"
  /\ session' = [session EXCEPT ![j] = "over", ![k] = "connected"]
  /\ inbox' = Append(inbox, Msg("COMPLETED", j))
  /\ UNCHANGED <<libVars, appVars, counters, enabled, answers, history>>

Live == {k \in Push : session[k] \notin {"none", "over"}}

\* The file is complete, the device gives up, or a wait of obexd or of the
\* framework agent has timed out.
SessionEnds(k) ==
  /\ k \in Live
  /\ Ends({k}, inbox)
  /\ UNCHANGED <<libVars, appVars, counters, enabled, answers, history>>

AdapterGoes ==
  /\ enabled /\ restarts < MaxRestarts
  /\ enabled' = FALSE /\ restarts' = restarts + 1
  /\ Ends(Live, inbox)
  /\ UNCHANGED <<libVars, appVars, inits, answers, history>>

AdapterAppears ==
  /\ ~enabled
  /\ enabled' = TRUE
  /\ UNCHANGED <<libVars, appVars, counters, session, answers, inbox, history>>

(***************************************************************************)
(* Initialisation.                                                         *)
(***************************************************************************)

\* bluetooth_obex_server_init; _init_without_agent when there is a filter.
bluetooth_obex_server_init(filter) ==
  /\ enabled /\ ~obex_server_agent /\ inits < MaxInits
  /\ obex_server_agent' = TRUE /\ system_bus' = filter
  /\ inits' = inits + 1
  /\ UNCHANGED <<slotVars, transfers, auto_authorize, waiting, appVars, restarts,
                 enabled, session, answers, inbox, history>>

\* bluetooth_obex_server_deinit, or _deinit_without_agent for the application that has
\* the filter.  The slot, the list and auto_authorize stay.  The application forgets
\* what it was asked.
bluetooth_obex_server_deinit ==
  /\ enabled /\ obex_server_agent
  /\ obex_server_agent' = FALSE /\ system_bus' = FALSE
  /\ asked' = {} /\ knocking' = {}
  /\ UNCHANGED <<slotVars, transfers, auto_authorize, waiting, careful, counters,
                 enabled, session, answers, inbox, history>>

(***************************************************************************)
(* Answers.                                                                *)
(***************************************************************************)

\* The call of push k is answered; obexd heeds the answer while it waits for it.
\* rest is what is left to dispatch.
Reply(k, accept, rest) ==
  /\ answers' = [answers EXCEPT ![k] = @ + 1]
  /\ IF session[k] = "authorizing"
     THEN IF accept
          THEN /\ session' = [session EXCEPT ![k] = "sending"]
               /\ inbox' = Append(rest, Msg("STARTED", k))
          ELSE Ends({k}, rest)
     ELSE inbox' = rest /\ UNCHANGED session

\* bluetooth_obex_server_accept_authorize and _reject_authorize.  The application
\* answers what it was asked about push k; the call in the slot gets the answer.
reply_authorize(k, accept) ==
  /\ enabled /\ obex_server_agent /\ k \in asked
  /\ Reply(reply_context, accept, inbox)
  /\ asked' = asked \ {k}
  /\ transfer_path' = IF accept THEN transfer_path ELSE 0
  /\ UNCHANGED <<obex_server_agent, system_bus, reply_context, transfers,
                 auto_authorize, waiting, careful, knocking, counters, enabled,
                 history>>

\* The framework agent takes the answer for the device that waits now, whichever
\* the application has in mind; with none ReplyAuthorize fails.
Answered(k, state) ==
  /\ k \in knocking /\ knocking' = knocking \ {k}
  /\ session' = [j \in Push |->
                   IF session[j] = "connecting" THEN state ELSE session[j]]

\* A careful application gives up an earlier question when it lets a device in.
bluetooth_obex_server_accept_connection(k) ==
  /\ ~waiting
  /\ Answered(k, "connected")
  /\ IF session' = session
     THEN UNCHANGED <<auto_authorize, waiting, asked, permits>>
     ELSE /\ auto_authorize' = TRUE /\ waiting' = TRUE
          /\ asked' = IF careful THEN {} ELSE asked
          /\ permits' = permits + 1
  /\ UNCHANGED <<obex_server_agent, system_bus, slotVars, transfers, careful,
                 counters, enabled, answers, inbox, unasked>>

bluetooth_obex_server_reject_connection(k) ==
  /\ Answered(k, "over")
  /\ UNCHANGED <<libVars, careful, asked, counters, enabled, answers, inbox,
                 history>>

\* BLOCK_MAX_TIMEOUT is over.  auto_authorize stays TRUE.
accept_connection_timeout ==
  /\ waiting
  /\ waiting' = FALSE
  /\ UNCHANGED <<obex_server_agent, system_bus, slotVars, transfers,
                 auto_authorize, appVars, counters, enabled, session, answers,
                 inbox, history>>

\* bluetooth_obex_server_cancel_transfer of one, or _cancel_all_transfers.
cancel_transfers(K) ==
  /\ enabled /\ obex_server_agent
  /\ K # {} /\ K \subseteq transfers /\ (Cardinality(K) = 1 \/ K = transfers)
  /\ Ends(K \cap Live, inbox)
  /\ UNCHANGED <<libVars, appVars, counters, enabled, answers, history>>

(***************************************************************************)
(* The main loop.  rest is what is left to dispatch.                       *)
(***************************************************************************)

\* The event CONNECTION_AUTHORIZE.
obex_authorize_event_filter(k, rest) ==
  /\ knocking' = knocking \cup {k}
  /\ inbox' = rest
  /\ UNCHANGED <<libVars, careful, asked, counters, enabled, session, answers,
                 history>>

\* Mutant: the event is raised although the push has been accepted.
authorize_callback_asks(k, rest) ==
  /\ reply_context' = k /\ transfer_path' = k
  /\ IF auto_authorize /\ enabled
     THEN /\ Reply(k, TRUE, rest)
          /\ unasked' = {j \in Push : j \in unasked \/ session'[j] # session[j]}
     ELSE inbox' = rest /\ UNCHANGED <<session, answers, unasked>>
  /\ asked' = IF careful THEN {k} ELSE asked \cup {k}
  /\ UNCHANGED <<obex_server_agent, system_bus, transfers, auto_authorize, waiting,
                 careful, knocking, counters, enabled, permits>>

\* The new call takes the slot, whatever is in it; accepted at once, unless the
\* adapter has gone, or told by TRANSFER_AUTHORIZE.
authorize_callback(k, rest) ==
  /\ reply_context' = k /\ transfer_path' = k
  /\ IF auto_authorize
     THEN /\ IF enabled
             THEN Reply(k, TRUE, rest)
             ELSE inbox' = rest /\ UNCHANGED <<session, answers>>
          /\ unasked' = {j \in Push : j \in unasked \/ session'[j] # session[j]}
          /\ UNCHANGED asked
     ELSE /\ asked' = IF careful THEN {k} ELSE asked \cup {k}
          /\ inbox' = rest
          /\ UNCHANGED <<session, answers, unasked>>
  /\ UNCHANGED <<obex_server_agent, system_bus, transfers, auto_authorize, waiting,
                 careful, knocking, counters, enabled, permits>>

\* Mutant: only a push from the slot is put into the list.
transfer_started_cb_pushes_only(k, rest) ==
  /\ IF k = transfer_path
     THEN /\ transfers' = transfers \cup {k} /\ transfer_path' = 0
          /\ auto_authorize' = FALSE
          /\ waiting' = (waiting /\ ~auto_authorize)
     ELSE UNCHANGED <<transfers, transfer_path, auto_authorize, waiting>>
  /\ inbox' = rest
  /\ UNCHANGED <<obex_server_agent, system_bus, reply_context, appVars, counters,
                 enabled, session, answers, history>>

\* Mutant: auto_authorize is reset only while accept_connection waits.
transfer_started_cb_late(k, rest) ==
  /\ IF k = transfer_path \/ session[k] = "sending"
     THEN /\ transfers' = transfers \cup {k}
          /\ transfer_path' = IF k = transfer_path THEN 0 ELSE transfer_path
          /\ auto_authorize' = (auto_authorize /\ ~waiting)
          /\ waiting' = (waiting /\ ~auto_authorize)
     ELSE UNCHANGED <<transfers, transfer_path, auto_authorize, waiting>>
  /\ inbox' = rest
  /\ UNCHANGED <<obex_server_agent, system_bus, reply_context, appVars, counters,
                 enabled, session, answers, history>>

\* Only obexd can tell about a transfer that is not the one in the slot, and it
\* cannot when that is over.
transfer_started_cb(k, rest) ==
  /\ IF k = transfer_path \/ session[k] = "sending"
     THEN /\ transfers' = transfers \cup {k}
          /\ transfer_path' = IF k = transfer_path THEN 0 ELSE transfer_path
          /\ auto_authorize' = FALSE
          /\ waiting' = (waiting /\ ~auto_authorize)
     ELSE UNCHANGED <<transfers, transfer_path, auto_authorize, waiting>>
  /\ inbox' = rest
  /\ UNCHANGED <<obex_server_agent, system_bus, reply_context, appVars, counters,
                 enabled, session, answers, history>>

transfer_completed_cb(k, rest) ==
  /\ transfers' = transfers \ {k}
  /\ inbox' = rest
  /\ UNCHANGED <<obex_server_agent, system_bus, slotVars, auto_authorize, waiting,
                 appVars, counters, enabled, session, answers, history>>

\* Nobody is registered for it.  An Authorize call ends in an error.
Unheard(m, rest) ==
  /\ IF m.kind = "AUTHORIZE"
     THEN Ends({m.push} \cap Live, rest)
     ELSE inbox' = rest /\ UNCHANGED session
  /\ UNCHANGED <<libVars, appVars, counters, enabled, answers, history>>

Heard(kind) == IF kind = "CONNECTION" THEN system_bus ELSE obex_server_agent

Dispatch ==
  /\ inbox # <<>>
  /\ LET m == Head(inbox)
         rest == Tail(inbox)
     IN \/ ~Heard(m.kind) /\ Unheard(m, rest)
        \/ Heard(m.kind) /\ m.kind = "CONNECTION"
           /\ obex_authorize_event_filter(m.push, rest)
        \/ Heard(m.kind) /\ m.kind = "AUTHORIZE" /\ authorize_callback(m.push, rest)
        \/ Heard(m.kind) /\ m.kind = "STARTED" /\ transfer_started_cb(m.push, rest)
        \/ Heard(m.kind) /\ m.kind = "COMPLETED"
           /\ transfer_completed_cb(m.push, rest)

Application ==
  \/ \E filter \in BOOLEAN : bluetooth_obex_server_init(filter)
  \/ bluetooth_obex_server_deinit
  \/ \E k \in Push, accept \in BOOLEAN : reply_authorize(k, accept)
  \/ \E k \in Push : bluetooth_obex_server_accept_connection(k)
  \/ \E k \in Push : bluetooth_obex_server_reject_connection(k)
  \/ accept_connection_timeout
  \/ \E K \in SUBSET transfers : cancel_transfers(K)

World ==
  \/ \E k \in Push : Connect(k)
  \/ \E k \in Push : Authorize(k)
  \/ \E k \in Push : OtherTransfer(k)
  \/ \E j, k \in Push : NextFile(j, k)
  \/ \E k \in Push : SessionEnds(k)
  \/ AdapterGoes
  \/ AdapterAppears

\* dbus-glib frees a call when it is answered: what the program does after a second
\* answer is undefined, and the model ends there.
Defined == \A k \in Push : answers[k] <= 1

Next == Defined /\ (Application \/ Dispatch \/ World)

Spec == Init /\ [][Next]_vars

(***************************************************************************)
(* Properties.                                                             *)
(***************************************************************************)

\* The one slot is enough while obexd waits: the answer to a push it waits for goes
\* to that push, and no call of a careful application, one that answers only the last
\* question, is answered twice (__bt_authorize_callback, reply_authorize).
AnswersReachTheirPush ==
  \A k \in asked :
    session[k] = "authorizing" \/ careful => reply_context = k /\ answers[k] = 0

\* Under the first registration a careful application lets in no more pushes without
\* a question than it let devices in, though auto_authorize outlives the call that
\* set it when that times out (accept_connection, __bt_transfer_started_cb).
OnePermissionOnePush ==
  careful /\ inits = 1 => Cardinality(unasked) <= permits

\* The list is that of obexd once its signals are dispatched, while the first
\* registration lasts: no transfer is forgotten, none kept after it has ended
\* (__bt_transfer_started_cb, __bt_transfer_completed_cb).
TransfersAreThoseOfObexd ==
  inits = 1 /\ obex_server_agent /\ inbox = <<>> =>
    transfers = {k \in Push : session[k] = "sending"}
=============================================================================
