----------------------------- MODULE GapAdapter -----------------------------
(***************************************************************************)
(* The adapter power state kept by one application in the Bluetooth        *)
(* framework library (bt_info_t in lib/bluetooth-api-common.c, the API in  *)
(* lib/bluetooth-gap-api.c).                                               *)
(*                                                                         *)
(* The library runs on the GLib main loop of one thread, so an API call, a *)
(* D-Bus reply, a D-Bus signal and a timer callback are each one atomic    *)
(* step, and any two of them interleave.  The environment (BlueZ and the   *)
(* framework agent) is the most general one here: every reply and signal   *)
(* may arrive whenever the library would dispatch it.  AdapterPower        *)
(* composes this module with the agent and with BlueZ.                     *)
(***************************************************************************)
EXTENDS Naturals

CONSTANT MaxRequests    \* bound on the enable/disable requests accepted

ASSUME MaxRequestsAssumption == MaxRequests \in Nat

VARIABLES
  application_pid,       \* TRUE: the session is initialised (pid # 0)
  bt_cb_ptr,             \* TRUE: the application registered a callback
  bt_adapter_state,      \* the library's view of the adapter
  bt_change_state_timer, \* TRUE: the 30 second g_timeout is armed
  adapter_proxy,         \* TRUE: adapter_proxy # NULL
  agent_proxy,           \* "null", "live", or "freed" (unref'd, not reset)
  req,                   \* number of requests accepted so far (ghost)
  calls,                 \* the requests whose ConfirmMode call is unanswered
  orphans,               \* those of calls made through a replaced agent_proxy
  event                  \* the event the step delivers to the application

vars == <<application_pid, bt_cb_ptr, bt_adapter_state, bt_change_state_timer,
          adapter_proxy, agent_proxy, req, calls, orphans, event>>

AdapterStates == {"DISABLED", "ENABLED", "CHANGING_ENABLE", "CHANGING_DISABLE"}
Results == {"NONE", "TIMEOUT", "CANCEL_BY_USER"}
NoEvent == [name |-> "NO_EVENT", result |-> "NONE"]
Events == {NoEvent} \cup [name : {"ENABLED", "DISABLED"}, result : Results]

IsChanging(state) == state \in {"CHANGING_ENABLE", "CHANGING_DISABLE"}
Changing == IsChanging(bt_adapter_state)

Init ==
  /\ application_pid = FALSE
  /\ bt_cb_ptr = FALSE
  /\ bt_adapter_state = "DISABLED"
  /\ bt_change_state_timer = FALSE
  /\ adapter_proxy = FALSE
  /\ agent_proxy = "null"
  /\ req = 0
  /\ calls = {}
  /\ orphans = {}
  /\ event = NoEvent

(***************************************************************************)
(* Helpers of the handlers.                                                *)
(***************************************************************************)

\* Mutant: a failure is not passed on to the application.
event_cb_success_only(name, result) ==
  event' = IF bt_cb_ptr /\ result = "NONE"
           THEN [name |-> name, result |-> result] ELSE NoEvent

\* _bluetooth_internal_event_cb: nothing is delivered without a callback.
event_cb(name, result) ==
  event' = IF bt_cb_ptr THEN [name |-> name, result |-> result] ELSE NoEvent

\* Mutant: a session that finds no adapter keeps the state of the last one.
StateAfterInit_stale(live, bus) ==
  IF ~application_pid /\ live THEN "ENABLED" ELSE bt_adapter_state

\* _bluetooth_internal_session_init runs only when no session is open.  It
\* reads the default adapter (live: DefaultAdapter succeeds) unless the system
\* bus cannot be reached, in which case it makes no proxy at all.
StateAfterInit(live, bus) ==
  IF application_pid \/ ~bus THEN bt_adapter_state
  ELSE IF live THEN "ENABLED" ELSE "DISABLED"

session_init(live, bus) ==
  /\ application_pid' = TRUE
  /\ IF application_pid \/ ~bus
     THEN UNCHANGED <<adapter_proxy, agent_proxy>>
     ELSE /\ agent_proxy' = "live"
          /\ adapter_proxy' = live

\* A session without the system bus (which reads no adapter either) is modelled
\* only while no proxy was ever made: later the code would use freed proxies.
BusOutcome(live, bus) ==
  \/ bus /\ (application_pid /\ agent_proxy = "null" => ~live)
  \/ ~bus /\ ~live /\ ~application_pid /\ agent_proxy = "null"

\* The library's handlers are connected to D-Bus signals.
Connected == application_pid /\ agent_proxy = "live"

(***************************************************************************)
(* The application's calls.                                                *)
(***************************************************************************)

bluetooth_register_callback(live, bus) ==
  /\ BusOutcome(live, bus)
  /\ session_init(live, bus)
  /\ bt_adapter_state' = StateAfterInit(live, bus)
  /\ bt_cb_ptr' = TRUE
  /\ event' = NoEvent
  /\ UNCHANGED <<bt_change_state_timer, req, calls, orphans>>

\* The session ends.  Unreferencing agent_proxy cancels the calls pending on
\* it, not those of a proxy it replaced; the adapter state keeps its value.
bluetooth_unregister_callback ==
  /\ application_pid
  /\ application_pid' = FALSE
  /\ bt_cb_ptr' = FALSE
  /\ bt_change_state_timer' = FALSE
  /\ adapter_proxy' = FALSE
  /\ agent_proxy' = IF agent_proxy = "live" THEN "freed" ELSE agent_proxy
  /\ calls' = orphans
  /\ event' = NoEvent
  /\ UNCHANGED <<bt_adapter_state, req, orphans>>

\* Mutant: the timer is not armed.
internal_change_adapter_untimed(sent) ==
  /\ req' = req + 1
  /\ calls' = IF sent THEN calls \cup {req + 1} ELSE calls
  /\ UNCHANGED bt_change_state_timer

\* The state changes first; then ConfirmMode is called on the agent, and the
\* timer is armed only if the call could be sent.  Without an agent_proxy it
\* cannot, and the API returns BLUETOOTH_ERROR_INTERNAL.
internal_change_adapter(sent) ==
  /\ req' = req + 1
  /\ IF sent
     THEN /\ bt_change_state_timer' = TRUE
          /\ calls' = calls \cup {req + 1}
     ELSE UNCHANGED <<bt_change_state_timer, calls>>

\* A request is refused when BlueZ is already in the wanted state or while a
\* change is in progress.
bluetooth_enable_adapter(live, bus) ==
  /\ BusOutcome(live, bus)
  /\ session_init(live, bus)
  /\ IF live \/ IsChanging(StateAfterInit(live, bus))
     THEN /\ bt_adapter_state' = StateAfterInit(live, bus)
          /\ UNCHANGED <<req, bt_change_state_timer, calls>>
     ELSE /\ req < MaxRequests
          /\ bt_adapter_state' = "CHANGING_ENABLE"
          /\ internal_change_adapter(agent_proxy' = "live")
  /\ event' = NoEvent
  /\ UNCHANGED <<bt_cb_ptr, orphans>>

bluetooth_disable_adapter(live, bus) ==
  /\ BusOutcome(live, bus)
  /\ session_init(live, bus)
  /\ IF ~live \/ IsChanging(StateAfterInit(live, bus))
     THEN /\ bt_adapter_state' = StateAfterInit(live, bus)
          /\ UNCHANGED <<req, bt_change_state_timer, calls>>
     ELSE /\ req < MaxRequests
          /\ bt_adapter_state' = "CHANGING_DISABLE"
          /\ internal_change_adapter(agent_proxy' = "live")
  /\ event' = NoEvent
  /\ UNCHANGED <<bt_cb_ptr, orphans>>

(***************************************************************************)
(* Replies, signals and the timer.                                         *)
(***************************************************************************)

\* Mutant: the failure is reported and the state is not restored.
revert_change_keeps_state(result) ==
  /\ UNCHANGED bt_adapter_state
  /\ event_cb(IF bt_adapter_state = "CHANGING_ENABLE" THEN "ENABLED" ELSE "DISABLED",
              result)

\* A change that fails: the state goes back to what it was before the request,
\* and the application learns the result.  In a settled state nothing happens.
revert_change(result) ==
  CASE bt_adapter_state = "CHANGING_ENABLE" ->
         bt_adapter_state' = "DISABLED" /\ event_cb("ENABLED", result)
    [] bt_adapter_state = "CHANGING_DISABLE" ->
         bt_adapter_state' = "ENABLED" /\ event_cb("DISABLED", result)
    [] OTHER -> UNCHANGED bt_adapter_state /\ event' = NoEvent

\* The oldest unanswered call is answered: the agent serves calls in order.
Answered(c) == c \in calls /\ \A d \in calls : c <= d

\* The reply to the ConfirmMode call of request c.  The callback does not know
\* which request it answers: an error reverts whatever change is in progress.
change_state_req_finish_cb(c, failed) ==
  /\ Answered(c)
  /\ calls' = calls \ {c}
  /\ orphans' = orphans \ {c}
  /\ IF failed
     THEN /\ bt_change_state_timer' = FALSE
          /\ revert_change("CANCEL_BY_USER")
     ELSE /\ event' = NoEvent
          /\ UNCHANGED <<bt_change_state_timer, bt_adapter_state>>
  /\ UNCHANGED <<application_pid, bt_cb_ptr, adapter_proxy, agent_proxy, req>>

change_status_timeout_cb ==
  /\ bt_change_state_timer
  /\ bt_change_state_timer' = FALSE
  /\ revert_change("TIMEOUT")
  /\ UNCHANGED <<application_pid, bt_cb_ptr, adapter_proxy, agent_proxy, req,
                 calls, orphans>>

\* Mutant: the enabled event leaves the timer running.
adapter_added_cb_keeps_timer ==
  /\ Connected
  /\ adapter_proxy' = TRUE /\ bt_adapter_state' = "ENABLED"
  /\ event_cb("ENABLED", "NONE")
  /\ UNCHANGED <<application_pid, bt_cb_ptr, bt_change_state_timer, agent_proxy,
                 req, calls, orphans>>

\* AdapterAdded for hci0: a new adapter proxy, then the enabled event.
adapter_added_cb ==
  /\ Connected
  /\ adapter_proxy' = TRUE
  /\ bt_adapter_state' = "ENABLED"
  /\ bt_change_state_timer' = FALSE
  /\ event_cb("ENABLED", "NONE")
  /\ UNCHANGED <<application_pid, bt_cb_ptr, agent_proxy, req, calls, orphans>>

\* AdapterRemoved for hci0 drops the adapter proxy and leaves the state.
adapter_removed_cb ==
  /\ Connected
  /\ adapter_proxy
  /\ adapter_proxy' = FALSE
  /\ event' = NoEvent
  /\ UNCHANGED <<application_pid, bt_cb_ptr, bt_adapter_state, agent_proxy,
                 bt_change_state_timer, req, calls, orphans>>

\* NameOwnerChanged: BlueZ left the bus.
bluez_terminated ==
  /\ Connected
  /\ bt_adapter_state' = "DISABLED"
  /\ bt_change_state_timer' = FALSE
  /\ event_cb("DISABLED", "NONE")
  /\ UNCHANGED <<application_pid, bt_cb_ptr, adapter_proxy, agent_proxy, req,
                 calls, orphans>>

\* NameOwnerChanged: the agent started or left.  The old proxy is dropped
\* without being unreferenced, and its pending calls live on.
agent_owner_changed ==
  /\ Connected
  /\ orphans' = calls
  /\ event' = NoEvent
  /\ UNCHANGED <<application_pid, bt_cb_ptr, bt_adapter_state, adapter_proxy,
                 bt_change_state_timer, agent_proxy, req, calls>>

-----------------------------------------------------------------------------

ApplicationCall ==
  \/ \E live, bus \in BOOLEAN : bluetooth_register_callback(live, bus)
  \/ bluetooth_unregister_callback
  \/ \E live, bus \in BOOLEAN : bluetooth_enable_adapter(live, bus)
  \/ \E live, bus \in BOOLEAN : bluetooth_disable_adapter(live, bus)

Signal ==
  \/ adapter_added_cb
  \/ adapter_removed_cb
  \/ bluez_terminated
  \/ agent_owner_changed

Next ==
  \/ ApplicationCall
  \/ Signal
  \/ \E c \in calls, failed \in BOOLEAN : change_state_req_finish_cb(c, failed)
  \/ change_status_timeout_cb

\* The main loop dispatches an armed timer.
Fairness == WF_vars(change_status_timeout_cb)

Spec == Init /\ [][Next]_vars /\ Fairness

(***************************************************************************)
(* Properties.                                                             *)
(***************************************************************************)

\* Every variable has its type; the unanswered calls are those of accepted
\* requests, and the calls of replaced proxies are among them.
TypeOK ==
  /\ application_pid \in BOOLEAN
  /\ bt_cb_ptr \in BOOLEAN
  /\ bt_adapter_state \in AdapterStates
  /\ bt_change_state_timer \in BOOLEAN
  /\ adapter_proxy \in BOOLEAN
  /\ agent_proxy \in {"null", "live", "freed"}
  /\ req \in Nat /\ req <= MaxRequests
  /\ calls \subseteq 1..req
  /\ orphans \subseteq calls
  /\ event \in Events

\* The 30 second timer is armed only while a change is in progress in an open
\* session: whichever of the reply, the signals, the deinit and the timer ends
\* the change, no timer survives to report the timeout of a settled adapter
\* (the "Wrong adapter state" branch of the timeout callback is unreachable).
TimerWatchesChange == bt_change_state_timer => Changing /\ Connected

\* Conversely a change in progress is always watched by the timer, so that an
\* agent or a BlueZ that never answers cannot leave the API in progress.
ChangeIsWatched == Changing /\ Connected => bt_change_state_timer

\* An event tells the application the state the library is in from then on:
\* success means the state named, a failure the state before the request.
EventTellsState ==
  event # NoEvent =>
    bt_adapter_state =
      IF (event.name = "ENABLED") = (event.result = "NONE")
      THEN "ENABLED" ELSE "DISABLED"

\* The library keeps the promise of AdapterService: one change at a time, every change
\* ended by one outcome, every outcome told when it ends the change, and no failure
\* told that ended nothing.
Service == INSTANCE AdapterService
             WITH open <- application_pid, listening <- bt_cb_ptr,
                  view <- bt_adapter_state, told <- event

ImplementsService == Service!Spec

\* Every change comes to an end, by the timer if by nothing else.
ChangeEnds == (Changing /\ Connected) ~> (~Changing \/ ~application_pid)
=============================================================================
