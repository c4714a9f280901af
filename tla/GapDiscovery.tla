---------------------------- MODULE GapDiscovery ----------------------------
(***************************************************************************)
(* Device discovery: bluetooth_start_discovery, bluetooth_cancel_discovery *)
(* (lib/bluetooth-gap-api.c) and the handler of BlueZ's Discovering        *)
(* property (lib/bluetooth-api-common.c), with the BlueZ they talk to.     *)
(*                                                                         *)
(* A method call to BlueZ blocks the library and sees what BlueZ is doing  *)
(* now; its signals wait in inbox until the main loop dispatches them, so  *)
(* the library compares an old signal with a new answer.                   *)
(***************************************************************************)
EXTENDS Naturals, Sequences, FiniteSets, SequencesExt

CONSTANTS
  MaxInbox,      \* bound on the signals that wait
  MaxResTimers,  \* bound on the 200 ms timers pending at once
  MaxLeaked      \* bound on the adapter proxies leaked

\* A timer for every handler of one signal, so that no signal is held forever.
BoundsAssumption ==
  /\ MaxInbox \in Nat /\ MaxResTimers \in Nat /\ MaxLeaked \in Nat
  /\ MaxResTimers > MaxLeaked

VARIABLES
  application_pid,     \* TRUE: the session is initialised
  bt_cb_ptr,           \* TRUE: the application has a callback
  adapter_proxy,       \* TRUE: adapter_proxy # NULL, its signals connected
  leaked,              \* overwritten adapter proxies, still connected
  is_discovering,      \* the library's view of Discovering
  is_discovery_cancel, \* the next end of a discovery is the user's
  req_timer,           \* the 2 second bt_discovery_req_timer is armed
  res_timers,          \* 200 ms timers pending (only one id is kept)
  event,               \* the event the step delivers to the application
  \* BlueZ and the bus
  hci0,                \* the adapter exists
  discovering,         \* its Discovering property
  own_session,         \* BlueZ holds a discovery session of the application
  other_session,       \* and one of some other client
  inbox                \* signals not yet dispatched

libVars == <<application_pid, bt_cb_ptr, adapter_proxy, leaked, is_discovering,
             is_discovery_cancel, req_timer, res_timers>>
bluezVars == <<hci0, discovering, own_session, other_session>>
vars == <<libVars, event, bluezVars, inbox>>

NoEvent == [name |-> "NO_EVENT", result |-> "NONE"]
Started(result) == [name |-> "DISCOVERY_STARTED", result |-> result]
Finished(result) == [name |-> "DISCOVERY_FINISHED", result |-> result]
Events == {NoEvent, Started("NONE"), Started("TIMEOUT"),
           Finished("NONE"), Finished("CANCEL_BY_USER")}

\* The handlers that a PropertyChanged signal of the adapter runs.
Handlers == leaked + (IF adapter_proxy THEN 1 ELSE 0)

Init ==
  /\ application_pid = FALSE /\ bt_cb_ptr = FALSE
  /\ adapter_proxy = FALSE /\ leaked = 0
  /\ is_discovering = FALSE /\ is_discovery_cancel = FALSE
  /\ req_timer = FALSE /\ res_timers = 0
  /\ event = NoEvent
  /\ hci0 \in BOOLEAN /\ other_session \in {FALSE, hci0}
  /\ discovering \in {FALSE, other_session}
  /\ own_session = FALSE
  /\ inbox = <<>>

(***************************************************************************)
(* BlueZ (external).                                                       *)
(***************************************************************************)

Emit(sig) == Len(inbox) < MaxInbox /\ inbox' = Append(inbox, sig)

EmitProperty(sig) == IF Handlers > 0 THEN Emit(sig) ELSE UNCHANGED inbox

OtherClient ==
  /\ hci0
  /\ other_session' = ~other_session
  /\ event' = NoEvent
  /\ UNCHANGED <<libVars, hci0, discovering, own_session, inbox>>

InquiryStarts ==
  /\ ~discovering
  /\ own_session \/ other_session
  /\ discovering' = TRUE
  /\ EmitProperty("Discovering")
  /\ event' = NoEvent
  /\ UNCHANGED <<libVars, hci0, own_session, other_session>>

\* An inquiry ends by itself or when the last session is closed.
InquiryEnds ==
  /\ discovering
  /\ discovering' = FALSE
  /\ EmitProperty("NotDiscovering")
  /\ event' = NoEvent
  /\ UNCHANGED <<libVars, hci0, own_session, other_session>>

\* The bound on leaks: the library has room for one more adapter proxy.
RoomForProxy == leaked + Cardinality({i \in DOMAIN inbox : inbox[i] = "AdapterAdded"})
                  + (IF adapter_proxy THEN 1 ELSE 0) <= MaxLeaked

AdapterAppears ==
  /\ ~hci0
  /\ RoomForProxy \/ (adapter_proxy /\ inbox # <<>> /\ Last(inbox) = "AdapterRemoved")
  /\ hci0' = TRUE
  /\ IF application_pid THEN Emit("AdapterAdded") ELSE UNCHANGED inbox
  /\ event' = NoEvent
  /\ UNCHANGED <<libVars, discovering, own_session, other_session>>

\* The adapter goes, announced by AdapterRemoved unless BlueZ crashed.
AdapterGoes(crash) ==
  /\ hci0
  /\ hci0' = FALSE
  /\ discovering' = FALSE /\ own_session' = FALSE /\ other_session' = FALSE
  /\ IF application_pid /\ ~crash THEN Emit("AdapterRemoved") ELSE UNCHANGED inbox
  /\ event' = NoEvent
  /\ UNCHANGED libVars

(***************************************************************************)
(* The session.                                                            *)
(***************************************************************************)

\* session_init: an adapter that is there gets a proxy, and is_discovering the
\* value of its property.  The AdapterAdded handler is connected before the
\* default adapter is read, so that an adapter that appears in between (late)
\* is found and its signal is queued too.
session_init(late) ==
  IF application_pid THEN ~late /\ UNCHANGED <<adapter_proxy, hci0, inbox>>
  ELSE /\ late => ~hci0
       /\ hci0' = (hci0 \/ late)
       /\ adapter_proxy' = hci0'
       /\ IF late THEN leaked < MaxLeaked /\ Emit("AdapterAdded")
                  ELSE UNCHANGED inbox

DiscoveringAfterInit ==
  IF ~application_pid /\ hci0' THEN discovering ELSE is_discovering

bluetooth_register_callback(late) ==
  /\ session_init(late)
  /\ application_pid' = TRUE
  /\ is_discovering' = DiscoveringAfterInit
  /\ bt_cb_ptr' = TRUE
  /\ event' = NoEvent
  /\ UNCHANGED <<leaked, is_discovery_cancel, req_timer, res_timers,
                 discovering, own_session, other_session>>

\* The signals of the queue that are in kept, in their order.
Kept(queue, kept) ==
  LET at == {i \in DOMAIN queue : queue[i] \in kept}
  IN [k \in 1..Cardinality(at) |->
        queue[CHOOSE i \in at : Cardinality({j \in at : j <= i}) = k]]

\* session_deinit removes the request timer, not the 200 ms one, and the
\* current proxy, not the leaked ones.
bluetooth_unregister_callback ==
  /\ application_pid
  /\ application_pid' = FALSE
  /\ bt_cb_ptr' = FALSE
  /\ adapter_proxy' = FALSE
  /\ req_timer' = FALSE
  /\ event' = NoEvent
  /\ inbox' = Kept(inbox, IF leaked > 0 THEN {"Discovering", "NotDiscovering"}
                                        ELSE {})
  /\ UNCHANGED <<leaked, is_discovering, is_discovery_cancel, res_timers,
                 bluezVars>>

(***************************************************************************)
(* The application's calls.                                                *)
(***************************************************************************)

\* The request is refused if an inquiry is running or BlueZ refuses it;
\* otherwise BlueZ opens a session and the timer is armed (anew).
bluetooth_start_discovery(late, accepted) ==
  /\ session_init(late)
  /\ application_pid' = TRUE
  /\ is_discovering' = DiscoveringAfterInit
  /\ event' = NoEvent
  /\ IF hci0' /\ ~discovering /\ accepted
     THEN own_session' = TRUE /\ req_timer' = TRUE
     ELSE UNCHANGED <<own_session, req_timer>>
  /\ UNCHANGED <<bt_cb_ptr, leaked, is_discovery_cancel, res_timers,
                 discovering, other_session>>

\* StopDiscovery fails unless BlueZ has a session of the application.
bluetooth_cancel_discovery(late) ==
  /\ session_init(late)
  /\ application_pid' = TRUE
  /\ is_discovering' = DiscoveringAfterInit
  /\ event' = NoEvent
  /\ own_session' = FALSE
  /\ IF own_session
     THEN req_timer' = FALSE /\ is_discovery_cancel' = TRUE
     ELSE UNCHANGED <<req_timer, is_discovery_cancel>>
  /\ UNCHANGED <<bt_cb_ptr, leaked, res_timers, discovering, other_session>>

(***************************************************************************)
(* Signals and timers.                                                     *)
(***************************************************************************)

event_cb(e) == event' = IF bt_cb_ptr THEN e ELSE NoEvent

\* Discovering became TRUE: known already, or a discovery has started.
discovery_started_cb ==
  IF is_discovering
  THEN event' = NoEvent /\ UNCHANGED <<is_discovering, req_timer>>
  ELSE /\ is_discovering' = TRUE
       /\ req_timer' = FALSE
       /\ event_cb(Started("NONE"))

adapter_property_discovering ==
  /\ inbox # <<>> /\ Head(inbox) = "Discovering"
  /\ inbox' = Tail(inbox)
  /\ IF Handlers = 0
     THEN event' = NoEvent /\ UNCHANGED <<is_discovering, req_timer>>
     ELSE discovery_started_cb
  /\ UNCHANGED <<application_pid, bt_cb_ptr, adapter_proxy, leaked,
                 is_discovery_cancel, res_timers, bluezVars>>

\* Discovering became FALSE: every connected handler closes the session and
\* starts a 200 ms timer, overwriting the id of the one before.
adapter_property_not_discovering ==
  /\ inbox # <<>> /\ Head(inbox) = "NotDiscovering"
  /\ inbox' = Tail(inbox)
  /\ res_timers + Handlers <= MaxResTimers
  /\ res_timers' = res_timers + Handlers
  /\ own_session' = (own_session /\ Handlers = 0)
  /\ event' = NoEvent
  /\ UNCHANGED <<application_pid, bt_cb_ptr, adapter_proxy, leaked,
                 is_discovering, is_discovery_cancel, req_timer, hci0,
                 discovering, other_session>>

\* bluetooth_is_discovering() == FALSE: an error, without an adapter, is not.
NotDiscoveringNow_unchecked == hci0'    \* Mutant: BlueZ is not asked again.

NotDiscoveringNow == hci0' /\ ~discovering

FinishedResult == IF is_discovery_cancel THEN "CANCEL_BY_USER" ELSE "NONE"

\* Mutant: the end the user asked for is taken note of, and not told.
discovery_completed_cb_quiet ==
  /\ is_discovering' = FALSE
  /\ is_discovery_cancel' = FALSE
  /\ IF is_discovery_cancel THEN event' = NoEvent ELSE event_cb(Finished("NONE"))

discovery_completed_cb ==
  /\ is_discovering' = FALSE
  /\ is_discovery_cancel' = FALSE
  /\ event_cb(Finished(FinishedResult))

\* The 200 ms timer: unless BlueZ is discovering again, the end is reported.
\* Asking BlueZ opens a session if there is none.
bt_discovery_finished_cb(late) ==
  /\ res_timers > 0
  /\ res_timers' = res_timers - 1
  /\ session_init(late)
  /\ application_pid' = TRUE
  /\ IF NotDiscoveringNow
     THEN discovery_completed_cb
     ELSE /\ is_discovering' = DiscoveringAfterInit
          /\ event' = NoEvent
          /\ UNCHANGED is_discovery_cancel
  /\ UNCHANGED <<bt_cb_ptr, leaked, req_timer, discovering, own_session,
                 other_session>>

\* The 2 second timer.  Its StopDiscovery call names no method, and is not sent.
discovery_req_timeout_cb ==
  /\ req_timer
  /\ req_timer' = FALSE
  /\ event_cb(Started("TIMEOUT"))
  /\ UNCHANGED <<application_pid, bt_cb_ptr, adapter_proxy, leaked, inbox,
                 is_discovering, is_discovery_cancel, res_timers, bluezVars>>

\* A new adapter proxy; the old one, if there is one, is leaked.
adapter_added_cb ==
  /\ inbox # <<>> /\ Head(inbox) = "AdapterAdded"
  /\ inbox' = Tail(inbox)
  /\ adapter_proxy' = TRUE
  /\ leaked' = Handlers
  /\ is_discovering' = discovering
  /\ event' = NoEvent
  /\ UNCHANGED <<application_pid, bt_cb_ptr, is_discovery_cancel, req_timer,
                 res_timers, bluezVars>>

adapter_removed_cb ==
  /\ inbox # <<>> /\ Head(inbox) = "AdapterRemoved"
  /\ inbox' = Tail(inbox)
  /\ adapter_proxy' = FALSE
  /\ event' = NoEvent
  /\ UNCHANGED <<application_pid, bt_cb_ptr, leaked, is_discovering, req_timer,
                 is_discovery_cancel, res_timers, bluezVars>>

-----------------------------------------------------------------------------

ApplicationCall ==
  \E late \in BOOLEAN :
    \/ bluetooth_register_callback(late)
    \/ \E accepted \in BOOLEAN : bluetooth_start_discovery(late, accepted)
    \/ bluetooth_cancel_discovery(late)

Dispatch ==
  \/ adapter_property_discovering
  \/ adapter_property_not_discovering
  \/ adapter_added_cb
  \/ adapter_removed_cb

FinishedTimer == \E late \in BOOLEAN : bt_discovery_finished_cb(late)

Bluez ==
  \/ OtherClient \/ InquiryStarts \/ InquiryEnds
  \/ AdapterAppears \/ \E crash \in BOOLEAN : AdapterGoes(crash)

Next ==
  \/ ApplicationCall
  \/ bluetooth_unregister_callback
  \/ Dispatch
  \/ FinishedTimer
  \/ discovery_req_timeout_cb
  \/ Bluez

\* The main loop dispatches signals and timers.
Fairness == WF_vars(Dispatch) /\ WF_vars(FinishedTimer)

Spec == Init /\ [][Next]_vars /\ Fairness

(***************************************************************************)
(* Properties.                                                             *)
(***************************************************************************)

TypeOK ==
  /\ application_pid \in BOOLEAN /\ bt_cb_ptr \in BOOLEAN
  /\ adapter_proxy \in BOOLEAN /\ leaked \in 0..MaxLeaked
  /\ is_discovering \in BOOLEAN /\ is_discovery_cancel \in BOOLEAN
  /\ req_timer \in BOOLEAN /\ res_timers \in 0..MaxResTimers
  /\ event \in Events
  /\ hci0 \in BOOLEAN /\ discovering \in BOOLEAN
  /\ own_session \in BOOLEAN /\ other_session \in BOOLEAN
  /\ inbox \in Seq({"Discovering", "NotDiscovering", "AdapterAdded",
                    "AdapterRemoved"})
  /\ Len(inbox) <= MaxInbox

\* Once every signal is dispatched, the library knows of the discovery that
\* BlueZ is running: the 200 ms timer of an earlier end, the signals of merged
\* inquiries and a new adapter never make it forget one.
RunningDiscoveryIsKnown ==
  application_pid /\ adapter_proxy /\ inbox = <<>> /\ discovering
    => is_discovering

\* The end of a discovery is reported only while BlueZ runs none: an inquiry
\* that starts again within the 200 ms is the same discovery.
FinishedIsTrue == [][event'.name = "DISCOVERY_FINISHED" => ~discovering']_vars

\* Once the library has seen that BlueZ ended the discovery, DISCOVERY_FINISHED is
\* told, with the library's own state reset, unless meanwhile another discovery
\* starts, the adapter goes or the application gives up its callback: whatever
\* cancels, timers and new sessions come between (bt_discovery_finished_cb).
SeenEndIsReported ==
  res_timers > 0 ~> \/ event.name = "DISCOVERY_FINISHED" /\ ~is_discovering
                    \/ discovering \/ ~hci0 \/ ~bt_cb_ptr
=============================================================================
