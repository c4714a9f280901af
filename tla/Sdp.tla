--------------------------------- MODULE Sdp ---------------------------------
(***************************************************************************)
(* The search for the services of a device: bluetooth_search_service and   *)
(* bluetooth_cancel_service_search (lib/bluetooth-sdp-api.c), answered by  *)
(* the replies of BlueZ or by the UUIDs property of the device; and the    *)
(* proxies those come through, which go with the adapter and with the      *)
(* session (lib/bluetooth-api-common.c).                                   *)
(*                                                                         *)
(* One flag, is_service_req, and one device address stand for every search *)
(* under way; who finds the flag set reports, and clears it.               *)
(***************************************************************************)
EXTENDS Naturals, Sequences

CONSTANTS
  Device,
  MaxSearches,  \* bound on the searches
  MaxChanges    \* bound on the changes of services, devices and adapter nobody asked for

ASSUME SdpAssumption == {MaxSearches, MaxChanges} \subseteq Nat

VARIABLES
  application_pid,     \* TRUE: the session is open
  has_proxy,           \* TRUE: adapter_proxy is not NULL
  device_proxy_list,   \* devices the library has a proxy of
  is_service_req,
  remote_device_addr,  \* info_for_searching_support_service, by its device
  calls,               \* asynchronous calls to BlueZ whose reply will be delivered
  inbox,               \* replies and signals not yet dispatched
  events,              \* SERVICE_SEARCHED events of the step: devices and results
  \* BlueZ
  hci0,                \* TRUE: there is an adapter
  known,               \* devices BlueZ has an object of
  uuids,               \* how many services it knows of a device
  \* ghosts and bounds
  open,                \* devices whose search has not been reported
  dropped,             \* TRUE: the flag stands for a search dropped with its proxy
  searches, changes

sessionVars == <<application_pid, has_proxy>>
libVars == <<sessionVars, device_proxy_list, is_service_req, remote_device_addr>>
bluezVars == <<hci0, known, uuids>>
vars == <<libVars, calls, inbox, events, bluezVars, open, dropped, searches, changes>>

Nobody == "nobody"
Event(d, ok) == [device |-> d, ok |-> ok]
Call(method, d, n) == [method |-> method, device |-> d, search |-> n]
Reply(call, ok) == [kind |-> "reply", call |-> call, ok |-> ok]
Signal(name, d) == [kind |-> name, device |-> d]
AdapterSignal(name) == Signal(name, Nobody)

Init ==
  /\ application_pid = FALSE /\ has_proxy = FALSE /\ hci0 = FALSE
  /\ device_proxy_list = {} /\ is_service_req = FALSE /\ remote_device_addr = Nobody
  /\ calls = {} /\ inbox = <<>> /\ events = <<>>
  /\ known = {} /\ uuids = [d \in Device |-> 0]
  /\ open = {} /\ dropped = FALSE /\ searches = 0 /\ changes = 0

(***************************************************************************)
(* BlueZ (external).                                                       *)
(***************************************************************************)

\* A device that gets its services tells it by UUIDs, if the library listens.
UuidsSignal(d) ==
  IF d \in device_proxy_list
  THEN <<[kind |-> "UUIDs", device |-> d, some |-> uuids'[d] > 0]>> ELSE <<>>

\* The signals of the adapter are heard through its proxy.
OfAdapter(name, d) == IF has_proxy THEN <<Signal(name, d)>> ELSE <<>>

ReplyOf(call, msg) == msg.kind = "reply" /\ msg.call = call
Unanswered(call) == call \in calls /\ \A i \in DOMAIN inbox : ~ReplyOf(call, inbox[i])

\* A call fails, is cancelled or runs into its timeout; or it is answered, after the
\* signals for what it found.
Answer(call) ==
  /\ Unanswered(call)
  /\ \/ inbox' = Append(inbox, Reply(call, FALSE)) /\ UNCHANGED bluezVars
     \/ /\ call.method = "CreateDevice" /\ hci0
        /\ known' = known \cup {call.device} /\ UNCHANGED <<hci0, uuids>>
        /\ inbox' = inbox \o (IF call.device \in known THEN <<>> ELSE OfAdapter("DeviceCreated", call.device))
                          \o <<Reply(call, TRUE)>>
     \/ /\ call.method # "CreateDevice" /\ call.device \in known
        /\ inbox' = Append(inbox, Reply(call, TRUE)) /\ UNCHANGED bluezVars
     \/ /\ call.method = "DiscoverServices" /\ call.device \in known /\ uuids[call.device] = 0
        /\ uuids' = [uuids EXCEPT ![call.device] = 1] /\ UNCHANGED <<hci0, known>>
        /\ inbox' = inbox \o UuidsSignal(call.device) \o <<Reply(call, TRUE)>>
  /\ events' = <<>>
  /\ UNCHANGED <<libVars, calls, open, dropped, searches, changes>>

\* Another program's search, or the other side, changes the services.
ServicesChange(d) ==
  /\ d \in known /\ changes < MaxChanges /\ changes' = changes + 1
  /\ uuids' = [uuids EXCEPT ![d] = 1 - @]
  /\ inbox' = inbox \o UuidsSignal(d)
  /\ events' = <<>>
  /\ UNCHANGED <<libVars, calls, hci0, known, open, dropped, searches>>

\* discover_services_cb asks the device once more, and would look into an uninitialised
\* table if it were gone by then.
Discoveries == {"DiscoverServices", "DiscoverOne"}
NoneReadLate(ds) ==
  \A call \in calls : call.method \in Discoveries /\ call.device \in ds =>
    \A i \in DOMAIN inbox : inbox[i] # Reply(call, TRUE)

\* A device is created for another program, or removed.
DeviceComesOrGoes(d) ==
  /\ hci0 /\ changes < MaxChanges /\ changes' = changes + 1
  /\ \/ /\ d \notin known /\ known' = known \cup {d}
        /\ inbox' = inbox \o OfAdapter("DeviceCreated", d) /\ UNCHANGED uuids
     \/ /\ d \in known /\ known' = known \ {d}
        /\ NoneReadLate({d})
        /\ inbox' = inbox \o OfAdapter("DeviceRemoved", d) /\ uuids' = [uuids EXCEPT ![d] = 0]
  /\ events' = <<>>
  /\ UNCHANGED <<libVars, calls, hci0, open, dropped, searches>>

TellAdapter(name) == inbox' = IF application_pid THEN Append(inbox, AdapterSignal(name)) ELSE inbox

\* The adapter goes with its devices, and comes with those it has stored.
AdapterGoes ==
  /\ hci0 /\ hci0' = FALSE /\ changes < MaxChanges /\ changes' = changes + 1
  /\ known' = {} /\ uuids' = [d \in Device |-> 0]
  /\ NoneReadLate(Device)
  /\ TellAdapter("AdapterRemoved") /\ events' = <<>>
  /\ UNCHANGED <<libVars, calls, open, dropped, searches>>

AdapterAppears ==
  /\ ~hci0 /\ hci0' = TRUE
  /\ known' \in SUBSET Device
  /\ TellAdapter("AdapterAdded") /\ events' = <<>>
  /\ UNCHANGED <<libVars, calls, uuids, open, dropped, searches, changes>>

(***************************************************************************)
(* The session and the proxies.                                            *)
(***************************************************************************)

\* What a call finds, which first opens the session if there is none: the adapter there
\* is then gets a proxy, and each of its devices.
_bluetooth_internal_session_init == application_pid' = TRUE /\ has_proxy' = (has_proxy \/ (~application_pid /\ hci0))
Proxies == IF ~application_pid /\ hci0 THEN device_proxy_list \cup known ELSE device_proxy_list

bluetooth_register_callback ==
  /\ ~application_pid
  /\ _bluetooth_internal_session_init
  /\ device_proxy_list' = Proxies
  /\ events' = <<>>
  /\ UNCHANGED <<is_service_req, remote_device_addr, calls, inbox, bluezVars, open, dropped,
                 searches, changes>>

\* Proxies go and their calls with them: no reply will be delivered.  The flag stays; it is
\* left behind when no discovery is.
Drop(cs) ==
  /\ calls' = calls \ cs
  /\ dropped' = \/ dropped
                \/ /\ is_service_req
                   /\ \E c \in cs : c.method = "DiscoverServices"
                   /\ \A c \in calls' : c.method # "DiscoverServices"
  /\ UNCHANGED <<is_service_req, remote_device_addr>>

__bluetooth_internal_remove_signal ==
  IF has_proxy THEN has_proxy' = FALSE /\ device_proxy_list' = {} /\ Drop(calls)
  ELSE UNCHANGED <<has_proxy, device_proxy_list, calls, dropped, is_service_req, remote_device_addr>>

\* Nobody waits for an event any more, and no handler is left for what was not dispatched.
bluetooth_unregister_callback ==
  /\ application_pid /\ application_pid' = FALSE
  /\ __bluetooth_internal_remove_signal
  /\ inbox' = <<>> /\ events' = <<>> /\ open' = {}
  /\ UNCHANGED <<bluezVars, searches, changes>>

(***************************************************************************)
(* The application.                                                        *)
(***************************************************************************)

\* An unknown device is created first.  A known one the library has no proxy of is
\* added, but its NULL proxy is used all the same: the search is refused.
bluetooth_search_service(d) ==
  /\ searches < MaxSearches /\ searches' = searches + 1
  /\ _bluetooth_internal_session_init
  /\ \/ /\ ~hci0 \/ ~has_proxy'
        /\ device_proxy_list' = Proxies
        /\ UNCHANGED <<calls, is_service_req, remote_device_addr, open, dropped>>
     \/ /\ hci0 /\ has_proxy' /\ d \notin known
        /\ device_proxy_list' = Proxies
        /\ calls' = calls \cup {Call("CreateDevice", d, searches')}
        /\ open' = open \cup {d}
        /\ UNCHANGED <<is_service_req, remote_device_addr, dropped>>
     \/ /\ hci0 /\ has_proxy' /\ d \in known
        /\ device_proxy_list' = Proxies \cup {d}
        /\ remote_device_addr' = d
        /\ IF d \in Proxies
           THEN /\ calls' = calls \cup {Call("DiscoverServices", d, searches')}
                /\ is_service_req' = TRUE /\ dropped' = FALSE
                /\ open' = open \cup {d}
           ELSE UNCHANGED <<calls, is_service_req, open, dropped>>
  /\ events' = <<>>
  /\ UNCHANGED <<inbox, bluezVars, changes>>

\* BlueZ ends the discovery of the device searched last with an error.  Without a session
\* the call only opens one.
bluetooth_cancel_service_search ==
  LET d == remote_device_addr
  IN /\ hci0 /\ has_proxy /\ d \in device_proxy_list \cap known
     /\ \E c \in calls :
          /\ c.device = d /\ c.method \in Discoveries
          /\ Unanswered(c) /\ inbox' = Append(inbox, Reply(c, FALSE))
     /\ events' = <<>>
     /\ UNCHANGED <<libVars, calls, bluezVars, open, dropped, searches, changes>>

(***************************************************************************)
(* The replies and the signals.                                            *)
(***************************************************************************)

ClearFlag == is_service_req' = FALSE /\ dropped' = FALSE
Tell(d, ok) == events' = <<Event(d, ok)>> /\ open' = open \ {d}
TellNothing == events' = <<>> /\ UNCHANGED open

\* No event when the device cannot be created, nor when it was not in the list.
device_created_cb(call, ok) ==
  LET d == call.device
  IN /\ device_proxy_list' = IF ok THEN device_proxy_list \cup {d} ELSE device_proxy_list
     /\ calls' = (calls \ {call}) \cup
                   (IF ok /\ d \in device_proxy_list
                    THEN {Call("GetProperties", d, call.search)} ELSE {})
     /\ TellNothing
     /\ UNCHANGED <<sessionVars, is_service_req, remote_device_addr, dropped>>

get_remote_device_uuids_cb(call, ok) ==
  /\ calls' = calls \ {call}
  /\ Tell(call.device, ok)
  /\ UNCHANGED <<libVars, dropped>>

\* Mutant: the flag stays when the discovery fails.
discover_failed_keeps(d) ==
  /\ Tell(d, FALSE)
  /\ UNCHANGED <<is_service_req, dropped>>

discover_failed(d) == Tell(d, FALSE) /\ ClearFlag

\* Without services the discovery is repeated for one of them, with the flag cleared.
request_search_supported_services(call) ==
  /\ calls' = (calls \ {call}) \cup
                (IF remote_device_addr \in known \cap device_proxy_list
                 THEN {Call("DiscoverOne", remote_device_addr, call.search)} ELSE {})
  /\ TellNothing /\ ClearFlag

\* The event names the device searched last; its services are those of the call's.
discover_services_cb(call, ok) ==
  /\ \/ ~ok /\ discover_failed(call.device) /\ calls' = calls \ {call}
     \/ /\ ok /\ ~is_service_req
        /\ TellNothing /\ calls' = calls \ {call} /\ UNCHANGED <<is_service_req, dropped>>
     \/ /\ ok /\ is_service_req /\ uuids[call.device] = 0
        /\ request_search_supported_services(call)
     \/ /\ ok /\ is_service_req /\ uuids[call.device] # 0
        /\ Tell(remote_device_addr, TRUE) /\ ClearFlag /\ calls' = calls \ {call}
  /\ UNCHANGED <<sessionVars, device_proxy_list, remote_device_addr>>

\* Reported whether or not anyone searches, and for any device: the flag is cleared.
device_property_changed(d, some) ==
  /\ IF d \in device_proxy_list THEN ClearFlag /\ Tell(d, some)
     ELSE TellNothing /\ UNCHANGED <<is_service_req, dropped>>
  /\ UNCHANGED <<sessionVars, device_proxy_list, remote_device_addr, calls>>

device_created(d) ==
  /\ device_proxy_list' = IF has_proxy THEN device_proxy_list \cup {d} ELSE device_proxy_list
  /\ TellNothing
  /\ UNCHANGED <<sessionVars, is_service_req, remote_device_addr, calls, dropped>>

OfProxy(d) == {c \in calls : c.device = d /\ c.method # "CreateDevice" /\ d \in device_proxy_list}

device_removed(d) ==
  /\ IF has_proxy THEN device_proxy_list' = device_proxy_list \ {d} /\ Drop(OfProxy(d))
     ELSE UNCHANGED <<device_proxy_list, is_service_req, remote_device_addr, calls, dropped>>
  /\ TellNothing
  /\ UNCHANGED sessionVars

\* ListDevices answers with the devices there are by then.
adapter_added_cb ==
  /\ has_proxy' = TRUE /\ device_proxy_list' = device_proxy_list \cup known
  /\ TellNothing
  /\ UNCHANGED <<application_pid, is_service_req, remote_device_addr, calls, dropped>>

\* No search is reported, and the flag stays.
adapter_removed_cb ==
  /\ __bluetooth_internal_remove_signal
  /\ TellNothing
  /\ UNCHANGED application_pid

\* A reply whose call was dropped is not delivered.
Answered(call, ok) ==
  \/ call \notin calls /\ TellNothing /\ UNCHANGED <<libVars, calls, dropped>>
  \/ call \in calls /\ call.method = "CreateDevice" /\ device_created_cb(call, ok)
  \/ call \in calls /\ call.method = "GetProperties" /\ get_remote_device_uuids_cb(call, ok)
  \/ /\ call \in calls /\ call.method \in {"DiscoverServices", "DiscoverOne"}
     /\ discover_services_cb(call, ok)

Dispatch ==
  /\ inbox # <<>> /\ inbox' = Tail(inbox)
  /\ LET msg == Head(inbox)
     IN \/ msg.kind = "AdapterAdded" /\ adapter_added_cb
        \/ msg.kind = "AdapterRemoved" /\ adapter_removed_cb
        \/ msg.kind = "UUIDs" /\ device_property_changed(msg.device, msg.some)
        \/ msg.kind = "DeviceCreated" /\ device_created(msg.device)
        \/ msg.kind = "DeviceRemoved" /\ device_removed(msg.device)
        \/ msg.kind = "reply" /\ Answered(msg.call, msg.ok)
  /\ UNCHANGED <<bluezVars, searches, changes>>

Next ==
  \/ \E d \in Device : bluetooth_search_service(d) \/ ServicesChange(d) \/ DeviceComesOrGoes(d)
  \/ bluetooth_cancel_service_search
  \/ bluetooth_register_callback \/ bluetooth_unregister_callback
  \/ AdapterGoes \/ AdapterAppears
  \/ \E call \in calls : Answer(call)
  \/ Dispatch

\* Every call is answered or times out; the main loop runs.
Fairness == WF_vars(Dispatch) /\ WF_vars(\E call \in calls : Answer(call))

Spec == Init /\ [][Next]_vars /\ Fairness

(***************************************************************************)
(* Properties                                                              *)
(***************************************************************************)

\* The flag is never left behind: while it is set, a discovery is under way whose end
\* will clear it, however searches, cancels and changes overlap; but after the proxy of the
\* last discovery was dropped with its device, its adapter or the session, which leaves the
\* flag set (is_service_req is set in bluetooth_search_service and cleared by four handlers,
\* never by device_removed or __bluetooth_internal_remove_signal).
FlagHasCall ==
  is_service_req /\ ~dropped => \E c \in calls : c.method = "DiscoverServices"

\* "The service search request is responded by BLUETOOTH_EVENT_SERVICE_SEARCHED event"
\* (lib/bluetooth-api.h): every search that was accepted is reported.
SearchAnswered == \A d \in Device : d \in open ~> d \notin open
=============================================================================
