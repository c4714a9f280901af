----------------------------- MODULE GapBonding -----------------------------
(***************************************************************************)
(* Bonding with a remote device: bluetooth_bond_device, _cancel_bonding    *)
(* and their callbacks (lib/bluetooth-gap-api.c), with the part of BlueZ   *)
(* they talk to.                                                           *)
(*                                                                         *)
(* The library keeps one address, one flag and one timer for the request   *)
(* in progress; BlueZ's answer does not say which request it is for.  A    *)
(* blocking call sees BlueZ as it is now, while signals and replies wait   *)
(* in inbox.                                                               *)
(***************************************************************************)
EXTENDS Naturals, Sequences, FiniteSets, SequencesExt

CONSTANTS
  Device,      \* remote devices
  Headsets,    \* those of the headset class
  NoDevice,    \* the empty address string
  MaxCalls,    \* bound on the CreatePairedDevice calls
  MaxInbox,    \* bound on the messages BlueZ lets wait
  Overlap      \* TRUE: the application does not wait for an answer

ASSUME BondingAssumption ==
  /\ Headsets \subseteq Device /\ NoDevice \notin Device
  /\ MaxCalls \in Nat /\ MaxInbox \in Nat /\ Overlap \in BOOLEAN

VARIABLES
  application_pid,         \* TRUE: a session with a callback is open
  adapter_proxy,           \* TRUE: adapter_proxy # NULL
  bt_bonding_req_addrstr,  \* the device of the request
  is_bonding_req,          \* a request is in progress
  is_headset_bonding,      \* the device created last is a headset
  is_headset_pin_req,      \* the request is the second try, with a PIN
  bt_bonding_req_timer,    \* the timer whose id is kept, 0: none
  timers,                  \* the 60 s timers pending, each named by its call
  calls,                   \* CreatePairedDevice calls the library waits for
  device_proxy_list,       \* devices whose signals are connected
  event,                   \* the event the step delivers to the application
  ncalls,                  \* number of calls made so far (ghost)
  waiting,                 \* the application waits for BONDING_FINISHED (ghost)
  \* BlueZ and the bus
  hci0,                    \* the adapter exists
  devices,                 \* its device objects
  paired,                  \* those that are paired
  pending,                 \* the CreatePairedDevice calls BlueZ works on
  inbox                    \* signals and replies not yet dispatched

reqVars == <<bt_bonding_req_addrstr, is_bonding_req, is_headset_bonding,
             is_headset_pin_req, bt_bonding_req_timer, timers>>
ghostVars == <<waiting>>
bluezVars == <<devices, paired, pending, inbox>>
vars == <<application_pid, adapter_proxy, reqVars, calls, device_proxy_list,
          event, ncalls, ghostVars, hci0, bluezVars>>

\* What BlueZ answers: the errors the library tells apart.
Errors == {"ALREADY_EXISTS", "REJECTED", "CANCELED", "IN_PROGRESS",
           "AUTH_FAILED", "PAGE_TIMEOUT", "OTHER"}
Results == {"NONE", "PARING_FAILED", "ACCESS_DENIED", "CANCEL_BY_USER",
            "IN_PROGRESS", "AUTHENTICATION_FAILED", "HOST_DOWN", "TIMEOUT",
            "NOT_PAIRED"}

NoEvent == [name |-> "NO_EVENT", dev |-> NoDevice, result |-> "NONE"]
BondingFinished(dev, result) ==
  [name |-> "BONDING_FINISHED", dev |-> dev, result |-> result]
DeviceRemoved(dev, result) ==
  [name |-> "BONDED_DEVICE_REMOVED", dev |-> dev, result |-> result]

Reply(c, outcome) == [type |-> "Reply", call |-> c.id, dev |-> c.dev, outcome |-> outcome]
Sig(name, dev) == [type |-> name, dev |-> dev]

Init ==
  /\ application_pid = FALSE /\ adapter_proxy = FALSE
  /\ bt_bonding_req_addrstr = NoDevice
  /\ is_bonding_req = FALSE
  /\ is_headset_bonding = FALSE /\ is_headset_pin_req = FALSE
  /\ bt_bonding_req_timer = 0 /\ timers = {}
  /\ calls = {} /\ device_proxy_list = {}
  /\ event = NoEvent
  /\ ncalls = 0 /\ waiting = FALSE
  /\ hci0 = TRUE
  /\ devices = {} /\ paired = {} /\ pending = {} /\ inbox = <<>>

(***************************************************************************)
(* BlueZ (external).                                                       *)
(***************************************************************************)

BluezStep == event' = NoEvent
  /\ UNCHANGED <<application_pid, adapter_proxy, reqVars, calls,
                 device_proxy_list, ncalls, ghostVars>>

\* A signal reaches the library while the adapter's signals are connected.
Emitted(sigs) == IF adapter_proxy THEN sigs ELSE <<>>

\* The answers that make the library call again, and the bound on its calls.
Retried == {"ALREADY_EXISTS", "AUTH_FAILED", "PAGE_TIMEOUT"}
Room == ncalls + Cardinality({i \in DOMAIN inbox :
                                inbox[i].type = "Reply" /\ inbox[i].outcome \in Retried}) < MaxCalls

CreateDevice(c) ==
  /\ c.dev \notin devices
  /\ Len(inbox) < MaxInbox
  /\ devices' = devices \cup {c.dev}
  /\ inbox' = inbox \o Emitted(<<Sig("DeviceCreated", c.dev)>>)
  /\ BluezStep /\ UNCHANGED <<hci0, paired, pending>>

PairDevice(c) ==
  /\ c.dev \in devices \ paired
  /\ Len(inbox) < MaxInbox
  /\ paired' = paired \cup {c.dev}
  /\ pending' = pending \ {c}
  /\ inbox' = inbox \o Emitted(<<Sig("Paired", c.dev)>>) \o <<Reply(c, "NONE")>>
  /\ BluezStep /\ UNCHANGED <<hci0, devices>>

\* A failed creation; the device object may be kept.  OTHER is also the error of
\* a call that D-Bus gives up after 50 seconds.
Fails(c, error, keep) ==
  /\ error # "CANCELED"
  /\ Len(inbox) < MaxInbox
  /\ error = "ALREADY_EXISTS" => c.dev \in paired
  /\ c.dev \in paired => error \in {"ALREADY_EXISTS", "OTHER"}
  /\ error = "IN_PROGRESS" => \E d \in pending \ {c} : d.dev = c.dev
  /\ error \in Retried => Room
  /\ pending' = pending \ {c}
  /\ devices' = IF keep THEN devices ELSE devices \ ({c.dev} \ paired)
  /\ inbox' = inbox
       \o (IF devices' = devices THEN <<>> ELSE Emitted(<<Sig("DeviceRemoved", c.dev)>>))
       \o <<Reply(c, error)>>
  /\ BluezStep /\ UNCHANGED <<hci0, paired>>

\* A remote device pairs on its own initiative.
RemotePairs(dev) ==
  /\ hci0 /\ dev \notin devices
  /\ Len(inbox) < MaxInbox
  /\ devices' = devices \cup {dev}
  /\ paired' = paired \cup {dev}
  /\ inbox' = inbox \o Emitted(<<Sig("DeviceCreated", dev), Sig("Paired", dev)>>)
  /\ BluezStep /\ UNCHANGED <<hci0, pending>>

AdapterGoes ==
  /\ hci0 /\ hci0' = FALSE
  /\ Len(inbox) < MaxInbox
  /\ devices' = {} /\ paired' = {} /\ pending' = {}
  /\ inbox' = IF application_pid THEN Append(inbox, Sig("AdapterRemoved", NoDevice))
                                 ELSE inbox
  /\ BluezStep

AdapterAppears ==
  /\ ~hci0 /\ hci0' = TRUE
  /\ ~adapter_proxy    \* AdapterRemoved was dispatched: no proxy is leaked
  /\ inbox' = IF application_pid THEN Append(inbox, Sig("AdapterAdded", NoDevice))
                                 ELSE inbox
  /\ BluezStep /\ UNCHANGED <<devices, paired, pending>>

\* CancelDeviceCreation: the call for dev, if there is one, fails.
Cancelled(dev) == {c \in pending : c.dev = dev}
CancelReplies(dev) ==
  LET ids == SetToSeq(Cancelled(dev))
  IN  [i \in 1..Len(ids) |-> Reply(ids[i], "CANCELED")]

(***************************************************************************)
(* The session.                                                            *)
(***************************************************************************)

\* The application starts, opens a session and registers its callback.
bluetooth_register_callback ==
  /\ ~application_pid
  /\ application_pid' = TRUE
  /\ adapter_proxy' = hci0
  /\ device_proxy_list' = devices
  /\ event' = NoEvent
  /\ UNCHANGED <<reqVars, calls, ncalls, ghostVars, hci0, bluezVars>>

\* Mutant: the id of the removed timer is kept.
bluetooth_unregister_callback_keeps_id ==
  /\ application_pid
  /\ application_pid' = FALSE
  /\ adapter_proxy' = FALSE
  /\ calls' = {} /\ device_proxy_list' = {}
  /\ timers' = timers \ {bt_bonding_req_timer}
  /\ waiting' = FALSE
  /\ inbox' = <<>>
  /\ event' = NoEvent
  /\ UNCHANGED <<bt_bonding_req_addrstr, is_bonding_req, is_headset_bonding,
                 is_headset_pin_req, bt_bonding_req_timer, ncalls, hci0, devices,
                 paired, pending>>

\* session_deinit: the timer that is known and the proxies go, the rest stays.
bluetooth_unregister_callback ==
  /\ application_pid
  /\ application_pid' = FALSE
  /\ adapter_proxy' = FALSE
  /\ calls' = {} /\ device_proxy_list' = {}
  /\ timers' = timers \ {bt_bonding_req_timer}
  /\ bt_bonding_req_timer' = 0
  /\ waiting' = FALSE
  /\ inbox' = <<>>
  /\ event' = NoEvent
  /\ UNCHANGED <<bt_bonding_req_addrstr, is_bonding_req, is_headset_bonding,
                 is_headset_pin_req, ncalls, hci0, devices, paired, pending>>

adapter_removed_cb ==
  /\ adapter_proxy' = FALSE
  /\ calls' = {} /\ device_proxy_list' = {}
  /\ event' = NoEvent
  /\ UNCHANGED <<reqVars, ncalls, ghostVars, devices, paired, pending>>

adapter_added_cb ==
  /\ adapter_proxy' = TRUE
  /\ device_proxy_list' = devices
  /\ event' = NoEvent
  /\ UNCHANGED <<reqVars, calls, ncalls, ghostVars, devices, paired, pending>>

(***************************************************************************)
(* Requests.                                                               *)
(***************************************************************************)

event_cb(e) == event' = IF application_pid THEN e ELSE NoEvent

\* bluetooth_bond_device once it has passed its checks.  cs and ts are the calls
\* and timers of the requests before: the address of a request in progress is
\* overwritten, and so is the id of its timer.
bonding_req(dev, cs, ts, cancelled) ==
  /\ bt_bonding_req_addrstr' = dev
  /\ is_bonding_req' = TRUE
  /\ bt_bonding_req_timer' = ncalls + 1
  /\ timers' = ts \cup {ncalls + 1}
  /\ ncalls' = ncalls + 1
  /\ calls' = cs \cup {ncalls + 1}
  /\ pending' = (pending \ cancelled) \cup {[id |-> ncalls + 1, dev |-> dev]}

bluetooth_bond_device(dev) ==
  /\ application_pid /\ hci0
  /\ waiting => Overlap
  /\ IF adapter_proxy
     THEN /\ Room
          /\ bonding_req(dev, calls, timers, {})
          /\ waiting' = TRUE
     ELSE /\ bt_bonding_req_addrstr' = dev
          /\ UNCHANGED <<is_bonding_req, bt_bonding_req_timer, timers, ncalls,
                         calls, pending, ghostVars>>
  /\ event' = NoEvent
  /\ UNCHANGED <<application_pid, adapter_proxy, is_headset_bonding,
                 is_headset_pin_req, device_proxy_list, hci0, devices, paired,
                 inbox>>

\* The timer is removed before BlueZ says whether there is a request to cancel.
bluetooth_cancel_bonding ==
  /\ application_pid
  /\ hci0 /\ adapter_proxy
  /\ timers' = timers \ {bt_bonding_req_timer}
  /\ bt_bonding_req_timer' = 0
  /\ pending' = pending \ Cancelled(bt_bonding_req_addrstr)
  /\ inbox' = inbox \o CancelReplies(bt_bonding_req_addrstr)
  /\ event' = NoEvent
  /\ UNCHANGED <<application_pid, adapter_proxy, bt_bonding_req_addrstr,
                 is_bonding_req, is_headset_bonding, is_headset_pin_req, calls,
                 device_proxy_list, ncalls, waiting, hci0, devices, paired>>

\* BlueZ, which has just found the device, removes it or refuses to.
bluetooth_unbond_device(dev) ==
  /\ application_pid
  /\ hci0 /\ adapter_proxy
  /\ dev \in devices
  /\ Len(inbox) < MaxInbox
  /\ \/ /\ devices' = devices \ {dev} /\ paired' = paired \ {dev}
        /\ inbox' = Append(inbox, Sig("DeviceRemoved", dev))
     \/ /\ inbox' = Append(inbox, Sig("UnbondFailed", dev))
        /\ UNCHANGED <<devices, paired>>
  /\ event' = NoEvent
  /\ UNCHANGED <<application_pid, adapter_proxy, reqVars, calls,
                 device_proxy_list, ncalls, ghostVars, hci0, pending>>

(***************************************************************************)
(* The end of a request.  cs, ts and rest are the calls, timers and        *)
(* messages that are left.                                                 *)
(***************************************************************************)

\* Mutant: the reply does not stop the timer.
request_finished_timed(cs, ts, cancelled, dev, result) ==
  /\ bt_bonding_req_addrstr' = NoDevice
  /\ is_bonding_req' = FALSE
  /\ is_headset_bonding' = FALSE /\ is_headset_pin_req' = FALSE
  /\ calls' = cs /\ pending' = pending \ cancelled
  /\ event_cb(BondingFinished(dev, result))
  /\ waiting' = FALSE
  /\ UNCHANGED <<ncalls, bt_bonding_req_timer, timers>>

request_finished(cs, ts, cancelled, dev, result) ==
  /\ bt_bonding_req_addrstr' = NoDevice
  /\ is_bonding_req' = FALSE
  /\ is_headset_bonding' = FALSE /\ is_headset_pin_req' = FALSE
  /\ bt_bonding_req_timer' = 0 /\ timers' = ts
  /\ calls' = cs /\ pending' = pending \ cancelled
  /\ event_cb(BondingFinished(dev, result))
  /\ waiting' = FALSE
  /\ UNCHANGED ncalls

\* Mutant: a refused retry leaves the request in progress.
headset_retry_in_progress(cs, ts, cancelled, again) ==
  /\ is_headset_bonding' = FALSE /\ is_headset_pin_req' = TRUE
  /\ IF again /\ adapter_proxy
     THEN bonding_req(bt_bonding_req_addrstr, cs, ts, cancelled)
     ELSE /\ bt_bonding_req_timer' = 0 /\ timers' = ts
          /\ calls' = cs /\ pending' = pending \ cancelled
          /\ UNCHANGED <<ncalls, bt_bonding_req_addrstr, is_bonding_req>>
  /\ event' = NoEvent
  /\ UNCHANGED ghostVars

\* A headset refused the automatic PIN: the same device is bonded again, with
\* the user's PIN, by a bluetooth_bond_device that may be refused (~again) and
\* whose result nobody looks at.
headset_retry(cs, ts, cancelled, again) ==
  /\ is_headset_bonding' = FALSE /\ is_headset_pin_req' = TRUE
  /\ IF again /\ adapter_proxy
     THEN bonding_req(bt_bonding_req_addrstr, cs, ts, cancelled)
     ELSE /\ bt_bonding_req_addrstr' = IF again THEN bt_bonding_req_addrstr ELSE NoDevice
          /\ is_bonding_req' = FALSE
          /\ bt_bonding_req_timer' = 0 /\ timers' = ts
          /\ calls' = cs /\ pending' = pending \ cancelled
          /\ UNCHANGED ncalls
  /\ event' = NoEvent
  /\ UNCHANGED ghostVars

\* __bluetooth_internal_bonding_req_reply_cb
reply_cb(cs, ts, rest, dev, result, headset) ==
  LET addr == bt_bonding_req_addrstr
      failed == result # "NONE" /\ adapter_proxy
      left == ts \ {bt_bonding_req_timer}
      cancelled == IF failed THEN Cancelled(addr) ELSE {}
  IN  /\ inbox' = IF failed THEN rest \o CancelReplies(addr) ELSE rest
      /\ IF result = "AUTHENTICATION_FAILED" /\ ~is_headset_pin_req /\ headset
         THEN \E again \in {FALSE, hci0} : headset_retry(cs, left, cancelled, again)
         ELSE request_finished(cs, left, cancelled, dev, result)

\* The reply to a CreatePairedDevice call.  Whichever call it answers, it is
\* taken for an answer about bt_bonding_req_addrstr.
ResultOf(outcome) ==
  CASE outcome = "REJECTED" -> "ACCESS_DENIED"
    [] outcome = "CANCELED" -> "CANCEL_BY_USER"
    [] outcome = "IN_PROGRESS" -> "IN_PROGRESS"
    [] outcome = "AUTH_FAILED" -> "AUTHENTICATION_FAILED"
    [] outcome = "PAGE_TIMEOUT" ->
         IF ~is_bonding_req THEN "CANCEL_BY_USER"
         ELSE IF is_headset_bonding THEN "AUTHENTICATION_FAILED" ELSE "HOST_DOWN"
    [] OTHER -> "PARING_FAILED"

FindDevice == bt_bonding_req_addrstr \in devices /\ adapter_proxy

\* An existing bond is removed and the device bonded again; the timer goes on.
remove_and_retry(cs, rest) ==
  LET addr == bt_bonding_req_addrstr
  IN  /\ devices' = devices \ {addr}
      /\ paired' = paired \ {addr}
      /\ ncalls' = ncalls + 1
      /\ calls' = cs \cup {ncalls'}
      /\ pending' = pending \cup {[id |-> ncalls', dev |-> addr]}
      /\ inbox' = Append(rest, Sig("DeviceRemoved", addr))
      /\ event' = NoEvent
      /\ UNCHANGED <<reqVars, ghostVars>>

bonding_req_finish_cb(m, rest) ==
  LET cs == calls \ {m.call}
      addr == bt_bonding_req_addrstr
  IN  \/ /\ m.outcome = "ALREADY_EXISTS" /\ FindDevice
         /\ remove_and_retry(cs, rest)
      \/ /\ m.outcome = "NONE"
         /\ reply_cb(cs, timers, rest, IF FindDevice THEN addr ELSE m.dev, "NONE", FALSE)
         /\ UNCHANGED <<devices, paired>>
      \/ /\ \/ m.outcome \notin {"NONE", "ALREADY_EXISTS"}
            \/ m.outcome = "ALREADY_EXISTS"  \* not found, or RemoveDevice failed
         /\ reply_cb(cs, timers, rest, addr, ResultOf(m.outcome),
                     \/ m.outcome = "AUTH_FAILED" /\ FindDevice
                          /\ addr \in device_proxy_list \cap Headsets
                     \/ m.outcome = "PAGE_TIMEOUT")
         /\ UNCHANGED <<devices, paired>>

\* The timer of call t.  It outlasts the 50 seconds in which D-Bus makes sure
\* that t is answered, so t is not one of the calls.
bonding_req_timeout_cb(t) ==
  /\ t \in timers
  /\ t \notin calls
  /\ reply_cb(calls, timers \ {t}, inbox, bt_bonding_req_addrstr, "TIMEOUT", FALSE)
  /\ UNCHANGED <<application_pid, adapter_proxy, device_proxy_list, hci0, devices,
                 paired>>

(***************************************************************************)
(* Signals.                                                                *)
(***************************************************************************)

device_created(dev) ==
  /\ device_proxy_list' = device_proxy_list \cup {dev}
  /\ is_headset_bonding' = IF dev \in device_proxy_list THEN is_headset_bonding
                           ELSE dev \in Headsets
  /\ event' = NoEvent
  /\ UNCHANGED <<bt_bonding_req_addrstr, is_bonding_req, is_headset_pin_req,
                 bt_bonding_req_timer, timers, calls, ncalls, ghostVars, pending>>

device_removed(dev) ==
  /\ device_proxy_list' = device_proxy_list \ {dev}
  /\ IF dev \in device_proxy_list THEN event_cb(DeviceRemoved(dev, "NONE")) ELSE event' = NoEvent
  /\ UNCHANGED <<reqVars, calls, ncalls, ghostVars, pending>>

unbond_request_complete_cb(dev) ==
  /\ event_cb(DeviceRemoved(dev, "NOT_PAIRED"))
  /\ UNCHANGED <<reqVars, calls, device_proxy_list, ncalls, ghostVars, pending>>

\* The device is told as bonded, with no error; the second try is forgotten.
bonding_created_cb(dev, rest) == reply_cb(calls, timers, rest, dev, "NONE", FALSE)

\* Paired became TRUE: while a request is in progress its reply will say so;
\* otherwise the remote device has paired.
device_paired(dev, rest) ==
  /\ IF dev \notin device_proxy_list \/ is_bonding_req
     THEN event' = NoEvent /\ inbox' = rest
          /\ UNCHANGED <<reqVars, calls, ncalls, ghostVars, pending>>
     ELSE bonding_created_cb(dev, rest)
  /\ UNCHANGED device_proxy_list

Dispatch ==
  /\ inbox # <<>>
  /\ LET m == Head(inbox)
         rest == Tail(inbox)
     IN  \/ /\ m.type = "Reply" /\ m.call \in calls
            /\ bonding_req_finish_cb(m, rest)
            /\ UNCHANGED <<application_pid, adapter_proxy, device_proxy_list, hci0>>
         \/ /\ m.type = "Paired" /\ device_paired(m.dev, rest)
            /\ UNCHANGED <<application_pid, adapter_proxy, hci0, devices, paired>>
         \/ /\ \/ m.type = "DeviceCreated" /\ device_created(m.dev)
               \/ m.type = "DeviceRemoved" /\ device_removed(m.dev)
               \/ m.type = "UnbondFailed" /\ unbond_request_complete_cb(m.dev)
            /\ inbox' = rest
            /\ UNCHANGED <<application_pid, adapter_proxy, hci0, devices, paired>>
         \/ /\ \/ m.type = "AdapterRemoved" /\ adapter_removed_cb
               \/ m.type = "AdapterAdded" /\ adapter_added_cb
            /\ inbox' = rest
            /\ UNCHANGED <<application_pid, hci0>>
         \/ /\ m.type = "Reply" /\ m.call \notin calls
            /\ inbox' = rest /\ event' = NoEvent
            /\ UNCHANGED <<application_pid, adapter_proxy, reqVars, calls, ncalls,
                           device_proxy_list, ghostVars, hci0, devices, paired,
                           pending>>

-----------------------------------------------------------------------------

Timeout == \E t \in timers : bonding_req_timeout_cb(t)

ApplicationCall ==
  \/ bluetooth_register_callback
  \/ bluetooth_unregister_callback
  \/ \E dev \in Device : bluetooth_bond_device(dev) \/ bluetooth_unbond_device(dev)
  \/ bluetooth_cancel_bonding

BluezAnswers ==
  \E c \in pending :
    PairDevice(c) \/ \E error \in Errors, keep \in BOOLEAN : Fails(c, error, keep)

Bluez ==
  \/ BluezAnswers
  \/ \E c \in pending : CreateDevice(c)
  \/ \E dev \in Device : RemotePairs(dev)
  \/ AdapterGoes \/ AdapterAppears

Next == ApplicationCall \/ Dispatch \/ Timeout \/ Bluez

\* The main loop dispatches messages and timers; BlueZ (or D-Bus, after 50
\* seconds) answers every call: strongly fair, because the bound on the inbox is
\* ours and keeps nobody from answering.
Fairness == WF_vars(Dispatch) /\ WF_vars(Timeout) /\ SF_vars(BluezAnswers)

Spec == Init /\ [][Next]_vars /\ Fairness

(***************************************************************************)
(* Properties.                                                             *)
(***************************************************************************)

TypeOK ==
  /\ application_pid \in BOOLEAN /\ adapter_proxy \in BOOLEAN
  /\ bt_bonding_req_addrstr \in Device \cup {NoDevice}
  /\ is_bonding_req \in BOOLEAN
  /\ is_headset_bonding \in BOOLEAN /\ is_headset_pin_req \in BOOLEAN
  /\ bt_bonding_req_timer \in timers \cup {0}
  /\ timers \subseteq 1..ncalls /\ calls \subseteq 1..ncalls
  /\ device_proxy_list \subseteq Device
  /\ event.dev \in Device \cup {NoDevice} /\ event.result \in Results
  /\ ncalls \in 0..MaxCalls
  /\ waiting \in BOOLEAN /\ hci0 \in BOOLEAN
  /\ paired \subseteq devices /\ devices \subseteq Device
  /\ pending \subseteq [id : 1..ncalls, dev : Device]

\* The timer and the flag belong together: whichever of the reply, the retry,
\* the cancellation and the timer itself ends a request, no timer is left to
\* time out a request that is not there, or with nobody to name; and for an
\* application that waits for an answer before it asks again, no second timer is
\* pending that would fire into a later request.
TimerHasRequest ==
  /\ bt_bonding_req_timer # 0 => is_bonding_req /\ bt_bonding_req_addrstr # NoDevice
  /\ ~Overlap => timers \subseteq {bt_bonding_req_timer}

\* A request with a call to BlueZ comes to an end, through removal of the old
\* bond, headset retry, cancellation and timeout, unless the adapter goes.
RequestEnds == is_bonding_req /\ calls # {} ~> ~is_bonding_req \/ ~adapter_proxy
=============================================================================
