--------------------------------- MODULE Hid ---------------------------------
(***************************************************************************)
(* Input devices: bluetooth_hid_* (lib/bluetooth-hid-api.c).               *)
(*                                                                         *)
(* One slot, hid_proxy, holds the proxy of the last request; to drop that  *)
(* proxy is to cancel its call.  Requests may overlap, and any reply       *)
(* empties the slot.                                                       *)
(***************************************************************************)
EXTENDS Naturals, Sequences

CONSTANTS
  Device,
  MaxRequests,  \* bound on the requests
  MaxSessions   \* bound on the sessions

HidAssumption == {MaxRequests, MaxSessions} \subseteq Nat

VARIABLES
  session,    \* the session that is open; 0: not initialised
  hid_proxy,  \* the request whose proxy is in the slot; 0: NULL
  calls,      \* requests under way: id, session, device and what is asked
  inbox,      \* replies and signals not yet dispatched
  told,       \* the event of the step: the request it answers or the link it tells
  connected,  \* BlueZ: devices that are connected
  overlapped, \* requests whose slot was taken or emptied by another (ghost)
  requests, sessions

vars == <<session, hid_proxy, calls, inbox, told, connected, overlapped, requests, sessions>>

None == [event |-> "none"]

Init ==
  /\ session = 0 /\ hid_proxy = 0 /\ calls = {} /\ inbox = <<>> /\ told = None
  /\ connected = {} /\ overlapped = {} /\ requests = 0 /\ sessions = 0

\* BlueZ (external): the request succeeds, after the signal, or fails.
Answer(c) ==
  /\ c \in calls /\ ~c.answered
  /\ calls' = (calls \ {c}) \cup {[c EXCEPT !.answered = TRUE]}
  /\ \/ /\ (c.device \in connected) # c.connect
        /\ connected' = IF c.connect THEN connected \cup {c.device} ELSE connected \ {c.device}
        /\ inbox' = inbox \o <<[kind |-> "signal", device |-> c.device, on |-> c.connect],
                               [kind |-> "reply", id |-> c.id, ok |-> TRUE]>>
     \/ /\ inbox' = Append(inbox, [kind |-> "reply", id |-> c.id, ok |-> FALSE])
        /\ UNCHANGED connected
  /\ told' = None
  /\ UNCHANGED <<session, hid_proxy, overlapped, requests, sessions>>

LinkDrops(d) ==
  /\ d \in connected /\ connected' = connected \ {d}
  /\ inbox' = Append(inbox, [kind |-> "signal", device |-> d, on |-> FALSE])
  /\ told' = None
  /\ UNCHANGED <<session, hid_proxy, calls, overlapped, requests, sessions>>

bluetooth_hid_init ==
  /\ session = 0 /\ sessions < MaxSessions
  /\ sessions' = sessions + 1 /\ session' = sessions'
  /\ told' = None
  /\ UNCHANGED <<hid_proxy, calls, inbox, connected, overlapped, requests>>

\* Mutant: the proxy is forgotten, not dropped.
Cancelled_none == {}

\* The call of the proxy in the slot; its reply will not be delivered.
Cancelled == {c \in calls : c.id = hid_proxy}

bluetooth_hid_deinit ==
  /\ session # 0 /\ session' = 0
  /\ calls' = calls \ Cancelled
  /\ hid_proxy' = 0 /\ told' = None
  /\ UNCHANGED <<inbox, connected, overlapped, requests, sessions>>

\* bluetooth_hid_connect and bluetooth_hid_disconnect: the slot is overwritten.
Request(d, connect) ==
  /\ session # 0 /\ requests < MaxRequests
  /\ requests' = requests + 1
  /\ calls' = calls \cup {[id |-> requests', session |-> session, device |-> d,
                           connect |-> connect, answered |-> FALSE]}
  /\ overlapped' = overlapped \cup {hid_proxy}
  /\ hid_proxy' = requests' /\ told' = None
  /\ UNCHANGED <<session, inbox, connected, sessions>>

\* A failure is told to the callback there is now; success is left to the signal.
request_cb(c, ok) ==
  /\ calls' = calls \ {c}
  /\ told' = IF ok \/ session = 0 THEN None ELSE [event |-> "failed", request |-> c]
  /\ overlapped' = overlapped \cup ({hid_proxy} \ {c.id})
  /\ hid_proxy' = 0

connection_changed_cb(msg) ==
  /\ told' = IF session = 0 THEN None ELSE [event |-> "changed", device |-> msg.device, on |-> msg.on]
  /\ UNCHANGED <<calls, hid_proxy, overlapped>>

Dispatch ==
  /\ inbox # <<>> /\ inbox' = Tail(inbox)
  /\ LET msg == Head(inbox)
     IN \/ msg.kind = "signal" /\ connection_changed_cb(msg)
        \/ msg.kind = "reply" /\ \E c \in calls : c.id = msg.id /\ request_cb(c, msg.ok)
        \/ /\ msg.kind = "reply" /\ \A c \in calls : c.id # msg.id
           /\ told' = None /\ UNCHANGED <<calls, hid_proxy, overlapped>>
  /\ UNCHANGED <<session, connected, requests, sessions>>

Next ==
  \/ \E c \in calls : Answer(c)
  \/ \E d \in Device : LinkDrops(d) \/ \E connect \in BOOLEAN : Request(d, connect)
  \/ bluetooth_hid_init \/ bluetooth_hid_deinit \/ Dispatch

Spec == Init /\ [][Next]_vars

\* A failure told to the application is that of a request of its own session, or of
\* one that overlapped with another: bluetooth_hid_deinit cancels the request in the
\* slot, so that no reply of it reaches the callback of a later session.
FailureOfThisSession ==
  told.event = "failed" =>
    told.request.session = session \/ told.request.id \in overlapped
=============================================================================
