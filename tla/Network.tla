------------------------------- MODULE Network -------------------------------
(***************************************************************************)
(* Personal area network: bluetooth_network_* (lib/bluetooth-network-api.c)*)
(* and the handlers that come and go with the adapter                      *)
(* (lib/bluetooth-api-common.c).                                           *)
(*                                                                         *)
(* The requests find the adapter anew; the events come through a proxy of  *)
(* the adapter's network server and through one filter, both made when the *)
(* adapter appears and dropped when it is removed.  Every run of BlueZ     *)
(* gives its adapter another path, so adapters are numbered.               *)
(***************************************************************************)
EXTENDS Naturals, Sequences, SequencesExt

CONSTANTS
  Device,
  MaxAdapters,  \* bound on the adapters, one after the other
  MaxRequests,  \* bound on the requests of the application
  MaxChanges    \* bound on what peers and links do by themselves

NetworkAssumption == {MaxAdapters, MaxRequests, MaxChanges} \subseteq Nat

VARIABLES
  adapter_proxy,         \* adapter the library has a proxy of; 0: NULL
  network_server_proxy,  \* adapter whose server the library listens to; 0: NULL
  sys_conn,              \* TRUE: the filter is installed
  matched,               \* TRUE: the bus sends PropertyChanged of the links, for good
  calls,                 \* requests under way: device and what is asked
  inbox,                 \* replies and signals not yet dispatched
  \* BlueZ
  adapter,               \* the adapter there is; 0: none
  server,                \* TRUE: the NAP server is registered
  peers,                 \* devices connected to the server
  links,                 \* devices the client is connected to
  \* ghosts and bounds
  peers_told, links_told,  \* the same, as the events told the application
  peers_stale, links_stale,  \* those of them told before the last AdapterRemoved, not since
  unheard,               \* devices that came or went before AdapterAdded was dispatched
  crashed,               \* TRUE: BlueZ died without a word
  adapters, requests, changes

libVars == <<adapter_proxy, network_server_proxy, sys_conn, matched>>
bluezVars == <<adapter, server, peers, links>>
told == <<peers_told, links_told, peers_stale, links_stale>>
ghosts == <<told, unheard, crashed>>
bounds == <<adapters, requests, changes>>
vars == <<libVars, calls, inbox, bluezVars, ghosts, bounds>>

Init ==
  /\ adapter_proxy = 0 /\ network_server_proxy = 0 /\ sys_conn = FALSE /\ matched = FALSE
  /\ calls = {} /\ inbox = <<>>
  /\ adapter = 0 /\ server = FALSE /\ peers = {} /\ links = {}
  /\ peers_told = {} /\ links_told = {} /\ peers_stale = {} /\ links_stale = {}
  /\ unheard = {} /\ crashed = FALSE
  /\ adapters = 0 /\ requests = 0 /\ changes = 0

(***************************************************************************)
(* BlueZ (external).                                                       *)
(***************************************************************************)

Signal(name, n, d, on) == [kind |-> name, adapter |-> n, device |-> d, on |-> on]
AdapterSignal(name, n) == Signal(name, n, "none", FALSE)
Reply(c, ok) == [kind |-> "reply", call |-> c, ok |-> ok]

LinkSignal(d, on) == IF matched THEN <<Signal("Connected", adapter, d, on)>> ELSE <<>>

AdapterAppears ==
  /\ adapter = 0 /\ adapters < MaxAdapters
  /\ adapters' = adapters + 1 /\ adapter' = adapters'
  /\ inbox' = Append(inbox, AdapterSignal("AdapterAdded", adapter'))
  /\ UNCHANGED <<libVars, calls, server, peers, links, ghosts, requests, changes>>

\* Links and peers go with the adapter, without a word about them; the calls fail.
\* When BlueZ dies, only the loss of its name is told.
AdapterGoes(dies) ==
  /\ adapter # 0 /\ adapter' = 0 /\ server' = FALSE /\ peers' = {} /\ links' = {}
  /\ inbox' = Append(inbox, AdapterSignal(IF dies THEN "NameOwnerChanged" ELSE "AdapterRemoved", adapter))
  /\ crashed' = (crashed \/ dies) /\ unheard' = {}
  /\ UNCHANGED <<libVars, calls, told, bounds>>

AddedWaits == AdapterSignal("AdapterAdded", adapter) \in Range(inbox)

TellPeers(ds, on) ==
  IF network_server_proxy = adapter
  THEN /\ inbox' = inbox \o SetToSeq({Signal("Peer", adapter, d, on) : d \in ds})
       /\ UNCHANGED unheard
  ELSE /\ unheard' = IF AddedWaits THEN unheard \cup ds ELSE unheard
       /\ UNCHANGED inbox

\* A device uses the server, or stops.
PeerChanges(d) ==
  /\ server /\ changes < MaxChanges /\ changes' = changes + 1
  /\ peers' = IF d \in peers THEN peers \ {d} ELSE peers \cup {d}
  /\ TellPeers({d}, d \in peers')
  /\ UNCHANGED <<libVars, calls, adapter, server, links, told, crashed, adapters, requests>>

LinkDrops(d) ==
  /\ d \in links /\ links' = links \ {d}
  /\ changes < MaxChanges /\ changes' = changes + 1
  /\ inbox' = inbox \o LinkSignal(d, FALSE)
  /\ unheard' = IF matched THEN unheard ELSE unheard \cup {d}
  /\ UNCHANGED <<libVars, calls, adapter, server, peers, told, crashed,
                 adapters, requests>>

\* The request succeeds, its signal before its reply; or it fails.
Answer(c) ==
  /\ c \in calls /\ calls' = calls \ {c}
  /\ \/ /\ adapter # 0 /\ (c.device \in links) # c.connect
        /\ links' = IF c.connect THEN links \cup {c.device} ELSE links \ {c.device}
        /\ inbox' = inbox \o LinkSignal(c.device, c.connect) \o <<Reply(c, TRUE)>>
        /\ unheard' = IF matched THEN unheard ELSE unheard \cup {c.device}
     \/ inbox' = Append(inbox, Reply(c, FALSE)) /\ UNCHANGED <<links, unheard>>
  /\ UNCHANGED <<libVars, adapter, server, peers, told, crashed, bounds>>

(***************************************************************************)
(* The application: each call asks BlueZ for its adapter.                  *)
(***************************************************************************)

Asks == adapter # 0 /\ requests < MaxRequests /\ requests' = requests + 1

\* bluetooth_network_connect and bluetooth_network_disconnect.
Request(d, connect) ==
  /\ Asks
  /\ calls' = calls \cup {[id |-> requests', device |-> d, connect |-> connect]}
  /\ UNCHANGED <<libVars, inbox, bluezVars, ghosts, adapters, changes>>

bluetooth_network_activate_server ==
  /\ Asks /\ server' = TRUE
  /\ UNCHANGED <<libVars, calls, inbox, adapter, peers, links, ghosts, adapters, changes>>

\* The peers are dropped.
bluetooth_network_deactivate_server ==
  /\ Asks /\ server /\ server' = FALSE /\ peers' = {}
  /\ TellPeers(peers, FALSE)
  /\ UNCHANGED <<libVars, calls, adapter, links, told, crashed, adapters, changes>>

(***************************************************************************)
(* The handlers.                                                           *)
(***************************************************************************)

\* A proxy and a filter that are there already are kept.
_bluetooth_network_server_add_signal(n) ==
  network_server_proxy' = IF network_server_proxy = 0 THEN n ELSE network_server_proxy

_bluetooth_network_client_add_filter == sys_conn' = TRUE /\ matched' = TRUE

adapter_added_cb(n) ==
  /\ adapter_proxy' = n
  /\ _bluetooth_network_server_add_signal(n)
  /\ _bluetooth_network_client_add_filter
  /\ UNCHANGED ghosts

\* Mutant: the proxy of the server outlives its adapter.
_bluetooth_network_server_remove_signal_keeps == UNCHANGED network_server_proxy

_bluetooth_network_server_remove_signal == network_server_proxy' = 0

_bluetooth_network_client_remove_filter == sys_conn' = FALSE

\* Without an event: the application is not told that links and peers are gone.
adapter_removed_cb ==
  /\ IF adapter_proxy = 0 THEN UNCHANGED libVars
     ELSE /\ adapter_proxy' = 0
          /\ _bluetooth_network_server_remove_signal
          /\ _bluetooth_network_client_remove_filter
          /\ UNCHANGED matched
  /\ peers_stale' = peers_told /\ links_stale' = links_told
  /\ UNCHANGED <<peers_told, links_told, unheard, crashed>>

\* DISABLED is told; every proxy and the filter stay.
name_owner_changed ==
  /\ peers_told' = {} /\ links_told' = {} /\ peers_stale' = {} /\ links_stale' = {}
  /\ UNCHANGED <<libVars, unheard, crashed>>

Told(set, msg) == IF msg.on THEN set \cup {msg.device} ELSE set \ {msg.device}

\* SERVER_CONNECTED and SERVER_DISCONNECTED.
server_connected(msg) ==
  /\ IF network_server_proxy = msg.adapter
     THEN peers_told' = Told(peers_told, msg) /\ peers_stale' = peers_stale \ {msg.device}
     ELSE UNCHANGED <<peers_told, peers_stale>>
  /\ UNCHANGED <<libVars, links_told, links_stale, unheard, crashed>>

\* CONNECTED and DISCONNECTED, with the address.
event_filter(msg) ==
  /\ IF sys_conn
     THEN links_told' = Told(links_told, msg) /\ links_stale' = links_stale \ {msg.device}
     ELSE UNCHANGED <<links_told, links_stale>>
  /\ UNCHANGED <<libVars, peers_told, peers_stale, unheard, crashed>>

\* The same events once more, naming no device.
request_cb == UNCHANGED <<libVars, ghosts>>

Dispatch ==
  /\ inbox # <<>> /\ inbox' = Tail(inbox)
  /\ LET msg == Head(inbox)
     IN \/ msg.kind = "AdapterAdded" /\ adapter_added_cb(msg.adapter)
        \/ msg.kind = "AdapterRemoved" /\ adapter_removed_cb
        \/ msg.kind = "NameOwnerChanged" /\ name_owner_changed
        \/ msg.kind = "Peer" /\ server_connected(msg)
        \/ msg.kind = "Connected" /\ event_filter(msg)
        \/ msg.kind = "reply" /\ request_cb
  /\ UNCHANGED <<calls, bluezVars, bounds>>

Next ==
  \/ AdapterAppears \/ \E dies \in BOOLEAN : AdapterGoes(dies)
  \/ \E d \in Device : PeerChanges(d) \/ LinkDrops(d) \/ \E connect \in BOOLEAN : Request(d, connect)
  \/ \E c \in calls : Answer(c)
  \/ bluetooth_network_activate_server \/ bluetooth_network_deactivate_server
  \/ Dispatch

Spec == Init /\ [][Next]_vars

\* With nothing left to dispatch the application believes in the links and the peers
\* there are and in those that went with a removed adapter, of which no event tells
\* until their device is heard of again; but for a device that was faster than the
\* dispatch of AdapterAdded, and for the peers after BlueZ died, when the old proxy of
\* the server is kept (_bluetooth_network_server_add_signal and _remove_signal).
NetworkIsTold ==
  inbox = <<>> =>
    /\ links_told \ unheard = (links \cup links_stale) \ unheard
    /\ ~crashed => peers_told \ unheard = (peers \cup peers_stale) \ unheard
=============================================================================
