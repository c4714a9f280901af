---------------------------- MODULE RfcommClient ----------------------------
(***************************************************************************)
(* The RFCOMM client: bluetooth_rfcomm_connect, bluetooth_rfcomm_disconnect *)
(* (lib/bluetooth-rfcomm-api.c).                                           *)
(*                                                                         *)
(* A connect is two calls, DiscoverServices and Serial.Connect.  What it   *)
(* asks for is in two slots, connecting_uuid and rfcomm_proxy, and nothing *)
(* refuses a second connect before the first is over.  The answer names a  *)
(* tty, /dev/rfcommN, and N is the place in the table of clients.          *)
(*                                                                         *)
(* A request is numbered; its number stands for its device, its UUID and   *)
(* the descriptor opened for it.                                           *)
(***************************************************************************)
EXTENDS Naturals, Sequences, FiniteSetsExt

CONSTANTS
  MaxConn,      \* RFCOMM_MAX_CONN
  MaxConnects,  \* bound on the connects
  MaxRestarts   \* bound on how often the adapter goes

RfcommClientAssumption == MaxConn \in Nat \ {0} /\ {MaxConnects, MaxRestarts} \subseteq Nat

VARIABLES
  connecting_uuid,  \* the request whose UUID is in the slot; 0: NULL
  rfcomm_proxy,     \* the request whose proxy is in the slot; 0: NULL
  rfcomm_client,    \* the table: the request whose tty is open, 0: none
  calls,            \* calls whose reply will still be delivered: request, method, UUID
  inbox,            \* replies not yet dispatched
  hups,             \* open ttys whose other end is gone, not yet dispatched
  \* BlueZ
  enabled,          \* there is an adapter
  port,             \* its ports, by UUID
  \* ghosts and bounds
  tells,            \* the CONNECTED event of the step
  open,             \* connects neither answered nor cancelled
  overlapped,       \* connects made while another was open, and those others
  abandoned,        \* ports whose tty the library did not take
  connects, restarts

vars == <<connecting_uuid, rfcomm_proxy, rfcomm_client, calls, inbox, hups, enabled, port,
          tells, open, overlapped, abandoned, connects, restarts>>

Request == 1..MaxConnects
Index == 0..(MaxConn - 1)
Silent == [id |-> 0]
NoPort == [state |-> "none"]
Connecting == [state |-> "connecting"]
Up(tty) == [state |-> "up", tty |-> tty]

TypeOK ==
  /\ {connecting_uuid, rfcomm_proxy} \subseteq 0..MaxConnects
  /\ rfcomm_client \in [Index -> 0..MaxConnects]
  /\ \A c \in calls : c.id \in Request /\ c.uuid \in 0..MaxConnects
  /\ hups \subseteq Request /\ enabled \in BOOLEAN
  /\ port \in [Request -> {NoPort, Connecting} \cup {Up(t) : t \in 0..MaxConnects}]
  /\ open \subseteq Request /\ overlapped \subseteq Request /\ abandoned \subseteq Request
  /\ connects \in 0..MaxConnects /\ restarts \in 0..MaxRestarts

Init ==
  /\ connecting_uuid = 0 /\ rfcomm_proxy = 0 /\ rfcomm_client = [i \in Index |-> 0]
  /\ calls = {} /\ inbox = <<>> /\ hups = {}
  /\ enabled = TRUE /\ port = [u \in Request |-> NoPort]
  /\ tells = Silent /\ open = {} /\ overlapped = {} /\ abandoned = {}
  /\ connects = 0 /\ restarts = 0

Opened == {rfcomm_client[i] : i \in Index} \ {0}

(***************************************************************************)
(* BlueZ and the kernel (external).                                        *)
(***************************************************************************)

Reply(c, ok, tty) == [id |-> c.id, method |-> c.method, ok |-> ok, tty |-> tty]

\* Ttys of ports, of descriptors that are open and of answers on their way are not free.
TtysTaken ==
  {port[u].tty : u \in {v \in Request : port[v].state = "up"}}
    \cup {i \in Index : rfcomm_client[i] # 0}
    \cup {inbox[k].tty : k \in {j \in DOMAIN inbox : inbox[j].ok /\ inbox[j].method = "Connect"}}

Tty == Min((0..MaxConnects) \ TtysTaken)

Unanswered(c) == c \in calls /\ \A k \in DOMAIN inbox : inbox[k].id # c.id

ServicesDiscovered(c, ok) ==
  /\ Unanswered(c) /\ c.method = "DiscoverServices" /\ (ok => enabled)
  /\ inbox' = Append(inbox, Reply(c, ok, 0))
  /\ tells' = Silent
  /\ UNCHANGED <<connecting_uuid, rfcomm_proxy, rfcomm_client, calls, hups, enabled, port,
                 open, overlapped, abandoned, connects, restarts>>

\* A Connect without a port was refused when it was made, or its port is gone.
PortConnected(c, ok) ==
  /\ Unanswered(c) /\ c.method = "Connect"
  /\ IF ok
     THEN /\ c.owns /\ port[c.uuid] = Connecting
          /\ port' = [port EXCEPT ![c.uuid] = Up(Tty)]
     ELSE port' = IF c.owns THEN [port EXCEPT ![c.uuid] = NoPort] ELSE port
  /\ inbox' = Append(inbox, Reply(c, ok, IF ok THEN Tty ELSE 0))
  /\ tells' = Silent
  /\ UNCHANGED <<connecting_uuid, rfcomm_proxy, rfcomm_client, calls, hups, enabled,
                 open, overlapped, abandoned, connects, restarts>>

\* The request that has the tty of a port open, as a set.
Holder(u) ==
  {rfcomm_client[i] : i \in {j \in Index : port[u] = Up(j)}} \ {0}

PortLost(u) ==
  /\ port[u].state = "up"
  /\ port' = [port EXCEPT ![u] = NoPort]
  /\ hups' = hups \cup Holder(u)
  /\ abandoned' = abandoned \ {u}
  /\ tells' = Silent
  /\ UNCHANGED <<connecting_uuid, rfcomm_proxy, rfcomm_client, calls, inbox, enabled,
                 open, overlapped, connects, restarts>>

AdapterGoes ==
  /\ enabled /\ restarts < MaxRestarts
  /\ enabled' = FALSE /\ restarts' = restarts + 1
  /\ port' = [u \in Request |-> NoPort]
  /\ hups' = hups \cup UNION {Holder(u) : u \in Request}
  /\ abandoned' = {} /\ tells' = Silent
  /\ UNCHANGED <<connecting_uuid, rfcomm_proxy, rfcomm_client, calls, inbox, open, overlapped,
                 connects>>

AdapterComes ==
  /\ ~enabled /\ enabled' = TRUE /\ tells' = Silent
  /\ UNCHANGED <<connecting_uuid, rfcomm_proxy, rfcomm_client, calls, inbox, hups, port, open,
                 overlapped, abandoned, connects, restarts>>

(***************************************************************************)
(* Connecting.                                                             *)
(***************************************************************************)

bluetooth_rfcomm_connect ==
  /\ enabled /\ connects < MaxConnects
  /\ connects' = connects + 1
  /\ connecting_uuid' = connects'
  /\ calls' = calls \cup {[id |-> connects', method |-> "DiscoverServices",
                           uuid |-> connects', owns |-> FALSE]}
  /\ overlapped' = overlapped \cup (IF open = {} THEN {} ELSE open \cup {connects'})
  /\ open' = open \cup {connects'}
  /\ tells' = Silent
  /\ UNCHANGED <<rfcomm_proxy, rfcomm_client, inbox, hups, enabled, port, abandoned, restarts>>

\* Every CONNECTED event names the UUID of the slot and the device of the call, and
\* empties both slots.
Tell(id, ok) ==
  /\ tells' = [id |-> id, uuid |-> connecting_uuid, asked |-> id \in open, ok |-> ok]
  /\ connecting_uuid' = 0 /\ rfcomm_proxy' = 0
  /\ open' = open \ {id}

\* __bluetooth_rfcomm_discover_services_cb: Connect asks for the UUID of the slot; BlueZ
\* refuses none, and one it has a port for.
discover_services_cb(c, ok) ==
  IF ok
  THEN LET owns == enabled /\ connecting_uuid # 0 /\ port[connecting_uuid] = NoPort
       IN /\ rfcomm_proxy' = c.id
          /\ calls' = (calls \ {c}) \cup
                        {[id |-> c.id, method |-> "Connect", uuid |-> connecting_uuid,
                          owns |-> owns]}
          /\ port' = IF owns THEN [port EXCEPT ![connecting_uuid] = Connecting] ELSE port
          /\ tells' = Silent /\ UNCHANGED <<connecting_uuid, open>>
  ELSE calls' = calls \ {c} /\ port' = port /\ Tell(c.id, FALSE)

InTable(tty) == tty < MaxConn

PortsOf(tty) == {u \in Request : port[u] = Up(tty)}

\* __rfcomm_client_connected_cb: a tty that the table has no place for, or that cannot be
\* opened, is left to BlueZ.
client_connected_cb(c, ok, tty) ==
  /\ calls' = calls \ {c}
  /\ \/ /\ ok /\ InTable(tty) /\ PortsOf(tty) # {}
        /\ rfcomm_client' = [rfcomm_client EXCEPT ![tty] = c.id]
        /\ Tell(c.id, TRUE) /\ UNCHANGED abandoned
     \/ /\ ok /\ abandoned' = abandoned \cup PortsOf(tty)
        /\ Tell(c.id, FALSE) /\ UNCHANGED rfcomm_client
     \/ ~ok /\ Tell(c.id, FALSE) /\ UNCHANGED <<rfcomm_client, abandoned>>

\* A reply whose call was dropped with its proxy is not delivered.
Dispatch ==
  /\ inbox # <<>> /\ inbox' = Tail(inbox)
  /\ LET msg == Head(inbox)
         asking == {c \in calls : c.id = msg.id /\ c.method = msg.method}
     IN \/ /\ asking = {} /\ tells' = Silent
           /\ UNCHANGED <<connecting_uuid, rfcomm_proxy, rfcomm_client, calls, port, open,
                          abandoned>>
        \/ /\ msg.method = "DiscoverServices"
           /\ \E c \in asking : discover_services_cb(c, msg.ok)
           /\ UNCHANGED <<rfcomm_client, abandoned>>
        \/ /\ msg.method = "Connect"
           /\ \E c \in asking : client_connected_cb(c, msg.ok, msg.tty)
           /\ UNCHANGED port
  /\ UNCHANGED <<hups, enabled, overlapped, connects, restarts>>

(***************************************************************************)
(* Cancelling and disconnecting.                                           *)
(***************************************************************************)

\* Mutant: the UUID is freed, the proxy and its call stay.
cancel_connecting_keeps_call ==
  connecting_uuid' = 0 /\ UNCHANGED <<rfcomm_proxy, calls>>

\* To drop the proxy is to cancel its call.
cancel_connecting ==
  /\ connecting_uuid' = 0 /\ rfcomm_proxy' = 0
  /\ calls' = {c \in calls : ~(c.id = rfcomm_proxy /\ c.method = "Connect")}

\* bluetooth_rfcomm_disconnect(0): Disconnect of the slot's UUID, which BlueZ refuses when
\* it has no port for it.  Without a proxy or a UUID nothing is asked.
CancelConnect ==
  /\ enabled /\ rfcomm_proxy # 0 /\ connecting_uuid # 0
  /\ port[connecting_uuid] # NoPort
  /\ port' = [port EXCEPT ![connecting_uuid] = NoPort]
  /\ hups' = hups \cup Holder(connecting_uuid)
  /\ cancel_connecting
  /\ open' = open \ {rfcomm_proxy}
  /\ tells' = Silent
  /\ UNCHANGED <<rfcomm_client, inbox, enabled, overlapped, abandoned, connects, restarts>>

\* The source is removed and the descriptor closed.
Close(i) ==
  /\ rfcomm_client' = [rfcomm_client EXCEPT ![i] = 0]
  /\ hups' = hups \ {rfcomm_client[i]}

\* Mutant: BlueZ is not asked to disconnect.
PortsAfter_kept(i) == port

\* __bluetooth_rfcomm_internal_disconnect: BlueZ gives up the port of the tty.
PortsAfter(i) == [u \in Request |-> IF port[u] = Up(i) THEN NoPort ELSE port[u]]

\* bluetooth_rfcomm_disconnect: when BlueZ refuses, because the other end is gone, nothing
\* is closed and the error is returned.
bluetooth_rfcomm_disconnect(i) ==
  /\ enabled /\ rfcomm_client[i] # 0 /\ PortsOf(i) # {}
  /\ port' = PortsAfter(i) /\ Close(i)
  /\ tells' = Silent
  /\ UNCHANGED <<connecting_uuid, rfcomm_proxy, calls, inbox, enabled, open, overlapped,
                 abandoned, connects, restarts>>

\* __rfcomm_client_data_received_cb: hung up, or the read failed; the answer to Disconnect
\* is not asked for.
client_data_received_cb(i) ==
  /\ rfcomm_client[i] # 0
  /\ rfcomm_client[i] \in hups \/ PortsOf(i) # {}
  /\ port' = IF enabled THEN PortsAfter(i) ELSE port
  /\ Close(i)
  /\ tells' = Silent
  /\ UNCHANGED <<connecting_uuid, rfcomm_proxy, calls, inbox, enabled, open, overlapped,
                 abandoned, connects, restarts>>

Next ==
  \/ \E c \in calls : \E ok \in BOOLEAN : ServicesDiscovered(c, ok) \/ PortConnected(c, ok)
  \/ \E u \in Request : PortLost(u)
  \/ AdapterGoes \/ AdapterComes
  \/ bluetooth_rfcomm_connect \/ Dispatch \/ CancelConnect
  \/ \E i \in Index : bluetooth_rfcomm_disconnect(i) \/ client_data_received_cb(i)

Spec == Init /\ [][Next]_vars

(***************************************************************************)
(* Properties                                                              *)
(***************************************************************************)

\* A CONNECTED event is for a connect that was made and not cancelled, and names the
\* UUID it asked for, unless connects overlapped: the two slots, emptied by a cancel at
\* any moment of the two calls, never leave an answer to the next connect.
EventTellsItsConnect ==
  tells.id # 0 /\ tells.id \notin overlapped => tells.asked /\ tells.uuid = tells.id

\* BlueZ holds no port that the application can neither use nor give up: each has its
\* tty open or its answer on the way, but for the ttys the library did not take.
PortsAreHeld ==
  \A u \in Request \ (abandoned \cup overlapped) :
    port[u].state = "up" =>
      \/ Holder(u) # {}
      \/ \E c \in calls : c.method = "Connect" /\ c.uuid = u
=============================================================================
