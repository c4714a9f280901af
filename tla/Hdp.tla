--------------------------------- MODULE Hdp ---------------------------------
(***************************************************************************)
(* Health devices: bluetooth_hdp_* (lib/bluetooth-hdp-api.c).              *)
(*                                                                         *)
(* A channel ends in two ways, the signal ChannelDeleted and the hang-up   *)
(* of its descriptor, in any order or only one of them.  Whoever finds the *)
(* channel in the lists reports it and frees it; the watch of the other    *)
(* way is left with the freed path and the closed descriptor, which it     *)
(* closes again.  The kernel gives closed descriptors out again.           *)
(***************************************************************************)
EXTENDS Naturals, Sequences

CONSTANTS
  App,             \* applications of this process; "other" is of another process
  Path,            \* object paths of channels
  MaxConnections,  \* bound on the connections
  MaxFds,          \* bound on the descriptors
  MaxActivations   \* bound on the activations

HdpAssumption == {"other", "none"} \cap App = {} /\ {MaxConnections, MaxFds, MaxActivations} \subseteq Nat

VARIABLES
  g_app_list,       \* by application: its place in the list, 0: not in the list
  obj_info,         \* the channels in the lists: app, path, n (which one was first), fd
  watches,          \* n, path and fd of the channels they were added for
  g_hdp_dus_conn,   \* TRUE: the filter is installed
  matched,          \* TRUE: the bus sends the signals, for good
  idles,            \* applications whose destruction waits for an idle moment
  inbox,            \* signals not yet dispatched
  \* BlueZ and the kernel
  apps,             \* applications BlueZ knows
  channel,          \* by path: the application and the connection, 0: not connected
  fds,             \* by descriptor: the connection, 0: closed
  \* ghosts and bounds
  told,             \* descriptors told CONNECTED and not yet DISCONNECTED
  twice,            \* TRUE: DISCONNECTED was told for none of these
  refused,          \* connections that could not be acquired
  spoilt,           \* TRUE: a watch ended by a failed read, took another channel for
                    \* its own or closed the descriptor of another
  acquired, connections, activations

libVars == <<g_app_list, obj_info, watches, g_hdp_dus_conn, matched, idles>>
systemVars == <<apps, channel, fds>>
ghosts == <<told, twice, refused, spoilt>>
bounds == <<acquired, connections, activations>>
vars == <<libVars, inbox, systemVars, ghosts, bounds>>

Fd == 1..MaxFds
Free == [app |-> "none", sock |-> 0]

Init ==
  /\ g_app_list = [app \in App |-> 0] /\ obj_info = {} /\ watches = {}
  /\ g_hdp_dus_conn = FALSE /\ matched = FALSE /\ idles = {} /\ inbox = <<>>
  /\ apps = {"other"} /\ channel = [p \in Path |-> Free] /\ fds = [fd \in Fd |-> 0]
  /\ told = {} /\ twice = FALSE /\ refused = {} /\ spoilt = FALSE
  /\ acquired = 0 /\ connections = 0 /\ activations = 0

(***************************************************************************)
(* BlueZ (external).                                                       *)
(***************************************************************************)

Up == {channel[p].sock : p \in Path} \ {0}
Signal(name, p) == inbox' = IF matched THEN Append(inbox, [name |-> name, path |-> p]) ELSE inbox

\* A device, or bluetooth_hdp_connect, connects a channel: a new one, or an old one
\* whose link was lost.
ChannelConnects(p, app) ==
  /\ channel[p].sock = 0 /\ app \in apps /\ connections < MaxConnections
  /\ channel[p].app \in {"none", app}
  /\ connections' = connections + 1
  /\ channel' = [channel EXCEPT ![p] = [app |-> app, sock |-> connections']]
  /\ Signal("ChannelConnected", p)
  /\ UNCHANGED <<libVars, apps, fds, ghosts, acquired, activations>>

\* The link is lost and the channel stays.
LinkLost(p) ==
  /\ channel[p].sock # 0
  /\ channel' = [channel EXCEPT ![p].sock = 0]
  /\ UNCHANGED <<libVars, inbox, apps, fds, ghosts, bounds>>

\* The device, bluetooth_hdp_disconnect or the end of its application deletes it.
ChannelDeleted(p) ==
  /\ channel[p].app # "none"
  /\ channel' = [channel EXCEPT ![p] = Free]
  /\ Signal("ChannelDeleted", p)
  /\ UNCHANGED <<libVars, apps, fds, ghosts, bounds>>

(***************************************************************************)
(* The application.                                                        *)
(***************************************************************************)

\* A handle is not given again while something is left of the application that had it.
bluetooth_hdp_activate(app) ==
  /\ app \notin apps /\ g_app_list[app] = 0 /\ activations < MaxActivations
  /\ \A p \in Path : channel[p].app # app
  /\ activations' = activations + 1
  /\ apps' = apps \cup {app} /\ g_app_list' = [g_app_list EXCEPT ![app] = activations']
  /\ g_hdp_dus_conn' = TRUE /\ matched' = TRUE
  /\ UNCHANGED <<obj_info, watches, idles, inbox, channel, fds, ghosts, acquired, connections>>

bluetooth_hdp_deactivate(app) ==
  /\ app \in apps /\ apps' = apps \ {app} /\ idles' = idles \cup {app}
  /\ UNCHANGED <<g_app_list, obj_info, watches, g_hdp_dus_conn, matched, inbox, channel, fds,
                 ghosts, bounds>>

(***************************************************************************)
(* The handlers.                                                           *)
(***************************************************************************)

\* The lists are searched in the order of the applications.
Before(i, j) == IF i.app = j.app THEN i.n <= j.n ELSE g_app_list[i.app] < g_app_list[j.app]
At(path) == {info \in obj_info : info.path = path}
Found(info, path) == info \in At(path) /\ \A other \in At(path) : Before(info, other)

Closed(some) == [fd \in Fd |-> IF fd \in some THEN 0 ELSE fds[fd]]

\* Mutant: what is found stays in the list.
find_using_path_keeps(info) == UNCHANGED obj_info

find_using_path(info) == obj_info' = obj_info \ {info}

\* A channel that was found is taken from its list and told to have ended.
Disconnect(info, fd) ==
  /\ find_using_path(info)
  /\ told' = told \ {fd}
  /\ twice' = (twice \/ fd \notin told)

\* A channel of this process is put at the end of its list, watched and told.
Add(app, path, fd) ==
  /\ acquired' = acquired + 1
  /\ obj_info' = obj_info \cup {[app |-> app, n |-> acquired', path |-> path, fd |-> fd]}
  /\ watches' = watches \cup {[n |-> acquired', path |-> path, fd |-> fd]}
  /\ told' = told \cup {fd}
  /\ UNCHANGED refused

\* What is acquired is what the path stands for now.  The descriptor comes first: that
\* of another process' channel, or of one whose properties are not given, stays open.
acquire_fd(path) ==
  LET app == channel[path].app
      sock == channel[path].sock
      Refuse == /\ refused' = (refused \cup {sock}) \ {0}
                /\ UNCHANGED <<obj_info, watches, told, acquired>>
  IN \/ /\ sock # 0
        /\ \E fd \in {f \in Fd : fds[f] = 0} :
             /\ fds' = [fds EXCEPT ![fd] = sock]
             /\ \/ app \in App /\ g_app_list[app] # 0 /\ Add(app, path, fd)
                \/ Refuse
     \/ Refuse /\ UNCHANGED fds

handle_disconnect(path) ==
  \/ At(path) = {} /\ UNCHANGED <<obj_info, told, twice, fds>>
  \/ \E info \in obj_info :
       Found(info, path) /\ Disconnect(info, info.fd) /\ fds' = Closed({info.fd})

event_filter ==
  /\ inbox # <<>> /\ inbox' = Tail(inbox)
  /\ \/ /\ ~g_hdp_dus_conn
        /\ UNCHANGED <<obj_info, watches, told, twice, refused, fds, acquired>>
     \/ /\ g_hdp_dus_conn /\ Head(inbox).name = "ChannelConnected"
        /\ acquire_fd(Head(inbox).path) /\ UNCHANGED twice
     \/ /\ g_hdp_dus_conn /\ Head(inbox).name = "ChannelDeleted"
        /\ handle_disconnect(Head(inbox).path) /\ UNCHANGED <<watches, refused, acquired>>
  /\ UNCHANGED <<g_app_list, g_hdp_dus_conn, matched, idles, apps, channel, spoilt,
                 connections, activations>>

\* The channel of a watch, as long as nobody has freed it.
Own(w) == {info \in obj_info : info.n = w.n}

\* The descriptor hangs up, or is found closed.  The channel is looked for by the path the
\* watch was given; when that is freed it is found nowhere, or is the path of a later one.
\* The end of the watch closes the descriptor once more.
handle_disconnect_cb(w) ==
  \/ \E own \in Own(w) : \E info \in obj_info :
       /\ Found(info, w.path) /\ Disconnect(info, w.fd)
       /\ fds' = Closed({info.fd, w.fd})
       /\ spoilt' = (spoilt \/ info.app # own.app)
  \/ /\ Own(w) = {}
     /\ fds' = Closed({w.fd})
     /\ spoilt' = (spoilt \/ \E info \in obj_info : info.fd = w.fd)
     /\ UNCHANGED <<obj_info, told, twice>>
  \/ /\ Own(w) = {}
     /\ \E info \in obj_info : /\ info.n > w.n /\ Found(info, info.path)
                               /\ Disconnect(info, w.fd) /\ fds' = Closed({info.fd, w.fd})
     /\ spoilt' = TRUE

\* Reading fails before the hang-up is seen: the watch ends and nothing is told.
data_received_fails(w) ==
  /\ Own(w) # {} /\ fds[w.fd] # 0
  /\ fds' = Closed({w.fd}) /\ spoilt' = TRUE
  /\ UNCHANGED <<obj_info, told, twice>>

\* A poll that sees a connection of a channel hung up sees it of the ones before it, and
\* the watches a poll has found ready run in the order they were added.
Ready == {w \in watches : Own(w) = {} \/ fds[w.fd] \notin Up}
data_received(w) ==
  /\ w \in Ready /\ \A v \in Ready : v.path = w.path /\ Own(v) # {} => w.n <= v.n
  /\ watches' = watches \ {w}
  /\ handle_disconnect_cb(w) \/ data_received_fails(w)
  /\ UNCHANGED <<g_app_list, g_hdp_dus_conn, matched, idles, inbox, apps, channel, refused, bounds>>

\* The channels go without an event, the watches stay; the filter goes with the last.
destroy_application_cb(app) ==
  LET mine == {info \in obj_info : info.app = app} IN
  /\ app \in idles /\ inbox = <<>> /\ Ready = {}
  /\ idles' = idles \ {app} /\ g_app_list' = [g_app_list EXCEPT ![app] = 0]
  /\ obj_info' = obj_info \ mine
  /\ fds' = Closed({info.fd : info \in mine})
  /\ told' = told \ {info.fd : info \in mine}
  /\ g_hdp_dus_conn' = (\E other \in App : g_app_list'[other] # 0)
  /\ UNCHANGED <<watches, matched, inbox, apps, channel, twice, refused, spoilt, bounds>>

Next ==
  \/ \E p \in Path : \/ \E app \in App \cup {"other"} : ChannelConnects(p, app)
                     \/ LinkLost(p) \/ ChannelDeleted(p)
  \/ \E app \in App : \/ bluetooth_hdp_activate(app) \/ bluetooth_hdp_deactivate(app)
                      \/ destroy_application_cb(app)
  \/ event_filter
  \/ \E w \in watches : data_received(w)

Spec == Init /\ [][Next]_vars

Settled == inbox = <<>> /\ idles = {} /\ Ready = {}

\* Every channel that was told connected is told disconnected once and by its own end,
\* whichever of signal and hang-up comes first; when both have been dealt with, the
\* descriptors the application was told of are those of the channels that are up, and
\* none is missing (__bt_hdp_internal_handle_disconnect and _handle_disconnect_cb).
ChannelsAreTold ==
  ~spoilt =>
    /\ ~twice
    /\ Settled =>
         /\ \A fd \in told : fds[fd] \in Up
         /\ \A p \in Path : channel[p].app \in apps \cap App
              => channel[p].sock \in {fds[fd] : fd \in told} \cup refused \cup {0}
=============================================================================
