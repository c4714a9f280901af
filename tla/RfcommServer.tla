---------------------------- MODULE RfcommServer ----------------------------
(***************************************************************************)
(* RFCOMM servers: the five slots of rfcomm_server                         *)
(* (lib/bluetooth-rfcomm-api.c), each a serial proxy of BlueZ that hands   *)
(* the connections of one service to a local socket of the application.    *)
(*                                                                         *)
(* Slots are found by the file descriptor they hold, descriptors are used  *)
(* again by the kernel, and proxies are named by how many there are.       *)
(***************************************************************************)
EXTENDS Integers, FiniteSets, FiniteSetsExt, Sequences

CONSTANTS
  MaxConn,      \* RFCOMM_MAX_CONN
  MaxFd,        \* bound on the descriptors
  MaxNames,     \* bound on the proxies
  MaxConnections, \* bound on the connections other devices make
  MaxBacklog,   \* bound on the connections that wait to be accepted
  MaxRestarts,  \* bound on how often the adapter goes
  MaxFaults     \* bound on the Enable calls BlueZ refuses

RfcommServerAssumption ==
  /\ MaxConn \in Nat \ {0} /\ MaxFd \in Nat /\ MaxNames \in Nat \ {0}
  /\ MaxConnections \in Nat /\ MaxBacklog \in Nat /\ MaxRestarts \in Nat /\ MaxFaults \in Nat

VARIABLES
  rfcomm_server,    \* the slots
  watches,          \* main loop watches on client sockets: descriptor and slot
  server_watches,   \* listening sockets that have their watch
  open,             \* descriptors that are open
  bound,            \* the name each local server socket is bound to
  sockets,          \* server sockets the application has, with their slot (ghost)
  told,             \* client sockets the application takes for connected (ghost)
  ended,            \* the socket the step reports as DISCONNECTED, 0: none
  \* BlueZ
  hci0,             \* the adapter
  proxies,          \* the names of the proxies there are, of any process
  link,             \* the proxies that have a connection
  backlog,          \* connections not yet accepted, by server socket
  alive,            \* accepted connections whose other end is there
  connections, restarts, faults, \* so far (ghost)
  stale             \* a slot has kept the descriptor of a socket that was closed (ghost)

libVars == <<rfcomm_server, watches, server_watches, open, bound, sockets>>
bluezVars == <<hci0, proxies, link, backlog, alive>>
boundVars == <<connections, restarts, faults>>
countVars == <<boundVars, stale>>
vars == <<libVars, told, ended, bluezVars, countVars>>

Slot == 1..MaxConn
Fd == 1..MaxFd
Name == 0..(MaxNames - 1)
NoName == -1

\* client_sock_fd is 0 in a slot never used, -1 in one whose client has gone.
FreeSlot == [used |-> FALSE, server_sock_fd |-> 0, is_listen |-> FALSE,
             uds_name |-> NoName, client_sock_fd |-> 0, client_watch |-> 0]

Init ==
  /\ rfcomm_server = [i \in Slot |-> FreeSlot]
  /\ watches = {} /\ server_watches = {} /\ open = {}
  /\ bound = [f \in Fd |-> NoName]
  /\ sockets = {} /\ told = {} /\ ended = 0
  /\ hci0 = TRUE /\ proxies = {} /\ link = {}
  /\ backlog = [f \in Fd |-> <<>>] /\ alive = {}
  /\ connections = 0 /\ restarts = 0 /\ faults = 0 /\ stale = FALSE

\* The kernel gives the lowest descriptor that is free.
FdsLeft == Fd \ open # {}
NextFd == Min(Fd \ open)

First(S) == IF S = {} THEN 0 ELSE Min(S)

free_index == First({i \in Slot : ~rfcomm_server[i].used})
index_from_socket(fd) ==
  First({i \in Slot : rfcomm_server[i].server_sock_fd = fd})
index_from_client_socket(fd) ==
  First({i \in Slot : rfcomm_server[i].client_sock_fd = fd})

(***************************************************************************)
(* bluetooth_rfcomm_create_socket: a proxy, then a socket of its name.     *)
(***************************************************************************)

\* The name is the number of proxies: BlueZ refuses one that is taken.
NewName == Cardinality(proxies)
CanCreate ==
  /\ hci0 /\ free_index # 0 /\ NewName \in Name \ proxies

bluetooth_rfcomm_create_socket ==
  /\ CanCreate /\ FdsLeft
  /\ LET i == free_index
         fd == NextFd
         taken == \E f \in open : bound[f] = NewName
     IN  /\ rfcomm_server' = [rfcomm_server EXCEPT
              ![i].used = TRUE, ![i].uds_name = NewName, ![i].server_sock_fd = fd]
         /\ proxies' = proxies \cup {NewName}
         /\ IF taken   \* bind fails: the socket is closed, the slot stays
            THEN /\ stale' = TRUE
                 /\ UNCHANGED <<open, bound, sockets>>
            ELSE /\ open' = open \cup {fd}
                 /\ bound' = [bound EXCEPT ![fd] = NewName]
                 /\ sockets' = sockets \cup {<<fd, i>>}
                 /\ UNCHANGED stale
  /\ ended' = 0
  /\ UNCHANGED <<watches, server_watches, told, hci0, link, backlog, alive, boundVars>>

EnableFails ==
  /\ CanCreate /\ faults < MaxFaults
  /\ faults' = faults + 1
  /\ rfcomm_server' = [rfcomm_server EXCEPT
       ![free_index].used = TRUE, ![free_index].uds_name = NewName]
  /\ proxies' = proxies \cup {NewName}
  /\ ended' = 0
  /\ UNCHANGED <<watches, server_watches, open, bound, sockets, told, hci0, link,
                 backlog, alive, connections, restarts, stale>>

\* bluetooth_rfcomm_listen_and_accept, and bluetooth_rfcomm_listen.  Applications
\* call it once for a socket.
bluetooth_rfcomm_listen(fd) ==
  /\ hci0 /\ fd \in open
  /\ LET i == index_from_socket(fd)
     IN  /\ i # 0 /\ ~rfcomm_server[i].is_listen
         /\ rfcomm_server' = [rfcomm_server EXCEPT ![i].is_listen = TRUE]
  /\ server_watches' = server_watches \cup {fd}
  /\ ended' = 0
  /\ UNCHANGED <<watches, open, bound, sockets, told, bluezVars, countVars>>

(***************************************************************************)
(* The watches.                                                            *)
(***************************************************************************)

\* GetInfo, which fails when BlueZ does not know the proxy.
GetInfo_connected(i) == hci0 /\ rfcomm_server[i].uds_name \in link

\* A connection is accepted.  The proxy of the slot is asked whether it is
\* connected; when it is no longer, the watch of the server socket is removed and
\* closes it, the watch of the client socket is not.
server_connected_cb(fd) ==
  /\ fd \in server_watches /\ backlog[fd] # <<>> /\ FdsLeft
  /\ LET i == index_from_socket(fd)
         client == NextFd
     IN  /\ i # 0
         /\ rfcomm_server' = [rfcomm_server EXCEPT
              ![i].client_sock_fd = client, ![i].client_watch = client]
         /\ watches' = watches \cup {<<client, i>>}
         /\ alive' = IF Head(backlog[fd]) = "live" THEN alive \cup {client} ELSE alive
         /\ IF GetInfo_connected(i)
            THEN /\ open' = open \cup {client}
                 /\ told' = told \cup {client}   \* CONNECTED
                 /\ backlog' = [backlog EXCEPT ![fd] = Tail(@)]
                 /\ UNCHANGED <<server_watches, bound, stale>>
            ELSE /\ open' = (open \cup {client}) \ {fd}
                 /\ backlog' = [backlog EXCEPT ![fd] = <<>>]
                 /\ bound' = [bound EXCEPT ![fd] = NoName]
                 /\ server_watches' = server_watches \ {fd}
                 /\ stale' = TRUE
                 /\ UNCHANGED told
  /\ ended' = 0
  /\ UNCHANGED <<sockets, hci0, proxies, link, boundVars>>

\* The watch client_event_src_id of slot i stands for; it may be gone already, then
\* g_source_remove does nothing.
Watch(i) == {<<rfcomm_server[i].client_watch, i>>} \cap watches

\* Mutant: the watch is not removed with the socket.
CloseClient_watched(i, fd) ==
  LET client == rfcomm_server[i].client_sock_fd
  IN  /\ rfcomm_server' = [rfcomm_server EXCEPT ![i].client_sock_fd = -1,
                                                ![i].client_watch = 0]
      /\ watches' = watches \ {<<fd, i>>}
      /\ open' = open \ {client, fd}
      /\ alive' = alive \ {client, fd}
      /\ told' = told \ {client}

\* What closing the client of slot i leaves, where the watch of fd goes too.
CloseClient(i, fd) ==
  LET client == rfcomm_server[i].client_sock_fd
      removed == Watch(i) \cup {<<fd, i>>}
      gone == {client} \cup {w[1] : w \in removed}
  IN  /\ rfcomm_server' = [rfcomm_server EXCEPT ![i].client_sock_fd = -1,
                                                ![i].client_watch = 0]
      /\ watches' = watches \ removed
      /\ open' = open \ gone
      /\ alive' = alive \ gone
      /\ told' = told \ {client}

\* bluetooth_rfcomm_server_disconnect, with an event, and __rfcomm_server_disconnect.
bluetooth_rfcomm_server_disconnect(fd, tells) ==
  /\ hci0
  /\ LET i == index_from_client_socket(fd)
     IN  i # 0 /\ CloseClient(i, fd)
  /\ ended' = IF tells THEN fd ELSE 0
  /\ UNCHANGED <<server_watches, bound, sockets, hci0, proxies, link, backlog, countVars>>

\* The other end of the client socket fd is closed.  It is not fd that is
\* disconnected but what the slot holds by now; without an adapter nothing is.
server_data_received_cb(fd, i) ==
  /\ <<fd, i>> \in watches /\ fd \notin alive
  /\ LET client == rfcomm_server[i].client_sock_fd
         index == index_from_client_socket(client)
     IN  \/ /\ hci0 /\ client > 0
            /\ CloseClient(index, fd)
            /\ ended' = client
            /\ UNCHANGED stale
         \/ /\ ~hci0 \/ client <= 0
            /\ watches' = watches \ {<<fd, i>>}
            /\ open' = open \ {fd}
            /\ stale' = (stale \/ client = fd)
            /\ ended' = 0
            /\ UNCHANGED <<rfcomm_server, alive, told>>
  /\ UNCHANGED <<server_watches, bound, sockets, hci0, proxies, link, backlog, boundVars>>

(***************************************************************************)
(* bluetooth_rfcomm_remove_socket                                          *)
(***************************************************************************)

\* An error of BlueZ, which does not know the proxy, ends the call at once.
CanRemove(i) == hci0 /\ i # 0 /\ rfcomm_server[i].uds_name \in proxies

\* Disable and RemoveProxy
RemoveProxy(n) == proxies' = proxies \ {n} /\ link' = link \ {n}

\* Mutant: the descriptor is kept in the slot.
bluetooth_rfcomm_remove_socket_keeps(fd) ==
  /\ LET i == index_from_socket(fd)
         s == rfcomm_server[i]
     IN  /\ CanRemove(i) /\ s.client_sock_fd = 0
         /\ RemoveProxy(s.uds_name)
         /\ rfcomm_server' = [rfcomm_server EXCEPT ![i].used = FALSE]
  /\ server_watches' = server_watches \ {fd}
  /\ open' = open \ {fd}
  /\ bound' = [bound EXCEPT ![fd] = NoName]
  /\ backlog' = [backlog EXCEPT ![fd] = <<>>]
  /\ sockets' = {x \in sockets : x[1] # fd}
  /\ ended' = 0
  /\ UNCHANGED <<watches, told, hci0, alive, countVars>>

\* A client_sock_fd other than 0 is taken for a client.
bluetooth_rfcomm_remove_socket(fd) ==
  /\ LET i == index_from_socket(fd)
         s == rfcomm_server[i]
         removed == IF s.client_sock_fd # 0 THEN Watch(i) ELSE {}
         client == {s.client_sock_fd} \cup {w[1] : w \in removed}
     IN  /\ CanRemove(i)
         /\ RemoveProxy(s.uds_name)
         /\ ended' = s.client_sock_fd
         /\ told' = told \ client
         /\ watches' = watches \ removed
         /\ server_watches' = IF s.is_listen THEN server_watches \ {fd} ELSE server_watches
         /\ open' = open \ (client \cup {fd})
         /\ alive' = alive \ client
         /\ bound' = [bound EXCEPT ![fd] = NoName]
         /\ backlog' = [backlog EXCEPT ![fd] = <<>>]
         /\ sockets' = {x \in sockets : x[1] # fd}
         /\ rfcomm_server' = [rfcomm_server EXCEPT ![i] =
              [FreeSlot EXCEPT !.server_sock_fd = -1,
                               !.client_sock_fd = IF s.client_sock_fd = 0 THEN 0 ELSE -1]]
  /\ UNCHANGED <<hci0, countVars>>

(***************************************************************************)
(* BlueZ (external), the other side and other processes.                   *)
(***************************************************************************)

\* A proxy has one connection at a time and hands it to the socket of its name.
RemoteConnects(fd) ==
  /\ fd \in server_watches
  /\ bound[fd] \in proxies \ link
  /\ Len(backlog[fd]) < MaxBacklog /\ connections < MaxConnections
  /\ connections' = connections + 1
  /\ link' = link \cup {bound[fd]}
  /\ backlog' = [backlog EXCEPT ![fd] = Append(@, "live")]
  /\ ended' = 0
  /\ UNCHANGED <<libVars, told, hci0, proxies, alive, restarts, faults, stale>>

\* The connections of proxies N end, accepted or waiting.
Drop(N) ==
  /\ link' = link \ N
  /\ backlog' = [f \in Fd |-> IF bound[f] \in N
                              THEN [j \in DOMAIN backlog[f] |-> "dead"] ELSE backlog[f]]
  /\ alive' = {c \in alive : \A w \in watches :
                 w[1] = c => rfcomm_server[w[2]].uds_name \notin N}

RemoteDrops(n) ==
  /\ n \in link
  /\ Drop({n})
  /\ ended' = 0
  /\ UNCHANGED <<libVars, told, hci0, proxies, countVars>>

\* The proxies go with the adapter.
AdapterGoes ==
  /\ hci0 /\ restarts < MaxRestarts
  /\ hci0' = FALSE /\ proxies' = {}
  /\ Drop(Name)
  /\ restarts' = restarts + 1
  /\ ended' = 0
  /\ UNCHANGED <<libVars, told, connections, faults, stale>>

AdapterAppears ==
  /\ ~hci0
  /\ hci0' = TRUE
  /\ ended' = 0
  /\ UNCHANGED <<libVars, told, proxies, link, backlog, alive, countVars>>

-----------------------------------------------------------------------------

ServerCall ==
  \/ bluetooth_rfcomm_create_socket \/ EnableFails
  \/ \E x \in sockets :
       bluetooth_rfcomm_listen(x[1]) \/ bluetooth_rfcomm_remove_socket(x[1])
  \/ \E fd \in told, tells \in BOOLEAN : bluetooth_rfcomm_server_disconnect(fd, tells)

MainLoop ==
  \/ \E fd \in Fd : server_connected_cb(fd)
  \/ \E w \in watches : server_data_received_cb(w[1], w[2])

Bluez ==
  \/ \E fd \in Fd : RemoteConnects(fd)
  \/ \E n \in Name : RemoteDrops(n)
  \/ AdapterGoes \/ AdapterAppears

Next == ServerCall \/ MainLoop \/ Bluez

Spec == Init /\ [][Next]_vars

(***************************************************************************)
(* Properties.                                                             *)
(***************************************************************************)

TypeOK ==
  /\ rfcomm_server \in [Slot ->
       [used : BOOLEAN, server_sock_fd : Fd \cup {0, -1}, is_listen : BOOLEAN,
        uds_name : Name \cup {NoName}, client_sock_fd : Fd \cup {0, -1},
        client_watch : Fd \cup {0}]]
  /\ watches \subseteq Fd \X Slot /\ server_watches \subseteq Fd
  /\ open \subseteq Fd /\ bound \in [Fd -> Name \cup {NoName}]
  /\ sockets \subseteq Fd \X Slot /\ told \subseteq Fd
  /\ ended \in Fd \cup {0, -1}
  /\ hci0 \in BOOLEAN /\ proxies \subseteq Name /\ link \subseteq proxies
  /\ backlog \in [Fd -> Seq({"live", "dead"})] /\ alive \subseteq Fd
  /\ connections \in 0..MaxConnections /\ restarts \in 0..MaxRestarts
  /\ faults \in 0..MaxFaults /\ stale \in BOOLEAN

\* No watch is left on a descriptor that was closed, which the kernel may by then
\* have given to something else, until the library closes a socket that the slot
\* keeps (what that slot closes later may be anyone's).
WatchedAreOpen ==
  ~stale => /\ \A w \in watches : w[1] \in open
            /\ server_watches \subseteq open

\* The descriptor of a server socket leads back to the slot it was created in,
\* whatever was created, refused and removed before and after restarts of the
\* adapter, until the library closes a socket that the slot keeps.
SocketsAreFound ==
  ~stale => \A x \in sockets : index_from_socket(x[1]) = x[2]

\* BluetoothFW_PG.h, "If RFCOMM socket is disconnected, this event reported": the
\* socket that is reported, when no call asked for it, is not one still connected.
DisconnectedIsGone ==
  [][ended' # 0 /\ MainLoop => ended' \notin alive]_vars
=============================================================================
