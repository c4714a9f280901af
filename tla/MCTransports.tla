---------------------------- MODULE MCTransports ----------------------------
(***************************************************************************)
(* Model-checking instance of OpcClient, RfcommServer and RfcommClient,    *)
(* which share the number of slots and how often the adapter goes.         *)
(***************************************************************************)
EXTENDS OpcClient

CONSTANTS
  MaxConn, MaxRestarts,
  MaxFd, MaxNames, MaxConnections, MaxBacklog, MaxFaults,  \* RfcommServer
  MaxConnects                                              \* RfcommClient

VARIABLES
  component,  \* the component that runs, chosen at the start
  \* RfcommServer
  rfcomm_server, watches, server_watches, server_open, bound, sockets, told,
  ended, hci0, proxies, link, backlog, alive, connections, server_restarts,
  faults, stale,
  \* RfcommClient
  connecting_uuid, rfcomm_proxy, rfcomm_client, calls, client_inbox, hups,
  enabled, port, tells, client_open, overlapped, abandoned, connects,
  client_restarts

serverVars ==
  <<rfcomm_server, watches, server_watches, server_open, bound, sockets, told,
    ended, hci0, proxies, link, backlog, alive, connections, server_restarts,
    faults, stale>>
clientVars ==
  <<connecting_uuid, rfcomm_proxy, rfcomm_client, calls, client_inbox, hups,
    enabled, port, tells, client_open, overlapped, abandoned, connects,
    client_restarts>>

Server == INSTANCE RfcommServer WITH
  open <- server_open, restarts <- server_restarts

Client == INSTANCE RfcommClient WITH
  inbox <- client_inbox, open <- client_open, restarts <- client_restarts

ASSUME TransportsAssumption == Server!RfcommServerAssumption /\ Client!RfcommClientAssumption

\* The components have no state in common, so one of them runs at a time.
SumInit ==
  /\ component \in {"opc", "server", "client"}
  /\ Init
  /\ Server!Init
  /\ Client!Init

SumNext ==
  \/ /\ component = "opc" /\ Next
     /\ UNCHANGED <<component, serverVars, clientVars>>
  \/ /\ component = "server" /\ Server!Next
     /\ UNCHANGED <<component, vars, clientVars>>
  \/ /\ component = "client" /\ Client!Next
     /\ UNCHANGED <<component, vars, serverVars>>

sumVars == <<component, vars, serverVars, clientVars>>

\* A component that does not run stays where none of its fair actions is enabled.
SumSpec == SumInit /\ [][SumNext]_sumVars /\ Fairness

\* The variables of the three components have their types.
SumTypeOK == TypeOK /\ Server!TypeOK /\ Client!TypeOK

\* RfcommServer: a watch is on an open descriptor (rfcomm_terminate_server).
WatchedAreOpen == Server!WatchedAreOpen

\* RfcommServer: the descriptor of a server leads to its slot
\* (__rfcomm_internal_get_server_index_using_fd).
SocketsAreFound == Server!SocketsAreFound

\* RfcommClient: a CONNECTED event is for a connect that was made and not
\* cancelled.
EventTellsItsConnect == Client!EventTellsItsConnect

\* RfcommClient: every port BlueZ holds can be used or given up.
PortsAreHeld == Client!PortsAreHeld
=============================================================================
