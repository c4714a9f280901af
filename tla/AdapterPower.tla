---------------------------- MODULE AdapterPower ----------------------------
(***************************************************************************)
(* Switching the Bluetooth adapter on and off, end to end: one application *)
(* using the library (GapAdapter), the framework agent daemon (BtAgent),   *)
(* and BlueZ with the stack scripts, which are outside this repository.    *)
(*                                                                         *)
(* D-Bus hands each process its messages in one order: libInbox holds the  *)
(* signals and replies the library has not dispatched, agentInbox the      *)
(* signals and ConfirmMode calls the daemon has not.  A call to a daemon   *)
(* that is not running waits while D-Bus starts it.                        *)
(***************************************************************************)
EXTENDS GapAdapter, Sequences, FiniteSets

CONSTANTS
  MaxDestroyTimers,  \* bound on the daemon's pending destroy timers
  MaxFaults,         \* bound on crashes, failed spawns and flight mode changes
  MaxInbox           \* bound on the messages that wait for the library

ASSUME BoundsAssumption ==
  /\ MaxDestroyTimers \in Nat /\ MaxFaults \in Nat
  /\ MaxInbox \in Nat

VARIABLES
  \* the daemon, see BtAgent
  phase, bt_status, registered, idle_check, destroy_timers, vconf_bt_status,
  scripts,
  \* BlueZ and D-Bus
  bluetoothd,   \* org.bluez is on the bus
  hci0,         \* BlueZ has the adapter hci0
  libInbox, agentInbox,
  faults,       \* faults injected so far
  missed        \* a signal was sent before the daemon connected its handler

agentVars == <<phase, bt_status, registered, idle_check, destroy_timers,
               vconf_bt_status, scripts>>
worldVars == <<bluetoothd, hci0, libInbox, agentInbox, faults, missed>>
powerVars == <<vars, agentVars, worldVars>>

Agent == INSTANCE BtAgent

Call(c, mode) == [type |-> "ConfirmMode", req |-> c, mode |-> mode]
Reply(c, failed) == [type |-> "Reply", req |-> c, failed |-> failed]
Sig(name) == [type |-> name]

Calls == [type : {"ConfirmMode"}, req : 1..MaxRequests, mode : {"ENABLE", "DISABLE"}]
Replies(reqs) == [type : {"Reply"}, req : reqs, failed : BOOLEAN]

\* The messages of the queue that are in kept, in their order.
Kept(queue, kept) ==
  LET at == {i \in DOMAIN queue : queue[i] \in kept}
  IN  [k \in 1..Cardinality(at) |->
         queue[CHOOSE i \in at : Cardinality({j \in at : j <= i}) = k]]

PowerInit ==
  /\ Init
  /\ Agent!Init
  /\ bluetoothd = FALSE /\ hci0 = FALSE
  /\ libInbox = <<>> /\ agentInbox = <<>>
  /\ faults = 0
  /\ missed = FALSE

(***************************************************************************)
(* BlueZ and the scripts (external).                                       *)
(***************************************************************************)

\* A signal of BlueZ reaches the library while its session is open, and the
\* daemon once it has connected its handlers.
Broadcast(sigs) ==
  /\ Len(libInbox) + Len(sigs) <= MaxInbox
  /\ libInbox' = IF Connected THEN libInbox \o sigs ELSE libInbox
  /\ agentInbox' = IF Agent!Running THEN agentInbox \o sigs ELSE agentInbox
  /\ missed' = (missed \/ phase = "starting")

\* bt-stack-up.sh has done its work: BlueZ runs and has found the adapter.
StackUp ==
  /\ "up" \in scripts
  /\ scripts' = scripts \ {"up"}
  /\ bluetoothd' = TRUE
  /\ hci0' = TRUE
  /\ IF hci0 THEN UNCHANGED <<libInbox, agentInbox, missed>>
             ELSE Broadcast(<<Sig("AdapterAdded")>>)
  /\ UNCHANGED <<phase, bt_status, registered, idle_check, destroy_timers,
                 vconf_bt_status, vars, faults>>

\* bt-stack-down.sh, first step: the adapter goes.
StackDown ==
  /\ "down" \in scripts
  /\ hci0
  /\ hci0' = FALSE
  /\ Broadcast(<<Sig("AdapterRemoved")>>)
  /\ UNCHANGED <<agentVars, vars, bluetoothd, faults>>

BluezLeavesBus ==
  /\ bluetoothd' = FALSE
  /\ hci0' = FALSE
  /\ IF bluetoothd THEN Broadcast(<<Sig("BluezGone")>>)
                   ELSE UNCHANGED <<libInbox, agentInbox, missed>>

\* bt-stack-down.sh, last step: BlueZ is terminated.
StackDownDone ==
  /\ "down" \in scripts
  /\ ~hci0
  /\ scripts' = scripts \ {"down"}
  /\ BluezLeavesBus
  /\ UNCHANGED <<phase, bt_status, registered, idle_check, destroy_timers,
                 vconf_bt_status, vars, faults>>

Fault == faults < MaxFaults /\ faults' = faults + 1

\* A crash is not preceded by AdapterRemoved.
BluezCrash ==
  /\ bluetoothd
  /\ Fault
  /\ BluezLeavesBus
  /\ UNCHANGED <<agentVars, vars>>

(***************************************************************************)
(* The application and the library.                                        *)
(***************************************************************************)

\* The ConfirmMode call of a request that was just sent goes to the daemon.
SendCall(mode) ==
  agentInbox' = IF calls' = calls THEN agentInbox
                ELSE Append(agentInbox, Call(req', mode))

RegisterCallback ==
  /\ bluetooth_register_callback(hci0, TRUE)
  /\ UNCHANGED <<agentVars, worldVars>>

\* What the closed session had not dispatched is lost, except the replies to
\* the calls that were made through an older agent proxy.
UnregisterCallback ==
  /\ bluetooth_unregister_callback
  /\ libInbox' = Kept(libInbox, Replies(orphans))
  /\ UNCHANGED <<agentVars, bluetoothd, hci0, agentInbox, faults, missed>>

EnableAdapter ==
  /\ bluetooth_enable_adapter(hci0, TRUE)
  /\ SendCall("ENABLE")
  /\ UNCHANGED <<agentVars, bluetoothd, hci0, libInbox, faults, missed>>

DisableAdapter ==
  /\ bluetooth_disable_adapter(hci0, TRUE)
  /\ SendCall("DISABLE")
  /\ UNCHANGED <<agentVars, bluetoothd, hci0, libInbox, faults, missed>>

ChangeTimeout ==
  /\ change_status_timeout_cb
  /\ UNCHANGED <<agentVars, worldVars>>

\* The library's main loop dispatches the oldest message.  A reply to a call
\* that the library cancelled is dropped, and so is an AdapterRemoved when
\* there is no adapter proxy.
LibHandles(m) ==
  \/ m.type = "AdapterAdded" /\ adapter_added_cb
  \/ m.type = "AdapterRemoved" /\ adapter_removed_cb
  \/ m.type = "BluezGone" /\ bluez_terminated
  \/ m.type = "AgentOwner" /\ agent_owner_changed
  \/ m.type = "Reply" /\ change_state_req_finish_cb(m.req, m.failed)
  \/ /\ \/ m.type = "AdapterRemoved" /\ ~adapter_proxy
        \/ m.type = "Reply" /\ m.req \notin calls
     /\ UNCHANGED vars

LibDispatch ==
  /\ libInbox # <<>>
  /\ libInbox' = Tail(libInbox)
  /\ LibHandles(Head(libInbox))
  /\ UNCHANGED <<agentVars, bluetoothd, hci0, agentInbox, faults, missed>>

(***************************************************************************)
(* The daemon.                                                             *)
(***************************************************************************)

\* The library learns that the owner of the agent's name has changed.
LibHears(msgs) ==
  /\ Len(libInbox) + Len(msgs) <= MaxInbox
  /\ libInbox' = libInbox \o msgs

OwnerChanged == IF Connected THEN <<Sig("AgentOwner")>> ELSE <<>>

\* The calls the daemon leaves unanswered, which D-Bus answers with an error.
Unanswered(inbox) ==
  LET pending == Kept(inbox, Calls)
  IN  [i \in 1..Len(pending) |-> Reply(pending[i].req, TRUE)]

AgentStart ==
  /\ \E accepted \in BOOLEAN : Agent!agent_init(hci0, accepted)
  /\ LibHears(OwnerChanged)
  /\ UNCHANGED <<vars, bluetoothd, hci0, agentInbox, faults, missed>>

AgentStarted ==
  /\ Agent!agent_init_done
  /\ UNCHANGED <<vars, worldVars>>

\* When the daemon ends, its queue is answered by D-Bus with errors.
AgentLeavesBus ==
  IF phase' = "stopped"
  THEN LibHears(OwnerChanged \o Unanswered(agentInbox)) /\ agentInbox' = <<>>
  ELSE UNCHANGED <<libInbox, agentInbox>>

AgentIdle ==
  /\ \/ Agent!check_bt_service(TRUE) /\ UNCHANGED faults
     \/ Agent!check_bt_service(FALSE) /\ Fault
  /\ AgentLeavesBus
  /\ UNCHANGED <<vars, bluetoothd, hci0, missed>>

AgentDestroy ==
  /\ Agent!agent_destroy_cb
  /\ AgentLeavesBus
  /\ UNCHANGED <<vars, bluetoothd, hci0, faults, missed>>

AgentCrash ==
  /\ Fault
  /\ Agent!agent_crash
  /\ AgentLeavesBus
  /\ UNCHANGED <<vars, bluetoothd, hci0, missed>>

FlightMode ==
  /\ Fault
  /\ Agent!flight_mode_cb(TRUE)
  /\ UNCHANGED <<vars, bluetoothd, hci0, libInbox, agentInbox, missed>>

AgentServesCall ==
  /\ agentInbox # <<>>
  /\ agentInbox' = Tail(agentInbox)
  /\ LET m == Head(agentInbox)
     IN  /\ m.type = "ConfirmMode"
         /\ \/ Agent!confirm_mode(m.mode, TRUE) /\ UNCHANGED faults
            \/ Agent!ModeChangeFails(m.mode, FALSE)
               /\ Agent!confirm_mode(m.mode, FALSE) /\ Fault
         /\ LibHears(<<Reply(m.req, faults' # faults)>>)
  /\ UNCHANGED <<vars, bluetoothd, hci0, missed>>

AgentHandlesSignal ==
  /\ agentInbox # <<>>
  /\ agentInbox' = Tail(agentInbox)
  /\ LET m == Head(agentInbox)
     IN  \/ m.type = "AdapterAdded" /\ Agent!agent_adapter_added_cb(TRUE)
         \/ m.type = "BluezGone" /\ Agent!agent_name_owner_changed
         \/ m.type = "AdapterRemoved" /\ UNCHANGED agentVars
  /\ UNCHANGED <<vars, bluetoothd, hci0, libInbox, faults, missed>>

-----------------------------------------------------------------------------

World == StackUp \/ StackDown \/ StackDownDone \/ BluezCrash
Library == RegisterCallback \/ UnregisterCallback \/ EnableAdapter
           \/ DisableAdapter \/ ChangeTimeout \/ LibDispatch
Daemon == AgentStart \/ AgentStarted \/ AgentIdle \/ AgentDestroy \/ AgentCrash
          \/ FlightMode \/ AgentServesCall \/ AgentHandlesSignal

PowerNext == World \/ Library \/ Daemon

\* The scripts finish, the two main loops dispatch what they have, D-Bus starts
\* the daemon a call waits for.  Application calls and faults owe nothing.
PowerFairness ==
  /\ WF_powerVars(StackUp) /\ WF_powerVars(StackDown) /\ WF_powerVars(StackDownDone)
  /\ WF_powerVars(ChangeTimeout) /\ WF_powerVars(LibDispatch)
  /\ WF_powerVars(AgentStart /\ agentInbox # <<>>) /\ WF_powerVars(AgentStarted)
  /\ WF_powerVars(AgentIdle) /\ WF_powerVars(AgentDestroy)
  /\ WF_powerVars(AgentServesCall) /\ WF_powerVars(AgentHandlesSignal)

PowerSpec == PowerInit /\ [][PowerNext]_powerVars /\ PowerFairness

(***************************************************************************)
(* Properties.                                                             *)
(***************************************************************************)

\* Once the library has dispatched everything and no change is in progress, the
\* state it cached is the state of BlueZ: timeouts, late errors and signals in
\* any order never leave it believing in an adapter that is not there.  (While
\* BlueZ runs without an adapter, between AdapterRemoved and its end, the state
\* is still the old one.)
LibAgreesWhenQuiet ==
  Connected /\ ~Changing /\ libInbox = <<>> /\ bluetoothd = hci0
    => (bt_adapter_state = "ENABLED") = hci0

\* Likewise for the daemon, unless a signal passed before it was listening: with
\* no script running, it knows whether the stack is up, and never waits in
\* activating or deactivating for a script that has already finished.
AgentAgreesWhenQuiet ==
  Agent!Running /\ ~missed /\ agentInbox = <<>> /\ scripts = {}
      /\ bluetoothd = hci0
    => bt_status = IF hci0 THEN "ACTIVATED" ELSE "DEACTIVATED"

\* The daemon has no timer of its own: that it leaves activating and deactivating
\* hangs on a script having an effect whose signal it receives.
DaemonSettles ==
  bt_status \in {"ACTIVATING", "DEACTIVATING"}
    ~> missed \/ bt_status \in {"ACTIVATED", "DEACTIVATED"}
=============================================================================
