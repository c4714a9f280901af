------------------------------ MODULE BtAgent ------------------------------
(***************************************************************************)
(* The power side of the framework agent daemon (bluetooth-frwk-agent):    *)
(* its life cycle, the status it keeps of the Bluetooth stack, and the     *)
(* scripts it runs to start and stop the stack.  The pairing and           *)
(* authorization requests it serves are in ScCoreAgent.                    *)
(*                                                                         *)
(* The daemon is one thread on a GLib main loop: each D-Bus call, signal,  *)
(* timer and idle callback is one step.  Start-up is two steps, since the  *)
(* default adapter is read before the AdapterAdded handler is connected.   *)
(***************************************************************************)
EXTENDS Naturals

CONSTANT MaxDestroyTimers   \* bound on the destroy timers pending at once

VARIABLES
  phase,            \* "stopped", "starting" (signals not connected), "running"
  bt_status,        \* app_data->bt_status
  registered,       \* the agent object is registered on an adapter
  idle_check,       \* the start-up idle callback is pending
  destroy_timers,   \* pending 200 ms __sc_core_agent_destroy_cb timers
  vconf_bt_status,  \* VCONFKEY_BT_STATUS # OFF: outlives the daemon
  scripts           \* the stack scripts that are running in the background

vars == <<phase, bt_status, registered, idle_check, destroy_timers,
          vconf_bt_status, scripts>>

BtStatus == {"DEACTIVATED", "ACTIVATING", "ACTIVATED", "DEACTIVATING"}
Modes == {"ENABLE", "DISABLE"}

Running == phase = "running"

Init ==
  /\ phase = "stopped"
  /\ bt_status = "DEACTIVATED"
  /\ registered = FALSE
  /\ idle_check = FALSE
  /\ destroy_timers = 0
  /\ vconf_bt_status = FALSE
  /\ scripts = {}

(***************************************************************************)
(* Start and end of the daemon.                                            *)
(***************************************************************************)

\* __agent_init up to the registration: an adapter that is there (live) makes
\* the status activated, and the agent registers on it (which may be refused).
agent_init(live, accepted) ==
  /\ phase = "stopped"
  /\ phase' = "starting"
  /\ bt_status' = IF live THEN "ACTIVATED" ELSE "DEACTIVATED"
  /\ registered' = (live /\ accepted)
  /\ UNCHANGED <<idle_check, destroy_timers, vconf_bt_status, scripts>>

\* The rest of __agent_init: the adapter signals are connected and the check of
\* the previous session is left to an idle callback.
agent_init_done ==
  /\ phase = "starting"
  /\ phase' = "running"
  /\ idle_check' = TRUE
  /\ UNCHANGED <<bt_status, registered, destroy_timers, vconf_bt_status, scripts>>

\* The process ends, and its timers and D-Bus registration with it.
bt_agent_terminate ==
  /\ phase' = "stopped"
  /\ bt_status' = "DEACTIVATED"
  /\ registered' = FALSE
  /\ idle_check' = FALSE
  /\ destroy_timers' = 0

\* The daemon is killed or crashes: only vconf and the scripts survive.
agent_crash ==
  /\ phase # "stopped"
  /\ bt_agent_terminate
  /\ UNCHANGED <<vconf_bt_status, scripts>>

(***************************************************************************)
(* Changing the mode.                                                      *)
(***************************************************************************)

\* _sc_core_agent_mode_change(ENABLE) is a success that does nothing while the
\* stack is coming up or is up; otherwise it starts bt-stack-up.sh in the
\* background (spawned: system() did not fail).
NeedsScript(mode) ==
  IF mode = "ENABLE" THEN bt_status \notin {"ACTIVATING", "ACTIVATED"}
                     ELSE bt_status \notin {"DEACTIVATING", "DEACTIVATED"}

ModeChangeFails(mode, spawned) == NeedsScript(mode) /\ ~spawned

\* Mutant: a script that cannot be started leaves the status changing.
mode_change_keeps_status(mode, spawned) ==
  IF ~NeedsScript(mode) THEN UNCHANGED <<bt_status, scripts>>
  ELSE /\ bt_status' = IF mode = "ENABLE" THEN "ACTIVATING" ELSE "DEACTIVATING"
       /\ scripts' = IF ~spawned THEN scripts
                     ELSE scripts \cup {IF mode = "ENABLE" THEN "up" ELSE "down"}

mode_change(mode, spawned) ==
  IF ~NeedsScript(mode) THEN UNCHANGED <<bt_status, scripts>>
  ELSE IF spawned
  THEN /\ bt_status' = IF mode = "ENABLE" THEN "ACTIVATING" ELSE "DEACTIVATING"
       /\ scripts' = scripts \cup {IF mode = "ENABLE" THEN "up" ELSE "down"}
  ELSE /\ bt_status' = IF mode = "ENABLE" THEN "DEACTIVATED" ELSE "ACTIVATED"
       /\ UNCHANGED scripts

\* ConfirmMode: accepted without asking, and answered with an error only when
\* the mode change fails.
confirm_mode(mode, spawned) ==
  /\ Running
  /\ mode_change(mode, spawned)
  /\ UNCHANGED <<phase, registered, idle_check, destroy_timers, vconf_bt_status>>

\* The flight mode was switched on.
flight_mode_cb(spawned) ==
  /\ Running
  /\ mode_change("DISABLE", spawned)
  /\ UNCHANGED <<phase, registered, idle_check, destroy_timers, vconf_bt_status>>

\* The idle callback: re-enable the stack if it was on in the previous session;
\* otherwise the daemon ends, unless it was told to activate meanwhile.
check_bt_service(spawned) ==
  /\ Running
  /\ idle_check
  /\ IF vconf_bt_status
     THEN /\ idle_check' = FALSE
          /\ mode_change("ENABLE", spawned)
          /\ UNCHANGED <<phase, registered, destroy_timers>>
     ELSE IF bt_status # "ACTIVATING"
     THEN bt_agent_terminate /\ UNCHANGED scripts
     ELSE /\ idle_check' = FALSE
          /\ UNCHANGED <<phase, bt_status, registered, destroy_timers, scripts>>
  /\ UNCHANGED vconf_bt_status

(***************************************************************************)
(* BlueZ signals and the destroy timer.                                    *)
(***************************************************************************)

agent_adapter_added_cb(accepted) ==
  /\ Running
  /\ registered' = accepted
  /\ vconf_bt_status' = TRUE
  /\ bt_status' = "ACTIVATED"
  /\ UNCHANGED <<phase, idle_check, destroy_timers, scripts>>

\* NameOwnerChanged: BlueZ left the bus.  The daemon is to end in 200 ms.
agent_name_owner_changed ==
  /\ Running
  /\ destroy_timers < MaxDestroyTimers
  /\ vconf_bt_status' = FALSE
  /\ registered' = FALSE
  /\ bt_status' = "DEACTIVATED"
  /\ destroy_timers' = destroy_timers + 1
  /\ UNCHANGED <<phase, idle_check, scripts>>

\* The destroy timer: the daemon ends unless the stack is being activated.
agent_destroy_cb ==
  /\ Running
  /\ destroy_timers > 0
  /\ IF bt_status # "ACTIVATING"
     THEN bt_agent_terminate
     ELSE /\ destroy_timers' = destroy_timers - 1
          /\ UNCHANGED <<phase, bt_status, registered, idle_check>>
  /\ UNCHANGED <<vconf_bt_status, scripts>>
==============================================================================
