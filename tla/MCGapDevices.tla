---------------------------- MODULE MCGapDevices ----------------------------
(***************************************************************************)
(* Model-checking instance of GapBonding, GapDiscovery and GapVisibility:  *)
(* a headset and another device; the application that sets the mode and    *)
(* another process that uses the library.                                  *)
(***************************************************************************)
EXTENDS GapBonding

CONSTANTS
  headset, phone,
  MaxSignals, MaxResTimers, MaxLeaked,         \* bounds of GapDiscovery
  Proc, Setter, MaxSets, MaxFailures, MaxWaiting   \* and of GapVisibility

VARIABLES
  component,  \* the component that runs, chosen at the start
  \* GapDiscovery
  discovery_application_pid, bt_cb_ptr, discovery_adapter_proxy, leaked,
  is_discovering, is_discovery_cancel, req_timer, res_timers, discovery_event,
  discovery_hci0, discovering, own_session, other_session, discovery_inbox,
  \* GapVisibility
  pc, mode, sets, failures, visibility_inbox, resets, reported, discoverable,
  timeout, timer_call, timeout_id, visible_time

MCDevice == {headset, phone}
MCHeadsets == {headset}

discoveryVars ==
  <<discovery_application_pid, bt_cb_ptr, discovery_adapter_proxy, leaked,
    is_discovering, is_discovery_cancel, req_timer, res_timers,
    discovery_event, discovery_hci0, discovering, own_session, other_session,
    discovery_inbox>>
visibilityVars ==
  <<pc, mode, sets, failures, visibility_inbox, resets, reported,
    discoverable, timeout, timer_call, timeout_id, visible_time>>

Discovery == INSTANCE GapDiscovery WITH
  MaxInbox <- MaxSignals,
  application_pid <- discovery_application_pid,
  adapter_proxy <- discovery_adapter_proxy, event <- discovery_event,
  hci0 <- discovery_hci0, inbox <- discovery_inbox

Visibility == INSTANCE GapVisibility WITH
  MaxInbox <- MaxWaiting, inbox <- visibility_inbox

ASSUME DevicesAssumption == Discovery!BoundsAssumption /\ Visibility!VisibilityAssumption

\* The components have no state in common, so one of them runs at a time.
SumInit ==
  /\ component \in {"bonding", "discovery", "visibility"}
  /\ Init
  /\ Discovery!Init
  /\ component # "discovery" => ~discovery_hci0
  /\ Visibility!Init

SumNext ==
  \/ /\ component = "bonding" /\ Next
     /\ UNCHANGED <<component, discoveryVars, visibilityVars>>
  \/ /\ component = "discovery" /\ Discovery!Next
     /\ UNCHANGED <<component, vars, visibilityVars>>
  \/ /\ component = "visibility" /\ Visibility!Next
     /\ UNCHANGED <<component, vars, discoveryVars>>

sumVars == <<component, vars, discoveryVars, visibilityVars>>

\* A component that does not run stays where none of its fair actions is enabled.
\* Of GapVisibility only safety is checked here, which needs no fairness.
SumSpec == SumInit /\ [][SumNext]_sumVars /\ Fairness /\ Discovery!Fairness

\* The variables of the three components have their types.
SumTypeOK == TypeOK /\ Discovery!TypeOK /\ Visibility!TypeOK

\* GapDiscovery: once every signal is dispatched the library knows of the
\* discovery that BlueZ runs (adapter_property_changed_cb).
RunningDiscoveryIsKnown == Discovery!RunningDiscoveryIsKnown

\* GapDiscovery: the end is reported only while BlueZ runs none
\* (bt_discovery_finished_cb).
FinishedIsTrue == Discovery!FinishedIsTrue

\* GapDiscovery: DISCOVERY_FINISHED is told of an end the library has seen
\* (the 200 ms timer).
SeenEndIsReported == Discovery!SeenEndIsReported

\* GapVisibility: the mode told is the mode there is (adapter_property_changed).
ReportIsTrue == Visibility!ReportIsTrue

\* GapVisibility: the time left is counted down by a timer (timeout_handler).
TimeLeftRuns == Visibility!TimeLeftRuns
=============================================================================
