---------------------------- MODULE MCHandsFree -----------------------------
(***************************************************************************)
(* Model-checking instance of HfpStatus and Telephony: one call and one    *)
(* headset; an empty, a low and two full batteries.                        *)
(***************************************************************************)
EXTENDS HfpStatus

CONSTANTS MaxCall, MaxHeadset, MaxOps, MaxRequests, MaxRestarts

VARIABLES
  component,  \* the component that runs, chosen at the start
  \* Telephony
  conn, is_active, proxy, obj_path, address, headset_state, call_count,
  filters, matched, doing, in_callback, app_in, waits, agent_in, up,
  registered, calls, link, sco, asked, lost, known, ops, requests, restarts,
  links

telephonyVars ==
  <<conn, is_active, proxy, obj_path, address, headset_state, call_count,
    filters, matched, doing, in_callback, app_in, waits, agent_in, up,
    registered, calls, link, sco, asked, lost, known, ops, requests, restarts,
    links>>

Telephony == INSTANCE Telephony

ASSUME HandsFreeAssumption == Telephony!TelephonyAssumption

\* The components have no state in common, so one of them runs at a time.
SumInit ==
  /\ component \in {"status", "telephony"}
  /\ Init
  /\ Telephony!Init

SumNext ==
  \/ /\ component = "status" /\ Next
     /\ UNCHANGED <<component, telephonyVars>>
  \/ /\ component = "telephony" /\ Telephony!Next
     /\ UNCHANGED <<component, vars>>

sumVars == <<component, vars, telephonyVars>>

\* A component that does not run stays where none of its fair actions is enabled.
SumSpec == SumInit /\ [][SumNext]_sumVars /\ Telephony!Fairness

\* Telephony: the counts of calls differ by what came too late or was lost.
CountIsExplained == Telephony!CountIsExplained

\* Telephony: headset_state follows BlueZ (__bluetooth_telephony_event_filter).
HeadsetStateFollows == Telephony!HeadsetStateFollows

\* Telephony: a request of the headset is answered.
HeadsetAnswered == Telephony!HeadsetAnswered
=============================================================================
