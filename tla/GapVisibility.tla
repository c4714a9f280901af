--------------------------- MODULE GapVisibility ---------------------------
(***************************************************************************)
(* Visibility: bluetooth_set_discoverable_mode (lib/bluetooth-gap-api.c),  *)
(* the handlers of the adapter's Discoverable and DiscoverableTimeout      *)
(* properties (lib/bluetooth-api-common.c) in every process that has the   *)
(* library open, and the agent's count of the seconds that are left.       *)
(*                                                                         *)
(* The mode is two properties of BlueZ, set one after the other by calls   *)
(* that block; each library resets the timeout when it learns, from a      *)
(* signal that may be old, that the adapter is no longer discoverable.     *)
(***************************************************************************)
EXTENDS Naturals, Integers, Sequences

CONSTANTS
  Proc,         \* processes that use the library
  Setter,       \* the one whose application sets the mode
  MaxSets,      \* bound on the calls of bluetooth_set_discoverable_mode
  MaxFailures,  \* bound on the calls BlueZ refuses
  MaxInbox      \* bound on the signals that may wait when time runs out

VisibilityAssumption ==
  /\ Setter \in Proc
  /\ MaxSets \in Nat /\ MaxFailures \in Nat /\ MaxInbox \in Nat

VARIABLES
  \* the application's call
  pc,                  \* the property to set next, or "idle"
  mode,                \* the mode asked for
  sets, failures,      \* number of calls and of refusals so far (ghost)
  \* the libraries
  inbox,               \* signals not yet dispatched by each process
  resets,              \* processes whose DiscoverableTimeout = 0 is on its way
  reported,            \* the mode each process has told its application
  \* BlueZ
  discoverable,        \* the two properties
  timeout,             \* 0: no limit, 1: some time
  \* the agent
  timer_call,          \* a SetDiscoverableTimer call on its way, "none"
  timeout_id,          \* the one second timer runs
  visible_time         \* BT_FILE_VISIBLE_TIME: -1, 0, or 1 for seconds left

appVars == <<pc, mode, sets, failures>>
bluezVars == <<discoverable, timeout>>
agentVars == <<timer_call, timeout_id, visible_time>>
vars == <<appVars, inbox, resets, reported, bluezVars, agentVars>>

Modes == {"CONNECTABLE", "GENERAL_DISCOVERABLE", "TIME_LIMITED_DISCOVERABLE"}

InqScan(m) == m # "CONNECTABLE"

Limit(m) == IF m = "TIME_LIMITED_DISCOVERABLE" THEN 1 ELSE 0
AgentTime(m) == IF m = "GENERAL_DISCOVERABLE" THEN -1 ELSE Limit(m)

\* The mode of the adapter, as bluetooth_get_discoverable_mode works it out.
ModeNow ==
  IF ~discoverable THEN "CONNECTABLE"
  ELSE IF timeout = 0 THEN "GENERAL_DISCOVERABLE" ELSE "TIME_LIMITED_DISCOVERABLE"

Init ==
  /\ pc = "idle" /\ mode = "CONNECTABLE"
  /\ sets = 0 /\ failures = 0
  /\ inbox = [p \in Proc |-> <<>>]
  /\ resets = {}
  /\ reported = [p \in Proc |-> "CONNECTABLE"]
  /\ discoverable = FALSE /\ timeout = 0
  /\ timer_call = "none" /\ timeout_id = FALSE /\ visible_time = 0

(***************************************************************************)
(* BlueZ (external).                                                       *)
(***************************************************************************)

Sig(property, value) == [property |-> property, value |-> value]

\* The queues after the signals sigs.
Emit(queues, sigs) == [p \in Proc |-> queues[p] \o sigs]

\* A property that is set to what it is makes no signal.
SetDiscoverable(queues, value) ==
  /\ discoverable' = value
  /\ inbox' = IF value = discoverable THEN queues
              ELSE Emit(queues, <<Sig("Discoverable", value)>>)
  /\ UNCHANGED timeout

SetTimeout(queues, value) ==
  /\ timeout' = value
  /\ inbox' = IF value = timeout THEN queues
              ELSE Emit(queues, <<Sig("DiscoverableTimeout", value)>>)
  /\ UNCHANGED discoverable

\* BlueZ's own timer, which runs while the adapter is discoverable for a time.
TimeIsOver ==
  /\ discoverable /\ timeout # 0
  /\ \A p \in Proc : Len(inbox[p]) < MaxInbox
  /\ SetDiscoverable(inbox, FALSE)
  /\ UNCHANGED <<appVars, resets, reported, agentVars>>

\* BlueZ reads a reset; nobody waits for the answer.
BluezResets(p) ==
  /\ p \in resets
  /\ resets' = resets \ {p}
  /\ SetTimeout(inbox, 0)
  /\ UNCHANGED <<appVars, reported, agentVars>>

\* What p asks BlueZ is read after what p sent before.
Asks(p) == p \notin resets

(***************************************************************************)
(* bluetooth_set_discoverable_mode: Powered, Discoverable and              *)
(* DiscoverableTimeout, each refused or not, then a message to the agent.  *)
(***************************************************************************)

\* Powered is TRUE in every mode: an enabled adapter does not notice.
set_discoverable_mode(m) ==
  /\ pc = "idle" /\ sets < MaxSets
  /\ pc' = "Discoverable" /\ mode' = m
  /\ sets' = sets + 1
  /\ UNCHANGED <<failures, inbox, resets, reported, bluezVars, agentVars>>

SetFails ==
  /\ pc \in {"Discoverable", "DiscoverableTimeout"}
  /\ failures < MaxFailures
  /\ Asks(Setter)
  /\ failures' = failures + 1
  /\ pc' = "idle"
  /\ UNCHANGED <<mode, sets, inbox, resets, reported, bluezVars, agentVars>>

set_discoverable ==
  /\ pc = "Discoverable" /\ Asks(Setter)
  /\ pc' = "DiscoverableTimeout"
  /\ SetDiscoverable(inbox, InqScan(mode))
  /\ UNCHANGED <<mode, sets, failures, resets, reported, agentVars>>

set_timeout ==
  /\ pc = "DiscoverableTimeout" /\ Asks(Setter)
  /\ timer_call = "none"    \* the agent has read the message before
  /\ pc' = "idle"
  /\ SetTimeout(inbox, Limit(mode))
  /\ timer_call' = mode
  /\ UNCHANGED <<mode, sets, failures, resets, reported, timeout_id, visible_time>>

(***************************************************************************)
(* __bluetooth_internal_adapter_property_changed, in each process.  What   *)
(* it reads it reads now; what it was told may be old.                     *)
(***************************************************************************)

mode_changed_cb(p, m) == reported' = [reported EXCEPT ![p] = m]

discoverable_changed(p, value) ==
  \/ /\ ~value
     /\ resets' = resets \cup {p}
     /\ mode_changed_cb(p, "CONNECTABLE")
  \/ /\ value /\ Asks(p)
     /\ IF timeout = 0 THEN mode_changed_cb(p, "GENERAL_DISCOVERABLE")
                       ELSE UNCHANGED reported
     /\ UNCHANGED resets

\* Mutant: without a limit the adapter is taken to be discoverable.
timeout_changed_unasked(p, value) ==
  /\ mode_changed_cb(p, IF value # 0 THEN "TIME_LIMITED_DISCOVERABLE"
                        ELSE "GENERAL_DISCOVERABLE")
  /\ UNCHANGED resets

timeout_changed(p, value) ==
  /\ value = 0 => Asks(p)
  /\ mode_changed_cb(p, IF value # 0 THEN "TIME_LIMITED_DISCOVERABLE"
                        ELSE IF discoverable THEN "GENERAL_DISCOVERABLE"
                        ELSE "CONNECTABLE")
  /\ UNCHANGED resets

adapter_property_changed(p) ==
  /\ inbox[p] # <<>>
  /\ p = Setter => pc = "idle"
  /\ inbox' = [inbox EXCEPT ![p] = Tail(@)]
  /\ LET s == Head(inbox[p])
     IN  \/ s.property = "Discoverable" /\ discoverable_changed(p, s.value)
         \/ s.property = "DiscoverableTimeout" /\ timeout_changed(p, s.value)
  /\ UNCHANGED <<appVars, bluezVars, agentVars>>

(***************************************************************************)
(* The agent.                                                              *)
(***************************************************************************)

\* Mutant: the timer of the mode before is not removed.
set_discoverable_timer_keeps ==
  /\ timer_call # "none"
  /\ timer_call' = "none"
  /\ visible_time' = AgentTime(timer_call)
  /\ timeout_id' = (timeout_id \/ AgentTime(timer_call) > 0)
  /\ UNCHANGED <<appVars, inbox, resets, reported, bluezVars>>

set_discoverable_timer ==
  /\ timer_call # "none"
  /\ timer_call' = "none"
  /\ visible_time' = AgentTime(timer_call)
  /\ timeout_id' = (AgentTime(timer_call) > 0)
  /\ UNCHANGED <<appVars, inbox, resets, reported, bluezVars>>

timeout_handler ==
  /\ timeout_id
  /\ timeout_id' = FALSE
  /\ visible_time' = 0
  /\ UNCHANGED <<appVars, inbox, resets, reported, bluezVars, timer_call>>

-----------------------------------------------------------------------------

Library == \E p \in Proc : adapter_property_changed(p)

Call == set_discoverable \/ set_timeout \/ SetFails

Next ==
  \/ \E m \in Modes : set_discoverable_mode(m)
  \/ Call \/ Library
  \/ set_discoverable_timer \/ timeout_handler
  \/ TimeIsOver \/ \E p \in Proc : BluezResets(p)

\* BlueZ answers, main loops run, and time passes.
Fairness ==
  /\ WF_vars(Call) /\ WF_vars(set_discoverable_timer) /\ WF_vars(timeout_handler)
  /\ \A p \in Proc : WF_vars(adapter_property_changed(p)) /\ WF_vars(BluezResets(p))
  /\ WF_vars(TimeIsOver)

Spec == Init /\ [][Next]_vars /\ Fairness

(***************************************************************************)
(* Properties.                                                             *)
(***************************************************************************)

TypeOK ==
  /\ pc \in {"idle", "Discoverable", "DiscoverableTimeout"}
  /\ mode \in Modes
  /\ sets \in 0..MaxSets /\ failures \in 0..MaxFailures
  /\ inbox \in [Proc -> Seq([property : {"Discoverable"}, value : BOOLEAN]
                       \cup [property : {"DiscoverableTimeout"}, value : {0, 1}])]
  /\ resets \subseteq Proc
  /\ reported \in [Proc -> Modes]
  /\ discoverable \in BOOLEAN /\ timeout \in {0, 1}
  /\ timer_call \in Modes \cup {"none"}
  /\ timeout_id \in BOOLEAN /\ visible_time \in {-1, 0, 1}

\* A process that has seen every signal has told its application the mode the
\* adapter is in, although each handler mixes what it is told, which may be old,
\* with what it asks BlueZ, which is new, and every other process resets the
\* timeout behind its back.  Not so while a limit is kept for an adapter that is
\* not discoverable: the handler of DiscoverableTimeout does not look.
ReportIsTrue ==
  \A p \in Proc : inbox[p] = <<>> /\ (timeout # 0 => discoverable) =>
    reported[p] = ModeNow

\* The agent counts the seconds down to 0: the time left is not kept without the
\* timer that ends it, and a new time or another mode replaces the timer.
TimeLeftRuns == visible_time > 0 <=> timeout_id

\* BluetoothFW_PG.h, "time limited discoverable (discoverable for limited time
\* duration)": an adapter made discoverable for a time does not stay so.
LimitedEnds ==
  pc = "idle" /\ mode = "TIME_LIMITED_DISCOVERABLE" /\ timer_call = mode ~>
    ~discoverable \/ pc # "idle"
=============================================================================
