-------------------------- MODULE AdapterPower_proof --------------------------
(***************************************************************************)
(* What holds of switching the adapter on and off for every value of the   *)
(* bounds.  First the library alone, with the most general environment     *)
(* (GapAdapter): type correctness, the two halves of "a change in progress *)
(* is watched by the timer", what an event says, and that the library      *)
(* implements AdapterService.  Then the composition with the daemon, BlueZ *)
(* and D-Bus (AdapterPower): the library does in it only what GapAdapter   *)
(* allows, and the library and the daemon know the adapter once they have  *)
(* dispatched what they were sent.  ChangeEnds and DaemonSettles, liveness *)
(* properties, are left to TLC.                                            *)
(***************************************************************************)
EXTENDS AdapterPower, Queues, TLAPS

(***************************************************************************)
(* The library alone.                                                      *)
(***************************************************************************)

\* A callback is registered only in an open session.
CallbackNeedsSession == bt_cb_ptr => application_pid

\* The inductive invariant.  TimerWatchesChange and ChangeIsWatched need each
\* other: a session that opens finds no timer because none survives a deinit.
IInv ==
  /\ TypeOK
  /\ CallbackNeedsSession
  /\ TimerWatchesChange
  /\ ChangeIsWatched
  /\ EventTellsState

\* session_init keeps the types, and a state it had to read is settled.
LEMMA SessionInit ==
  ASSUME TypeOK, NEW live \in BOOLEAN, NEW bus \in BOOLEAN,
         BusOutcome(live, bus), session_init(live, bus)
  PROVE  /\ application_pid' = TRUE
         /\ adapter_proxy' \in BOOLEAN
         /\ agent_proxy' \in {"null", "live"} \cup {agent_proxy}
         /\ StateAfterInit(live, bus) \in AdapterStates
         /\ application_pid => /\ agent_proxy' = agent_proxy
                               /\ StateAfterInit(live, bus) = bt_adapter_state
         /\ ~application_pid /\ agent_proxy' = "live" =>
              StateAfterInit(live, bus) \in {"ENABLED", "DISABLED"}
BY DEF TypeOK, AdapterStates, BusOutcome, session_init, StateAfterInit

\* The event a handler delivers, whether or not there is a callback.
LEMMA EventCb ==
  ASSUME NEW name \in {"ENABLED", "DISABLED"}, NEW result \in Results,
         event_cb(name, result)
  PROVE  /\ event' \in Events
         /\ event' \in {NoEvent, [name |-> name, result |-> result]}
BY DEF event_cb, Events, Results

\* Without an event there is nothing to tell.
LEMMA NoEventTells == event' = NoEvent => EventTellsState' /\ event' \in Events
BY DEF EventTellsState, Events

LEMMA InitIInv == Init => IInv
<1> SUFFICES ASSUME Init PROVE IInv
  OBVIOUS
<1>1. event \in Events /\ EventTellsState
  BY DEF Init, Events, EventTellsState
<1>2. TypeOK
  <2>1. req \in Nat /\ req <= MaxRequests
    BY MaxRequestsAssumption DEF MaxRequestsAssumption, Init
  <2>2. calls \subseteq 1..req /\ orphans \subseteq calls
    BY DEF Init
  <2>3. agent_proxy \in {"null", "live", "freed"}
    BY DEF Init
  <2>4. bt_adapter_state \in AdapterStates
    BY DEF Init, AdapterStates
  <2> QED
    BY <1>1, <2>1, <2>2, <2>3, <2>4 DEF TypeOK, Init
<1>3. CallbackNeedsSession /\ TimerWatchesChange /\ ChangeIsWatched
  BY DEF Init, CallbackNeedsSession, TimerWatchesChange, ChangeIsWatched,
         Changing, IsChanging, Connected
<1> QED
  BY <1>1, <1>2, <1>3 DEF IInv

(***************************************************************************)
(* The application's calls.                                                *)
(***************************************************************************)

LEMMA RegisterKeepsIInv ==
  ASSUME IInv, NEW live \in BOOLEAN, NEW bus \in BOOLEAN,
         bluetooth_register_callback(live, bus)
  PROVE  IInv'
<1> USE DEF IInv
<1>1. /\ BusOutcome(live, bus) /\ session_init(live, bus)
      /\ bt_adapter_state' = StateAfterInit(live, bus)
      /\ bt_cb_ptr' = TRUE /\ event' = NoEvent
      /\ UNCHANGED <<bt_change_state_timer, req, calls, orphans>>
  BY DEF bluetooth_register_callback
<1>2. TypeOK'
  BY <1>1, SessionInit, NoEventTells DEF TypeOK
<1>3. CallbackNeedsSession'
  BY <1>1, SessionInit DEF CallbackNeedsSession
<1>4. TimerWatchesChange' /\ ChangeIsWatched'
  BY <1>1, SessionInit
     DEF TimerWatchesChange, ChangeIsWatched, Changing, IsChanging, Connected
<1> QED
  BY <1>1, <1>2, <1>3, <1>4, NoEventTells

LEMMA UnregisterKeepsIInv ==
  ASSUME IInv, bluetooth_unregister_callback
  PROVE  IInv'
<1> USE DEF IInv, bluetooth_unregister_callback
<1>1. TypeOK'
  BY NoEventTells DEF TypeOK
<1>2. CallbackNeedsSession' /\ TimerWatchesChange' /\ ChangeIsWatched'
  BY DEF CallbackNeedsSession, TimerWatchesChange, ChangeIsWatched, Connected
<1> QED
  BY <1>1, <1>2, NoEventTells

\* What enable and disable have in common: the request is refused and the state
\* is the one session_init leaves, or it is accepted and the state is changing.
ChangeRequested(live, bus, target) ==
  \/ /\ bt_adapter_state' = StateAfterInit(live, bus)
     /\ UNCHANGED <<req, bt_change_state_timer, calls>>
  \/ /\ req < MaxRequests
     /\ bt_adapter_state' = target
     /\ internal_change_adapter(agent_proxy' = "live")

LEMMA ChangeRequestKeepsIInv ==
  ASSUME IInv, NEW live \in BOOLEAN, NEW bus \in BOOLEAN,
         NEW target \in {"CHANGING_ENABLE", "CHANGING_DISABLE"},
         BusOutcome(live, bus), session_init(live, bus),
         ChangeRequested(live, bus, target),
         event' = NoEvent, UNCHANGED <<bt_cb_ptr, orphans>>
  PROVE  IInv'
<1> USE DEF IInv
<1>1. CallbackNeedsSession'
  BY SessionInit DEF CallbackNeedsSession
<1>2. CASE /\ bt_adapter_state' = StateAfterInit(live, bus)
           /\ UNCHANGED <<req, bt_change_state_timer, calls>>
  <2>1. TypeOK'
    BY <1>2, SessionInit, NoEventTells DEF TypeOK
  <2>2. TimerWatchesChange' /\ ChangeIsWatched'
    BY <1>2, SessionInit
       DEF TimerWatchesChange, ChangeIsWatched, Changing, IsChanging, Connected
  <2> QED
    BY <1>1, <2>1, <2>2, NoEventTells
<1>3. CASE /\ req < MaxRequests
           /\ bt_adapter_state' = target
           /\ internal_change_adapter(agent_proxy' = "live")
  <2>1. /\ req' = req + 1
        /\ calls' \in {calls, calls \cup {req + 1}}
        /\ bt_change_state_timer' \in {bt_change_state_timer, TRUE}
        /\ agent_proxy' = "live" => bt_change_state_timer'
        /\ agent_proxy' # "live" => bt_change_state_timer' = bt_change_state_timer
    BY <1>3 DEF internal_change_adapter
  <2>2. req' \in Nat /\ req' <= MaxRequests /\ calls' \subseteq 1..req'
    BY <1>3, <2>1, MaxRequestsAssumption DEF TypeOK, MaxRequestsAssumption
  <2>3. orphans' \subseteq calls'
    BY <2>1 DEF TypeOK
  <2>4. TypeOK'
    BY <1>3, <2>1, <2>2, <2>3, SessionInit, NoEventTells
       DEF TypeOK, AdapterStates
  <2>5. TimerWatchesChange' /\ ChangeIsWatched'
    BY <1>3, <2>1, SessionInit
       DEF TimerWatchesChange, ChangeIsWatched, Changing, IsChanging, Connected
  <2> QED
    BY <1>1, <2>4, <2>5, NoEventTells
<1> QED
  BY <1>2, <1>3 DEF ChangeRequested

LEMMA EnableKeepsIInv ==
  ASSUME IInv, NEW live \in BOOLEAN, NEW bus \in BOOLEAN,
         bluetooth_enable_adapter(live, bus)
  PROVE  IInv'
<1>1. ChangeRequested(live, bus, "CHANGING_ENABLE")
  BY DEF bluetooth_enable_adapter, ChangeRequested
<1> QED
  BY <1>1, ChangeRequestKeepsIInv DEF bluetooth_enable_adapter

LEMMA DisableKeepsIInv ==
  ASSUME IInv, NEW live \in BOOLEAN, NEW bus \in BOOLEAN,
         bluetooth_disable_adapter(live, bus)
  PROVE  IInv'
<1>1. ChangeRequested(live, bus, "CHANGING_DISABLE")
  BY DEF bluetooth_disable_adapter, ChangeRequested
<1> QED
  BY <1>1, ChangeRequestKeepsIInv DEF bluetooth_disable_adapter

(***************************************************************************)
(* Replies, signals and the timer.                                         *)
(***************************************************************************)

\* An event says what the state is if the handler set the state it should.
LEMMA EventCbTells ==
  ASSUME NEW name \in {"ENABLED", "DISABLED"}, NEW result \in Results,
         event_cb(name, result),
         bt_adapter_state' = IF (name = "ENABLED" /\ result = "NONE")
                                \/ (name = "DISABLED" /\ result # "NONE")
                             THEN "ENABLED" ELSE "DISABLED"
  PROVE  EventTellsState'
<1>1. CASE event' = NoEvent
  BY <1>1, NoEventTells
<1>2. CASE event' = [name |-> name, result |-> result]
  <2>1. event'.name = name /\ event'.result = result
    BY <1>2
  <2>2. CASE name = "ENABLED"
    BY <2>1, <2>2 DEF EventTellsState
  <2>3. CASE name = "DISABLED"
    BY <2>1, <2>3 DEF EventTellsState
  <2> QED
    BY <2>2, <2>3
<1> QED
  BY <1>1, <1>2, EventCb

\* A failed change ends settled, with an event that tells so; in a settled
\* state there is nothing to revert.
LEMMA RevertChange ==
  ASSUME TypeOK, NEW result \in {"TIMEOUT", "CANCEL_BY_USER"},
         revert_change(result)
  PROVE  /\ bt_adapter_state' \in {"ENABLED", "DISABLED"}
         /\ event' \in Events
         /\ EventTellsState'
<1>1. CASE bt_adapter_state = "CHANGING_ENABLE"
  <2>1. bt_adapter_state' = "DISABLED" /\ event_cb("ENABLED", result)
    BY <1>1 DEF revert_change
  <2> QED
    BY <2>1, EventCb, EventCbTells DEF Results
<1>2. CASE bt_adapter_state = "CHANGING_DISABLE"
  <2>1. bt_adapter_state' = "ENABLED" /\ event_cb("DISABLED", result)
    BY <1>2 DEF revert_change
  <2> QED
    BY <2>1, EventCb, EventCbTells DEF Results
<1>3. CASE bt_adapter_state \in {"ENABLED", "DISABLED"}
  <2>1. UNCHANGED bt_adapter_state /\ event' = NoEvent
    BY <1>3 DEF revert_change
  <2> QED
    BY <1>3, <2>1, NoEventTells
<1> QED
  BY <1>1, <1>2, <1>3 DEF TypeOK, AdapterStates

LEMMA TimeoutKeepsIInv ==
  ASSUME IInv, change_status_timeout_cb
  PROVE  IInv'
<1> USE DEF IInv, change_status_timeout_cb
<1>1. /\ bt_adapter_state' \in {"ENABLED", "DISABLED"}
      /\ event' \in Events
      /\ EventTellsState'
  BY RevertChange
<1>2. TypeOK'
  BY <1>1 DEF TypeOK, AdapterStates
<1>3. CallbackNeedsSession' /\ TimerWatchesChange' /\ ChangeIsWatched'
  BY <1>1 DEF CallbackNeedsSession, TimerWatchesChange, ChangeIsWatched,
              Changing, IsChanging
<1> QED
  BY <1>1, <1>2, <1>3

LEMMA ReplyKeepsIInv ==
  ASSUME IInv, NEW c \in calls, NEW failed \in BOOLEAN,
         change_state_req_finish_cb(c, failed)
  PROVE  IInv'
<1> USE DEF IInv
<1>1. /\ UNCHANGED <<application_pid, bt_cb_ptr, adapter_proxy, agent_proxy, req>>
      /\ calls' \subseteq 1..req' /\ orphans' \subseteq calls'
  BY DEF change_state_req_finish_cb, TypeOK
<1>2. CASE failed
  <2>1. bt_change_state_timer' = FALSE /\ revert_change("CANCEL_BY_USER")
    BY <1>2 DEF change_state_req_finish_cb
  <2>2. /\ bt_adapter_state' \in {"ENABLED", "DISABLED"}
        /\ event' \in Events
        /\ EventTellsState'
    BY <2>1, RevertChange
  <2>3. TypeOK'
    BY <1>1, <2>1, <2>2 DEF TypeOK, AdapterStates
  <2>4. CallbackNeedsSession' /\ TimerWatchesChange' /\ ChangeIsWatched'
    BY <1>1, <2>1, <2>2
       DEF CallbackNeedsSession, TimerWatchesChange, ChangeIsWatched, Changing,
           IsChanging
  <2> QED
    BY <2>2, <2>3, <2>4
<1>3. CASE ~failed
  <2>1. event' = NoEvent /\ UNCHANGED <<bt_change_state_timer, bt_adapter_state>>
    BY <1>3 DEF change_state_req_finish_cb
  <2>2. TypeOK'
    BY <1>1, <2>1, NoEventTells DEF TypeOK
  <2>3. CallbackNeedsSession' /\ TimerWatchesChange' /\ ChangeIsWatched'
    BY <1>1, <2>1
       DEF CallbackNeedsSession, TimerWatchesChange, ChangeIsWatched, Changing,
           IsChanging, Connected
  <2> QED
    BY <2>1, <2>2, <2>3, NoEventTells
<1> QED
  BY <1>2, <1>3

\* AdapterAdded and the end of BlueZ settle the state and announce it.
LEMMA SettlingSignalKeepsIInv ==
  ASSUME IInv, adapter_added_cb \/ bluez_terminated
  PROVE  IInv'
<1>1. \E name \in {"ENABLED", "DISABLED"} :
        event_cb(name, "NONE") /\ bt_adapter_state' = name
  BY DEF adapter_added_cb, bluez_terminated
<1>2. event' \in Events /\ EventTellsState'
  BY <1>1, EventCb, EventCbTells DEF Results
<1>3. /\ UNCHANGED <<application_pid, bt_cb_ptr, agent_proxy, req, calls, orphans>>
      /\ bt_change_state_timer' = FALSE
      /\ adapter_proxy' \in {TRUE, adapter_proxy}
  BY DEF adapter_added_cb, bluez_terminated
<1>4. TypeOK'
  BY <1>1, <1>2, <1>3 DEF IInv, TypeOK, AdapterStates
<1>5. CallbackNeedsSession' /\ TimerWatchesChange' /\ ChangeIsWatched'
  BY <1>1, <1>3
     DEF IInv, CallbackNeedsSession, TimerWatchesChange, ChangeIsWatched,
         Changing, IsChanging
<1> QED
  BY <1>2, <1>4, <1>5 DEF IInv

\* The other two signals touch nothing the state and the timer depend on.
LEMMA OtherSignalKeepsIInv ==
  ASSUME IInv, adapter_removed_cb \/ agent_owner_changed
  PROVE  IInv'
<1>1. /\ event' = NoEvent
      /\ UNCHANGED <<application_pid, bt_cb_ptr, bt_adapter_state,
                     bt_change_state_timer, agent_proxy, req, calls>>
      /\ adapter_proxy' \in {FALSE, adapter_proxy}
      /\ orphans' \in {calls, orphans}
  BY DEF adapter_removed_cb, agent_owner_changed
<1>2. TypeOK'
  BY <1>1, NoEventTells DEF IInv, TypeOK
<1>3. CallbackNeedsSession' /\ TimerWatchesChange' /\ ChangeIsWatched'
  BY <1>1 DEF IInv, CallbackNeedsSession, TimerWatchesChange, ChangeIsWatched,
              Changing, IsChanging, Connected
<1> QED
  BY <1>1, <1>2, <1>3, NoEventTells DEF IInv

LEMMA StutterKeepsIInv ==
  ASSUME IInv, UNCHANGED vars
  PROVE  IInv'
<1>1. TypeOK'
  BY DEF IInv, TypeOK, vars
<1>2. CallbackNeedsSession' /\ TimerWatchesChange' /\ ChangeIsWatched'
  BY DEF IInv, CallbackNeedsSession, TimerWatchesChange, ChangeIsWatched,
         Changing, IsChanging, Connected, vars
<1>3. EventTellsState'
  BY DEF IInv, EventTellsState, vars
<1> QED
  BY <1>1, <1>2, <1>3 DEF IInv

LEMMA NextKeepsIInv == IInv /\ [Next]_vars => IInv'
<1> SUFFICES ASSUME IInv, [Next]_vars PROVE IInv'
  OBVIOUS
<1>1. CASE ApplicationCall
  BY <1>1, RegisterKeepsIInv, UnregisterKeepsIInv, EnableKeepsIInv,
     DisableKeepsIInv
     DEF ApplicationCall
<1>2. CASE Signal
  BY <1>2, SettlingSignalKeepsIInv, OtherSignalKeepsIInv DEF Signal
<1>3. CASE \E c \in calls, failed \in BOOLEAN : change_state_req_finish_cb(c, failed)
  BY <1>3, ReplyKeepsIInv
<1>4. CASE change_status_timeout_cb
  BY <1>4, TimeoutKeepsIInv
<1>5. CASE UNCHANGED vars
  BY <1>5, StutterKeepsIInv
<1> QED
  BY <1>1, <1>2, <1>3, <1>4, <1>5 DEF Next

LEMMA SpecIInv == Spec => []IInv
BY InitIInv, NextKeepsIInv, PTL DEF Spec

(***************************************************************************)
(* The theorems.                                                           *)
(***************************************************************************)

\* Every variable keeps its type, in whatever order calls, replies, signals and
\* the timer come.
THEOREM TypeCorrect == Spec => []TypeOK
<1>1. IInv => TypeOK
  BY DEF IInv
<1> QED
  BY <1>1, SpecIInv, PTL

\* The 30 second timer never outlives the change it was armed for.
THEOREM TimerOnlyWatchesChange == Spec => []TimerWatchesChange
<1>1. IInv => TimerWatchesChange
  BY DEF IInv
<1> QED
  BY <1>1, SpecIInv, PTL

\* A change in progress in a connected session always has its timer.
THEOREM ChangeAlwaysWatched == Spec => []ChangeIsWatched
<1>1. IInv => ChangeIsWatched
  BY DEF IInv
<1> QED
  BY <1>1, SpecIInv, PTL

\* What an event tells the application is the state the library is in.
THEOREM EventsAreTrue == Spec => []EventTellsState
<1>1. IInv => EventTellsState
  BY DEF IInv
<1> QED
  BY <1>1, SpecIInv, PTL

(***************************************************************************)
(* The refinement: every step is one of AdapterService, or a stutter.      *)
(***************************************************************************)

\* A call of the application opens the session and may ask for a change.
LEMMA CallImplementsCall ==
  ASSUME IInv, NEW live \in BOOLEAN, NEW bus \in BOOLEAN,
         \/ bluetooth_register_callback(live, bus)
         \/ bluetooth_enable_adapter(live, bus)
         \/ bluetooth_disable_adapter(live, bus)
  PROVE  Service!Call
<1>1. application_pid' = TRUE /\ event' = NoEvent /\ bt_cb_ptr' \in {bt_cb_ptr, TRUE}
  BY DEF bluetooth_register_callback, bluetooth_enable_adapter,
         bluetooth_disable_adapter, session_init
<1> DEFINE found == StateAfterInit(live, bus)
<1>2. found \in Service!Found /\ found \in AdapterStates
  BY DEF IInv, TypeOK, StateAfterInit, AdapterStates, Service!Found, Service!Settled
<1>3. \/ bt_adapter_state' = found
      \/ /\ ~IsChanging(found)
         /\ bt_adapter_state' \in {"CHANGING_ENABLE", "CHANGING_DISABLE"}
  BY DEF bluetooth_register_callback, bluetooth_enable_adapter, bluetooth_disable_adapter
<1>4. ~IsChanging(found) => found \in Service!Settled
  BY <1>2 DEF IsChanging, AdapterStates, Service!Settled
<1>5. {Service!Change("ENABLED"), Service!Change("DISABLED")}
        = {"CHANGING_DISABLE", "CHANGING_ENABLE"}
  BY DEF Service!Change
<1> HIDE DEF found
<1> QED
  BY <1>1, <1>2, <1>3, <1>4, <1>5 DEF Service!Call, Service!Silent, NoEvent

\* A change that is reverted is a failure; without one nothing is seen.
LEMMA RevertImplementsFailure ==
  ASSUME IInv, NEW result \in {"TIMEOUT", "CANCEL_BY_USER"}, revert_change(result),
         UNCHANGED <<application_pid, bt_cb_ptr>>
  PROVE  Service!Failure(result) \/ Service!Quiet
<1>1. CASE bt_adapter_state = "CHANGING_ENABLE"
  BY <1>1 DEF revert_change, event_cb, NoEvent, Service!Failure, Service!Settled,
              Service!Source, Service!Target, Service!Tell, Service!Silent
<1>2. CASE bt_adapter_state = "CHANGING_DISABLE"
  BY <1>2 DEF revert_change, event_cb, NoEvent, Service!Failure, Service!Settled,
              Service!Source, Service!Target, Service!Tell, Service!Silent
<1>3. CASE ~Changing
  BY <1>3 DEF revert_change, Changing, IsChanging, NoEvent, Service!Quiet, Service!Silent
<1> QED
  BY <1>1, <1>2, <1>3 DEF Changing, IsChanging

\* A signal that settles the adapter is an outcome.
LEMMA SignalImplementsOutcome ==
  ASSUME adapter_added_cb \/ bluez_terminated
  PROVE  \E state \in Service!Settled : Service!Outcome(state)
<1>1. ASSUME adapter_added_cb PROVE Service!Outcome("ENABLED")
  BY <1>1 DEF adapter_added_cb, Connected, event_cb, NoEvent, Service!Outcome,
              Service!Tell, Service!Silent
<1>2. ASSUME bluez_terminated PROVE Service!Outcome("DISABLED")
  BY <1>2 DEF bluez_terminated, Connected, event_cb, NoEvent, Service!Outcome,
              Service!Tell, Service!Silent
<1> QED
  BY <1>1, <1>2 DEF Service!Settled

LEMMA StepImplementsStep ==
  ASSUME IInv, [Next]_vars
  PROVE  [Service!Next]_(Service!vars)
<1>1. CASE \E live, bus \in BOOLEAN :
             \/ bluetooth_register_callback(live, bus)
             \/ bluetooth_enable_adapter(live, bus)
             \/ bluetooth_disable_adapter(live, bus)
  <2>1. Service!Call
    BY <1>1, CallImplementsCall
  <2> QED
    BY <2>1 DEF Service!Next
<1>2. CASE bluetooth_unregister_callback
  <2>1. Service!Close
    BY <1>2 DEF bluetooth_unregister_callback, NoEvent, Service!Close, Service!Silent
  <2> QED
    BY <2>1 DEF Service!Next
<1>3. CASE adapter_added_cb \/ bluez_terminated
  BY <1>3, SignalImplementsOutcome DEF Service!Next
<1>4. CASE adapter_removed_cb \/ agent_owner_changed
  <2>1. Service!Quiet
    BY <1>4 DEF adapter_removed_cb, agent_owner_changed, NoEvent, Service!Quiet,
                Service!Silent
  <2> QED
    BY <2>1 DEF Service!Next
<1>5. CASE \E c \in calls, failed \in BOOLEAN : change_state_req_finish_cb(c, failed)
  <2>1. PICK c \in calls, failed \in BOOLEAN : change_state_req_finish_cb(c, failed)
    BY <1>5
  <2>2. CASE failed
    BY <2>1, <2>2, RevertImplementsFailure
       DEF change_state_req_finish_cb, Service!Next, Service!Reasons
  <2>3. CASE ~failed
    <3>1. Service!Quiet
      BY <2>1, <2>3 DEF change_state_req_finish_cb, NoEvent, Service!Quiet, Service!Silent
    <3> QED
      BY <3>1 DEF Service!Next
  <2> QED
    BY <2>2, <2>3
<1>6. CASE change_status_timeout_cb
  BY <1>6, RevertImplementsFailure DEF change_status_timeout_cb, Service!Next, Service!Reasons
<1>7. CASE UNCHANGED vars
  BY <1>7 DEF vars, Service!vars
<1> QED
  BY <1>1, <1>2, <1>3, <1>4, <1>5, <1>6, <1>7 DEF Next, Signal, ApplicationCall

\* The library implements the service it promises: whatever the order of replies,
\* signals, timer and calls, each change has one outcome and the application learns it.
THEOREM LibraryImplementsService == Spec => ImplementsService
<1>1. Init => Service!Init
  BY DEF Init, NoEvent, Service!Init, Service!Silent
<1>2. IInv /\ [Next]_vars => [Service!Next]_(Service!vars)
  BY StepImplementsStep
<1> QED
  BY <1>1, <1>2, SpecIInv, PTL DEF Spec, Service!Spec, ImplementsService

(***************************************************************************)
(* The composition: what is true of the queues and of what was sent last.  *)
(***************************************************************************)

Signals == {Sig("AdapterAdded"), Sig("AdapterRemoved"), Sig("BluezGone")}

\* What only a connected library hears, and all that it may be sent.
Heard == Signals \cup {Sig("AgentOwner")}
ToLibrary == Heard \cup Replies(1..MaxRequests)
ToDaemon == Signals \cup Calls

\* The signals that settle the adapter, and the one that was sent last.
Settling == {Sig("AdapterAdded"), Sig("BluezGone")}
SentLast == {Sig(IF bluetoothd THEN "AdapterAdded" ELSE "BluezGone")}

\* The states that fit an adapter that is there (up) or not.
ViewOf(up) == IF up THEN {"ENABLED", "CHANGING_DISABLE"} ELSE {"DISABLED", "CHANGING_ENABLE"}

\* A status that does not fit the adapter waits for a script that will change it.
StatusFits ==
  IF hci0 THEN bt_status # "ACTIVATED" => "down" \in scripts
          ELSE bt_status # "DEACTIVATED" => "up" \in scripts

PowerTypes ==
  /\ libInbox \in Seq(ToLibrary) /\ agentInbox \in Seq(ToDaemon)
  /\ bluetoothd \in BOOLEAN /\ hci0 \in BOOLEAN /\ missed \in BOOLEAN
  /\ hci0 => bluetoothd
  /\ phase \in {"stopped", "starting", "running"}

SessionHasProxy == application_pid => agent_proxy = "live"

\* The last settling signal the library has still to dispatch tells the truth, and
\* when there is none its state fits the adapter.
LibraryToldLast ==
  /\ ~Connected => ~Has(libInbox, Heard)
  /\ LastIn(libInbox, Settling, SentLast)
  /\ Connected /\ ~Has(libInbox, Settling) /\ bluetoothd = hci0 =>
       bt_adapter_state \in ViewOf(hci0)

\* Likewise for the daemon, unless it missed a signal while it started.
DaemonToldLast ==
  /\ ~Agent!Running => ~Has(agentInbox, Signals)
  /\ LastIn(agentInbox, Settling, SentLast)
  /\ phase # "stopped" /\ ~missed /\ ~Has(agentInbox, Settling) /\ bluetoothd = hci0 =>
       StatusFits

PowerIInv ==
  /\ IInv
  /\ PowerTypes
  /\ SessionHasProxy
  /\ LibraryToldLast
  /\ DaemonToldLast

(***************************************************************************)
(* Messages and queues.                                                    *)
(***************************************************************************)

LEMMA MessageTypes ==
  /\ \A name : Sig(name).type = name
  /\ \A reqs : \A m \in Replies(reqs) : m.type = "Reply" /\ m.req \in reqs /\ m.failed \in BOOLEAN
  /\ \A m \in Calls : m.type = "ConfirmMode" /\ m.req \in 1..MaxRequests
                       /\ m.mode \in {"ENABLE", "DISABLE"}
BY DEF Sig, Replies, Calls

LEMMA MessageKinds ==
  /\ \A m \in Heard : m.type \in {"AdapterAdded", "AdapterRemoved", "BluezGone", "AgentOwner"}
  /\ \A m \in Signals : m.type \in {"AdapterAdded", "AdapterRemoved", "BluezGone"}
  /\ \A m \in Settling : m.type \in {"AdapterAdded", "BluezGone"}
  /\ \A m \in Heard \cup Signals : m \in Settling <=> m.type \in {"AdapterAdded", "BluezGone"}
  /\ \A m \in SentLast : m.type = IF bluetoothd THEN "AdapterAdded" ELSE "BluezGone"
  /\ \A reqs : \A m \in Replies(reqs) : m \notin Heard /\ m \notin Settling
  /\ \A m \in Calls : m \notin Signals /\ m \notin Settling
  /\ Settling \subseteq Signals /\ Signals \subseteq Heard
BY MessageTypes DEF Heard, Signals, Settling, SentLast

LEMMA NoneOf ==
  ASSUME NEW M, NEW q \in Seq(M), NEW S, \A m \in M : m \notin S
  PROVE  ~Has(q, S) /\ \A T : LastIn(q, S, T)
<1>1. \A i \in 1..Len(q) : q[i] \in M
  OBVIOUS
<1> QED  BY <1>1 DEF Has, LastIn

LEMMA FewerHas ==
  ASSUME NEW q, NEW S, NEW T, T \subseteq S, ~Has(q, S)
  PROVE  ~Has(q, T) /\ \A U : LastIn(q, T, U)
BY DEF Has, LastIn

\* What is kept of a queue was in it, and is of the kind to keep.
LEMMA KeptItems ==
  ASSUME NEW M, NEW queue \in Seq(M), NEW kept
  PROVE  Kept(queue, kept) \in Seq({m \in M : m \in kept})
<1> DEFINE at == {i \in DOMAIN queue : queue[i] \in kept}
<1> DEFINE result == [k \in 1..Cardinality(at) |->
                        queue[CHOOSE i \in at : Cardinality({j \in at : j <= i}) = k]]
<1> DEFINE T == {m \in M : m \in kept}
<1>1. at \subseteq DOMAIN queue /\ {queue[i] : i \in at} \subseteq T
  OBVIOUS
<1> HIDE DEF at, T
<1>2. result \in Seq({queue[i] : i \in at})
  BY <1>1, PickedItems
<1>3. result \in Seq(T)
  <2> HIDE DEF result
  <2> QED  BY <1>1, <1>2
<1> QED  BY <1>3 DEF at, T, Kept

\* The replies D-Bus makes up for the calls of a daemon that ends.
LEMMA UnansweredAreReplies ==
  ASSUME agentInbox \in Seq(ToDaemon)
  PROVE  Unanswered(agentInbox) \in Seq(Replies(1..MaxRequests))
<1> DEFINE C == {m \in ToDaemon : m \in Calls}
<1> DEFINE R == Replies(1..MaxRequests)
<1>1. PICK pending : pending = Kept(agentInbox, Calls)
  OBVIOUS
<1>2. pending \in Seq(C)
  BY <1>1, KeptItems
<1>3. Len(pending) \in Nat /\ \A i \in 1..Len(pending) : pending[i] \in Calls
  <2>1. Len(pending) \in Nat /\ \A i \in 1..Len(pending) : pending[i] \in C
    BY <1>2
  <2> QED  BY <2>1
<1>4. ASSUME NEW i \in 1..Len(pending) PROVE Reply(pending[i].req, TRUE) \in R
  BY <1>3, MessageTypes DEF Reply, Replies
<1> HIDE DEF R
<1>5. [i \in 1..Len(pending) |-> Reply(pending[i].req, TRUE)] \in [1..Len(pending) -> R]
  BY <1>4
<1>6. \A f : f \in [1..Len(pending) -> R] => f \in Seq(R)
  BY <1>3
<1>7. [i \in 1..Len(pending) |-> Reply(pending[i].req, TRUE)] \in Seq(R)
  BY <1>5, <1>6
<1> QED  BY <1>1, <1>7 DEF Unanswered, R
(***************************************************************************)
(* The library does in the composition what GapAdapter allows.             *)
(***************************************************************************)

LEMMA LibraryStep ==
  ASSUME PowerIInv, [PowerNext]_powerVars
  PROVE  [Next]_vars
<1>1. hci0 \in BOOLEAN /\ TRUE \in BOOLEAN
  BY DEF PowerIInv, PowerTypes
<1>2. CASE RegisterCallback \/ EnableAdapter \/ DisableAdapter
  BY <1>1, <1>2 DEF RegisterCallback, EnableAdapter, DisableAdapter, ApplicationCall, Next
<1>3. CASE UnregisterCallback
  BY <1>3 DEF UnregisterCallback, ApplicationCall, Next
<1>4. CASE ChangeTimeout
  BY <1>4 DEF ChangeTimeout, Next
<1>5. CASE LibDispatch
  <2>1. PICK m : m = Head(libInbox)
    OBVIOUS
  <2>2. m \in ToLibrary /\ LibHandles(m)
    BY <1>5, <2>1, RestItems DEF PowerIInv, PowerTypes, LibDispatch
  <2>3. CASE m.type = "Reply" /\ change_state_req_finish_cb(m.req, m.failed)
    <3>1. m.failed \in BOOLEAN
      BY <2>2, <2>3, MessageTypes, MessageKinds DEF ToLibrary
    <3>2. m.req \in calls
      BY <2>3 DEF change_state_req_finish_cb, Answered
    <3> QED  BY <2>3, <3>1, <3>2 DEF Next
  <2>4. CASE adapter_added_cb \/ adapter_removed_cb \/ bluez_terminated \/ agent_owner_changed
    BY <2>4 DEF Signal, Next
  <2>5. CASE UNCHANGED vars
    BY <2>5
  <2> QED  BY <2>2, <2>3, <2>4, <2>5 DEF LibHandles
<1>6. CASE World
  BY <1>6 DEF World, StackUp, StackDown, StackDownDone, BluezCrash
<1>7. CASE Daemon
  BY <1>7 DEF Daemon, AgentStart, AgentStarted, AgentIdle, AgentDestroy, AgentCrash,
              FlightMode, AgentServesCall, AgentHandlesSignal
<1>8. CASE UNCHANGED powerVars
  BY <1>8 DEF powerVars
<1> QED
  BY <1>2, <1>3, <1>4, <1>5, <1>6, <1>7, <1>8 DEF PowerNext, Library

(***************************************************************************)
(* What the library was told last.                                         *)
(***************************************************************************)

LEMMA RevertKeepsView ==
  ASSUME NEW result, revert_change(result), NEW up \in BOOLEAN, bt_adapter_state \in ViewOf(up)
  PROVE  bt_adapter_state' \in ViewOf(up)
BY DEF revert_change, ViewOf

\* A session that opens reads the adapter; a change is asked for only of an adapter
\* that is not as wanted.
LEMMA SessionKeepsTold ==
  ASSUME PowerIInv, session_init(hci0, TRUE), UNCHANGED <<libInbox, bluetoothd, hci0>>,
         bt_adapter_state' \in {StateAfterInit(hci0, TRUE),
                                IF hci0 THEN "CHANGING_DISABLE" ELSE "CHANGING_ENABLE"}
  PROVE  SessionHasProxy' /\ LibraryToldLast'
<1>1. hci0 \in BOOLEAN
  BY DEF PowerIInv, PowerTypes
<1>2. application_pid' = TRUE /\ agent_proxy' = "live"
  BY DEF session_init, PowerIInv, SessionHasProxy
<1>3. SentLast' = SentLast
  BY DEF SentLast
<1>4. CASE application_pid
  <2>1. Connected /\ StateAfterInit(hci0, TRUE) = bt_adapter_state
    BY <1>4 DEF PowerIInv, SessionHasProxy, Connected, StateAfterInit
  <2>2. bt_adapter_state \in ViewOf(hci0) => bt_adapter_state' \in ViewOf(hci0)
    BY <1>1, <2>1 DEF ViewOf
  <2> QED
    BY <1>2, <1>3, <2>1, <2>2 DEF PowerIInv, LibraryToldLast, SessionHasProxy, Connected
<1>5. CASE ~application_pid
  <2>1. ~Connected
    BY <1>5 DEF Connected
  <2>2. LastIn(libInbox, Settling, SentLast)
    BY DEF PowerIInv, LibraryToldLast
  <2>3. bt_adapter_state' \in ViewOf(hci0)
    BY <1>1, <1>5 DEF StateAfterInit, ViewOf
  <2> QED
    BY <1>2, <1>3, <2>1, <2>2, <2>3 DEF LibraryToldLast, SessionHasProxy, Connected
<1> QED
  BY <1>4, <1>5

LEMMA CloseKeepsTold ==
  ASSUME PowerIInv, UnregisterCallback
  PROVE  SessionHasProxy' /\ LibraryToldLast' /\ libInbox' \in Seq(ToLibrary)
<1> DEFINE R == {m \in ToLibrary : m \in Replies(orphans)}
<1>1. ~application_pid' /\ libInbox' = Kept(libInbox, Replies(orphans))
  BY DEF UnregisterCallback, bluetooth_unregister_callback
<1>2. libInbox' \in Seq(R)
  BY <1>1, KeptItems DEF PowerIInv, PowerTypes
<1>3. \A m \in R : m \notin Heard /\ m \notin Settling /\ m \in ToLibrary
  BY MessageKinds
<1> HIDE DEF R
<1>4. ~Has(libInbox', Heard) /\ LastIn(libInbox', Settling, SentLast')
  BY <1>2, <1>3, NoneOf
<1>5. \A q : q \in Seq(R) => q \in Seq(ToLibrary)
  BY <1>3
<1> QED
  BY <1>1, <1>2, <1>4, <1>5 DEF SessionHasProxy, LibraryToldLast, Connected

LEMMA TimeoutKeepsTold ==
  ASSUME PowerIInv, ChangeTimeout
  PROVE  SessionHasProxy' /\ LibraryToldLast'
<1>1. /\ UNCHANGED <<application_pid, agent_proxy, libInbox, bluetoothd, hci0>>
      /\ revert_change("TIMEOUT")
  BY DEF ChangeTimeout, change_status_timeout_cb, worldVars
<1>2. hci0 \in BOOLEAN /\ SentLast' = SentLast
  BY <1>1 DEF PowerIInv, PowerTypes, SentLast
<1>3. bt_adapter_state \in ViewOf(hci0) => bt_adapter_state' \in ViewOf(hci0)
  BY <1>1, <1>2, RevertKeepsView
<1> QED
  BY <1>1, <1>2, <1>3 DEF PowerIInv, LibraryToldLast, SessionHasProxy, Connected

LEMMA DispatchKeepsTold ==
  ASSUME PowerIInv, LibDispatch
  PROVE  SessionHasProxy' /\ LibraryToldLast' /\ libInbox' \in Seq(ToLibrary)
<1>1. PICK m : m = Head(libInbox)
  OBVIOUS
<1>2. PICK rest : rest = Tail(libInbox)
  OBVIOUS
<1>3. /\ libInbox \in Seq(ToLibrary) /\ libInbox # <<>> /\ libInbox' = rest
      /\ LibHandles(m) /\ UNCHANGED <<bluetoothd, hci0>>
      /\ bluetoothd \in BOOLEAN /\ hci0 \in BOOLEAN
  BY <1>1, <1>2 DEF LibDispatch, PowerIInv, PowerTypes
<1>4. m \in ToLibrary /\ rest \in Seq(ToLibrary)
  BY <1>1, <1>2, <1>3, RestItems
<1>5. UNCHANGED <<application_pid, agent_proxy>>
  BY <1>3 DEF LibHandles, adapter_added_cb, adapter_removed_cb, bluez_terminated,
              agent_owner_changed, change_state_req_finish_cb, vars
<1>6. SentLast' = SentLast /\ (Connected' <=> Connected)
  BY <1>3, <1>5 DEF SentLast, Connected
<1>7. \A S : Has(libInbox, S) <=> m \in S \/ Has(rest, S)
  BY <1>1, <1>2, <1>3, RestHas
<1>8. /\ LastIn(rest, Settling, SentLast)
      /\ m \in Settling /\ ~Has(rest, Settling) => m \in SentLast
  BY <1>1, <1>2, <1>3, RestLast DEF PowerIInv, LibraryToldLast
<1>9. ASSUME Connected, ~Has(rest, Settling), bluetoothd = hci0
      PROVE  bt_adapter_state' \in ViewOf(hci0)
  <2>1. CASE m.type = "AdapterAdded" /\ adapter_added_cb
    <3>1. m \in Settling
      BY <1>4, <2>1, MessageKinds, MessageTypes DEF ToLibrary
    <3>2. bluetoothd
      BY <1>8, <1>9, <2>1, <3>1, MessageKinds
    <3> QED  BY <1>9, <2>1, <3>2 DEF adapter_added_cb, ViewOf
  <2>2. CASE m.type = "BluezGone" /\ bluez_terminated
    <3>1. m \in Settling
      BY <1>4, <2>2, MessageKinds, MessageTypes DEF ToLibrary
    <3>2. ~bluetoothd
      BY <1>8, <1>9, <2>2, <3>1, MessageKinds
    <3> QED  BY <1>9, <2>2, <3>2 DEF bluez_terminated, ViewOf
  <2>3. CASE m.type \in {"AdapterRemoved", "AgentOwner", "Reply"}
    <3>1. m \notin Settling
      BY <2>3, MessageKinds
    <3>2. bt_adapter_state \in ViewOf(hci0)
      BY <1>7, <1>9, <3>1 DEF PowerIInv, LibraryToldLast
    <3>3. UNCHANGED bt_adapter_state \/ \E result : revert_change(result)
      BY <1>3, <2>3 DEF LibHandles, adapter_removed_cb, agent_owner_changed,
                        change_state_req_finish_cb, vars
    <3> QED  BY <1>3, <3>2, <3>3, RevertKeepsView
  <2> QED  BY <1>3, <2>1, <2>2, <2>3 DEF LibHandles
<1>10. ~Connected => ~Has(rest, Heard)
  BY <1>7 DEF PowerIInv, LibraryToldLast
<1>11. LibraryToldLast'
  BY <1>3, <1>6, <1>8, <1>9, <1>10 DEF LibraryToldLast
<1> QED
  BY <1>3, <1>4, <1>5, <1>11 DEF PowerIInv, SessionHasProxy

\* What joins the library's queue besides the signals of BlueZ settles nothing.
LEMMA HearsKeepsTold ==
  ASSUME PowerIInv, NEW msgs \in Seq({Sig("AgentOwner")} \cup Replies(1..MaxRequests)),
         ~Connected => ~Has(msgs, Heard), LibHears(msgs), UNCHANGED <<vars, bluetoothd, hci0>>
  PROVE  SessionHasProxy' /\ LibraryToldLast' /\ libInbox' \in Seq(ToLibrary)
<1> DEFINE T == {Sig("AgentOwner")} \cup Replies(1..MaxRequests)
<1>1. \A m \in T : m \notin Settling /\ m \in ToLibrary
  BY MessageTypes, MessageKinds DEF ToLibrary, Heard
<1>2. msgs \in Seq(T)
  OBVIOUS
<1> HIDE DEF T
<1>3. ~Has(msgs, Settling) /\ LastIn(msgs, Settling, SentLast)
  BY <1>1, <1>2, NoneOf
<1>4. \A q : q \in Seq(T) => q \in Seq(ToLibrary)
  BY <1>1
<1>5. msgs \in Seq(ToLibrary) /\ libInbox \in Seq(ToLibrary)
  BY <1>2, <1>4 DEF PowerIInv, PowerTypes
<1>6. PICK new : new = libInbox \o msgs
  OBVIOUS
<1>7. new \in Seq(ToLibrary) /\ libInbox' = new
  BY <1>5, <1>6, JoinedItems DEF LibHears
<1>8. \A S : Has(new, S) <=> Has(libInbox, S) \/ Has(msgs, S)
  BY <1>5, <1>6, JoinedHas
<1>9. LastIn(new, Settling, SentLast)
  BY <1>3, <1>5, <1>6, JoinedLast DEF PowerIInv, LibraryToldLast
<1>10. /\ UNCHANGED <<application_pid, agent_proxy, bt_adapter_state>>
       /\ SentLast' = SentLast
  BY DEF vars, SentLast
<1>11. LibraryToldLast'
  BY <1>3, <1>7, <1>8, <1>9, <1>10 DEF PowerIInv, LibraryToldLast, Connected
<1> QED
  BY <1>7, <1>10, <1>11 DEF PowerIInv, SessionHasProxy
LEMMA LibraryKeepsLibraryTold ==
  ASSUME PowerIInv, Library
  PROVE  SessionHasProxy' /\ LibraryToldLast' /\ libInbox' \in Seq(ToLibrary)
<1>1. CASE RegisterCallback \/ EnableAdapter \/ DisableAdapter
  <2>1. /\ session_init(hci0, TRUE) /\ UNCHANGED <<libInbox, bluetoothd, hci0>>
        /\ bt_adapter_state' \in {StateAfterInit(hci0, TRUE),
                                  IF hci0 THEN "CHANGING_DISABLE" ELSE "CHANGING_ENABLE"}
    BY <1>1 DEF RegisterCallback, EnableAdapter, DisableAdapter, bluetooth_register_callback,
                bluetooth_enable_adapter, bluetooth_disable_adapter, worldVars
  <2> QED
    BY <2>1, SessionKeepsTold DEF PowerIInv, PowerTypes
<1>2. CASE UnregisterCallback
  BY <1>2, CloseKeepsTold
<1>3. CASE ChangeTimeout
  BY <1>3, TimeoutKeepsTold DEF ChangeTimeout, worldVars, PowerIInv, PowerTypes
<1>4. CASE LibDispatch
  BY <1>4, DispatchKeepsTold
<1> QED
  BY <1>1, <1>2, <1>3, <1>4 DEF Library

(***************************************************************************)
(* BlueZ and its scripts.                                                  *)
(***************************************************************************)

Names == {"AdapterAdded", "AdapterRemoved", "BluezGone"}

\* Whatever BlueZ does is told, except what changes nothing.
Tells(name) ==
  /\ Broadcast(<<Sig(name)>>)
  /\ hci0' = (name = "AdapterAdded")
  /\ bluetoothd' = (name # "BluezGone")
  /\ bluetoothd \/ name = "AdapterAdded"

TellsNothing ==
  /\ UNCHANGED <<bluetoothd, hci0, libInbox, agentInbox, missed>>
  /\ \A script \in scripts : script \in scripts' \/ script = IF hci0 THEN "up" ELSE "down"

LEMMA WorldTells ==
  ASSUME PowerIInv, World
  PROVE  /\ UNCHANGED <<vars, phase, bt_status>>
         /\ TellsNothing \/ \E name \in Names : Tells(name)
<1>1. bluetoothd \in BOOLEAN /\ hci0 \in BOOLEAN /\ (hci0 => bluetoothd)
  BY DEF PowerIInv, PowerTypes
<1>2. UNCHANGED <<vars, phase, bt_status>>
  BY DEF World, StackUp, StackDown, StackDownDone, BluezCrash, agentVars
<1>3. CASE StackUp /\ hci0
  BY <1>1, <1>3 DEF StackUp, TellsNothing
<1>4. CASE StackUp /\ ~hci0
  <2>1. Tells("AdapterAdded")
    BY <1>4 DEF StackUp, Tells
  <2>2. "AdapterAdded" \in Names
    BY DEF Names
  <2> QED  BY <1>2, <2>1, <2>2, Zenon
<1>5. CASE StackDown
  <2>1. Tells("AdapterRemoved")
    BY <1>1, <1>5 DEF StackDown, Tells
  <2>2. "AdapterRemoved" \in Names
    BY DEF Names
  <2> QED  BY <1>2, <2>1, <2>2, Zenon
<1>6. CASE (StackDownDone \/ BluezCrash) /\ bluetoothd
  <2>1. Tells("BluezGone")
    BY <1>1, <1>6 DEF StackDownDone, BluezCrash, BluezLeavesBus, Tells
  <2>2. "BluezGone" \in Names
    BY DEF Names
  <2> QED  BY <1>2, <2>1, <2>2, Zenon
<1>7. CASE StackDownDone /\ ~bluetoothd
  BY <1>1, <1>2, <1>7 DEF StackDownDone, BluezLeavesBus, TellsNothing
<1> QED
  BY <1>2, <1>3, <1>4, <1>5, <1>6, <1>7 DEF World, BluezCrash

\* A queue that hears of it.
LEMMA TellsQueue ==
  ASSUME NEW M, NEW q \in Seq(M), NEW name \in Names, Sig(name) \in M, Tells(name),
         LastIn(q, Settling, SentLast), bluetoothd \in BOOLEAN
  PROVE  /\ q \o <<Sig(name)>> \in Seq(M)
         /\ LastIn(q \o <<Sig(name)>>, Settling, SentLast')
         /\ name # "AdapterRemoved" => Has(q \o <<Sig(name)>>, Settling)
<1>1. PICK r : r = <<Sig(name)>>
  OBVIOUS
<1>2. r \in Seq(M)
  BY <1>1
<1>3. /\ \A S : Has(r, S) <=> Sig(name) \in S
      /\ \A S, T : LastIn(r, S, T) <=> (Sig(name) \in S => Sig(name) \in T)
  BY <1>1, OneItem
<1>4. \A S : Has(q \o r, S) <=> Has(q, S) \/ Has(r, S)
  BY <1>2, JoinedHas
<1>5. Sig(name) \in Settling <=> name # "AdapterRemoved"
  BY MessageTypes DEF Settling, Names
<1>6. name = "AdapterRemoved" => SentLast' = SentLast
  BY DEF Tells, SentLast
<1>7. name # "AdapterRemoved" => Sig(name) \in SentLast'
  BY DEF Tells, SentLast, Names
<1>8. LastIn(r, Settling, SentLast') /\ (Has(r, Settling) \/ LastIn(q, Settling, SentLast'))
  BY <1>3, <1>5, <1>6, <1>7
<1>9. LastIn(q \o r, Settling, SentLast')
  BY <1>2, <1>8, JoinedLast
<1> QED
  BY <1>1, <1>2, <1>3, <1>4, <1>5, <1>9, JoinedItems

LEMMA WorldKeepsLibraryTold ==
  ASSUME PowerIInv, World
  PROVE  SessionHasProxy' /\ LibraryToldLast' /\ libInbox' \in Seq(ToLibrary)
<1>1. UNCHANGED <<application_pid, agent_proxy, bt_adapter_state>>
  BY WorldTells DEF vars
<1>2. Connected' <=> Connected
  BY <1>1 DEF Connected
<1>3. SessionHasProxy' /\ libInbox \in Seq(ToLibrary)
  BY <1>1 DEF PowerIInv, SessionHasProxy, PowerTypes
<1>4. CASE TellsNothing
  <2>1. UNCHANGED <<libInbox, bluetoothd, hci0>> /\ SentLast' = SentLast
    BY <1>4 DEF TellsNothing, SentLast
  <2> QED  BY <1>1, <1>2, <1>3, <2>1 DEF PowerIInv, LibraryToldLast
<1>5. ASSUME NEW name \in Names, Tells(name) PROVE LibraryToldLast' /\ libInbox' \in Seq(ToLibrary)
  <2>1. CASE ~Connected
    <3>1. libInbox' = libInbox /\ ~Has(libInbox, Heard)
      BY <1>5, <2>1 DEF Tells, Broadcast, PowerIInv, LibraryToldLast
    <3>2. LastIn(libInbox, Settling, SentLast')
      BY <3>1, MessageKinds, FewerHas
    <3> QED  BY <1>2, <1>3, <2>1, <3>1, <3>2 DEF LibraryToldLast
  <2>2. CASE Connected
    <3>1. PICK new : new = libInbox \o <<Sig(name)>>
      OBVIOUS
    <3>2. libInbox' = new
      BY <1>5, <2>2, <3>1 DEF Tells, Broadcast
    <3>3. Sig(name) \in ToLibrary
      BY DEF ToLibrary, Heard, Signals, Names
    <3>4. /\ new \in Seq(ToLibrary) /\ LastIn(new, Settling, SentLast')
          /\ name # "AdapterRemoved" => Has(new, Settling)
      BY <1>3, <1>5, <3>1, <3>3, TellsQueue DEF PowerIInv, PowerTypes, LibraryToldLast
    <3>5. name = "AdapterRemoved" => bluetoothd' # hci0'
      BY <1>5 DEF Tells
    <3> QED  BY <1>2, <2>2, <3>2, <3>4, <3>5 DEF LibraryToldLast
  <2> QED  BY <2>1, <2>2
<1> QED
  BY <1>3, <1>4, <1>5, WorldTells DEF TellsNothing

(***************************************************************************)
(* The daemon and the library.                                             *)
(***************************************************************************)

\* What a message of the daemon's end, or of its start, is for the library.
LEMMA OwnerChangedIsHeard ==
  /\ OwnerChanged \in Seq({Sig("AgentOwner")} \cup Replies(1..MaxRequests))
  /\ ~Connected => ~Has(OwnerChanged, Heard)
<1>1. CASE Connected
  BY <1>1 DEF OwnerChanged
<1>2. CASE ~Connected
  BY <1>2, NoItem DEF OwnerChanged
<1> QED
  BY <1>1, <1>2

LEMMA LeavingKeepsLibraryTold ==
  ASSUME PowerIInv, AgentLeavesBus, UNCHANGED <<vars, bluetoothd, hci0>>
  PROVE  SessionHasProxy' /\ LibraryToldLast' /\ libInbox' \in Seq(ToLibrary)
<1> DEFINE T == {Sig("AgentOwner")} \cup Replies(1..MaxRequests)
<1> DEFINE R == Replies(1..MaxRequests)
<1>1. CASE phase' = "stopped"
  <2>1. PICK o : o = OwnerChanged
    OBVIOUS
  <2>2. PICK u : u = Unanswered(agentInbox)
    OBVIOUS
  <2>3. o \in Seq(T) /\ (~Connected => ~Has(o, Heard))
    BY <2>1, OwnerChangedIsHeard
  <2>4. u \in Seq(R)
    BY <2>2, UnansweredAreReplies DEF PowerIInv, PowerTypes
  <2>5. \A m \in R : m \notin Heard /\ m \in T
    BY MessageKinds
  <2> HIDE DEF T, R
  <2>6. u \in Seq(T) /\ ~Has(u, Heard)
    BY <2>4, <2>5, NoneOf
  <2>7. o \o u \in Seq(T) /\ (~Connected => ~Has(o \o u, Heard))
    BY <2>3, <2>6, JoinedItems, JoinedHas
  <2>8. LibHears(o \o u)
    BY <1>1, <2>1, <2>2 DEF AgentLeavesBus
  <2> QED
    BY <2>7, <2>8, HearsKeepsTold DEF T
<1>2. CASE phase' # "stopped"
  <2>1. UNCHANGED <<libInbox, application_pid, agent_proxy, bt_adapter_state>>
    BY <1>2 DEF AgentLeavesBus, vars
  <2>2. SentLast' = SentLast
    BY DEF SentLast
  <2> QED
    BY <2>1, <2>2 DEF PowerIInv, PowerTypes, LibraryToldLast, SessionHasProxy, Connected
<1> QED
  BY <1>1, <1>2

LEMMA DaemonKeepsLibraryTold ==
  ASSUME PowerIInv, Daemon
  PROVE  SessionHasProxy' /\ LibraryToldLast' /\ libInbox' \in Seq(ToLibrary)
<1>0. UNCHANGED <<vars, bluetoothd, hci0>>
  BY DEF Daemon, AgentStart, AgentStarted, AgentIdle, AgentDestroy, AgentCrash, FlightMode,
         AgentServesCall, AgentHandlesSignal, worldVars
<1>1. CASE AgentStart
  BY <1>0, <1>1, OwnerChangedIsHeard, HearsKeepsTold DEF AgentStart
<1>2. CASE AgentIdle \/ AgentDestroy \/ AgentCrash
  BY <1>0, <1>2, LeavingKeepsLibraryTold DEF AgentIdle, AgentDestroy, AgentCrash
<1>3. CASE AgentServesCall
  <2>1. PICK m : m = Head(agentInbox)
    OBVIOUS
  <2>2. PICK r : r = Reply(m.req, faults' # faults)
    OBVIOUS
  <2>3. m \in ToDaemon /\ m.type = "ConfirmMode" /\ LibHears(<<r>>)
    BY <1>3, <2>1, <2>2, RestItems DEF AgentServesCall, PowerIInv, PowerTypes
  <2>4. m \in Calls
    BY <2>3, MessageKinds DEF ToDaemon
  <2>5. r \in Replies(1..MaxRequests)
    BY <2>2, <2>4, MessageTypes DEF Reply, Replies
  <2>6. PICK msgs : msgs = <<r>>
    OBVIOUS
  <2>7. msgs \in Seq({Sig("AgentOwner")} \cup Replies(1..MaxRequests)) /\ ~Has(msgs, Heard)
    BY <2>5, <2>6, OneItem, MessageKinds
  <2> QED
    BY <1>0, <2>3, <2>6, <2>7, HearsKeepsTold
<1>4. CASE AgentStarted \/ FlightMode \/ AgentHandlesSignal
  <2>1. UNCHANGED <<libInbox, application_pid, agent_proxy, bt_adapter_state>> /\ SentLast' = SentLast
    BY <1>0, <1>4 DEF AgentStarted, FlightMode, AgentHandlesSignal, vars, worldVars, SentLast
  <2> QED
    BY <1>0, <2>1 DEF PowerIInv, PowerTypes, LibraryToldLast, SessionHasProxy, Connected
<1> QED
  BY <1>1, <1>2, <1>3, <1>4 DEF Daemon
(***************************************************************************)
(* What the daemon was told last.                                          *)
(***************************************************************************)

\* A change of mode leaves a status that fits, or starts the script it waits for.
LEMMA ModeChangeKeepsFit ==
  ASSUME NEW mode \in {"ENABLE", "DISABLE"}, NEW spawned \in BOOLEAN, hci0 \in BOOLEAN,
         Agent!mode_change(mode, spawned), UNCHANGED hci0, StatusFits
  PROVE  StatusFits'
<1>1. CASE ~Agent!NeedsScript(mode)
  BY <1>1 DEF Agent!mode_change, StatusFits
<1>2. CASE Agent!NeedsScript(mode) /\ spawned
  <2>1. /\ bt_status' = IF mode = "ENABLE" THEN "ACTIVATING" ELSE "DEACTIVATING"
        /\ scripts' = scripts \cup {IF mode = "ENABLE" THEN "up" ELSE "down"}
    BY <1>2 DEF Agent!mode_change
  <2>2. CASE mode = "ENABLE"
    BY <1>2, <2>1, <2>2 DEF Agent!NeedsScript, StatusFits
  <2>3. CASE mode = "DISABLE"
    BY <1>2, <2>1, <2>3 DEF Agent!NeedsScript, StatusFits
  <2> QED  BY <2>2, <2>3
<1>3. CASE Agent!NeedsScript(mode) /\ ~spawned
  <2>1. /\ bt_status' = IF mode = "ENABLE" THEN "DEACTIVATED" ELSE "ACTIVATED"
        /\ UNCHANGED scripts
    BY <1>3 DEF Agent!mode_change
  <2>2. CASE mode = "ENABLE"
    BY <1>3, <2>1, <2>2 DEF Agent!NeedsScript, StatusFits
  <2>3. CASE mode = "DISABLE"
    BY <1>3, <2>1, <2>3 DEF Agent!NeedsScript, StatusFits
  <2> QED  BY <2>2, <2>3
<1> QED
  BY <1>1, <1>2, <1>3

LEMMA WorldKeepsDaemonTold ==
  ASSUME PowerIInv, World
  PROVE  DaemonToldLast' /\ agentInbox' \in Seq(ToDaemon)
<1>1. UNCHANGED <<phase, bt_status>>
  BY WorldTells
<1>2. Agent!Running' <=> Agent!Running
  BY <1>1 DEF Agent!Running
<1>3. agentInbox \in Seq(ToDaemon) /\ bluetoothd \in BOOLEAN /\ hci0 \in BOOLEAN
  BY DEF PowerIInv, PowerTypes
<1>4. CASE TellsNothing
  <2>1. UNCHANGED <<agentInbox, bluetoothd, hci0, missed>> /\ SentLast' = SentLast
    BY <1>4 DEF TellsNothing, SentLast
  <2>2. StatusFits => StatusFits'
    BY <1>1, <1>3, <1>4 DEF TellsNothing, StatusFits
  <2> QED  BY <1>1, <1>2, <1>3, <2>1, <2>2 DEF PowerIInv, DaemonToldLast
<1>5. ASSUME NEW name \in Names, Tells(name) PROVE DaemonToldLast' /\ agentInbox' \in Seq(ToDaemon)
  <2>1. missed' = (missed \/ phase = "starting")
    BY <1>5 DEF Tells, Broadcast
  <2>2. CASE ~Agent!Running
    <3>1. agentInbox' = agentInbox /\ ~Has(agentInbox, Signals)
      BY <1>5, <2>2 DEF Tells, Broadcast, PowerIInv, DaemonToldLast
    <3>2. LastIn(agentInbox, Settling, SentLast')
      BY <3>1, MessageKinds, FewerHas
    <3>3. phase' = "stopped" \/ missed'
      BY <1>1, <2>1, <2>2 DEF Agent!Running, PowerIInv, PowerTypes
    <3> QED  BY <1>2, <1>3, <2>2, <3>1, <3>2, <3>3 DEF DaemonToldLast
  <2>3. CASE Agent!Running
    <3>1. PICK new : new = agentInbox \o <<Sig(name)>>
      OBVIOUS
    <3>2. agentInbox' = new
      BY <1>5, <2>3, <3>1 DEF Tells, Broadcast
    <3>3. Sig(name) \in ToDaemon
      BY DEF ToDaemon, Signals, Names
    <3>4. /\ new \in Seq(ToDaemon) /\ LastIn(new, Settling, SentLast')
          /\ name # "AdapterRemoved" => Has(new, Settling)
      BY <1>3, <1>5, <3>1, <3>3, TellsQueue DEF PowerIInv, DaemonToldLast
    <3>5. name = "AdapterRemoved" => bluetoothd' # hci0'
      BY <1>5 DEF Tells
    <3> QED  BY <1>2, <2>3, <3>2, <3>4, <3>5 DEF DaemonToldLast
  <2> QED  BY <2>2, <2>3
<1> QED
  BY <1>4, <1>5, WorldTells

\* A call for the daemon changes nothing of what it was told.
LEMMA LibraryKeepsDaemonTold ==
  ASSUME PowerIInv, Library
  PROVE  DaemonToldLast' /\ agentInbox' \in Seq(ToDaemon)
<1>1. UNCHANGED <<phase, bt_status, scripts, bluetoothd, hci0, missed>>
  BY DEF Library, RegisterCallback, UnregisterCallback, EnableAdapter, DisableAdapter,
         ChangeTimeout, LibDispatch, agentVars, worldVars
<1>2. SentLast' = SentLast /\ (Agent!Running' <=> Agent!Running) /\ (StatusFits' <=> StatusFits)
  BY <1>1 DEF SentLast, Agent!Running, StatusFits
<1>3. agentInbox \in Seq(ToDaemon)
  BY DEF PowerIInv, PowerTypes
<1>4. CASE UNCHANGED agentInbox
  BY <1>1, <1>2, <1>3, <1>4 DEF PowerIInv, DaemonToldLast
<1>5. ASSUME NEW c \in Calls, agentInbox' = Append(agentInbox, c)
      PROVE  DaemonToldLast' /\ agentInbox' \in Seq(ToDaemon)
  <2>1. PICK r : r = <<c>>
    OBVIOUS
  <2>2. PICK new : new = agentInbox \o r
    OBVIOUS
  <2>3. r \in Seq(ToDaemon) /\ agentInbox' = new
    BY <1>3, <1>5, <2>1, <2>2, AppendJoins DEF ToDaemon
  <2>4. ~Has(r, Signals) /\ ~Has(r, Settling) /\ LastIn(r, Settling, SentLast)
    BY <2>1, OneItem, MessageKinds
  <2>5. \A S : Has(new, S) <=> Has(agentInbox, S) \/ Has(r, S)
    BY <1>3, <2>2, <2>3, JoinedHas
  <2>6. LastIn(new, Settling, SentLast)
    BY <1>3, <2>2, <2>3, <2>4, JoinedLast DEF PowerIInv, DaemonToldLast
  <2>7. new \in Seq(ToDaemon)
    BY <1>3, <2>2, <2>3, JoinedItems
  <2> QED
    BY <1>1, <1>2, <2>3, <2>4, <2>5, <2>6, <2>7 DEF PowerIInv, DaemonToldLast
<1>6. ASSUME NEW mode \in {"ENABLE", "DISABLE"}, SendCall(mode),
             calls' = calls \/ (req < MaxRequests /\ req' = req + 1)
      PROVE  UNCHANGED agentInbox \/ \E c \in Calls : agentInbox' = Append(agentInbox, c)
  <2>1. CASE calls' = calls
    BY <1>6, <2>1 DEF SendCall
  <2>2. CASE calls' # calls
    <3>1. req' \in 1..MaxRequests
      BY <1>6, <2>2, MaxRequestsAssumption DEF MaxRequestsAssumption, PowerIInv, IInv, TypeOK
    <3>2. PICK c : c = Call(req', mode)
      OBVIOUS
    <3>3. c \in Calls
      BY <3>1, <3>2 DEF Call, Calls
    <3> QED  BY <1>6, <2>2, <3>2, <3>3 DEF SendCall
  <2> QED  BY <2>1, <2>2
<1>7. CASE EnableAdapter \/ DisableAdapter
  <2>1. calls' = calls \/ (req < MaxRequests /\ req' = req + 1)
    BY <1>7 DEF EnableAdapter, DisableAdapter, bluetooth_enable_adapter,
                bluetooth_disable_adapter, internal_change_adapter
  <2>2. \E mode \in {"ENABLE", "DISABLE"} : SendCall(mode)
    <3>1. "ENABLE" \in {"ENABLE", "DISABLE"} /\ "DISABLE" \in {"ENABLE", "DISABLE"}
      OBVIOUS
    <3> QED  BY <1>7, <3>1, Zenon DEF EnableAdapter, DisableAdapter
  <2> QED
    BY <1>4, <1>5, <1>6, <2>1, <2>2
<1>8. CASE RegisterCallback \/ UnregisterCallback \/ ChangeTimeout \/ LibDispatch
  BY <1>4, <1>8 DEF RegisterCallback, UnregisterCallback, ChangeTimeout, LibDispatch, worldVars
<1> QED
  BY <1>7, <1>8 DEF Library

\* What a step of the running daemon that takes the head of its queue has to show.
LEMMA ServedKeepsDaemonTold ==
  ASSUME PowerIInv, agentInbox # <<>>, agentInbox' = Tail(agentInbox),
         UNCHANGED <<phase, bluetoothd, hci0, missed>>,
         \/ Head(agentInbox) \notin Settling /\ (StatusFits => StatusFits')
         \/ /\ Head(agentInbox) = Sig("AdapterAdded") /\ bt_status' = "ACTIVATED"
         \/ /\ Head(agentInbox) = Sig("BluezGone") /\ bt_status' = "DEACTIVATED"
  PROVE  DaemonToldLast' /\ agentInbox' \in Seq(ToDaemon)
<1>1. PICK m : m = Head(agentInbox)
  OBVIOUS
<1>2. PICK rest : rest = Tail(agentInbox)
  OBVIOUS
<1>3. agentInbox \in Seq(ToDaemon) /\ bluetoothd \in BOOLEAN /\ hci0 \in BOOLEAN
  BY DEF PowerIInv, PowerTypes
<1>4. m \in ToDaemon /\ rest \in Seq(ToDaemon)
  BY <1>1, <1>2, <1>3, RestItems
<1>5. \A S : Has(agentInbox, S) <=> m \in S \/ Has(rest, S)
  BY <1>1, <1>2, <1>3, RestHas
<1>6. /\ LastIn(rest, Settling, SentLast)
      /\ m \in Settling /\ ~Has(rest, Settling) => m \in SentLast
  BY <1>1, <1>2, <1>3, RestLast DEF PowerIInv, DaemonToldLast
<1>7. SentLast' = SentLast /\ (Agent!Running' <=> Agent!Running)
  BY DEF SentLast, Agent!Running
<1>8. ASSUME phase # "stopped", ~missed, ~Has(rest, Settling), bluetoothd = hci0
      PROVE  StatusFits'
  <2>1. CASE m \notin Settling /\ (StatusFits => StatusFits')
    BY <1>5, <1>8, <2>1 DEF PowerIInv, DaemonToldLast
  <2>2. CASE m = Sig("AdapterAdded") /\ bt_status' = "ACTIVATED"
    <3>1. m \in SentLast /\ m.type = "AdapterAdded"
      BY <1>6, <1>8, <2>2, MessageTypes DEF Settling
    <3>2. hci0' = TRUE
      BY <1>3, <1>8, <3>1, MessageKinds
    <3> QED  BY <2>2, <3>2 DEF StatusFits
  <2>3. CASE m = Sig("BluezGone") /\ bt_status' = "DEACTIVATED"
    <3>1. m \in SentLast /\ m.type = "BluezGone"
      BY <1>6, <1>8, <2>3, MessageTypes DEF Settling
    <3>2. hci0' = FALSE
      BY <1>3, <1>8, <3>1, MessageKinds
    <3> QED  BY <2>3, <3>2 DEF StatusFits
  <2> QED  BY <1>1, <2>1, <2>2, <2>3
<1> QED
  BY <1>2, <1>4, <1>5, <1>6, <1>7, <1>8 DEF PowerIInv, DaemonToldLast
LEMMA DaemonKeepsDaemonTold ==
  ASSUME PowerIInv, Daemon
  PROVE  /\ DaemonToldLast' /\ agentInbox' \in Seq(ToDaemon)
         /\ phase' \in {"stopped", "starting", "running"}
<1>0. /\ UNCHANGED <<bluetoothd, hci0, missed>> /\ SentLast' = SentLast
      /\ bluetoothd \in BOOLEAN /\ hci0 \in BOOLEAN /\ agentInbox \in Seq(ToDaemon)
      /\ phase \in {"stopped", "starting", "running"}
  <2>1. UNCHANGED <<bluetoothd, hci0, missed>>
    BY DEF Daemon, AgentStart, AgentStarted, AgentIdle, AgentDestroy, AgentCrash, FlightMode,
           AgentServesCall, AgentHandlesSignal, worldVars
  <2>2. SentLast' = SentLast
    BY <2>1 DEF SentLast
  <2> QED  BY <2>1, <2>2 DEF PowerIInv, PowerTypes
\* The daemon goes on with what it has not dispatched.
<1>1. ASSUME UNCHANGED <<phase, agentInbox>>, StatusFits => StatusFits'
      PROVE  DaemonToldLast' /\ agentInbox' \in Seq(ToDaemon)
             /\ phase' \in {"stopped", "starting", "running"}
  <2>1. Agent!Running' <=> Agent!Running
    BY <1>1 DEF Agent!Running
  <2> QED
    BY <1>0, <1>1, <2>1 DEF PowerIInv, DaemonToldLast
\* The daemon ends.
<1>2. ASSUME phase' = "stopped", agentInbox' = <<>>
      PROVE  DaemonToldLast' /\ agentInbox' \in Seq(ToDaemon)
             /\ phase' \in {"stopped", "starting", "running"}
  BY <1>2, NoItem DEF DaemonToldLast, Agent!Running
<1>3. CASE AgentStart
  <2>1. /\ phase = "stopped" /\ phase' = "starting" /\ UNCHANGED agentInbox
        /\ bt_status' = IF hci0 THEN "ACTIVATED" ELSE "DEACTIVATED"
    BY <1>3 DEF AgentStart, Agent!agent_init
  <2>2. ~Has(agentInbox, Signals) /\ LastIn(agentInbox, Settling, SentLast)
    BY <2>1 DEF PowerIInv, DaemonToldLast, Agent!Running
  <2>3. StatusFits'
    BY <1>0, <2>1 DEF StatusFits
  <2> QED
    BY <1>0, <2>1, <2>2, <2>3 DEF DaemonToldLast
<1>4. CASE AgentStarted
  <2>1. /\ phase = "starting" /\ phase' = "running"
        /\ UNCHANGED <<agentInbox, bt_status, scripts>>
    BY <1>4 DEF AgentStarted, Agent!agent_init_done, worldVars
  <2>2. Agent!Running' /\ (StatusFits => StatusFits')
    BY <1>0, <2>1 DEF StatusFits, Agent!Running
  <2> QED
    BY <1>0, <2>1, <2>2 DEF PowerIInv, DaemonToldLast
<1>5. CASE AgentIdle \/ AgentDestroy \/ AgentCrash
  <2>1. \/ phase' = "stopped"
        \/ phase = "running" /\ UNCHANGED phase /\ (StatusFits => StatusFits')
    <3>1. CASE AgentIdle
      <4>1. PICK spawned \in BOOLEAN : Agent!check_bt_service(spawned)
        BY <1>5, <3>1 DEF AgentIdle
      <4>2. CASE Agent!mode_change("ENABLE", spawned) /\ UNCHANGED phase
        <5>1. PICK mode \in {"ENABLE", "DISABLE"} : mode = "ENABLE"
          OBVIOUS
        <5>2. StatusFits => StatusFits'
          BY <1>0, <4>2, <5>1, ModeChangeKeepsFit
        <5> QED  BY <4>1, <4>2, <5>2 DEF Agent!check_bt_service, Agent!Running
      <4>3. CASE Agent!bt_agent_terminate
        BY <4>3 DEF Agent!bt_agent_terminate
      <4>4. CASE UNCHANGED <<phase, bt_status, scripts>>
        BY <1>0, <4>1, <4>4 DEF StatusFits, Agent!check_bt_service, Agent!Running
      <4> QED  BY <4>1, <4>2, <4>3, <4>4 DEF Agent!check_bt_service
    <3>2. CASE AgentDestroy
      BY <1>0, <3>2 DEF AgentDestroy, Agent!agent_destroy_cb, Agent!bt_agent_terminate,
                        Agent!Running, StatusFits
    <3>3. CASE AgentCrash
      BY <3>3 DEF AgentCrash, Agent!agent_crash, Agent!bt_agent_terminate
    <3> QED  BY <1>5, <3>1, <3>2, <3>3
  <2>2. /\ phase' = "stopped" => agentInbox' = <<>>
        /\ phase' # "stopped" => agentInbox' = agentInbox
    BY <1>5 DEF AgentIdle, AgentDestroy, AgentCrash, AgentLeavesBus
  <2> QED
    BY <1>1, <1>2, <2>1, <2>2
<1>6. CASE FlightMode
  <2>1. Agent!mode_change("DISABLE", TRUE) /\ UNCHANGED <<phase, agentInbox>>
    BY <1>6 DEF FlightMode, Agent!flight_mode_cb
  <2>2. PICK mode \in {"ENABLE", "DISABLE"} : mode = "DISABLE"
    OBVIOUS
  <2>3. PICK spawned \in BOOLEAN : spawned = TRUE
    OBVIOUS
  <2>4. StatusFits => StatusFits'
    BY <1>0, <2>1, <2>2, <2>3, ModeChangeKeepsFit
  <2> QED
    BY <1>1, <2>1, <2>4
<1>7. CASE AgentServesCall
  <2>1. PICK m : m = Head(agentInbox)
    OBVIOUS
  <2>2. m \in ToDaemon /\ m.type = "ConfirmMode" /\ agentInbox # <<>>
    BY <1>0, <1>7, <2>1, RestItems DEF AgentServesCall
  <2>3. m \in Calls /\ m \notin Settling /\ m.mode \in {"ENABLE", "DISABLE"}
    BY <2>2, MessageKinds, MessageTypes DEF ToDaemon
  <2>4. PICK spawned \in BOOLEAN : Agent!confirm_mode(m.mode, spawned)
    BY <1>7, <2>1 DEF AgentServesCall
  <2>5. StatusFits => StatusFits'
    BY <1>0, <2>3, <2>4, ModeChangeKeepsFit DEF Agent!confirm_mode
  <2>6. UNCHANGED phase /\ agentInbox' = Tail(agentInbox)
    BY <1>7, <2>4 DEF AgentServesCall, Agent!confirm_mode
  <2> QED
    BY <1>0, <2>1, <2>2, <2>3, <2>5, <2>6, ServedKeepsDaemonTold
<1>8. CASE AgentHandlesSignal
  <2>1. PICK m : m = Head(agentInbox)
    OBVIOUS
  <2>2. m \in ToDaemon /\ agentInbox # <<>> /\ agentInbox' = Tail(agentInbox)
    BY <1>0, <1>8, <2>1, RestItems DEF AgentHandlesSignal
  <2>3. UNCHANGED phase
    BY <1>8 DEF AgentHandlesSignal, Agent!agent_adapter_added_cb,
                Agent!agent_name_owner_changed, agentVars
  <2>4. /\ m.type = "AdapterAdded" => m = Sig("AdapterAdded")
        /\ m.type = "BluezGone" => m = Sig("BluezGone")
    BY <2>2, MessageTypes, MessageKinds DEF ToDaemon, Signals
  <2>5. \/ m.type = "AdapterAdded" /\ bt_status' = "ACTIVATED"
        \/ m.type = "BluezGone" /\ bt_status' = "DEACTIVATED"
        \/ m.type = "AdapterRemoved" /\ UNCHANGED <<bt_status, scripts>>
    BY <1>8, <2>1 DEF AgentHandlesSignal, Agent!agent_adapter_added_cb,
                      Agent!agent_name_owner_changed, agentVars
  <2>6. m.type = "AdapterRemoved" => m \notin Settling
    BY MessageKinds
  <2>7. UNCHANGED <<bt_status, scripts>> => (StatusFits => StatusFits')
    BY <1>0 DEF StatusFits
  <2> QED
    BY <1>0, <2>1, <2>2, <2>3, <2>4, <2>5, <2>6, <2>7, ServedKeepsDaemonTold
<1> QED
  BY <1>3, <1>4, <1>5, <1>6, <1>7, <1>8 DEF Daemon

(***************************************************************************)
(* The invariant.                                                          *)
(***************************************************************************)

LEMMA PowerInitIInv == PowerInit => PowerIInv
<1> SUFFICES ASSUME PowerInit PROVE PowerIInv
  OBVIOUS
<1>1. IInv /\ ~application_pid /\ ~Connected
  BY InitIInv DEF PowerInit, Init, Connected
<1>2. phase = "stopped" /\ libInbox = <<>> /\ agentInbox = <<>>
  BY DEF PowerInit, Agent!Init
<1>3. PowerTypes /\ SessionHasProxy
  <2>1. <<>> \in Seq(ToLibrary) /\ <<>> \in Seq(ToDaemon)
    OBVIOUS
  <2>2. libInbox \in Seq(ToLibrary) /\ agentInbox \in Seq(ToDaemon)
    BY <1>2, <2>1
  <2> QED  BY <1>1, <1>2, <2>2 DEF PowerInit, PowerTypes, SessionHasProxy
<1>4. LibraryToldLast /\ DaemonToldLast
  BY <1>1, <1>2, NoItem DEF LibraryToldLast, DaemonToldLast, Agent!Running
<1> QED
  BY <1>1, <1>3, <1>4 DEF PowerIInv

LEMMA PowerKeepsTypes ==
  ASSUME PowerIInv, PowerNext
  PROVE  /\ bluetoothd' \in BOOLEAN /\ hci0' \in BOOLEAN /\ missed' \in BOOLEAN
         /\ hci0' => bluetoothd'
         /\ World \/ Library => UNCHANGED phase
<1>1. CASE World
  <2>1. phase' = phase
    BY <1>1, WorldTells
  <2>2. ASSUME NEW name \in Names, Tells(name)
        PROVE  /\ bluetoothd' \in BOOLEAN /\ hci0' \in BOOLEAN /\ missed' \in BOOLEAN
               /\ hci0' => bluetoothd'
    BY <2>2 DEF Tells, Broadcast, Names
  <2>3. TellsNothing => UNCHANGED <<bluetoothd, hci0, missed>>
    BY DEF TellsNothing
  <2> QED
    BY <1>1, <2>1, <2>2, <2>3, WorldTells DEF PowerIInv, PowerTypes
<1>2. CASE Library
  <2>1. UNCHANGED <<phase, bluetoothd, hci0, missed>>
    BY <1>2 DEF Library, RegisterCallback, UnregisterCallback, EnableAdapter, DisableAdapter,
                ChangeTimeout, LibDispatch, agentVars, worldVars
  <2> QED
    BY <2>1 DEF PowerIInv, PowerTypes
<1>3. CASE Daemon
  <2>1. UNCHANGED <<bluetoothd, hci0, missed>>
    BY <1>3 DEF Daemon, AgentStart, AgentStarted, AgentIdle, AgentDestroy, AgentCrash,
                FlightMode, AgentServesCall, AgentHandlesSignal, worldVars
  <2> QED
    BY <1>1, <1>2, <2>1 DEF PowerIInv, PowerTypes
<1> QED
  BY <1>1, <1>2, <1>3 DEF PowerNext

LEMMA PowerNextKeepsIInv == PowerIInv /\ [PowerNext]_powerVars => PowerIInv'
<1> SUFFICES ASSUME PowerIInv, [PowerNext]_powerVars PROVE PowerIInv'
  OBVIOUS
<1>1. IInv'
  BY LibraryStep, NextKeepsIInv DEF PowerIInv
<1>2. CASE PowerNext
  <2>1. SessionHasProxy' /\ LibraryToldLast' /\ libInbox' \in Seq(ToLibrary)
    BY <1>2, WorldKeepsLibraryTold, LibraryKeepsLibraryTold, DaemonKeepsLibraryTold
       DEF PowerNext
  <2>2. /\ DaemonToldLast' /\ agentInbox' \in Seq(ToDaemon)
        /\ phase' \in {"stopped", "starting", "running"}
    BY <1>2, WorldKeepsDaemonTold, LibraryKeepsDaemonTold, DaemonKeepsDaemonTold,
       PowerKeepsTypes DEF PowerNext, PowerIInv, PowerTypes
  <2>3. PowerTypes'
    BY <1>2, <2>1, <2>2, PowerKeepsTypes DEF PowerTypes
  <2> QED
    BY <1>1, <2>1, <2>2, <2>3 DEF PowerIInv
<1>3. CASE UNCHANGED powerVars
  <2>1. PowerTypes' /\ SessionHasProxy'
    BY <1>3 DEF powerVars, vars, agentVars, worldVars, PowerIInv, PowerTypes, SessionHasProxy
  <2>2. LibraryToldLast'
    BY <1>3 DEF powerVars, vars, worldVars, PowerIInv, LibraryToldLast, Connected, SentLast
  <2>3. DaemonToldLast'
    BY <1>3 DEF powerVars, agentVars, worldVars, PowerIInv, DaemonToldLast, Agent!Running,
                SentLast, StatusFits
  <2> QED
    BY <1>1, <2>1, <2>2, <2>3 DEF PowerIInv
<1> QED
  BY <1>2, <1>3

LEMMA PowerSpecIInv == PowerSpec => []PowerIInv
BY PowerInitIInv, PowerNextKeepsIInv, PTL DEF PowerSpec

(***************************************************************************)
(* The theorems about the composition.                                     *)
(***************************************************************************)

\* Whatever BlueZ, the daemon and D-Bus do, the library only sees what the most
\* general environment of GapAdapter may do: what is proved of it there is true here.
THEOREM CompositionIsOfLibrary == PowerSpec => Init /\ [][Next]_vars
<1>1. PowerInit => Init
  BY DEF PowerInit
<1>2. PowerIInv /\ [PowerNext]_powerVars => [Next]_vars
  BY LibraryStep
<1> QED
  BY <1>1, <1>2, PowerSpecIInv, PTL DEF PowerSpec

\* Once it has dispatched everything and no change is in progress, the library knows
\* whether the adapter is there: crashes, timeouts, late errors and the daemon's end
\* never leave it with a state that is not the adapter's.
THEOREM LibraryKnowsTheAdapter == PowerSpec => []LibAgreesWhenQuiet
<1>1. PowerIInv => LibAgreesWhenQuiet
  <2> SUFFICES ASSUME PowerIInv, Connected, ~Changing, libInbox = <<>>, bluetoothd = hci0
               PROVE  (bt_adapter_state = "ENABLED") = hci0
    BY DEF LibAgreesWhenQuiet
  <2>1. ~Has(libInbox, Settling) /\ hci0 \in BOOLEAN
    BY NoItem DEF PowerIInv, PowerTypes
  <2>2. bt_adapter_state \in ViewOf(hci0)
    BY <2>1 DEF PowerIInv, LibraryToldLast
  <2>3. bt_adapter_state = IF hci0 THEN "ENABLED" ELSE "DISABLED"
    BY <2>1, <2>2 DEF ViewOf, Changing, IsChanging
  <2> QED  BY <2>1, <2>3
<1> QED
  BY <1>1, PowerSpecIInv, PTL

\* Likewise the daemon, when it missed no signal while it started and no script runs:
\* it never waits in activating or deactivating for a script that has already ended.
THEOREM DaemonKnowsTheStack == PowerSpec => []AgentAgreesWhenQuiet
<1>1. PowerIInv => AgentAgreesWhenQuiet
  <2> SUFFICES ASSUME PowerIInv, Agent!Running, ~missed, agentInbox = <<>>, scripts = {},
                      bluetoothd = hci0
               PROVE  bt_status = IF hci0 THEN "ACTIVATED" ELSE "DEACTIVATED"
    BY DEF AgentAgreesWhenQuiet
  <2>1. ~Has(agentInbox, Settling) /\ phase # "stopped"
    BY NoItem DEF Agent!Running
  <2>2. StatusFits
    BY <2>1 DEF PowerIInv, DaemonToldLast
  <2> QED  BY <2>2 DEF StatusFits
<1> QED
  BY <1>1, PowerSpecIInv, PTL
=============================================================================
