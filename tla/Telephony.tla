------------------------------ MODULE Telephony ------------------------------
(***************************************************************************)
(* Telephony over a hands-free headset: bluetooth_telephony_*              *)
(* (bluetooth-telephony/bluetooth-telephony-api.c) in the application that *)
(* owns the calls, and the agent between it and BlueZ                      *)
(* (bluetooth-hfp-agent/bluetooth-hfp-agent.c).                            *)
(*                                                                         *)
(* Every call of the library to the agent blocks the application: no       *)
(* signal and no request of the headset is dispatched until the reply or   *)
(* libdbus' timeout.  The agent is single-threaded too: it blocks on BlueZ *)
(* and, for Threeway alone, on the application.  A call or a headset is a  *)
(* number; 0 stands for none.                                              *)
(***************************************************************************)
EXTENDS Integers, Sequences, FiniteSets

CONSTANTS
  MaxCall,      \* the calls of the application
  MaxHeadset,   \* the headsets that connect, one after the other
  MaxOps,       \* bound on the operations of the application
  MaxRequests,  \* bound on the requests of the headset
  MaxRestarts   \* bound on the restarts of BlueZ

TelephonyAssumption ==
  /\ {MaxCall, MaxHeadset} \subseteq Nat \ {0}
  /\ {MaxOps, MaxRequests, MaxRestarts} \subseteq Nat

VARIABLES
  conn,           \* TRUE: initialised
  is_active,
  proxy,          \* the headset telephony_dbus_info.proxy stands for
  obj_path,       \* the headset telephony_info.obj_path names
  address,
  headset_state,
  call_count,
  filters,        \* how often the event filter is installed
  matched,        \* TRUE: the bus sends the process the headset's signals, for good
  doing,          \* the operation that waits for the agent, or NoOp
  in_callback,    \* TRUE: the application is in its Threeway callback
  app_in,         \* signals and method calls not yet dispatched
  waits,          \* TRUE: the agent waits for the application's Threeway
  agent_in,       \* method calls the agent has not yet served
  \* BlueZ
  up,             \* the daemon runs and has its adapter
  registered,     \* the application is BlueZ's telephony agent
  calls,          \* the calls BlueZ knows
  link,           \* the headset that is connected
  sco,            \* TRUE: its audio is on
  asked,          \* the requests of the headset that wait for their answer
  \* ghosts and bounds
  lost,           \* by how much call_count may differ: replies that came too late
  known,          \* TRUE: the headset's state was reported since the session began
  ops, requests, restarts, links

libVars == <<conn, is_active, proxy, obj_path, address, headset_state, call_count, filters, matched>>
loopVars == <<doing, in_callback, app_in>>
agentVars == <<waits, agent_in>>
bluezVars == <<up, registered, calls, link, sco, asked>>
boundVars == <<ops, requests, restarts, links>>
vars == <<libVars, loopVars, agentVars, bluezVars, lost, known, boundVars>>

CallId == 1..MaxCall
Headset == 1..MaxHeadset
NoOp == [op |-> "none", id |-> 0, audio |-> FALSE, todo |-> <<>>]
Op(op, id, audio, todo) == [op |-> op, id |-> id, audio |-> audio, todo |-> todo]

Init ==
  /\ conn = FALSE /\ is_active = FALSE /\ proxy = 0 /\ obj_path = 0 /\ address = 0
  /\ headset_state = "disconnected" /\ call_count = 0 /\ filters = 0 /\ matched = FALSE
  /\ doing = NoOp /\ in_callback = FALSE /\ app_in = <<>>
  /\ waits = FALSE /\ agent_in = <<>>
  /\ up \in BOOLEAN /\ registered = FALSE /\ calls = {} /\ link = 0 /\ sco = FALSE
  /\ asked = 0
  /\ lost = 0 /\ known = FALSE
  /\ ops = 0 /\ requests = 0 /\ restarts = 0 /\ links = 0

(***************************************************************************)
(* BlueZ (external): the headset and its audio, each change told by        *)
(* PropertyChanged signals, and the requests the headset makes.            *)
(***************************************************************************)

Signal(property, value, h) == [kind |-> "signal", property |-> property, value |-> value, from |-> h,
                               epoch |-> restarts]
Distance(a, b) == IF a > b THEN a - b ELSE b - a

\* What BlueZ signals to the connected application when a headset's state is s.
Report(h, s) ==
  CASE s = "connected"    -> <<Signal("State", s, h), Signal("Connected", TRUE, h)>>
    [] s = "playing"      -> <<Signal("State", s, h), Signal("Playing", TRUE, h)>>
    [] s = "silent"       -> <<Signal("State", "connected", h), Signal("Playing", FALSE, h)>>
    [] s = "disconnected" -> <<Signal("State", s, h), Signal("Connected", FALSE, h)>>

Deliver(msgs) == app_in' = IF matched THEN app_in \o msgs ELSE app_in

Link(h) ==
  /\ up /\ link = 0 /\ links < MaxHeadset /\ h = links + 1
  /\ link' = h /\ links' = h
  /\ Deliver(Report(h, "connected"))
  /\ UNCHANGED <<sco, ops, requests, restarts>>

Unlink ==
  /\ link # 0 /\ link' = 0 /\ sco' = FALSE
  /\ Deliver(Report(link, "disconnected"))
  /\ UNCHANGED boundVars

\* The headset turns its audio on or off.
Audio ==
  /\ link # 0 /\ requests < MaxRequests
  /\ sco' = ~sco /\ requests' = requests + 1
  /\ Deliver(Report(link, IF sco THEN "silent" ELSE "playing"))
  /\ UNCHANGED <<link, ops, restarts, links>>

HeadsetSide ==
  /\ (\E h \in Headset : Link(h)) \/ Unlink \/ Audio
  /\ UNCHANGED <<libVars, doing, in_callback, agentVars, up, registered, calls, asked,
                 lost, known>>

\* AT+CHLD, or any other command: BlueZ calls the agent and waits for its answer.
Ask(what) ==
  /\ link # 0 /\ registered /\ requests < MaxRequests
  /\ agent_in' = Append(agent_in, [what |-> what, id |-> 0, waited |-> FALSE])
  /\ asked' = asked + 1 /\ requests' = requests + 1
  /\ UNCHANGED <<libVars, loopVars, waits, up, registered, calls, link, sco, lost, known,
                 ops, restarts, links>>

\* BlueZ dies: its calls and its requests go with it.
BluezStops ==
  /\ up /\ restarts < MaxRestarts
  /\ up' = FALSE /\ registered' = FALSE /\ calls' = {} /\ link' = 0 /\ sco' = FALSE
  /\ asked' = 0 /\ restarts' = restarts + 1
  /\ app_in' = IF conn THEN Append(app_in, Signal("NameOwnerChanged", FALSE, 0)) ELSE app_in
  /\ lost' = lost + Cardinality(calls) /\ known' = FALSE
  /\ UNCHANGED <<libVars, doing, in_callback, agentVars, ops, requests, links>>

BluezStarts ==
  /\ ~up /\ up' = TRUE
  /\ app_in' = IF conn THEN Append(app_in, Signal("AdapterAdded", TRUE, 0)) ELSE app_in
  /\ UNCHANGED <<libVars, doing, in_callback, agentVars, registered, calls, link, sco, asked,
                 lost, known, boundVars>>

\* What BlueZ's org.tizen.csd makes of a call of the agent.  UnregisterApplication
\* comes as RegisterTelephonyAgent with FALSE; BlueZ keeps the calls it has.
CsdAccepts(r) ==
  /\ up
  /\ CASE r.what = "Register"             -> TRUE
       [] r.what = "Unregister"           -> registered
       [] r.what \in {"Incoming", "Outgoing"} -> registered /\ r.id \notin calls
       [] OTHER                           -> registered /\ r.id \in calls

Csd(r) ==
  IF CsdAccepts(r)
  THEN /\ registered' = (r.what = "Register" \/ (registered /\ r.what # "Unregister"))
       /\ calls' = CASE r.what \in {"Incoming", "Outgoing"} -> calls \cup {r.id}
                     [] r.what = "MT_RELEASE"               -> calls \ {r.id}
                     [] OTHER                               -> calls
  ELSE UNCHANGED <<registered, calls>>

(***************************************************************************)
(* The library: the headset's proxy and its audio.                         *)
(***************************************************************************)

\* The connected headset as BlueZ has it when nothing is cached.
FoundAddress(a) == IF a # 0 THEN a ELSE link
FoundPath(a) == IF obj_path # 0 THEN obj_path ELSE FoundAddress(a)
FoundProxy(a) == IF proxy # 0 THEN proxy ELSE IF up /\ FoundAddress(a) # 0 THEN FoundPath(a) ELSE 0

\* The path that was found first is kept for good, whichever headset comes later.
get_connected_device_proxy(a) ==
  /\ proxy' = FoundProxy(a)
  /\ IF proxy = 0 /\ up /\ FoundAddress(a) # 0
     THEN /\ obj_path' = FoundPath(a) /\ address' = FoundAddress(a)
          /\ headset_state' = IF a = 0 THEN IF sco THEN "playing" ELSE "connected"
                              ELSE headset_state
     ELSE UNCHANGED <<obj_path, headset_state>> /\ address' = a

\* Play: the audio comes on when the proxy is that of the connected headset.
bluetooth_telephony_audio_open ==
  IF is_active /\ headset_state # "playing"
  THEN /\ get_connected_device_proxy(address)
       /\ IF FoundProxy(address) = link /\ link # 0 /\ ~sco
          THEN sco' = TRUE /\ Deliver(Report(link, "playing"))
          ELSE UNCHANGED <<sco, app_in>>
  ELSE UNCHANGED <<proxy, obj_path, address, headset_state, sco, app_in>>

bluetooth_telephony_audio_close ==
  /\ UNCHANGED <<proxy, obj_path, address, headset_state>>
  /\ IF is_active /\ headset_state = "playing" /\ proxy # 0 /\ proxy = link /\ sco
     THEN sco' = FALSE /\ Deliver(Report(link, "silent"))
     ELSE UNCHANGED <<sco, app_in>>

NoAudio == UNCHANGED <<proxy, obj_path, address, headset_state, sco, app_in>>

\* Voice recognition and the volume look for the proxy and call BlueZ directly.
bluetooth_telephony_start_voice_recognition ==
  /\ conn /\ is_active /\ doing = NoOp /\ ops < MaxOps
  /\ get_connected_device_proxy(address)
  /\ ops' = ops + 1
  /\ UNCHANGED <<conn, is_active, call_count, filters, matched, loopVars, agentVars, bluezVars,
                 lost, known, requests, restarts, links>>

\* The application opens or closes the audio by itself.
AudioCall ==
  /\ conn /\ is_active /\ doing = NoOp /\ ops < MaxOps
  /\ bluetooth_telephony_audio_open \/ bluetooth_telephony_audio_close
  /\ ops' = ops + 1
  /\ UNCHANGED <<conn, is_active, call_count, filters, matched, doing, in_callback, agentVars, up,
                 registered, calls, link, asked, lost, known, requests, restarts, links>>

(***************************************************************************)
(* Calls to the agent: they are begun, and finished by the reply or the    *)
(* timeout.                                                                *)
(***************************************************************************)

Request(what, id) == [what |-> what, id |-> id, waited |-> TRUE]
dbus_method_send(op, what, id) ==
  /\ doing' = op
  /\ agent_in' = Append(agent_in, Request(what, id))

\* The requests whose replies came too late and that still may change a call.
Stale == {i \in DOMAIN agent_in' : ~agent_in'[i].waited /\
                                   agent_in'[i].what \in {"Incoming", "Outgoing", "MT_RELEASE"}}
Rebase == lost' = Distance(call_count', Cardinality(calls')) + Cardinality(Stale)

call_count_after_end == IF call_count > 0 THEN call_count - 1 ELSE 0

call_end_reply(ok) ==
  IF ok THEN /\ call_count' = call_count_after_end
             /\ IF call_count' = 0 THEN bluetooth_telephony_audio_close ELSE NoAudio
  ELSE NoAudio /\ UNCHANGED call_count

\* Mutant: the call is counted although the agent refused.
indicate_counts_first(ok) ==
  /\ call_count' = call_count + 1
  /\ IF ok /\ doing.audio THEN bluetooth_telephony_audio_open ELSE NoAudio

indicate_reply(ok) ==
  IF ok THEN /\ call_count' = call_count + 1
             /\ IF doing.audio THEN bluetooth_telephony_audio_open ELSE NoAudio
  ELSE NoAudio /\ UNCHANGED call_count

call_answered_reply(ok) ==
  /\ IF ok /\ doing.audio THEN bluetooth_telephony_audio_open ELSE NoAudio
  /\ UNCHANGED call_count

init_reply(ok) ==
  /\ conn' = ok /\ NoAudio
  /\ IF ok THEN UNCHANGED call_count ELSE call_count' = 0

\* The result of UnregisterApplication is not looked at.
deinit_reply ==
  /\ conn' = FALSE /\ call_count' = 0 /\ NoAudio

adapter_added_reply(ok) ==
  /\ filters' = IF ok THEN filters + 1 ELSE filters
  /\ UNCHANGED <<conn, call_count>> /\ NoAudio

set_call_status_reply(ok) ==
  /\ call_count' = IF ok /\ doing.op = "set_status" /\ doing.todo = <<>>
                   THEN doing.id ELSE call_count
  /\ NoAudio

\* The next status of the list, sent when the last one was answered.
More(ok) == ok /\ doing.todo # <<>>
NextRequest(ok) == IF More(ok) THEN <<Request(Head(doing.todo), doing.id)>> ELSE <<>>

\* The count is set anew, by the application or by the end of the session.
Counted(ok) ==
  \/ doing.op = "deinit"
  \/ doing.op = "init" /\ ~ok
  \/ doing.op = "set_status" /\ ok /\ doing.todo = <<>>

\* The reply of the agent, or its absence, ends the operation or continues it.
Reply(ok, missed) ==
  /\ CASE doing.op = "end"      -> call_end_reply(ok) /\ UNCHANGED <<conn, filters>>
       [] doing.op = "indicate" -> indicate_reply(ok) /\ UNCHANGED <<conn, filters>>
       [] doing.op = "answered" -> call_answered_reply(ok) /\ UNCHANGED <<conn, filters>>
       [] doing.op = "init"     -> init_reply(ok) /\ UNCHANGED filters
       [] doing.op = "deinit"   -> deinit_reply /\ UNCHANGED filters
       [] doing.op = "adapter"  -> adapter_added_reply(ok)
       [] OTHER                 -> set_call_status_reply(ok) /\ UNCHANGED <<conn, filters>>
  /\ doing' = IF More(ok) THEN [doing EXCEPT !.todo = Tail(@)] ELSE NoOp
  /\ IF Counted(ok) THEN Rebase ELSE lost' = lost + missed
  /\ known' = (known /\ doing.op # "deinit" /\ (doing.op = "init" => ok))
  /\ UNCHANGED <<is_active, matched>>

AppTimeout ==
  /\ doing # NoOp
  /\ LET i == CHOOSE i \in DOMAIN agent_in : agent_in[i].waited
         counts == doing.op \in {"indicate", "end"}
     IN /\ agent_in' = [agent_in EXCEPT ![i].waited = FALSE]
        /\ UNCHANGED calls
        /\ Reply(FALSE, IF counts THEN 1 ELSE 0)
  /\ UNCHANGED <<in_callback, waits, up, registered, link, asked, boundVars>>

(***************************************************************************)
(* Operations of the application, from its main loop or its callback.      *)
(***************************************************************************)

Begin ==
  /\ doing = NoOp /\ ops < MaxOps /\ ops' = ops + 1
  /\ UNCHANGED <<proxy, obj_path, headset_state, call_count, in_callback, app_in, waits,
                 bluezVars, lost, known, requests, restarts, links>>

\* Without an adapter the library stays initialised and is not registered.
bluetooth_telephony_init ==
  /\ Begin
  /\ ~conn /\ conn' = TRUE /\ address' = 0 /\ filters' = filters + 1 /\ matched' = TRUE
  /\ IF up THEN is_active' = TRUE /\ dbus_method_send(Op("init", 0, FALSE, <<>>), "Register", 0)
     ELSE UNCHANGED <<is_active, doing, agent_in>>

\* One filter is removed, however many AdapterAdded has added.
bluetooth_telephony_deinit ==
  /\ Begin
  /\ conn /\ ~in_callback
  /\ filters' = filters - 1
  /\ dbus_method_send(Op("deinit", 0, FALSE, <<>>), "Unregister", 0)
  /\ UNCHANGED <<conn, is_active, address, matched>>

CallOp ==
  /\ Begin
  /\ conn /\ is_active
  /\ UNCHANGED <<conn, is_active, address, filters, matched>>

bluetooth_telephony_indicate_outgoing_call(id, audio) ==
  CallOp /\ dbus_method_send(Op("indicate", id, audio, <<>>), "Outgoing", id)

bluetooth_telephony_indicate_incoming_call(id) ==
  CallOp /\ dbus_method_send(Op("indicate", id, FALSE, <<>>), "Incoming", id)

bluetooth_telephony_call_answered(id, audio) ==
  CallOp /\ dbus_method_send(Op("answered", id, audio, <<>>), "ACTIVE", id)

bluetooth_telephony_call_end(id) ==
  CallOp /\ dbus_method_send(Op("end", id, FALSE, <<>>), "MT_RELEASE", id)

\* Ringing, held and retrieved change nothing the library keeps.
SendStatus(id) ==
  CallOp /\ dbus_method_send(Op("status", id, FALSE, <<>>), "ACTIVE", id)

bluetooth_telephony_call_swapped(id) ==
  CallOp /\ dbus_method_send(Op("status", id, FALSE, <<"ACTIVE">>), "ACTIVE", id)

\* The list has one call, whatever BlueZ knows.
bluetooth_telephony_set_call_status ==
  CallOp /\ dbus_method_send(Op("set_status", 1, FALSE, <<>>), "ACTIVE", 1)

Application ==
  \/ bluetooth_telephony_init \/ bluetooth_telephony_deinit
  \/ bluetooth_telephony_start_voice_recognition \/ AudioCall
  \/ bluetooth_telephony_set_call_status
  \/ \E id \in CallId :
       \/ \E audio \in BOOLEAN : \/ bluetooth_telephony_indicate_outgoing_call(id, audio)
                               \/ bluetooth_telephony_call_answered(id, audio)
       \/ bluetooth_telephony_indicate_incoming_call(id) \/ bluetooth_telephony_call_end(id)
       \/ SendStatus(id) \/ bluetooth_telephony_call_swapped(id)

(***************************************************************************)
(* The application's main loop.                                            *)
(***************************************************************************)

\* Mutant: the audio is not told from the connection.
StateAfter_mixed(s) ==
  CASE s.property = "State"     -> s.value
    [] s.property = "Connected" -> IF s.value THEN "connected" ELSE "disconnected"
    [] s.property = "Playing"   -> "connected"

\* What a signal makes of headset_state.
StateAfter(s) ==
  CASE s.property = "State"     -> s.value
    [] s.property = "Connected" -> IF s.value THEN "connected" ELSE "disconnected"
    [] s.property = "Playing"   -> IF s.value THEN "playing" ELSE "connected"

event_filter(s) ==
  /\ filters > 0 /\ (conn \/ s.property = "State")
  /\ headset_state' = StateAfter(s)
  /\ known' = (conn /\ s.epoch = restarts)
  /\ IF s.property # "Connected" THEN UNCHANGED <<proxy, obj_path, address>>
     ELSE IF ~s.value THEN proxy' = 0 /\ address' = 0 /\ UNCHANGED obj_path
     ELSE /\ address' = s.from
          /\ proxy' = FoundProxy(s.from)
          /\ obj_path' = IF proxy = 0 /\ up THEN FoundPath(s.from) ELSE obj_path
  /\ UNCHANGED <<conn, is_active, call_count, filters, matched, doing, in_callback, agent_in, waits,
                 bluezVars, lost>>

\* The callback of a session that has ended is NULL: the application crashes and
\* starts again.
Crash ==
  /\ app_in # <<>> /\ Head(app_in).kind = "signal"
  /\ doing = NoOp /\ ~in_callback /\ filters > 0 /\ ~conn /\ Head(app_in).property \in {"Connected", "Playing"}
  /\ is_active' = FALSE /\ proxy' = 0 /\ obj_path' = 0 /\ address' = 0
  /\ headset_state' = "disconnected" /\ filters' = 0 /\ matched' = FALSE
  /\ known' = FALSE /\ app_in' = <<>>
  /\ UNCHANGED <<conn, call_count, doing, in_callback, agentVars, bluezVars, lost, boundVars>>

Unheard(s) ==
  /\ filters = 0 /\ s.property \in {"State", "Connected", "Playing"}
  /\ UNCHANGED <<libVars, doing, in_callback, agent_in, waits, bluezVars, lost, known>>

name_owner_changed(s) ==
  /\ s.property = "NameOwnerChanged"
  /\ is_active' = IF conn THEN FALSE ELSE is_active
  /\ UNCHANGED <<conn, proxy, obj_path, address, headset_state, call_count, filters, matched, doing,
                 in_callback, agent_in, waits, bluezVars, lost, known>>

adapter_added_cb(s) ==
  /\ s.property = "AdapterAdded"
  /\ IF conn THEN /\ is_active' = TRUE
                  /\ dbus_method_send(Op("adapter", 0, FALSE, <<>>), "Register", 0)
     ELSE UNCHANGED <<is_active, doing, agent_in>>
  /\ UNCHANGED <<conn, proxy, obj_path, address, headset_state, call_count, filters, matched,
                 in_callback, waits, bluezVars, lost, known>>

\* The requests that are forwarded without waiting tell the application and no more.
method_answer ==
  UNCHANGED <<libVars, doing, in_callback, agent_in, waits, bluezVars, lost, known>>

Answered == IF asked > 0 THEN asked - 1 ELSE 0

\* The reply to Threeway reaches the agent if it still waits; it answers BlueZ.
AnswerThreeway ==
  /\ waits' = FALSE
  /\ asked' = IF waits THEN Answered ELSE asked

\* Mutant: the agent forgets to answer BlueZ when the application does not.
threeway_failed_quiet == waits' = FALSE /\ UNCHANGED asked

threeway_failed == AnswerThreeway

\* Without the object, or with a value out of range, the answer is an error at once.
method_threeway ==
  /\ IF conn THEN in_callback' = TRUE /\ UNCHANGED <<waits, asked>>
     ELSE UNCHANGED in_callback /\ AnswerThreeway
  /\ UNCHANGED <<libVars, doing, agent_in, up, registered, calls, link, sco, lost, known>>

CallbackReturns ==
  /\ in_callback /\ doing = NoOp
  /\ in_callback' = FALSE /\ AnswerThreeway
  /\ UNCHANGED <<libVars, doing, app_in, agent_in, up, registered, calls, link, sco, lost,
                 known, boundVars>>

Dispatch ==
  /\ doing = NoOp /\ ~in_callback /\ app_in # <<>>
  /\ LET msg == Head(app_in)
     IN \/ /\ msg.kind = "signal"
           /\ \/ /\ msg.property \in {"State", "Connected", "Playing"}
                 /\ event_filter(msg) \/ Unheard(msg)
              \/ name_owner_changed(msg) \/ adapter_added_cb(msg)
        \/ msg.kind = "Forward" /\ method_answer
        \/ msg.kind = "Threeway" /\ method_threeway
  /\ app_in' = Tail(app_in)
  /\ UNCHANGED boundVars

(***************************************************************************)
(* The agent.                                                              *)
(***************************************************************************)

\* RegisterApplication, UnregisterApplication, IncomingCall, OutgoingCall and
\* ChangeCallStatus wait for BlueZ; the reply ends the application's wait.
ServeApplication(r) ==
  /\ r.what \notin {"Forward", "Threeway", "Local"}
  /\ Csd(r)
  /\ agent_in' = Tail(agent_in) \o (IF r.waited THEN NextRequest(CsdAccepts(r)) ELSE <<>>)
  /\ IF r.waited THEN Reply(CsdAccepts(r), 0)
     ELSE UNCHANGED <<libVars, doing, app_in, sco, lost, known>>
  /\ UNCHANGED <<in_callback, waits, up, link, asked>>

\* Answer, Release, Reject and SendDtmf are sent on; BlueZ is answered at once.
ServeForward(r) ==
  /\ r.what = "Forward"
  /\ app_in' = Append(app_in, [kind |-> "Forward"])
  /\ asked' = Answered /\ agent_in' = Tail(agent_in)
  /\ UNCHANGED <<libVars, doing, in_callback, waits, up, registered, calls, link, sco, lost, known>>

\* Dialling, the battery and the signal quality need nobody else.
ServeLocal(r) ==
  /\ r.what = "Local"
  /\ asked' = Answered /\ agent_in' = Tail(agent_in)
  /\ UNCHANGED <<libVars, loopVars, waits, up, registered, calls, link, sco, lost, known>>

bt_hfp_agent_threeway_call(r) ==
  /\ r.what = "Threeway"
  /\ waits' = TRUE
  /\ app_in' = Append(app_in, [kind |-> "Threeway"])
  /\ agent_in' = Tail(agent_in)
  /\ UNCHANGED <<libVars, doing, in_callback, bluezVars, lost, known>>

Serve ==
  /\ ~waits /\ agent_in # <<>>
  /\ LET r == Head(agent_in)
     IN ServeApplication(r) \/ ServeForward(r) \/ ServeLocal(r) \/ bt_hfp_agent_threeway_call(r)
  /\ UNCHANGED boundVars

\* libdbus gives up on the application's answer.
AgentTimeout ==
  /\ waits
  /\ threeway_failed
  /\ UNCHANGED <<libVars, loopVars, agent_in, up, registered, calls, link, sco, lost, known, boundVars>>

Next ==
  \/ HeadsetSide \/ BluezStops \/ BluezStarts
  \/ \E what \in {"Forward", "Threeway", "Local"} : Ask(what)
  \/ Application \/ Dispatch \/ Crash \/ CallbackReturns \/ AppTimeout
  \/ Serve \/ AgentTimeout

\* Both main loops run; the callback returns; libdbus' timeouts expire.
Fairness ==
  /\ WF_vars(Serve) /\ WF_vars(AgentTimeout) /\ WF_vars(AppTimeout)
  /\ WF_vars(Dispatch \/ Crash) /\ WF_vars(CallbackReturns)

Spec == Init /\ [][Next]_vars /\ Fairness

(***************************************************************************)
(* Properties                                                              *)
(***************************************************************************)

\* The application's count of calls and BlueZ's differ by no more than the replies
\* that came too late and the calls BlueZ lost (__bluetooth_telephony_dbus_method_send
\* and the counting of indicate_outgoing_call, indicate_incoming_call and call_end).
CountIsExplained ==
  doing = NoOp => Distance(call_count, Cardinality(calls)) <= lost

\* Once a signal was seen, and when none is left to be seen, headset_state is the
\* state of BlueZ's headset, whatever was cached from the session before
\* (__bluetooth_telephony_event_filter).
HeadsetStateFollows ==
  known /\ filters > 0 /\ (\A i \in DOMAIN app_in : app_in[i].kind # "signal")
  => headset_state = IF link = 0 THEN "disconnected" ELSE IF sco THEN "playing" ELSE "connected"

\* A request of the headset is answered, though the agent and the application may
\* wait for each other (bt_hfp_agent_threeway_call blocks on the application, which
\* may be in a blocking call to the agent).
HeadsetAnswered == \A n \in 1..MaxRequests : asked >= n ~> asked < n
=============================================================================
