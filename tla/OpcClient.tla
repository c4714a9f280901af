----------------------------- MODULE OpcClient -----------------------------
(***************************************************************************)
(* Pushing files: bluetooth_opc_* (lib/bluetooth-opc-api.c) and the agent  *)
(* object through which obexd tells how it goes (lib/obex-agent.c).        *)
(*                                                                         *)
(* One push at a time: a SendFiles call, then for every file a Request the *)
(* agent answers, and an end, and a Release at last.  A push is named by   *)
(* the number of its agent (g_counter); 0 stands for NULL.                 *)
(***************************************************************************)
EXTENDS Naturals, Sequences

CONSTANTS
  MaxPushes,  \* bound on the pushes
  MaxFiles,   \* bound on the files of a push
  MaxDeinits  \* bound on the calls of bluetooth_opc_deinit

ASSUME OpcAssumption ==
  /\ MaxPushes \in Nat /\ MaxFiles \in Nat \ {0} /\ MaxDeinits \in Nat

VARIABLES
  client_proxy,          \* TRUE: initialised
  opc_obex_agent,        \* the agent object there is
  call_proxy,            \* the SendFiles call, by its push
  call_pending,          \* and whether its reply will still be delivered
  current_transfer,      \* the transfer, by its push
  cancel_sending_files,
  address,               \* opc_current_transfer.address, by its push
  cancel_idles,          \* cancel_connect_cb calls that wait for an idle loop
  g_counter,             \* pushes so far
  deinits,               \* calls of bluetooth_opc_deinit so far (ghost)
  started,               \* the application knows a transfer that goes on (ghost)
  events,                \* the events the step delivers to the application
  \* obexd and the session bus
  session,               \* obexd's view of each push
  left,                  \* files it has still to send
  cancels,               \* pushes whose Transfer.Cancel is on its way
  inbox                  \* messages not yet dispatched by the application

callVars == <<call_proxy, call_pending, cancel_idles>>
initVars == <<client_proxy, g_counter, deinits>>
obexdVars == <<session, left, cancels>>
vars == <<initVars, opc_obex_agent, callVars, current_transfer,
          cancel_sending_files, address, started, events, obexdVars, inbox>>

Push == 1..MaxPushes

Event(name, result, k) == [name |-> name, result |-> result, push |-> k]
Tell(name, result, k) == events' = <<Event(name, result, k)>>
Told(name) == \E i \in DOMAIN events : events[i].name = name

Names == {"CANCEL_CALL", "CONNECTED", "DISCONNECTED",
          "TRANSFER_STARTED", "TRANSFER_PROGRESS", "TRANSFER_COMPLETE"}
Results == {"NONE", "CANCEL_BY_USER", "SERVICE_NOT_FOUND", "NOT_CONNECTED", "INTERNAL"}

Init ==
  /\ client_proxy = FALSE /\ opc_obex_agent = 0
  /\ call_proxy = 0 /\ call_pending = FALSE /\ cancel_idles = 0
  /\ current_transfer = 0 /\ cancel_sending_files = FALSE /\ address = 0
  /\ g_counter = 0 /\ deinits = 0
  /\ started = FALSE /\ events = <<>>
  /\ session = [k \in Push |-> "none"] /\ left = [k \in Push |-> 0]
  /\ cancels = {} /\ inbox = <<>>

(***************************************************************************)
(* obexd (external): connects, offers the files one by one, and releases   *)
(* the agent at the end.                                                   *)
(***************************************************************************)

Msg(k, kind) == [push |-> k, kind |-> kind]
Send(msgs) == inbox' = inbox \o msgs

\* The connection is made or not; then the agent is released or just dropped.
Connect(k) ==
  /\ session[k] = "connecting"
  /\ \/ /\ session' = [session EXCEPT ![k] = "ready"]
        /\ Send(<<Msg(k, "REPLY_OK")>>)
     \/ /\ session' = [session EXCEPT ![k] = "over"]
        /\ \/ Send(<<Msg(k, "REPLY_ERROR")>>)
           \/ Send(<<Msg(k, "REPLY_ERROR"), Msg(k, "RELEASE")>>)
  /\ UNCHANGED <<left, cancels>>

Ask(k) ==
  /\ session[k] = "ready" /\ left[k] > 0
  /\ session' = [session EXCEPT ![k] = "asking"]
  /\ Send(<<Msg(k, "REQUEST")>>)
  /\ UNCHANGED <<left, cancels>>

Sending(k) == session[k] \in {"sending", "half sent"}

Progress(k) ==
  /\ session[k] = "sending"
  /\ session' = [session EXCEPT ![k] = "half sent"]
  /\ Send(<<Msg(k, "PROGRESS")>>)
  /\ UNCHANGED <<left, cancels>>

\* A file is over: sent, refused by the other side or cancelled.
FileEnds(k) ==
  /\ Sending(k)
  /\ session' = [session EXCEPT ![k] = "ready"]
  /\ left' = [left EXCEPT ![k] = @ - 1]
  /\ \/ Send(<<Msg(k, "COMPLETE")>>) /\ UNCHANGED cancels
     \/ Send(<<Msg(k, "ERROR")>>) /\ cancels' = cancels \ {k}

LinkBreaks(k) ==
  /\ Sending(k)
  /\ session' = [session EXCEPT ![k] = "over"]
  /\ Send(<<Msg(k, "LINK_LOST"), Msg(k, "RELEASE")>>)
  /\ UNCHANGED <<left, cancels>>

SessionEnds(k) ==
  /\ session[k] = "ready" /\ left[k] = 0
  /\ session' = [session EXCEPT ![k] = "over"]
  /\ Send(<<Msg(k, "RELEASE")>>)
  /\ UNCHANGED <<left, cancels>>

Obexd(k) ==
  /\ Connect(k) \/ Ask(k) \/ Progress(k) \/ FileEnds(k) \/ LinkBreaks(k) \/ SessionEnds(k)
  /\ events' = <<>>
  /\ UNCHANGED <<initVars, opc_obex_agent, callVars, current_transfer,
                 cancel_sending_files, address, started>>

\* What obexd makes of the answer to a Request; a Cancel sent before is read before.
Answer(k, accepted) ==
  /\ session' = [session EXCEPT ![k] = IF accepted THEN "sending" ELSE "ready"]
  /\ left' = IF accepted THEN left ELSE [left EXCEPT ![k] = @ - 1]
  /\ cancels' = cancels \ {k}

(***************************************************************************)
(* The application's calls (with the adapter enabled).                     *)
(***************************************************************************)

bluetooth_opc_init ==
  /\ ~client_proxy
  /\ client_proxy' = TRUE
  /\ events' = <<>>
  /\ UNCHANGED <<opc_obex_agent, callVars, current_transfer, cancel_sending_files,
                 address, g_counter, deinits, started, obexdVars, inbox>>

\* The proxy takes its pending call with it; the agent and call_proxy stay.
bluetooth_opc_deinit ==
  /\ client_proxy /\ deinits < MaxDeinits
  /\ client_proxy' = FALSE
  /\ call_pending' = FALSE
  /\ deinits' = deinits + 1
  /\ events' = <<>>
  /\ UNCHANGED <<opc_obex_agent, call_proxy, cancel_idles, current_transfer,
                 cancel_sending_files, address, g_counter, started, obexdVars, inbox>>

\* Mutant: only the agent tells that a push is in progress.
Busy_agent_only == opc_obex_agent # 0

Busy == current_transfer # 0 \/ opc_obex_agent # 0

bluetooth_opc_push_files(files) ==
  /\ client_proxy /\ ~Busy
  /\ g_counter < MaxPushes
  /\ LET k == g_counter + 1
     IN  /\ g_counter' = k
         /\ opc_obex_agent' = k
         /\ call_proxy' = k /\ call_pending' = TRUE
         /\ address' = k
         /\ session' = [session EXCEPT ![k] = "connecting"]
         /\ left' = [left EXCEPT ![k] = files]
  /\ cancel_sending_files' = FALSE
  /\ events' = <<>>
  /\ UNCHANGED <<client_proxy, deinits, cancel_idles, current_transfer, started,
                 cancels, inbox>>

\* Mutant: call_proxy is not set to NULL when the call is cancelled.
bluetooth_opc_cancel_push_again ==
  /\ opc_obex_agent # 0 /\ current_transfer = 0 /\ call_proxy # 0
  /\ cancel_sending_files' = TRUE
  /\ Tell("CANCEL_CALL", "NONE", 0)
  /\ call_pending' = FALSE
  /\ cancel_idles' = cancel_idles + 1
  /\ UNCHANGED <<initVars, opc_obex_agent, call_proxy, current_transfer, address,
                 started, obexdVars, inbox>>

\* A transfer is cancelled in obexd, a connection here: the reply is dropped and
\* cancel_connect_cb waits.  Between two files neither is done.
bluetooth_opc_cancel_push ==
  /\ opc_obex_agent # 0
  /\ cancel_sending_files' = TRUE
  /\ Tell("CANCEL_CALL", "NONE", 0)
  /\ \/ /\ current_transfer # 0
        /\ cancels' = cancels \cup {current_transfer}
        /\ UNCHANGED callVars
     \/ /\ current_transfer = 0 /\ call_proxy # 0
        /\ call_proxy' = 0 /\ call_pending' = FALSE
        /\ cancel_idles' = cancel_idles + 1
        /\ UNCHANGED cancels
     \/ /\ current_transfer = 0 /\ call_proxy = 0
        /\ UNCHANGED <<callVars, cancels>>
  /\ UNCHANGED <<initVars, opc_obex_agent, current_transfer, address, started,
                 session, left, inbox>>

\* The main loop is idle: nothing waits to be dispatched.
cancel_connect_cb ==
  /\ cancel_idles > 0 /\ inbox = <<>>
  /\ cancel_idles' = cancel_idles - 1
  /\ Tell("CONNECTED", "CANCEL_BY_USER", address)
  /\ opc_obex_agent' = 0 /\ address' = 0
  /\ UNCHANGED <<initVars, call_proxy, call_pending, current_transfer,
                 cancel_sending_files, started, obexdVars, inbox>>

(***************************************************************************)
(* What obexd says.                                                        *)
(***************************************************************************)

Received(k, kinds) ==
  /\ inbox # <<>>
  /\ Head(inbox).push = k /\ Head(inbox).kind \in kinds
  /\ inbox' = Tail(inbox)
  /\ UNCHANGED initVars

send_files_cb(k) ==
  /\ Received(k, {"REPLY_OK", "REPLY_ERROR"})
  /\ call_pending /\ call_proxy = k
  /\ call_proxy' = 0 /\ call_pending' = FALSE
  /\ IF Head(inbox).kind = "REPLY_OK"
     THEN /\ Tell("CONNECTED", "NONE", address)
          /\ UNCHANGED <<opc_obex_agent, address>>
     ELSE /\ Tell("CONNECTED", "SERVICE_NOT_FOUND", address)
          /\ opc_obex_agent' = 0 /\ address' = 0
  /\ UNCHANGED <<cancel_idles, current_transfer, cancel_sending_files, started, obexdVars>>

\* A reply nobody waits for any more, or a call to an agent that is gone.
Ignored(k) ==
  \/ /\ Received(k, {"REPLY_OK", "REPLY_ERROR"})
     /\ ~(call_pending /\ call_proxy = k)
     /\ UNCHANGED obexdVars
  \/ /\ Received(k, {"PROGRESS", "COMPLETE", "ERROR", "LINK_LOST", "RELEASE"})
     /\ opc_obex_agent # k
     /\ UNCHANGED obexdVars
  \/ /\ Received(k, {"REQUEST"})
     /\ opc_obex_agent # k
     /\ Answer(k, FALSE)

drop(k) ==
  /\ Ignored(k)
  /\ events' = <<>>
  /\ UNCHANGED <<opc_obex_agent, callVars, current_transfer, cancel_sending_files,
                 address, started>>

\* A call the agent of push k takes.
AgentCall(k, kinds) ==
  /\ opc_obex_agent = k
  /\ Received(k, kinds)
  /\ UNCHANGED callVars

\* The start is told if GetProperties then succeeds.
request_callback(k) ==
  /\ AgentCall(k, {"REQUEST"})
  /\ current_transfer' = k
  /\ IF cancel_sending_files
     THEN /\ Answer(k, FALSE)
          /\ Tell("DISCONNECTED", "CANCEL_BY_USER", address)
          /\ opc_obex_agent' = 0 /\ address' = 0
          /\ UNCHANGED started
     ELSE /\ Answer(k, TRUE)
          /\ \/ Tell("TRANSFER_STARTED", "NONE", 0) /\ started' = TRUE
             \/ events' = <<>> /\ UNCHANGED started
          /\ UNCHANGED <<opc_obex_agent, address>>
  /\ UNCHANGED cancel_sending_files

progress_callback(k) ==
  /\ AgentCall(k, {"PROGRESS"})
  /\ Tell("TRANSFER_PROGRESS", "NONE", 0)
  /\ UNCHANGED <<opc_obex_agent, current_transfer, cancel_sending_files, address,
                 started, obexdVars>>

complete_callback(k) ==
  /\ AgentCall(k, {"COMPLETE"})
  /\ current_transfer' = 0
  /\ Tell("TRANSFER_COMPLETE", "NONE", 0)
  /\ started' = FALSE
  /\ UNCHANGED <<opc_obex_agent, cancel_sending_files, address, obexdVars>>

\* Mutant: a transfer that the user has cancelled is not told to be complete.
error_callback_quiet(k) ==
  /\ AgentCall(k, {"ERROR", "LINK_LOST"})
  /\ current_transfer' = 0
  /\ IF cancel_sending_files
     THEN /\ Tell("DISCONNECTED", "CANCEL_BY_USER", address)
          /\ opc_obex_agent' = 0 /\ address' = 0
          /\ UNCHANGED started
     ELSE /\ Tell("TRANSFER_COMPLETE", "INTERNAL", 0)
          /\ started' = FALSE
          /\ UNCHANGED <<opc_obex_agent, address>>
  /\ UNCHANGED <<cancel_sending_files, obexdVars>>

\* The end of the transfer, and of the push if it was cancelled or the link is lost.
error_callback(k) ==
  /\ AgentCall(k, {"ERROR", "LINK_LOST"})
  /\ current_transfer' = 0
  /\ started' = FALSE
  /\ LET lost == Head(inbox).kind = "LINK_LOST"
         result == IF cancel_sending_files THEN "CANCEL_BY_USER"
                   ELSE IF lost THEN "NOT_CONNECTED" ELSE "INTERNAL"
     IN  /\ cancel_sending_files' = (cancel_sending_files \/ lost)
         /\ IF cancel_sending_files'
            THEN /\ events' = <<Event("TRANSFER_COMPLETE", result, 0),
                               Event("DISCONNECTED", result, address)>>
                 /\ opc_obex_agent' = 0 /\ address' = 0
            ELSE /\ Tell("TRANSFER_COMPLETE", result, 0)
                 /\ UNCHANGED <<opc_obex_agent, address>>
  /\ UNCHANGED obexdVars

\* Mutant: the agent object goes, the pointer stays.
release_callback_keeps(k) ==
  /\ AgentCall(k, {"RELEASE"})
  /\ current_transfer' = 0
  /\ address' = 0
  /\ Tell("DISCONNECTED", "NONE", address)
  /\ UNCHANGED <<opc_obex_agent, cancel_sending_files, started, obexdVars>>

release_callback(k) ==
  /\ AgentCall(k, {"RELEASE"})
  /\ current_transfer' = 0
  /\ opc_obex_agent' = 0 /\ address' = 0
  /\ Tell("DISCONNECTED", "NONE", address)
  /\ UNCHANGED <<cancel_sending_files, started, obexdVars>>

-----------------------------------------------------------------------------

Dispatch(k) ==
  \/ send_files_cb(k) \/ drop(k)
  \/ request_callback(k) \/ progress_callback(k) \/ complete_callback(k)
  \/ error_callback(k) \/ release_callback(k)

Next ==
  \/ bluetooth_opc_init \/ bluetooth_opc_deinit
  \/ \E files \in 1..MaxFiles : bluetooth_opc_push_files(files)
  \/ bluetooth_opc_cancel_push \/ cancel_connect_cb
  \/ \E k \in Push : Dispatch(k) \/ Obexd(k)

\* obexd and the main loop go on.
Fairness ==
  /\ WF_vars(\E k \in Push : Dispatch(k))
  /\ WF_vars(cancel_connect_cb)
  /\ \A k \in Push : WF_vars(Obexd(k))

Spec == Init /\ [][Next]_vars /\ Fairness

(***************************************************************************)
(* Properties.                                                             *)
(***************************************************************************)

TypeOK ==
  /\ client_proxy \in BOOLEAN /\ call_pending \in BOOLEAN
  /\ cancel_sending_files \in BOOLEAN /\ started \in BOOLEAN
  /\ opc_obex_agent \in 0..MaxPushes /\ call_proxy \in 0..MaxPushes
  /\ current_transfer \in 0..MaxPushes /\ address \in 0..MaxPushes
  /\ cancel_idles \in 0..g_counter
  /\ g_counter \in 0..MaxPushes /\ deinits \in 0..MaxDeinits
  /\ events \in Seq([name : Names, result : Results, push : 0..MaxPushes])
  /\ session \in [Push -> {"none", "connecting", "ready", "asking", "sending",
                           "half sent", "over"}]
  /\ left \in [Push -> 0..MaxFiles]
  /\ cancels \subseteq Push
  /\ inbox \in Seq([push : Push, kind : {"REPLY_OK", "REPLY_ERROR", "REQUEST",
       "PROGRESS", "COMPLETE", "ERROR", "LINK_LOST", "RELEASE"}])

\* g_assert(current_transfer == NULL) in the request callback: whatever was
\* cancelled, lost or pushed before, a Request finds no transfer.
RequestFindsNoTransfer ==
  inbox # <<>> /\ Head(inbox).kind = "REQUEST" /\ Head(inbox).push = opc_obex_agent =>
    current_transfer = 0

\* The application is told that a transfer is complete before it is told that
\* the next one has started or that the push is over.
TransfersEnd ==
  [][/\ Told("TRANSFER_STARTED")' \/ Told("DISCONNECTED")'
     /\ ~Told("TRANSFER_COMPLETE")'
     => ~started]_vars

\* No agent is kept for good, however its push ends or is cancelled, unless the
\* client is deinitialised before the answer to SendFiles.
AgentGoes ==
  \A k \in Push :
    opc_obex_agent = k /\ deinits = 0 ~> opc_obex_agent # k \/ deinits > 0
=============================================================================
