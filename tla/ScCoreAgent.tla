---------------------------- MODULE ScCoreAgent ----------------------------
(***************************************************************************)
(* The pairing and authorization side of the framework agent daemon: the   *)
(* D-Bus requests of BlueZ (sc_core_agent.c), what the daemon answers by   *)
(* itself and what it asks the user (bluetooth-agent-cb.c), and the calls  *)
(* that bring the user's answer back.                                      *)
(*                                                                         *)
(* The daemon keeps one slot, exec_type and reply_context, for the call    *)
(* that waits for an answer; ConfirmMode, which the library calls at any   *)
(* time, uses the same slot.  The answer of a popup or an application does *)
(* not name the call it is for.  Every D-Bus call handled is one step.     *)
(***************************************************************************)
EXTENDS Naturals, Sequences

CONSTANTS
  Device,       \* remote devices
  Headsets,     \* those paired with the PIN 0000
  Keyboards,    \* those that type a PIN the daemon makes up
  NoDevice,     \* an empty address
  MaxRequests   \* bound on the D-Bus calls that wait for a reply

ASSUME AgentAssumption ==
  /\ Headsets \subseteq Device /\ Keyboards \subseteq Device
  /\ NoDevice \notin Device
  /\ MaxRequests \in Nat

VARIABLES
  running,        \* the daemon runs
  adapter,        \* TRUE: priv->adapter # NULL
  exec_type,      \* priv->exec_type
  reply_context,  \* priv->reply_context: a call, 0: NULL
  ignored,        \* ad->bonding_addr while ad->ignore_auto_pairing is set
  requests,       \* the calls so far and how often each was answered
  asked,          \* calls the user or an application has still to decide
  closing,        \* bt-syspopup has been told to close its popups
  outstanding     \* the call BlueZ waits for, 0: none

vars == <<running, adapter, exec_type, reply_context, ignored, requests,
          asked, closing, outstanding>>

PairingTypes == {"PIN", "PASSKEY", "CONFIRM"}
BluezTypes == PairingTypes \cup {"AUTHORIZE"}
Types == BluezTypes \cup {"CONFIRM_MODE"}
ExecTypes == {"NO_OPERATION", "PAIRING", "AUTHORIZATION", "CONFIRM_MODE"}

\* answered: how often.
Call(type, dev, answered) ==
  [type |-> type, dev |-> dev, answered |-> answered]

ThisCall == Len(requests) + 1

Init ==
  /\ running = FALSE /\ adapter = FALSE
  /\ exec_type = "NO_OPERATION" /\ reply_context = 0
  /\ ignored = NoDevice
  /\ requests = <<>> /\ asked = {} /\ closing = FALSE
  /\ outstanding = 0

(***************************************************************************)
(* The slot.                                                               *)
(***************************************************************************)

EmptySlot == exec_type' = "NO_OPERATION" /\ reply_context' = 0

Hold(type, c) == exec_type' = type /\ reply_context' = c

\* Whether an answer that comes now is sent.
HasContext == exec_type # "NO_OPERATION" /\ reply_context # 0

\* Mutant: the slot is not emptied.
reply_keeps_slot ==
  /\ UNCHANGED <<exec_type, reply_context>>
  /\ requests' = IF HasContext
                 THEN [requests EXCEPT ![reply_context].answered = @ + 1]
                 ELSE requests
  /\ outstanding' = IF HasContext /\ reply_context = outstanding THEN 0 ELSE outstanding

\* sc_core_agent_reply_pin_code, _passkey, _confirmation and _authorize: the call
\* in the slot, if there is one, gets the answer and the slot is emptied.
reply ==
  /\ EmptySlot
  /\ requests' = IF HasContext
                 THEN [requests EXCEPT ![reply_context].answered = @ + 1]
                 ELSE requests
  /\ outstanding' = IF HasContext /\ reply_context = outstanding THEN 0 ELSE outstanding

(***************************************************************************)
(* Life cycle: the daemon starts, registers on each adapter that appears,  *)
(* lets go of it when BlueZ leaves the bus, and ends (see BtAgent).        *)
(***************************************************************************)

agent_start ==
  /\ ~running
  /\ running' = TRUE
  /\ UNCHANGED <<adapter, exec_type, reply_context, ignored, requests, asked,
                 closing, outstanding>>

register_on_adapter ==
  /\ running
  /\ adapter' = TRUE
  /\ EmptySlot
  /\ outstanding' = 0   \* the adapter is new: what BlueZ asked before is void
  /\ UNCHANGED <<running, ignored, requests, asked, closing>>

unregister ==
  /\ running /\ adapter
  /\ adapter' = FALSE
  /\ outstanding' = 0
  /\ UNCHANGED <<running, exec_type, reply_context, ignored, requests, asked,
                 closing>>

agent_end ==
  /\ running
  /\ running' = FALSE /\ adapter' = FALSE
  /\ EmptySlot
  /\ ignored' = NoDevice
  /\ outstanding' = 0
  /\ UNCHANGED <<requests, asked, closing>>

(***************************************************************************)
(* Requests of BlueZ, which asks the daemon one thing at a time.           *)
(***************************************************************************)

Asks == running /\ adapter /\ outstanding = 0 /\ Len(requests) < MaxRequests

\* Mutant: the slot is taken and not emptied again.
AnswerAtOnce_keeps_slot(type, dev) ==
  /\ requests' = Append(requests, Call(type, dev, 1))
  /\ Hold("PAIRING", ThisCall)
  /\ UNCHANGED <<asked, outstanding>>

\* Answered within the handler: the slot is taken and emptied again.
AnswerAtOnce(type, dev) ==
  /\ requests' = Append(requests, Call(type, dev, 1))
  /\ EmptySlot
  /\ UNCHANGED <<asked, outstanding>>

\* Mutant: the popup is shown without the slot being taken.
AskUser_no_slot(type, dev) ==
  /\ requests' = Append(requests, Call(type, dev, 0))
  /\ UNCHANGED <<exec_type, reply_context>>
  /\ asked' = asked \cup {ThisCall}
  /\ outstanding' = ThisCall

\* Left to a popup, or to the application that serves the authorized service.
AskUser(type, dev) ==
  /\ requests' = Append(requests, Call(type, dev, 0))
  /\ Hold(IF type = "AUTHORIZE" THEN "AUTHORIZATION" ELSE "PAIRING", ThisCall)
  /\ asked' = asked \cup {ThisCall}
  /\ outstanding' = ThisCall

\* __bt_agent_is_auto_response: the request not to pair automatically is used
\* up by the first device that asks for a PIN.
is_auto_response(dev) == dev \in Headsets /\ ignored # dev

\* What the daemon decides without the user: a device without properties is
\* rejected, a headset gets 0000 and a keyboard a PIN that is shown.
PinDecided(dev, properties) ==
  ~properties \/ is_auto_response(dev) \/ dev \in Keyboards

request_pin_code(dev, properties) ==
  /\ Asks
  /\ ignored' = IF properties THEN NoDevice ELSE ignored
  /\ IF PinDecided(dev, properties) THEN AnswerAtOnce("PIN", dev) ELSE AskUser("PIN", dev)
  /\ UNCHANGED <<running, adapter, closing>>

request_passkey_or_confirmation(type, dev, properties) ==
  /\ Asks
  /\ type \in {"PASSKEY", "CONFIRM"}
  /\ IF properties THEN AskUser(type, dev) ELSE AnswerAtOnce(type, dev)
  /\ UNCHANGED <<running, adapter, ignored, closing>>

\* Audio services are accepted, devices that are not paired rejected, object
\* push and RFCOMM left to the application that serves them, and other services
\* accepted for a trusted device and left to a popup for the rest.
AuthorizeDecided(audio, properties, paired, served, trusted) ==
  audio \/ ~properties \/ ~paired \/ (~served /\ trusted)

authorize(dev, audio, properties, paired, served, trusted) ==
  /\ Asks
  /\ IF AuthorizeDecided(audio, properties, paired, served, trusted)
     THEN AnswerAtOnce("AUTHORIZE", dev)
     ELSE AskUser("AUTHORIZE", dev)
  /\ UNCHANGED <<running, adapter, ignored, closing>>

\* The remote device gives up, or BlueZ's own time is over.  BlueZ no longer
\* waits; the call in the slot, unless it is a ConfirmMode, is answered and the
\* popups told to close.
cancel ==
  /\ running /\ outstanding # 0
  /\ outstanding' = 0
  /\ EmptySlot
  /\ IF exec_type \in {"PAIRING", "AUTHORIZATION"}
     THEN /\ requests' = [requests EXCEPT ![reply_context].answered = @ + 1]
          /\ closing' = TRUE
     ELSE UNCHANGED <<requests, closing>>
  /\ UNCHANGED <<running, adapter, ignored, asked>>

\* BlueZ drops the agent, after a Cancel if it was waiting.
release ==
  /\ running /\ adapter /\ outstanding = 0
  /\ EmptySlot
  /\ UNCHANGED <<running, adapter, ignored, requests, asked, closing,
                 outstanding>>

(***************************************************************************)
(* Calls of the library.                                                   *)
(***************************************************************************)

\* ConfirmMode is answered at once (see BtAgent) and stays in the slot.
confirm_mode ==
  /\ running
  /\ Len(requests) < MaxRequests
  /\ requests' = Append(requests, Call("CONFIRM_MODE", NoDevice, 1))
  /\ Hold("CONFIRM_MODE", ThisCall)
  /\ UNCHANGED <<running, adapter, ignored, asked, closing, outstanding>>

\* The library names a headset that has just refused the automatic PIN.
ignore_auto_pairing(dev) ==
  /\ running
  /\ dev \in Headsets
  /\ ignored' = dev
  /\ UNCHANGED <<running, adapter, exec_type, reply_context, requests, asked,
                 closing, outstanding>>

(***************************************************************************)
(* The user and the applications.                                          *)
(***************************************************************************)

\* Somebody decides c, and the daemon takes it for an answer to what is in the
\* slot by then.
Decide(c) ==
  /\ running
  /\ asked' = asked \ {c}
  /\ reply
  /\ UNCHANGED <<running, adapter, ignored, closing>>

\* The popups close, some time after they were told to.
PopupsClose ==
  /\ closing
  /\ closing' = FALSE
  /\ asked' = {}
  /\ UNCHANGED <<running, adapter, exec_type, reply_context, ignored, requests,
                 outstanding>>

-----------------------------------------------------------------------------

LifeCycle == agent_start \/ register_on_adapter \/ unregister \/ agent_end

BluezRequest(dev) ==
  \E properties \in BOOLEAN :
    \/ request_pin_code(dev, properties)
    \/ \E type \in {"PASSKEY", "CONFIRM"} :
         request_passkey_or_confirmation(type, dev, properties)
    \/ \E audio, paired, served, trusted \in BOOLEAN :
         authorize(dev, audio, properties, paired, served, trusted)

Next ==
  \/ LifeCycle
  \/ \E dev \in Device : BluezRequest(dev) \/ ignore_auto_pairing(dev)
  \/ cancel \/ release
  \/ confirm_mode
  \/ \E c \in asked : Decide(c)
  \/ PopupsClose

Spec == Init /\ [][Next]_vars

(***************************************************************************)
(* Properties.                                                             *)
(***************************************************************************)

TypeOK ==
  /\ running \in BOOLEAN /\ adapter \in BOOLEAN /\ closing \in BOOLEAN
  /\ exec_type \in ExecTypes
  /\ requests \in Seq([type : Types, dev : Device \cup {NoDevice},
                       answered : Nat])
  /\ Len(requests) <= MaxRequests
  /\ reply_context \in 0..Len(requests)
  /\ ignored \in Device \cup {NoDevice}
  /\ asked \subseteq 1..Len(requests)
  /\ outstanding \in 0..Len(requests)

\* What the slot holds for pairing or authorization is a call of that kind which
\* nobody has answered: no order of requests, cancellations, releases, late
\* answers and ConfirmMode calls makes the daemon keep a finished one.
SlotHoldsOpenCall ==
  exec_type \in {"PAIRING", "AUTHORIZATION"} =>
    /\ reply_context # 0
    /\ requests[reply_context].answered = 0
    /\ requests[reply_context].type \in
         (IF exec_type = "PAIRING" THEN PairingTypes ELSE {"AUTHORIZE"})

\* A request of BlueZ is never answered twice.
BluezAnsweredOnce ==
  \A c \in 1..Len(requests) :
    requests[c].type \in BluezTypes => requests[c].answered <= 1

\* A request BlueZ waits for is the one in the slot, so that the next answer
\* reaches it, unless a ConfirmMode came after it.
RequestIsHeld ==
  outstanding # 0 =>
    \/ reply_context = outstanding
    \/ \E c \in outstanding + 1 .. Len(requests) : requests[c].type = "CONFIRM_MODE"

\* sc_core_agent_reply_authorize, "No context": an answer for which no request
\* waits is refused, so that no call is ever answered twice.
AnsweredOnce == \A c \in 1..Len(requests) : requests[c].answered <= 1
=============================================================================
