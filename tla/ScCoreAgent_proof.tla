------------------------- MODULE ScCoreAgent_proof -------------------------
(***************************************************************************)
(* Proofs about ScCoreAgent, for every set of devices and any number of    *)
(* requests: the slot never holds a finished request of BlueZ, no request  *)
(* of BlueZ is answered twice, and the request BlueZ waits for is the one  *)
(* in the slot unless a ConfirmMode came after it.                         *)
(***************************************************************************)
EXTENDS ScCoreAgent, TLAPS

CallSet == [type : Types, dev : Device \cup {NoDevice}, answered : Nat]

\* The slot is empty when nothing is in operation, and holds a ConfirmMode call
\* after one: the answers that come then are not for BlueZ.
SlotKind ==
  /\ exec_type = "NO_OPERATION" => reply_context = 0
  /\ exec_type = "CONFIRM_MODE" =>
       reply_context # 0 /\ requests[reply_context].type = "CONFIRM_MODE"

IInv == TypeOK /\ SlotKind /\ SlotHoldsOpenCall /\ BluezAnsweredOnce /\ RequestIsHeld

-----------------------------------------------------------------------------

\* Appending a call keeps the calls before it.
LEMMA AppendCall ==
  ASSUME NEW s \in Seq(CallSet), NEW e \in CallSet
  PROVE  /\ Append(s, e) \in Seq(CallSet)
         /\ Len(Append(s, e)) = Len(s) + 1
         /\ \A i \in 1..Len(s) : Append(s, e)[i] = s[i]
         /\ Append(s, e)[Len(s) + 1] = e
  OBVIOUS

\* Answering a call changes nothing but its number of answers.
LEMMA AnswerCall ==
  ASSUME NEW s \in Seq(CallSet), NEW c \in 1..Len(s)
  PROVE  LET t == [s EXCEPT ![c].answered = @ + 1]
         IN  /\ t \in Seq(CallSet)
             /\ Len(t) = Len(s)
             /\ \A i \in 1..Len(s) : t[i].type = s[i].type
             /\ \A i \in 1..Len(s) : i # c => t[i] = s[i]
             /\ t[c].answered = s[c].answered + 1
<1> DEFINE t == [s EXCEPT ![c].answered = @ + 1]
<1>0. s \in [1..Len(s) -> CallSet] /\ Len(s) \in Nat
  OBVIOUS
<1>1. [s[c] EXCEPT !.answered = @ + 1] \in CallSet
  <2>1. s[c] \in CallSet
    BY <1>0
  <2>2. s[c].answered + 1 \in Nat
    BY <2>1 DEF CallSet
  <2>3. ASSUME NEW e \in CallSet, NEW n \in Nat
        PROVE  [e EXCEPT !.answered = n] \in CallSet
    BY DEF CallSet
  <2> QED BY <2>1, <2>2, <2>3
<1>2. t \in [1..Len(s) -> CallSet]
  BY <1>0, <1>1
<1>3. t \in Seq(CallSet) /\ Len(t) = Len(s)
  BY <1>0, <1>2
<1>4. /\ \A i \in 1..Len(s) : i # c => t[i] = s[i]
      /\ t[c] = [s[c] EXCEPT !.answered = @ + 1]
  BY <1>0
<1>5. /\ t[c].answered = s[c].answered + 1
      /\ t[c].type = s[c].type
  <2>1. s[c] \in CallSet
    BY <1>0
  <2> QED BY <1>4, <2>1 DEF CallSet
<1> QED BY <1>3, <1>4, <1>5

\* TypeOK in two parts: the calls, and the rest.
CallsOK ==
  /\ Len(requests) <= MaxRequests
  /\ reply_context \in 0..Len(requests) /\ outstanding \in 0..Len(requests)
  /\ asked \subseteq 1..Len(requests)
FlagsOK ==
  /\ running \in BOOLEAN /\ adapter \in BOOLEAN /\ closing \in BOOLEAN
  /\ exec_type \in ExecTypes
  /\ ignored \in Device \cup {NoDevice}

LEMMA TypeParts ==
  /\ TypeOK <=> FlagsOK /\ CallsOK /\ requests \in Seq(CallSet)
  /\ TypeOK' <=> FlagsOK' /\ CallsOK' /\ requests' \in Seq(CallSet)
  BY DEF TypeOK, FlagsOK, CallsOK, CallSet

LEMMA InitInv == Init => IInv
<1> SUFFICES ASSUME Init PROVE IInv
  OBVIOUS
<1>1. requests = <<>> /\ Len(requests) = 0 /\ requests \in Seq(CallSet)
  BY DEF Init
<1>2. TypeOK
  <2>1. FlagsOK
    BY DEF Init, FlagsOK, ExecTypes
  <2>2. CallsOK
    BY <1>1, AgentAssumption DEF Init, CallsOK
  <2> QED BY <1>1, <2>1, <2>2, TypeParts
<1>3. BluezAnsweredOnce
  BY <1>1 DEF BluezAnsweredOnce
<1> QED
  BY <1>2, <1>3 DEF Init, IInv, SlotKind, SlotHoldsOpenCall, RequestIsHeld

\* The three ways a step changes the slot and the calls.
LEMMA AnswerAtOnceInv ==
  ASSUME IInv, NEW type \in BluezTypes, NEW dev \in Device,
         AnswerAtOnce(type, dev), Asks,
         running' = running, adapter' = adapter, closing' = closing,
         ignored' \in Device \cup {NoDevice}
  PROVE  IInv'
<1> DEFINE e == Call(type, dev, 1)
<1>1. /\ requests \in Seq(CallSet) /\ e \in CallSet
      /\ requests' = Append(requests, e)
  BY DEF IInv, TypeOK, AnswerAtOnce, CallSet, Call, Types
<1>2. /\ requests' \in Seq(CallSet) /\ Len(requests') = Len(requests) + 1
      /\ \A i \in 1..Len(requests) : requests'[i] = requests[i]
      /\ requests'[Len(requests) + 1] = e
  BY <1>1, AppendCall
<1>3. outstanding = 0 /\ Len(requests) < MaxRequests /\ Len(requests) \in Nat
  BY <1>1 DEF Asks
<1>4. TypeOK'
  BY <1>2, <1>3, AgentAssumption
     DEF IInv, TypeOK, AnswerAtOnce, EmptySlot, ExecTypes, CallSet
<1>5. BluezAnsweredOnce'
  BY <1>2, <1>3 DEF IInv, BluezAnsweredOnce, Call
<1> QED
  BY <1>3, <1>4, <1>5
     DEF IInv, SlotKind, SlotHoldsOpenCall, RequestIsHeld, AnswerAtOnce, EmptySlot

LEMMA AskUserInv ==
  ASSUME IInv, NEW type \in BluezTypes, NEW dev \in Device,
         AskUser(type, dev), Asks,
         running' = running, adapter' = adapter, closing' = closing,
         ignored' \in Device \cup {NoDevice}
  PROVE  IInv'
<1> DEFINE e == Call(type, dev, 0)
<1>1. /\ requests \in Seq(CallSet) /\ e \in CallSet
      /\ requests' = Append(requests, e)
  BY DEF IInv, TypeOK, AskUser, CallSet, Call, Types
<1>2. /\ requests' \in Seq(CallSet) /\ Len(requests') = Len(requests) + 1
      /\ \A i \in 1..Len(requests) : requests'[i] = requests[i]
      /\ requests'[Len(requests) + 1] = e
  BY <1>1, AppendCall
<1>3. Len(requests) < MaxRequests /\ Len(requests) \in Nat
  BY <1>1 DEF Asks
<1>4. /\ reply_context' = Len(requests) + 1 /\ outstanding' = Len(requests) + 1
      /\ exec_type' = IF type = "AUTHORIZE" THEN "AUTHORIZATION" ELSE "PAIRING"
      /\ asked' = asked \cup {Len(requests) + 1}
  BY DEF AskUser, Hold, ThisCall
<1>5. TypeOK'
  <2>1. CallsOK /\ FlagsOK /\ MaxRequests \in Nat
    BY TypeParts, AgentAssumption DEF IInv
  <2>2. CallsOK'
    <3>1. Len(requests') = Len(requests) + 1 /\ Len(requests) \in Nat
      BY <1>2, <1>3
    <3>2. Len(requests') <= MaxRequests
      BY <1>3, <2>1, <3>1
    <3>3. asked' \subseteq 1..Len(requests')
      <4>1. asked \subseteq 1..Len(requests)
        BY <2>1 DEF CallsOK
      <4>2. 1..Len(requests) \subseteq 1..Len(requests')
        BY <3>1
      <4>3. Len(requests) + 1 \in 1..Len(requests')
        BY <3>1
      <4> QED BY <1>4, <4>1, <4>2, <4>3
    <3>4. reply_context' \in 0..Len(requests') /\ outstanding' \in 0..Len(requests')
      BY <1>4, <2>1, <3>1 DEF CallsOK
    <3> QED BY <3>2, <3>3, <3>4 DEF CallsOK
  <2>3. FlagsOK'
    BY <1>4, <2>1 DEF FlagsOK, ExecTypes
  <2> QED BY <1>2, <2>2, <2>3, TypeParts
<1>6. BluezAnsweredOnce'
  BY <1>2, <1>3 DEF IInv, BluezAnsweredOnce, Call
<1>7. SlotHoldsOpenCall' /\ SlotKind'
  BY <1>2, <1>3, <1>4 DEF SlotHoldsOpenCall, SlotKind, Call, BluezTypes
<1>8. RequestIsHeld'
  BY <1>4 DEF RequestIsHeld
<1> QED BY <1>5, <1>6, <1>7, <1>8 DEF IInv

LEMMA ReplyInv ==
  ASSUME IInv, reply, asked' \subseteq asked,
         running' = running, adapter' = adapter, closing' = closing,
         ignored' = ignored
  PROVE  IInv'
<1>1. CASE HasContext
  <2>1. /\ requests \in Seq(CallSet) /\ reply_context \in 1..Len(requests)
        /\ requests' = [requests EXCEPT ![reply_context].answered = @ + 1]
    BY <1>1 DEF IInv, TypeOK, reply, HasContext, CallSet
  <2>2. /\ requests' \in Seq(CallSet) /\ Len(requests') = Len(requests)
        /\ \A i \in 1..Len(requests) : requests'[i].type = requests[i].type
        /\ \A i \in 1..Len(requests) : i # reply_context => requests'[i] = requests[i]
        /\ requests'[reply_context].answered = requests[reply_context].answered + 1
    BY <2>1, AnswerCall
  <2>3. TypeOK'
    BY <2>2 DEF IInv, TypeOK, reply, EmptySlot, ExecTypes, CallSet
  \* What is answered now is a ConfirmMode, or was not answered before.
  <2>4. BluezAnsweredOnce'
    <3>1. \/ exec_type = "CONFIRM_MODE" /\ requests[reply_context].type = "CONFIRM_MODE"
          \/ requests[reply_context].answered = 0
      BY <1>1 DEF HasContext, IInv, TypeOK, ExecTypes, SlotKind, SlotHoldsOpenCall
    <3>2. "CONFIRM_MODE" \notin BluezTypes
      BY DEF BluezTypes, PairingTypes
    <3> QED BY <2>1, <2>2, <3>1, <3>2 DEF IInv, BluezAnsweredOnce
  <2>5. RequestIsHeld'
    <3>1. SUFFICES ASSUME outstanding' # 0
                   PROVE  \E c \in outstanding + 1 .. Len(requests) :
                            requests[c].type = "CONFIRM_MODE"
      BY <2>2 DEF RequestIsHeld, reply, IInv, TypeOK
    <3>2. outstanding' = outstanding /\ reply_context # outstanding
      BY <1>1, <3>1 DEF reply
    <3> QED BY <3>1, <3>2 DEF IInv, RequestIsHeld
  <2> QED
    BY <2>3, <2>4, <2>5 DEF IInv, SlotKind, SlotHoldsOpenCall, reply, EmptySlot
<1>2. CASE ~HasContext
  <2>1. requests' = requests /\ outstanding' = outstanding
    BY <1>2 DEF reply
  <2>2. outstanding # 0 => reply_context # outstanding
    BY <1>2 DEF HasContext, IInv, SlotKind
  <2>3. TypeOK'
    BY <2>1 DEF IInv, TypeOK, reply, EmptySlot, ExecTypes
  <2>4. BluezAnsweredOnce'
    BY <2>1 DEF IInv, BluezAnsweredOnce
  <2>5. RequestIsHeld'
    BY <2>1, <2>2 DEF IInv, RequestIsHeld
  <2> QED
    BY <2>3, <2>4, <2>5 DEF IInv, SlotKind, SlotHoldsOpenCall, reply, EmptySlot
<1> QED BY <1>1, <1>2

\* A step that empties the slot and leaves the calls alone, or leaves both alone.
LEMMA QuietInv ==
  ASSUME IInv, requests' = requests, asked' \subseteq asked,
         running' \in BOOLEAN, adapter' \in BOOLEAN, closing' \in BOOLEAN,
         ignored' \in Device \cup {NoDevice},
         \/ EmptySlot /\ outstanding' = 0
         \/ /\ UNCHANGED <<exec_type, reply_context>>
            /\ outstanding' = 0 \/ outstanding' = outstanding
  PROVE  IInv'
<1>1. TypeOK'
  BY DEF IInv, TypeOK, EmptySlot, ExecTypes
<1>2. BluezAnsweredOnce'
  BY DEF IInv, BluezAnsweredOnce
<1>3. RequestIsHeld'
  BY DEF IInv, RequestIsHeld
<1>4. SlotKind' /\ SlotHoldsOpenCall'
  BY DEF IInv, SlotKind, SlotHoldsOpenCall, EmptySlot
<1> QED BY <1>1, <1>2, <1>3, <1>4 DEF IInv

LEMMA CancelInv ==
  ASSUME IInv, cancel
  PROVE  IInv'
<1>1. CASE exec_type \in {"PAIRING", "AUTHORIZATION"}
  <2>1. /\ requests \in Seq(CallSet) /\ reply_context \in 1..Len(requests)
        /\ requests[reply_context].answered = 0
    BY <1>1 DEF IInv, TypeOK, SlotHoldsOpenCall, CallSet
  <2>2. requests' = [requests EXCEPT ![reply_context].answered = @ + 1]
    BY <1>1 DEF cancel
  <2>3. /\ requests' \in Seq(CallSet) /\ Len(requests') = Len(requests)
        /\ \A i \in 1..Len(requests) : i # reply_context => requests'[i] = requests[i]
        /\ requests'[reply_context].answered = requests[reply_context].answered + 1
    BY <2>1, <2>2, AnswerCall
  <2>4. TypeOK'
    <3>1. CallsOK /\ FlagsOK
      BY TypeParts DEF IInv
    <3>2. CallsOK'
      BY <2>3, <3>1 DEF CallsOK, cancel, EmptySlot
    <3>3. FlagsOK'
      BY <1>1, <3>1 DEF FlagsOK, cancel, EmptySlot, ExecTypes
    <3> QED BY <2>3, <3>2, <3>3, TypeParts
  <2>5. BluezAnsweredOnce'
    BY <2>1, <2>3 DEF IInv, BluezAnsweredOnce
  <2> QED
    BY <2>4, <2>5 DEF IInv, SlotKind, SlotHoldsOpenCall, RequestIsHeld, cancel, EmptySlot
<1>2. CASE exec_type \notin {"PAIRING", "AUTHORIZATION"}
  <2>1. requests' = requests /\ UNCHANGED <<running, adapter, ignored, asked, closing>>
    BY <1>2 DEF cancel
  <2>2. UNCHANGED <<running, adapter, ignored, asked, closing>>
    BY <2>1
  <2>3. EmptySlot /\ outstanding' = 0
    BY DEF cancel
  <2> QED BY <2>1, <2>2, <2>3, QuietInv DEF IInv, TypeOK
<1> QED BY <1>1, <1>2

LEMMA ConfirmModeInv ==
  ASSUME IInv, confirm_mode
  PROVE  IInv'
<1> DEFINE e == Call("CONFIRM_MODE", NoDevice, 1)
<1>1. /\ requests \in Seq(CallSet) /\ e \in CallSet
      /\ requests' = Append(requests, e)
  BY DEF IInv, TypeOK, confirm_mode, CallSet, Call, Types
<1>2. /\ requests' \in Seq(CallSet) /\ Len(requests') = Len(requests) + 1
      /\ \A i \in 1..Len(requests) : requests'[i] = requests[i]
      /\ requests'[Len(requests) + 1] = e
  BY <1>1, AppendCall
<1>3. Len(requests) < MaxRequests /\ Len(requests) \in Nat
  BY <1>1 DEF confirm_mode
<1>4. /\ reply_context' = Len(requests) + 1 /\ outstanding' = outstanding
      /\ exec_type' = "CONFIRM_MODE" /\ asked' = asked
  BY DEF confirm_mode, Hold, ThisCall
<1>5. TypeOK'
  <2>1. CallsOK /\ FlagsOK /\ MaxRequests \in Nat
    BY TypeParts, AgentAssumption DEF IInv
  <2>2. CallsOK'
    <3>1. Len(requests') = Len(requests) + 1 /\ Len(requests) \in Nat
      BY <1>2, <1>3
    <3>2. Len(requests') <= MaxRequests
      BY <1>3, <2>1, <3>1
    <3>3. asked' \subseteq 1..Len(requests')
      BY <1>4, <2>1, <3>1 DEF CallsOK
    <3>4. reply_context' \in 0..Len(requests') /\ outstanding' \in 0..Len(requests')
      BY <1>4, <2>1, <3>1 DEF CallsOK
    <3> QED BY <3>2, <3>3, <3>4 DEF CallsOK
  <2>3. FlagsOK'
    BY <1>4, <2>1 DEF FlagsOK, ExecTypes, confirm_mode
  <2> QED BY <1>2, <2>2, <2>3, TypeParts
<1>6. BluezAnsweredOnce'
  BY <1>2, <1>3 DEF IInv, BluezAnsweredOnce, Call
<1>7. SlotHoldsOpenCall' /\ SlotKind'
  BY <1>2, <1>3, <1>4 DEF SlotHoldsOpenCall, SlotKind, Call
<1>8. RequestIsHeld'
  <2>1. outstanding \in 0..Len(requests)
    BY DEF IInv, TypeOK
  <2>2. requests'[Len(requests) + 1].type = "CONFIRM_MODE"
    BY <1>2 DEF Call
  <2>3. Len(requests) + 1 \in outstanding' + 1 .. Len(requests')
    BY <1>2, <1>3, <1>4, <2>1
  <2> QED BY <2>2, <2>3 DEF RequestIsHeld
<1> QED BY <1>5, <1>6, <1>7, <1>8 DEF IInv

LEMMA StepInv == IInv /\ [Next]_vars => IInv'
<1> SUFFICES ASSUME IInv, [Next]_vars PROVE IInv'
  OBVIOUS
<1> USE DEF BluezTypes, PairingTypes
<1>1. CASE LifeCycle
  <2>1. /\ requests' = requests /\ asked' = asked
        /\ running' \in BOOLEAN /\ adapter' \in BOOLEAN /\ closing' = closing
        /\ ignored' \in Device \cup {NoDevice}
        /\ \/ EmptySlot /\ outstanding' = 0
           \/ /\ UNCHANGED <<exec_type, reply_context>>
              /\ outstanding' = 0 \/ outstanding' = outstanding
    BY <1>1 DEF LifeCycle, agent_start, register_on_adapter, unregister, agent_end,
       IInv, TypeOK
  <2> QED BY <2>1, QuietInv DEF IInv, TypeOK
<1>2. ASSUME NEW dev \in Device, BluezRequest(dev)
      PROVE  IInv'
  <2>1. ASSUME NEW properties \in BOOLEAN, request_pin_code(dev, properties)
        PROVE  IInv'
    <3>1. /\ Asks /\ UNCHANGED <<running, adapter, closing>>
          /\ ignored' \in Device \cup {NoDevice}
          /\ AnswerAtOnce("PIN", dev) \/ AskUser("PIN", dev)
      BY <2>1 DEF request_pin_code, IInv, TypeOK
    <3> QED BY <3>1, AnswerAtOnceInv, AskUserInv
  <2>2. ASSUME NEW properties \in BOOLEAN, NEW type \in {"PASSKEY", "CONFIRM"},
               request_passkey_or_confirmation(type, dev, properties)
        PROVE  IInv'
    <3>1. /\ Asks /\ UNCHANGED <<running, adapter, closing, ignored>>
          /\ ignored' \in Device \cup {NoDevice}
          /\ AnswerAtOnce(type, dev) \/ AskUser(type, dev)
      BY <2>2 DEF request_passkey_or_confirmation, IInv, TypeOK
    <3> QED BY <3>1, AnswerAtOnceInv, AskUserInv
  <2>3. ASSUME NEW properties \in BOOLEAN, NEW audio \in BOOLEAN, NEW paired \in BOOLEAN,
               NEW served \in BOOLEAN, NEW trusted \in BOOLEAN,
               authorize(dev, audio, properties, paired, served, trusted)
        PROVE  IInv'
    <3>1. /\ Asks /\ UNCHANGED <<running, adapter, closing, ignored>>
          /\ ignored' \in Device \cup {NoDevice}
          /\ AnswerAtOnce("AUTHORIZE", dev) \/ AskUser("AUTHORIZE", dev)
      BY <2>3 DEF authorize, IInv, TypeOK
    <3> QED BY <3>1, AnswerAtOnceInv, AskUserInv
  <2> QED BY <1>2, <2>1, <2>2, <2>3 DEF BluezRequest
<1>3. ASSUME NEW dev \in Device, ignore_auto_pairing(dev)
      PROVE  IInv'
  BY <1>3, QuietInv DEF ignore_auto_pairing, IInv, TypeOK
<1>4. CASE cancel
  BY <1>4, CancelInv
<1>5. CASE release
  BY <1>5, QuietInv DEF release, IInv, TypeOK
<1>6. CASE confirm_mode
  BY <1>6, ConfirmModeInv
<1>7. ASSUME NEW c \in asked, Decide(c)
      PROVE  IInv'
  BY <1>7, ReplyInv DEF Decide
<1>8. CASE PopupsClose
  BY <1>8, QuietInv DEF PopupsClose, IInv, TypeOK
<1>9. CASE UNCHANGED vars
  BY <1>9, QuietInv DEF vars, IInv, TypeOK
<1> QED BY <1>1, <1>2, <1>3, <1>4, <1>5, <1>6, <1>7, <1>8, <1>9 DEF Next

LEMMA Invariance == Spec => []IInv
<1>1. Init => IInv
  BY InitInv
<1>2. IInv /\ [Next]_vars => IInv'
  BY StepInv
<1> QED BY <1>1, <1>2, PTL DEF Spec

-----------------------------------------------------------------------------

\* Every variable keeps its type.
THEOREM TypeCorrect == Spec => []TypeOK
  BY Invariance, PTL DEF IInv

\* The slot never holds a call of BlueZ that has been answered.
THEOREM SlotIsOpen == Spec => []SlotHoldsOpenCall
  BY Invariance, PTL DEF IInv

\* No call of BlueZ is answered twice.
THEOREM AnsweredAtMostOnce == Spec => []BluezAnsweredOnce
  BY Invariance, PTL DEF IInv

\* The call BlueZ waits for is in the slot unless a ConfirmMode came after it.
THEOREM RequestHeld == Spec => []RequestIsHeld
  BY Invariance, PTL DEF IInv
=============================================================================
