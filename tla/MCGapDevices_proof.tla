------------------------- MODULE MCGapDevices_proof -------------------------
(***************************************************************************)
(* Proofs about bonding, discovery and the discoverable mode, for any      *)
(* devices, processes and bounds.                                          *)
(*                                                                         *)
(* Bonding: the timer of a request is always that of a request that is     *)
(* there, TimerHasRequest.  An answer that comes late must not start a     *)
(* timer nobody waits for.  The invariant says what is left of a request   *)
(* once the application has its answer: no timer, and if a call, then      *)
(* neither flag nor address, without which the reply is not taken for one  *)
(* to try again.                                                           *)
(*                                                                         *)
(* Discovery: RunningDiscoveryIsKnown and FinishedIsTrue.  A discovery the *)
(* library takes for over is either over or announced by a signal that is  *)
(* still in the queue.                                                     *)
(*                                                                         *)
(* Visibility: ReportIsTrue and TimeLeftRuns.  The last signal of each     *)
(* property tells its value; a process that saw the adapter hide has a     *)
(* reset on its way, and until BlueZ reads it, it asks BlueZ nothing.      *)
(*                                                                         *)
(* Types, SumTypeOK: the calls made and the replies that will be retried   *)
(* stay within the bound on calls; from the proxies there are, the queued  *)
(* signals never lead to more than the bound.                              *)
(***************************************************************************)
EXTENDS MCGapDevices, Queues, FiniteSetTheorems, TLAPS

Addresses ==
  /\ bt_bonding_req_addrstr \in Device \cup {NoDevice}
  /\ devices \subseteq Device
  /\ \A c \in pending : c.dev \in Device

RequestHasAddress == is_bonding_req => bt_bonding_req_addrstr # NoDevice

\* To close the session or to lose the adapter is to lose the calls.
CallsInSession == ~application_pid \/ ~adapter_proxy => calls = {}

\* What is left once the application is answered.
AnsweredIsOver ==
  ~Overlap /\ ~waiting =>
    /\ timers = {}
    /\ calls = {} \/ (~is_bonding_req /\ bt_bonding_req_addrstr = NoDevice)

IInv ==
  /\ Addresses /\ RequestHasAddress /\ CallsInSession /\ AnsweredIsOver
  /\ TimerHasRequest

LEMMA InitInv == Init => IInv
BY DEF Init, IInv, Addresses, RequestHasAddress, CallsInSession, AnsweredIsOver,
   TimerHasRequest

(***************************************************************************)
(* Steps that leave the request alone.                                     *)
(***************************************************************************)

LibAlone == UNCHANGED <<application_pid, adapter_proxy, reqVars, calls, waiting>>

LEMMA LibAloneKeeps == ASSUME IInv, LibAlone, Addresses' PROVE IInv'
BY DEF IInv, LibAlone, reqVars, RequestHasAddress, CallsInSession, AnsweredIsOver,
   TimerHasRequest

\* The session or the adapter goes, with the calls.
LEMMA CallsDropped ==
  ASSUME IInv, UNCHANGED <<reqVars, waiting>>, calls' = {}, Addresses'
  PROVE  IInv'
BY DEF IInv, reqVars, RequestHasAddress, CallsInSession, AnsweredIsOver, TimerHasRequest

LEMMA BluezKeeps == ASSUME IInv, Bluez PROVE IInv'
<1>1. LibAlone /\ UNCHANGED bt_bonding_req_addrstr
  BY DEF Bluez, BluezAnswers, PairDevice, Fails, CreateDevice, RemotePairs, AdapterGoes,
     AdapterAppears, BluezStep, LibAlone, reqVars, ghostVars
<1>2. pending' \subseteq pending
  BY DEF Bluez, BluezAnswers, PairDevice, Fails, CreateDevice, RemotePairs, AdapterGoes,
     AdapterAppears
<1>3. devices' \subseteq Device
  <2>1. devices \subseteq Device /\ \A c \in pending : c.dev \in Device
    BY DEF IInv, Addresses
  <2>2. ASSUME NEW c \in pending, NEW error, NEW keep, Fails(c, error, keep)
        PROVE  devices' \subseteq devices
    <3>1. devices' = devices \/ devices' = devices \ ({c.dev} \ paired)
      BY <2>2, Zenon DEF Fails
    <3> QED  BY <3>1
  <2>3. ASSUME NEW c \in pending, PairDevice(c) PROVE devices' = devices
    BY <2>3 DEF PairDevice
  <2>4. ASSUME NEW c \in pending, CreateDevice(c) PROVE devices' = devices \cup {c.dev}
    BY <2>4 DEF CreateDevice
  <2>5. ASSUME NEW dev \in Device, RemotePairs(dev) PROVE devices' = devices \cup {dev}
    BY <2>5 DEF RemotePairs
  <2>6. AdapterGoes => devices' = {}
    BY DEF AdapterGoes
  <2>7. AdapterAppears => devices' = devices
    BY DEF AdapterAppears
  <2> QED
    BY <2>1, <2>2, <2>3, <2>4, <2>5, <2>6, <2>7 DEF Bluez, BluezAnswers
<1> QED  BY <1>1, <1>2, <1>3, LibAloneKeeps DEF IInv, Addresses

(***************************************************************************)
(* The application's calls.                                                *)
(***************************************************************************)

LEMMA SessionKeeps ==
  ASSUME IInv, bluetooth_register_callback \/ bluetooth_unregister_callback
  PROVE  IInv'
<1>1. Addresses'
  BY DEF IInv, Addresses, bluetooth_register_callback, bluetooth_unregister_callback,
     reqVars, bluezVars
<1>2. CASE bluetooth_register_callback
  <2>1. calls' = {} /\ UNCHANGED <<reqVars, waiting>>
    BY <1>2 DEF IInv, CallsInSession, bluetooth_register_callback, ghostVars
  <2> QED  BY <1>1, <2>1, CallsDropped
<1>3. CASE bluetooth_unregister_callback
  BY <1>1, <1>3 DEF bluetooth_unregister_callback, IInv, RequestHasAddress, CallsInSession,
     AnsweredIsOver, TimerHasRequest
<1> QED  BY <1>2, <1>3

LEMMA BondKeeps == ASSUME IInv, NEW dev \in Device, bluetooth_bond_device(dev) PROVE IInv'
<1>1. dev # NoDevice
  BY BondingAssumption
<1>2. CASE adapter_proxy
  <2>1. /\ bt_bonding_req_addrstr' = dev /\ is_bonding_req' = TRUE /\ waiting' = TRUE
        /\ bt_bonding_req_timer' = ncalls + 1 /\ timers' = timers \cup {ncalls + 1}
        /\ pending' = (pending \ {}) \cup {[id |-> ncalls + 1, dev |-> dev]}
        /\ application_pid /\ UNCHANGED <<application_pid, adapter_proxy, devices>>
        /\ waiting => Overlap
    BY <1>2 DEF bluetooth_bond_device, bonding_req
  <2>2. Addresses'
    BY <2>1 DEF IInv, Addresses
  <2>3. TimerHasRequest'
    BY <1>1, <2>1 DEF IInv, AnsweredIsOver, TimerHasRequest
  <2> QED
    BY <1>1, <1>2, <2>1, <2>2, <2>3
    DEF IInv, RequestHasAddress, CallsInSession, AnsweredIsOver
<1>3. CASE ~adapter_proxy
  <2>1. /\ bt_bonding_req_addrstr' = dev /\ calls = {}
        /\ UNCHANGED <<is_bonding_req, bt_bonding_req_timer, timers, calls, pending, waiting>>
        /\ UNCHANGED <<application_pid, adapter_proxy, devices>>
    BY <1>3 DEF bluetooth_bond_device, ghostVars, IInv, CallsInSession
  <2> QED
    BY <1>1, <2>1 DEF IInv, Addresses, RequestHasAddress, CallsInSession, AnsweredIsOver,
       TimerHasRequest
<1> QED  BY <1>2, <1>3

LEMMA CancelKeeps == ASSUME IInv, bluetooth_cancel_bonding PROVE IInv'
BY DEF bluetooth_cancel_bonding, IInv, Addresses, RequestHasAddress, CallsInSession,
   AnsweredIsOver, TimerHasRequest

LEMMA UnbondKeeps ==
  ASSUME IInv, NEW dev \in Device, bluetooth_unbond_device(dev) PROVE IInv'
<1>1. LibAlone /\ Addresses'
  BY DEF bluetooth_unbond_device, LibAlone, IInv, Addresses, reqVars, ghostVars
<1> QED  BY <1>1, LibAloneKeeps

(***************************************************************************)
(* The end of a request.                                                   *)
(***************************************************************************)

LEMMA FinishedKeeps ==
  ASSUME IInv, NEW cs \in SUBSET calls, NEW ts \in SUBSET (timers \ {bt_bonding_req_timer}),
         NEW cancelled, NEW dev, NEW result, request_finished(cs, ts, cancelled, dev, result),
         UNCHANGED <<application_pid, adapter_proxy, devices>>
  PROVE  IInv'
<1>1. Addresses'
  BY DEF request_finished, IInv, Addresses
<1>2. ~Overlap => timers' = {}
  BY DEF request_finished, IInv, TimerHasRequest
<1> QED
  BY <1>1, <1>2 DEF request_finished, IInv, RequestHasAddress, CallsInSession,
     AnsweredIsOver, TimerHasRequest

\* Only a request that has a call and an address is tried again, and its application waits.
LEMMA RetryKeeps ==
  ASSUME IInv, NEW cs \in SUBSET calls, NEW ts \in SUBSET (timers \ {bt_bonding_req_timer}),
         NEW cancelled, NEW again, headset_retry(cs, ts, cancelled, again),
         UNCHANGED <<application_pid, adapter_proxy, devices>>,
         calls # {}, bt_bonding_req_addrstr # NoDevice
  PROVE  IInv'
<1>1. application_pid /\ adapter_proxy /\ (~Overlap => waiting /\ ts = {}) /\ UNCHANGED waiting
  BY DEF IInv, CallsInSession, AnsweredIsOver, TimerHasRequest, headset_retry, ghostVars
<1>2. CASE again
  <2>1. /\ UNCHANGED bt_bonding_req_addrstr /\ is_bonding_req' = TRUE
        /\ bt_bonding_req_timer' = ncalls + 1 /\ timers' = ts \cup {ncalls + 1}
        /\ pending' = (pending \ cancelled) \cup {[id |-> ncalls + 1, dev |-> bt_bonding_req_addrstr]}
    BY <1>1, <1>2 DEF headset_retry, bonding_req
  <2>2. Addresses'
    BY <2>1 DEF IInv, Addresses
  <2> QED
    BY <1>1, <2>1, <2>2 DEF IInv, RequestHasAddress, CallsInSession, AnsweredIsOver,
       TimerHasRequest
<1>3. CASE ~again
  <2>1. /\ bt_bonding_req_addrstr' = NoDevice /\ is_bonding_req' = FALSE
        /\ bt_bonding_req_timer' = 0 /\ timers' = ts /\ pending' = pending \ cancelled
    BY <1>3 DEF headset_retry
  <2>2. Addresses'
    BY <2>1 DEF IInv, Addresses
  <2> QED
    BY <1>1, <2>1, <2>2 DEF IInv, RequestHasAddress, CallsInSession, AnsweredIsOver,
       TimerHasRequest
<1> QED  BY <1>2, <1>3

LEMMA ReplyKeeps ==
  ASSUME IInv, NEW cs \in SUBSET calls, NEW ts \in SUBSET timers, NEW rest, NEW dev,
         NEW result, NEW isHeadset, reply_cb(cs, ts, rest, dev, result, isHeadset),
         UNCHANGED <<application_pid, adapter_proxy, devices>>,
         result = "AUTHENTICATION_FAILED" /\ isHeadset
           => calls # {} /\ bt_bonding_req_addrstr # NoDevice
  PROVE  IInv'
<1> DEFINE left == ts \ {bt_bonding_req_timer}
<1>1. left \in SUBSET (timers \ {bt_bonding_req_timer})
  OBVIOUS
<1>2. PICK cancelled :
        \/ /\ result = "AUTHENTICATION_FAILED" /\ isHeadset
           /\ \E again \in {FALSE, hci0} : headset_retry(cs, left, cancelled, again)
        \/ request_finished(cs, left, cancelled, dev, result)
  BY DEF reply_cb
<1> HIDE DEF left
<1> QED  BY <1>1, <1>2, RetryKeeps, FinishedKeeps

LEMMA TimeoutKeeps == ASSUME IInv, Timeout PROVE IInv'
<1>1. PICK t \in timers : bonding_req_timeout_cb(t)
  BY DEF Timeout
<1>2. /\ reply_cb(calls, timers \ {t}, inbox, bt_bonding_req_addrstr, "TIMEOUT", FALSE)
      /\ UNCHANGED <<application_pid, adapter_proxy, devices>>
  BY <1>1 DEF bonding_req_timeout_cb
<1> QED  BY <1>2, ReplyKeeps

(***************************************************************************)
(* The messages.                                                           *)
(***************************************************************************)

LEMMA AgainKeeps ==
  ASSUME IInv, NEW cs \in SUBSET calls, calls # {}, NEW rest, FindDevice,
         remove_and_retry(cs, rest), UNCHANGED <<application_pid, adapter_proxy>>
  PROVE  IInv'
<1>1. /\ UNCHANGED <<reqVars, waiting>> /\ devices' \subseteq devices
      /\ \A c \in pending' : c \in pending \/ c.dev = bt_bonding_req_addrstr
      /\ bt_bonding_req_addrstr \in devices
  BY DEF remove_and_retry, ghostVars, FindDevice
<1>2. application_pid /\ adapter_proxy /\ bt_bonding_req_addrstr # NoDevice
  BY <1>1, BondingAssumption DEF IInv, CallsInSession, Addresses
<1>3. Addresses'
  BY <1>1 DEF IInv, Addresses, reqVars
<1> QED
  BY <1>1, <1>2, <1>3 DEF IInv, reqVars, RequestHasAddress, CallsInSession, AnsweredIsOver,
     TimerHasRequest

LEMMA BondingReplyKeeps ==
  ASSUME IInv, NEW m, m.call \in calls, NEW rest, bonding_req_finish_cb(m, rest),
         UNCHANGED <<application_pid, adapter_proxy>>
  PROVE  IInv'
<1> DEFINE cs == calls \ {m.call}
           isHeadset == \/ m.outcome = "AUTH_FAILED" /\ FindDevice
                             /\ bt_bonding_req_addrstr \in device_proxy_list \cap Headsets
                        \/ m.outcome = "PAGE_TIMEOUT"
<1>1. calls # {} /\ cs \in SUBSET calls
  OBVIOUS
<1>2. CASE FindDevice /\ remove_and_retry(cs, rest)
  BY <1>1, <1>2, AgainKeeps
<1>3. CASE \E dev : reply_cb(cs, timers, rest, dev, "NONE", FALSE) /\ UNCHANGED devices
  BY <1>1, <1>3, ReplyKeeps
<1>4. CASE /\ reply_cb(cs, timers, rest, bt_bonding_req_addrstr, ResultOf(m.outcome), isHeadset)
           /\ UNCHANGED devices
  <2>1. ResultOf(m.outcome) = "AUTHENTICATION_FAILED" /\ isHeadset => bt_bonding_req_addrstr # NoDevice
    <3>1. FindDevice => bt_bonding_req_addrstr # NoDevice
      BY BondingAssumption DEF FindDevice, IInv, Addresses
    <3>2. m.outcome = "PAGE_TIMEOUT" /\ ResultOf(m.outcome) = "AUTHENTICATION_FAILED"
            => is_bonding_req
      BY DEF ResultOf
    <3> QED  BY <3>1, <3>2 DEF IInv, RequestHasAddress
  <2> HIDE DEF isHeadset
  <2> QED  BY <1>1, <1>4, <2>1, ReplyKeeps
<1> QED  BY <1>2, <1>3, <1>4 DEF bonding_req_finish_cb

LEMMA PairedKeeps ==
  ASSUME IInv, NEW dev, NEW rest, device_paired(dev, rest),
         UNCHANGED <<application_pid, adapter_proxy, devices>>
  PROVE  IInv'
<1>1. CASE UNCHANGED <<reqVars, calls, ghostVars, pending>>
  <2>1. LibAlone /\ Addresses'
    BY <1>1 DEF LibAlone, IInv, Addresses, reqVars, ghostVars
  <2> QED  BY <2>1, LibAloneKeeps
<1>2. CASE reply_cb(calls, timers, rest, dev, "NONE", FALSE)
  BY <1>2, ReplyKeeps
<1> QED  BY <1>1, <1>2 DEF device_paired, bonding_created_cb

\* A device that appears may be a headset: only the flag for that changes.
LEMMA SignalKeeps ==
  ASSUME IInv, NEW dev, UNCHANGED <<application_pid, adapter_proxy, devices>>,
         device_created(dev) \/ device_removed(dev) \/ unbond_request_complete_cb(dev)
  PROVE  IInv'
BY DEF device_created, device_removed, unbond_request_complete_cb, reqVars, ghostVars, IInv,
   Addresses, RequestHasAddress, CallsInSession, AnsweredIsOver, TimerHasRequest

LEMMA AdapterKeeps ==
  ASSUME IInv, adapter_removed_cb \/ adapter_added_cb, UNCHANGED application_pid
  PROVE  IInv'
<1>1. Addresses'
  BY DEF adapter_removed_cb, adapter_added_cb, reqVars, IInv, Addresses
<1>2. CASE adapter_removed_cb
  BY <1>1, <1>2, CallsDropped DEF adapter_removed_cb, ghostVars
<1>3. CASE adapter_added_cb
  BY <1>1, <1>3 DEF adapter_added_cb, reqVars, ghostVars, IInv, RequestHasAddress,
     CallsInSession, AnsweredIsOver, TimerHasRequest
<1> QED  BY <1>2, <1>3

LEMMA DispatchKeeps == ASSUME IInv, Dispatch PROVE IInv'
<1>1. PICK m : m = Head(inbox)
  OBVIOUS
<1>2. PICK rest : rest = Tail(inbox)
  OBVIOUS
<1>3. CASE /\ m.call \in calls /\ bonding_req_finish_cb(m, rest)
           /\ UNCHANGED <<application_pid, adapter_proxy>>
  BY <1>3, BondingReplyKeeps
<1>4. CASE /\ device_paired(m.dev, rest)
           /\ UNCHANGED <<application_pid, adapter_proxy, devices>>
  BY <1>4, PairedKeeps
<1>5. CASE /\ device_created(m.dev) \/ device_removed(m.dev) \/ unbond_request_complete_cb(m.dev)
           /\ UNCHANGED <<application_pid, adapter_proxy, devices>>
  BY <1>5, SignalKeeps
<1>6. CASE (adapter_removed_cb \/ adapter_added_cb) /\ UNCHANGED application_pid
  BY <1>6, AdapterKeeps
<1>7. CASE UNCHANGED <<application_pid, adapter_proxy, reqVars, calls, ghostVars, devices, pending>>
  <2>1. LibAlone /\ Addresses'
    BY <1>7 DEF LibAlone, IInv, Addresses, reqVars, ghostVars
  <2> QED  BY <2>1, LibAloneKeeps
<1> QED  BY <1>1, <1>2, <1>3, <1>4, <1>5, <1>6, <1>7 DEF Dispatch

LEMMA NextInv == IInv /\ [Next]_vars => IInv'
<1> SUFFICES ASSUME IInv, [Next]_vars PROVE IInv'
  OBVIOUS
<1>1. CASE ApplicationCall
  BY <1>1, SessionKeeps, BondKeeps, UnbondKeeps, CancelKeeps DEF ApplicationCall
<1>2. CASE UNCHANGED vars
  <2>1. LibAlone /\ Addresses'
    BY <1>2 DEF vars, ghostVars, bluezVars, reqVars, LibAlone, IInv, Addresses
  <2> QED  BY <2>1, LibAloneKeeps
<1> QED  BY <1>1, <1>2, DispatchKeeps, TimeoutKeeps, BluezKeeps DEF Next

\* The timer of a bonding request and the flag of the request belong together, and with
\* an application that waits for its answer there is never a second timer.
THEOREM TimerAlwaysHasRequest == Spec => []TimerHasRequest
<1>1. IInv => TimerHasRequest
  BY DEF IInv
<1> QED  BY <1>1, InitInv, NextInv, PTL DEF Spec

(***************************************************************************)
(* Bonding: the types.  The calls made and the replies that will make the  *)
(* library call again are within the bound together.                       *)
(***************************************************************************)

Outcomes == Errors \cup {"NONE"}
DeviceSignals == {"DeviceCreated", "DeviceRemoved", "Paired", "UnbondFailed"}
AdapterSignals == {"AdapterRemoved", "AdapterAdded"}

TriedAgain == [type : {"Reply"}, call : Nat, dev : Device, outcome : Retried]
Quiet ==
  [type : {"Reply"}, call : Nat, dev : Device, outcome : Outcomes \ Retried]
    \cup [type : DeviceSignals, dev : Device] \cup [type : AdapterSignals, dev : {NoDevice}]
Message == TriedAgain \cup Quiet

Count(queue) == CountTo(queue, TriedAgain, Len(queue))

\* After n calls there is room for those that the queue asks for.
Fits(n, queue) == n \in Nat /\ queue \in Seq(Message) /\ n + Count(queue) <= MaxCalls

LEMMA QuietIsNotTried == \A m \in Quiet : m \notin TriedAgain
BY DEF Quiet, TriedAgain, DeviceSignals, AdapterSignals

LEMMA TriedIs ==
  ASSUME NEW m \in Message
  PROVE  m \in TriedAgain <=> m.type = "Reply" /\ m.outcome \in Retried
<1>1. m \in TriedAgain => m.type = "Reply" /\ m.outcome \in Retried
  BY DEF TriedAgain
<1>2. m \in Quiet => ~(m.type = "Reply" /\ m.outcome \in Retried)
  BY DEF Quiet, DeviceSignals, AdapterSignals
<1> QED  BY <1>1, <1>2 DEF Message

LEMMA FitsTyped ==
  ASSUME NEW n, NEW q, Fits(n, q)
  PROVE  n \in 0..MaxCalls /\ Len(q) \in Nat /\ Count(q) \in Nat /\ q \in Seq(Message)
<1>1. n \in Nat /\ q \in Seq(Message) /\ n + Count(q) <= MaxCalls
  BY DEF Fits
<1>2. Len(q) \in Nat
  BY <1>1
<1>3. Count(q) \in Nat
  BY <1>2, CountIsNat DEF Count
<1> QED  BY <1>1, <1>2, <1>3, BondingAssumption

\* Messages that ask for no call.
LEMMA QuietCount ==
  ASSUME NEW n, NEW q, Fits(n, q), NEW r \in Seq(Quiet)
  PROVE  q \o r \in Seq(Message) /\ Count(q \o r) = Count(q)
<1>1. q \in Seq(Message) /\ Len(q) \in Nat /\ n \in Nat /\ n + Count(q) <= MaxCalls
  BY FitsTyped DEF Fits
<1>2. r \in Seq(Message)
  BY DEF Message
<1>3. PICK c : c = q \o r
  OBVIOUS
<1>4. /\ c \in Seq(Message) /\ Len(c) = Len(q) + Len(r) /\ Len(r) \in Nat
      /\ \A i \in 1..Len(q) : c[i] = q[i]
      /\ \A k \in 1..Len(c) :
           k \in 1..Len(q) \/ (k > Len(q) /\ k - Len(q) \in 1..Len(r) /\ c[k] = r[k - Len(q)])
  BY <1>1, <1>2, <1>3, JoinedItems
<1>5. \A i \in Len(q)+1..Len(c) : c[i] \notin TriedAgain
  <2> SUFFICES ASSUME NEW i \in Len(q)+1..Len(c) PROVE c[i] \notin TriedAgain
    OBVIOUS
  <2>1. i \in 1..Len(c) /\ i \notin 1..Len(q)
    BY <1>1, <1>4
  <2>2. i - Len(q) \in 1..Len(r) /\ c[i] = r[i - Len(q)]
    BY <1>4, <2>1
  <2>3. r[i - Len(q)] \in Quiet
    BY <2>2
  <2> QED  BY <2>2, <2>3, QuietIsNotTried
<1>6. Len(q) <= Len(c) /\ Len(c) \in Nat
  BY <1>1, <1>4
<1>7. CountTo(c, TriedAgain, Len(c)) = CountTo(c, TriedAgain, Len(q))
  BY <1>1, <1>5, <1>6, CountSkips
<1>8. CountTo(c, TriedAgain, Len(q)) = CountTo(q, TriedAgain, Len(q))
  <2>1. Alike(c, q, Len(q))
    BY <1>4 DEF Alike
  <2> QED  BY <2>1, CountSame
<1>9. Count(c) = Count(q)
  BY <1>7, <1>8 DEF Count
<1> QED  BY <1>3, <1>4, <1>9

LEMMA FitsJoined ==
  ASSUME NEW n, NEW q, Fits(n, q), NEW r \in Seq(Quiet)
  PROVE  Fits(n, q \o r)
BY QuietCount DEF Fits

\* A reply that asks for a call, if there is room for it.
LEMMA FitsReply ==
  ASSUME NEW n, NEW q, Fits(n, q), n + Count(q) < MaxCalls, NEW m \in Message
  PROVE  Fits(n, q \o <<m>>)
<1>1. q \in Seq(Message) /\ Len(q) \in Nat /\ n \in Nat /\ Count(q) \in Nat
  BY FitsTyped DEF Fits
<1>2. PICK r : r = <<m>>
  OBVIOUS
<1>3. r \in Seq(Message) /\ Len(r) = 1
  BY <1>2
<1>4. PICK c : c = q \o r
  OBVIOUS
<1>5. /\ c \in Seq(Message) /\ Len(c) = Len(q) + 1
      /\ \A i \in 1..Len(q) : c[i] = q[i]
  <2>1. r \in Seq(Message)
    BY <1>3
  <2>2. /\ c \in Seq(Message) /\ Len(c) = Len(q) + Len(r)
        /\ \A i \in 1..Len(q) : c[i] = q[i]
    BY <1>1, <1>4, <2>1, JoinedItems
  <2> QED  BY <1>3, <2>2
<1>6. PICK k : k = Len(q)
  OBVIOUS
<1>7. CountTo(c, TriedAgain, k) = CountTo(q, TriedAgain, k)
  <2>1. Alike(c, q, k)
    BY <1>5, <1>6 DEF Alike
  <2> QED  BY <2>1, CountSame
<1>8. \/ CountTo(c, TriedAgain, k + 1) = CountTo(c, TriedAgain, k) + 1
      \/ CountTo(c, TriedAgain, k + 1) = CountTo(c, TriedAgain, k)
  BY <1>1, <1>6, CountNext
<1>9. Count(c) = Count(q) + 1 \/ Count(c) = Count(q)
  BY <1>5, <1>6, <1>7, <1>8 DEF Count
<1>10. n + Count(c) <= MaxCalls
  BY <1>1, <1>9, BondingAssumption
<1> QED  BY <1>1, <1>2, <1>4, <1>5, <1>10 DEF Fits

\* The head is handled; a reply that is tried again leaves room for a call.
LEMMA FitsRest ==
  ASSUME NEW n, NEW q, Fits(n, q), q # <<>>
  PROVE  Fits(n, Tail(q)) /\ (Head(q) \in TriedAgain => Fits(n + 1, Tail(q)))
<1>1. q \in Seq(Message) /\ Len(q) \in Nat /\ n \in Nat /\ Count(q) \in Nat
        /\ n + Count(q) <= MaxCalls
  BY FitsTyped DEF Fits
<1>2. PICK t : t = Tail(q)
  OBVIOUS
<1>3. PICK k : k = Len(q) - 1
  OBVIOUS
<1>4. t \in Seq(Message) /\ Len(t) = k /\ k \in Nat /\ k + 1 = Len(q) /\ k < Len(q)
  BY <1>1, <1>2, <1>3
<1>5. CountTo(q, TriedAgain, k + 1) =
        IF Head(q) \in TriedAgain THEN CountTo(Tail(q), TriedAgain, k) + 1
                                  ELSE CountTo(Tail(q), TriedAgain, k)
  BY <1>1, <1>4, CountRest
<1>6. Count(q) = IF Head(q) \in TriedAgain THEN Count(t) + 1 ELSE Count(t)
  BY <1>2, <1>4, <1>5 DEF Count
<1>7. Count(t) \in Nat
  BY <1>4, CountIsNat DEF Count
<1>8. Fits(n, t)
  BY <1>1, <1>4, <1>6, <1>7, BondingAssumption DEF Fits
<1>9. Head(q) \in TriedAgain => Fits(n + 1, t)
  BY <1>1, <1>4, <1>6, <1>7, BondingAssumption DEF Fits
<1> QED  BY <1>2, <1>8, <1>9

LEMMA FitsEmpty == ASSUME NEW n \in 0..MaxCalls PROVE Fits(n, <<>>)
<1>1. PICK q : q = <<>>
  OBVIOUS
<1>2. q \in Seq(Message) /\ Len(q) = 0
  BY <1>1
<1>3. Count(q) = 0
  BY <1>2, CountNothing DEF Count
<1> QED  BY <1>1, <1>2, <1>3, BondingAssumption DEF Fits

LEMMA FitsRoom ==
  ASSUME Fits(ncalls, inbox), Room
  PROVE  ncalls + Count(inbox) < MaxCalls /\ Fits(ncalls + 1, inbox)
<1>1. PICK q : q = inbox
  OBVIOUS
<1>2. q \in Seq(Message) /\ ncalls \in Nat /\ Len(q) \in Nat /\ Count(q) \in Nat
  BY <1>1, FitsTyped DEF Fits
<1>3. {i \in DOMAIN q : q[i].type = "Reply" /\ q[i].outcome \in Retried}
        = {i \in 1..Len(q) : q[i] \in TriedAgain}
  <2>1. \A i \in 1..Len(q) :
          q[i] \in TriedAgain <=> q[i].type = "Reply" /\ q[i].outcome \in Retried
    BY <1>2, TriedIs
  <2>2. DOMAIN q = 1..Len(q)
    BY <1>2
  <2> QED  BY <2>1, <2>2
<1>4. ncalls + Count(q) < MaxCalls
  BY <1>1, <1>3 DEF Room, Count, CountTo
<1>5. Fits(ncalls + 1, q)
  BY <1>2, <1>4, BondingAssumption DEF Fits
<1> QED  BY <1>1, <1>4, <1>5

\* BlueZ cancels the calls for a device.
LEMMA CancelsQuietly ==
  ASSUME IsFiniteSet(pending), pending \subseteq [id : Nat, dev : Device], NEW addr
  PROVE  CancelReplies(addr) \in Seq(Quiet)
<1>1. PICK S : S = Cancelled(addr)
  OBVIOUS
<1>2. S \subseteq pending
  BY <1>1 DEF Cancelled
<1>3. IsFiniteSet(S)
  BY <1>2, FS_Subset
<1>4. PICK n : n = Cardinality(S)
  OBVIOUS
<1>5. PICK f : f = SetToSeq(S)
  OBVIOUS
<1>6. n \in Nat /\ f \in [1..n -> S]
  <2>1. Cardinality(S) \in Nat /\ ExistsBijection(1..Cardinality(S), S)
    BY <1>3, FS_CardinalityType
  <2>2. \E g \in [1..Cardinality(S) -> S] : IsInjective(g)
    BY <2>1 DEF ExistsBijection, Bijection, Injection, IsInjective
  <2> QED  BY <1>4, <1>5, <2>1, <2>2 DEF SetToSeq
<1>7. Len(f) = n
  BY <1>6
<1>8. \A i \in 1..n : Reply(f[i], "CANCELED") \in Quiet
  <2> SUFFICES ASSUME NEW i \in 1..n PROVE Reply(f[i], "CANCELED") \in Quiet
    OBVIOUS
  <2>1. f[i] \in [id : Nat, dev : Device]
    BY <1>2, <1>6
  <2> QED  BY <2>1 DEF Reply, Quiet, Outcomes, Errors, Retried
<1>9. CancelReplies(addr) = [i \in 1..n |-> Reply(f[i], "CANCELED")]
  BY <1>1, <1>5, <1>7 DEF CancelReplies
<1>10. [i \in 1..n |-> Reply(f[i], "CANCELED")] \in Seq(Quiet)
  BY <1>6, <1>8
<1> QED  BY <1>9, <1>10

\* The variables of the library and of BlueZ.
Flags ==
  /\ application_pid \in BOOLEAN /\ adapter_proxy \in BOOLEAN /\ is_bonding_req \in BOOLEAN
  /\ is_headset_bonding \in BOOLEAN /\ is_headset_pin_req \in BOOLEAN
  /\ waiting \in BOOLEAN /\ hci0 \in BOOLEAN

Requests ==
  /\ bt_bonding_req_addrstr \in Device \cup {NoDevice}
  /\ bt_bonding_req_timer \in timers \cup {0}
  /\ timers \subseteq 1..ncalls /\ calls \subseteq 1..ncalls /\ ncalls \in Nat

Pending == pending \subseteq [id : 1..ncalls, dev : Device] /\ IsFiniteSet(pending)

DeviceObjects ==
  device_proxy_list \subseteq Device /\ paired \subseteq devices /\ devices \subseteq Device

EventTyped == event.dev \in Device \cup {NoDevice} /\ event.result \in Results

BondingTyped ==
  Flags /\ Requests /\ Pending /\ DeviceObjects /\ EventTyped /\ Fits(ncalls, inbox)

LEMMA BondingTypedIsTypeOK == BondingTyped => TypeOK
<1> SUFFICES ASSUME BondingTyped PROVE TypeOK
  OBVIOUS
<1>1. ncalls \in 0..MaxCalls
  BY FitsTyped DEF BondingTyped
<1> QED  BY <1>1 DEF BondingTyped, Flags, Requests, Pending, DeviceObjects, EventTyped, TypeOK

LEMMA BondingTypesInit == Init => BondingTyped
<1> SUFFICES ASSUME Init PROVE BondingTyped
  OBVIOUS
<1>1. Flags
  BY DEF Init, Flags
<1>2. Requests
  BY DEF Init, Requests
<1>3. Pending
  BY FS_EmptySet DEF Init, Pending
<1>4. DeviceObjects
  BY DEF Init, DeviceObjects
<1>5. EventTyped
  BY DEF Init, EventTyped, NoEvent, Results
<1>6. 0 \in 0..MaxCalls
  BY BondingAssumption
<1>7. Fits(ncalls, inbox)
  BY <1>6, FitsEmpty DEF Init
<1> QED  BY <1>1, <1>2, <1>3, <1>4, <1>5, <1>7 DEF BondingTyped

\* The events.
LEMMA NothingTold == event' = NoEvent => EventTyped'
BY DEF EventTyped, NoEvent, Results

LEMMA EventTold ==
  ASSUME NEW dev \in Device \cup {NoDevice}, NEW result \in Results,
         event_cb(BondingFinished(dev, result)) \/ event_cb(DeviceRemoved(dev, result))
  PROVE  EventTyped'
BY DEF event_cb, BondingFinished, DeviceRemoved, EventTyped, NoEvent, Results

\* The variables of a request are left alone, and so are its timers.
LEMMA RequestsKept ==
  ASSUME Requests, UNCHANGED <<bt_bonding_req_addrstr, bt_bonding_req_timer, timers, ncalls>>,
         calls' \subseteq calls
  PROVE  Requests'
BY DEF Requests

LEMMA PendingLess ==
  ASSUME Pending, UNCHANGED ncalls, pending' \subseteq pending PROVE Pending'
BY FS_Subset DEF Pending

\* One more call.
LEMMA PendingMore ==
  ASSUME Pending, ncalls \in Nat, ncalls' = ncalls + 1, NEW some \in SUBSET pending,
         NEW dev \in Device, pending' = some \cup {[id |-> ncalls + 1, dev |-> dev]}
  PROVE  Pending'
<1>1. IsFiniteSet(some)
  BY FS_Subset DEF Pending
<1>2. IsFiniteSet(pending')
  BY <1>1, FS_AddElement
<1>3. \A c \in pending : c \in [id : 1..ncalls + 1, dev : Device]
  <2>1. \A i \in 1..ncalls : i \in 1..ncalls + 1
    OBVIOUS
  <2> QED  BY <2>1 DEF Pending
<1>4. ncalls + 1 \in 1..ncalls + 1
  OBVIOUS
<1>5. [id |-> ncalls + 1, dev |-> dev] \in [id : 1..ncalls + 1, dev : Device]
  BY <1>4
<1> QED  BY <1>2, <1>3, <1>5 DEF Pending

LEMMA PendingIs ==
  ASSUME Pending, Requests PROVE IsFiniteSet(pending) /\ pending \subseteq [id : Nat, dev : Device]
<1>1. \A i \in 1..ncalls : i \in Nat
  BY DEF Requests
<1> QED  BY <1>1 DEF Pending

\* A call: the timer and the address are those of the new request.
LEMMA RequestTyped ==
  ASSUME Requests, Pending, NEW dev \in Device, NEW cs \in SUBSET calls, NEW ts \in SUBSET timers,
         NEW cancelled, bonding_req(dev, cs, ts, cancelled)
  PROVE  Requests' /\ Pending'
<1>1. /\ bt_bonding_req_addrstr' = dev /\ bt_bonding_req_timer' = ncalls + 1
      /\ timers' = ts \cup {ncalls + 1} /\ ncalls' = ncalls + 1 /\ calls' = cs \cup {ncalls + 1}
      /\ pending' = (pending \ cancelled) \cup {[id |-> ncalls + 1, dev |-> dev]}
  BY DEF bonding_req
<1>2. ncalls \in Nat /\ ncalls + 1 \in Nat
  BY DEF Requests
<1>3. \A i \in 1..ncalls : i \in 1..ncalls + 1
  BY <1>2
<1>4. ncalls + 1 \in 1..ncalls + 1
  BY <1>2
<1>5. Requests'
  BY <1>1, <1>2, <1>3, <1>4 DEF Requests
<1>6. Pending'
  <2>1. pending \ cancelled \in SUBSET pending
    OBVIOUS
  <2> QED  BY <1>1, <1>2, <2>1, PendingMore
<1> QED  BY <1>5, <1>6

(***************************************************************************)
(* BlueZ.                                                                  *)
(***************************************************************************)

LEMMA EmittedQuietly ==
  ASSUME NEW sigs \in Seq(Quiet) PROVE Emitted(sigs) \in Seq(Quiet)
<1>1. <<>> \in Seq(Quiet)
  OBVIOUS
<1> QED  BY <1>1 DEF Emitted

LEMMA SigQuiet ==
  ASSUME NEW dev \in Device, NEW name \in DeviceSignals
  PROVE  Sig(name, dev) \in Quiet /\ <<Sig(name, dev)>> \in Seq(Quiet)
<1>1. PICK m : m = Sig(name, dev)
  OBVIOUS
<1>2. m \in Quiet
  BY <1>1 DEF Sig, Quiet
<1>3. <<m>> \in Seq(Quiet)
  BY <1>2
<1> QED  BY <1>1, <1>2, <1>3

LEMMA NamesAre ==
  /\ "DeviceCreated" \in DeviceSignals /\ "DeviceRemoved" \in DeviceSignals
  /\ "Paired" \in DeviceSignals /\ "UnbondFailed" \in DeviceSignals
BY DEF DeviceSignals

LEMMA ReplyIs ==
  ASSUME NEW c \in [id : Nat, dev : Device], NEW outcome \in Outcomes
  PROVE  /\ Reply(c, outcome) \in Message
         /\ outcome \notin Retried => Reply(c, outcome) \in Quiet
<1>1. outcome \in Retried => Reply(c, outcome) \in TriedAgain
  BY DEF Reply, TriedAgain
<1>2. outcome \notin Retried => Reply(c, outcome) \in Quiet
  BY DEF Reply, Quiet
<1> QED  BY <1>1, <1>2 DEF Message

\* What BlueZ does to its calls, its devices and the queue.
LEMMA BluezTypes ==
  ASSUME BondingTyped, BluezStep, hci0' \in BOOLEAN, pending' \subseteq pending,
         paired' \subseteq devices', devices' \subseteq Device, Fits(ncalls, inbox')
  PROVE  BondingTyped'
<1>1. /\ event' = NoEvent
      /\ UNCHANGED <<application_pid, adapter_proxy, reqVars, calls, device_proxy_list, ncalls,
                     ghostVars>>
  BY DEF BluezStep
<1>2. Flags'
  BY <1>1 DEF BondingTyped, Flags, reqVars, ghostVars
<1>3. Requests'
  BY <1>1, RequestsKept DEF BondingTyped, reqVars
<1>4. Pending'
  BY <1>1, PendingLess DEF BondingTyped
<1>5. DeviceObjects'
  BY <1>1 DEF BondingTyped, DeviceObjects
<1>6. EventTyped' /\ Fits(ncalls', inbox')
  BY <1>1, NothingTold
<1> QED  BY <1>2, <1>3, <1>4, <1>5, <1>6 DEF BondingTyped

LEMMA BluezBondingTyped == ASSUME BondingTyped, Bluez PROVE BondingTyped'
<1>1. /\ paired \subseteq devices /\ devices \subseteq Device /\ hci0 \in BOOLEAN
      /\ Fits(ncalls, inbox)
      /\ pending \subseteq [id : Nat, dev : Device]
  BY PendingIs DEF BondingTyped, DeviceObjects, Flags
<1>2. ASSUME NEW c \in pending, CreateDevice(c) PROVE BondingTyped'
  <2>1. /\ devices' = devices \cup {c.dev}
        /\ inbox' = inbox \o Emitted(<<Sig("DeviceCreated", c.dev)>>)
        /\ BluezStep /\ UNCHANGED <<hci0, paired, pending>>
    BY <1>2 DEF CreateDevice
  <2>2. c.dev \in Device
    BY <1>1
  <2>3. Emitted(<<Sig("DeviceCreated", c.dev)>>) \in Seq(Quiet)
    BY <2>2, SigQuiet, NamesAre, EmittedQuietly
  <2>4. Fits(ncalls, inbox')
    BY <1>1, <2>1, <2>3, FitsJoined
  <2> QED  BY <1>1, <2>1, <2>2, <2>4, BluezTypes
<1>3. ASSUME NEW c \in pending, PairDevice(c) PROVE BondingTyped'
  <2>1. /\ c.dev \in devices /\ paired' = paired \cup {c.dev} /\ pending' = pending \ {c}
        /\ inbox' = inbox \o Emitted(<<Sig("Paired", c.dev)>>) \o <<Reply(c, "NONE")>>
        /\ BluezStep /\ UNCHANGED <<hci0, devices>>
    BY <1>3 DEF PairDevice
  <2>2. c \in [id : Nat, dev : Device] /\ c.dev \in Device
    BY <1>1
  <2>3. Emitted(<<Sig("Paired", c.dev)>>) \in Seq(Quiet)
    BY <2>2, SigQuiet, NamesAre, EmittedQuietly
  <2>4. <<Reply(c, "NONE")>> \in Seq(Quiet)
    <3>1. "NONE" \in Outcomes /\ "NONE" \notin Retried
      BY DEF Outcomes, Retried
    <3>2. PICK m : m = Reply(c, "NONE")
      OBVIOUS
    <3>3. m \in Quiet
      BY <2>2, <3>1, <3>2, ReplyIs
    <3> QED  BY <3>2, <3>3
  <2>5. Fits(ncalls, inbox \o Emitted(<<Sig("Paired", c.dev)>>))
    BY <1>1, <2>3, FitsJoined
  <2>6. Fits(ncalls, inbox')
    BY <2>1, <2>4, <2>5, FitsJoined
  <2>7. paired' \subseteq devices' /\ devices' \subseteq Device /\ pending' \subseteq pending
    BY <1>1, <2>1
  <2> QED  BY <1>1, <2>1, <2>6, <2>7, BluezTypes
<1>4. ASSUME NEW c \in pending, NEW error \in Errors, NEW keep \in BOOLEAN, Fails(c, error, keep)
      PROVE  BondingTyped'
  <2>1. PICK sigs :
          /\ sigs \in {<<>>, Emitted(<<Sig("DeviceRemoved", c.dev)>>)}
          /\ inbox' = inbox \o sigs \o <<Reply(c, error)>>
    BY <1>4 DEF Fails
  <2>2. /\ error \in Retried => Room
        /\ pending' = pending \ {c}
        /\ BluezStep /\ UNCHANGED <<hci0, paired>>
    BY <1>4, Zenon DEF Fails
  <2>3. devices' = devices \/ devices' = devices \ ({c.dev} \ paired)
    BY <1>4, Zenon DEF Fails
  <2>4. c \in [id : Nat, dev : Device] /\ c.dev \in Device
    BY <1>1
  <2>5. sigs \in Seq(Quiet)
    <3>1. <<>> \in Seq(Quiet)
      OBVIOUS
    <3>2. Emitted(<<Sig("DeviceRemoved", c.dev)>>) \in Seq(Quiet)
      BY <2>4, SigQuiet, NamesAre, EmittedQuietly
    <3> QED  BY <2>1, <3>1, <3>2
  <2>6. PICK q : q = inbox \o sigs
    OBVIOUS
  <2>7. Fits(ncalls, q)
    BY <1>1, <2>5, <2>6, FitsJoined
  <2>8. error \in Outcomes
    BY DEF Outcomes
  <2>9. CASE error \in Retried
    <3>1. ncalls + Count(inbox) < MaxCalls
      BY <1>1, <2>2, <2>9, FitsRoom
    <3>2. Count(q) = Count(inbox)
      BY <1>1, <2>5, <2>6, QuietCount
    <3>3. Reply(c, error) \in Message
      BY <2>4, <2>8, ReplyIs
    <3>4. Fits(ncalls, q \o <<Reply(c, error)>>)
      BY <2>7, <3>1, <3>2, <3>3, FitsReply
    <3>5. Fits(ncalls, inbox')
      BY <2>1, <2>6, <3>4
    <3>6. devices' \subseteq Device /\ paired' \subseteq devices' /\ pending' \subseteq pending
      BY <1>1, <2>2, <2>3
    <3> QED  BY <1>1, <2>2, <3>5, <3>6, BluezTypes
  <2>10. CASE error \notin Retried
    <3>1. PICK m : m = Reply(c, error)
      OBVIOUS
    <3>2. m \in Quiet
      BY <2>4, <2>8, <2>10, <3>1, ReplyIs
    <3>3. <<m>> \in Seq(Quiet)
      BY <3>2
    <3>4. Fits(ncalls, q \o <<m>>)
      BY <2>7, <3>3, FitsJoined
    <3>5. Fits(ncalls, inbox')
      BY <2>1, <2>6, <3>1, <3>4
    <3>6. devices' \subseteq Device /\ paired' \subseteq devices' /\ pending' \subseteq pending
      BY <1>1, <2>2, <2>3
    <3> QED  BY <1>1, <2>2, <3>5, <3>6, BluezTypes
  <2> QED  BY <2>9, <2>10
<1>5. ASSUME NEW dev \in Device, RemotePairs(dev) PROVE BondingTyped'
  <2>1. /\ devices' = devices \cup {dev} /\ paired' = paired \cup {dev}
        /\ inbox' = inbox \o Emitted(<<Sig("DeviceCreated", dev), Sig("Paired", dev)>>)
        /\ BluezStep /\ UNCHANGED <<hci0, pending>>
    BY <1>5 DEF RemotePairs
  <2>2. <<Sig("DeviceCreated", dev), Sig("Paired", dev)>> \in Seq(Quiet)
    <3>1. PICK a : a = Sig("DeviceCreated", dev)
      OBVIOUS
    <3>2. PICK b : b = Sig("Paired", dev)
      OBVIOUS
    <3>3. a \in Quiet /\ b \in Quiet
      BY <3>1, <3>2, SigQuiet, NamesAre
    <3>4. <<a, b>> \in Seq(Quiet)
      BY <3>3
    <3> QED  BY <3>1, <3>2, <3>4
  <2>3. Fits(ncalls, inbox')
    BY <1>1, <2>1, <2>2, EmittedQuietly, FitsJoined
  <2> QED  BY <1>1, <2>1, <2>3, BluezTypes
<1>6. ASSUME AdapterGoes \/ AdapterAppears PROVE BondingTyped'
  <2>1. PICK m : /\ m \in [type : AdapterSignals, dev : {NoDevice}]
                 /\ inbox' = inbox \/ inbox' = Append(inbox, m)
    <3>1. Sig("AdapterRemoved", NoDevice) \in [type : AdapterSignals, dev : {NoDevice}]
      BY DEF Sig, AdapterSignals
    <3>2. Sig("AdapterAdded", NoDevice) \in [type : AdapterSignals, dev : {NoDevice}]
      BY DEF Sig, AdapterSignals
    <3>3. \/ inbox' = inbox
          \/ inbox' = Append(inbox, Sig("AdapterRemoved", NoDevice))
          \/ inbox' = Append(inbox, Sig("AdapterAdded", NoDevice))
      BY <1>6 DEF AdapterGoes, AdapterAppears
    <3> QED  BY <3>1, <3>2, <3>3
  <2>2. Fits(ncalls, inbox')
    <3>1. m \in Quiet
      BY <2>1 DEF Quiet
    <3>2. <<m>> \in Seq(Quiet) /\ m \in Message
      BY <3>1 DEF Message
    <3>3. inbox \in Seq(Message)
      BY <1>1 DEF Fits
    <3>4. Append(inbox, m) = inbox \o <<m>>
      BY <3>2, <3>3, AppendJoins
    <3> QED  BY <1>1, <2>1, <3>2, <3>4, FitsJoined
  <2>3. /\ BluezStep /\ hci0' \in BOOLEAN /\ pending' \subseteq pending
        /\ paired' \subseteq devices' /\ devices' \subseteq Device
    BY <1>1, <1>6 DEF AdapterGoes, AdapterAppears
  <2> QED  BY <2>2, <2>3, BluezTypes
<1> QED  BY <1>2, <1>3, <1>4, <1>5, <1>6 DEF Bluez, BluezAnswers

(***************************************************************************)
(* The application's calls.                                                *)
(***************************************************************************)

LEMMA CallsBondingTyped == ASSUME BondingTyped, ApplicationCall PROVE BondingTyped'
<1>1. /\ Flags /\ Requests /\ Pending /\ DeviceObjects /\ Fits(ncalls, inbox)
      /\ IsFiniteSet(pending) /\ pending \subseteq [id : Nat, dev : Device]
  BY PendingIs DEF BondingTyped
<1>2. ASSUME bluetooth_register_callback PROVE BondingTyped'
  <2>1. /\ application_pid' = TRUE /\ adapter_proxy' = hci0 /\ device_proxy_list' = devices
        /\ event' = NoEvent
        /\ UNCHANGED <<reqVars, calls, ncalls, waiting, hci0, devices, paired, pending, inbox>>
    BY <1>2 DEF bluetooth_register_callback, ghostVars, bluezVars
  <2>2. Flags' /\ DeviceObjects'
    BY <1>1, <2>1 DEF Flags, reqVars, DeviceObjects
  <2>3. Requests'
    BY <1>1, <2>1, RequestsKept DEF reqVars
  <2>4. Pending' /\ Fits(ncalls', inbox')
    BY <1>1, <2>1 DEF Pending
  <2> QED  BY <2>1, <2>2, <2>3, <2>4, NothingTold DEF BondingTyped
<1>3. ASSUME bluetooth_unregister_callback PROVE BondingTyped'
  <2>1. /\ application_pid' = FALSE /\ adapter_proxy' = FALSE /\ waiting' = FALSE
        /\ calls' = {} /\ device_proxy_list' = {} /\ inbox' = <<>>
        /\ timers' = timers \ {bt_bonding_req_timer} /\ bt_bonding_req_timer' = 0
        /\ event' = NoEvent
        /\ UNCHANGED <<bt_bonding_req_addrstr, is_bonding_req, is_headset_bonding,
                       is_headset_pin_req, ncalls, hci0, devices, paired, pending>>
    BY <1>3 DEF bluetooth_unregister_callback
  <2>2. Flags' /\ DeviceObjects'
    BY <1>1, <2>1 DEF Flags, DeviceObjects
  <2>3. Requests'
    BY <1>1, <2>1 DEF Requests
  <2>4. Pending'
    BY <1>1, <2>1 DEF Pending
  <2>5. Fits(ncalls', inbox')
    <3>1. ncalls \in 0..MaxCalls
      BY <1>1, FitsTyped
    <3> QED  BY <2>1, <3>1, FitsEmpty
  <2> QED  BY <2>1, <2>2, <2>3, <2>4, <2>5, NothingTold DEF BondingTyped
<1>4. ASSUME NEW dev \in Device, bluetooth_bond_device(dev) PROVE BondingTyped'
  <2>1. /\ event' = NoEvent
        /\ UNCHANGED <<application_pid, adapter_proxy, is_headset_bonding, is_headset_pin_req,
                       device_proxy_list, hci0, devices, paired, inbox>>
    BY <1>4 DEF bluetooth_bond_device
  <2>2. DeviceObjects' /\ EventTyped'
    BY <1>1, <2>1, NothingTold DEF DeviceObjects
  <2>3. CASE adapter_proxy
    <3>1. Room /\ bonding_req(dev, calls, timers, {}) /\ waiting' = TRUE
      BY <1>4, <2>3 DEF bluetooth_bond_device
    <3>2. Requests' /\ Pending'
      <4>1. calls \in SUBSET calls /\ timers \in SUBSET timers
        OBVIOUS
      <4> QED  BY <1>1, <3>1, <4>1, RequestTyped
    <3>3. is_bonding_req' = TRUE /\ ncalls' = ncalls + 1
      BY <3>1 DEF bonding_req
    <3>4. Flags'
      BY <1>1, <2>1, <3>1, <3>3 DEF Flags
    <3>5. Fits(ncalls', inbox')
      BY <1>1, <2>1, <3>1, <3>3, FitsRoom
    <3> QED  BY <2>2, <3>2, <3>4, <3>5 DEF BondingTyped
  <2>4. CASE ~adapter_proxy
    <3>1. /\ bt_bonding_req_addrstr' = dev
          /\ UNCHANGED <<is_bonding_req, bt_bonding_req_timer, timers, ncalls, calls, pending,
                         waiting>>
      BY <1>4, <2>4 DEF bluetooth_bond_device, ghostVars
    <3>2. Flags'
      BY <1>1, <2>1, <3>1 DEF Flags
    <3>3. Requests'
      BY <1>1, <3>1 DEF Requests
    <3>4. Pending' /\ Fits(ncalls', inbox')
      BY <1>1, <2>1, <3>1 DEF Pending
    <3> QED  BY <2>2, <3>2, <3>3, <3>4 DEF BondingTyped
  <2> QED  BY <2>3, <2>4
<1>5. ASSUME bluetooth_cancel_bonding PROVE BondingTyped'
  <2>1. PICK addr : addr = bt_bonding_req_addrstr
    OBVIOUS
  <2>2. /\ timers' = timers \ {bt_bonding_req_timer} /\ bt_bonding_req_timer' = 0
        /\ pending' = pending \ Cancelled(addr) /\ inbox' = inbox \o CancelReplies(addr)
        /\ event' = NoEvent
        /\ UNCHANGED <<application_pid, adapter_proxy, bt_bonding_req_addrstr, is_bonding_req,
                       is_headset_bonding, is_headset_pin_req, calls, device_proxy_list, ncalls,
                       waiting, hci0, devices, paired>>
    BY <1>5, <2>1 DEF bluetooth_cancel_bonding
  <2>3. Flags' /\ DeviceObjects'
    BY <1>1, <2>2 DEF Flags, DeviceObjects
  <2>4. Requests'
    BY <1>1, <2>2 DEF Requests
  <2>5. Pending'
    <3>1. pending' \subseteq pending
      BY <2>2
    <3> QED  BY <1>1, <2>2, <3>1, PendingLess
  <2>6. Fits(ncalls', inbox')
    BY <1>1, <2>2, CancelsQuietly, FitsJoined
  <2> QED  BY <2>2, <2>3, <2>4, <2>5, <2>6, NothingTold DEF BondingTyped
<1>6. ASSUME NEW dev \in Device, bluetooth_unbond_device(dev) PROVE BondingTyped'
  <2>1. /\ event' = NoEvent
        /\ UNCHANGED <<application_pid, adapter_proxy, reqVars, calls, device_proxy_list, ncalls,
                       waiting, hci0, pending>>
    BY <1>6 DEF bluetooth_unbond_device, ghostVars
  <2>2. /\ devices' = devices \/ (devices' = devices \ {dev} /\ paired' = paired \ {dev})
        /\ devices' = devices => paired' = paired \/ paired' = paired \ {dev}
        /\ \/ inbox' = Append(inbox, Sig("DeviceRemoved", dev))
           \/ inbox' = Append(inbox, Sig("UnbondFailed", dev))
    BY <1>6 DEF bluetooth_unbond_device
  <2>3. PICK m : m \in Quiet /\ inbox' = Append(inbox, m)
    BY <2>2, SigQuiet, NamesAre
  <2>4. Fits(ncalls', inbox')
    <3>1. <<m>> \in Seq(Quiet) /\ m \in Message
      BY <2>3 DEF Message
    <3>2. inbox \in Seq(Message)
      BY <1>1 DEF Fits
    <3>3. Append(inbox, m) = inbox \o <<m>>
      BY <3>1, <3>2, AppendJoins
    <3> QED  BY <1>1, <2>1, <2>3, <3>1, <3>3, FitsJoined
  <2>5. DeviceObjects'
    BY <1>1, <2>1, <2>2 DEF DeviceObjects
  <2>6. Flags'
    BY <1>1, <2>1 DEF Flags, reqVars
  <2>7. Requests'
    BY <1>1, <2>1, RequestsKept DEF reqVars
  <2>8. Pending'
    BY <1>1, <2>1 DEF Pending
  <2> QED  BY <2>1, <2>4, <2>5, <2>6, <2>7, <2>8, NothingTold DEF BondingTyped
<1> QED  BY <1>2, <1>3, <1>4, <1>5, <1>6 DEF ApplicationCall

(***************************************************************************)
(* The end of a request.                                                   *)
(***************************************************************************)

\* What a reply leaves alone.
Around ==
  UNCHANGED <<application_pid, adapter_proxy, device_proxy_list, hci0, devices, paired>>

LEMMA ReplyTyped ==
  ASSUME BondingTyped, NEW cs \in SUBSET calls, NEW ts \in SUBSET timers, NEW rest,
         NEW dev \in Device \cup {NoDevice}, NEW result \in Results, NEW isHeadset,
         reply_cb(cs, ts, rest, dev, result, isHeadset), Around, Fits(ncalls, rest),
         result = "AUTHENTICATION_FAILED" /\ isHeadset
           => bt_bonding_req_addrstr \in Device /\ Fits(ncalls + 1, rest)
  PROVE  BondingTyped'
<1>1. PICK addr : addr = bt_bonding_req_addrstr
  OBVIOUS
<1>2. PICK left : left = ts \ {bt_bonding_req_timer}
  OBVIOUS
<1>3. PICK cancelled :
        \/ /\ result = "AUTHENTICATION_FAILED" /\ isHeadset
           /\ \E again \in {FALSE, hci0} : headset_retry(cs, left, cancelled, again)
        \/ request_finished(cs, left, cancelled, dev, result)
  BY <1>2 DEF reply_cb
<1>4. /\ Flags /\ Requests /\ Pending /\ DeviceObjects
      /\ IsFiniteSet(pending) /\ pending \subseteq [id : Nat, dev : Device]
  BY PendingIs DEF BondingTyped
<1>5. CancelReplies(addr) \in Seq(Quiet)
  BY <1>4, CancelsQuietly
<1>6. ASSUME NEW n, Fits(n, rest) PROVE Fits(n, inbox')
  <2>1. inbox' = rest \/ inbox' = rest \o CancelReplies(addr)
    BY <1>1 DEF reply_cb
  <2> QED  BY <1>5, <1>6, <2>1, FitsJoined
<1>7. DeviceObjects'
  BY <1>4 DEF DeviceObjects, Around
<1>8. left \in SUBSET timers
  BY <1>2
<1>9. ASSUME request_finished(cs, left, cancelled, dev, result) PROVE BondingTyped'
  <2>1. /\ bt_bonding_req_addrstr' = NoDevice /\ is_bonding_req' = FALSE
        /\ is_headset_bonding' = FALSE /\ is_headset_pin_req' = FALSE
        /\ bt_bonding_req_timer' = 0 /\ timers' = left /\ calls' = cs
        /\ pending' = pending \ cancelled /\ event_cb(BondingFinished(dev, result))
        /\ waiting' = FALSE /\ UNCHANGED ncalls
    BY <1>9 DEF request_finished
  <2>2. Flags'
    BY <1>4, <2>1 DEF Flags, Around
  <2>3. Requests'
    BY <1>4, <1>8, <2>1 DEF Requests
  <2>4. Pending'
    <3>1. pending' \subseteq pending
      BY <2>1
    <3> QED  BY <1>4, <2>1, <3>1, PendingLess
  <2>5. EventTyped'
    BY <2>1, EventTold
  <2>6. Fits(ncalls', inbox')
    BY <1>6, <2>1
  <2> QED  BY <1>7, <2>2, <2>3, <2>4, <2>5, <2>6 DEF BondingTyped
<1>10. ASSUME result = "AUTHENTICATION_FAILED", isHeadset, NEW again \in {FALSE, hci0},
              headset_retry(cs, left, cancelled, again)
       PROVE  BondingTyped'
  <2>1. addr \in Device /\ Fits(ncalls + 1, rest)
    BY <1>1, <1>10
  <2>2. /\ is_headset_bonding' = FALSE /\ is_headset_pin_req' = TRUE
        /\ event' = NoEvent /\ UNCHANGED waiting
    BY <1>10 DEF headset_retry, ghostVars
  <2>3. EventTyped'
    BY <2>2, NothingTold
  <2>4. CASE again /\ adapter_proxy
    <3>1. bonding_req(addr, cs, left, cancelled)
      BY <1>1, <1>10, <2>4 DEF headset_retry
    <3>2. Requests' /\ Pending'
      BY <1>4, <1>8, <2>1, <3>1, RequestTyped
    <3>3. is_bonding_req' = TRUE /\ ncalls' = ncalls + 1
      BY <3>1 DEF bonding_req
    <3>4. Flags'
      BY <1>4, <2>2, <3>3 DEF Flags, Around
    <3>5. Fits(ncalls', inbox')
      BY <1>6, <2>1, <3>3
    <3> QED  BY <1>7, <2>3, <3>2, <3>4, <3>5 DEF BondingTyped
  <2>5. CASE ~(again /\ adapter_proxy)
    <3>1. /\ bt_bonding_req_addrstr' \in {addr, NoDevice} /\ is_bonding_req' = FALSE
          /\ bt_bonding_req_timer' = 0 /\ timers' = left /\ calls' = cs
          /\ pending' = pending \ cancelled /\ UNCHANGED ncalls
      BY <1>1, <1>10, <2>5 DEF headset_retry
    <3>2. Flags'
      BY <1>4, <2>2, <3>1 DEF Flags, Around
    <3>3. Requests'
      BY <1>4, <1>8, <2>1, <3>1 DEF Requests
    <3>4. Pending'
      <4>1. pending' \subseteq pending
        BY <3>1
      <4> QED  BY <1>4, <3>1, <4>1, PendingLess
    <3>5. Fits(ncalls', inbox')
      BY <1>6, <3>1
    <3> QED  BY <1>7, <2>3, <3>2, <3>3, <3>4, <3>5 DEF BondingTyped
  <2> QED  BY <2>4, <2>5
<1> QED  BY <1>3, <1>9, <1>10

LEMMA TimeoutTyped == ASSUME BondingTyped, Timeout PROVE BondingTyped'
<1>1. PICK t \in timers : bonding_req_timeout_cb(t)
  BY DEF Timeout
<1>2. /\ reply_cb(calls, timers \ {t}, inbox, bt_bonding_req_addrstr, "TIMEOUT", FALSE)
      /\ Around
  BY <1>1 DEF bonding_req_timeout_cb, Around
<1>3. /\ timers \ {t} \in SUBSET timers /\ calls \in SUBSET calls
      /\ bt_bonding_req_addrstr \in Device \cup {NoDevice}
  BY DEF BondingTyped, Requests
<1>4. PICK result : result = "TIMEOUT"
  OBVIOUS
<1>5. result \in Results /\ result # "AUTHENTICATION_FAILED"
  BY <1>4 DEF Results
<1>6. PICK isHeadset : isHeadset = FALSE
  OBVIOUS
<1>7. Fits(ncalls, inbox)
  BY DEF BondingTyped
<1> QED  BY <1>2, <1>3, <1>4, <1>5, <1>6, <1>7, ReplyTyped

(***************************************************************************)
(* The messages.                                                           *)
(***************************************************************************)

LEMMA ResultIs ==
  ASSUME NEW outcome \in Outcomes
  PROVE  /\ ResultOf(outcome) \in Results
         /\ ResultOf(outcome) = "AUTHENTICATION_FAILED"
              => \/ outcome = "AUTH_FAILED"
                 \/ outcome = "PAGE_TIMEOUT" /\ is_bonding_req
<1>1. CASE outcome = "REJECTED"
  BY <1>1 DEF ResultOf, Results
<1>2. CASE outcome = "CANCELED"
  BY <1>2 DEF ResultOf, Results
<1>3. CASE outcome = "IN_PROGRESS"
  BY <1>3 DEF ResultOf, Results
<1>4. CASE outcome = "AUTH_FAILED"
  BY <1>4 DEF ResultOf, Results
<1>5. CASE outcome = "PAGE_TIMEOUT"
  BY <1>5 DEF ResultOf, Results
<1>6. CASE outcome \notin {"REJECTED", "CANCELED", "IN_PROGRESS", "AUTH_FAILED", "PAGE_TIMEOUT"}
  <2>1. ResultOf(outcome) = "PARING_FAILED"
    BY <1>6 DEF ResultOf
  <2> QED  BY <2>1 DEF Results
<1> QED  BY <1>1, <1>2, <1>3, <1>4, <1>5, <1>6

LEMMA ResultNone == "NONE" \in Results /\ "NONE" # "AUTHENTICATION_FAILED" /\ "NOT_PAIRED" \in Results
BY DEF Results

\* The bond is removed and the device bonded again.
LEMMA AgainTyped ==
  ASSUME BondingTyped, NEW cs \in SUBSET calls, NEW rest, FindDevice, remove_and_retry(cs, rest),
         UNCHANGED <<application_pid, adapter_proxy, device_proxy_list, hci0>>,
         Fits(ncalls + 1, rest)
  PROVE  BondingTyped'
<1>1. PICK addr : addr = bt_bonding_req_addrstr
  OBVIOUS
<1>2. /\ devices' = devices \ {addr} /\ paired' = paired \ {addr}
      /\ ncalls' = ncalls + 1 /\ calls' = cs \cup {ncalls + 1}
      /\ pending' = pending \cup {[id |-> ncalls + 1, dev |-> addr]}
      /\ inbox' = Append(rest, Sig("DeviceRemoved", addr))
      /\ event' = NoEvent
      /\ UNCHANGED <<bt_bonding_req_addrstr, is_bonding_req, is_headset_bonding,
                     is_headset_pin_req, bt_bonding_req_timer, timers, waiting>>
  BY <1>1 DEF remove_and_retry, reqVars, ghostVars
<1>3. Flags /\ Requests /\ Pending /\ DeviceObjects
  BY DEF BondingTyped
<1>4. addr \in Device
  BY <1>1, <1>3 DEF FindDevice, DeviceObjects
<1>5. ncalls \in Nat /\ ncalls + 1 \in 1..ncalls+1 /\ \A i \in 1..ncalls : i \in 1..ncalls+1
  <2>1. ncalls \in Nat
    BY <1>3 DEF Requests
  <2> QED  BY <2>1
<1>6. Flags'
  BY <1>2, <1>3 DEF Flags
<1>7. Requests'
  BY <1>2, <1>3, <1>5 DEF Requests
<1>8. Pending'
  <2>1. pending \in SUBSET pending
    OBVIOUS
  <2> QED  BY <1>2, <1>3, <1>4, <1>5, <2>1, PendingMore
<1>9. DeviceObjects'
  BY <1>2, <1>3 DEF DeviceObjects
<1>10. Fits(ncalls', inbox')
  <2>1. PICK m : m = Sig("DeviceRemoved", addr)
    OBVIOUS
  <2>2. m \in Quiet /\ <<m>> \in Seq(Quiet)
    BY <1>4, <2>1, SigQuiet, NamesAre
  <2>3. rest \in Seq(Message) /\ m \in Message
    BY <2>2 DEF Fits, Message
  <2>4. Append(rest, m) = rest \o <<m>>
    BY <2>3, AppendJoins
  <2>5. Fits(ncalls + 1, rest \o <<m>>)
    BY <2>2, FitsJoined
  <2> QED  BY <1>2, <2>1, <2>4, <2>5
<1> QED  BY <1>2, <1>6, <1>7, <1>8, <1>9, <1>10, NothingTold DEF BondingTyped

LEMMA BondingReplyTyped ==
  ASSUME IInv, BondingTyped, NEW m \in Message, m.type = "Reply", NEW rest,
         bonding_req_finish_cb(m, rest),
         UNCHANGED <<application_pid, adapter_proxy, device_proxy_list, hci0>>,
         Fits(ncalls, rest), m \in TriedAgain => Fits(ncalls + 1, rest)
  PROVE  BondingTyped'
<1>1. PICK cs : cs = calls \ {m.call}
  OBVIOUS
<1>2. PICK addr : addr = bt_bonding_req_addrstr
  OBVIOUS
<1>3. PICK isHeadset : isHeadset <=> \/ m.outcome = "AUTH_FAILED" /\ FindDevice
                                          /\ addr \in device_proxy_list \cap Headsets
                                     \/ m.outcome = "PAGE_TIMEOUT"
  OBVIOUS
<1>4. PICK outcome : outcome = m.outcome
  OBVIOUS
<1>5. /\ cs \in SUBSET calls /\ timers \in SUBSET timers
      /\ addr \in Device \cup {NoDevice} /\ devices \subseteq Device
  BY <1>1, <1>2 DEF BondingTyped, Requests, DeviceObjects
<1>6. outcome \in Outcomes /\ (outcome \in Retried => Fits(ncalls + 1, rest))
  <2>1. outcome \in Outcomes
    BY <1>4 DEF Message, Quiet, TriedAgain, Outcomes, Errors, Retried, DeviceSignals,
                AdapterSignals
  <2> QED  BY <1>4, <2>1, TriedIs
<1>7. CASE outcome = "ALREADY_EXISTS" /\ FindDevice /\ remove_and_retry(cs, rest)
  <2>1. Fits(ncalls + 1, rest)
    BY <1>6, <1>7 DEF Retried
  <2> QED  BY <1>5, <1>7, <2>1, AgainTyped
<1>8. CASE /\ reply_cb(cs, timers, rest, IF FindDevice THEN addr ELSE m.dev, "NONE", FALSE)
           /\ UNCHANGED <<devices, paired>>
  <2>1. PICK dev : dev = IF FindDevice THEN addr ELSE m.dev
    OBVIOUS
  <2>2. PICK none : none = "NONE"
    OBVIOUS
  <2>3. PICK no : no = FALSE
    OBVIOUS
  <2>4. m.dev \in Device
    BY DEF Message, Quiet, TriedAgain, DeviceSignals, AdapterSignals
  <2>5. dev \in Device \cup {NoDevice} /\ none \in Results /\ none # "AUTHENTICATION_FAILED"
    BY <1>5, <2>1, <2>2, <2>4, ResultNone
  <2>6. Around /\ reply_cb(cs, timers, rest, dev, none, no)
    BY <1>8, <2>1, <2>2, <2>3 DEF Around
  <2> QED  BY <1>5, <2>5, <2>6, ReplyTyped
<1>9. CASE /\ reply_cb(cs, timers, rest, addr, ResultOf(outcome), isHeadset)
           /\ UNCHANGED <<devices, paired>>
  <2>1. PICK result : result = ResultOf(outcome)
    OBVIOUS
  <2>2. result \in Results
    BY <1>6, <2>1, ResultIs
  <2>3. result = "AUTHENTICATION_FAILED" /\ isHeadset
          => bt_bonding_req_addrstr \in Device /\ Fits(ncalls + 1, rest)
    <3> SUFFICES ASSUME result = "AUTHENTICATION_FAILED", isHeadset
                 PROVE  bt_bonding_req_addrstr \in Device /\ Fits(ncalls + 1, rest)
      OBVIOUS
    <3>1. outcome = "AUTH_FAILED" \/ (outcome = "PAGE_TIMEOUT" /\ is_bonding_req)
      BY <1>6, <2>1, ResultIs
    <3>2. Fits(ncalls + 1, rest)
      BY <1>6, <3>1 DEF Retried
    <3>3. FindDevice \/ is_bonding_req
      BY <1>3, <1>4, <3>1
    <3>4. bt_bonding_req_addrstr \in Device
      BY <1>2, <1>5, <3>3 DEF FindDevice, IInv, RequestHasAddress
    <3> QED  BY <3>2, <3>4
  <2>4. Around /\ reply_cb(cs, timers, rest, addr, result, isHeadset)
    BY <1>9, <2>1 DEF Around
  <2> QED  BY <1>5, <2>2, <2>3, <2>4, ReplyTyped
<1>10. \/ m.outcome = "ALREADY_EXISTS" /\ FindDevice /\ remove_and_retry(cs, rest)
       \/ /\ reply_cb(cs, timers, rest, IF FindDevice THEN addr ELSE m.dev, "NONE", FALSE)
          /\ UNCHANGED <<devices, paired>>
       \/ /\ reply_cb(cs, timers, rest, addr, ResultOf(m.outcome),
                      \/ m.outcome = "AUTH_FAILED" /\ FindDevice
                           /\ addr \in device_proxy_list \cap Headsets
                      \/ m.outcome = "PAGE_TIMEOUT")
          /\ UNCHANGED <<devices, paired>>
  BY <1>1, <1>2 DEF bonding_req_finish_cb
<1> QED  BY <1>3, <1>4, <1>7, <1>8, <1>9, <1>10

\* A signal of a device.
LEMMA SignalTyped ==
  ASSUME BondingTyped, NEW dev \in Device,
         UNCHANGED <<application_pid, adapter_proxy, hci0, devices, paired>>,
         device_created(dev) \/ device_removed(dev) \/ unbond_request_complete_cb(dev),
         Fits(ncalls, inbox')
  PROVE  BondingTyped'
<1>1. /\ UNCHANGED <<bt_bonding_req_addrstr, is_bonding_req, is_headset_pin_req,
                     bt_bonding_req_timer, timers, calls, ncalls, waiting, pending>>
      /\ device_proxy_list' \subseteq device_proxy_list \cup {dev}
  BY DEF device_created, device_removed, unbond_request_complete_cb, reqVars, ghostVars
<1>2. Flags /\ Requests /\ Pending /\ DeviceObjects
  BY DEF BondingTyped
<1>3. is_headset_bonding' \in BOOLEAN
  <2>1. is_headset_bonding \in BOOLEAN
    BY <1>2 DEF Flags
  <2>2. \/ is_headset_bonding' = is_headset_bonding
        \/ is_headset_bonding' = (dev \in Headsets)
    BY DEF device_created, device_removed, unbond_request_complete_cb, reqVars
  <2>3. CASE is_headset_bonding' = is_headset_bonding
    BY <2>1, <2>3
  <2>4. CASE is_headset_bonding' = (dev \in Headsets)
    <3>1. is_headset_bonding' = TRUE \/ is_headset_bonding' = FALSE
      BY <2>4
    <3> QED  BY <3>1
  <2> QED  BY <2>2, <2>3, <2>4
<1>4. Flags'
  BY <1>1, <1>2, <1>3 DEF Flags
<1>5. Requests'
  BY <1>1, <1>2 DEF Requests
<1>6. Pending' /\ DeviceObjects' /\ Fits(ncalls', inbox')
  BY <1>1, <1>2 DEF Pending, DeviceObjects
<1>7. EventTyped'
  <2>1. PICK none : none = "NONE"
    OBVIOUS
  <2>2. PICK notPaired : notPaired = "NOT_PAIRED"
    OBVIOUS
  <2>3. none \in Results /\ notPaired \in Results /\ dev \in Device \cup {NoDevice}
    BY <2>1, <2>2, ResultNone
  <2>4. \/ event' = NoEvent
        \/ event_cb(DeviceRemoved(dev, none)) \/ event_cb(DeviceRemoved(dev, notPaired))
    BY <2>1, <2>2 DEF device_created, device_removed, unbond_request_complete_cb
  <2> QED  BY <2>3, <2>4, NothingTold, EventTold
<1> QED  BY <1>4, <1>5, <1>6, <1>7 DEF BondingTyped

LEMMA AdapterTyped ==
  ASSUME BondingTyped, adapter_removed_cb \/ adapter_added_cb,
         UNCHANGED <<application_pid, hci0>>, Fits(ncalls, inbox')
  PROVE  BondingTyped'
<1>1. /\ adapter_proxy' \in {TRUE, FALSE} /\ calls' \subseteq calls
      /\ device_proxy_list' \in {{}, devices} /\ event' = NoEvent
      /\ UNCHANGED <<bt_bonding_req_addrstr, is_bonding_req, is_headset_bonding,
                     is_headset_pin_req, bt_bonding_req_timer, timers, ncalls, waiting, devices,
                     paired, pending>>
  BY DEF adapter_removed_cb, adapter_added_cb, reqVars, ghostVars
<1>2. Flags /\ Requests /\ Pending /\ DeviceObjects
  BY DEF BondingTyped
<1>3. Flags'
  BY <1>1, <1>2 DEF Flags
<1>4. Requests'
  BY <1>1, <1>2, RequestsKept
<1>5. Pending' /\ Fits(ncalls', inbox')
  BY <1>1, <1>2 DEF Pending
<1>6. DeviceObjects'
  BY <1>1, <1>2 DEF DeviceObjects
<1> QED  BY <1>1, <1>3, <1>4, <1>5, <1>6, NothingTold DEF BondingTyped

\* What the step leaves alone but for the queue and the event.
LEMMA RestTyped ==
  ASSUME BondingTyped, Around, event' = NoEvent, UNCHANGED <<reqVars, calls, ncalls, ghostVars, pending>>,
         Fits(ncalls, inbox')
  PROVE  BondingTyped'
<1>1. Flags /\ Requests /\ Pending /\ DeviceObjects
  BY DEF BondingTyped
<1>2. Flags' /\ DeviceObjects'
  BY <1>1 DEF Flags, DeviceObjects, Around, reqVars, ghostVars
<1>3. Requests'
  BY <1>1, RequestsKept DEF reqVars
<1>4. Pending' /\ Fits(ncalls', inbox')
  BY <1>1 DEF Pending
<1> QED  BY <1>2, <1>3, <1>4, NothingTold DEF BondingTyped

LEMMA BondingDispatchTyped == ASSUME IInv, BondingTyped, Dispatch PROVE BondingTyped'
<1>1. PICK m : m = Head(inbox)
  OBVIOUS
<1>2. PICK rest : rest = Tail(inbox)
  OBVIOUS
<1>3. inbox # <<>> /\ Fits(ncalls, inbox) /\ inbox \in Seq(Message)
  BY DEF Dispatch, BondingTyped, Fits
<1>4. Fits(ncalls, rest) /\ (m \in TriedAgain => Fits(ncalls + 1, rest))
  BY <1>1, <1>2, <1>3, FitsRest
<1>5. m \in Message
  BY <1>1, <1>3
<1>6. m.type \in DeviceSignals => m.dev \in Device
  BY <1>5 DEF Message, Quiet, TriedAgain, DeviceSignals, AdapterSignals
<1>7. CASE /\ m.type = "Reply" /\ bonding_req_finish_cb(m, rest)
           /\ UNCHANGED <<application_pid, adapter_proxy, device_proxy_list, hci0>>
  BY <1>4, <1>5, <1>7, BondingReplyTyped
<1>8. CASE /\ m.type = "Paired" /\ device_paired(m.dev, rest)
           /\ UNCHANGED <<application_pid, adapter_proxy, hci0, devices, paired>>
  <2>1. PICK dev \in Device : dev = m.dev
    BY <1>6, <1>8 DEF DeviceSignals
  <2>2. Around
    BY <1>8 DEF device_paired, Around
  <2>3. CASE event' = NoEvent /\ inbox' = rest /\ UNCHANGED <<reqVars, calls, ncalls, ghostVars, pending>>
    BY <1>4, <2>2, <2>3, RestTyped
  <2>4. CASE reply_cb(calls, timers, rest, dev, "NONE", FALSE)
    <3>1. PICK none : none = "NONE"
      OBVIOUS
    <3>2. PICK no : no = FALSE
      OBVIOUS
    <3>3. none \in Results /\ none # "AUTHENTICATION_FAILED" /\ dev \in Device \cup {NoDevice}
      BY <3>1, ResultNone
    <3>4. reply_cb(calls, timers, rest, dev, none, no)
      BY <2>4, <3>1, <3>2
    <3>5. calls \in SUBSET calls /\ timers \in SUBSET timers
      OBVIOUS
    <3> QED  BY <1>4, <2>2, <3>3, <3>4, <3>5, ReplyTyped
  <2> QED  BY <1>8, <2>1, <2>3, <2>4 DEF device_paired, bonding_created_cb
<1>9. CASE /\ \/ m.type = "DeviceCreated" /\ device_created(m.dev)
              \/ m.type = "DeviceRemoved" /\ device_removed(m.dev)
              \/ m.type = "UnbondFailed" /\ unbond_request_complete_cb(m.dev)
           /\ inbox' = rest
           /\ UNCHANGED <<application_pid, adapter_proxy, hci0, devices, paired>>
  <2>1. PICK dev \in Device : dev = m.dev
    BY <1>6, <1>9 DEF DeviceSignals
  <2>2. device_created(dev) \/ device_removed(dev) \/ unbond_request_complete_cb(dev)
    BY <1>9, <2>1
  <2> QED  BY <1>4, <1>9, <2>2, SignalTyped
<1>10. CASE /\ adapter_removed_cb \/ adapter_added_cb
            /\ inbox' = rest /\ UNCHANGED <<application_pid, hci0>>
  BY <1>4, <1>10, AdapterTyped
<1>11. CASE /\ inbox' = rest /\ event' = NoEvent
            /\ UNCHANGED <<application_pid, adapter_proxy, reqVars, calls, ncalls,
                           device_proxy_list, ghostVars, hci0, devices, paired, pending>>
  <2>1. Around
    BY <1>11 DEF Around
  <2> QED  BY <1>4, <1>11, <2>1, RestTyped
<1> QED  BY <1>1, <1>2, <1>7, <1>8, <1>9, <1>10, <1>11 DEF Dispatch

LEMMA BondingTypesNext == ASSUME IInv, BondingTyped, Next PROVE BondingTyped'
BY CallsBondingTyped, BondingDispatchTyped, TimeoutTyped, BluezBondingTyped DEF Next

(***************************************************************************)
(* Discovery.                                                              *)
(***************************************************************************)

Announced(queue) == \E i \in 1..Len(queue) : queue[i] = "Discovering"

\* The queue is some sequence: what is in it matters only for "Discovering".
DiscoveryInv ==
  /\ \E S : discovery_inbox \in Seq(S)
  /\ leaked \in Nat
  /\ /\ discovery_application_pid /\ discovery_adapter_proxy
     /\ discovering /\ ~is_discovering
     => Announced(discovery_inbox)

LEMMA AppendAnnounces ==
  ASSUME NEW S, NEW queue \in Seq(S), NEW sig
  PROVE  /\ \E T : Append(queue, sig) \in Seq(T)
         /\ Announced(queue) \/ sig = "Discovering" => Announced(Append(queue, sig))
<1> DEFINE T == S \cup {sig}
<1>1. queue \in Seq(T) /\ sig \in T
  OBVIOUS
<1>2. Append(queue, sig) \in Seq(T)
  BY <1>1
<1>3. /\ Len(Append(queue, sig)) = Len(queue) + 1
      /\ \A i \in 1..Len(queue) : Append(queue, sig)[i] = queue[i]
      /\ Append(queue, sig)[Len(queue) + 1] = sig
  BY <1>1
<1>4. Len(queue) \in Nat
  OBVIOUS
<1>5. ASSUME Announced(queue) \/ sig = "Discovering" PROVE Announced(Append(queue, sig))
  BY <1>3, <1>4, <1>5 DEF Announced
<1> QED  BY <1>2, <1>5

LEMMA TailAnnounces ==
  ASSUME NEW S, NEW queue \in Seq(S), queue # <<>>
  PROVE  /\ \E T : Tail(queue) \in Seq(T)
         /\ Announced(queue) /\ Head(queue) # "Discovering" => Announced(Tail(queue))
<1>1. Tail(queue) \in Seq(S)
  OBVIOUS
<1>2. /\ Len(queue) \in Nat /\ Len(Tail(queue)) = Len(queue) - 1
      /\ \A i \in 1..Len(queue) - 1 : Tail(queue)[i] = queue[i + 1]
      /\ Head(queue) = queue[1]
  OBVIOUS
<1>3. ASSUME Announced(queue), Head(queue) # "Discovering" PROVE Announced(Tail(queue))
  <2>1. PICK i \in 1..Len(queue) : queue[i] = "Discovering"
    BY <1>3 DEF Announced
  <2>2. i - 1 \in 1..Len(queue) - 1 /\ (i - 1) + 1 = i
    BY <1>2, <1>3, <2>1
  <2> QED  BY <1>2, <2>1, <2>2 DEF Announced
<1> QED  BY <1>1, <1>3

\* What is kept of a queue is a sequence.
LEMMA KeptIsSequence ==
  ASSUME NEW S, NEW queue \in Seq(S), NEW kept
  PROVE  \E T : Discovery!Kept(queue, kept) \in Seq(T)
<1> DEFINE at == {i \in DOMAIN queue : queue[i] \in kept}
<1> DEFINE n == Cardinality(at)
<1> DEFINE result == Discovery!Kept(queue, kept)
<1> DEFINE T == {result[k] : k \in 1..n}
<1>1. IsFiniteSet(DOMAIN queue)
  <2>1. DOMAIN queue = 1..Len(queue) /\ Len(queue) \in Nat
    OBVIOUS
  <2> QED  BY <2>1, FS_Interval
<1>2. n \in Nat
  <2>1. at \subseteq DOMAIN queue
    OBVIOUS
  <2> HIDE DEF at
  <2>2. IsFiniteSet(at)
    BY <1>1, <2>1, FS_Subset
  <2> QED  BY <2>2, FS_CardinalityType
<1>3. result = [k \in 1..n |-> result[k]]
  <2>1. Discovery!Cardinality(at) = Cardinality(at)
    BY DEF Discovery!Cardinality, Cardinality
  <2> QED  BY <2>1 DEF Discovery!Kept
<1> HIDE DEF result
<1>4. result \in [1..n -> T]
  BY <1>3
<1> HIDE DEF n, T
<1>5. \A f : f \in [1..n -> T] => f \in Seq(T)
  BY <1>2
<1> QED  BY <1>4, <1>5 DEF result

LEMMA DiscoveryInitInv == Discovery!Init => DiscoveryInv
<1>1. <<>> \in Seq({})
  OBVIOUS
<1> QED  BY <1>1 DEF Discovery!Init, DiscoveryInv, Announced

\* A handler that changes nothing but the queue, by a signal or none.
LEMMA EmitKeeps ==
  ASSUME DiscoveryInv, NEW sig, Discovery!Emit(sig) \/ UNCHANGED discovery_inbox,
         UNCHANGED <<discovery_application_pid, discovery_adapter_proxy, leaked, is_discovering>>,
         discovering' => discovering \/ (sig = "Discovering" /\ Discovery!Emit(sig))
  PROVE  DiscoveryInv'
<1>1. PICK S : discovery_inbox \in Seq(S)
  BY DEF DiscoveryInv
<1>2. CASE Discovery!Emit(sig)
  <2>1. discovery_inbox' = Append(discovery_inbox, sig)
    BY <1>2 DEF Discovery!Emit
  <2>2. \E T : discovery_inbox' \in Seq(T)
    BY <1>1, <2>1, AppendAnnounces
  <2>3. Announced(discovery_inbox) \/ sig = "Discovering" => Announced(discovery_inbox')
    BY <1>1, <2>1, AppendAnnounces
  <2> QED  BY <2>2, <2>3 DEF DiscoveryInv
<1>3. CASE ~Discovery!Emit(sig)
  BY <1>3 DEF DiscoveryInv
<1> QED  BY <1>2, <1>3

\* A call that may open a session: with a new proxy comes the value of the property.
LEMMA InitKeeps ==
  ASSUME DiscoveryInv, NEW late \in BOOLEAN, Discovery!session_init(late),
         discovery_application_pid', UNCHANGED <<leaked, discovering>>,
         is_discovering' = Discovery!DiscoveringAfterInit \/ ~discovering
  PROVE  DiscoveryInv'
<1>1. CASE discovery_application_pid
  BY <1>1 DEF DiscoveryInv, Discovery!session_init, Discovery!DiscoveringAfterInit
<1>2. CASE ~discovery_application_pid
  <2>1. PICK S : discovery_inbox \in Seq(S)
    BY DEF DiscoveryInv
  <2>2. \E T : discovery_inbox' \in Seq(T)
    <3>1. CASE late
      <4>1. discovery_inbox' = Append(discovery_inbox, "AdapterAdded")
        BY <1>2, <3>1 DEF Discovery!session_init, Discovery!Emit
      <4> QED  BY <2>1, <4>1, AppendAnnounces
    <3>2. CASE ~late
      BY <1>2, <2>1, <3>2 DEF Discovery!session_init
    <3> QED  BY <3>1, <3>2
  <2>3. discovery_adapter_proxy' /\ discovering' => is_discovering'
    BY <1>2 DEF Discovery!session_init, Discovery!DiscoveringAfterInit
  <2> QED  BY <2>2, <2>3 DEF DiscoveryInv
<1> QED  BY <1>1, <1>2

LEMMA DiscoveryCallKeeps ==
  ASSUME DiscoveryInv, Discovery!ApplicationCall \/ Discovery!FinishedTimer
  PROVE  DiscoveryInv'
<1>1. ASSUME NEW late \in BOOLEAN, Discovery!bluetooth_register_callback(late)
      PROVE  DiscoveryInv'
  BY <1>1, InitKeeps DEF Discovery!bluetooth_register_callback
<1>2. ASSUME NEW late \in BOOLEAN, NEW accepted \in BOOLEAN,
             Discovery!bluetooth_start_discovery(late, accepted)
      PROVE  DiscoveryInv'
  BY <1>2, InitKeeps DEF Discovery!bluetooth_start_discovery
<1>3. ASSUME NEW late \in BOOLEAN, Discovery!bluetooth_cancel_discovery(late)
      PROVE  DiscoveryInv'
  BY <1>3, InitKeeps DEF Discovery!bluetooth_cancel_discovery
<1>4. ASSUME NEW late \in BOOLEAN, Discovery!bt_discovery_finished_cb(late)
      PROVE  DiscoveryInv'
  <2>1. is_discovering' = Discovery!DiscoveringAfterInit \/ ~discovering
    BY <1>4 DEF Discovery!bt_discovery_finished_cb, Discovery!NotDiscoveringNow
  <2> QED  BY <1>4, <2>1, InitKeeps DEF Discovery!bt_discovery_finished_cb
<1> QED  BY <1>1, <1>2, <1>3, <1>4 DEF Discovery!ApplicationCall, Discovery!FinishedTimer

LEMMA DiscoveryDispatchKeeps == ASSUME DiscoveryInv, Discovery!Dispatch PROVE DiscoveryInv'
<1>1. PICK S : discovery_inbox \in Seq(S)
  BY DEF DiscoveryInv
<1>2. discovery_inbox # <<>> /\ discovery_inbox' = Tail(discovery_inbox)
  BY DEF Discovery!Dispatch, Discovery!adapter_property_discovering, Discovery!adapter_added_cb,
     Discovery!adapter_property_not_discovering, Discovery!adapter_removed_cb
<1>3. \E T : discovery_inbox' \in Seq(T)
  BY <1>1, <1>2, TailAnnounces
<1>4. Head(discovery_inbox) # "Discovering" /\ Announced(discovery_inbox)
        => Announced(discovery_inbox')
  BY <1>1, <1>2, TailAnnounces
<1>5. CASE Discovery!adapter_property_discovering
  <2>1. discovery_adapter_proxy => Discovery!Handlers > 0
    BY DEF DiscoveryInv, Discovery!Handlers
  <2>2. discovery_adapter_proxy => is_discovering'
    BY <1>5, <2>1 DEF Discovery!adapter_property_discovering, Discovery!discovery_started_cb
  <2> QED  BY <1>3, <1>5, <2>2 DEF DiscoveryInv, Discovery!adapter_property_discovering
<1>6. CASE Discovery!adapter_property_not_discovering
  BY <1>3, <1>4, <1>6 DEF DiscoveryInv, Discovery!adapter_property_not_discovering
<1>7. CASE Discovery!adapter_added_cb
  <2>1. leaked' \in Nat
    BY <1>7 DEF DiscoveryInv, Discovery!adapter_added_cb, Discovery!Handlers
  <2> QED  BY <1>3, <1>7, <2>1 DEF DiscoveryInv, Discovery!adapter_added_cb, Discovery!bluezVars
<1>8. CASE Discovery!adapter_removed_cb
  BY <1>3, <1>8 DEF DiscoveryInv, Discovery!adapter_removed_cb
<1> QED  BY <1>5, <1>6, <1>7, <1>8 DEF Discovery!Dispatch

LEMMA DiscoveryBluezKeeps == ASSUME DiscoveryInv, Discovery!Bluez PROVE DiscoveryInv'
<1>1. CASE Discovery!OtherClient
  BY <1>1, EmitKeeps DEF Discovery!OtherClient, Discovery!libVars
<1>2. CASE Discovery!InquiryStarts
  <2>1. CASE Discovery!Handlers > 0
    <3>1. Discovery!Emit("Discovering")
      BY <1>2, <2>1 DEF Discovery!InquiryStarts, Discovery!EmitProperty
    <3> QED  BY <1>2, <3>1, EmitKeeps DEF Discovery!InquiryStarts, Discovery!libVars
  <2>2. CASE ~(Discovery!Handlers > 0)
    <3>1. ~discovery_adapter_proxy
      BY <2>2 DEF DiscoveryInv, Discovery!Handlers
    <3> QED  BY <1>2, <2>2, <3>1 DEF DiscoveryInv, Discovery!InquiryStarts,
             Discovery!EmitProperty, Discovery!libVars
  <2> QED  BY <2>1, <2>2
<1>3. CASE Discovery!InquiryEnds
  BY <1>3, EmitKeeps DEF Discovery!InquiryEnds, Discovery!EmitProperty, Discovery!libVars
<1>4. CASE Discovery!AdapterAppears
  BY <1>4, EmitKeeps DEF Discovery!AdapterAppears, Discovery!libVars
<1>5. ASSUME NEW crash \in BOOLEAN, Discovery!AdapterGoes(crash) PROVE DiscoveryInv'
  BY <1>5, EmitKeeps DEF Discovery!AdapterGoes, Discovery!libVars
<1> QED  BY <1>1, <1>2, <1>3, <1>4, <1>5 DEF Discovery!Bluez

LEMMA DiscoveryNextInv ==
  ASSUME DiscoveryInv, Discovery!Next \/ UNCHANGED discoveryVars
  PROVE  DiscoveryInv'
<1>1. CASE UNCHANGED discoveryVars
  BY <1>1 DEF DiscoveryInv, discoveryVars
<1>2. CASE Discovery!bluetooth_unregister_callback
  <2>1. PICK S : discovery_inbox \in Seq(S)
    BY DEF DiscoveryInv
  <2>2. \E T : discovery_inbox' \in Seq(T)
    BY <1>2, <2>1, KeptIsSequence DEF Discovery!bluetooth_unregister_callback
  <2> QED  BY <1>2, <2>2 DEF DiscoveryInv, Discovery!bluetooth_unregister_callback
<1>3. CASE Discovery!discovery_req_timeout_cb
  BY <1>3, EmitKeeps DEF Discovery!discovery_req_timeout_cb, Discovery!bluezVars
<1> QED  BY <1>1, <1>2, <1>3, DiscoveryCallKeeps, DiscoveryDispatchKeeps, DiscoveryBluezKeeps
         DEF Discovery!Next

(***************************************************************************)
(* Discovery: the types.  There are no more proxies than the bounds allow  *)
(* when the signals that wait have been handled, up to each of them.       *)
(***************************************************************************)

DiscoverySignal == {"Discovering", "NotDiscovering", "AdapterAdded", "AdapterRemoved"}
Adds == {"AdapterAdded"}
Removes == {"AdapterRemoved"}

\* Once the first n signals of the queue are handled, there is a current proxy.
Held(proxy, queue, n) ==
  \/ proxy = 1 /\ \A k \in 1..n : queue[k] \notin Removes
  \/ \E j \in 1..n : queue[j] \in Adds /\ \A k \in j+1..n : queue[k] \notin Removes

\* AdapterRemoved finds a proxy.
RemovesFind(proxy, queue) ==
  \A n \in Nat : n < Len(queue) /\ queue[n + 1] \in Removes => Held(proxy, queue, n)

\* From h proxies each AdapterAdded makes one more, each AdapterRemoved one less.
ProxiesBounded(h, queue) ==
  \A n \in Nat : n <= Len(queue) =>
    h + CountTo(queue, Adds, n) <= MaxLeaked + 1 + CountTo(queue, Removes, n)

Sound(h, proxy, queue) ==
  /\ queue \in Seq(DiscoverySignal)
  /\ ProxiesBounded(h, queue) /\ RemovesFind(proxy, queue)

LEMMA SoundJoined ==
  ASSUME NEW h \in Nat, NEW proxy \in {0, 1}, NEW q, Sound(h, proxy, q), NEW x \in DiscoverySignal,
         MaxLeaked \in Nat,
         x \in Adds => h + CountTo(q, Adds, Len(q)) <= MaxLeaked + CountTo(q, Removes, Len(q)),
         x \in Removes => Held(proxy, q, Len(q)), NEW t, t = Append(q, x)
  PROVE  /\ Sound(h, proxy, t)
         /\ (Held(proxy, q, Len(q)) /\ x \notin Removes) \/ x \in Adds => Held(proxy, t, Len(t))
<1>1. /\ t \in Seq(DiscoverySignal) /\ Len(t) = Len(q) + 1 /\ t[Len(q) + 1] = x /\ Len(q) \in Nat
      /\ \A i \in 1..Len(q) : t[i] = q[i]
  BY DEF Sound
<1>2. PICK n : n = Len(q)
  OBVIOUS
<1>3. \A k \in Nat : k <= n => CountTo(t, Adds, k) = CountTo(q, Adds, k)
                                /\ CountTo(t, Removes, k) = CountTo(q, Removes, k)
  <2> SUFFICES ASSUME NEW k \in Nat, k <= n
               PROVE  CountTo(t, Adds, k) = CountTo(q, Adds, k)
                        /\ CountTo(t, Removes, k) = CountTo(q, Removes, k)
    OBVIOUS
  <2>1. \A i \in 1..k : t[i] = q[i]
    BY <1>1, <1>2
  <2>2. Alike(t, q, k)
    BY <2>1 DEF Alike
  <2> QED  BY <2>2, CountSame
<1>4. ProxiesBounded(h, t)
  <2>1. \A k \in Nat : k <= n => h + CountTo(t, Adds, k) <= MaxLeaked + 1 + CountTo(t, Removes, k)
    BY <1>2, <1>3 DEF Sound, ProxiesBounded
  <2>2. h + CountTo(t, Adds, n + 1) <= MaxLeaked + 1 + CountTo(t, Removes, n + 1)
    <3>1. /\ CountTo(t, Adds, n + 1) = IF x \in Adds THEN CountTo(q, Adds, n) + 1 ELSE CountTo(q, Adds, n)
          /\ CountTo(t, Removes, n + 1) = IF x \in Removes THEN CountTo(q, Removes, n) + 1
                                                           ELSE CountTo(q, Removes, n)
      <4>1. n \in Nat /\ n <= n /\ t[n + 1] = x
        BY <1>1, <1>2
      <4>2. CountTo(t, Adds, n) = CountTo(q, Adds, n) /\ CountTo(t, Removes, n) = CountTo(q, Removes, n)
        BY <1>3, <4>1
      <4>3. \A S : /\ t[n + 1] \in S => CountTo(t, S, n + 1) = CountTo(t, S, n) + 1
                   /\ t[n + 1] \notin S => CountTo(t, S, n + 1) = CountTo(t, S, n)
        BY <4>1, CountNext, Zenon
      <4> QED  BY <4>1, <4>2, <4>3
    <3>2. CountTo(q, Adds, n) \in Nat /\ CountTo(q, Removes, n) \in Nat
      BY <1>1, <1>2, CountIsNat
    <3>3. h + CountTo(q, Adds, n) <= MaxLeaked + 1 + CountTo(q, Removes, n)
      BY <1>1, <1>2 DEF Sound, ProxiesBounded
    <3>4. x \in Adds => h + CountTo(q, Adds, n) <= MaxLeaked + CountTo(q, Removes, n)
      BY <1>2
    <3> QED  BY <3>1, <3>2, <3>3, <3>4
  <2>3. \A k \in Nat : k <= Len(t) => k <= n \/ k = n + 1
    BY <1>1, <1>2
  <2> QED  BY <2>1, <2>2, <2>3 DEF ProxiesBounded
<1>5. ASSUME NEW k \in Nat, k <= n, Held(proxy, q, k) PROVE Held(proxy, t, k)
  <2>1. \A i \in 1..k : t[i] = q[i]
    BY <1>1, <1>2, <1>5
  <2>2. \A j \in 1..k : \A i \in j+1..k : t[i] = q[i]
    BY <1>1, <1>2, <1>5
  <2> QED  BY <1>5, <2>1, <2>2 DEF Held
<1>6. RemovesFind(proxy, t)
  <2> SUFFICES ASSUME NEW k \in Nat, k < Len(t), t[k + 1] \in Removes PROVE Held(proxy, t, k)
    BY DEF RemovesFind
  <2>1. CASE k = n
    BY <1>1, <1>2, <1>5, <2>1
  <2>2. CASE k # n
    <3>1. k < n /\ k <= n /\ k + 1 \in 1..n
      BY <1>1, <1>2, <2>2
    <3>2. q[k + 1] \in Removes
      BY <1>1, <1>2, <3>1
    <3>3. Held(proxy, q, k)
      BY <1>2, <3>1, <3>2 DEF Sound, RemovesFind
    <3> QED  BY <1>5, <3>1, <3>3
  <2> QED  BY <2>1, <2>2
<1>7. ASSUME Held(proxy, q, n), x \notin Removes PROVE Held(proxy, t, n + 1)
  <2>1. Held(proxy, t, n)
    BY <1>1, <1>2, <1>5, <1>7
  <2>2. \A k \in 1..n+1 : k \in 1..n \/ k = n + 1
    BY <1>1, <1>2
  <2>3. \A j \in 1..n : j \in 1..n+1 /\ \A k \in j+1..n+1 : k \in j+1..n \/ k = n + 1
    BY <1>1, <1>2
  <2> QED  BY <1>1, <1>2, <1>7, <2>1, <2>2, <2>3 DEF Held
<1>8. ASSUME x \in Adds PROVE Held(proxy, t, n + 1)
  <2>1. n + 1 \in 1..n+1 /\ \A k \in (n+1)+1..n+1 : FALSE
    BY <1>1, <1>2
  <2> QED  BY <1>1, <1>2, <1>8, <2>1 DEF Held
<1> QED  BY <1>1, <1>2, <1>4, <1>6, <1>7, <1>8 DEF Sound

\* The signal at the head is handled.
Serves(sig, h, proxy, h2, proxy2) ==
  /\ sig \in Adds => h2 = h + 1 /\ proxy2 = 1
  /\ sig \in Removes => h2 + 1 = h
  /\ sig \notin Adds /\ sig \notin Removes => h2 = h /\ proxy2 = proxy

IsRest(h2, proxy2, proxy, q) ==
  /\ Sound(h2, proxy2, Tail(q))
  /\ Held(proxy, q, Len(q)) => Held(proxy2, Tail(q), Len(Tail(q)))

LEMMA SoundRest ==
  ASSUME NEW h \in Nat, NEW proxy \in {0, 1}, NEW q, Sound(h, proxy, q), q # <<>>,
         MaxLeaked \in Nat, NEW h2 \in Nat, NEW proxy2 \in {0, 1},
         Serves(Head(q), h, proxy, h2, proxy2)
  PROVE  IsRest(h2, proxy2, proxy, q)
<1>0. PICK t : t = Tail(q)
  OBVIOUS
<1>1. /\ t \in Seq(DiscoverySignal) /\ Len(t) = Len(q) - 1 /\ Len(q) \in Nat /\ Len(q) # 0
      /\ \A i \in 1..Len(q)-1 : t[i] = q[i + 1]
      /\ Head(q) = q[1]
  BY <1>0 DEF Sound
<1>2. PICK n : n = Len(t)
  OBVIOUS
<1>3. n \in Nat /\ Len(q) = n + 1
  BY <1>1, <1>2
<1>4. Head(q) \notin Adds \/ Head(q) \notin Removes
  BY DEF Adds, Removes
<1>5. ProxiesBounded(h2, t)
  <2> SUFFICES ASSUME NEW k \in Nat, k <= n
               PROVE  h2 + CountTo(t, Adds, k) <= MaxLeaked + 1 + CountTo(t, Removes, k)
    BY <1>2 DEF ProxiesBounded
  <2>1. k < Len(q) /\ k + 1 \in Nat /\ k + 1 <= Len(q)
    BY <1>3
  <2>2. /\ CountTo(q, Adds, k + 1) = IF Head(q) \in Adds THEN CountTo(t, Adds, k) + 1
                                                         ELSE CountTo(t, Adds, k)
        /\ CountTo(q, Removes, k + 1) = IF Head(q) \in Removes THEN CountTo(t, Removes, k) + 1
                                                               ELSE CountTo(t, Removes, k)
    BY <2>1, <1>0, CountRest DEF Sound
  <2>3. CountTo(t, Adds, k) \in Nat /\ CountTo(t, Removes, k) \in Nat
    BY CountIsNat
  <2>4. h + CountTo(q, Adds, k + 1) <= MaxLeaked + 1 + CountTo(q, Removes, k + 1)
    BY <2>1 DEF Sound, ProxiesBounded
  <2>5. CASE Head(q) \in Adds
    BY <1>4, <2>2, <2>3, <2>4, <2>5 DEF Serves
  <2>6. CASE Head(q) \in Removes
    BY <1>4, <2>2, <2>3, <2>4, <2>6 DEF Serves
  <2>7. CASE Head(q) \notin Adds /\ Head(q) \notin Removes
    BY <2>2, <2>3, <2>4, <2>7 DEF Serves
  <2> QED  BY <2>5, <2>6, <2>7
<1>6. ASSUME NEW k \in Nat, k <= n, Held(proxy, q, k + 1) PROVE Held(proxy2, t, k)
  <2>1. \A i \in 1..k : i + 1 \in 1..k+1 /\ t[i] = q[i + 1] /\ i + 1 # 1
    BY <1>1, <1>3, <1>6
  <2>2. CASE proxy = 1 /\ \A i \in 1..k+1 : q[i] \notin Removes
    <3>1. 1 \in 1..k+1
      OBVIOUS
    <3>2. proxy2 = 1
      BY <1>1, <2>2, <3>1 DEF Serves
    <3>3. \A i \in 1..k : t[i] \notin Removes
      BY <2>1, <2>2
    <3> QED  BY <3>2, <3>3 DEF Held
  <2>3. CASE \E j \in 1..k+1 : q[j] \in Adds /\ \A i \in j+1..k+1 : q[i] \notin Removes
    <3>1. PICK j \in 1..k+1 : q[j] \in Adds /\ \A i \in j+1..k+1 : q[i] \notin Removes
      BY <2>3
    <3>2. CASE j = 1
      <4>1. proxy2 = 1
        BY <1>1, <3>1, <3>2 DEF Serves
      <4>2. \A i \in 1..k : i + 1 \in j+1..k+1
        BY <3>2
      <4>3. \A i \in 1..k : t[i] \notin Removes
        BY <2>1, <3>1, <4>2
      <4> QED  BY <4>1, <4>3 DEF Held
    <3>3. CASE j # 1
      <4>1. PICK j2 \in 1..k : j = j2 + 1
        <5>1. j - 1 \in 1..k /\ j = (j - 1) + 1
          BY <3>3
        <5> QED  BY <5>1
      <4>2. \A i \in j2+1..k : i \in 1..k /\ i + 1 \in j+1..k+1
        BY <4>1
      <4>3. t[j2] \in Adds /\ \A i \in j2+1..k : t[i] \notin Removes
        BY <2>1, <3>1, <4>1, <4>2
      <4> QED  BY <4>3 DEF Held
    <3> QED  BY <3>2, <3>3
  <2> QED  BY <1>6, <2>2, <2>3 DEF Held
<1>7. RemovesFind(proxy2, t)
  <2> SUFFICES ASSUME NEW k \in Nat, k < n, t[k + 1] \in Removes PROVE Held(proxy2, t, k)
    BY <1>2 DEF RemovesFind
  <2>1. k + 1 \in Nat /\ k + 1 < Len(q) /\ k + 1 \in 1..Len(q)-1 /\ k <= n
    BY <1>3
  <2>2. q[(k + 1) + 1] \in Removes
    BY <1>1, <2>1
  <2>3. Held(proxy, q, k + 1)
    BY <2>1, <2>2 DEF Sound, RemovesFind
  <2> QED  BY <1>6, <2>1, <2>3
<1>8. Sound(h2, proxy2, t) /\ (Held(proxy, q, Len(q)) => Held(proxy2, t, Len(t)))
  BY <1>1, <1>2, <1>3, <1>5, <1>6, <1>7 DEF Sound
<1> QED  BY <1>0, <1>8 DEF IsRest

NoAdapter(queue) == \A i \in 1..Len(queue) : queue[i] \notin Adds /\ queue[i] \notin Removes

LEMMA SoundQuiet ==
  ASSUME NEW q \in Seq(DiscoverySignal), NoAdapter(q), MaxLeaked \in Nat, NEW h \in Nat,
         h <= MaxLeaked + 1, NEW proxy \in {0, 1}
  PROVE  /\ Sound(h, proxy, q) /\ (proxy = 1 => Held(proxy, q, Len(q)))
         /\ CountTo(q, Adds, Len(q)) = 0 /\ CountTo(q, Removes, Len(q)) = 0
<1>1. Len(q) \in Nat
  OBVIOUS
<1>2. ASSUME NEW n \in Nat, n <= Len(q)
      PROVE  CountTo(q, Adds, n) = 0 /\ CountTo(q, Removes, n) = 0
  <2>1. \A i \in 0+1..n : q[i] \notin Adds /\ q[i] \notin Removes
    BY <1>1, <1>2 DEF NoAdapter
  <2>2. 0 \in Nat /\ 0 <= n
    BY <1>2
  <2>3. CountTo(q, Adds, n) = CountTo(q, Adds, 0)
    BY <2>1, <2>2, CountSkips
  <2>4. CountTo(q, Removes, n) = CountTo(q, Removes, 0)
    BY <2>1, <2>2, CountSkips
  <2> QED  BY <2>3, <2>4, CountNothing
<1>3. ProxiesBounded(h, q)
  BY <1>2 DEF ProxiesBounded
<1>4. RemovesFind(proxy, q)
  <2> SUFFICES ASSUME NEW n \in Nat, n < Len(q), q[n + 1] \in Removes PROVE FALSE
    BY DEF RemovesFind
  <2>1. n + 1 \in 1..Len(q)
    BY <1>1
  <2> QED  BY <2>1 DEF NoAdapter
<1>5. proxy = 1 => Held(proxy, q, Len(q))
  BY DEF Held, NoAdapter
<1> QED  BY <1>1, <1>2, <1>3, <1>4, <1>5 DEF Sound

\* The current proxy, counted.
Current == IF discovery_adapter_proxy THEN 1 ELSE 0

\* What the library and the bus know of the adapter, all signals considered.
QueueSound ==
  /\ Sound(Discovery!Handlers, Current, discovery_inbox)
  /\ Len(discovery_inbox) <= MaxSignals
  /\ discovery_application_pid /\ discovery_hci0
       => Held(Current, discovery_inbox, Len(discovery_inbox))
  /\ ~discovery_application_pid => Current = 0 /\ NoAdapter(discovery_inbox)

DiscoveryTyped ==
  /\ discovery_application_pid \in BOOLEAN /\ bt_cb_ptr \in BOOLEAN
  /\ discovery_adapter_proxy \in BOOLEAN /\ leaked \in 0..MaxLeaked
  /\ is_discovering \in BOOLEAN /\ is_discovery_cancel \in BOOLEAN
  /\ req_timer \in BOOLEAN /\ res_timers \in 0..MaxResTimers
  /\ discovery_event \in Discovery!Events
  /\ discovery_hci0 \in BOOLEAN /\ discovering \in BOOLEAN
  /\ own_session \in BOOLEAN /\ other_session \in BOOLEAN

LEMMA TypedIsTypeOK == DiscoveryTyped /\ QueueSound => Discovery!TypeOK
BY DEF DiscoveryTyped, QueueSound, Sound, DiscoverySignal, Discovery!TypeOK

LEMMA HandlersAre ==
  ASSUME DiscoveryTyped, Discovery!BoundsAssumption
  PROVE  Discovery!Handlers \in Nat /\ MaxLeaked \in Nat
           /\ Discovery!Handlers = leaked + Current /\ Current \in {0, 1}
           /\ leaked \in Nat /\ leaked <= MaxLeaked
BY DEF DiscoveryTyped, Current, Discovery!Handlers, Discovery!BoundsAssumption

\* Steps that leave the queue and the proxies alone.
LEMMA QueueKept ==
  ASSUME QueueSound, UNCHANGED <<discovery_application_pid, discovery_adapter_proxy, leaked>>,
         UNCHANGED discovery_inbox, discovery_hci0' => discovery_hci0
  PROVE  QueueSound'
<1>1. Discovery!Handlers' = Discovery!Handlers /\ Current' = Current
  BY DEF Discovery!Handlers, Current
<1> QED  BY <1>1 DEF QueueSound

\* A signal is sent.
LEMMA QueueEmits ==
  ASSUME QueueSound, DiscoveryTyped, Discovery!BoundsAssumption, NEW sig \in DiscoverySignal,
         Discovery!Emit(sig),
         UNCHANGED <<discovery_application_pid, discovery_adapter_proxy, leaked>>,
         sig \in Adds => Discovery!RoomForProxy \/ (/\ discovery_adapter_proxy /\ discovery_inbox # <<>>
                                                   /\ Discovery!Last(discovery_inbox) = "AdapterRemoved"),
         sig \in Adds \cup Removes => discovery_application_pid,
         sig \in Removes => discovery_hci0 /\ ~discovery_hci0',
         discovery_hci0' => discovery_hci0 \/ sig \in Adds
  PROVE  QueueSound'
<1>1. PICK q : q = discovery_inbox
  OBVIOUS
<1>2. PICK h : h = Discovery!Handlers
  OBVIOUS
<1>3. PICK proxy : proxy = Current
  OBVIOUS
<1>4. PICK t : t = Append(q, sig)
  OBVIOUS
<1>5. h \in Nat /\ MaxLeaked \in Nat /\ proxy \in {0, 1} /\ Sound(h, proxy, q)
  BY <1>1, <1>2, <1>3, HandlersAre DEF QueueSound
<1>6. /\ q \in Seq(DiscoverySignal) /\ Len(q) \in Nat /\ Len(t) = Len(q) + 1
      /\ \A i \in 1..Len(q) : t[i] = q[i]
      /\ t[Len(q) + 1] = sig
  BY <1>4, <1>5 DEF Sound
<1>7. discovery_inbox' = t /\ Len(q) < MaxSignals
  BY <1>1, <1>4 DEF Discovery!Emit
<1>8. CountTo(q, Adds, Len(q)) \in Nat /\ CountTo(q, Removes, Len(q)) \in Nat
  BY <1>6, CountIsNat
<1>9. sig \in Adds => h + CountTo(q, Adds, Len(q)) <= MaxLeaked + CountTo(q, Removes, Len(q))
  <2>1. CASE Discovery!RoomForProxy
    <3>1. {i \in DOMAIN q : q[i] = "AdapterAdded"} = {i \in 1..Len(q) : q[i] \in Adds}
      BY <1>6 DEF Adds
    <3>2. Discovery!Cardinality({i \in DOMAIN q : q[i] = "AdapterAdded"}) = CountTo(q, Adds, Len(q))
      BY <3>1 DEF CountTo, Discovery!Cardinality, Cardinality
    <3>3. leaked + CountTo(q, Adds, Len(q)) + Current <= MaxLeaked
      BY <1>1, <2>1, <3>2 DEF Discovery!RoomForProxy, Current
    <3>4. leaked \in Nat /\ h = leaked + Current /\ Current \in {0, 1}
      BY <1>2, HandlersAre
    <3>5. h + CountTo(q, Adds, Len(q)) <= MaxLeaked
      BY <1>8, <3>3, <3>4
    <3> QED  BY <1>5, <1>8, <3>5
  <2>2. CASE q # <<>> /\ Discovery!Last(q) = "AdapterRemoved"
    <3>1. PICK n : n = Len(q) - 1
      OBVIOUS
    <3>2. n \in Nat /\ n + 1 = Len(q) /\ n + 1 <= Len(q)
      BY <1>6, <2>2, <3>1
    <3>3. q[n + 1] \in Removes /\ q[n + 1] \notin Adds
      BY <2>2, <3>2 DEF Discovery!Last, Adds, Removes
    <3>4. /\ CountTo(q, Adds, n + 1) = CountTo(q, Adds, n)
          /\ CountTo(q, Removes, n + 1) = CountTo(q, Removes, n) + 1
      BY <3>2, <3>3, CountNext
    <3>5. CountTo(q, Adds, n) \in Nat /\ CountTo(q, Removes, n) \in Nat
      BY <3>2, CountIsNat
    <3>6. h + CountTo(q, Adds, n) <= MaxLeaked + 1 + CountTo(q, Removes, n)
      <4>1. n <= Len(q)
        BY <3>2
      <4> QED  BY <1>5, <3>2, <4>1 DEF Sound, ProxiesBounded
    <3> QED  BY <1>5, <3>2, <3>4, <3>5, <3>6
  <2> QED  BY <1>1, <2>1, <2>2
<1>10. sig \in Removes => Held(proxy, q, Len(q))
  BY <1>1, <1>3 DEF QueueSound
<1>11. /\ Sound(h, proxy, t)
       /\ (Held(proxy, q, Len(q)) /\ sig \notin Removes) \/ sig \in Adds => Held(proxy, t, Len(t))
  BY <1>4, <1>5, <1>9, <1>10, SoundJoined
<1>12. Discovery!Handlers' = h /\ Current' = proxy
  BY <1>2, <1>3 DEF Discovery!Handlers, Current
<1>13. discovery_application_pid /\ discovery_hci0' => Held(proxy, t, Len(t))
  <2>1. discovery_application_pid /\ discovery_hci0 => Held(proxy, q, Len(q))
    BY <1>1, <1>3 DEF QueueSound
  <2> QED  BY <1>11, <2>1
<1>14. ~discovery_application_pid => proxy = 0 /\ NoAdapter(t)
  <2> SUFFICES ASSUME ~discovery_application_pid PROVE proxy = 0 /\ NoAdapter(t)
    OBVIOUS
  <2>1. proxy = 0 /\ NoAdapter(q) /\ sig \notin Adds /\ sig \notin Removes
    BY <1>1, <1>3 DEF QueueSound
  <2>2. \A i \in 1..Len(t) : i \in 1..Len(q) \/ i = Len(q) + 1
    BY <1>6
  <2> QED  BY <1>6, <2>1, <2>2 DEF NoAdapter
<1>15. Len(t) <= MaxSignals
  BY <1>6, <1>7 DEF Discovery!BoundsAssumption
<1> QED  BY <1>7, <1>11, <1>12, <1>13, <1>14, <1>15 DEF QueueSound

\* A session that opens finds the adapter, or none; no signal of an adapter waits yet, but
\* that of the adapter it found late.
LEMMA QueueOpens ==
  ASSUME QueueSound, DiscoveryTyped, Discovery!BoundsAssumption, NEW late \in BOOLEAN,
         Discovery!session_init(late), discovery_application_pid' = TRUE, UNCHANGED leaked
  PROVE  QueueSound' /\ discovery_adapter_proxy' \in BOOLEAN /\ discovery_hci0' \in BOOLEAN
<1>1. CASE discovery_application_pid
  <2>1. UNCHANGED <<discovery_adapter_proxy, discovery_hci0, discovery_inbox>>
    BY <1>1 DEF Discovery!session_init
  <2>2. discovery_application_pid' = discovery_application_pid
    BY <1>1 DEF DiscoveryTyped
  <2> QED  BY <2>1, <2>2, QueueKept DEF DiscoveryTyped
<1>2. CASE ~discovery_application_pid
  <2>1. PICK q : q = discovery_inbox
    OBVIOUS
  <2>2. PICK h : h = Discovery!Handlers'
    OBVIOUS
  <2>3. PICK proxy : proxy = Current'
    OBVIOUS
  <2>4. /\ discovery_hci0' = (discovery_hci0 \/ late)
        /\ discovery_adapter_proxy' = discovery_hci0'
    BY <1>2 DEF Discovery!session_init
  <2>5. /\ discovery_hci0' \in BOOLEAN /\ discovery_adapter_proxy' \in BOOLEAN
        /\ proxy \in {0, 1} /\ (late => proxy = 1) /\ (discovery_hci0' => proxy = 1)
    <3>1. discovery_hci0' \in BOOLEAN /\ discovery_adapter_proxy' \in BOOLEAN /\ (late => discovery_hci0')
      BY <2>4 DEF DiscoveryTyped
    <3> QED  BY <2>3, <2>4, <3>1 DEF Current
  <2>6. /\ leaked \in Nat /\ leaked <= MaxLeaked /\ MaxLeaked \in Nat
        /\ h = leaked + proxy
    BY <2>2, <2>3, <2>5 DEF Discovery!Handlers, Current, DiscoveryTyped, Discovery!BoundsAssumption
  <2>7. q \in Seq(DiscoverySignal) /\ NoAdapter(q) /\ Len(q) <= MaxSignals /\ Len(q) \in Nat
    BY <1>2, <2>1 DEF QueueSound, Sound
  <2>8. h \in Nat /\ h <= MaxLeaked + 1
    <3>1. proxy = 0 \/ proxy = 1
      BY <2>5
    <3> QED  BY <2>6, <3>1
  <2>9. /\ Sound(h, proxy, q) /\ (proxy = 1 => Held(proxy, q, Len(q)))
        /\ CountTo(q, Adds, Len(q)) = 0 /\ CountTo(q, Removes, Len(q)) = 0
    BY <2>5, <2>6, <2>7, <2>8, SoundQuiet
  <2>10. CASE ~late
    <3>1. discovery_inbox' = q
      BY <1>2, <2>1, <2>10 DEF Discovery!session_init
    <3> QED  BY <2>2, <2>3, <2>5, <2>7, <2>9, <3>1 DEF QueueSound
  <2>11. CASE late
    <3>1. PICK t : t = Append(q, "AdapterAdded")
      OBVIOUS
    <3>2. discovery_inbox' = t /\ Len(q) < MaxSignals /\ leaked < MaxLeaked
      BY <1>2, <2>1, <2>11, <3>1 DEF Discovery!session_init, Discovery!Emit
    <3>3. PICK x : x = "AdapterAdded"
      OBVIOUS
    <3>4. x \in DiscoverySignal /\ x \in Adds /\ x \notin Removes /\ t = Append(q, x)
      BY <3>1, <3>3 DEF DiscoverySignal, Adds, Removes
    <3>5. h + CountTo(q, Adds, Len(q)) <= MaxLeaked + CountTo(q, Removes, Len(q))
      <4>1. proxy = 1 /\ leaked + 1 <= MaxLeaked
        BY <2>5, <2>6, <2>11, <3>2
      <4>2. h + 0 <= MaxLeaked + 0
        BY <2>6, <4>1
      <4>3. CountTo(q, Adds, Len(q)) = 0 /\ CountTo(q, Removes, Len(q)) = 0
        BY <2>9
      <4> QED  BY <4>2, <4>3
    <3>6. Sound(h, proxy, t) /\ Held(proxy, t, Len(t))
      BY <2>5, <2>6, <2>8, <2>9, <3>4, <3>5, SoundJoined
    <3>7. Len(t) <= MaxSignals
      BY <2>7, <3>1, <3>2 DEF Discovery!BoundsAssumption
    <3> QED  BY <2>2, <2>3, <2>5, <3>2, <3>6, <3>7 DEF QueueSound
  <2> QED  BY <2>4, <2>5, <2>10, <2>11, <2>3
<1> QED  BY <1>1, <1>2

\* The signal at the head is handled.
LEMMA QueueServed ==
  ASSUME QueueSound, DiscoveryTyped, Discovery!BoundsAssumption, discovery_inbox # <<>>,
         discovery_inbox' = Tail(discovery_inbox),
         UNCHANGED <<discovery_application_pid, discovery_hci0>>,
         \/ /\ Head(discovery_inbox) = "AdapterAdded"
            /\ discovery_adapter_proxy' = TRUE /\ leaked' = Discovery!Handlers
         \/ /\ Head(discovery_inbox) = "AdapterRemoved"
            /\ discovery_adapter_proxy' = FALSE /\ UNCHANGED leaked
         \/ /\ Head(discovery_inbox) \in {"Discovering", "NotDiscovering"}
            /\ UNCHANGED <<discovery_adapter_proxy, leaked>>
  PROVE  /\ QueueSound' /\ discovery_adapter_proxy' \in BOOLEAN /\ leaked' \in 0..MaxLeaked
<1>1. PICK q : q = discovery_inbox
  OBVIOUS
<1>2. PICK t : t = Tail(q)
  OBVIOUS
<1>3. PICK h : h = Discovery!Handlers
  OBVIOUS
<1>4. PICK h2 : h2 = Discovery!Handlers'
  OBVIOUS
<1>5. PICK proxy : proxy = Current
  OBVIOUS
<1>6. PICK proxy2 : proxy2 = Current'
  OBVIOUS
<1>7. /\ h \in Nat /\ MaxLeaked \in Nat /\ proxy \in {0, 1} /\ Sound(h, proxy, q)
      /\ leaked \in Nat /\ leaked <= MaxLeaked /\ h = leaked + proxy
  BY <1>1, <1>3, <1>5, HandlersAre DEF QueueSound
<1>8. /\ q # <<>> /\ q \in Seq(DiscoverySignal) /\ Len(q) \in Nat /\ Len(q) # 0 /\ Head(q) = q[1]
      /\ t \in Seq(DiscoverySignal) /\ Len(t) = Len(q) - 1
      /\ \A i \in 1..Len(t) : i + 1 \in 1..Len(q) /\ t[i] = q[i + 1]
  BY <1>1, <1>2, <1>7 DEF Sound
<1>9. 0 \in Nat /\ 0 + 1 = 1 /\ 1 <= Len(q) /\ 0 < Len(q)
  BY <1>8
<1>10. Head(q) \in Adds => h <= MaxLeaked
  <2> SUFFICES ASSUME Head(q) \in Adds PROVE h <= MaxLeaked
    OBVIOUS
  <2>1. Head(q) \notin Removes
    BY DEF Adds, Removes
  <2>2. CountTo(q, Adds, 0 + 1) = CountTo(q, Adds, 0) + 1 /\ CountTo(q, Removes, 0 + 1) = CountTo(q, Removes, 0)
    BY <1>8, <1>9, <2>1, CountNext
  <2>3. CountTo(q, Adds, 1) = 1 /\ CountTo(q, Removes, 1) = 0
    BY <1>9, <2>2, CountNothing
  <2>4. h + CountTo(q, Adds, 1) <= MaxLeaked + 1 + CountTo(q, Removes, 1)
    BY <1>7, <1>9 DEF Sound, ProxiesBounded
  <2> QED  BY <1>7, <2>3, <2>4
<1>11. Head(q) \in Removes => proxy = 1
  <2> SUFFICES ASSUME Head(q) \in Removes PROVE proxy = 1
    OBVIOUS
  <2>1. Held(proxy, q, 0)
    BY <1>7, <1>8, <1>9 DEF Sound, RemovesFind
  <2> QED  BY <2>1 DEF Held
<1>12. h2 = leaked' + proxy2
  BY <1>4, <1>6 DEF Discovery!Handlers, Current
<1>13. /\ h2 \in Nat /\ proxy2 \in {0, 1} /\ leaked' \in Nat /\ leaked' <= MaxLeaked
       /\ Serves(Head(q), h, proxy, h2, proxy2)
  <2>1. CASE Head(q) = "AdapterAdded"
    <3>1. /\ proxy2 = 1 /\ leaked' = h
          /\ Head(q) \in Adds /\ Head(q) \notin Removes
      BY <1>1, <1>3, <1>6, <2>1 DEF Adds, Removes, Current
    <3>2. h <= MaxLeaked /\ h2 = h + 1
      BY <1>10, <1>12, <3>1
    <3> QED  BY <1>7, <3>1, <3>2 DEF Serves
  <2>2. CASE Head(q) = "AdapterRemoved"
    <3>1. /\ proxy2 = 0 /\ leaked' = leaked
          /\ Head(q) \in Removes /\ Head(q) \notin Adds
      BY <1>1, <1>6, <2>2 DEF Adds, Removes, Current
    <3>2. h = leaked + 1 /\ h2 = leaked
      BY <1>7, <1>11, <1>12, <3>1
    <3> QED  BY <1>7, <3>1, <3>2 DEF Serves
  <2>3. CASE Head(q) \in {"Discovering", "NotDiscovering"}
    <3>1. proxy2 = proxy /\ leaked' = leaked
      BY <1>1, <1>5, <1>6, <2>3 DEF Adds, Removes, Current
    <3>2. Head(q) \notin Removes /\ Head(q) \notin Adds
      BY <1>1, <2>3 DEF Adds, Removes
    <3>3. h2 = h
      BY <1>7, <1>12, <3>1
    <3> QED  BY <1>7, <3>1, <3>2, <3>3 DEF Serves
  <2> QED  BY <1>1, <2>1, <2>2, <2>3
<1>14. Sound(h2, proxy2, t) /\ (Held(proxy, q, Len(q)) => Held(proxy2, t, Len(t)))
  <2>1. h \in Nat /\ MaxLeaked \in Nat /\ proxy \in {0, 1} /\ Sound(h, proxy, q) /\ q # <<>>
    BY <1>7, <1>8
  <2>2. h2 \in Nat /\ proxy2 \in {0, 1} /\ Serves(Head(q), h, proxy, h2, proxy2)
    BY <1>13
  <2>3. t = Tail(q)
    BY <1>2
  <2>4. IsRest(h2, proxy2, proxy, q)
    BY <2>1, <2>2, SoundRest
  <2> QED  BY <2>3, <2>4 DEF IsRest
<1>15. Len(t) <= MaxSignals
  BY <1>1, <1>8 DEF QueueSound, Discovery!BoundsAssumption
<1>16. discovery_application_pid /\ discovery_hci0 => Held(proxy2, t, Len(t))
  BY <1>1, <1>5, <1>14 DEF QueueSound
<1>17. ~discovery_application_pid => proxy2 = 0 /\ NoAdapter(t)
  <2> SUFFICES ASSUME ~discovery_application_pid PROVE proxy2 = 0 /\ NoAdapter(t)
    OBVIOUS
  <2>1. proxy = 0 /\ NoAdapter(q)
    BY <1>1, <1>5 DEF QueueSound
  <2>2. 1 \in 1..Len(q)
    BY <1>8
  <2>3. Head(q) \notin Adds /\ Head(q) \notin Removes
    BY <1>8, <2>1, <2>2 DEF NoAdapter
  <2>4. proxy2 = 0
    BY <1>13, <2>1, <2>3 DEF Serves
  <2>5. \A i \in 1..Len(t) : i + 1 \in 1..Len(q) /\ t[i] = q[i + 1]
    BY <1>8
  <2>6. NoAdapter(t)
    BY <2>1, <2>5 DEF NoAdapter
  <2> QED  BY <2>4, <2>6
<1>18. discovery_inbox' = t
  BY <1>1, <1>2
<1>19. QueueSound'
  BY <1>4, <1>6, <1>14, <1>15, <1>16, <1>17, <1>18 DEF QueueSound
<1>20. discovery_adapter_proxy' \in BOOLEAN
  BY DEF DiscoveryTyped
<1> QED  BY <1>7, <1>13, <1>19, <1>20

\* The session is closed: of the queue only signals of the leaked proxies stay.
LEMMA QueueCloses ==
  ASSUME QueueSound, DiscoveryTyped, Discovery!BoundsAssumption,
         Discovery!bluetooth_unregister_callback
  PROVE  QueueSound'
<1>1. PICK q : q = discovery_inbox
  OBVIOUS
<1>2. PICK kept : /\ discovery_inbox' = Discovery!Kept(q, kept)
                  /\ kept = IF leaked > 0 THEN {"Discovering", "NotDiscovering"} ELSE {}
  BY <1>1 DEF Discovery!bluetooth_unregister_callback
<1>3. PICK at : at = {i \in DOMAIN q : q[i] \in kept}
  OBVIOUS
<1>4. PICK t : t = [k \in 1..Cardinality(at) |-> q[CHOOSE i \in at : Cardinality({j \in at : j <= i}) = k]]
  OBVIOUS
<1>5. discovery_inbox' = t
  <2>1. discovery_inbox' = Discovery!Kept(q, kept)
    BY <1>2
  <2>2. Discovery!Kept(q, kept) = t
    BY <1>3, <1>4, SMTT(30) DEF Discovery!Kept, Discovery!Cardinality, Cardinality
  <2> QED  BY <2>1, <2>2
<1>6. q \in Seq(DiscoverySignal) /\ at \subseteq DOMAIN q /\ Len(q) <= MaxSignals /\ Len(q) \in Nat
  BY <1>1, <1>3 DEF QueueSound, Sound
<1>7. /\ t \in Seq({q[i] : i \in at})
      /\ Cardinality(at) \in Nat /\ Cardinality(at) <= Len(q)
  BY <1>4, <1>6, PickedItems
<1>8. Len(t) = Cardinality(at)
  BY <1>4, <1>7
<1>9. {q[i] : i \in at} \subseteq {"Discovering", "NotDiscovering"}
  BY <1>2, <1>3
<1>10. t \in Seq({"Discovering", "NotDiscovering"})
  BY <1>7, <1>9
<1>11. t \in Seq(DiscoverySignal) /\ NoAdapter(t)
  BY <1>10 DEF DiscoverySignal, NoAdapter, Adds, Removes
<1>12. /\ discovery_application_pid' = FALSE /\ discovery_adapter_proxy' = FALSE
       /\ UNCHANGED leaked
  BY DEF Discovery!bluetooth_unregister_callback
<1>13. PICK h : h = Discovery!Handlers'
  OBVIOUS
<1>14. h = leaked /\ h \in Nat /\ h <= MaxLeaked + 1 /\ MaxLeaked \in Nat
  BY <1>12, <1>13 DEF Discovery!Handlers, DiscoveryTyped, Discovery!BoundsAssumption
<1>15. PICK proxy : proxy = Current' /\ proxy \in {0, 1} /\ proxy = 0
  BY <1>12 DEF Current
<1>16. Sound(h, proxy, t)
  BY <1>11, <1>14, <1>15, SoundQuiet
<1>17. Len(t) <= MaxSignals
  BY <1>6, <1>7, <1>8 DEF Discovery!BoundsAssumption
<1> QED  BY <1>5, <1>11, <1>12, <1>13, <1>15, <1>16, <1>17 DEF QueueSound

\* What a handler reports is an event, or none without a callback.
LEMMA EventsReported ==
  ASSUME NEW e \in Discovery!Events, Discovery!event_cb(e)
  PROVE  discovery_event' \in Discovery!Events
BY DEF Discovery!event_cb, Discovery!Events

LEMMA ResultIsEvent == Discovery!Finished(Discovery!FinishedResult) \in Discovery!Events
<1>1. CASE is_discovery_cancel
  BY <1>1 DEF Discovery!FinishedResult, Discovery!Events
<1>2. CASE ~is_discovery_cancel
  BY <1>2 DEF Discovery!FinishedResult, Discovery!Events
<1> QED  BY <1>1, <1>2

\* The fields of a session that opens.
LEMMA SessionTyped ==
  ASSUME DiscoveryTyped, discovery_hci0' \in BOOLEAN
  PROVE  Discovery!DiscoveringAfterInit \in BOOLEAN
BY DEF DiscoveryTyped, Discovery!DiscoveringAfterInit

LEMMA CallsTyped ==
  ASSUME QueueSound, DiscoveryTyped, Discovery!BoundsAssumption, Discovery!ApplicationCall
  PROVE  DiscoveryTyped' /\ QueueSound'
<1>1. PICK late \in BOOLEAN :
        /\ Discovery!session_init(late) /\ discovery_application_pid' = TRUE
        /\ is_discovering' = Discovery!DiscoveringAfterInit
        /\ discovery_event' = Discovery!NoEvent
        /\ UNCHANGED <<leaked, res_timers, discovering, other_session>>
        /\ bt_cb_ptr' \in {bt_cb_ptr, TRUE}
        /\ is_discovery_cancel' \in {is_discovery_cancel, TRUE}
        /\ req_timer' \in {req_timer, TRUE, FALSE}
        /\ own_session' \in {own_session, TRUE, FALSE}
  <2>1. PICK late \in BOOLEAN :
          \/ Discovery!bluetooth_register_callback(late)
          \/ \E accepted \in BOOLEAN : Discovery!bluetooth_start_discovery(late, accepted)
          \/ Discovery!bluetooth_cancel_discovery(late)
    BY DEF Discovery!ApplicationCall
  <2>2. CASE Discovery!bluetooth_register_callback(late)
    BY <2>2 DEF Discovery!bluetooth_register_callback
  <2>3. CASE \E accepted \in BOOLEAN : Discovery!bluetooth_start_discovery(late, accepted)
    BY <2>3 DEF Discovery!bluetooth_start_discovery
  <2>4. CASE Discovery!bluetooth_cancel_discovery(late)
    BY <2>4 DEF Discovery!bluetooth_cancel_discovery
  <2> QED  BY <2>1, <2>2, <2>3, <2>4
<1>2. QueueSound' /\ discovery_adapter_proxy' \in BOOLEAN /\ discovery_hci0' \in BOOLEAN
  BY <1>1, QueueOpens
<1>3. is_discovering' \in BOOLEAN
  BY <1>1, <1>2, SessionTyped
<1>4. DiscoveryTyped'
  BY <1>1, <1>2, <1>3 DEF DiscoveryTyped, Discovery!Events
<1> QED  BY <1>2, <1>4

LEMMA FinishedTimerTyped ==
  ASSUME QueueSound, DiscoveryTyped, Discovery!BoundsAssumption, Discovery!FinishedTimer
  PROVE  DiscoveryTyped' /\ QueueSound'
<1>1. PICK late \in BOOLEAN : Discovery!bt_discovery_finished_cb(late)
  BY DEF Discovery!FinishedTimer
<1>2. /\ Discovery!session_init(late) /\ discovery_application_pid' = TRUE
      /\ res_timers > 0 /\ res_timers' = res_timers - 1
      /\ UNCHANGED <<leaked, bt_cb_ptr, req_timer, discovering, own_session, other_session>>
  BY <1>1 DEF Discovery!bt_discovery_finished_cb
<1>3. QueueSound' /\ discovery_adapter_proxy' \in BOOLEAN /\ discovery_hci0' \in BOOLEAN
  BY <1>2, QueueOpens
<1>4. /\ is_discovering' \in BOOLEAN /\ is_discovery_cancel' \in BOOLEAN
      /\ discovery_event' \in Discovery!Events
  <2>1. CASE Discovery!NotDiscoveringNow
    <3>1. Discovery!discovery_completed_cb
      BY <1>1, <2>1 DEF Discovery!bt_discovery_finished_cb
    <3>2. discovery_event' \in Discovery!Events
      BY <3>1, ResultIsEvent, EventsReported DEF Discovery!discovery_completed_cb
    <3> QED  BY <3>1, <3>2 DEF Discovery!discovery_completed_cb
  <2>2. CASE ~Discovery!NotDiscoveringNow
    BY <1>1, <1>3, <2>2, SessionTyped
       DEF Discovery!bt_discovery_finished_cb, DiscoveryTyped, Discovery!Events
  <2> QED  BY <2>1, <2>2
<1>5. res_timers' \in 0..MaxResTimers
  BY <1>2 DEF DiscoveryTyped, Discovery!BoundsAssumption
<1>6. DiscoveryTyped'
  BY <1>2, <1>3, <1>4, <1>5 DEF DiscoveryTyped
<1> QED  BY <1>3, <1>6

LEMMA DispatchTyped ==
  ASSUME QueueSound, DiscoveryTyped, Discovery!BoundsAssumption, Discovery!Dispatch
  PROVE  DiscoveryTyped' /\ QueueSound'
<1>1. CASE Discovery!adapter_property_discovering
  <2>1. /\ discovery_inbox # <<>> /\ discovery_inbox' = Tail(discovery_inbox)
        /\ Head(discovery_inbox) \in {"Discovering", "NotDiscovering"}
        /\ UNCHANGED <<discovery_application_pid, discovery_hci0, discovery_adapter_proxy, leaked>>
    BY <1>1 DEF Discovery!bluezVars, Discovery!adapter_property_discovering
  <2>2. QueueSound' /\ discovery_adapter_proxy' \in BOOLEAN /\ leaked' \in 0..MaxLeaked
    BY <2>1, QueueServed
  <2>3. /\ UNCHANGED <<discovery_application_pid, discovery_hci0, bt_cb_ptr, is_discovery_cancel,
                       res_timers, discovering, own_session, other_session>>
        /\ is_discovering' \in {is_discovering, TRUE} /\ req_timer' \in {req_timer, FALSE}
    BY <1>1 DEF Discovery!bluezVars, Discovery!adapter_property_discovering, Discovery!discovery_started_cb
  <2>4. discovery_event' \in Discovery!Events
    <3>1. Discovery!Started("NONE") \in Discovery!Events /\ Discovery!NoEvent \in Discovery!Events
      BY DEF Discovery!Events
    <3>2. discovery_event' = Discovery!NoEvent \/ Discovery!event_cb(Discovery!Started("NONE"))
      BY <1>1 DEF Discovery!bluezVars, Discovery!adapter_property_discovering, Discovery!discovery_started_cb
    <3> QED  BY <3>1, <3>2, EventsReported
  <2>5. DiscoveryTyped'
    BY <2>2, <2>3, <2>4 DEF DiscoveryTyped
  <2> QED  BY <2>2, <2>5
<1>2. CASE Discovery!adapter_property_not_discovering
  <2>1. /\ discovery_inbox # <<>> /\ discovery_inbox' = Tail(discovery_inbox)
        /\ Head(discovery_inbox) \in {"Discovering", "NotDiscovering"}
        /\ UNCHANGED <<discovery_application_pid, discovery_hci0, discovery_adapter_proxy, leaked>>
    BY <1>2 DEF Discovery!bluezVars, Discovery!adapter_property_not_discovering
  <2>2. QueueSound' /\ discovery_adapter_proxy' \in BOOLEAN /\ leaked' \in 0..MaxLeaked
    BY <2>1, QueueServed
  <2>3. /\ UNCHANGED <<discovery_application_pid, discovery_hci0, bt_cb_ptr, is_discovery_cancel,
                       is_discovering, req_timer, discovering, other_session>>
        /\ own_session' \in BOOLEAN /\ discovery_event' \in Discovery!Events
    BY <1>2 DEF Discovery!bluezVars, Discovery!adapter_property_not_discovering, Discovery!Events
  <2>4. PICK h : h = Discovery!Handlers
    OBVIOUS
  <2>5. h \in Nat
    BY <2>4, HandlersAre
  <2>6. res_timers' \in 0..MaxResTimers
    <3>1. res_timers + h <= MaxResTimers /\ res_timers' = res_timers + h
      BY <1>2, <2>4 DEF Discovery!bluezVars, Discovery!adapter_property_not_discovering
    <3> QED  BY <2>5, <3>1 DEF DiscoveryTyped, Discovery!BoundsAssumption
  <2>7. DiscoveryTyped'
    BY <2>2, <2>3, <2>6 DEF DiscoveryTyped
  <2> QED  BY <2>2, <2>7
<1>3. CASE Discovery!adapter_added_cb
  <2>1. /\ discovery_inbox # <<>> /\ discovery_inbox' = Tail(discovery_inbox)
        /\ Head(discovery_inbox) = "AdapterAdded"
        /\ discovery_adapter_proxy' = TRUE /\ leaked' = Discovery!Handlers
        /\ UNCHANGED <<discovery_application_pid, discovery_hci0>>
    BY <1>3 DEF Discovery!bluezVars, Discovery!adapter_added_cb
  <2>2. QueueSound' /\ discovery_adapter_proxy' \in BOOLEAN /\ leaked' \in 0..MaxLeaked
    BY <2>1, QueueServed
  <2>3. /\ UNCHANGED <<discovery_application_pid, discovery_hci0, bt_cb_ptr, is_discovery_cancel,
                       req_timer, res_timers, discovering, own_session, other_session>>
        /\ is_discovering' = discovering /\ discovery_event' \in Discovery!Events
    BY <1>3 DEF Discovery!bluezVars, Discovery!adapter_added_cb, Discovery!Events
  <2>4. DiscoveryTyped'
    BY <2>2, <2>3 DEF DiscoveryTyped
  <2> QED  BY <2>2, <2>4
<1>4. CASE Discovery!adapter_removed_cb
  <2>1. /\ discovery_inbox # <<>> /\ discovery_inbox' = Tail(discovery_inbox)
        /\ Head(discovery_inbox) = "AdapterRemoved"
        /\ discovery_adapter_proxy' = FALSE
        /\ UNCHANGED <<discovery_application_pid, discovery_hci0>> /\ UNCHANGED leaked
    BY <1>4 DEF Discovery!bluezVars, Discovery!adapter_removed_cb
  <2>2. QueueSound' /\ discovery_adapter_proxy' \in BOOLEAN /\ leaked' \in 0..MaxLeaked
    BY <2>1, QueueServed
  <2>3. /\ UNCHANGED <<discovery_application_pid, discovery_hci0, bt_cb_ptr, is_discovery_cancel,
                       is_discovering, req_timer, res_timers, discovering, own_session,
                       other_session>>
        /\ discovery_event' \in Discovery!Events
    BY <1>4 DEF Discovery!bluezVars, Discovery!adapter_removed_cb, Discovery!Events
  <2>4. DiscoveryTyped'
    BY <2>2, <2>3 DEF DiscoveryTyped
  <2> QED  BY <2>2, <2>4
<1> QED  BY <1>1, <1>2, <1>3, <1>4 DEF Discovery!Dispatch

LEMMA BluezTyped ==
  ASSUME QueueSound, DiscoveryTyped, Discovery!BoundsAssumption, Discovery!Bluez
  PROVE  DiscoveryTyped' /\ QueueSound'
<1>1. UNCHANGED <<discovery_application_pid, discovery_adapter_proxy, leaked>>
  <2>1. UNCHANGED Discovery!libVars
    BY DEF Discovery!Bluez, Discovery!OtherClient, Discovery!InquiryStarts, Discovery!InquiryEnds,
           Discovery!AdapterAppears, Discovery!AdapterGoes
  <2> QED  BY <2>1 DEF Discovery!libVars
<1>2. DiscoveryTyped'
  <2>1. UNCHANGED Discovery!libVars /\ discovery_event' = Discovery!NoEvent
    BY DEF Discovery!Bluez, Discovery!OtherClient, Discovery!InquiryStarts, Discovery!InquiryEnds,
           Discovery!AdapterAppears, Discovery!AdapterGoes
  <2>2. /\ discovery_hci0' \in {discovery_hci0, TRUE, FALSE}
        /\ discovering' \in {discovering, TRUE, FALSE}
        /\ own_session' \in {own_session, FALSE}
        /\ other_session' \in {other_session, ~other_session, FALSE}
    BY DEF Discovery!Bluez, Discovery!OtherClient, Discovery!InquiryStarts, Discovery!InquiryEnds,
           Discovery!AdapterAppears, Discovery!AdapterGoes
  <2>3. discovery_hci0' \in BOOLEAN /\ discovering' \in BOOLEAN
    BY <2>2 DEF DiscoveryTyped
  <2>4. own_session' \in BOOLEAN /\ other_session' \in BOOLEAN
    BY <2>2 DEF DiscoveryTyped
  <2>5. discovery_event' \in Discovery!Events
    BY <2>1 DEF Discovery!Events
  <2> QED  BY <2>1, <2>3, <2>4, <2>5 DEF DiscoveryTyped, Discovery!libVars
<1>3. CASE Discovery!OtherClient
  <2>1. UNCHANGED discovery_inbox /\ UNCHANGED discovery_hci0
    BY <1>3 DEF Discovery!OtherClient
  <2> QED  BY <1>1, <1>2, <2>1, QueueKept
<1>4. ASSUME NEW sig \in {"Discovering", "NotDiscovering"}, Discovery!EmitProperty(sig),
             UNCHANGED discovery_hci0
      PROVE  QueueSound'
  <2>1. CASE Discovery!Emit(sig)
    <3>1. sig \in DiscoverySignal /\ sig \notin Adds /\ sig \notin Removes
      BY DEF DiscoverySignal, Adds, Removes
    <3> QED  BY <1>1, <1>4, <2>1, <3>1, QueueEmits
  <2>2. CASE UNCHANGED discovery_inbox
    BY <1>1, <1>4, <2>2, QueueKept
  <2> QED  BY <1>4, <2>1, <2>2 DEF Discovery!EmitProperty
<1>5. CASE Discovery!InquiryStarts
  BY <1>2, <1>4, <1>5 DEF Discovery!InquiryStarts
<1>6. CASE Discovery!InquiryEnds
  BY <1>2, <1>4, <1>6 DEF Discovery!InquiryEnds
<1>7. CASE Discovery!AdapterAppears
  <2>1. PICK sig : sig = "AdapterAdded"
    OBVIOUS
  <2>2. sig \in DiscoverySignal /\ sig \in Adds /\ sig \notin Removes
    BY <2>1 DEF DiscoverySignal, Adds, Removes
  <2>3. /\ Discovery!RoomForProxy \/ (/\ discovery_adapter_proxy /\ discovery_inbox # <<>>
                                      /\ Discovery!Last(discovery_inbox) = "AdapterRemoved")
        /\ IF discovery_application_pid THEN Discovery!Emit(sig) ELSE UNCHANGED discovery_inbox
    BY <1>7, <2>1 DEF Discovery!AdapterAppears
  <2>4. CASE discovery_application_pid
    BY <1>1, <1>2, <2>2, <2>3, <2>4, QueueEmits
  <2>5. CASE ~discovery_application_pid
    <3>1. UNCHANGED discovery_inbox
      BY <2>3, <2>5
    <3> QED  BY <1>1, <1>2, <2>5, <3>1 DEF QueueSound, Discovery!Handlers, Current
  <2> QED  BY <2>4, <2>5
<1>8. ASSUME NEW crash \in BOOLEAN, Discovery!AdapterGoes(crash)
      PROVE  QueueSound'
  <2>1. PICK sig : sig = "AdapterRemoved"
    OBVIOUS
  <2>2. sig \in DiscoverySignal /\ sig \in Removes /\ sig \notin Adds
    BY <2>1 DEF DiscoverySignal, Adds, Removes
  <2>3. /\ discovery_hci0 /\ ~discovery_hci0'
        /\ IF discovery_application_pid /\ ~crash THEN Discovery!Emit(sig)
                                                  ELSE UNCHANGED discovery_inbox
    BY <1>8, <2>1 DEF Discovery!AdapterGoes
  <2>4. CASE discovery_application_pid /\ ~crash
    BY <1>1, <2>2, <2>3, <2>4, QueueEmits
  <2>5. CASE ~(discovery_application_pid /\ ~crash)
    <3>1. UNCHANGED discovery_inbox
      BY <2>3, <2>5
    <3> QED  BY <1>1, <2>3, <3>1, QueueKept
  <2> QED  BY <2>4, <2>5
<1> QED  BY <1>2, <1>3, <1>5, <1>6, <1>7, <1>8 DEF Discovery!Bluez

LEMMA DiscoveryTypesInit ==
  ASSUME Discovery!Init, Discovery!BoundsAssumption
  PROVE  DiscoveryTyped /\ QueueSound
<1>1. DiscoveryTyped
  <2>1. discovery_hci0 \in BOOLEAN /\ other_session \in BOOLEAN /\ discovering \in BOOLEAN
    <3>1. discovery_hci0 \in BOOLEAN
      BY DEF Discovery!Init
    <3>2. other_session \in BOOLEAN
      BY <3>1 DEF Discovery!Init
    <3>3. discovering \in BOOLEAN
      BY <3>2 DEF Discovery!Init
    <3> QED  BY <3>1, <3>2, <3>3
  <2>2. leaked \in 0..MaxLeaked /\ res_timers \in 0..MaxResTimers
    BY DEF Discovery!Init, Discovery!BoundsAssumption
  <2>3. discovery_event \in Discovery!Events
    BY DEF Discovery!Init, Discovery!Events
  <2>4. /\ discovery_application_pid \in BOOLEAN /\ bt_cb_ptr \in BOOLEAN
        /\ discovery_adapter_proxy \in BOOLEAN /\ is_discovering \in BOOLEAN
        /\ is_discovery_cancel \in BOOLEAN /\ req_timer \in BOOLEAN /\ own_session \in BOOLEAN
    BY DEF Discovery!Init
  <2> QED  BY <2>1, <2>2, <2>3, <2>4 DEF DiscoveryTyped
<1>2. PICK q : q = discovery_inbox
  OBVIOUS
<1>3. q = <<>> /\ q \in Seq(DiscoverySignal) /\ Len(q) = 0
  BY <1>2 DEF Discovery!Init
<1>4. NoAdapter(q)
  BY <1>3 DEF NoAdapter
<1>5. PICK h : h = Discovery!Handlers
  OBVIOUS
<1>6. PICK proxy : proxy = Current
  OBVIOUS
<1>7. h = 0 /\ proxy = 0 /\ MaxLeaked \in Nat /\ MaxSignals \in Nat
  BY <1>5, <1>6 DEF Discovery!Init, Discovery!Handlers, Current, Discovery!BoundsAssumption
<1>8. h \in Nat /\ h <= MaxLeaked + 1 /\ proxy \in {0, 1}
  BY <1>7
<1>9. Sound(h, proxy, q)
  BY <1>3, <1>4, <1>7, <1>8, SoundQuiet
<1>10. ~discovery_application_pid /\ Len(q) <= MaxSignals
  BY <1>3, <1>7 DEF Discovery!Init
<1> QED  BY <1>1, <1>2, <1>4, <1>5, <1>6, <1>7, <1>9, <1>10 DEF QueueSound

LEMMA DiscoveryTypesNext ==
  ASSUME QueueSound, DiscoveryTyped, Discovery!BoundsAssumption, Discovery!Next
  PROVE  DiscoveryTyped' /\ QueueSound'
<1>1. CASE Discovery!bluetooth_unregister_callback
  <2>1. DiscoveryTyped'
    BY <1>1 DEF Discovery!bluetooth_unregister_callback, DiscoveryTyped, Discovery!bluezVars,
                Discovery!Events
  <2> QED  BY <1>1, <2>1, QueueCloses
<1>2. CASE Discovery!discovery_req_timeout_cb
  <2>1. /\ UNCHANGED <<discovery_application_pid, discovery_adapter_proxy, leaked>>
        /\ UNCHANGED discovery_inbox /\ UNCHANGED discovery_hci0
    BY <1>2 DEF Discovery!discovery_req_timeout_cb, Discovery!bluezVars
  <2>2. Discovery!Started("TIMEOUT") \in Discovery!Events
    BY DEF Discovery!Events
  <2>3. discovery_event' \in Discovery!Events
    BY <1>2, <2>2, EventsReported DEF Discovery!discovery_req_timeout_cb
  <2>4. DiscoveryTyped'
    BY <1>2, <2>3 DEF Discovery!discovery_req_timeout_cb, DiscoveryTyped, Discovery!bluezVars
  <2> QED  BY <2>1, <2>4, QueueKept
<1> QED  BY <1>1, <1>2, CallsTyped, DispatchTyped, FinishedTimerTyped, BluezTyped
            DEF Discovery!Next

(***************************************************************************)
(* Visibility.                                                             *)
(***************************************************************************)

Discoverable == "Discoverable"
DiscoverableTimeout == "DiscoverableTimeout"

Signal == [property : {Discoverable}, value : BOOLEAN]
            \cup [property : {DiscoverableTimeout}, value : {0, 1}]

\* The last signal of the property, if one waits, tells the value.
LastTells(queue, property, value) ==
  \A i \in 1..Len(queue) :
    /\ queue[i].property = property
    /\ \A j \in i+1..Len(queue) : queue[j].property # property
    => queue[i].value = value

Waits(queue, property) == \E i \in 1..Len(queue) : queue[i].property = property

\* A process that saw the adapter hide asks BlueZ nothing before its reset is read; one
\* that has seen the last limit told so, unless it hid and the reset is on its way.
Sees(p, queue) ==
  /\ LastTells(queue, Discoverable, discoverable)
  /\ LastTells(queue, DiscoverableTimeout, timeout)
  /\ p \in resets /\ discoverable => Waits(queue, Discoverable)
  /\ timeout # 0 /\ ~Waits(queue, DiscoverableTimeout)
       => p \in resets \/ reported[p] = "TIME_LIMITED_DISCOVERABLE"
  /\ queue = <<>> /\ (timeout # 0 => discoverable) => reported[p] = Visibility!ModeNow

VisibilityInv ==
  /\ Visibility!TypeOK
  /\ \A p \in Proc : Sees(p, visibility_inbox[p])
  /\ TimeLeftRuns

LEMMA AppendTells ==
  ASSUME NEW queue \in Seq(Signal), NEW sig \in Signal
  PROVE  LET longer == queue \o <<sig>>
         IN  /\ longer \in Seq(Signal) /\ longer # <<>>
             /\ LastTells(longer, sig.property, sig.value)
             /\ Waits(longer, sig.property)
             /\ \A property :
                  /\ Waits(queue, property) => Waits(longer, property)
                  /\ \A value : LastTells(queue, property, value) /\ property # sig.property
                                  => LastTells(longer, property, value)
                  /\ property # sig.property /\ Waits(longer, property)
                       => Waits(queue, property)
<1> DEFINE longer == queue \o <<sig>>
<1>1. longer \in Seq(Signal) /\ Len(longer) = Len(queue) + 1 /\ Len(queue) \in Nat
  OBVIOUS
<1>2. /\ \A i \in 1..Len(queue) : longer[i] = queue[i]
      /\ longer[Len(queue) + 1] = sig
  OBVIOUS
<1> HIDE DEF longer
<1>3. longer # <<>>
  BY <1>1
<1>4. LastTells(longer, sig.property, sig.value)
  BY <1>1, <1>2 DEF LastTells
<1>5. Waits(longer, sig.property)
  BY <1>1, <1>2 DEF Waits
<1>6. ASSUME NEW property PROVE Waits(queue, property) => Waits(longer, property)
  BY <1>1, <1>2 DEF Waits
<1>7. ASSUME NEW property, NEW value, LastTells(queue, property, value), property # sig.property
      PROVE  LastTells(longer, property, value)
  <2> SUFFICES ASSUME NEW i \in 1..Len(longer), longer[i].property = property,
                      \A j \in i+1..Len(longer) : longer[j].property # property
               PROVE  longer[i].value = value
    BY DEF LastTells
  <2>1. i \in 1..Len(queue)
    BY <1>1, <1>2, <1>7
  <2>2. ASSUME NEW j \in i+1..Len(queue) PROVE queue[j].property # property
    BY <1>1, <1>2, <2>1
  <2> QED  BY <1>2, <1>7, <2>1, <2>2 DEF LastTells
<1>8. ASSUME NEW property, property # sig.property, Waits(longer, property)
      PROVE  Waits(queue, property)
  BY <1>1, <1>2, <1>8 DEF Waits
<1> QED  BY <1>1, <1>3, <1>4, <1>5, <1>6, <1>7, <1>8 DEF longer

LEMMA TailTells ==
  ASSUME NEW queue \in Seq(Signal), queue # <<>>
  PROVE  /\ Tail(queue) \in Seq(Signal) /\ Head(queue) \in Signal
         /\ \A property :
              /\ Waits(Tail(queue), property) => Waits(queue, property)
              /\ Waits(queue, property) /\ Head(queue).property # property
                   => Waits(Tail(queue), property)
              /\ \A value : LastTells(queue, property, value) =>
                   /\ LastTells(Tail(queue), property, value)
                   /\ Head(queue).property = property /\ ~Waits(Tail(queue), property)
                        => Head(queue).value = value
<1> DEFINE rest == Tail(queue)
<1>1. rest \in Seq(Signal) /\ Len(rest) = Len(queue) - 1 /\ Len(queue) \in Nat \ {0}
  OBVIOUS
<1>2. /\ \A i \in 1..Len(rest) : rest[i] = queue[i + 1]
      /\ Head(queue) = queue[1] /\ Head(queue) \in Signal
  OBVIOUS
<1> HIDE DEF rest
<1>3. ASSUME NEW property, Waits(rest, property) PROVE Waits(queue, property)
  BY <1>1, <1>2, <1>3 DEF Waits
<1>4. ASSUME NEW j \in 2..Len(queue) PROVE j - 1 \in 1..Len(rest) /\ queue[j] = rest[j - 1]
  BY <1>1, <1>2
<1>5. ASSUME NEW property, Waits(queue, property), Head(queue).property # property
      PROVE  Waits(rest, property)
  <2>1. PICK i \in 1..Len(queue) : queue[i].property = property
    BY <1>5 DEF Waits
  <2>2. i \in 2..Len(queue)
    BY <1>1, <1>2, <1>5, <2>1
  <2> QED  BY <1>4, <2>1, <2>2 DEF Waits
<1>6. ASSUME NEW property, NEW value, LastTells(queue, property, value)
      PROVE  LastTells(rest, property, value)
  <2> SUFFICES ASSUME NEW i \in 1..Len(rest), rest[i].property = property,
                      \A j \in i+1..Len(rest) : rest[j].property # property
               PROVE  rest[i].value = value
    BY DEF LastTells
  <2>1. i + 1 \in 1..Len(queue) /\ queue[i + 1] = rest[i]
    BY <1>1, <1>2
  <2>2. ASSUME NEW j \in i+1+1..Len(queue) PROVE queue[j].property # property
    <3>1. j \in 2..Len(queue) /\ j - 1 \in i+1..Len(rest)
      BY <1>1
    <3> QED  BY <1>4, <3>1
  <2> QED  BY <1>6, <2>1, <2>2 DEF LastTells
<1>7. ASSUME NEW property, NEW value, LastTells(queue, property, value),
             Head(queue).property = property, ~Waits(rest, property)
      PROVE  Head(queue).value = value
  <2>1. ASSUME NEW j \in 1+1..Len(queue) PROVE queue[j].property # property
    BY <1>4, <1>7 DEF Waits
  <2>2. 1 \in 1..Len(queue)
    BY <1>1
  <2> QED  BY <1>2, <1>7, <2>1, <2>2 DEF LastTells
<1> QED  BY <1>1, <1>2, <1>3, <1>5, <1>6, <1>7 DEF rest

LEMMA VisibilityInitInv ==
  ASSUME Visibility!VisibilityAssumption, Visibility!Init PROVE VisibilityInv
<1>1. <<>> \in Seq(Signal)
  OBVIOUS
<1>2. Visibility!TypeOK
  <2>1. visibility_inbox \in [Proc -> Seq(Signal)]
    BY <1>1 DEF Visibility!Init
  <2>2. visibility_inbox \in [Proc -> Seq([property : {"Discoverable"}, value : BOOLEAN]
                                 \cup [property : {"DiscoverableTimeout"}, value : {0, 1}])]
    BY <2>1 DEF Signal, Discoverable, DiscoverableTimeout
  <2>3. sets \in 0..MaxSets /\ failures \in 0..MaxFailures
    BY DEF Visibility!Init, Visibility!VisibilityAssumption
  <2> QED  BY <2>2, <2>3 DEF Visibility!TypeOK, Visibility!Init, Visibility!Modes
<1>3. \A p \in Proc : Sees(p, visibility_inbox[p])
  BY DEF Visibility!Init, Sees, LastTells, Waits, Visibility!ModeNow
<1>4. TimeLeftRuns
  BY DEF Visibility!Init, TimeLeftRuns, Visibility!TimeLeftRuns
<1> QED  BY <1>2, <1>3, <1>4 DEF VisibilityInv

\* What BlueZ and the agent leave alone.
LibrariesAlone == UNCHANGED <<visibility_inbox, resets, reported, discoverable, timeout>>

LEMMA AloneKeepsSees ==
  ASSUME \A p \in Proc : Sees(p, visibility_inbox[p]), LibrariesAlone
  PROVE  \A p \in Proc : Sees(p, visibility_inbox[p])'
BY DEF LibrariesAlone, Sees, LastTells, Waits, Visibility!ModeNow

\* Sees in the state after a step.
LEMMA SeesNext ==
  ASSUME NEW p
  PROVE  Sees(p, visibility_inbox[p])' <=>
           /\ LastTells(visibility_inbox'[p], Discoverable, discoverable')
           /\ LastTells(visibility_inbox'[p], DiscoverableTimeout, timeout')
           /\ p \in resets' /\ discoverable' => Waits(visibility_inbox'[p], Discoverable)
           /\ timeout' # 0 /\ ~Waits(visibility_inbox'[p], DiscoverableTimeout)
                => p \in resets' \/ reported'[p] = "TIME_LIMITED_DISCOVERABLE"
           /\ visibility_inbox'[p] = <<>> /\ (timeout' # 0 => discoverable')
                => reported'[p] = Visibility!ModeNow'
BY DEF Sees, LastTells, Waits

\* A new value of Discoverable is told to every process.
LEMMA DiscoverableKeeps ==
  ASSUME VisibilityInv, NEW value \in BOOLEAN,
         Visibility!SetDiscoverable(visibility_inbox, value), UNCHANGED <<resets, reported>>
  PROVE  /\ visibility_inbox' \in [Proc -> Seq(Signal)]
         /\ \A p \in Proc : Sees(p, visibility_inbox[p])'
<1>1. visibility_inbox \in [Proc -> Seq(Signal)]
  BY DEF VisibilityInv, Visibility!TypeOK, Signal, Discoverable, DiscoverableTimeout
<1>2. CASE value = discoverable
  <2>1. LibrariesAlone
    BY <1>2 DEF Visibility!SetDiscoverable, LibrariesAlone
  <2> QED  BY <1>1, <2>1, AloneKeepsSees DEF VisibilityInv, LibrariesAlone
<1>3. CASE value # discoverable
  <2>1. PICK sig : sig = [property |-> Discoverable, value |-> value]
    OBVIOUS
  <2>2. sig \in Signal /\ sig.property = Discoverable /\ sig.value = value
    BY <2>1 DEF Signal
  <2>3. /\ visibility_inbox' = [p \in Proc |-> visibility_inbox[p] \o <<sig>>]
        /\ discoverable' = value /\ timeout' = timeout
    BY <1>3, <2>1 DEF Visibility!SetDiscoverable, Visibility!Emit, Visibility!Sig, Discoverable
  <2>4. ASSUME NEW p \in Proc
        PROVE  visibility_inbox'[p] \in Seq(Signal) /\ Sees(p, visibility_inbox[p])'
    <3> DEFINE queue == visibility_inbox[p]
    <3>1. queue \in Seq(Signal) /\ visibility_inbox'[p] = queue \o <<sig>>
      BY <1>1, <2>3
    <3>2. Sees(p, queue)
      BY DEF VisibilityInv
    <3>3. /\ queue \o <<sig>> \in Seq(Signal) /\ queue \o <<sig>> # <<>>
          /\ LastTells(queue \o <<sig>>, Discoverable, value)
          /\ Waits(queue \o <<sig>>, Discoverable)
          /\ LastTells(queue, DiscoverableTimeout, timeout)
               => LastTells(queue \o <<sig>>, DiscoverableTimeout, timeout)
          /\ Waits(queue, DiscoverableTimeout) => Waits(queue \o <<sig>>, DiscoverableTimeout)
      <4> HIDE DEF queue
      <4> QED  BY <3>1, <2>2, AppendTells DEF Discoverable, DiscoverableTimeout
    <3>4. /\ LastTells(visibility_inbox'[p], Discoverable, value)
          /\ LastTells(visibility_inbox'[p], DiscoverableTimeout, timeout)
          /\ Waits(visibility_inbox'[p], Discoverable)
          /\ ~Waits(visibility_inbox'[p], DiscoverableTimeout) => ~Waits(queue, DiscoverableTimeout)
          /\ visibility_inbox'[p] # <<>>
      BY <3>1, <3>2, <3>3 DEF Sees
    <3> QED  BY <2>3, <3>1, <3>2, <3>3, <3>4, SeesNext DEF Sees
  <2> QED  BY <2>3, <2>4
<1> QED  BY <1>2, <1>3

\* So is a new limit; a reset that is read leaves none.
LEMMA LimitKeeps ==
  ASSUME VisibilityInv, NEW value \in {0, 1},
         Visibility!SetTimeout(visibility_inbox, value), UNCHANGED reported,
         resets' \subseteq resets, resets' # resets => value = 0
  PROVE  /\ visibility_inbox' \in [Proc -> Seq(Signal)]
         /\ \A p \in Proc : Sees(p, visibility_inbox[p])'
<1>1. visibility_inbox \in [Proc -> Seq(Signal)]
  BY DEF VisibilityInv, Visibility!TypeOK, Signal, Discoverable, DiscoverableTimeout
<1>2. CASE value = timeout
  <2>1. /\ UNCHANGED <<visibility_inbox, discoverable, timeout>>
        /\ Visibility!ModeNow' = Visibility!ModeNow
    BY <1>2 DEF Visibility!SetTimeout, Visibility!ModeNow
  <2>2. ASSUME NEW p \in Proc PROVE Sees(p, visibility_inbox[p])'
    <3>1. Sees(p, visibility_inbox[p])
      BY DEF VisibilityInv
    <3> QED  BY <1>2, <2>1, <3>1, SeesNext DEF Sees
  <2> QED  BY <1>1, <2>1, <2>2
<1>3. CASE value # timeout
  <2>1. PICK sig : sig = [property |-> DiscoverableTimeout, value |-> value]
    OBVIOUS
  <2>2. sig \in Signal /\ sig.property = DiscoverableTimeout /\ sig.value = value
    BY <2>1 DEF Signal
  <2>3. /\ visibility_inbox' = [p \in Proc |-> visibility_inbox[p] \o <<sig>>]
        /\ discoverable' = discoverable /\ timeout' = value
    BY <1>3, <2>1 DEF Visibility!SetTimeout, Visibility!Emit, Visibility!Sig, DiscoverableTimeout
  <2>4. ASSUME NEW p \in Proc
        PROVE  visibility_inbox'[p] \in Seq(Signal) /\ Sees(p, visibility_inbox[p])'
    <3> DEFINE queue == visibility_inbox[p]
    <3>1. queue \in Seq(Signal) /\ visibility_inbox'[p] = queue \o <<sig>>
      BY <1>1, <2>3
    <3>2. Sees(p, queue)
      BY DEF VisibilityInv
    <3>3. /\ queue \o <<sig>> \in Seq(Signal) /\ queue \o <<sig>> # <<>>
          /\ LastTells(queue \o <<sig>>, DiscoverableTimeout, value)
          /\ Waits(queue \o <<sig>>, DiscoverableTimeout)
          /\ LastTells(queue, Discoverable, discoverable)
               => LastTells(queue \o <<sig>>, Discoverable, discoverable)
          /\ Waits(queue, Discoverable) => Waits(queue \o <<sig>>, Discoverable)
      <4> HIDE DEF queue
      <4> QED  BY <3>1, <2>2, AppendTells DEF Discoverable, DiscoverableTimeout
    <3>4. /\ LastTells(visibility_inbox'[p], Discoverable, discoverable)
          /\ LastTells(visibility_inbox'[p], DiscoverableTimeout, value)
          /\ Waits(visibility_inbox'[p], DiscoverableTimeout)
          /\ Waits(queue, Discoverable) => Waits(visibility_inbox'[p], Discoverable)
          /\ visibility_inbox'[p] # <<>>
      BY <3>1, <3>2, <3>3 DEF Sees
    <3> QED  BY <2>3, <3>1, <3>2, <3>3, <3>4, SeesNext DEF Sees
  <2> QED  BY <2>3, <2>4
<1> QED  BY <1>2, <1>3

\* A process hears a signal, and the others nothing.
LEMMA HearsKeeps ==
  ASSUME VisibilityInv, NEW p \in Proc, Visibility!adapter_property_changed(p)
  PROVE  VisibilityInv'
<1> DEFINE queue == visibility_inbox[p]
<1>1. visibility_inbox \in [Proc -> Seq(Signal)]
  BY DEF VisibilityInv, Visibility!TypeOK, Signal, Discoverable, DiscoverableTimeout
<1>2. PICK s : s = Head(queue)
  OBVIOUS
<1>3. /\ queue \in Seq(Signal) /\ queue # <<>>
      /\ visibility_inbox' = [visibility_inbox EXCEPT ![p] = Tail(queue)]
      /\ UNCHANGED <<discoverable, timeout>>
      /\ Visibility!ModeNow' = Visibility!ModeNow
  BY <1>1 DEF Visibility!adapter_property_changed, Visibility!bluezVars, Visibility!ModeNow
<1>4. Sees(p, queue)
  BY DEF VisibilityInv
<1>5. /\ Tail(queue) \in Seq(Signal) /\ s \in Signal
      /\ LastTells(Tail(queue), Discoverable, discoverable)
      /\ LastTells(Tail(queue), DiscoverableTimeout, timeout)
      /\ s.property = Discoverable /\ ~Waits(Tail(queue), Discoverable)
           => s.value = discoverable
      /\ s.property = DiscoverableTimeout /\ ~Waits(Tail(queue), DiscoverableTimeout)
           => s.value = timeout
      /\ s.property # Discoverable /\ Waits(queue, Discoverable)
           => Waits(Tail(queue), Discoverable)
      /\ s.property # DiscoverableTimeout /\ Waits(queue, DiscoverableTimeout)
           => Waits(Tail(queue), DiscoverableTimeout)
  <2> HIDE DEF queue
  <2> QED  BY <1>2, <1>3, <1>4, TailTells DEF Sees
<1>6. Tail(queue) = <<>> => ~Waits(Tail(queue), Discoverable) /\ ~Waits(Tail(queue), DiscoverableTimeout)
  <2>1. Len(<<>>) = 0 /\ 1..0 = {}
    OBVIOUS
  <2> HIDE DEF queue
  <2> QED  BY <2>1 DEF Waits
<1>7. /\ timeout \in {0, 1} /\ discoverable \in BOOLEAN
      /\ reported \in [Proc -> Visibility!Modes] /\ resets \subseteq Proc
  BY DEF VisibilityInv, Visibility!TypeOK
<1>8. \/ s.property = "Discoverable" /\ Visibility!discoverable_changed(p, s.value)
      \/ s.property = "DiscoverableTimeout" /\ Visibility!timeout_changed(p, s.value)
  BY <1>2 DEF Visibility!adapter_property_changed
<1>9. visibility_inbox'[p] = Tail(queue)
  BY <1>1, <1>3
<1>10. /\ Sees(p, visibility_inbox[p])'
       /\ resets \subseteq resets' /\ resets' \subseteq resets \cup {p}
       /\ \E m \in Visibility!Modes : reported' = [reported EXCEPT ![p] = m]
  <2>1. CASE s.property = "Discoverable" /\ ~s.value /\ Visibility!discoverable_changed(p, s.value)
    <3>1. /\ resets' = resets \cup {p}
          /\ reported' = [reported EXCEPT ![p] = "CONNECTABLE"]
      BY <2>1 DEF Visibility!discoverable_changed, Visibility!mode_changed_cb
    <3>2. discoverable => Waits(Tail(queue), Discoverable)
      BY <1>5, <2>1 DEF Discoverable
    <3>3. Tail(queue) = <<>> => Visibility!ModeNow = "CONNECTABLE"
      BY <1>6, <3>2 DEF Visibility!ModeNow
    <3>4. Sees(p, visibility_inbox[p])'
      BY <1>3, <1>5, <1>7, <1>9, <3>1, <3>2, <3>3, SeesNext
    <3> QED  BY <3>1, <3>4 DEF Visibility!Modes
  <2>2. CASE s.property = "Discoverable" /\ s.value /\ Visibility!discoverable_changed(p, s.value)
    <3>1. resets' = resets /\ ~(p \in resets)
      BY <2>2 DEF Visibility!discoverable_changed, Visibility!Asks
    <3>2. reported' = IF timeout = 0 THEN [reported EXCEPT ![p] = "GENERAL_DISCOVERABLE"] ELSE reported
      BY <2>2 DEF Visibility!discoverable_changed, Visibility!mode_changed_cb
    <3>3. Waits(queue, DiscoverableTimeout) => Waits(Tail(queue), DiscoverableTimeout)
      BY <1>5, <2>2 DEF DiscoverableTimeout
    <3>4. timeout # 0 /\ ~Waits(Tail(queue), DiscoverableTimeout)
            => reported[p] = "TIME_LIMITED_DISCOVERABLE"
      BY <1>4, <3>1, <3>3 DEF Sees
    <3>5. Tail(queue) = <<>> => discoverable
      BY <1>5, <1>6, <2>2 DEF Discoverable
    <3>6. Tail(queue) = <<>> => reported'[p] = Visibility!ModeNow
      BY <1>6, <1>7, <3>2, <3>4, <3>5 DEF Visibility!ModeNow
    <3>7. timeout # 0 /\ ~Waits(Tail(queue), DiscoverableTimeout)
            => reported'[p] = "TIME_LIMITED_DISCOVERABLE"
      BY <3>2, <3>4
    <3>8. Sees(p, visibility_inbox[p])'
      BY <1>3, <1>5, <1>9, <3>1, <3>6, <3>7, SeesNext
    <3>9. reported' = [reported EXCEPT ![p] = IF timeout = 0 THEN "GENERAL_DISCOVERABLE" ELSE reported[p]]
      BY <1>7, <3>2
    <3>10. (IF timeout = 0 THEN "GENERAL_DISCOVERABLE" ELSE reported[p]) \in Visibility!Modes
      BY <1>7 DEF Visibility!Modes
    <3> QED  BY <3>1, <3>8, <3>9, <3>10
  <2>3. CASE s.property = "DiscoverableTimeout" /\ Visibility!timeout_changed(p, s.value)
    <3>1. PICK m : m = IF s.value # 0 THEN "TIME_LIMITED_DISCOVERABLE"
                       ELSE IF discoverable THEN "GENERAL_DISCOVERABLE" ELSE "CONNECTABLE"
      OBVIOUS
    <3>2. resets' = resets /\ reported' = [reported EXCEPT ![p] = m]
      BY <2>3, <3>1 DEF Visibility!timeout_changed, Visibility!mode_changed_cb
    <3>3. Waits(queue, Discoverable) => Waits(Tail(queue), Discoverable)
      BY <1>5, <2>3 DEF Discoverable
    <3>4. timeout # 0 /\ ~Waits(Tail(queue), DiscoverableTimeout) => m = "TIME_LIMITED_DISCOVERABLE"
      BY <1>5, <2>3, <3>1 DEF DiscoverableTimeout
    <3>5. Tail(queue) = <<>> /\ (timeout # 0 => discoverable) => m = Visibility!ModeNow
      BY <1>5, <1>6, <2>3, <3>1 DEF DiscoverableTimeout, Visibility!ModeNow
    <3>6. p \in resets /\ discoverable => Waits(Tail(queue), Discoverable)
      BY <1>4, <3>3 DEF Sees
    <3>7. m \in Visibility!Modes /\ reported'[p] = m
      BY <1>7, <3>1, <3>2 DEF Visibility!Modes
    <3>8. Sees(p, visibility_inbox[p])'
      BY <1>3, <1>5, <1>9, <3>2, <3>4, <3>5, <3>6, <3>7, SeesNext
    <3> QED  BY <3>2, <3>7, <3>8
  <2> QED  BY <1>8, <2>1, <2>2, <2>3
<1>11. ASSUME NEW q \in Proc, q # p PROVE Sees(q, visibility_inbox[q])'
  <2>1. Sees(q, visibility_inbox[q])
    BY DEF VisibilityInv
  <2>2. /\ visibility_inbox'[q] = visibility_inbox[q] /\ reported'[q] = reported[q]
        /\ q \in resets' <=> q \in resets
    BY <1>1, <1>3, <1>7, <1>10, <1>11
  <2> QED  BY <1>3, <2>1, <2>2, SeesNext DEF Sees
<1>12. Visibility!TypeOK'
  <2>1. visibility_inbox' \in [Proc -> Seq(Signal)]
    BY <1>1, <1>3, <1>5
  <2>2. visibility_inbox' \in [Proc -> Seq([property : {"Discoverable"}, value : BOOLEAN]
                                 \cup [property : {"DiscoverableTimeout"}, value : {0, 1}])]
    BY <2>1 DEF Signal, Discoverable, DiscoverableTimeout
  <2>3. reported' \in [Proc -> Visibility!Modes] /\ resets' \subseteq Proc
    BY <1>7, <1>10
  <2> QED  BY <2>2, <2>3 DEF VisibilityInv, Visibility!TypeOK, Visibility!adapter_property_changed,
           Visibility!appVars, Visibility!bluezVars, Visibility!agentVars
<1>13. TimeLeftRuns'
  BY DEF VisibilityInv, TimeLeftRuns, Visibility!TimeLeftRuns,
     Visibility!adapter_property_changed, Visibility!agentVars
<1> QED  BY <1>10, <1>11, <1>12, <1>13 DEF VisibilityInv

\* The other steps keep the types of the visibility component.
LEMMA VisibilityTyped ==
  ASSUME VisibilityInv, visibility_inbox' \in [Proc -> Seq(Signal)],
         UNCHANGED <<sets, failures, reported>> , resets' \subseteq resets,
         discoverable' \in BOOLEAN, timeout' \in {0, 1},
         pc' \in {"idle", "Discoverable", "DiscoverableTimeout"}, mode' \in Visibility!Modes,
         timer_call' \in Visibility!Modes \cup {"none"}, timeout_id' \in BOOLEAN,
         visible_time' \in {-1, 0, 1}
  PROVE  Visibility!TypeOK'
BY DEF VisibilityInv, Visibility!TypeOK, Signal, Discoverable, DiscoverableTimeout

LEMMA VisibilityInbox == ASSUME VisibilityInv PROVE visibility_inbox \in [Proc -> Seq(Signal)]
BY DEF VisibilityInv, Visibility!TypeOK, Signal, Discoverable, DiscoverableTimeout

LEMMA VisibilityCallKeeps ==
  ASSUME Visibility!VisibilityAssumption, VisibilityInv,
         (\E m \in Visibility!Modes : Visibility!set_discoverable_mode(m)) \/ Visibility!Call
  PROVE  VisibilityInv'
<1>1. ASSUME NEW m \in Visibility!Modes, Visibility!set_discoverable_mode(m) PROVE VisibilityInv'
  <2>1. LibrariesAlone /\ UNCHANGED <<failures, timer_call, timeout_id, visible_time>>
    BY <1>1 DEF Visibility!set_discoverable_mode, LibrariesAlone, Visibility!bluezVars, Visibility!agentVars
  <2>2. \A p \in Proc : Sees(p, visibility_inbox[p])'
    BY <2>1, AloneKeepsSees DEF VisibilityInv
  <2>3. sets' \in 0..MaxSets
    BY <1>1 DEF VisibilityInv, Visibility!TypeOK, Visibility!set_discoverable_mode,
       Visibility!VisibilityAssumption
  <2>4. Visibility!TypeOK'
    BY <1>1, <2>1, <2>3 DEF VisibilityInv, Visibility!TypeOK, Visibility!set_discoverable_mode,
       LibrariesAlone
  <2> QED  BY <2>1, <2>2, <2>4 DEF VisibilityInv, TimeLeftRuns, Visibility!TimeLeftRuns
<1>2. CASE Visibility!SetFails
  <2>1. LibrariesAlone /\ UNCHANGED <<sets, mode, timer_call, timeout_id, visible_time>>
    BY <1>2 DEF Visibility!SetFails, LibrariesAlone, Visibility!bluezVars, Visibility!agentVars
  <2>2. \A p \in Proc : Sees(p, visibility_inbox[p])'
    BY <2>1, AloneKeepsSees DEF VisibilityInv
  <2>3. failures' \in 0..MaxFailures
    BY <1>2 DEF VisibilityInv, Visibility!TypeOK, Visibility!SetFails,
       Visibility!VisibilityAssumption
  <2>4. Visibility!TypeOK'
    BY <1>2, <2>1, <2>3 DEF VisibilityInv, Visibility!TypeOK, Visibility!SetFails, LibrariesAlone
  <2> QED  BY <2>1, <2>2, <2>4 DEF VisibilityInv, TimeLeftRuns, Visibility!TimeLeftRuns
<1>3. CASE Visibility!set_discoverable
  <2>1. PICK value : value = Visibility!InqScan(mode)
    OBVIOUS
  <2>2. value \in BOOLEAN /\ Visibility!SetDiscoverable(visibility_inbox, value)
    BY <1>3, <2>1 DEF Visibility!set_discoverable, Visibility!InqScan
  <2>3. /\ visibility_inbox' \in [Proc -> Seq(Signal)]
        /\ \A p \in Proc : Sees(p, visibility_inbox[p])'
    BY <1>3, <2>2, DiscoverableKeeps DEF Visibility!set_discoverable
  <2>4. Visibility!TypeOK'
    BY <1>3, <2>2, <2>3, VisibilityTyped DEF VisibilityInv, Visibility!TypeOK,
       Visibility!set_discoverable, Visibility!SetDiscoverable, Visibility!agentVars
  <2> QED  BY <1>3, <2>3, <2>4 DEF VisibilityInv, TimeLeftRuns, Visibility!TimeLeftRuns,
           Visibility!set_discoverable, Visibility!agentVars
<1>4. CASE Visibility!set_timeout
  <2>1. PICK value : value = Visibility!Limit(mode)
    OBVIOUS
  <2>2. value \in {0, 1} /\ Visibility!SetTimeout(visibility_inbox, value)
    BY <1>4, <2>1 DEF Visibility!set_timeout, Visibility!Limit
  <2>3. /\ visibility_inbox' \in [Proc -> Seq(Signal)]
        /\ \A p \in Proc : Sees(p, visibility_inbox[p])'
    BY <1>4, <2>2, LimitKeeps DEF Visibility!set_timeout
  <2>4. Visibility!TypeOK'
    BY <1>4, <2>2, <2>3, VisibilityTyped DEF VisibilityInv, Visibility!TypeOK,
       Visibility!set_timeout, Visibility!SetTimeout
  <2> QED  BY <1>4, <2>3, <2>4 DEF VisibilityInv, TimeLeftRuns, Visibility!TimeLeftRuns,
           Visibility!set_timeout
<1> QED  BY <1>1, <1>2, <1>3, <1>4 DEF Visibility!Call

LEMMA VisibilityBluezKeeps ==
  ASSUME VisibilityInv, Visibility!TimeIsOver \/ \E p \in Proc : Visibility!BluezResets(p)
  PROVE  VisibilityInv'
<1>1. CASE Visibility!TimeIsOver
  <2>1. Visibility!SetDiscoverable(visibility_inbox, FALSE)
    BY <1>1 DEF Visibility!TimeIsOver
  <2>2. /\ visibility_inbox' \in [Proc -> Seq(Signal)]
        /\ \A p \in Proc : Sees(p, visibility_inbox[p])'
    BY <1>1, <2>1, DiscoverableKeeps DEF Visibility!TimeIsOver
  <2>3. Visibility!TypeOK'
    BY <1>1, <2>1, <2>2, VisibilityTyped DEF VisibilityInv, Visibility!TypeOK,
       Visibility!TimeIsOver, Visibility!SetDiscoverable, Visibility!agentVars, Visibility!appVars
  <2> QED  BY <1>1, <2>2, <2>3 DEF VisibilityInv, TimeLeftRuns, Visibility!TimeLeftRuns,
           Visibility!TimeIsOver, Visibility!agentVars
<1>2. ASSUME NEW p \in Proc, Visibility!BluezResets(p) PROVE VisibilityInv'
  <2>1. Visibility!SetTimeout(visibility_inbox, 0) /\ resets' \subseteq resets
    BY <1>2 DEF Visibility!BluezResets
  <2>2. /\ visibility_inbox' \in [Proc -> Seq(Signal)]
        /\ \A q \in Proc : Sees(q, visibility_inbox[q])'
    BY <1>2, <2>1, LimitKeeps DEF Visibility!BluezResets
  <2>3. Visibility!TypeOK'
    BY <1>2, <2>1, <2>2, VisibilityTyped DEF VisibilityInv, Visibility!TypeOK,
       Visibility!BluezResets, Visibility!SetTimeout, Visibility!agentVars, Visibility!appVars
  <2> QED  BY <1>2, <2>2, <2>3 DEF VisibilityInv, TimeLeftRuns, Visibility!TimeLeftRuns,
           Visibility!BluezResets, Visibility!agentVars
<1> QED  BY <1>1, <1>2

LEMMA VisibilityAgentKeeps ==
  ASSUME VisibilityInv, Visibility!set_discoverable_timer \/ Visibility!timeout_handler
  PROVE  VisibilityInv'
<1>1. LibrariesAlone /\ UNCHANGED <<pc, mode, sets, failures>>
  BY DEF Visibility!set_discoverable_timer, Visibility!timeout_handler, LibrariesAlone,
     Visibility!bluezVars, Visibility!appVars
<1>2. \A p \in Proc : Sees(p, visibility_inbox[p])'
  BY <1>1, AloneKeepsSees DEF VisibilityInv
<1>3. /\ visible_time' \in {-1, 0, 1} /\ timeout_id' \in BOOLEAN
      /\ timer_call' \in Visibility!Modes \cup {"none"}
      /\ visible_time' > 0 <=> timeout_id'
  <2>1. CASE Visibility!set_discoverable_timer
    <3>1. PICK time : time = Visibility!AgentTime(timer_call)
      OBVIOUS
    <3>2. time \in {-1, 0, 1}
      BY <3>1 DEF Visibility!AgentTime, Visibility!Limit
    <3>3. visible_time' = time /\ timeout_id' = (time > 0) /\ timer_call' = "none"
      BY <2>1, <3>1 DEF Visibility!set_discoverable_timer
    <3>4. (time > 0) \in BOOLEAN
      OBVIOUS
    <3>5. timeout_id' \in BOOLEAN /\ (timeout_id' <=> time > 0)
      BY <3>3, <3>4, Zenon
    <3>6. timer_call' \in Visibility!Modes \cup {"none"}
      BY <3>3
    <3>7. visible_time' \in {-1, 0, 1}
      BY <3>2, <3>3
    <3>8. visible_time' > 0 <=> timeout_id'
      BY <3>3, <3>5, Zenon
    <3> QED  BY <3>5, <3>6, <3>7, <3>8
  <2>2. CASE Visibility!timeout_handler
    <3>1. visible_time' = 0 /\ timeout_id' = FALSE /\ timer_call' = timer_call
      BY <2>2 DEF Visibility!timeout_handler
    <3>2. timer_call' \in Visibility!Modes \cup {"none"}
      BY <3>1 DEF VisibilityInv, Visibility!TypeOK
    <3>3. timeout_id' \in BOOLEAN /\ ~timeout_id'
      BY <3>1, Zenon
    <3>4. ~(0 > 0)
      OBVIOUS
    <3>5. visible_time' > 0 <=> timeout_id'
      BY <3>1, <3>3, <3>4, Zenon
    <3> QED  BY <3>1, <3>2, <3>3, <3>5
  <2> QED  BY <2>1, <2>2
<1>4. Visibility!TypeOK'
  BY <1>1, <1>3 DEF VisibilityInv, Visibility!TypeOK, LibrariesAlone
<1> QED  BY <1>2, <1>3, <1>4 DEF VisibilityInv, TimeLeftRuns, Visibility!TimeLeftRuns

LEMMA VisibilityNextInv ==
  ASSUME Visibility!VisibilityAssumption, VisibilityInv,
         Visibility!Next \/ UNCHANGED visibilityVars
  PROVE  VisibilityInv'
<1>1. CASE UNCHANGED visibilityVars
  <2>1. LibrariesAlone /\ UNCHANGED <<pc, mode, sets, failures, timer_call, timeout_id, visible_time>>
    BY <1>1 DEF visibilityVars, LibrariesAlone
  <2>2. \A p \in Proc : Sees(p, visibility_inbox[p])'
    BY <2>1, AloneKeepsSees DEF VisibilityInv
  <2>3. Visibility!TypeOK'
    BY <2>1 DEF VisibilityInv, Visibility!TypeOK, LibrariesAlone
  <2> QED  BY <2>1, <2>2, <2>3 DEF VisibilityInv, TimeLeftRuns, Visibility!TimeLeftRuns
<1> QED  BY <1>1, VisibilityCallKeeps, VisibilityBluezKeeps, VisibilityAgentKeeps, HearsKeeps
         DEF Visibility!Next, Visibility!Library

(***************************************************************************)
(* The components together.                                                *)
(***************************************************************************)

\* A component takes its own steps and no other's.
LEMMA SumStep ==
  ASSUME [SumNext]_sumVars
  PROVE  /\ Discovery!Next \/ UNCHANGED discoveryVars
         /\ Visibility!Next \/ UNCHANGED visibilityVars
         /\ Next \/ UNCHANGED vars
BY DEF SumNext, sumVars

\* Whatever merged inquiries, late timers and new adapters do, a discovery that BlueZ runs
\* is known to the library once every signal is dispatched (adapter_property_changed_cb).
THEOREM RunningDiscoveryAlwaysKnown == SumSpec => []RunningDiscoveryIsKnown
<1>1. SumInit => DiscoveryInv
  BY DiscoveryInitInv DEF SumInit
<1>2. DiscoveryInv /\ [SumNext]_sumVars => DiscoveryInv'
  BY SumStep, DiscoveryNextInv
<1>3. DiscoveryInv => RunningDiscoveryIsKnown
  BY DEF DiscoveryInv, Announced, RunningDiscoveryIsKnown, Discovery!RunningDiscoveryIsKnown
<1> QED  BY <1>1, <1>2, <1>3, PTL DEF SumSpec

\* No step tells the end of a discovery while BlueZ runs one: the 200 ms timer asks again
\* (bt_discovery_finished_cb).
THEOREM FinishedAlwaysTrue == SumSpec => FinishedIsTrue
<1> DEFINE Told == discovery_event'.name = "DISCOVERY_FINISHED" => ~discovering'
<1>1. ASSUME Discovery!FinishedTimer PROVE Told
  <2>1. PICK late \in BOOLEAN : Discovery!bt_discovery_finished_cb(late)
    BY <1>1 DEF Discovery!FinishedTimer
  <2> QED  BY <2>1 DEF Discovery!bt_discovery_finished_cb, Discovery!NotDiscoveringNow,
           Discovery!NoEvent
<1>2. ASSUME Discovery!Next, ~Discovery!FinishedTimer PROVE Told
  <2>1. \/ discovery_event' = Discovery!NoEvent
        \/ \E result : discovery_event' = Discovery!Started(result)
    BY <1>2 DEF Discovery!Next, Discovery!ApplicationCall, Discovery!Dispatch, Discovery!Bluez,
       Discovery!bluetooth_register_callback, Discovery!bluetooth_start_discovery,
       Discovery!bluetooth_cancel_discovery, Discovery!bluetooth_unregister_callback,
       Discovery!adapter_property_discovering, Discovery!discovery_started_cb,
       Discovery!event_cb, Discovery!adapter_property_not_discovering,
       Discovery!adapter_added_cb, Discovery!adapter_removed_cb,
       Discovery!discovery_req_timeout_cb, Discovery!OtherClient, Discovery!InquiryStarts,
       Discovery!InquiryEnds, Discovery!AdapterAppears, Discovery!AdapterGoes
  <2> QED  BY <2>1 DEF Discovery!NoEvent, Discovery!Started
<1>3. [SumNext]_sumVars => [Told]_(Discovery!vars)
  BY <1>1, <1>2, SumStep DEF discoveryVars, Discovery!vars, Discovery!libVars, Discovery!bluezVars
<1> QED  BY <1>3, PTL DEF SumSpec, FinishedIsTrue, Discovery!FinishedIsTrue

\* A process that has seen every signal has told its application the mode the adapter is
\* in, however its signals, its resets and those of the others were ordered
\* (__bluetooth_internal_adapter_property_changed).
THEOREM ReportsAreTrue == SumSpec => []ReportIsTrue
<1>1. SumInit => VisibilityInv
  BY VisibilityInitInv, DevicesAssumption DEF SumInit
<1>2. VisibilityInv /\ [SumNext]_sumVars => VisibilityInv'
  BY SumStep, VisibilityNextInv, DevicesAssumption
<1>3. VisibilityInv => ReportIsTrue
  BY DEF VisibilityInv, Sees, ReportIsTrue, Visibility!ReportIsTrue
<1> QED  BY <1>1, <1>2, <1>3, PTL DEF SumSpec

\* The agent's count of the seconds left never stays without the timer that ends it
\* (timeout_handler).
THEOREM TimeLeftAlwaysRuns == SumSpec => []TimeLeftRuns
<1>1. SumInit => VisibilityInv
  BY VisibilityInitInv, DevicesAssumption DEF SumInit
<1>2. VisibilityInv /\ [SumNext]_sumVars => VisibilityInv'
  BY SumStep, VisibilityNextInv, DevicesAssumption
<1>3. VisibilityInv => TimeLeftRuns
  BY DEF VisibilityInv
<1> QED  BY <1>1, <1>2, <1>3, PTL DEF SumSpec

LEMMA BondingAlone == ASSUME BondingTyped, UNCHANGED vars PROVE BondingTyped'
<1>1. /\ UNCHANGED <<application_pid, adapter_proxy, is_bonding_req, is_headset_bonding>>
      /\ UNCHANGED <<is_headset_pin_req, waiting, hci0, bt_bonding_req_addrstr>>
      /\ UNCHANGED <<bt_bonding_req_timer, timers, calls, ncalls, pending, inbox>>
      /\ UNCHANGED <<device_proxy_list, paired, devices, event>>
  BY DEF vars, reqVars, ghostVars, bluezVars
<1>2. Flags' /\ Requests' /\ Pending' /\ DeviceObjects' /\ EventTyped'
  BY <1>1 DEF BondingTyped, Flags, Requests, Pending, DeviceObjects, EventTyped
<1>3. Fits(ncalls', inbox')
  BY <1>1 DEF BondingTyped
<1> QED  BY <1>2, <1>3 DEF BondingTyped

LEMMA DiscoveryAlone ==
  ASSUME DiscoveryTyped, QueueSound, UNCHANGED discoveryVars
  PROVE  DiscoveryTyped' /\ QueueSound'
<1>1. DiscoveryTyped'
  BY DEF discoveryVars, DiscoveryTyped
<1>2. QueueSound'
  BY QueueKept DEF discoveryVars
<1> QED  BY <1>1, <1>2

\* Every variable keeps its type: the calls and the retries that wait are no more than the
\* calls there may be, the proxies no more than a session can leave behind, and what is
\* queued is what BlueZ sends (bluetooth_bond_device, discovery_started_cb, adapter_added_cb).
THEOREM TypesAlwaysCorrect == SumSpec => []SumTypeOK
<1> DEFINE Inv == IInv /\ BondingTyped /\ DiscoveryTyped /\ QueueSound /\ VisibilityInv
<1>1. SumInit => Inv
  BY InitInv, BondingTypesInit, DiscoveryTypesInit, VisibilityInitInv, DevicesAssumption
     DEF SumInit
<1>2. ASSUME Inv, [SumNext]_sumVars PROVE Inv'
  <2>1. IInv'
    BY <1>2, SumStep, NextInv
  <2>2. BondingTyped'
    BY <1>2, SumStep, BondingTypesNext, BondingAlone
  <2>3. DiscoveryTyped' /\ QueueSound'
    BY <1>2, SumStep, DiscoveryTypesNext, DiscoveryAlone, DevicesAssumption
  <2>4. VisibilityInv'
    BY <1>2, SumStep, VisibilityNextInv, DevicesAssumption
  <2> QED  BY <2>1, <2>2, <2>3, <2>4
<1>3. Inv => SumTypeOK
  BY BondingTypedIsTypeOK, TypedIsTypeOK DEF SumTypeOK, VisibilityInv
<1> QED  BY <1>1, <1>2, <1>3, PTL DEF SumSpec
=============================================================================
