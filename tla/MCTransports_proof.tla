------------------------- MODULE MCTransports_proof -------------------------
(***************************************************************************)
(* Proofs about object push and RFCOMM, for any numbers of pushes, files,  *)
(* slots, descriptors, proxies and connects.                               *)
(*                                                                         *)
(* Object push: RequestFindsNoTransfer, the assertion of the request       *)
(* callback, is about the order of messages in the queue: a transfer is    *)
(* current until its end is dispatched, and obexd has by then perhaps      *)
(* asked for the next file or released the agent.  The invariant says that *)
(* the end comes first.                                                    *)
(*                                                                         *)
(* The server: descriptors lead to the right slot and no watch is left on  *)
(* a closed descriptor, SocketsAreFound and WatchedAreOpen.  A descriptor  *)
(* is used again once it is closed, so both hold only because no two open  *)
(* things share one: each server socket has its slot, each client a watch  *)
(* of its own slot, and no client is a server socket.                      *)
(*                                                                         *)
(* The client: a CONNECTED event is for the connect it names, and no port  *)
(* is kept that nothing is for, EventTellsItsConnect and PortsAreHeld.     *)
(* The two slots of the library say which connect an answer is of because  *)
(* of connects that do not overlap there is one at a time; and an answer   *)
(* names a tty that no other port has because each pending call leaves     *)
(* BlueZ one.                                                              *)
(***************************************************************************)
EXTENDS MCTransports, Queues, TLAPS

(***************************************************************************)
(* Object push.                                                            *)
(***************************************************************************)

Kinds == {"REPLY_OK", "REPLY_ERROR", "REQUEST", "PROGRESS", "COMPLETE", "ERROR",
          "LINK_LOST", "RELEASE"}
Message == [push : Push, kind : Kinds]

Asked == {"REQUEST"}
Released == {"RELEASE"}
Ending == {"COMPLETE", "ERROR", "LINK_LOST"}
Next_of_end == {"REQUEST", "RELEASE"}

\* A message of push k, of one of some kinds.
Is(msg, k, kinds) == msg.push = k /\ msg.kind \in kinds
Waits(q, k, kinds) == \E i \in DOMAIN q : Is(q[i], k, kinds)

\* At most one Request of a push is in the queue.
Once(q, k) ==
  \A i, j \in DOMAIN q : Is(q[i], k, Asked) /\ Is(q[j], k, Asked) => i = j

\* The end of the transfer comes before what follows it.
EndFirst(q, k) ==
  \E i \in DOMAIN q : /\ Is(q[i], k, Ending)
                      /\ \A j \in 1..(i - 1) : ~Is(q[j], k, Next_of_end)

(***************************************************************************)
(* The queue.                                                              *)
(***************************************************************************)

LEMMA Popped ==
  ASSUME NEW q \in Seq(Message), q # <<>>
  PROVE  /\ Tail(q) \in Seq(Message) /\ Head(q) \in Message /\ Head(q) = q[1]
         /\ 1 \in DOMAIN q /\ DOMAIN Tail(q) = 1..(Len(q) - 1) /\ DOMAIN q = 1..Len(q)
         /\ \A i \in DOMAIN Tail(q) : Tail(q)[i] = q[i + 1]
OBVIOUS

LEMMA Joined ==
  ASSUME NEW q \in Seq(Message), NEW m \in Seq(Message)
  PROVE  /\ q \o m \in Seq(Message) /\ Len(q) \in Nat /\ Len(m) \in Nat
         /\ DOMAIN (q \o m) = 1..(Len(q) + Len(m))
         /\ DOMAIN q = 1..Len(q) /\ DOMAIN m = 1..Len(m)
         /\ \A i \in DOMAIN q : (q \o m)[i] = q[i]
         /\ \A i \in DOMAIN m : (q \o m)[Len(q) + i] = m[i]
OBVIOUS

LEMMA HasTail ==
  ASSUME NEW q \in Seq(Message), q # <<>>, NEW k, NEW kinds, Waits(Tail(q), k, kinds)
  PROVE  Waits(q, k, kinds)
BY Popped DEF Waits

LEMMA HasJoin ==
  ASSUME NEW q \in Seq(Message), NEW m \in Seq(Message), NEW k, NEW kinds,
         Waits(q \o m, k, kinds)
  PROVE  Waits(q, k, kinds) \/ Waits(m, k, kinds)
<1>1. PICK i \in DOMAIN (q \o m) : Is((q \o m)[i], k, kinds)
  BY DEF Waits
<1>2. CASE i \in DOMAIN q
  BY <1>1, <1>2, Joined DEF Waits
<1>3. CASE i \notin DOMAIN q
  <2>1. i - Len(q) \in DOMAIN m /\ i = Len(q) + (i - Len(q))
    BY <1>1, <1>3, Joined
  <2>2. m[i - Len(q)] = (q \o m)[i]
    BY <2>1, Joined
  <2> QED  BY <1>1, <2>1, <2>2 DEF Waits
<1> QED  BY <1>2, <1>3

LEMMA OnceTail ==
  ASSUME NEW q \in Seq(Message), q # <<>>, NEW k, Once(q, k)
  PROVE  /\ Once(Tail(q), k)
         /\ Is(Head(q), k, Asked) => ~Waits(Tail(q), k, Asked)
<1>1. ASSUME NEW i \in DOMAIN Tail(q), NEW j \in DOMAIN Tail(q),
             Is(Tail(q)[i], k, Asked), Is(Tail(q)[j], k, Asked)
      PROVE  i = j
  <2>1. i + 1 \in DOMAIN q /\ j + 1 \in DOMAIN q /\ i \in Nat /\ j \in Nat
    BY Popped
  <2>2. i + 1 = j + 1
    BY <1>1, <2>1, Popped DEF Once
  <2> QED  BY <2>1, <2>2
<1>2. ASSUME Is(Head(q), k, Asked), NEW i \in DOMAIN Tail(q),
             Is(Tail(q)[i], k, Asked)
      PROVE  FALSE
  <2>1. i + 1 \in DOMAIN q /\ 1 \in DOMAIN q /\ i \in 1..(Len(q) - 1)
    BY Popped
  <2>2. i + 1 = 1
    BY <1>2, <2>1, Popped DEF Once
  <2> QED  BY <2>1, <2>2
<1> QED  BY <1>1, <1>2 DEF Once, Waits

LEMMA OnceJoin ==
  ASSUME NEW q \in Seq(Message), NEW m \in Seq(Message), NEW k, Once(q, k), Once(m, k),
         ~Waits(q, k, Asked) \/ ~Waits(m, k, Asked)
  PROVE  Once(q \o m, k)
<1> SUFFICES ASSUME NEW i \in DOMAIN (q \o m), NEW j \in DOMAIN (q \o m),
                    Is((q \o m)[i], k, Asked), Is((q \o m)[j], k, Asked)
             PROVE  i = j
  BY DEF Once
<1>1. \A n \in DOMAIN (q \o m) :
        n \in DOMAIN q \/ (n - Len(q) \in DOMAIN m /\ m[n - Len(q)] = (q \o m)[n])
  <2> TAKE n \in DOMAIN (q \o m)
  <2>1. CASE n \notin DOMAIN q
    <3>1. n - Len(q) \in DOMAIN m /\ n = Len(q) + (n - Len(q))
      BY <2>1, Joined
    <3> QED  BY <3>1, Joined
  <2> QED  BY <2>1
<1>2. CASE i \in DOMAIN q /\ j \in DOMAIN q
  BY <1>2, Joined DEF Once
<1>3. CASE i \notin DOMAIN q /\ j \notin DOMAIN q
  <2>1. i - Len(q) = j - Len(q)
    BY <1>1, <1>3 DEF Once
  <2> QED  BY <2>1, Joined
<1>4. CASE (i \in DOMAIN q) # (j \in DOMAIN q)
  BY <1>1, <1>4, Joined DEF Waits
<1> QED  BY <1>2, <1>3, <1>4

LEMMA EndFirstTail ==
  ASSUME NEW q \in Seq(Message), q # <<>>, NEW k, EndFirst(q, k)
  PROVE  /\ ~Is(Head(q), k, Next_of_end)
         /\ ~Is(Head(q), k, Ending) => EndFirst(Tail(q), k)
<1>1. PICK i \in DOMAIN q : /\ Is(q[i], k, Ending)
                            /\ \A j \in 1..(i - 1) : ~Is(q[j], k, Next_of_end)
  BY DEF EndFirst
<1>2. CASE i = 1
  BY <1>1, <1>2, Popped DEF Is, Ending, Next_of_end
<1>3. CASE i # 1
  <2>1. i - 1 \in DOMAIN Tail(q) /\ 1 \in 1..(i - 1) /\ i \in Nat
    BY <1>3, Popped
  <2>2. Tail(q)[i - 1] = q[i]
    BY <2>1, Popped
  <2>3. \A j \in 1..((i - 1) - 1) : ~Is(Tail(q)[j], k, Next_of_end)
    <3> TAKE j \in 1..((i - 1) - 1)
    <3>1. j \in DOMAIN Tail(q) /\ j + 1 \in 1..(i - 1)
      BY <2>1, Popped
    <3> QED  BY <1>1, <3>1, Popped
  <2> QED  BY <1>1, <2>1, <2>2, <2>3, Popped DEF EndFirst
<1> QED  BY <1>2, <1>3

LEMMA EndFirstJoin ==
  ASSUME NEW q \in Seq(Message), NEW m \in Seq(Message), NEW k, EndFirst(q, k)
  PROVE  EndFirst(q \o m, k)
<1>1. PICK i \in DOMAIN q : /\ Is(q[i], k, Ending)
                            /\ \A j \in 1..(i - 1) : ~Is(q[j], k, Next_of_end)
  BY DEF EndFirst
<1>2. i \in DOMAIN (q \o m) /\ (q \o m)[i] = q[i] /\ i \in 1..Len(q)
  BY Joined
<1>3. \A j \in 1..(i - 1) : (q \o m)[j] = q[j]
  BY <1>2, Joined
<1> QED  BY <1>1, <1>2, <1>3 DEF EndFirst

LEMMA EndFirstNew ==
  ASSUME NEW q \in Seq(Message), NEW m \in Seq(Message), NEW k,
         ~Waits(q, k, Next_of_end), m # <<>>, Is(m[1], k, Ending)
  PROVE  EndFirst(q \o m, k)
<1>1. 1 \in DOMAIN m /\ (q \o m)[Len(q) + 1] = m[1] /\ Len(q) + 1 \in DOMAIN (q \o m)
  BY Joined
<1>2. \A j \in 1..((Len(q) + 1) - 1) : j \in DOMAIN q /\ (q \o m)[j] = q[j]
  BY Joined
<1> QED  BY <1>1, <1>2 DEF EndFirst, Waits

(***************************************************************************)
(* The queue and obexd's view of the pushes.                               *)
(***************************************************************************)

\* obexd waits for the answer to a Request, and is done with a push it released.
Agree(q, s) ==
  \A k \in Push : /\ Once(q, k)
                  /\ Waits(q, k, Asked) => s[k] = "asking"
                  /\ Waits(q, k, Released) => s[k] = "over"

LEMMA AgreeTail ==
  ASSUME NEW q \in Seq(Message), q # <<>>, NEW s, Agree(q, s)
  PROVE  Agree(Tail(q), s)
BY HasTail, OnceTail DEF Agree

LEMMA AgreeAnswered ==
  ASSUME NEW q \in Seq(Message), q # <<>>, NEW s, Agree(q, s),
         NEW k \in Push, Is(Head(q), k, Asked), NEW x, NEW t,
         \A i \in Push \ {k} : t[i] = s[i]
  PROVE  Agree(Tail(q), t)
<1>1. Waits(q, k, Asked)
  BY Popped DEF Waits
<1>2. ~Waits(Tail(q), k, Asked)
  BY OnceTail DEF Agree
<1>3. ~Waits(Tail(q), k, Released)
  BY <1>1, HasTail DEF Agree
<1> QED  BY <1>2, <1>3, HasTail, OnceTail DEF Agree

LEMMA AgreeJoin ==
  ASSUME NEW q \in Seq(Message), NEW m \in Seq(Message), NEW s, Agree(q, s),
         NEW k \in Push, s[k] \notin {"asking", "over"},
         \A i \in DOMAIN m : m[i].push = k,
         Once(m, k), NEW t, \A i \in Push \ {k} : t[i] = s[i],
         Waits(m, k, Asked) => t[k] = "asking",
         Waits(m, k, Released) => t[k] = "over"
  PROVE  Agree(q \o m, t)
<1> SUFFICES ASSUME NEW n \in Push
             PROVE  /\ Once(q \o m, n)
                    /\ Waits(q \o m, n, Asked) => t[n] = "asking"
                    /\ Waits(q \o m, n, Released) => t[n] = "over"
  BY DEF Agree
<1>1. CASE n = k
  <2>1. ~Waits(q, k, Asked) /\ ~Waits(q, k, Released) /\ Once(q, k)
    BY DEF Agree
  <2> QED  BY <1>1, <2>1, OnceJoin, HasJoin
<1>2. CASE n # k
  <2>1. Once(m, n) /\ \A kinds : ~Waits(m, n, kinds)
    BY <1>2 DEF Once, Waits, Is
  <2>2. Once(q, n)
    BY DEF Agree
  <2> QED  BY <1>2, <2>1, <2>2, OnceJoin, HasJoin DEF Agree
<1> QED  BY <1>1, <1>2

(***************************************************************************)
(* The invariant.                                                          *)
(***************************************************************************)

\* A transfer whose agent is still there goes on in obexd, or its end is in the queue.
TransferGoesOn ==
  current_transfer # 0 /\ opc_obex_agent = current_transfer =>
    Sending(current_transfer) \/ EndFirst(inbox, current_transfer)

OneAgent == current_transfer # 0 => opc_obex_agent \in {0, current_transfer}
StartedIsCurrent == started => current_transfer # 0

\* What bounds the counters.
FutureIsNew == \A k \in Push : k > g_counter => session[k] = "none"
FilesAreLeft ==
  \A k \in Push : session[k] \in {"asking", "sending", "half sent"} => left[k] > 0
IdlesCount == call_proxy # 0 => cancel_idles < g_counter

Transfers == TransferGoesOn /\ OneAgent /\ StartedIsCurrent
Bounds == FutureIsNew /\ FilesAreLeft /\ IdlesCount

IInv == TypeOK /\ Bounds /\ Agree(inbox, session) /\ Transfers

\* TypeOK with names for its sets.
EventSet == [name : Names, result : Results, push : 0..MaxPushes]
SessionStates == {"none", "connecting", "ready", "asking", "sending", "half sent", "over"}

Typed ==
  /\ client_proxy \in BOOLEAN /\ call_pending \in BOOLEAN
  /\ cancel_sending_files \in BOOLEAN /\ started \in BOOLEAN
  /\ opc_obex_agent \in 0..MaxPushes /\ call_proxy \in 0..MaxPushes
  /\ current_transfer \in 0..MaxPushes /\ address \in 0..MaxPushes
  /\ cancel_idles \in 0..g_counter
  /\ g_counter \in 0..MaxPushes /\ deinits \in 0..MaxDeinits
  /\ events \in Seq(EventSet)
  /\ session \in [Push -> SessionStates]
  /\ left \in [Push -> 0..MaxFiles]
  /\ cancels \subseteq Push
  /\ inbox \in Seq(Message)

LEMMA TypedIsTypeOK == (TypeOK <=> Typed) /\ (TypeOK' <=> Typed')
BY DEF TypeOK, Typed, EventSet, SessionStates, Message, Kinds

LEMMA EventTyped ==
  ASSUME NEW name \in Names, NEW result \in Results, NEW k \in 0..MaxPushes
  PROVE  Event(name, result, k) \in EventSet
BY DEF Event, EventSet

LEMMA EventsTyped ==
  /\ <<>> \in Seq(EventSet)
  /\ \A e \in EventSet : <<e>> \in Seq(EventSet)
  /\ \A e, f \in EventSet : <<e, f>> \in Seq(EventSet)
OBVIOUS

LEMMA MsgTyped ==
  ASSUME NEW k \in Push, NEW kind \in Kinds
  PROVE  Msg(k, kind) \in Message
BY DEF Msg, Message

LEMMA OneMsg ==
  ASSUME NEW k \in Push, NEW kind \in Kinds, NEW m, m = <<Msg(k, kind)>>
  PROVE  /\ m \in Seq(Message) /\ Once(m, k) /\ \A i \in DOMAIN m : m[i].push = k
         /\ Waits(m, k, Asked) => kind = "REQUEST"
         /\ Waits(m, k, Released) => kind = "RELEASE"
         /\ m # <<>> /\ (kind \in Ending => Is(m[1], k, Ending))
<1>1. m \in Seq(Message) /\ DOMAIN m = {1} /\ m[1] = Msg(k, kind) /\ m # <<>>
  BY MsgTyped
<1>2. Msg(k, kind).push = k /\ Msg(k, kind).kind = kind
  BY DEF Msg
<1> QED  BY <1>1, <1>2 DEF Once, Waits, Is, Asked, Released

LEMMA TwoMsgs ==
  ASSUME NEW k \in Push, NEW kind \in Kinds \ {"REQUEST"}, NEW m,
         m = <<Msg(k, kind), Msg(k, "RELEASE")>>
  PROVE  /\ m \in Seq(Message) /\ Once(m, k) /\ \A i \in DOMAIN m : m[i].push = k
         /\ ~Waits(m, k, Asked)
         /\ m # <<>> /\ (kind \in Ending => Is(m[1], k, Ending))
<1>1. Msg(k, kind) \in Message /\ Msg(k, "RELEASE") \in Message
  BY MsgTyped DEF Kinds
<1>2. m \in Seq(Message) /\ DOMAIN m = {1, 2} /\ m # <<>>
  BY <1>1
<1>3. m[1] = Msg(k, kind) /\ m[2] = Msg(k, "RELEASE")
  OBVIOUS
<1>4. /\ Msg(k, kind).push = k /\ Msg(k, kind).kind = kind
      /\ Msg(k, "RELEASE").push = k /\ Msg(k, "RELEASE").kind = "RELEASE"
  BY DEF Msg
<1> QED  BY <1>2, <1>3, <1>4 DEF Once, Waits, Is, Asked

\* TypeOK with the names of this module.
LEMMA InboxTyped == TypeOK => inbox \in Seq(Message)
BY DEF TypeOK, Message, Kinds

LEMMA InitInv == Init => IInv
<1> SUFFICES ASSUME Init PROVE IInv
  OBVIOUS
<1>1. TypeOK
  <2>1. \A S : <<>> \in Seq(S)
    OBVIOUS
  <2>2. events = <<>> /\ inbox = <<>>
    BY DEF Init
  <2>3. cancel_idles \in 0..g_counter /\ g_counter \in 0..MaxPushes /\ deinits \in 0..MaxDeinits
    BY OpcAssumption DEF Init
  <2>4. left \in [Push -> 0..MaxFiles]
    BY OpcAssumption DEF Init
  <2>5. 0 \in 0..MaxPushes
    BY OpcAssumption
  <2> QED  BY <2>1, <2>2, <2>3, <2>4, <2>5 DEF Init, TypeOK
<1>2. Bounds
  BY DEF Init, Bounds, FutureIsNew, FilesAreLeft, IdlesCount
<1>3. Agree(inbox, session)
  BY DEF Init, Agree, Once, Waits
<1>4. Transfers
  BY DEF Init, Transfers, TransferGoesOn, OneAgent, StartedIsCurrent
<1> QED  BY <1>1, <1>2, <1>3, <1>4 DEF IInv

(***************************************************************************)
(* The transfer a step of the application finds.                           *)
(***************************************************************************)

\* A Request or a Release that its agent takes finds no transfer.
LEMMA NextFindsNone ==
  ASSUME IInv, inbox # <<>>, Head(inbox).push = opc_obex_agent,
         Head(inbox).kind \in Next_of_end
  PROVE  current_transfer = 0
<1> SUFFICES ASSUME current_transfer # 0 PROVE FALSE
  OBVIOUS
<1>1. inbox \in Seq(Message) /\ Head(inbox) \in Message
  BY InboxTyped, Popped DEF IInv
<1>2. opc_obex_agent = current_transfer /\ current_transfer \in Push
  BY <1>1 DEF IInv, Transfers, OneAgent, Message, Push
<1>3. Is(Head(inbox), current_transfer, Next_of_end)
  BY <1>2 DEF Is
<1>4. ~EndFirst(inbox, current_transfer)
  BY <1>1, <1>3, EndFirstTail
<1>5. Waits(inbox, current_transfer, Asked) \/ Waits(inbox, current_transfer, Released)
  BY <1>1, <1>3, Popped DEF Waits, Is, Next_of_end, Asked, Released
<1>6. ~Sending(current_transfer)
  BY <1>2, <1>5 DEF IInv, Agree, Sending
<1> QED  BY <1>2, <1>4, <1>6 DEF IInv, Transfers, TransferGoesOn

\* The assertion of the request callback: no transfer is current when a Request
\* is dispatched (request_callback in lib/bluetooth-opc-api.c).
LEMMA AssertionHolds == IInv => RequestFindsNoTransfer
BY NextFindsNone DEF RequestFindsNoTransfer, Next_of_end

(***************************************************************************)
(* The application's calls keep the invariant.                             *)
(***************************************************************************)

LEMMA InitKeeps == IInv /\ bluetooth_opc_init => IInv'
<1> SUFFICES ASSUME IInv, bluetooth_opc_init PROVE IInv'
  OBVIOUS
<1> USE DEF bluetooth_opc_init, callVars, obexdVars
<1>1. TypeOK'
  BY TypedIsTypeOK, EventsTyped DEF IInv, Typed
<1>2. Bounds'
  BY DEF IInv, Bounds, FutureIsNew, FilesAreLeft, IdlesCount
<1>3. Agree(inbox, session)'
  BY DEF IInv
<1>4. Transfers'
  BY DEF IInv, Transfers, TransferGoesOn, OneAgent, StartedIsCurrent, Sending
<1> QED  BY <1>1, <1>2, <1>3, <1>4 DEF IInv

LEMMA DeinitKeeps == IInv /\ bluetooth_opc_deinit => IInv'
<1> SUFFICES ASSUME IInv, bluetooth_opc_deinit PROVE IInv'
  OBVIOUS
<1> USE DEF bluetooth_opc_deinit, obexdVars
<1>1. TypeOK'
  <2>1. Typed
    BY TypedIsTypeOK DEF IInv
  <2>2. deinits' \in 0..MaxDeinits
    BY <2>1, OpcAssumption DEF Typed
  <2> QED  BY <2>1, <2>2, TypedIsTypeOK, EventsTyped DEF Typed
<1>2. Bounds'
  BY DEF IInv, Bounds, FutureIsNew, FilesAreLeft, IdlesCount
<1>3. Agree(inbox, session)'
  BY DEF IInv
<1>4. Transfers'
  BY DEF IInv, Transfers, TransferGoesOn, OneAgent, StartedIsCurrent, Sending
<1> QED  BY <1>1, <1>2, <1>3, <1>4 DEF IInv

\* The new push is one obexd has not seen: nothing in the queue is about it.
LEMMA PushKeeps ==
  ASSUME IInv, NEW files \in 1..MaxFiles, bluetooth_opc_push_files(files)
  PROVE  IInv'
<1>1. PICK n \in Push : n = g_counter + 1
  <2>1. g_counter \in Nat /\ g_counter < MaxPushes /\ MaxPushes \in Nat
    BY TypedIsTypeOK, OpcAssumption DEF IInv, Typed, bluetooth_opc_push_files
  <2>2. g_counter + 1 \in Push
    BY <2>1 DEF Push
  <2> QED  BY <2>2
<1>2. session[n] = "none"
  BY <1>1, TypedIsTypeOK DEF IInv, Typed, Bounds, FutureIsNew
<1>3. /\ session' = [session EXCEPT ![n] = "connecting"] /\ left' = [left EXCEPT ![n] = files]
      /\ g_counter' = n /\ opc_obex_agent' = n /\ call_proxy' = n /\ call_pending' = TRUE
      /\ address' = n /\ cancel_sending_files' = FALSE /\ events' = <<>>
      /\ current_transfer = 0 /\ opc_obex_agent = 0
      /\ UNCHANGED <<client_proxy, deinits, cancel_idles, current_transfer, started, cancels, inbox>>
  BY <1>1 DEF bluetooth_opc_push_files, Busy
<1>4. TypeOK'
  <2>1. Typed
    BY TypedIsTypeOK DEF IInv
  <2>2. n \in 0..MaxPushes /\ cancel_idles \in 0..n /\ files \in 0..MaxFiles
    BY <1>1, <2>1, OpcAssumption DEF Typed, Push
  <2>3. session' \in [Push -> SessionStates] /\ left' \in [Push -> 0..MaxFiles]
    BY <1>3, <2>1, <2>2 DEF Typed, SessionStates
  <2> QED  BY <1>3, <2>1, <2>2, <2>3, TypedIsTypeOK, EventsTyped DEF Typed
<1>5. Bounds'
  <2>1. Typed
    BY TypedIsTypeOK DEF IInv
  <2>2. FutureIsNew'
    BY <1>1, <1>3, <2>1 DEF IInv, Bounds, FutureIsNew, Typed, Push
  <2>3. FilesAreLeft'
    BY <1>3, <2>1 DEF IInv, Bounds, FilesAreLeft, Typed
  <2>4. IdlesCount'
    BY <1>1, <1>3, <2>1 DEF IInv, Bounds, IdlesCount, Typed
  <2> QED  BY <2>2, <2>3, <2>4 DEF Bounds
<1>6. Agree(inbox, session)'
  BY <1>2, <1>3, TypedIsTypeOK DEF IInv, Agree, Typed
<1>7. Transfers'
  BY <1>3 DEF IInv, Transfers, TransferGoesOn, OneAgent, StartedIsCurrent
<1> QED  BY <1>4, <1>5, <1>6, <1>7 DEF IInv

LEMMA CancelKeeps == IInv /\ bluetooth_opc_cancel_push => IInv'
<1> SUFFICES ASSUME IInv, bluetooth_opc_cancel_push PROVE IInv'
  OBVIOUS
<1>0. Typed
  BY TypedIsTypeOK DEF IInv
<1>1. /\ UNCHANGED <<initVars, opc_obex_agent, current_transfer, address, started, session, left, inbox>>
      /\ cancel_sending_files' = TRUE /\ events' = <<Event("CANCEL_CALL", "NONE", 0)>>
  BY DEF bluetooth_opc_cancel_push, Tell
<1>2. \/ /\ cancels' \subseteq Push /\ UNCHANGED <<call_proxy, call_pending, cancel_idles>>
      \/ /\ call_proxy # 0 /\ call_proxy' = 0 /\ call_pending' = FALSE
         /\ cancel_idles' = cancel_idles + 1 /\ UNCHANGED cancels
  <2>1. current_transfer # 0 => current_transfer \in Push
    BY <1>0, OpcAssumption DEF Typed, Push
  <2>2. cancels \subseteq Push
    BY <1>0 DEF Typed
  <2> QED  BY <2>1, <2>2 DEF bluetooth_opc_cancel_push, callVars
<1>3. IdlesCount'
  BY <1>0, <1>1, <1>2 DEF IInv, Bounds, IdlesCount, initVars, Typed
<1>4. events' \in Seq(EventSet)
  BY <1>1, EventTyped, EventsTyped, OpcAssumption DEF Names, Results
<1>5. cancel_idles' \in 0..g_counter' /\ call_proxy' \in 0..MaxPushes /\ call_pending' \in BOOLEAN
  <2>1. cancel_idles \in Nat /\ g_counter \in Nat /\ g_counter' = g_counter
    BY <1>0, <1>1 DEF Typed, initVars
  <2>2. cancel_idles' \in 0..g_counter'
    BY <1>0, <1>2, <2>1 DEF IInv, Bounds, IdlesCount, Typed
  <2>3. 0 \in 0..MaxPushes
    BY OpcAssumption
  <2>4. call_proxy' \in 0..MaxPushes /\ call_pending' \in BOOLEAN
    BY <1>0, <1>2, <2>3 DEF Typed
  <2> QED  BY <2>2, <2>4
<1>6. TypeOK'
  BY <1>0, <1>1, <1>2, <1>4, <1>5, TypedIsTypeOK DEF Typed, initVars
<1>7. Bounds'
  BY <1>1, <1>3 DEF IInv, Bounds, FutureIsNew, FilesAreLeft, initVars
<1>8. Agree(inbox, session)'
  BY <1>1 DEF IInv
<1>9. Transfers'
  BY <1>1 DEF IInv, Transfers, TransferGoesOn, OneAgent, StartedIsCurrent, Sending
<1> QED  BY <1>6, <1>7, <1>8, <1>9 DEF IInv

LEMMA CancelConnectKeeps == IInv /\ cancel_connect_cb => IInv'
<1> SUFFICES ASSUME IInv, cancel_connect_cb PROVE IInv'
  OBVIOUS
<1> USE DEF cancel_connect_cb, initVars, obexdVars
<1>0. Typed
  BY TypedIsTypeOK DEF IInv
<1>1. events' \in Seq(EventSet)
  BY <1>0, EventTyped, EventsTyped DEF Names, Results, Tell, Typed
<1>2. cancel_idles' \in 0..g_counter /\ 0 \in 0..MaxPushes
  BY <1>0, OpcAssumption DEF Typed
<1>3. TypeOK'
  BY <1>0, <1>1, <1>2, TypedIsTypeOK DEF Typed
<1>4. Bounds'
  <2>1. IdlesCount'
    BY <1>0 DEF IInv, Bounds, IdlesCount, Typed
  <2> QED  BY <2>1 DEF IInv, Bounds, FutureIsNew, FilesAreLeft
<1>5. Agree(inbox, session)'
  BY DEF IInv
<1>6. Transfers'
  BY DEF IInv, Transfers, TransferGoesOn, OneAgent, StartedIsCurrent
<1> QED  BY <1>3, <1>4, <1>5, <1>6 DEF IInv

(***************************************************************************)
(* obexd's steps keep the invariant.                                       *)
(***************************************************************************)

\* What obexd leaves alone.
LibKept ==
  /\ events' = <<>>
  /\ UNCHANGED <<initVars, opc_obex_agent, callVars, current_transfer,
                 cancel_sending_files, address, started>>

\* obexd moves push k on to x, from "connecting", "ready" or a transfer, and sends
\* m; a transfer that ends so is told first.
Moves(k, x, m) ==
  /\ session[k] \notin {"none", "asking", "over"}
  /\ session' = [session EXCEPT ![k] = x]
  /\ inbox' = inbox \o m

Tells(k, x, m) ==
  /\ Once(m, k) /\ \A i \in DOMAIN m : m[i].push = k
  /\ Waits(m, k, Asked) => x = "asking"
  /\ Waits(m, k, Released) => x = "over"

TellsEnd(k, x, m) ==
  Sending(k) => x \in {"sending", "half sent"} \/ (m # <<>> /\ Is(m[1], k, Ending))

FilesFor(k, x) ==
  /\ left' \in [Push -> 0..MaxFiles] /\ cancels' \subseteq Push
  /\ \A i \in Push \ {k} : left'[i] = left[i]
  /\ x \in {"asking", "sending", "half sent"} => left'[k] > 0

LEMMA ObexdMoves ==
  ASSUME IInv, LibKept, NEW k \in Push, NEW x \in SessionStates \ {"none"},
         NEW m \in Seq(Message), Moves(k, x, m), Tells(k, x, m), TellsEnd(k, x, m),
         FilesFor(k, x)
  PROVE  IInv'
<1>0. Typed
  BY TypedIsTypeOK DEF IInv
<1>1. /\ \A i \in Push \ {k} : session'[i] = session[i]
      /\ session'[k] = x /\ session' \in [Push -> SessionStates]
  BY <1>0 DEF Typed, Moves
<1>2. inbox' = inbox \o m /\ inbox \in Seq(Message) /\ inbox' \in Seq(Message)
  <2>1. inbox' = inbox \o m
    BY DEF Moves
  <2>2. inbox \in Seq(Message)
    BY <1>0 DEF Typed
  <2> QED  BY <2>1, <2>2, Joined
<1>3. TypeOK'
  BY <1>0, <1>1, <1>2, TypedIsTypeOK, EventsTyped DEF Typed, LibKept, initVars, callVars, FilesFor
<1>4. Bounds'
  <2>1. FutureIsNew'
    BY <1>1 DEF IInv, Bounds, FutureIsNew, LibKept, initVars, Moves
  <2>2. FilesAreLeft'
    BY <1>1 DEF IInv, Bounds, FilesAreLeft, FilesFor
  <2>3. IdlesCount'
    BY DEF IInv, Bounds, IdlesCount, LibKept, initVars, callVars
  <2> QED  BY <2>1, <2>2, <2>3 DEF Bounds
<1>5. Agree(inbox, session)'
  <2>1. Agree(inbox, session) /\ session[k] \notin {"asking", "over"}
    BY DEF IInv, Moves
  <2>2. /\ Once(m, k) /\ \A i \in DOMAIN m : m[i].push = k
        /\ Waits(m, k, Asked) => session'[k] = "asking"
        /\ Waits(m, k, Released) => session'[k] = "over"
    BY <1>1 DEF Tells
  <2>3. Agree(inbox \o m, session')
    BY <1>1, <1>2, <2>1, <2>2, AgreeJoin
  <2> QED  BY <1>2, <2>3
<1>6. Transfers'
  <2>1. OneAgent' /\ StartedIsCurrent'
    BY DEF IInv, Transfers, OneAgent, StartedIsCurrent, LibKept
  <2>2. ASSUME current_transfer # 0, opc_obex_agent = current_transfer
        PROVE  Sending(current_transfer)' \/ EndFirst(inbox, current_transfer)'
    <3>1. current_transfer' = current_transfer
      BY DEF LibKept
    <3>2. CASE EndFirst(inbox, current_transfer)
      BY <1>2, <3>1, <3>2, EndFirstJoin
    <3>3. CASE Sending(current_transfer) /\ current_transfer # k
      <4>1. current_transfer \in Push
        BY <1>0, <2>2, OpcAssumption DEF Typed, Push
      <4> QED  BY <1>1, <3>1, <3>3, <4>1 DEF Sending
    <3>4. CASE Sending(current_transfer) /\ current_transfer = k
      <4>1. CASE x \in {"sending", "half sent"}
        BY <1>1, <3>1, <3>4, <4>1 DEF Sending
      <4>2. CASE m # <<>> /\ Is(m[1], k, Ending)
        <5>1. ~Waits(inbox, k, Asked) /\ ~Waits(inbox, k, Released)
          BY <3>4 DEF IInv, Agree, Sending
        <5>2. ~Waits(inbox, k, Next_of_end)
          BY <5>1 DEF Waits, Is, Asked, Released, Next_of_end
        <5>3. EndFirst(inbox \o m, k)
          BY <1>2, <4>2, <5>2, EndFirstNew
        <5> QED  BY <1>2, <3>1, <3>4, <5>3
      <4> QED  BY <3>4, <4>1, <4>2 DEF TellsEnd
    <3> QED  BY <2>2, <3>2, <3>3, <3>4 DEF IInv, Transfers, TransferGoesOn
  <2>3. TransferGoesOn'
    BY <2>2 DEF TransferGoesOn, LibKept
  <2> QED  BY <2>1, <2>3 DEF Transfers
<1> QED  BY <1>3, <1>4, <1>5, <1>6 DEF IInv

LEMMA OneTells ==
  ASSUME NEW k \in Push, NEW x, NEW kind \in Kinds, NEW m, m = <<Msg(k, kind)>>,
         kind = "REQUEST" => x = "asking", kind = "RELEASE" => x = "over"
  PROVE  Tells(k, x, m)
BY OneMsg DEF Tells

LEMMA OneSent ==
  ASSUME IInv, LibKept, NEW k \in Push, NEW x \in SessionStates \ {"none"}, NEW kind \in Kinds,
         Moves(k, x, <<Msg(k, kind)>>), FilesFor(k, x),
         kind = "REQUEST" => x = "asking", kind = "RELEASE" => x = "over",
         Sending(k) => x \in {"sending", "half sent"} \/ kind \in Ending
  PROVE  IInv'
<1>1. PICK m : m = <<Msg(k, kind)>>
  OBVIOUS
<1>2. Tells(k, x, m)
  BY <1>1, OneTells
<1>3. m \in Seq(Message) /\ m # <<>> /\ (kind \in Ending => Is(m[1], k, Ending))
  BY <1>1, OneMsg
<1>4. TellsEnd(k, x, m)
  BY <1>3 DEF TellsEnd
<1> QED  BY <1>1, <1>2, <1>3, <1>4, ObexdMoves

LEMMA TwoSent ==
  ASSUME IInv, LibKept, NEW k \in Push, NEW kind \in Kinds \ {"REQUEST"},
         Moves(k, "over", <<Msg(k, kind), Msg(k, "RELEASE")>>), FilesFor(k, "over"),
         Sending(k) => kind \in Ending
  PROVE  IInv'
<1>1. PICK m : m = <<Msg(k, kind), Msg(k, "RELEASE")>>
  OBVIOUS
<1>2. m \in Seq(Message) /\ Tells(k, "over", m) /\ TellsEnd(k, "over", m)
  BY <1>1, TwoMsgs DEF Tells, TellsEnd
<1>3. "over" \in SessionStates \ {"none"}
  BY DEF SessionStates
<1> QED  BY <1>1, <1>2, <1>3, ObexdMoves

\* A step that sends no file and does not start one.
LEMMA FilesAlone ==
  ASSUME IInv, UNCHANGED <<left, cancels>>, NEW k, NEW x,
         x \in {"asking", "sending", "half sent"} => left[k] > 0
  PROVE  FilesFor(k, x)
BY TypedIsTypeOK DEF IInv, Typed, FilesFor

LEMMA ConnectKeeps ==
  ASSUME IInv, LibKept, NEW k \in Push, Connect(k) PROVE IInv'
<1>1. session[k] = "connecting" /\ UNCHANGED <<left, cancels>> /\ ~Sending(k)
  BY DEF Connect, Sending
<1>2. FilesFor(k, "ready") /\ FilesFor(k, "over")
  <2>1. "ready" \notin {"asking", "sending", "half sent"} /\ "over" \notin {"asking", "sending", "half sent"}
    OBVIOUS
  <2> QED  BY <1>1, <2>1, FilesAlone
<1>3. \/ Moves(k, "ready", <<Msg(k, "REPLY_OK")>>)
      \/ Moves(k, "over", <<Msg(k, "REPLY_ERROR")>>)
      \/ Moves(k, "over", <<Msg(k, "REPLY_ERROR"), Msg(k, "RELEASE")>>)
  BY DEF Connect, Send, Moves
<1>4. /\ "REPLY_OK" \in Kinds /\ "REPLY_ERROR" \in Kinds \ {"REQUEST"}
      /\ {"ready", "over"} \subseteq SessionStates \ {"none"}
  BY DEF Kinds, SessionStates
<1> QED  BY <1>1, <1>2, <1>3, <1>4, OneSent, TwoSent

LEMMA AskKeeps ==
  ASSUME IInv, LibKept, NEW k \in Push, Ask(k) PROVE IInv'
<1>1. FilesFor(k, "asking")
  BY FilesAlone DEF Ask
<1>2. Moves(k, "asking", <<Msg(k, "REQUEST")>>) /\ ~Sending(k)
  BY DEF Ask, Moves, Send, Sending
<1>3. "REQUEST" \in Kinds /\ "asking" \in SessionStates \ {"none"}
  BY DEF Kinds, SessionStates
<1> QED  BY <1>1, <1>2, <1>3, OneSent

LEMMA ProgressKeeps ==
  ASSUME IInv, LibKept, NEW k \in Push, Progress(k) PROVE IInv'
<1>1. left[k] > 0
  BY DEF IInv, Bounds, FilesAreLeft, Progress
<1>2. FilesFor(k, "half sent")
  BY <1>1, FilesAlone DEF Progress
<1>3. Moves(k, "half sent", <<Msg(k, "PROGRESS")>>)
  BY DEF Progress, Moves, Send
<1>4. "PROGRESS" \in Kinds /\ "half sent" \in SessionStates \ {"none"}
  BY DEF Kinds, SessionStates
<1> QED  BY <1>2, <1>3, <1>4, OneSent

LEMMA FileEndsKeeps ==
  ASSUME IInv, LibKept, NEW k \in Push, FileEnds(k) PROVE IInv'
<1>1. FilesFor(k, "ready")
  <2>1. /\ left \in [Push -> 0..MaxFiles] /\ cancels \subseteq Push
    BY TypedIsTypeOK DEF IInv, Typed
  <2>2. left[k] > 0
    BY DEF IInv, Bounds, FilesAreLeft, FileEnds, Sending
  <2>3. left[k] - 1 \in 0..MaxFiles
    BY <2>1, <2>2, OpcAssumption
  <2> QED  BY <2>1, <2>3 DEF FileEnds, FilesFor
<1>2. \E kind \in {"COMPLETE", "ERROR"} : Moves(k, "ready", <<Msg(k, kind)>>)
  BY DEF FileEnds, Moves, Send, Sending
<1>3. /\ {"COMPLETE", "ERROR"} \subseteq Kinds /\ {"COMPLETE", "ERROR"} \subseteq Ending
      /\ "ready" \in SessionStates \ {"none"}
  BY DEF Kinds, Ending, SessionStates
<1> QED  BY <1>1, <1>2, <1>3, OneSent

LEMMA LinkBreaksKeeps ==
  ASSUME IInv, LibKept, NEW k \in Push, LinkBreaks(k) PROVE IInv'
<1>1. FilesFor(k, "over")
  <2>1. "over" \notin {"asking", "sending", "half sent"} /\ UNCHANGED <<left, cancels>>
    BY DEF LinkBreaks
  <2> QED  BY <2>1, FilesAlone
<1>2. Moves(k, "over", <<Msg(k, "LINK_LOST"), Msg(k, "RELEASE")>>)
  BY DEF LinkBreaks, Moves, Send, Sending
<1>3. "LINK_LOST" \in Kinds \ {"REQUEST"} /\ "LINK_LOST" \in Ending
  BY DEF Kinds, Ending
<1> QED  BY <1>1, <1>2, <1>3, TwoSent

LEMMA SessionEndsKeeps ==
  ASSUME IInv, LibKept, NEW k \in Push, SessionEnds(k) PROVE IInv'
<1>1. FilesFor(k, "over")
  <2>1. "over" \notin {"asking", "sending", "half sent"} /\ UNCHANGED <<left, cancels>>
    BY DEF SessionEnds
  <2> QED  BY <2>1, FilesAlone
<1>2. Moves(k, "over", <<Msg(k, "RELEASE")>>) /\ ~Sending(k)
  BY DEF SessionEnds, Moves, Send, Sending
<1>3. "RELEASE" \in Kinds /\ "over" \in SessionStates \ {"none"}
  BY DEF Kinds, SessionStates
<1> QED  BY <1>1, <1>2, <1>3, OneSent

LEMMA ObexdKeeps == ASSUME IInv, NEW k \in Push, Obexd(k) PROVE IInv'
<1>1. LibKept
  BY DEF Obexd, LibKept
<1> QED
  BY <1>1, ConnectKeeps, AskKeeps, ProgressKeeps, FileEndsKeeps, LinkBreaksKeeps,
     SessionEndsKeeps DEF Obexd

(***************************************************************************)
(* The dispatched messages keep the invariant.                             *)
(***************************************************************************)

LEMMA Taken ==
  ASSUME IInv, NEW k \in Push, NEW kinds, Received(k, kinds)
  PROVE  /\ Typed /\ inbox \in Seq(Message) /\ inbox # <<>> /\ Head(inbox) \in Message
         /\ inbox' = Tail(inbox) /\ inbox' \in Seq(Message)
         /\ Head(inbox).push = k /\ Head(inbox).kind \in kinds
         /\ UNCHANGED <<client_proxy, g_counter, deinits>>
         /\ Agree(Tail(inbox), session)
BY TypedIsTypeOK, Popped, AgreeTail DEF IInv, Typed, Received, initVars

LEMMA TellTyped ==
  ASSUME NEW name \in Names, NEW result \in Results, NEW k \in 0..MaxPushes,
         Tell(name, result, k)
  PROVE  events' \in Seq(EventSet)
BY EventTyped, EventsTyped DEF Tell

\* A transfer goes on when the message taken is not its end.
LEMMA GoesOnTail ==
  ASSUME IInv, inbox # <<>>, inbox' = Tail(inbox), current_transfer' = current_transfer,
         current_transfer # 0 => ~Is(Head(inbox), current_transfer, Ending),
         session'[current_transfer] = session[current_transfer],
         opc_obex_agent' \in {0, opc_obex_agent}
  PROVE  TransferGoesOn'
<1> SUFFICES ASSUME current_transfer # 0, opc_obex_agent' = current_transfer
             PROVE  Sending(current_transfer)' \/ EndFirst(inbox, current_transfer)'
  BY DEF TransferGoesOn
<1>1. Sending(current_transfer) \/ EndFirst(inbox, current_transfer)
  BY DEF IInv, Transfers, TransferGoesOn
<1>2. CASE Sending(current_transfer)
  BY <1>2 DEF Sending
<1>3. CASE EndFirst(inbox, current_transfer)
  <2>1. inbox \in Seq(Message)
    BY InboxTyped DEF IInv
  <2>2. EndFirst(Tail(inbox), current_transfer)
    BY <1>3, <2>1, EndFirstTail
  <2> QED  BY <2>2
<1> QED  BY <1>1, <1>2, <1>3

LEMMA RepliedKeeps == ASSUME IInv, NEW k \in Push, send_files_cb(k) PROVE IInv'
<1>1. /\ Typed /\ inbox # <<>> /\ inbox' = Tail(inbox) /\ inbox' \in Seq(Message)
      /\ Head(inbox).kind \in {"REPLY_OK", "REPLY_ERROR"}
      /\ UNCHANGED <<client_proxy, g_counter, deinits>>
      /\ Agree(Tail(inbox), session)
  BY Taken DEF send_files_cb
<1>2. /\ call_proxy' = 0 /\ call_pending' = FALSE
      /\ opc_obex_agent' \in {0, opc_obex_agent} /\ address' \in {0, address}
      /\ UNCHANGED <<cancel_idles, current_transfer, cancel_sending_files, started>>
      /\ UNCHANGED <<session, left, cancels>>
  BY DEF send_files_cb, obexdVars
<1>3. 0 \in 0..MaxPushes /\ address \in 0..MaxPushes
  BY <1>1, OpcAssumption DEF Typed
<1>4. events' \in Seq(EventSet)
  BY <1>3, TellTyped DEF send_files_cb, Names, Results
<1>5. TypeOK'
  BY <1>1, <1>2, <1>3, <1>4, TypedIsTypeOK DEF Typed
<1>6. Bounds'
  BY <1>1, <1>2 DEF IInv, Bounds, FutureIsNew, FilesAreLeft, IdlesCount
<1>7. Agree(inbox, session)'
  BY <1>1, <1>2
<1>8. TransferGoesOn'
  <2>1. ~Is(Head(inbox), current_transfer, Ending)
    BY <1>1 DEF Is, Ending
  <2> QED  BY <1>1, <1>2, <2>1, GoesOnTail
<1>9. OneAgent' /\ StartedIsCurrent'
  BY <1>2 DEF IInv, Transfers, OneAgent, StartedIsCurrent
<1> QED  BY <1>5, <1>6, <1>7, <1>8, <1>9 DEF IInv, Transfers

\* An answered Request: obexd goes on, with the file or with the next one.
LEMMA AnswerKeeps ==
  ASSUME IInv, NEW k \in Push, NEW accepted \in BOOLEAN, Answer(k, accepted),
         Received(k, {"REQUEST"})
  PROVE  /\ session' \in [Push -> SessionStates] /\ left' \in [Push -> 0..MaxFiles]
         /\ cancels' \subseteq Push
         /\ Agree(inbox, session)' /\ FutureIsNew' /\ FilesAreLeft'
         /\ \A i \in Push \ {k} : session'[i] = session[i]
         /\ session'[k] = IF accepted THEN "sending" ELSE "ready"
         /\ session[k] = "asking"
<1>1. /\ Typed /\ inbox \in Seq(Message) /\ inbox # <<>> /\ inbox' = Tail(inbox)
      /\ Is(Head(inbox), k, Asked) /\ UNCHANGED g_counter
  BY Taken DEF Is, Asked
<1>2. Waits(inbox, k, Asked)
  BY <1>1, Popped DEF Waits
<1>3. session[k] = "asking" /\ left[k] > 0
  BY <1>2 DEF IInv, Agree, Bounds, FilesAreLeft
<1>4. /\ session' \in [Push -> SessionStates]
      /\ \A i \in Push \ {k} : session'[i] = session[i]
      /\ session'[k] = IF accepted THEN "sending" ELSE "ready"
  BY <1>1 DEF Answer, Typed, SessionStates
<1>5. /\ left' \in [Push -> 0..MaxFiles] /\ \A i \in Push \ {k} : left'[i] = left[i]
      /\ accepted => left'[k] > 0
  <2>1. left \in [Push -> 0..MaxFiles] /\ left[k] - 1 \in 0..MaxFiles
    BY <1>1, <1>3, OpcAssumption DEF Typed
  <2> QED  BY <1>3, <2>1 DEF Answer
<1>6. cancels' \subseteq Push
  BY <1>1 DEF Answer, Typed
<1>7. Agree(inbox, session)'
  <2>1. Agree(Tail(inbox), session')
    BY <1>1, <1>4, AgreeAnswered DEF IInv
  <2> QED  BY <1>1, <2>1
<1>8. FutureIsNew'
  BY <1>1, <1>3, <1>4 DEF IInv, Bounds, FutureIsNew
<1>9. FilesAreLeft'
  BY <1>4, <1>5 DEF IInv, Bounds, FilesAreLeft
<1> QED  BY <1>3, <1>4, <1>5, <1>6, <1>7, <1>8, <1>9

LEMMA DropKeeps == ASSUME IInv, NEW k \in Push, drop(k) PROVE IInv'
<1>1. /\ events' = <<>>
      /\ UNCHANGED <<opc_obex_agent, call_proxy, call_pending, cancel_idles, current_transfer,
                     cancel_sending_files, address, started>>
  BY DEF drop, callVars
<1>2. PICK kinds : Received(k, kinds)
  BY DEF drop, Ignored
<1>3. /\ Typed /\ inbox \in Seq(Message) /\ inbox # <<>> /\ inbox' = Tail(inbox)
      /\ inbox' \in Seq(Message) /\ Head(inbox) \in Message
      /\ Head(inbox).push = k /\ UNCHANGED <<client_proxy, g_counter, deinits>>
      /\ Agree(Tail(inbox), session)
  BY <1>2, Taken
<1>4. current_transfer # 0 /\ opc_obex_agent # 0 => opc_obex_agent = current_transfer
  BY DEF IInv, Transfers, OneAgent
<1>5. OneAgent' /\ StartedIsCurrent' /\ IdlesCount'
  BY <1>1, <1>3 DEF IInv, Transfers, OneAgent, StartedIsCurrent, Bounds, IdlesCount
<1>6. CASE UNCHANGED obexdVars /\ (Head(inbox).kind \in {"REPLY_OK", "REPLY_ERROR"}
                                   \/ opc_obex_agent # k)
  <2>1. UNCHANGED <<session, left, cancels>>
    BY <1>6 DEF obexdVars
  <2>2. TypeOK'
    BY <1>1, <1>3, <2>1, TypedIsTypeOK, EventsTyped DEF Typed
  <2>3. FutureIsNew' /\ FilesAreLeft'
    BY <1>3, <2>1 DEF IInv, Bounds, FutureIsNew, FilesAreLeft
  <2>4. Agree(inbox, session)'
    BY <1>3, <2>1
  <2>5. TransferGoesOn'
    <3>1. CASE opc_obex_agent = current_transfer
      <4>1. ~Is(Head(inbox), current_transfer, Ending)
        BY <1>3, <1>6, <3>1 DEF Is, Ending
      <4> QED  BY <1>1, <1>3, <2>1, <4>1, GoesOnTail
    <3>2. CASE opc_obex_agent # current_transfer
      BY <1>1, <3>2 DEF TransferGoesOn
    <3> QED  BY <3>1, <3>2
  <2> QED  BY <1>5, <2>2, <2>3, <2>4, <2>5 DEF IInv, Bounds, Transfers
<1>7. CASE Received(k, {"REQUEST"}) /\ opc_obex_agent # k /\ Answer(k, FALSE)
  <2>1. /\ session' \in [Push -> SessionStates] /\ left' \in [Push -> 0..MaxFiles]
        /\ cancels' \subseteq Push
        /\ Agree(inbox, session)' /\ FutureIsNew' /\ FilesAreLeft'
        /\ \A i \in Push \ {k} : session'[i] = session[i]
    BY <1>7, AnswerKeeps
  <2>2. TypeOK'
    BY <1>1, <1>3, <2>1, TypedIsTypeOK, EventsTyped DEF Typed
  <2>3. TransferGoesOn'
    <3>1. CASE opc_obex_agent = current_transfer /\ current_transfer # 0
      <4>1. ~Is(Head(inbox), current_transfer, Ending)
        BY <1>3, <1>7, <3>1 DEF Is
      <4>2. session'[current_transfer] = session[current_transfer]
        BY <1>3, <1>7, <2>1, <3>1, OpcAssumption DEF Typed, Push
      <4> QED  BY <1>1, <1>3, <4>1, <4>2, GoesOnTail
    <3>2. CASE opc_obex_agent # current_transfer \/ current_transfer = 0
      BY <1>1, <3>2 DEF TransferGoesOn
    <3> QED  BY <3>1, <3>2
  <2> QED  BY <1>5, <2>1, <2>2, <2>3 DEF IInv, Bounds, Transfers
<1> QED
  <2>1. ASSUME NEW kinds2, Received(k, kinds2) PROVE Head(inbox).kind \in kinds2
    BY <2>1, Taken
  <2> QED  BY <1>6, <1>7, <2>1 DEF drop, Ignored

\* The transfer the Request starts is the only one, and obexd sends it.
LEMMA RequestKeeps == ASSUME IInv, NEW k \in Push, request_callback(k) PROVE IInv'
<1>1. /\ Received(k, {"REQUEST"}) /\ opc_obex_agent = k /\ UNCHANGED cancel_sending_files
      /\ UNCHANGED <<call_proxy, call_pending, cancel_idles>> /\ current_transfer' = k
  BY DEF request_callback, AgentCall, callVars
<1>2. /\ Typed /\ inbox \in Seq(Message) /\ inbox # <<>> /\ inbox' = Tail(inbox)
      /\ inbox' \in Seq(Message) /\ UNCHANGED <<client_proxy, g_counter, deinits>>
  BY <1>1, Taken
<1>3. k \in 0..MaxPushes /\ 0 \in 0..MaxPushes /\ k # 0 /\ address \in 0..MaxPushes
  BY <1>2, OpcAssumption DEF Push, Typed
<1>4. PICK accepted \in BOOLEAN :
        /\ Answer(k, accepted)
        /\ \/ /\ accepted /\ started' \in BOOLEAN /\ UNCHANGED <<opc_obex_agent, address>>
              /\ events' = <<>> \/ Tell("TRANSFER_STARTED", "NONE", 0)
           \/ /\ ~accepted /\ opc_obex_agent' = 0 /\ address' = 0 /\ UNCHANGED started
              /\ Tell("DISCONNECTED", "CANCEL_BY_USER", address)
  BY <1>2 DEF request_callback, Typed
<1>5. /\ session' \in [Push -> SessionStates] /\ left' \in [Push -> 0..MaxFiles]
      /\ cancels' \subseteq Push
      /\ Agree(inbox, session)' /\ FutureIsNew' /\ FilesAreLeft'
      /\ session'[k] = IF accepted THEN "sending" ELSE "ready"
  BY <1>1, <1>4, AnswerKeeps
<1>6. events' \in Seq(EventSet)
  <2>1. CASE events' = <<>>
    BY <2>1
  <2>2. CASE events' # <<>>
    BY <1>3, <1>4, <2>2, TellTyped DEF Names, Results
  <2> QED  BY <2>1, <2>2
<1>7. TypeOK'
  BY <1>1, <1>2, <1>3, <1>4, <1>5, <1>6, TypedIsTypeOK DEF Typed
<1>8. IdlesCount'
  BY <1>1, <1>2 DEF IInv, Bounds, IdlesCount
<1>9. Transfers'
  <2>1. opc_obex_agent' \in {0, k} /\ current_transfer' # 0
    BY <1>1, <1>3, <1>4
  <2>2. opc_obex_agent' = k => session'[k] = "sending"
    BY <1>3, <1>4, <1>5
  <2> QED
    BY <1>1, <2>1, <2>2 DEF Transfers, OneAgent, StartedIsCurrent, TransferGoesOn, Sending
<1> QED  BY <1>5, <1>7, <1>8, <1>9 DEF IInv, Bounds

\* What the agent's other calls share: obexd is not told anything.
AgentTakes(k, kinds) == AgentCall(k, kinds) /\ UNCHANGED obexdVars

LEMMA AgentTakesKeeps ==
  ASSUME IInv, NEW k \in Push, NEW kinds, AgentTakes(k, kinds),
         events' \in Seq(EventSet),
         opc_obex_agent' \in {0, opc_obex_agent}, address' \in {0, address},
         cancel_sending_files' \in BOOLEAN, started' \in BOOLEAN, Transfers',
         current_transfer' \in {0, current_transfer}
  PROVE  IInv'
<1>1. Received(k, kinds) /\ UNCHANGED <<call_proxy, call_pending, cancel_idles>>
      /\ UNCHANGED <<session, left, cancels>>
  BY DEF AgentTakes, AgentCall, callVars, obexdVars
<1>2. /\ Typed /\ inbox' = Tail(inbox) /\ inbox' \in Seq(Message)
      /\ UNCHANGED <<client_proxy, g_counter, deinits>> /\ Agree(Tail(inbox), session)
  BY <1>1, Taken
<1>3. 0 \in 0..MaxPushes
  BY OpcAssumption
<1>4. TypeOK'
  BY <1>1, <1>2, <1>3, TypedIsTypeOK DEF Typed
<1>5. Bounds'
  BY <1>1, <1>2 DEF IInv, Bounds, FutureIsNew, FilesAreLeft, IdlesCount
<1>6. Agree(inbox, session)'
  BY <1>1, <1>2
<1> QED  BY <1>4, <1>5, <1>6 DEF IInv

LEMMA NoTransferLeft ==
  current_transfer' = 0 /\ ~started' => Transfers'
BY DEF Transfers, TransferGoesOn, OneAgent, StartedIsCurrent

LEMMA ProgressCallbackKeeps == ASSUME IInv, NEW k \in Push, progress_callback(k) PROVE IInv'
<1>1. AgentTakes(k, {"PROGRESS"}) /\ Tell("TRANSFER_PROGRESS", "NONE", 0)
      /\ UNCHANGED <<opc_obex_agent, current_transfer, cancel_sending_files, address, started>>
      /\ UNCHANGED session
  BY DEF progress_callback, AgentTakes, obexdVars
<1>2. Typed /\ inbox # <<>> /\ inbox' = Tail(inbox) /\ Head(inbox).kind = "PROGRESS"
  BY <1>1, Taken DEF AgentTakes, AgentCall
<1>3. ~Is(Head(inbox), current_transfer, Ending)
  BY <1>2 DEF Is, Ending
<1>4. TransferGoesOn'
  BY <1>1, <1>2, <1>3, GoesOnTail
<1>5. Transfers'
  BY <1>1, <1>4 DEF IInv, Transfers, OneAgent, StartedIsCurrent
<1>6. events' \in Seq(EventSet)
  BY <1>1, TellTyped, OpcAssumption DEF Names, Results
<1> QED  BY <1>1, <1>2, <1>5, <1>6, AgentTakesKeeps DEF Typed

LEMMA CompleteCallbackKeeps == ASSUME IInv, NEW k \in Push, complete_callback(k) PROVE IInv'
<1>1. AgentTakes(k, {"COMPLETE"}) /\ Tell("TRANSFER_COMPLETE", "NONE", 0)
      /\ current_transfer' = 0 /\ started' = FALSE
      /\ UNCHANGED <<opc_obex_agent, cancel_sending_files, address>>
  BY DEF complete_callback, AgentTakes
<1>2. Typed
  BY TypedIsTypeOK DEF IInv
<1>3. events' \in Seq(EventSet)
  BY <1>1, TellTyped, OpcAssumption DEF Names, Results
<1> QED  BY <1>1, <1>2, <1>3, NoTransferLeft, AgentTakesKeeps DEF Typed

LEMMA ErrorCallbackKeeps == ASSUME IInv, NEW k \in Push, error_callback(k) PROVE IInv'
<1>1. /\ AgentTakes(k, {"ERROR", "LINK_LOST"}) /\ current_transfer' = 0 /\ started' = FALSE
      /\ opc_obex_agent' \in {0, opc_obex_agent} /\ address' \in {0, address}
  BY DEF error_callback, AgentTakes
<1>2. Typed
  BY TypedIsTypeOK DEF IInv
<1>3. cancel_sending_files' \in BOOLEAN
  BY <1>2 DEF error_callback, Typed
<1>4. PICK result \in Results :
        \/ events' = <<Event("TRANSFER_COMPLETE", result, 0), Event("DISCONNECTED", result, address)>>
        \/ Tell("TRANSFER_COMPLETE", result, 0)
  <2>1. PICK result : /\ result \in {"CANCEL_BY_USER", "NOT_CONNECTED", "INTERNAL"}
                      /\ \/ events' = <<Event("TRANSFER_COMPLETE", result, 0),
                                        Event("DISCONNECTED", result, address)>>
                         \/ Tell("TRANSFER_COMPLETE", result, 0)
    BY DEF error_callback
  <2> QED  BY <2>1 DEF Results
<1>5. 0 \in 0..MaxPushes /\ address \in 0..MaxPushes
  BY <1>2, OpcAssumption DEF Typed
<1>6. events' \in Seq(EventSet)
  <2>1. "TRANSFER_COMPLETE" \in Names /\ "DISCONNECTED" \in Names
    BY DEF Names
  <2>2. Event("TRANSFER_COMPLETE", result, 0) \in EventSet /\ Event("DISCONNECTED", result, address) \in EventSet
    BY <1>5, <2>1, EventTyped
  <2> QED  BY <1>4, <2>2, EventsTyped DEF Tell
<1> QED  BY <1>1, <1>3, <1>6, NoTransferLeft, AgentTakesKeeps

\* A Release finds no transfer, so none is left without its end.
LEMMA ReleaseCallbackKeeps == ASSUME IInv, NEW k \in Push, release_callback(k) PROVE IInv'
<1>1. /\ AgentTakes(k, {"RELEASE"}) /\ Tell("DISCONNECTED", "NONE", address)
      /\ current_transfer' = 0 /\ opc_obex_agent' = 0 /\ address' = 0 /\ opc_obex_agent = k
      /\ UNCHANGED <<cancel_sending_files, started>>
  BY DEF release_callback, AgentTakes, AgentCall
<1>2. Typed /\ inbox # <<>> /\ Head(inbox).push = k /\ Head(inbox).kind = "RELEASE"
  BY <1>1, Taken DEF AgentTakes, AgentCall
<1>3. current_transfer = 0
  BY <1>1, <1>2, NextFindsNone DEF Next_of_end
<1>4. ~started'
  BY <1>1, <1>3 DEF IInv, Transfers, StartedIsCurrent
<1>5. address \in 0..MaxPushes
  BY <1>2 DEF Typed
<1>6. events' \in Seq(EventSet)
  BY <1>1, <1>5, TellTyped DEF Names, Results
<1> QED  BY <1>1, <1>2, <1>4, <1>6, NoTransferLeft, AgentTakesKeeps DEF Typed

LEMMA NextInv == IInv /\ [Next]_vars => IInv'
<1> SUFFICES ASSUME IInv, [Next]_vars PROVE IInv'
  OBVIOUS
<1>1. CASE bluetooth_opc_init \/ bluetooth_opc_deinit
  BY <1>1, InitKeeps, DeinitKeeps
<1>2. CASE \E files \in 1..MaxFiles : bluetooth_opc_push_files(files)
  BY <1>2, PushKeeps
<1>3. CASE bluetooth_opc_cancel_push \/ cancel_connect_cb
  BY <1>3, CancelKeeps, CancelConnectKeeps
<1>4. CASE \E k \in Push : Dispatch(k)
  BY <1>4, RepliedKeeps, DropKeeps, RequestKeeps, ProgressCallbackKeeps,
     CompleteCallbackKeeps, ErrorCallbackKeeps, ReleaseCallbackKeeps DEF Dispatch
<1>5. CASE \E k \in Push : Obexd(k)
  BY <1>5, ObexdKeeps
<1>6. CASE UNCHANGED vars
  <2>1. /\ UNCHANGED <<client_proxy, g_counter, deinits, opc_obex_agent, call_proxy, call_pending>>
        /\ UNCHANGED <<cancel_idles, current_transfer, cancel_sending_files, address, started>>
        /\ UNCHANGED <<events, session, left, cancels, inbox>>
    BY <1>6 DEF vars, initVars, callVars, obexdVars
  <2>2. TypeOK'
    BY <2>1, TypedIsTypeOK DEF IInv, Typed
  <2>3. Bounds' /\ Transfers'
    BY <2>1 DEF IInv, Bounds, FutureIsNew, FilesAreLeft, IdlesCount, Transfers,
       TransferGoesOn, OneAgent, StartedIsCurrent, Sending
  <2>4. Agree(inbox, session)'
    BY <2>1 DEF IInv
  <2> QED  BY <2>2, <2>3, <2>4 DEF IInv
<1> QED  BY <1>1, <1>2, <1>3, <1>4, <1>5, <1>6 DEF Next

\* A start or the end of the push is told when no started transfer waits for its end.
LEMMA EndsAreTold ==
  ASSUME IInv, [Next]_vars
  PROVE  [/\ Told("TRANSFER_STARTED")' \/ Told("DISCONNECTED")'
          /\ ~Told("TRANSFER_COMPLETE")'
          => ~started]_vars
<1> SUFFICES ASSUME ~UNCHANGED vars, started, ~Told("TRANSFER_COMPLETE")',
                    Told("TRANSFER_STARTED")' \/ Told("DISCONNECTED")'
             PROVE  FALSE
  OBVIOUS
<1>1. Next /\ current_transfer # 0
  BY DEF IInv, Transfers, StartedIsCurrent
<1>2. ASSUME NEW name, NEW result, NEW k, Tell(name, result, k)
      PROVE  name \in {"TRANSFER_STARTED", "DISCONNECTED"}
  <2>1. DOMAIN events' = {1} /\ events'[1].name = name
    BY <1>2 DEF Tell, Event
  <2> QED  BY <2>1 DEF Told
<1>3. events' # <<>>
  BY DEF Told
<1>4. ~(bluetooth_opc_init \/ bluetooth_opc_deinit \/ \E files \in 1..MaxFiles : bluetooth_opc_push_files(files))
  BY <1>3 DEF bluetooth_opc_init, bluetooth_opc_deinit, bluetooth_opc_push_files
<1>5. ~(bluetooth_opc_cancel_push \/ cancel_connect_cb)
  <2>1. bluetooth_opc_cancel_push => Tell("CANCEL_CALL", "NONE", 0)
    BY DEF bluetooth_opc_cancel_push
  <2>2. cancel_connect_cb => Tell("CONNECTED", "CANCEL_BY_USER", address)
    BY DEF cancel_connect_cb
  <2> QED  BY <1>2, <2>1, <2>2
<1>6. ASSUME NEW k \in Push, Obexd(k) \/ Dispatch(k) PROVE FALSE
  <2>1. ~Obexd(k) /\ ~drop(k)
    BY <1>3 DEF Obexd, drop
  <2>2. ~send_files_cb(k) /\ ~progress_callback(k) /\ ~complete_callback(k)
    <3>1. send_files_cb(k) => \E result : Tell("CONNECTED", result, address)
      BY DEF send_files_cb
    <3>2. progress_callback(k) => Tell("TRANSFER_PROGRESS", "NONE", 0)
      BY DEF progress_callback
    <3>3. complete_callback(k) => Tell("TRANSFER_COMPLETE", "NONE", 0)
      BY DEF complete_callback
    <3>4. ~\E result : Tell("TRANSFER_COMPLETE", result, 0)
      <4> SUFFICES ASSUME NEW result, Tell("TRANSFER_COMPLETE", result, 0) PROVE FALSE
        OBVIOUS
      <4> QED  BY <1>2
    <3> QED  BY <1>2, <3>1, <3>2, <3>3, <3>4
  <2>3. ~error_callback(k)
    <3> SUFFICES ASSUME error_callback(k) PROVE FALSE
      OBVIOUS
    <3>1. PICK result : \/ events' = <<Event("TRANSFER_COMPLETE", result, 0), Event("DISCONNECTED", result, address)>>
                        \/ Tell("TRANSFER_COMPLETE", result, 0)
      BY DEF error_callback
    <3>2. 1 \in DOMAIN events' /\ events'[1].name = "TRANSFER_COMPLETE"
      BY <1>2, <3>1 DEF Event
    <3> QED  BY <3>2 DEF Told
  <2>4. ~request_callback(k) /\ ~release_callback(k)
    <3> SUFFICES ASSUME request_callback(k) \/ release_callback(k) PROVE FALSE
      OBVIOUS
    <3>1. \E kinds : AgentCall(k, kinds) /\ kinds \subseteq Next_of_end
      BY DEF request_callback, release_callback, Next_of_end
    <3>2. /\ inbox # <<>> /\ Head(inbox).push = opc_obex_agent
          /\ Head(inbox).kind \in Next_of_end
      BY <3>1, Taken DEF AgentCall
    <3> QED  BY <1>1, <3>2, NextFindsNone
  <2> QED  BY <1>6, <2>1, <2>2, <2>3, <2>4 DEF Dispatch
<1> QED  BY <1>1, <1>4, <1>5, <1>6 DEF Next

(***************************************************************************)
(* The theorems.                                                           *)
(***************************************************************************)

LEMMA Invariant == Spec => []IInv
<1> QED  BY InitInv, NextInv, PTL DEF Spec

\* The variables keep their types: no more idle callbacks than pushes, and obexd
\* never asks about a file it has not got.
THEOREM TypeCorrect == Spec => []TypeOK
<1>1. IInv => TypeOK
  BY DEF IInv
<1> QED  BY <1>1, Invariant, PTL

\* The assertion current_transfer == NULL of the request callback never fails.
THEOREM AssertionNeverFails == Spec => []RequestFindsNoTransfer
<1> QED  BY AssertionHolds, Invariant, PTL

\* Every transfer the application is told of is told to be complete, in time.
THEOREM TransfersAlwaysEnd == Spec => TransfersEnd
<1>1. IInv /\ [Next]_vars
      => [/\ Told("TRANSFER_STARTED")' \/ Told("DISCONNECTED")'
          /\ ~Told("TRANSFER_COMPLETE")'
          => ~started]_vars
  BY EndsAreTold
<1> QED  BY <1>1, Invariant, PTL DEF Spec, TransfersEnd

(***************************************************************************)
(* RFCOMM.                                                                 *)
(***************************************************************************)

LEMMA MinIsMember == ASSUME NEW S \in SUBSET Nat, S # {} PROVE Server!Min(S) \in S
BY LeastThereIs DEF Server!Min

LEMMA MinIsLeast ==
  ASSUME NEW S \in SUBSET Nat, S # {}
  PROVE  Client!Min(S) \in S /\ \A n \in S : Client!Min(S) =< n
BY LeastThereIs DEF Client!Min

LEMMA FirstIsMember ==
  ASSUME Server!RfcommServerAssumption, NEW S \in SUBSET Server!Slot
  PROVE  Server!First(S) \in S \/ (S = {} /\ Server!First(S) = 0)
<1>1. MaxConn \in Nat
  BY DEF Server!RfcommServerAssumption
<1>2. S \in SUBSET Nat
  BY <1>1 DEF Server!Slot
<1> QED  BY <1>2, MinIsMember DEF Server!First

LEMMA NextFdIsFree == Server!FdsLeft => Server!NextFd \in Server!Fd \ server_open
<1>1. Server!Fd \ server_open \in SUBSET Nat
  BY DEF Server!Fd
<1> QED  BY <1>1, MinIsMember DEF Server!FdsLeft, Server!NextFd

(***************************************************************************)
(* The invariant.                                                          *)
(***************************************************************************)

SlotRecord ==
  [used : BOOLEAN, server_sock_fd : Server!Fd \cup {0, -1}, is_listen : BOOLEAN,
   uds_name : Server!Name \cup {Server!NoName}, client_sock_fd : Server!Fd \cup {0, -1},
   client_watch : Server!Fd \cup {0}]

ServerTyped ==
  /\ Server!RfcommServerAssumption
  /\ rfcomm_server \in [Server!Slot -> SlotRecord]
  /\ watches \subseteq Server!Fd \X Server!Slot /\ sockets \subseteq Server!Fd \X Server!Slot
  /\ server_watches \subseteq Server!Fd /\ server_open \subseteq Server!Fd /\ told \subseteq Server!Fd
  /\ proxies \subseteq Server!Name

\* A server socket and the slot that holds it belong together.
SocketHasSlot ==
  /\ \A x \in sockets : x[1] \in server_open /\ rfcomm_server[x[2]].server_sock_fd = x[1]
  /\ \A x, y \in sockets : x[1] = y[1] => x = y
  /\ \A i \in Server!Slot : rfcomm_server[i].server_sock_fd \in Server!Fd
       => <<rfcomm_server[i].server_sock_fd, i>> \in sockets /\ rfcomm_server[i].used

\* A listening socket is one of a slot that listens.
ListenerHasSlot ==
  /\ \A fd \in server_watches : \E x \in sockets : x[1] = fd
  /\ \A x \in sockets : x[1] \in server_watches => rfcomm_server[x[2]].is_listen

\* A client's descriptor is open, has one watch, and is no server socket.
ClientHasWatch ==
  /\ \A w \in watches : w[1] \in server_open /\ \A x \in sockets : x[1] # w[1]
  /\ \A v, w \in watches : v[1] = w[1] => v = w
  /\ \A i \in Server!Slot : rfcomm_server[i].client_sock_fd \in Server!Fd
       => /\ rfcomm_server[i].client_watch = rfcomm_server[i].client_sock_fd
          /\ <<rfcomm_server[i].client_sock_fd, i>> \in watches

ServerSound == SocketHasSlot /\ ListenerHasSlot /\ ClientHasWatch
ServerInv == ServerTyped /\ (~stale => ServerSound)

LEMMA ServerInitInv == Server!RfcommServerAssumption /\ Server!Init => ServerInv
<1> SUFFICES ASSUME Server!RfcommServerAssumption, Server!Init PROVE ServerInv
  OBVIOUS
<1>1. Server!FreeSlot \in SlotRecord
  BY DEF Server!FreeSlot, SlotRecord
<1>2. \A i \in Server!Slot : rfcomm_server[i] = Server!FreeSlot /\ 0 \notin Server!Fd
  BY DEF Server!Init, Server!Fd
<1> QED
  BY <1>1, <1>2 DEF Server!Init, ServerInv, ServerTyped, ServerSound, SocketHasSlot,
     ListenerHasSlot,
     ClientHasWatch, Server!FreeSlot

\* The slot of a server socket is found by its descriptor.
LEMMA Found ==
  ASSUME ServerTyped, SocketHasSlot, NEW x \in sockets
  PROVE  Server!index_from_socket(x[1]) = x[2]
<1> DEFINE S == {i \in Server!Slot : rfcomm_server[i].server_sock_fd = x[1]}
<1>1. x[1] \in Server!Fd /\ x[2] \in Server!Slot /\ x = <<x[1], x[2]>>
  BY DEF ServerTyped
<1>2. S = {x[2]}
  BY <1>1 DEF SocketHasSlot
<1>3. Server!First(S) \in S
  BY <1>2, FirstIsMember DEF ServerTyped
<1> QED  BY <1>2, <1>3 DEF Server!index_from_socket

LEMMA IndexInSlot ==
  ASSUME Server!RfcommServerAssumption, NEW fd, Server!index_from_socket(fd) # 0
  PROVE  /\ Server!index_from_socket(fd) \in Server!Slot
         /\ rfcomm_server[Server!index_from_socket(fd)].server_sock_fd = fd
BY FirstIsMember DEF Server!index_from_socket

LEMMA ClientIndexInSlot ==
  ASSUME Server!RfcommServerAssumption, NEW fd, Server!index_from_client_socket(fd) # 0
  PROVE  /\ Server!index_from_client_socket(fd) \in Server!Slot
         /\ rfcomm_server[Server!index_from_client_socket(fd)].client_sock_fd = fd
BY FirstIsMember DEF Server!index_from_client_socket

\* What the invariant is about.
serverOwn == <<rfcomm_server, watches, sockets, server_watches, server_open, told, stale>>

LEMMA ServerAlone == ASSUME ServerInv, UNCHANGED serverOwn,
   proxies' \subseteq Server!Name PROVE ServerInv'
BY DEF ServerInv, serverOwn, ServerTyped, ServerSound, SocketHasSlot, ListenerHasSlot,
   ClientHasWatch

(***************************************************************************)
(* Creating and listening.                                                 *)
(***************************************************************************)

LEMMA FreeIndexIsFree ==
  ASSUME ServerTyped, Server!CanCreate
  PROVE  /\ Server!free_index \in Server!Slot /\ ~rfcomm_server[Server!free_index].used
         /\ Server!NewName \in Server!Name
BY FirstIsMember DEF Server!CanCreate, Server!free_index, ServerTyped

LEMMA CreateKeeps == ASSUME ServerInv, Server!bluetooth_rfcomm_create_socket PROVE ServerInv'
<1> DEFINE i == Server!free_index
           fd == Server!NextFd
<1>1. i \in Server!Slot /\ ~rfcomm_server[i].used /\ Server!NewName \in Server!Name
  BY FreeIndexIsFree DEF ServerInv, Server!bluetooth_rfcomm_create_socket
<1>2. fd \in Server!Fd \ server_open
  BY NextFdIsFree DEF Server!bluetooth_rfcomm_create_socket
<1>0. rfcomm_server' = [rfcomm_server EXCEPT
           ![i].used = TRUE, ![i].uds_name = Server!NewName, ![i].server_sock_fd = fd]
  BY DEF Server!bluetooth_rfcomm_create_socket
<1>3. /\ proxies' = proxies \cup {Server!NewName}
      /\ UNCHANGED <<watches, server_watches, told>>
      /\ \/ stale' = TRUE /\ UNCHANGED <<server_open, sockets>>
         \/ /\ server_open' = server_open \cup {fd} /\ sockets' = sockets \cup {<<fd, i>>}
            /\ UNCHANGED stale
  BY DEF Server!bluetooth_rfcomm_create_socket
<1> HIDE DEF i, fd
<1>4. ServerTyped'
  <2>1. rfcomm_server' \in [Server!Slot -> SlotRecord]
    <3>1. [rfcomm_server[i] EXCEPT !.used = TRUE, !.uds_name = Server!NewName, !.server_sock_fd = fd]
            \in SlotRecord
      BY <1>1, <1>2 DEF ServerInv, ServerTyped, SlotRecord
    <3>2. rfcomm_server' = [rfcomm_server EXCEPT ![i] =
            [rfcomm_server[i] EXCEPT !.used = TRUE, !.uds_name = Server!NewName, !.server_sock_fd = fd]]
      BY <1>1, <1>0 DEF ServerInv, ServerTyped
    <3> QED  BY <3>1, <3>2 DEF ServerInv, ServerTyped
  <2>2. server_open' \subseteq Server!Fd /\ sockets' \subseteq Server!Fd \X Server!Slot
    BY <1>1, <1>2, <1>3 DEF ServerInv, ServerTyped
  <2> QED  BY <1>1, <1>3, <2>1, <2>2 DEF ServerInv, ServerTyped
<1>5. ASSUME ~stale' PROVE ServerSound'
  <2>1. server_open' = server_open \cup {fd} /\ sockets' = sockets \cup {<<fd, i>>} /\ ServerSound /\ ServerTyped
    BY <1>3, <1>5 DEF ServerInv
  <2>2. \A x \in sockets : x[2] # i /\ x[1] # fd /\ x \in Server!Fd \X Server!Slot
    BY <1>1, <1>2, <2>1 DEF ServerSound, SocketHasSlot, ServerTyped
  <2>3. /\ rfcomm_server'[i].server_sock_fd = fd /\ rfcomm_server'[i].used
        /\ rfcomm_server'[i].client_sock_fd = rfcomm_server[i].client_sock_fd
        /\ rfcomm_server'[i].client_watch = rfcomm_server[i].client_watch
        /\ \A j \in Server!Slot : j # i => rfcomm_server'[j] = rfcomm_server[j]
    BY <1>1, <1>0, <2>1 DEF ServerTyped, SlotRecord
  <2>4. SocketHasSlot'
    BY <1>1, <1>2, <2>1, <2>2, <2>3 DEF ServerSound, SocketHasSlot
  <2>5. ListenerHasSlot'
    <3>1. fd \notin server_watches
      BY <1>2, <2>1, <2>2 DEF ServerSound, ListenerHasSlot
    <3>2. \A x \in sockets' : x = <<fd,
       i>> \/ (x \in sockets /\ rfcomm_server'[x[2]] = rfcomm_server[x[2]])
      <4>1. ASSUME NEW x \in sockets PROVE rfcomm_server'[x[2]] = rfcomm_server[x[2]]
        BY <2>2, <2>3
      <4> QED  BY <2>1, <4>1
    <3>3. \A f \in server_watches : \E x \in sockets' : x[1] = f
      BY <2>1 DEF ServerSound, ListenerHasSlot
    <3> QED  BY <1>3, <2>1, <3>1, <3>2, <3>3 DEF ServerSound, ListenerHasSlot
  <2>6. ClientHasWatch'
    <3>1. \A w \in watches : w[1] \in server_open /\ w[1] # fd
      BY <1>2, <2>1 DEF ServerSound, ClientHasWatch
    <3>2. \A j \in Server!Slot :
            /\ rfcomm_server'[j].client_sock_fd = rfcomm_server[j].client_sock_fd
            /\ rfcomm_server'[j].client_watch = rfcomm_server[j].client_watch
      BY <2>3
    <3> QED  BY <1>3, <2>1, <3>1, <3>2 DEF ServerSound, ClientHasWatch
  <2> QED  BY <2>4, <2>5, <2>6 DEF ServerSound
<1> QED  BY <1>4, <1>5 DEF ServerInv

\* A refused server takes a slot that no socket leads to.
LEMMA EnableFailsKeeps == ASSUME ServerInv, Server!EnableFails PROVE ServerInv'
<1> DEFINE i == Server!free_index
<1>1. i \in Server!Slot /\ ~rfcomm_server[i].used /\ Server!NewName \in Server!Name
  BY FreeIndexIsFree DEF ServerInv, Server!EnableFails
<1>0. rfcomm_server' = [rfcomm_server EXCEPT ![i].used = TRUE, ![i].uds_name = Server!NewName]
  BY DEF Server!EnableFails
<1>2. /\ proxies' = proxies \cup {Server!NewName}
      /\ UNCHANGED <<watches, server_watches, server_open, sockets, told, stale>>
  BY DEF Server!EnableFails
<1> HIDE DEF i
<1>3. ServerTyped'
  <2>1. rfcomm_server \in [Server!Slot -> SlotRecord]
    BY DEF ServerInv, ServerTyped
  <2>2. rfcomm_server' \in [Server!Slot -> SlotRecord]
    <3>1. [rfcomm_server[i] EXCEPT !.used = TRUE, !.uds_name = Server!NewName] \in SlotRecord
      BY <1>1, <2>1 DEF SlotRecord
    <3>2. rfcomm_server' = [rfcomm_server EXCEPT ![i] = [rfcomm_server[i] EXCEPT !.used = TRUE, !.uds_name = Server!NewName]]
      BY <1>0, <2>1
    <3> QED  BY <1>1, <2>1, <3>1, <3>2
  <2> QED  BY <1>1, <1>2, <2>2 DEF ServerInv, ServerTyped
<1>4. \A j \in Server!Slot :
        /\ rfcomm_server[j].used => rfcomm_server'[j].used
        /\ rfcomm_server'[j].server_sock_fd = rfcomm_server[j].server_sock_fd
        /\ rfcomm_server'[j].is_listen = rfcomm_server[j].is_listen
        /\ rfcomm_server'[j].client_sock_fd = rfcomm_server[j].client_sock_fd
        /\ rfcomm_server'[j].client_watch = rfcomm_server[j].client_watch
  BY <1>1, <1>0 DEF ServerInv, ServerTyped, SlotRecord
<1>5. \A x \in sockets : x[2] \in Server!Slot
  BY DEF ServerInv, ServerTyped
<1>6. ASSUME ~stale' PROVE ServerSound'
  <2>1. ServerSound
    BY <1>2, <1>6 DEF ServerInv
  <2>2. SocketHasSlot'
    BY <1>2, <1>4, <1>5, <2>1 DEF ServerSound, SocketHasSlot
  <2>3. ListenerHasSlot'
    BY <1>2, <1>4, <1>5, <2>1 DEF ServerSound, ListenerHasSlot
  <2>4. ClientHasWatch'
    BY <1>2, <1>4, <2>1 DEF ServerSound, ClientHasWatch
  <2> QED  BY <2>2, <2>3, <2>4 DEF ServerSound
<1> QED  BY <1>3, <1>6 DEF ServerInv

LEMMA ListenKeeps ==
  ASSUME ServerInv, NEW x \in sockets, Server!bluetooth_rfcomm_listen(x[1]) PROVE ServerInv'
<1> DEFINE i == Server!index_from_socket(x[1])
<1>1. i \in Server!Slot
  BY IndexInSlot DEF Server!bluetooth_rfcomm_listen, ServerInv, ServerTyped
<1>0. rfcomm_server' = [rfcomm_server EXCEPT ![i].is_listen = TRUE]
  BY DEF Server!bluetooth_rfcomm_listen
<1>2. /\ server_watches' = server_watches \cup {x[1]}
      /\ UNCHANGED <<watches, server_open, sockets, told, stale, proxies>>
  BY DEF Server!bluetooth_rfcomm_listen, Server!bluezVars, Server!countVars
<1>3. x[1] \in Server!Fd /\ x[2] \in Server!Slot
  BY DEF ServerInv, ServerTyped
<1>4. ~stale => i = x[2]
  BY Found DEF ServerInv, ServerSound
<1> HIDE DEF i
<1>5. ServerTyped'
  <2>1. rfcomm_server \in [Server!Slot -> SlotRecord]
    BY DEF ServerInv, ServerTyped
  <2>2. rfcomm_server' \in [Server!Slot -> SlotRecord]
    <3>1. [rfcomm_server[i] EXCEPT !.is_listen = TRUE] \in SlotRecord
      BY <1>1, <2>1 DEF SlotRecord
    <3>2. rfcomm_server' = [rfcomm_server EXCEPT ![i] = [rfcomm_server[i] EXCEPT !.is_listen = TRUE]]
      BY <1>0, <2>1
    <3> QED  BY <1>1, <2>1, <3>1, <3>2
  <2> QED  BY <1>2, <1>3, <2>2 DEF ServerInv, ServerTyped
<1>6. \A j \in Server!Slot :
        /\ rfcomm_server'[j].used = rfcomm_server[j].used
        /\ rfcomm_server'[j].server_sock_fd = rfcomm_server[j].server_sock_fd
        /\ rfcomm_server'[j].is_listen = (rfcomm_server[j].is_listen \/ j = i)
        /\ rfcomm_server'[j].client_sock_fd = rfcomm_server[j].client_sock_fd
        /\ rfcomm_server'[j].client_watch = rfcomm_server[j].client_watch
  BY <1>1, <1>0 DEF ServerInv, ServerTyped, SlotRecord
<1>7. \A y \in sockets : y[2] \in Server!Slot
  BY DEF ServerInv, ServerTyped
<1>8. ASSUME ~stale' PROVE ServerSound'
  <2>1. ServerSound /\ i = x[2]
    BY <1>2, <1>4, <1>8 DEF ServerInv
  <2>2. SocketHasSlot'
    BY <1>2, <1>6, <1>7, <2>1 DEF ServerSound, SocketHasSlot
  <2>3. ListenerHasSlot'
    <3>1. \A y \in sockets : y[1] = x[1] => y[2] = i
      BY <2>1 DEF ServerSound, SocketHasSlot
    <3>2. ListenerHasSlot /\ x \in sockets /\ x[1] \in Server!Fd
      BY <1>3, <2>1 DEF ServerSound
    <3>3. \A fd \in server_watches' : \E y \in sockets' : y[1] = fd
      BY <1>2, <3>2 DEF ListenerHasSlot
    <3>4. ASSUME NEW y \in sockets', y[1] \in server_watches'
          PROVE  rfcomm_server'[y[2]].is_listen
      <4>1. y \in sockets /\ y[2] \in Server!Slot /\ (y[1] = x[1] \/ y[1] \in server_watches)
        BY <1>2, <1>7, <3>4
      <4>2. y[2] = i \/ rfcomm_server[y[2]].is_listen
        BY <3>1, <3>2, <4>1 DEF ListenerHasSlot
      <4> QED  BY <1>6, <4>1, <4>2
    <3> QED  BY <3>3, <3>4 DEF ListenerHasSlot
  <2>4. ClientHasWatch'
    BY <1>2, <1>6, <2>1 DEF ServerSound, ClientHasWatch
  <2> QED  BY <2>2, <2>3, <2>4 DEF ServerSound
<1> QED  BY <1>5, <1>8 DEF ServerInv

(***************************************************************************)
(* The clients.                                                            *)
(***************************************************************************)

LEMMA ConnectedKeeps == ASSUME ServerInv, NEW fd \in Server!Fd,
   Server!server_connected_cb(fd) PROVE ServerInv'
<1> DEFINE i == Server!index_from_socket(fd)
           client == Server!NextFd
<1>1. i \in Server!Slot
  BY IndexInSlot DEF Server!server_connected_cb, ServerInv, ServerTyped
<1>2. client \in Server!Fd \ server_open
  BY NextFdIsFree DEF Server!server_connected_cb
<1>3. rfcomm_server' = [rfcomm_server EXCEPT ![i].client_sock_fd = client,
   ![i].client_watch = client]
  BY DEF Server!server_connected_cb
<1>4. /\ watches' = watches \cup {<<client, i>>} /\ UNCHANGED <<sockets, proxies>>
      /\ \/ /\ server_open' = server_open \cup {client} /\ told' = told \cup {client}
            /\ UNCHANGED <<server_watches, stale>>
         \/ /\ server_open' = (server_open \cup {client}) \ {fd} /\ server_watches' = server_watches \ {fd}
            /\ stale' = TRUE /\ UNCHANGED told
  BY DEF Server!server_connected_cb
<1> HIDE DEF i, client
<1>5. ServerTyped'
  <2>1. rfcomm_server \in [Server!Slot -> SlotRecord]
    BY DEF ServerInv, ServerTyped
  <2>2. rfcomm_server' \in [Server!Slot -> SlotRecord]
    <3>1. [rfcomm_server[i] EXCEPT !.client_sock_fd = client, !.client_watch = client] \in SlotRecord
      BY <1>1, <1>2, <2>1 DEF SlotRecord
    <3>2. rfcomm_server' = [rfcomm_server EXCEPT ![i] = [rfcomm_server[i] EXCEPT !.client_sock_fd = client, !.client_watch = client]]
      BY <1>3, <2>1
    <3> QED  BY <1>1, <2>1, <3>1, <3>2
  <2> QED  BY <1>1, <1>2, <1>4, <2>2 DEF ServerInv, ServerTyped
<1>6. \A j \in Server!Slot :
        /\ rfcomm_server'[j].used = rfcomm_server[j].used
        /\ rfcomm_server'[j].server_sock_fd = rfcomm_server[j].server_sock_fd
        /\ rfcomm_server'[j].is_listen = rfcomm_server[j].is_listen
        /\ \/ j # i /\ rfcomm_server'[j] = rfcomm_server[j]
           \/ /\ j = i /\ rfcomm_server'[j].client_sock_fd = client
              /\ rfcomm_server'[j].client_watch = client
  BY <1>1, <1>3 DEF ServerInv, ServerTyped, SlotRecord
<1>7. ASSUME ~stale' PROVE ServerSound'
  <2>1. /\ ServerSound /\ ServerTyped
        /\ server_open' = server_open \cup {client} /\ UNCHANGED <<server_watches, sockets>>
    BY <1>4, <1>7 DEF ServerInv
  <2>2. \A x \in sockets : x[2] \in Server!Slot /\ x[1] \in server_open /\ x[1] # client
    BY <1>2, <2>1 DEF ServerTyped, ServerSound, SocketHasSlot
  <2>3. SocketHasSlot'
    BY <1>6, <2>1, <2>2 DEF ServerSound, SocketHasSlot
  <2>4. ListenerHasSlot'
    BY <1>6, <2>1, <2>2 DEF ServerSound, ListenerHasSlot
  <2>5. \A w \in watches : w[1] # client
    BY <1>2, <2>1 DEF ServerSound, ClientHasWatch
  <2>6. ClientHasWatch'
    BY <1>4, <1>6, <2>1, <2>2, <2>5 DEF ServerSound, ClientHasWatch
  <2> QED  BY <2>3, <2>4, <2>6 DEF ServerSound
<1> QED  BY <1>5, <1>7 DEF ServerInv

\* The watch of a slot's client is what Watch finds.
LEMMA WatchOfClient ==
  ASSUME ServerTyped, ClientHasWatch, NEW i \in Server!Slot
  PROVE  /\ Server!Watch(i) \subseteq watches /\ \A w \in Server!Watch(i) : w[2] = i
         /\ rfcomm_server[i].client_sock_fd \in Server!Fd
              => <<rfcomm_server[i].client_sock_fd, i>> \in Server!Watch(i)
BY DEF Server!Watch, ClientHasWatch

\* With the client and its watches no other watch, and no server socket, loses its
\* descriptor.
GoesWith(i, removed) == {rfcomm_server[i].client_sock_fd} \cup {w[1] : w \in removed}

LEMMA OnlyItsOwn ==
  ASSUME ServerTyped, ClientHasWatch, NEW i \in Server!Slot, NEW removed \in SUBSET watches,
         rfcomm_server[i].client_sock_fd \in Server!Fd => <<rfcomm_server[i].client_sock_fd, i>> \in removed
  PROVE  /\ \A w \in watches : w[1] \in GoesWith(i, removed) => w \in removed
         /\ \A x \in sockets : x[1] \notin GoesWith(i, removed)
<1>1. \A g \in GoesWith(i, removed) : g \in Server!Fd => \E w \in removed : w[1] = g
  BY DEF GoesWith
<1>2. (\A w \in watches : w[1] \in Server!Fd) /\ (\A x \in sockets : x[1] \in Server!Fd)
  BY DEF ServerTyped
<1> QED  BY <1>1, <1>2 DEF ClientHasWatch

LEMMA CloseKeeps ==
  ASSUME ServerInv, NEW i \in Server!Slot, NEW fd, Server!CloseClient(i, fd), ~stale => <<fd,
     i>> \in watches,
         UNCHANGED <<sockets, server_watches, stale, proxies>>
  PROVE  ServerInv'
<1> DEFINE removed == Server!Watch(i) \cup {<<fd, i>>}
           gone == {rfcomm_server[i].client_sock_fd} \cup {w[1] : w \in removed}
<1>1. rfcomm_server' = [rfcomm_server EXCEPT ![i].client_sock_fd = -1, ![i].client_watch = 0]
  BY DEF Server!CloseClient
<1>2. watches' = watches \ removed /\ server_open' = server_open \ gone /\ told' \subseteq told
  BY DEF Server!CloseClient
<1>3. ServerTyped'
  <2>1. rfcomm_server' \in [Server!Slot -> SlotRecord]
    <3>1. [rfcomm_server[i] EXCEPT !.client_sock_fd = -1, !.client_watch = 0] \in SlotRecord
      <4>1. rfcomm_server[i] \in SlotRecord
        BY DEF ServerInv, ServerTyped
      <4>2. \A r \in SlotRecord : [r EXCEPT !.client_sock_fd = -1,
         !.client_watch = 0] \in SlotRecord
        BY DEF SlotRecord
      <4> QED  BY <4>1, <4>2
    <3>2. rfcomm_server' = [rfcomm_server EXCEPT ![i] =
            [rfcomm_server[i] EXCEPT !.client_sock_fd = -1, !.client_watch = 0]]
      BY <1>1 DEF ServerInv, ServerTyped
    <3> QED  BY <3>1, <3>2 DEF ServerInv, ServerTyped
  <2> HIDE DEF removed, gone
  <2> QED  BY <1>2, <2>1 DEF ServerInv, ServerTyped
<1>4. \A j \in Server!Slot :
        /\ rfcomm_server'[j].used = rfcomm_server[j].used
        /\ rfcomm_server'[j].server_sock_fd = rfcomm_server[j].server_sock_fd
        /\ rfcomm_server'[j].is_listen = rfcomm_server[j].is_listen
        /\ \/ j # i /\ rfcomm_server'[j] = rfcomm_server[j]
           \/ j = i /\ rfcomm_server'[j].client_sock_fd = -1
  BY <1>1 DEF ServerInv, ServerTyped, SlotRecord
<1>5. ASSUME ~stale PROVE ServerSound'
  <2>1. ServerSound /\ ServerTyped /\ <<fd, i>> \in watches
    BY <1>5 DEF ServerInv
  <2>2. /\ removed \in SUBSET watches /\ \A w \in removed : w[2] = i
        /\ rfcomm_server[i].client_sock_fd \in Server!Fd => <<rfcomm_server[i].client_sock_fd, i>> \in removed
    <3>1. /\ Server!Watch(i) \subseteq watches /\ \A w \in Server!Watch(i) : w[2] = i
          /\ rfcomm_server[i].client_sock_fd \in Server!Fd
               => <<rfcomm_server[i].client_sock_fd, i>> \in Server!Watch(i)
      BY <2>1, WatchOfClient DEF ServerSound
    <3> QED  BY <2>1, <3>1
  <2> HIDE DEF removed
  <2>g. gone = GoesWith(i, removed)
    BY DEF GoesWith
  <2> HIDE DEF gone
  <2>3. /\ \A w \in watches : w[1] \in gone => w \in removed
        /\ \A x \in sockets : x[1] \notin gone
    <3>1. ClientHasWatch
      BY <2>1 DEF ServerSound
    <3> QED  BY <2>1, <2>2, <2>g, <3>1, OnlyItsOwn
  <2>4. \A x \in sockets : x[2] \in Server!Slot
    BY <2>1 DEF ServerTyped
  <2>5. SocketHasSlot'
    BY <1>2, <1>4, <2>1, <2>3, <2>4 DEF ServerSound, SocketHasSlot
  <2>6. ListenerHasSlot'
    BY <1>2, <1>4, <2>1, <2>4 DEF ServerSound, ListenerHasSlot
  <2>7. -1 \notin Server!Fd
    BY DEF Server!Fd
  <2>8. ClientHasWatch'
    BY <1>2, <1>4, <2>1, <2>2, <2>3, <2>7 DEF ServerSound, ClientHasWatch
  <2> QED  BY <2>5, <2>6, <2>8 DEF ServerSound
<1> QED  BY <1>3, <1>5 DEF ServerInv

LEMMA DisconnectKeeps ==
  ASSUME ServerInv, NEW fd \in told, NEW event,
         Server!bluetooth_rfcomm_server_disconnect(fd, event)
  PROVE  ServerInv'
<1> DEFINE i == Server!index_from_client_socket(fd)
<1>1. i \in Server!Slot /\ rfcomm_server[i].client_sock_fd = fd
  BY ClientIndexInSlot DEF Server!bluetooth_rfcomm_server_disconnect, ServerInv, ServerTyped
<1>2. ~stale => <<fd, i>> \in watches
  BY <1>1 DEF ServerInv, ServerTyped, ServerSound, ClientHasWatch
<1>3. Server!CloseClient(i, fd) /\ UNCHANGED <<sockets, server_watches, stale, proxies>>
  BY DEF Server!bluetooth_rfcomm_server_disconnect, Server!countVars
<1> HIDE DEF i
<1> QED  BY <1>1, <1>2, <1>3, CloseKeeps

\* Whose client hung up: the slot the watch is of, if it has a client.
LEMMA DataKeeps ==
  ASSUME ServerInv, NEW w \in watches, Server!server_data_received_cb(w[1], w[2])
  PROVE  ServerInv'
<1> DEFINE fd == w[1]
           i == w[2]
           client == rfcomm_server[i].client_sock_fd
           index == Server!index_from_client_socket(client)
<1>1. fd \in Server!Fd /\ i \in Server!Slot /\ w = <<fd, i>>
  BY DEF ServerInv, ServerTyped
<1>2. CASE client > 0 /\ Server!CloseClient(index, fd) /\ UNCHANGED stale
  <2>1. index \in Server!Slot /\ rfcomm_server[index].client_sock_fd = client
    <3>1. i \in {j \in Server!Slot : rfcomm_server[j].client_sock_fd = client}
      BY <1>1
    <3> QED
      BY <3>1, FirstIsMember DEF Server!index_from_client_socket, ServerInv, ServerTyped
  <2>2. client \in Server!Fd
    BY <1>1, <1>2 DEF ServerInv, ServerTyped, SlotRecord
  <2>3. ~stale => index = i
    BY <1>1, <2>1, <2>2 DEF ServerInv, ServerSound, ClientHasWatch
  <2>4. UNCHANGED <<sockets, server_watches, proxies>>
    BY DEF Server!server_data_received_cb
  <2> HIDE DEF fd, i, client, index
  <2> QED  BY <1>1, <1>2, <2>1, <2>3, <2>4, CloseKeeps
<1>3. CASE /\ watches' = watches \ {<<fd, i>>} /\ server_open' = server_open \ {fd}
           /\ stale' = (stale \/ client = fd) /\ UNCHANGED <<rfcomm_server, told>>
  <2>1. UNCHANGED <<sockets, server_watches, proxies>>
    BY DEF Server!server_data_received_cb
  <2>2. ServerTyped'
    BY <1>3, <2>1 DEF ServerInv, ServerTyped
  <2>3. ASSUME ~stale' PROVE ServerSound'
    <3>1. ServerSound /\ client # fd
      BY <1>3, <2>3 DEF ServerInv
    <3>2. SocketHasSlot' /\ ListenerHasSlot'
      BY <1>3, <2>1, <3>1 DEF ServerSound, SocketHasSlot, ListenerHasSlot, ClientHasWatch
    <3>3. ClientHasWatch'
      BY <1>1, <1>3, <2>1, <3>1 DEF ServerSound, ClientHasWatch
    <3> QED  BY <3>2, <3>3 DEF ServerSound
  <2> QED  BY <2>2, <2>3 DEF ServerInv
<1> QED  BY <1>2, <1>3 DEF Server!server_data_received_cb

(***************************************************************************)
(* Removing a server.                                                      *)
(***************************************************************************)

LEMMA RemoveKeeps ==
  ASSUME ServerInv, NEW x \in sockets,
     Server!bluetooth_rfcomm_remove_socket(x[1]) PROVE ServerInv'
<1> DEFINE fd == x[1]
           i == Server!index_from_socket(fd)
           client == rfcomm_server[i].client_sock_fd
           removed == IF client # 0 THEN Server!Watch(i) ELSE {}
           gone == {client} \cup {w[1] : w \in removed}
           slot == [Server!FreeSlot EXCEPT !.server_sock_fd = -1,
                                    !.client_sock_fd = IF client = 0 THEN 0 ELSE -1]
<1>1. i \in Server!Slot
  BY IndexInSlot DEF Server!bluetooth_rfcomm_remove_socket, Server!CanRemove, ServerInv,
     ServerTyped
<1>2. x \in Server!Fd \X Server!Slot
  BY DEF ServerInv, ServerTyped
<1>3. /\ watches' = watches \ removed /\ server_open' = server_open \ (gone \cup {fd})
      /\ sockets' = {y \in sockets : y[1] # fd} /\ told' \subseteq told
      /\ server_watches' = IF rfcomm_server[i].is_listen THEN server_watches \ {fd} ELSE server_watches
      /\ proxies' \subseteq proxies /\ UNCHANGED stale
      /\ rfcomm_server' = [rfcomm_server EXCEPT ![i] = slot]
  BY DEF Server!bluetooth_rfcomm_remove_socket, Server!RemoveProxy, Server!countVars
<1>4. /\ slot \in SlotRecord
      /\ ~slot.used /\ slot.server_sock_fd \notin Server!Fd /\ slot.client_sock_fd \notin Server!Fd
  <2>1. 0 \notin Server!Fd /\ -1 \notin Server!Fd
    BY DEF Server!Fd
  <2>2. /\ slot.used = FALSE /\ slot.server_sock_fd = -1 /\ slot.client_sock_fd \in {0, -1}
        /\ slot \in SlotRecord
    BY DEF Server!FreeSlot, SlotRecord
  <2> QED  BY <2>1, <2>2
<1> HIDE DEF slot
<1>5. ServerTyped'
  <2> HIDE DEF removed, gone, fd, i
  <2> QED  BY <1>1, <1>3, <1>4 DEF ServerInv, ServerTyped
<1>6. \A j \in Server!Slot : rfcomm_server'[j] = IF j = i THEN slot ELSE rfcomm_server[j]
  BY <1>1, <1>3 DEF ServerInv, ServerTyped
<1>7. ASSUME ~stale PROVE ServerSound'
  <2>1. ServerSound /\ ServerTyped /\ i = x[2] /\ 0 \notin Server!Fd
    BY <1>7, Found DEF ServerInv, ServerSound, Server!Fd
  <2>2. removed \in SUBSET watches /\ \A w \in removed : w[2] = i
    BY <1>1, <2>1, WatchOfClient DEF ServerSound
  <2>3. client \in Server!Fd => <<client, i>> \in removed
    BY <1>1, <2>1, WatchOfClient DEF ServerSound
  <2> HIDE DEF removed
  <2>g. gone = GoesWith(i, removed)
    BY DEF GoesWith
  <2> HIDE DEF gone, i, fd
  <2>4. /\ \A w \in watches : w[1] \in gone => w \in removed
        /\ \A y \in sockets : y[1] \notin gone
    <3>1. ClientHasWatch
      BY <2>1 DEF ServerSound
    <3> QED  BY <1>1, <2>1, <2>2, <2>3, <2>g, <3>1, OnlyItsOwn
  <2>5. \A y \in sockets' : y \in sockets /\ y[1] # fd /\ y[2] \in Server!Slot /\ y[2] # i
    BY <1>3, <2>1 DEF ServerTyped, ServerSound, SocketHasSlot, fd
  <2>6. SocketHasSlot'
    BY <1>3, <1>4, <1>6, <2>1, <2>4, <2>5 DEF ServerSound, SocketHasSlot, fd
  <2>7. ListenerHasSlot'
    BY <1>3, <1>4, <1>6, <2>1, <2>5 DEF ServerSound, ListenerHasSlot, fd
  <2>8. ClientHasWatch'
    BY <1>3, <1>4, <1>6, <2>1, <2>2, <2>4, <2>5 DEF ServerSound, ClientHasWatch, fd
  <2> QED  BY <2>6, <2>7, <2>8 DEF ServerSound
<1> QED  BY <1>3, <1>5, <1>7 DEF ServerInv

LEMMA BluezKeeps == ASSUME ServerInv, Server!Bluez PROVE ServerInv'
<1>1. UNCHANGED serverOwn /\ proxies' \subseteq proxies
  BY DEF Server!Bluez, Server!RemoteConnects, Server!RemoteDrops, Server!AdapterGoes,
     Server!AdapterAppears, Server!Drop, Server!libVars, serverOwn,
     Server!countVars, Server!boundVars
<1> QED  BY <1>1, ServerAlone DEF ServerInv, ServerTyped

LEMMA ServerNextInv == ServerInv /\ [SumNext]_sumVars => ServerInv'
<1> SUFFICES ASSUME ServerInv, [SumNext]_sumVars PROVE ServerInv'
  OBVIOUS
<1>1. CASE Server!ServerCall
  BY <1>1, CreateKeeps, EnableFailsKeeps, ListenKeeps, RemoveKeeps, DisconnectKeeps
     DEF Server!ServerCall
<1>2. CASE Server!MainLoop
  BY <1>2, ConnectedKeeps, DataKeeps DEF Server!MainLoop
<1>3. CASE UNCHANGED serverVars
  BY <1>3, ServerAlone DEF serverVars, serverOwn, ServerInv, ServerTyped
<1> QED  BY <1>1, <1>2, <1>3, BluezKeeps DEF SumNext, sumVars, Server!Next

\* However servers are created, refused, removed and connected to, and the adapter
\* goes and comes, the descriptor of a server socket leads to the slot it was created in,
\* until the library closes a socket that a slot keeps.
THEOREM SocketsAreAlwaysFound == SumSpec => []SocketsAreFound
<1>1. SumInit => ServerInv
  BY ServerInitInv, TransportsAssumption DEF SumInit
<1>2. ServerInv => SocketsAreFound
  BY Found DEF ServerInv, ServerSound, SocketsAreFound, Server!SocketsAreFound
<1> QED  BY <1>1, <1>2, ServerNextInv, PTL DEF SumSpec

\* Under the same condition no watch is left on a descriptor that was closed.
THEOREM WatchedAreAlwaysOpen == SumSpec => []WatchedAreOpen
<1>1. SumInit => ServerInv
  BY ServerInitInv, TransportsAssumption DEF SumInit
<1>2. ServerInv => WatchedAreOpen
  BY DEF ServerInv, ServerSound, SocketHasSlot, ListenerHasSlot, ClientHasWatch, WatchedAreOpen,
     Server!WatchedAreOpen
<1> QED  BY <1>1, <1>2, ServerNextInv, PTL DEF SumSpec

(***************************************************************************)
(* The client: the invariant.                                              *)
(***************************************************************************)

ClientCall ==
  [id : Client!Request, method : {"DiscoverServices", "Connect"}, uuid : 0..MaxConnects,
   owns : BOOLEAN]
ClientReply ==
  [id : Client!Request, method : {"DiscoverServices", "Connect"}, ok : BOOLEAN,
   tty : 0..MaxConnects]
ClientPort == {Client!NoPort, Client!Connecting} \cup {Client!Up(t) : t \in 0..MaxConnects}

ClientTyped ==
  /\ Client!RfcommClientAssumption
  /\ connecting_uuid \in 0..MaxConnects /\ rfcomm_proxy \in 0..MaxConnects
  /\ rfcomm_client \in [Client!Index -> 0..MaxConnects]
  /\ calls \subseteq ClientCall /\ client_inbox \in Seq(ClientReply)
  /\ hups \subseteq Client!Request /\ enabled \in BOOLEAN
  /\ port \in [Client!Request -> ClientPort]
  /\ client_open \subseteq Client!Request /\ overlapped \subseteq Client!Request
  /\ abandoned \subseteq Client!Request
  /\ connects \in 0..MaxConnects /\ client_restarts \in 0..MaxRestarts

Discovering(c) == c.method = "DiscoverServices"

\* What the two slots have to do with the calls: of connects that do not overlap there
\* is one at a time, whose UUID is in the slot; the proxy is of no call that discovers.
SlotsOfCalls ==
  /\ \A c \in calls : c.id \in client_open
  /\ \A c, d \in calls : c.id = d.id => c = d
  /\ \A c \in calls : Discovering(c) => c.id # rfcomm_proxy /\ c.uuid = c.id
  /\ \A c \in calls : c.owns => c.uuid # 0 /\ ~Discovering(c)
  /\ rfcomm_proxy \in client_open \cup {0} /\ connecting_uuid \in client_open \cup {0}
  /\ \A id \in client_open \ overlapped : client_open = {id} /\ connecting_uuid = id

Answers == {client_inbox[k] : k \in DOMAIN client_inbox}
ConnectAnswers == {m \in Answers : m.method = "Connect"}

\* A request that has not been made has no call, no answer and no port; the answer to a
\* Connect comes after its call.
MadeRequests ==
  /\ \A id \in client_open : id =< connects
  /\ \A c \in calls : c.uuid =< connects
  /\ \A m \in Answers : m.id =< connects
  /\ \A c \in calls : Discovering(c) => \A m \in ConnectAnswers : m.id # c.id
  /\ \A u \in Client!Request : u > connects => port[u] = Client!NoPort
  /\ ~enabled => \A u \in Client!Request : port[u] = Client!NoPort

\* The port of a UUID is the one its call asked for, as its answer says.
PortOfCall(c) ==
  /\ c.id = c.uuid
  /\ Discovering(c) => port[c.uuid] = Client!NoPort
  /\ ~c.owns => port[c.uuid].state # "up"
  /\ \A m \in ConnectAnswers :
       m.id = c.id /\ port[c.uuid].state = "up" => m.ok /\ port[c.uuid] = Client!Up(m.tty)

PortsOfCalls == \A c \in calls : c.uuid \in Client!Request \ overlapped => PortOfCall(c)

\* Calls that may still be given a tty: the ttys there are leave one for each of them.
PendingCalls == {d \in calls : \A m \in ConnectAnswers : m.id # d.id}
Pending == {c.id : c \in PendingCalls}
TtysLeft == Client!TtysTaken \subseteq 0..(connects - Cardinality(Pending) - 1)

ClientSound ==
  /\ SlotsOfCalls /\ MadeRequests /\ PortsOfCalls /\ TtysLeft
  /\ EventTellsItsConnect /\ PortsAreHeld

ClientInv == ClientTyped /\ ClientSound

LEMMA ClientInitInv == Client!RfcommClientAssumption /\ Client!Init => ClientInv
<1> SUFFICES ASSUME Client!RfcommClientAssumption, Client!Init PROVE ClientInv
  OBVIOUS
<1>1. MaxConn \in Nat \ {0} /\ MaxConnects \in Nat /\ MaxRestarts \in Nat
  BY DEF Client!RfcommClientAssumption
<1>2. \A u \in Client!Request : port[u] = Client!NoPort /\ port[u].state # "up"
  BY DEF Client!Init, Client!NoPort
<1>3. Answers = {} /\ ConnectAnswers = {} /\ Client!TtysTaken = {}
  BY <1>2 DEF Client!Init, Answers, ConnectAnswers, Client!TtysTaken
<1>4. ClientTyped
  BY <1>1 DEF Client!Init, ClientTyped, ClientPort
<1>5. SlotsOfCalls /\ MadeRequests /\ PortsOfCalls /\ TtysLeft
  BY <1>1, <1>2, <1>3 DEF Client!Init, SlotsOfCalls, MadeRequests, PortsOfCalls, TtysLeft
<1>6. EventTellsItsConnect /\ PortsAreHeld
  BY <1>2 DEF Client!Init, Client!Silent, EventTellsItsConnect, PortsAreHeld,
     Client!EventTellsItsConnect, Client!PortsAreHeld
<1> QED  BY <1>4, <1>5, <1>6 DEF ClientInv, ClientSound

\* The state of a port is told by one field.
LEMMA PortStates ==
  ASSUME ClientTyped, NEW u \in Client!Request
  PROVE  /\ port[u].state # "up" => \A t : port[u] # Client!Up(t)
         /\ port[u].state = "up" => \E t \in 0..MaxConnects : port[u] = Client!Up(t)
         /\ Client!NoPort.state # "up" /\ Client!Connecting.state # "up"
         /\ \A t : Client!Up(t).state = "up" /\ Client!Up(t).tty = t
BY DEF ClientTyped, ClientPort, Client!NoPort, Client!Connecting, Client!Up

\* Answers come at the end and are taken from the front.
LEMMA AnswerComes ==
  ASSUME ClientTyped, NEW m \in ClientReply, client_inbox' = Append(client_inbox, m)
  PROVE  Answers' = Answers \cup {m} /\ client_inbox' \in Seq(ClientReply)
<1>1. client_inbox \in Seq(ClientReply) /\ client_inbox' \in Seq(ClientReply)
  BY DEF ClientTyped
<1>2. /\ DOMAIN client_inbox' = DOMAIN client_inbox \cup {Len(client_inbox) + 1}
      /\ \A k \in DOMAIN client_inbox : client_inbox'[k] = client_inbox[k]
      /\ client_inbox'[Len(client_inbox) + 1] = m
  BY <1>1
<1> QED  BY <1>1, <1>2 DEF Answers

LEMMA AnswerGoes ==
  ASSUME ClientTyped, client_inbox # <<>>, client_inbox' = Tail(client_inbox)
  PROVE  /\ Answers' \subseteq Answers /\ Head(client_inbox) \in Answers
         /\ Answers \subseteq Answers' \cup {Head(client_inbox)}
         /\ client_inbox' \in Seq(ClientReply) /\ Head(client_inbox) \in ClientReply
<1>1. client_inbox \in Seq(ClientReply) /\ client_inbox' \in Seq(ClientReply)
  BY DEF ClientTyped
<1>2. /\ \A k \in DOMAIN client_inbox' :
           k + 1 \in DOMAIN client_inbox /\ client_inbox'[k] = client_inbox[k + 1]
      /\ \A k \in DOMAIN client_inbox : k # 1 =>
           k - 1 \in DOMAIN client_inbox' /\ client_inbox'[k - 1] = client_inbox[k]
      /\ 1 \in DOMAIN client_inbox /\ Head(client_inbox) = client_inbox[1]
  BY <1>1
<1>3. Head(client_inbox) \in ClientReply
  BY <1>1
<1> QED  BY <1>1, <1>2, <1>3 DEF Answers

\* A lower number of pending calls leaves the same ttys.
LEMMA FewerPending ==
  ASSUME ClientTyped, SlotsOfCalls, MadeRequests
  PROVE  /\ IsFiniteSet(Pending) /\ Cardinality(Pending) \in Nat
         /\ Cardinality(Pending) =< connects
         /\ \A S \in SUBSET Pending : IsFiniteSet(S) /\ Cardinality(S) \in Nat /\ Cardinality(S) =< Cardinality(Pending)
<1>1. Pending \subseteq 1..connects
  <2>1. \A id \in client_open : id \in 1..connects
    BY DEF ClientTyped, MadeRequests, Client!Request
  <2> QED  BY <2>1 DEF Pending, PendingCalls, SlotsOfCalls
<1>2. IsFiniteSet(1..connects) /\ Cardinality(1..connects) = connects
  <2>1. connects \in Nat
    BY DEF ClientTyped
  <2> QED  BY <2>1, FS_Interval
<1>3. IsFiniteSet(Pending) /\ Cardinality(Pending) =< connects
  BY <1>1, <1>2, FS_Subset
<1>4. Cardinality(Pending) \in Nat
  BY <1>3, FS_CardinalityType
<1>5. ASSUME NEW S \in SUBSET Pending
      PROVE  IsFiniteSet(S) /\ Cardinality(S) \in Nat /\ Cardinality(S) =< Cardinality(Pending)
  BY <1>3, <1>5, FS_Subset, FS_CardinalityType
<1> QED  BY <1>3, <1>4, <1>5

\* What a step does not add to leaves ttys as it did.
LEMMA TtysLeftKept ==
  ASSUME ClientInv, ClientTyped', Client!TtysTaken' \subseteq Client!TtysTaken,
         Pending' \subseteq Pending, connects' = connects
  PROVE  TtysLeft'
<1>1. Cardinality(Pending') =< Cardinality(Pending)
  BY FewerPending DEF ClientInv, ClientSound
<1>2. Cardinality(Pending) \in Nat /\ Cardinality(Pending') \in Nat /\ connects \in Nat
  BY FewerPending DEF ClientInv, ClientSound, ClientTyped
<1>3. Client!TtysTaken' \subseteq 0..(connects - Cardinality(Pending) - 1)
  BY DEF ClientInv, ClientSound, TtysLeft
<1>4. 0..(connects - Cardinality(Pending) - 1) \subseteq 0..(connects - Cardinality(Pending') - 1)
  BY <1>1, <1>2
<1> QED  BY <1>3, <1>4 DEF TtysLeft

PortTtys == {port[u].tty : u \in {v \in Client!Request : port[v].state = "up"}}
OpenTtys == {i \in Client!Index : rfcomm_client[i] # 0}
AnsweredTtys == {m.tty : m \in {a \in ConnectAnswers : a.ok}}

LEMMA TtysTakenAre == Client!TtysTaken = PortTtys \cup OpenTtys \cup AnsweredTtys
<1>1. {client_inbox[k].tty : k \in {j \in DOMAIN client_inbox :
          client_inbox[j].ok /\ client_inbox[j].method = "Connect"}} = AnsweredTtys
  BY DEF AnsweredTtys, ConnectAnswers, Answers
<1> QED  BY <1>1 DEF Client!TtysTaken, PortTtys, OpenTtys

LEMMA TtysTakenNext == Client!TtysTaken' = PortTtys' \cup OpenTtys' \cup AnsweredTtys'
<1>1. {client_inbox'[k].tty : k \in {j \in DOMAIN client_inbox' :
          client_inbox'[j].ok /\ client_inbox'[j].method = "Connect"}} = AnsweredTtys'
  BY DEF AnsweredTtys, ConnectAnswers, Answers
<1> QED  BY <1>1 DEF Client!TtysTaken, PortTtys, OpenTtys

\* Silence says nothing wrong.
LEMMA SilentTells == tells' = Client!Silent => EventTellsItsConnect'
BY DEF EventTellsItsConnect, Client!EventTellsItsConnect, Client!Silent

(***************************************************************************)
(* BlueZ answers the client.                                               *)
(***************************************************************************)

LEMMA ServicesKeeps ==
  ASSUME ClientInv, NEW c \in calls, NEW ok \in BOOLEAN, Client!ServicesDiscovered(c, ok)
  PROVE  ClientInv'
<1> DEFINE m == Client!Reply(c, ok, 0)
<1>1. /\ m \in ClientReply /\ m.method = "DiscoverServices" /\ m.id = c.id
      /\ c.id \in client_open /\ Discovering(c)
  <2>1. c \in ClientCall /\ 0 \in 0..MaxConnects
    BY DEF ClientInv, ClientTyped, Client!RfcommClientAssumption
  <2>2. c.id \in client_open /\ Discovering(c)
    BY DEF ClientInv, ClientSound, SlotsOfCalls, Client!ServicesDiscovered, Discovering
  <2> QED  BY <2>1, <2>2 DEF ClientCall, ClientReply, Client!Reply, Discovering
<1>2. Answers' = Answers \cup {m} /\ client_inbox' \in Seq(ClientReply)
  BY <1>1, AnswerComes DEF ClientInv, Client!ServicesDiscovered
<1>3. /\ UNCHANGED <<connecting_uuid, rfcomm_proxy, rfcomm_client, calls, hups, enabled, port,
                     client_open, overlapped, abandoned, connects, client_restarts>>
      /\ tells' = Client!Silent
  BY DEF Client!ServicesDiscovered
<1> HIDE DEF m
<1>4. ConnectAnswers' = ConnectAnswers
  BY <1>1, <1>2 DEF ConnectAnswers
<1>5. ClientTyped'
  BY <1>2, <1>3 DEF ClientInv, ClientTyped
<1>6. SlotsOfCalls' /\ PortsOfCalls'
  BY <1>3, <1>4 DEF ClientInv, ClientSound, SlotsOfCalls, PortsOfCalls, PortOfCall
<1>7. MadeRequests'
  BY <1>1, <1>2, <1>3, <1>4 DEF ClientInv, ClientSound, MadeRequests
<1>8. TtysLeft'
  BY <1>3, <1>4, TtysTakenAre, TtysTakenNext DEF ClientInv, ClientSound, TtysLeft, Pending,
     PendingCalls, PortTtys, OpenTtys, AnsweredTtys
<1>9. EventTellsItsConnect' /\ PortsAreHeld'
  BY <1>3, SilentTells DEF ClientInv, ClientSound, PortsAreHeld, Client!PortsAreHeld, Client!Holder
<1> QED  BY <1>5, <1>6, <1>7, <1>8, <1>9 DEF ClientInv, ClientSound

\* There is a tty for every call that is pending.
LEMMA TtyIsFree ==
  ASSUME ClientInv, Pending # {}
  PROVE  Client!Tty \in 0..(connects - Cardinality(Pending)) /\ Client!Tty \in 0..MaxConnects
<1> DEFINE n == connects - Cardinality(Pending)
           free == (0..MaxConnects) \ Client!TtysTaken
<1>1. n \in 0..MaxConnects /\ MaxConnects \in Nat
  BY FewerPending DEF ClientInv, ClientSound, ClientTyped, Client!RfcommClientAssumption
<1>2. n \in free
  BY <1>1 DEF ClientInv, ClientSound, TtysLeft
<1>3. free \in SUBSET Nat /\ free # {}
  BY <1>1, <1>2
<1> HIDE DEF free, n
<1>4. Client!Min(free) \in free /\ Client!Min(free) =< n
  BY <1>2, <1>3, MinIsLeast
<1> QED  BY <1>1, <1>4 DEF Client!Tty, free, n

LEMMA PortConnectedKeeps ==
  ASSUME ClientInv, NEW c \in calls, NEW ok \in BOOLEAN, Client!PortConnected(c, ok)
  PROVE  ClientInv'
<1> DEFINE tty == IF ok THEN Client!Tty ELSE 0
           m == Client!Reply(c, ok, tty)
<1>1. /\ c \in ClientCall /\ c.method = "Connect" /\ c \in PendingCalls
      /\ c.id \in client_open /\ connects \in Nat /\ ~Discovering(c)
  BY DEF ClientInv, ClientSound, SlotsOfCalls, ClientTyped, Client!PortConnected,
     Client!Unanswered, PendingCalls, ConnectAnswers, Answers, Discovering
<1>2. c.id \in Pending
  BY <1>1 DEF Pending
<1>3. tty \in 0..(connects - Cardinality(Pending)) /\ tty \in 0..MaxConnects
  <2>1. 0 \in 0..(connects - Cardinality(Pending)) /\ 0 \in 0..MaxConnects
    BY FewerPending DEF ClientInv, ClientSound, ClientTyped, Client!RfcommClientAssumption
  <2> QED  BY <1>2, <2>1, TtyIsFree
<1> HIDE DEF tty
<1>4. m \in ClientReply /\ m = [id |-> c.id, method |-> "Connect", ok |-> ok, tty |-> tty]
  BY <1>1, <1>3 DEF ClientCall, ClientReply, Client!Reply
<1>5. Answers' = Answers \cup {m} /\ client_inbox' \in Seq(ClientReply)
  BY <1>4, AnswerComes DEF ClientInv, Client!PortConnected, tty
<1>6. /\ UNCHANGED <<connecting_uuid, rfcomm_proxy, rfcomm_client, calls, hups, enabled,
                     client_open, overlapped, abandoned, connects, client_restarts>>
      /\ tells' = Client!Silent
  BY DEF Client!PortConnected
<1> HIDE DEF m
<1>7. ConnectAnswers' = ConnectAnswers \cup {m}
  BY <1>4, <1>5 DEF ConnectAnswers
<1>8. \/ /\ ok /\ c.owns /\ c.uuid \in Client!Request /\ port[c.uuid] = Client!Connecting
         /\ port' = [port EXCEPT ![c.uuid] = Client!Up(tty)]
      \/ ~ok /\ c.owns /\ port' = [port EXCEPT ![c.uuid] = Client!NoPort]
      \/ ~ok /\ ~c.owns /\ port' = port
  <2>1. c.owns => c.uuid \in Client!Request
    BY <1>1 DEF ClientInv, ClientSound, SlotsOfCalls, ClientCall, Client!Request
  <2> QED  BY <2>1 DEF Client!PortConnected, tty
<1>9. /\ port' \in [Client!Request -> ClientPort]
      /\ \A u \in Client!Request :
           \/ port'[u] = port[u] /\ ~(u = c.uuid /\ c.owns)
           \/ u = c.uuid /\ c.owns /\ ok /\ port[u] = Client!Connecting /\ port'[u] = Client!Up(tty)
           \/ u = c.uuid /\ c.owns /\ ~ok /\ port'[u] = Client!NoPort
  BY <1>3, <1>8 DEF ClientInv, ClientTyped, ClientPort
<1>10. ClientTyped'
  BY <1>5, <1>6, <1>9 DEF ClientInv, ClientTyped
<1>11. SlotsOfCalls'
  BY <1>6 DEF ClientInv, ClientSound, SlotsOfCalls
<1>12. MadeRequests'
  <2>1. \A d \in calls : Discovering(d) => d.id # c.id
    BY <1>1 DEF ClientInv, ClientSound, SlotsOfCalls
  <2>2. c.uuid =< connects /\ c.id =< connects
    BY <1>1 DEF ClientInv, ClientSound, MadeRequests
  <2>3. \A u \in Client!Request : port'[u] # port[u] => u = c.uuid
    BY <1>9
  <2>4. \A u \in Client!Request : u > connects => port'[u] = Client!NoPort
    BY <1>1, <1>9, <2>2 DEF ClientInv, ClientSound, MadeRequests, Client!Request
  <2>5. ~enabled => \A u \in Client!Request : port'[u] = Client!NoPort
    <3>1. Client!Connecting # Client!NoPort
      BY DEF Client!Connecting, Client!NoPort
    <3> QED  BY <1>9, <3>1 DEF ClientInv, ClientSound, MadeRequests
  <2> QED  BY <1>4, <1>5, <1>6, <1>7, <2>1, <2>2, <2>4, <2>5 DEF ClientInv, ClientSound, MadeRequests
<1>13. PortsOfCalls'
  <2> SUFFICES ASSUME NEW d \in calls, d.uuid \in Client!Request \ overlapped PROVE PortOfCall(d)'
    BY <1>6 DEF PortsOfCalls
  <2>1. PortOfCall(d)
    BY DEF ClientInv, ClientSound, PortsOfCalls
  <2>2. CASE d # c
    <3>1. d.id # c.id /\ d.uuid # c.uuid
      <4>1. d.id # c.id
        BY <2>2 DEF ClientInv, ClientSound, SlotsOfCalls
      <4>2. ASSUME d.uuid = c.uuid PROVE FALSE
        <5>1. PortOfCall(c)
          BY <4>2 DEF ClientInv, ClientSound, PortsOfCalls
        <5> QED  BY <2>1, <4>1, <4>2, <5>1 DEF PortOfCall
      <4> QED  BY <4>1, <4>2
    <3>2. port'[d.uuid] = port[d.uuid]
      BY <1>9, <3>1
    <3> QED  BY <1>4, <1>7, <2>1, <3>1, <3>2 DEF PortOfCall
  <2>3. CASE d = c
    <3>1. \A a \in ConnectAnswers : a.id # c.id
      BY <1>1 DEF PendingCalls
    <3>2. /\ ~c.owns => port'[c.uuid].state # "up"
          /\ port'[c.uuid].state = "up" => ok /\ port'[c.uuid] = Client!Up(tty)
      BY <1>9, <2>1, <2>3, PortStates DEF ClientInv, PortOfCall
    <3> QED  BY <1>1, <1>4, <1>7, <2>1, <2>3, <3>1, <3>2 DEF PortOfCall
  <2> QED  BY <2>2, <2>3
<1>14. TtysLeft'
  <2>1. Pending' = Pending \ {c.id}
    <3>1. PendingCalls' = PendingCalls \ {c}
      BY <1>4, <1>6, <1>7 DEF ClientInv, ClientSound, SlotsOfCalls, PendingCalls
    <3> QED  BY <1>1, <1>6, <3>1 DEF Pending, PendingCalls, ClientInv, ClientSound, SlotsOfCalls
  <2>2. Cardinality(Pending') = Cardinality(Pending) - 1
    BY <1>2, <2>1, FewerPending, FS_RemoveElement DEF ClientInv, ClientSound
  <2>3. Client!TtysTaken' \subseteq Client!TtysTaken \cup {tty}
    <3>1. OpenTtys' = OpenTtys
      BY <1>6 DEF OpenTtys
    <3>2. AnsweredTtys' \subseteq AnsweredTtys \cup {tty}
      BY <1>4, <1>7 DEF AnsweredTtys
    <3>3. PortTtys' \subseteq PortTtys \cup {tty}
      <4>1. ASSUME NEW u \in Client!Request, port'[u].state = "up"
            PROVE  port'[u].tty \in PortTtys \cup {tty}
        BY <1>9, <4>1, PortStates DEF ClientInv, PortTtys
      <4> QED  BY <4>1 DEF PortTtys
    <3> QED  BY <3>1, <3>2, <3>3, TtysTakenAre, TtysTakenNext
  <2>4. Cardinality(Pending) \in Nat
    BY FewerPending DEF ClientInv, ClientSound
  <2>5. Client!TtysTaken' \subseteq 0..(connects - Cardinality(Pending))
    BY <1>1, <1>3, <2>3, <2>4 DEF ClientInv, ClientSound, TtysLeft
  <2>6. connects' - Cardinality(Pending') - 1 = connects - Cardinality(Pending)
    BY <1>1, <1>6, <2>2, <2>4
  <2> QED  BY <2>5, <2>6 DEF TtysLeft
<1>15. PortsAreHeld'
  <2> SUFFICES ASSUME NEW u \in Client!Request \ (abandoned \cup overlapped), port'[u].state = "up"
               PROVE  (Client!Holder(u) # {})' \/ \E d \in calls : d.method = "Connect" /\ d.uuid = u
    BY <1>6 DEF PortsAreHeld, Client!PortsAreHeld
  <2>1. CASE port'[u] = port[u]
    BY <1>6, <2>1 DEF ClientInv, ClientSound, PortsAreHeld, Client!PortsAreHeld, Client!Holder
  <2>2. CASE u = c.uuid
    BY <1>1, <2>2
  <2> QED  BY <1>9, <2>1, <2>2
<1> QED  BY <1>6, <1>10, <1>11, <1>12, <1>13, <1>14, <1>15, SilentTells DEF ClientInv, ClientSound

(***************************************************************************)
(* Ports that go.                                                          *)
(***************************************************************************)

LEMMA PortsGo ==
  ASSUME ClientInv, ClientTyped',
         UNCHANGED <<connecting_uuid, rfcomm_proxy, calls, client_inbox, client_open, overlapped,
                     connects>>,
         tells' = Client!Silent, OpenTtys' \subseteq OpenTtys,
         \A u \in Client!Request : port'[u] = port[u] \/ port'[u] = Client!NoPort,
         ~enabled' => \A u \in Client!Request : port'[u] = Client!NoPort,
         \A u \in Client!Request : port'[u].state = "up" =>
           (Client!Holder(u) # {} => Client!Holder(u)' # {}) /\ (u \in abandoned => u \in abandoned')
  PROVE  ClientInv'
<1>1. Answers' = Answers /\ ConnectAnswers' = ConnectAnswers
  BY DEF Answers, ConnectAnswers
<1>2. \A u \in Client!Request : port'[u].state = "up" => port'[u] = port[u]
  BY PortStates DEF ClientInv
<1>3. SlotsOfCalls'
  BY DEF ClientInv, ClientSound, SlotsOfCalls
<1>4. MadeRequests'
  BY <1>1 DEF ClientInv, ClientSound, MadeRequests
<1>5. PortsOfCalls'
  <2> SUFFICES ASSUME NEW d \in calls, d.uuid \in Client!Request \ overlapped PROVE PortOfCall(d)'
    BY DEF PortsOfCalls
  <2>1. PortOfCall(d)
    BY DEF ClientInv, ClientSound, PortsOfCalls
  <2>2. port'[d.uuid].state = "up" => port'[d.uuid] = port[d.uuid]
    BY <1>2
  <2> QED  BY <1>1, <2>1, <2>2 DEF PortOfCall
<1>6. TtysLeft'
  <2>1. PortTtys' \subseteq PortTtys /\ AnsweredTtys' = AnsweredTtys /\ Pending' = Pending
    BY <1>1, <1>2 DEF PortTtys, AnsweredTtys, Pending, PendingCalls
  <2> QED  BY <2>1, TtysTakenAre, TtysTakenNext, TtysLeftKept
<1>7. PortsAreHeld'
  BY <1>2 DEF ClientInv, ClientSound, PortsAreHeld, Client!PortsAreHeld
<1> QED  BY <1>3, <1>4, <1>5, <1>6, <1>7, SilentTells DEF ClientInv, ClientSound

LEMMA HolderIsRequest ==
  ASSUME ClientTyped, NEW u \in Client!Request PROVE Client!Holder(u) \subseteq Client!Request
BY DEF ClientTyped, Client!Holder, Client!Request

LEMMA PortLostKeeps ==
  ASSUME ClientInv, NEW u \in Client!Request, Client!PortLost(u) PROVE ClientInv'
<1>1. /\ UNCHANGED <<connecting_uuid, rfcomm_proxy, rfcomm_client, calls, client_inbox, enabled,
                     client_open, overlapped, connects, client_restarts>>
      /\ port' = [port EXCEPT ![u] = Client!NoPort] /\ tells' = Client!Silent
      /\ hups' = hups \cup Client!Holder(u) /\ abandoned' = abandoned \ {u}
  BY DEF Client!PortLost
<1>2. \A v \in Client!Request : port'[v] = IF v = u THEN Client!NoPort ELSE port[v]
  BY <1>1 DEF ClientInv, ClientTyped
<1>3. ClientTyped'
  <2>1. port' \in [Client!Request -> ClientPort]
    BY <1>1 DEF ClientInv, ClientTyped, ClientPort
  <2> QED  BY <1>1, <2>1, HolderIsRequest DEF ClientInv, ClientTyped
<1>4. OpenTtys' = OpenTtys
  BY <1>1 DEF OpenTtys
<1>5. ASSUME NEW v \in Client!Request, port'[v].state = "up"
      PROVE  /\ Client!Holder(v) # {} => Client!Holder(v)' # {}
             /\ v \in abandoned => v \in abandoned'
  <2>1. v # u /\ port'[v] = port[v]
    BY <1>2, <1>5, PortStates DEF ClientInv
  <2> QED  BY <1>1, <2>1 DEF Client!Holder
<1>6. ~enabled' => \A v \in Client!Request : port'[v] = Client!NoPort
  BY <1>1, <1>2 DEF ClientInv, ClientSound, MadeRequests
<1> QED  BY <1>1, <1>2, <1>3, <1>4, <1>5, <1>6, PortsGo

LEMMA ClientAdapterKeeps ==
  ASSUME ClientInv, Client!AdapterGoes \/ Client!AdapterComes PROVE ClientInv'
<1>1. CASE Client!AdapterGoes
  <2>1. /\ UNCHANGED <<connecting_uuid, rfcomm_proxy, rfcomm_client, calls, client_inbox,
                       client_open, overlapped, connects>>
        /\ port' = [u \in Client!Request |-> Client!NoPort] /\ tells' = Client!Silent
        /\ hups' = hups \cup UNION {Client!Holder(u) : u \in Client!Request}
        /\ abandoned' = {} /\ ~enabled' /\ enabled' \in BOOLEAN
        /\ client_restarts' = client_restarts + 1 /\ client_restarts < MaxRestarts
    BY <1>1 DEF Client!AdapterGoes
  <2>2. \A v \in Client!Request : port'[v] = Client!NoPort
    BY <2>1
  <2>3. ClientTyped'
    <3>1. port' \in [Client!Request -> ClientPort] /\ client_restarts' \in 0..MaxRestarts
      BY <2>1 DEF ClientInv, ClientTyped, ClientPort, Client!RfcommClientAssumption
    <3>2. hups' \subseteq Client!Request
      BY <2>1, HolderIsRequest DEF ClientInv, ClientTyped
    <3> QED  BY <2>1, <3>1, <3>2 DEF ClientInv, ClientTyped
  <2>4. OpenTtys' = OpenTtys
    BY <2>1 DEF OpenTtys
  <2>5. \A v \in Client!Request : port'[v].state # "up"
    BY <2>2, PortStates DEF ClientInv
  <2> QED  BY <2>1, <2>2, <2>3, <2>4, <2>5, PortsGo
<1>2. CASE Client!AdapterComes
  <2>1. /\ UNCHANGED <<connecting_uuid, rfcomm_proxy, rfcomm_client, calls, client_inbox, hups,
                       port, client_open, overlapped, abandoned, connects, client_restarts>>
        /\ enabled' = TRUE /\ tells' = Client!Silent
    BY <1>2 DEF Client!AdapterComes
  <2>2. ClientTyped' /\ OpenTtys' = OpenTtys
    BY <2>1 DEF ClientInv, ClientTyped, OpenTtys
  <2>3. \A v \in Client!Request : Client!Holder(v)' = Client!Holder(v)
    BY <2>1 DEF Client!Holder
  <2> QED  BY <2>1, <2>2, <2>3, PortsGo
<1> QED  BY <1>1, <1>2

(***************************************************************************)
(* The calls of the client.                                                *)
(***************************************************************************)

LEMMA ClientConnectKeeps == ASSUME ClientInv, Client!bluetooth_rfcomm_connect PROVE ClientInv'
<1>a. PICK n : n = connects + 1
  OBVIOUS
<1>b. PICK c : c = [id |-> n, method |-> "DiscoverServices", uuid |-> n, owns |-> FALSE]
  OBVIOUS
<1>1. /\ enabled /\ connects < MaxConnects /\ connects' = n /\ connecting_uuid' = n
      /\ calls' = calls \cup {c}
      /\ overlapped' = overlapped \cup (IF client_open = {} THEN {} ELSE client_open \cup {n})
      /\ client_open' = client_open \cup {n} /\ tells' = Client!Silent
      /\ UNCHANGED <<rfcomm_proxy, rfcomm_client, client_inbox, hups, enabled, port, abandoned,
                     client_restarts>>
  BY <1>a, <1>b DEF Client!bluetooth_rfcomm_connect
<1>2. n \in Client!Request /\ n > connects /\ connects \in Nat /\ MaxConnects \in Nat
  BY <1>1, <1>a DEF ClientInv, ClientTyped, Client!RfcommClientAssumption, Client!Request
<1>3. c \in ClientCall /\ c.id = n /\ c.uuid = n /\ Discovering(c) /\ ~c.owns
  BY <1>1, <1>2, <1>b DEF ClientCall, Client!Request, Discovering
<1>4. ClientTyped'
  BY <1>1, <1>2, <1>3 DEF ClientInv, ClientTyped, Client!Request
<1>5. Answers' = Answers /\ ConnectAnswers' = ConnectAnswers
  BY <1>1 DEF Answers, ConnectAnswers
<1>6. /\ \A id \in client_open : id # n
      /\ \A d \in calls : d.id # n /\ d.uuid # n
      /\ \A m \in Answers : m.id # n
      /\ rfcomm_proxy # n /\ n # 0
  <2>1. \A id \in client_open : id \in Int /\ id < n
    <3>1. \A id \in client_open : id \in Int /\ id =< connects
      BY DEF ClientInv, ClientTyped, ClientSound, MadeRequests, Client!Request
    <3> QED  BY <1>2, <1>a, <3>1
  <2>2. \A d \in calls : d.id \in client_open /\ d.uuid \in Int /\ d.uuid < n
    BY <1>2, <1>a DEF ClientInv, ClientTyped, ClientCall, ClientSound, MadeRequests, SlotsOfCalls
  <2>3. \A m \in Answers : m.id \in Int /\ m.id < n
    <3>1. \A m \in Answers : m \in ClientReply
      BY DEF ClientInv, ClientTyped, Answers
    <3>2. \A m \in Answers : m.id \in Int /\ m.id =< connects
      BY <3>1 DEF ClientInv, ClientReply, ClientSound, MadeRequests, Client!Request
    <3> QED  BY <1>2, <1>a, <3>2
  <2>4. n # 0 /\ n \in Int /\ rfcomm_proxy \in client_open \cup {0}
    BY <1>2 DEF Client!Request, ClientInv, ClientSound, SlotsOfCalls
  <2> QED  BY <1>2, <2>1, <2>2, <2>3, <2>4
<1>7. SlotsOfCalls'
  BY <1>1, <1>3, <1>6 DEF ClientInv, ClientSound, SlotsOfCalls
<1>8. MadeRequests'
  <2>1. \A x \in Int : x =< connects => x =< connects'
    BY <1>1, <1>2, <1>a
  <2>2. \A x \in Int : x > connects' => x > connects
    BY <1>1, <1>2, <1>a
  <2>3. /\ \A id \in client_open : id \in Int
        /\ \A d \in calls : d.uuid \in Int
        /\ \A m \in Answers : m.id \in Int
        /\ \A u \in Client!Request : u \in Int
    <3>1. \A m \in Answers : m \in ClientReply
      BY DEF ClientInv, ClientTyped, Answers
    <3> QED  BY <3>1 DEF ClientInv, ClientTyped, ClientCall, ClientReply, Client!Request
  <2>4. n =< connects'
    BY <1>1, <1>2, <1>a
  <2>5. /\ \A id \in client_open' : id =< connects'
        /\ \A d \in calls' : d.uuid =< connects'
        /\ \A m \in Answers' : m.id =< connects'
    BY <1>1, <1>3, <1>5, <2>1, <2>3, <2>4 DEF ClientInv, ClientSound, MadeRequests
  <2>6. \A d \in calls' : Discovering(d) => \A m \in ConnectAnswers' : m.id # d.id
    BY <1>1, <1>3, <1>5, <1>6 DEF ClientInv, ClientSound, MadeRequests, ConnectAnswers
  <2>7. \A u \in Client!Request : u > connects' => port'[u] = Client!NoPort
    BY <1>1, <2>2, <2>3 DEF ClientInv, ClientSound, MadeRequests
  <2> QED  BY <1>1, <2>5, <2>6, <2>7 DEF MadeRequests
<1>9. PortsOfCalls'
  <2>1. \A d \in calls : PortOfCall(d)' <=> PortOfCall(d)
    BY <1>1, <1>5 DEF PortOfCall
  <2>2. port[n] = Client!NoPort
    BY <1>2 DEF ClientInv, ClientSound, MadeRequests
  <2>3. PortOfCall(c)'
    BY <1>1, <1>2, <1>3, <2>2, PortStates DEF PortOfCall, ClientInv
  <2> QED  BY <1>1, <2>1, <2>3 DEF ClientInv, ClientSound, PortsOfCalls
<1>10. TtysLeft'
  <2>1. Client!TtysTaken' = Client!TtysTaken
    BY <1>1, <1>5, TtysTakenAre, TtysTakenNext DEF PortTtys, OpenTtys, AnsweredTtys
  <2>2. Pending' = Pending \cup {n} /\ n \notin Pending
    <3>1. PendingCalls' = PendingCalls \cup {c}
      BY <1>1, <1>3, <1>5, <1>6 DEF PendingCalls, ConnectAnswers
    <3>2. Pending' = Pending \cup {n}
      BY <1>3, <3>1 DEF Pending
    <3> QED  BY <1>6, <3>2 DEF Pending, PendingCalls
  <2>3. Cardinality(Pending') = Cardinality(Pending) + 1 /\ Cardinality(Pending) \in Nat
    BY <2>2, FewerPending, FS_AddElement DEF ClientInv, ClientSound
  <2>4. connects' - Cardinality(Pending') - 1 = connects - Cardinality(Pending) - 1
    BY <1>1, <1>2, <1>a, <2>3
  <2> QED  BY <2>1, <2>4 DEF ClientInv, ClientSound, TtysLeft
<1>11. PortsAreHeld'
  BY <1>1 DEF ClientInv, ClientSound, PortsAreHeld, Client!PortsAreHeld, Client!Holder
<1> QED  BY <1>1, <1>4, <1>7, <1>8, <1>9, <1>10, <1>11, SilentTells DEF ClientInv, ClientSound

(***************************************************************************)
(* Answers that are dispatched.                                            *)
(***************************************************************************)

TakesAnswer == client_inbox # <<>> /\ client_inbox' = Tail(client_inbox)
IsFor(msg, c) == c.id = msg.id /\ c.method = msg.method

LEMMA ReplyTaken ==
  ASSUME ClientInv, TakesAnswer
  PROVE  /\ Head(client_inbox) \in ClientReply /\ Head(client_inbox) \in Answers
         /\ client_inbox' \in Seq(ClientReply)
         /\ Answers' \subseteq Answers /\ ConnectAnswers' \subseteq ConnectAnswers
         /\ AnsweredTtys' \subseteq AnsweredTtys
         /\ ConnectAnswers \subseteq ConnectAnswers' \cup {Head(client_inbox)}
BY AnswerGoes DEF ClientInv, TakesAnswer, ConnectAnswers, AnsweredTtys

\* With the answer goes its call, if it has one.
LEMMA PendingAfter ==
  ASSUME ClientInv, TakesAnswer, calls' \subseteq calls,
         \A c \in calls' : ~IsFor(Head(client_inbox), c)
  PROVE  Pending' \subseteq Pending
<1> DEFINE msg == Head(client_inbox)
<1>1. /\ msg \in Answers /\ ConnectAnswers \subseteq ConnectAnswers' \cup {msg}
      /\ \A m \in ConnectAnswers : m.method = "Connect"
  BY ReplyTaken DEF ConnectAnswers
<1> HIDE DEF msg
<1>2. ASSUME NEW c \in calls', c \in PendingCalls', NEW m \in ConnectAnswers, m.id = c.id
      PROVE  FALSE
  <2>1. m = msg /\ msg.method = "Connect"
    BY <1>1, <1>2 DEF PendingCalls
  <2>2. c.method # "Connect" /\ c \in calls
    BY <1>2, <2>1 DEF msg, IsFor
  <2>3. Discovering(c)
    BY <2>2 DEF ClientInv, ClientTyped, ClientCall, Discovering
  <2> QED  BY <1>2, <2>2, <2>3 DEF ClientInv, ClientSound, MadeRequests
<1>3. PendingCalls' \subseteq PendingCalls
  BY <1>2 DEF PendingCalls
<1> QED  BY <1>3 DEF Pending

\* A reply that no call waits for.
LEMMA DroppedKeeps ==
  ASSUME ClientInv, TakesAnswer, \A c \in calls : ~IsFor(Head(client_inbox), c),
         UNCHANGED <<connecting_uuid, rfcomm_proxy, rfcomm_client, calls, port, client_open,
                     abandoned, hups, enabled, overlapped, connects, client_restarts>>,
         tells' = Client!Silent
  PROVE  ClientInv'
<1>1. /\ client_inbox' \in Seq(ClientReply) /\ Answers' \subseteq Answers
      /\ ConnectAnswers' \subseteq ConnectAnswers /\ AnsweredTtys' \subseteq AnsweredTtys
  BY ReplyTaken
<1>2. ClientTyped'
  BY <1>1 DEF ClientInv, ClientTyped
<1>3. SlotsOfCalls' /\ MadeRequests' /\ PortsOfCalls'
  BY <1>1 DEF ClientInv, ClientSound, SlotsOfCalls, MadeRequests, PortsOfCalls, PortOfCall
<1>4. TtysLeft'
  <2>1. PortTtys' = PortTtys /\ OpenTtys' = OpenTtys /\ Pending' \subseteq Pending
    BY PendingAfter DEF PortTtys, OpenTtys
  <2> QED  BY <1>1, <1>2, <2>1, TtysTakenAre, TtysTakenNext, TtysLeftKept
<1>5. PortsAreHeld'
  BY DEF ClientInv, ClientSound, PortsAreHeld, Client!PortsAreHeld, Client!Holder
<1> QED  BY <1>2, <1>3, <1>4, <1>5, SilentTells DEF ClientInv, ClientSound

\* A connect that is over, and told.
LEMMA ToldKeeps ==
  ASSUME ClientInv, TakesAnswer, NEW c \in calls, IsFor(Head(client_inbox), c),
         calls' = calls \ {c}, NEW ok, Client!Tell(c.id, ok),
         UNCHANGED <<port, enabled, overlapped, connects>>,
         OpenTtys' \subseteq OpenTtys \cup AnsweredTtys,
         ClientTyped', PortsAreHeld'
  PROVE  ClientInv'
<1>1. /\ Answers' \subseteq Answers /\ ConnectAnswers' \subseteq ConnectAnswers
      /\ AnsweredTtys' \subseteq AnsweredTtys
  BY ReplyTaken
<1>2. /\ tells' = [id |-> c.id, uuid |-> connecting_uuid, asked |-> c.id \in client_open, ok |-> ok]
      /\ connecting_uuid' = 0 /\ rfcomm_proxy' = 0 /\ client_open' = client_open \ {c.id}
  BY DEF Client!Tell
<1>3. c.id \in client_open /\ \A d \in calls' : d \in calls /\ d.id # c.id
  BY DEF ClientInv, ClientSound, SlotsOfCalls
<1>4. SlotsOfCalls'
  <2>1. \A d \in calls' : d.id # 0
    BY <1>3 DEF ClientInv, ClientTyped, ClientCall, Client!Request
  <2>2. \A id \in client_open' : id \in overlapped
    BY <1>2, <1>3 DEF ClientInv, ClientSound, SlotsOfCalls
  <2> QED  BY <1>2, <1>3, <2>1, <2>2 DEF ClientInv, ClientSound, SlotsOfCalls
<1>5. MadeRequests' /\ PortsOfCalls'
  BY <1>1, <1>2, <1>3 DEF ClientInv, ClientSound, MadeRequests, PortsOfCalls, PortOfCall
<1>6. TtysLeft'
  <2>1. PortTtys' = PortTtys
    BY DEF PortTtys
  <2>2. \A d \in calls' : ~IsFor(Head(client_inbox), d)
    BY <1>3 DEF IsFor
  <2>3. Pending' \subseteq Pending
    BY <2>2, PendingAfter
  <2> QED  BY <1>1, <2>1, <2>3, TtysTakenAre, TtysTakenNext, TtysLeftKept
<1>7. EventTellsItsConnect'
  BY <1>2, <1>3 DEF EventTellsItsConnect, Client!EventTellsItsConnect, ClientInv, ClientSound,
     SlotsOfCalls
<1> QED  BY <1>4, <1>5, <1>6, <1>7 DEF ClientInv, ClientSound

\* The services are found: Connect asks for the UUID of the slot, which is the call's own
\* unless connects overlap.
LEMMA FoundKeeps ==
  ASSUME ClientInv, TakesAnswer, NEW c \in calls, IsFor(Head(client_inbox), c),
         Discovering(c), Client!discover_services_cb(c, TRUE),
         UNCHANGED <<rfcomm_client, abandoned, hups, enabled, overlapped, connects,
                     client_restarts>>
  PROVE  ClientInv'
<1>a. PICK owns : owns = (enabled /\ connecting_uuid # 0 /\ port[connecting_uuid] = Client!NoPort)
  OBVIOUS
<1>b. PICK d : d = [id |-> c.id, method |-> "Connect", uuid |-> connecting_uuid, owns |-> owns]
  OBVIOUS
<1>1. /\ rfcomm_proxy' = c.id /\ calls' = (calls \ {c}) \cup {d}
      /\ port' = IF owns THEN [port EXCEPT ![connecting_uuid] = Client!Connecting] ELSE port
      /\ tells' = Client!Silent /\ UNCHANGED <<connecting_uuid, client_open>>
  BY <1>a, <1>b DEF Client!discover_services_cb
<1>2. /\ d.id = c.id /\ d.method = "Connect" /\ d.uuid = connecting_uuid /\ d.owns = owns
      /\ ~Discovering(d) /\ owns \in BOOLEAN
  BY <1>a, <1>b DEF Discovering
<1>3. /\ c \in ClientCall /\ c.id \in client_open /\ d \in ClientCall /\ c.id # 0
      /\ connecting_uuid # 0 => connecting_uuid \in Client!Request
  <2>1. c \in ClientCall /\ connecting_uuid \in 0..MaxConnects
    BY DEF ClientInv, ClientTyped
  <2> QED  BY <1>b, <1>2, <2>1 DEF ClientCall, ClientInv, ClientSound, SlotsOfCalls, Client!Request
<1>4. \A u \in Client!Request :
        \/ port'[u] = port[u] /\ ~(owns /\ u = connecting_uuid)
        \/ owns /\ enabled /\ u = connecting_uuid /\ port[u] = Client!NoPort /\ port'[u] = Client!Connecting
  BY <1>a, <1>1, <1>3 DEF ClientInv, ClientTyped
<1>5. \A u \in Client!Request : port'[u].state = "up" => port'[u] = port[u]
  BY <1>4, PortStates DEF ClientInv
<1>6. /\ client_inbox' \in Seq(ClientReply) /\ Answers' \subseteq Answers
      /\ ConnectAnswers' \subseteq ConnectAnswers /\ AnsweredTtys' \subseteq AnsweredTtys
  BY ReplyTaken
<1>7. ClientTyped'
  <2>1. port' \in [Client!Request -> ClientPort]
    BY <1>1 DEF ClientInv, ClientTyped, ClientPort
  <2>2. rfcomm_proxy' \in 0..MaxConnects
    BY <1>1, <1>3 DEF ClientCall, Client!Request
  <2> QED  BY <1>1, <1>3, <1>6, <2>1, <2>2 DEF ClientInv, ClientTyped
<1>8. \A e \in calls' : e = d \/ (e \in calls /\ e.id # c.id)
  BY <1>1 DEF ClientInv, ClientSound, SlotsOfCalls
<1>9. SlotsOfCalls'
  <2>1. \A e \in calls' : e.owns => e.uuid # 0 /\ ~Discovering(e)
    BY <1>a, <1>2, <1>8 DEF ClientInv, ClientSound, SlotsOfCalls
  <2> QED  BY <1>1, <1>2, <1>3, <1>8, <2>1 DEF ClientInv, ClientSound, SlotsOfCalls
<1>10. MadeRequests'
  <2>1. connecting_uuid =< connects
    <3>1. 0 =< connects
      BY DEF ClientInv, ClientTyped
    <3> QED  BY <3>1 DEF ClientInv, ClientSound, SlotsOfCalls, MadeRequests
  <2>2. \A u \in Client!Request : u > connects => port'[u] = Client!NoPort
    <3>1. connects \in Nat
      BY DEF ClientInv, ClientTyped
    <3> QED  BY <1>4, <2>1, <3>1 DEF ClientInv, ClientSound, MadeRequests, Client!Request
  <2>3. ~enabled => \A u \in Client!Request : port'[u] = Client!NoPort
    BY <1>4 DEF ClientInv, ClientSound, MadeRequests
  <2>4. \A e \in calls' : e.uuid =< connects
    BY <1>2, <1>8, <2>1 DEF ClientInv, ClientSound, MadeRequests
  <2>5. \A e \in calls' : Discovering(e) => \A m \in ConnectAnswers' : m.id # e.id
    BY <1>2, <1>6, <1>8 DEF ClientInv, ClientSound, MadeRequests
  <2> QED  BY <1>1, <1>6, <2>2, <2>3, <2>4, <2>5 DEF ClientInv, ClientSound, MadeRequests
<1>11. ASSUME connecting_uuid \in Client!Request \ overlapped PROVE c.id = connecting_uuid /\ c.uuid = connecting_uuid
  <2>1. connecting_uuid # 0
    BY <1>11 DEF Client!Request
  <2> QED  BY <1>3, <1>11, <2>1 DEF ClientInv, ClientSound, SlotsOfCalls
<1>12. PortsOfCalls'
  <2> SUFFICES ASSUME NEW e \in calls', e.uuid \in Client!Request \ overlapped PROVE PortOfCall(e)'
    BY DEF PortsOfCalls
  <2>1. CASE e = d
    <3>1. /\ c.id = connecting_uuid /\ c.uuid = connecting_uuid /\ PortOfCall(c)
          /\ d.uuid = connecting_uuid /\ connecting_uuid \in Client!Request
      BY <1>2, <1>11, <2>1 DEF ClientInv, ClientSound, PortsOfCalls
    <3>2. port[d.uuid] = Client!NoPort
      BY <3>1 DEF PortOfCall
    <3>3. port'[d.uuid].state # "up"
      BY <1>5, <3>1, <3>2, PortStates DEF ClientInv
    <3> QED  BY <1>2, <2>1, <3>1, <3>3 DEF PortOfCall
  <2>2. CASE e # d
    <3>1. e \in calls /\ e.id # c.id /\ PortOfCall(e)
      BY <1>8, <2>2 DEF ClientInv, ClientSound, PortsOfCalls
    <3>2. e.uuid # connecting_uuid
      BY <1>11, <3>1 DEF PortOfCall
    <3>3. port'[e.uuid] = port[e.uuid]
      BY <1>4, <3>2
    <3> QED  BY <1>6, <3>1, <3>3 DEF PortOfCall
  <2> QED  BY <2>1, <2>2
<1>13. TtysLeft'
  <2>1. PortTtys' \subseteq PortTtys /\ OpenTtys' = OpenTtys
    BY <1>5 DEF PortTtys, OpenTtys
  <2>2. \A m \in ConnectAnswers : m \in ConnectAnswers'
    <3>1. Head(client_inbox).method = "DiscoverServices"
      BY DEF IsFor, Discovering
    <3>2. \A m \in ConnectAnswers : m.method # "DiscoverServices"
      BY DEF ConnectAnswers
    <3> QED  BY <3>1, <3>2, ReplyTaken
  <2>3. c \in PendingCalls
    BY DEF ClientInv, ClientSound, MadeRequests, PendingCalls
  <2>4. ASSUME NEW e \in PendingCalls' PROVE e.id \in Pending
    <3>1. CASE e = d
      BY <1>2, <2>3, <3>1 DEF Pending
    <3>2. CASE e \in calls
      BY <2>2, <2>4, <3>2 DEF Pending, PendingCalls
    <3> QED  BY <1>8, <2>4, <3>1, <3>2 DEF PendingCalls
  <2>5. Pending' \subseteq Pending
    BY <2>4 DEF Pending
  <2> QED  BY <1>6, <1>7, <2>1, <2>5, TtysTakenAre, TtysTakenNext, TtysLeftKept
<1>14. PortsAreHeld'
  <2> SUFFICES ASSUME NEW u \in Client!Request \ (abandoned \cup overlapped), port'[u].state = "up"
               PROVE  \/ (Client!Holder(u) # {})'
                      \/ \E e \in calls' : e.method = "Connect" /\ e.uuid = u
    BY DEF PortsAreHeld, Client!PortsAreHeld
  <2>1. port'[u] = port[u]
    BY <1>5
  <2>2. Client!Holder(u)' = Client!Holder(u)
    BY <2>1 DEF Client!Holder
  <2>3. \A e \in calls : e.method = "Connect" => e \in calls'
    BY <1>1 DEF Discovering
  <2> QED  BY <2>1, <2>2, <2>3 DEF ClientInv, ClientSound, PortsAreHeld, Client!PortsAreHeld
<1> QED  BY <1>1, <1>7, <1>9, <1>10, <1>12, <1>13, <1>14, SilentTells DEF ClientInv, ClientSound

\* The services are not found.
LEMMA NotFoundKeeps ==
  ASSUME ClientInv, TakesAnswer, NEW c \in calls, IsFor(Head(client_inbox), c),
         Discovering(c), Client!discover_services_cb(c, FALSE),
         UNCHANGED <<rfcomm_client, abandoned, hups, enabled, overlapped, connects,
                     client_restarts>>
  PROVE  ClientInv'
<1>1. calls' = calls \ {c} /\ port' = port /\ Client!Tell(c.id, FALSE)
  BY DEF Client!discover_services_cb
<1>2. ClientTyped'
  <2>1. connecting_uuid' \in 0..MaxConnects /\ rfcomm_proxy' \in 0..MaxConnects
    BY <1>1 DEF Client!Tell, ClientInv, ClientTyped, Client!RfcommClientAssumption
  <2>2. client_open' \subseteq Client!Request
    BY <1>1 DEF Client!Tell, ClientInv, ClientTyped
  <2> QED  BY <1>1, <2>1, <2>2, ReplyTaken DEF ClientInv, ClientTyped
<1>3. PortsAreHeld'
  <2>1. \A d \in calls : d.method = "Connect" => d \in calls'
    BY <1>1 DEF Discovering
  <2>2. \A u \in Client!Request : Client!Holder(u)' = Client!Holder(u)
    BY <1>1 DEF Client!Holder
  <2> QED  BY <1>1, <2>1, <2>2 DEF ClientInv, ClientSound, PortsAreHeld, Client!PortsAreHeld
<1>4. OpenTtys' \subseteq OpenTtys \cup AnsweredTtys
  BY DEF OpenTtys
<1> QED  BY <1>1, <1>2, <1>3, <1>4, ToldKeeps

\* The port is connected or not: then the tty is opened, or the port is left to BlueZ.
LEMMA ClientConnectedKeeps ==
  ASSUME ClientInv, TakesAnswer, NEW c \in calls, IsFor(Head(client_inbox), c),
         c.method = "Connect",
         Client!client_connected_cb(c, Head(client_inbox).ok, Head(client_inbox).tty),
         UNCHANGED <<port, hups, enabled, overlapped, connects, client_restarts>>
  PROVE  ClientInv'
<1>a. PICK msg : msg = Head(client_inbox)
  OBVIOUS
<1>b. PICK tty : tty = msg.tty
  OBVIOUS
<1>1. /\ msg \in ClientReply /\ msg \in ConnectAnswers /\ msg.id = c.id
      /\ msg.ok \in BOOLEAN /\ tty \in 0..MaxConnects
  BY <1>a, <1>b, ReplyTaken DEF ConnectAnswers, IsFor, ClientReply
<1>2. PICK ok \in BOOLEAN : calls' = calls \ {c} /\ Client!Tell(c.id, ok)
  BY DEF Client!client_connected_cb
<1>3. \/ /\ msg.ok /\ tty < MaxConn
         /\ rfcomm_client' = [rfcomm_client EXCEPT ![tty] = c.id] /\ abandoned' = abandoned
      \/ /\ msg.ok /\ abandoned' = abandoned \cup Client!PortsOf(tty)
         /\ rfcomm_client' = rfcomm_client
      \/ /\ ~msg.ok /\ rfcomm_client' = rfcomm_client /\ abandoned' = abandoned
  BY <1>a, <1>b DEF Client!client_connected_cb, Client!InTable
<1>4. c.id \in Client!Request /\ c.id # 0
  BY DEF ClientInv, ClientTyped, ClientCall, Client!Request
<1>5. tty < MaxConn => tty \in Client!Index
  BY <1>1 DEF ClientInv, ClientTyped, Client!RfcommClientAssumption, Client!Index
<1>6. ClientTyped'
  <2>1. rfcomm_client' \in [Client!Index -> 0..MaxConnects]
    BY <1>3, <1>4 DEF ClientInv, ClientTyped, Client!Request
  <2>2. abandoned' \subseteq Client!Request
    BY <1>3 DEF ClientInv, ClientTyped, Client!PortsOf
  <2>3. connecting_uuid' \in 0..MaxConnects /\ rfcomm_proxy' \in 0..MaxConnects
    BY <1>2 DEF Client!Tell, ClientInv, ClientTyped, Client!RfcommClientAssumption
  <2>4. client_open' \subseteq Client!Request
    BY <1>2 DEF Client!Tell, ClientInv, ClientTyped
  <2> QED  BY <1>2, <2>1, <2>2, <2>3, <2>4, ReplyTaken DEF ClientInv, ClientTyped
<1>7. \A i \in Client!Index :
        \/ rfcomm_client'[i] = rfcomm_client[i]
        \/ msg.ok /\ i = tty /\ rfcomm_client'[i] = c.id
  BY <1>3, <1>5 DEF ClientInv, ClientTyped
<1>8. OpenTtys' \subseteq OpenTtys \cup AnsweredTtys
  BY <1>1, <1>b, <1>7 DEF OpenTtys, AnsweredTtys
<1>9. PortsAreHeld'
  <2> SUFFICES ASSUME NEW u \in Client!Request \ (abandoned' \cup overlapped), port[u].state = "up"
               PROVE  \/ (Client!Holder(u) # {})'
                      \/ \E e \in calls' : e.method = "Connect" /\ e.uuid = u
    BY DEF PortsAreHeld, Client!PortsAreHeld
  <2>1. u \notin abandoned
    BY <1>3
  <2>2. CASE Client!Holder(u) # {}
    <3>1. PICK i \in Client!Index : port[u] = Client!Up(i) /\ rfcomm_client[i] # 0
      BY <2>2 DEF Client!Holder
    <3>2. rfcomm_client'[i] # 0
      BY <1>4, <1>7, <3>1
    <3> QED  BY <3>1, <3>2 DEF Client!Holder
  <2>3. CASE \E e \in calls : e # c /\ e.method = "Connect" /\ e.uuid = u
    BY <1>2, <2>3
  <2>4. CASE c.uuid = u
    <3>1. PortOfCall(c)
      BY <2>4 DEF ClientInv, ClientSound, PortsOfCalls
    <3>2. msg.ok /\ port[u] = Client!Up(tty)
      BY <1>1, <1>b, <2>4, <3>1 DEF PortOfCall
    <3>3. u \in Client!PortsOf(tty)
      BY <3>2 DEF Client!PortsOf
    <3>4. tty \in Client!Index /\ rfcomm_client'[tty] = c.id
      BY <1>3, <1>5, <3>2, <3>3 DEF ClientInv, ClientTyped
    <3> QED  BY <1>4, <3>2, <3>4 DEF Client!Holder
  <2> QED  BY <2>1, <2>2, <2>3, <2>4 DEF ClientInv, ClientSound, PortsAreHeld, Client!PortsAreHeld
<1> QED  BY <1>2, <1>6, <1>8, <1>9, ToldKeeps

LEMMA DispatchKeeps == ASSUME ClientInv, Client!Dispatch PROVE ClientInv'
<1>a. PICK msg : msg = Head(client_inbox)
  OBVIOUS
<1>1. TakesAnswer /\ UNCHANGED <<hups, enabled, overlapped, connects, client_restarts>>
  BY DEF Client!Dispatch, TakesAnswer
<1>2. \/ /\ \A c \in calls : ~IsFor(msg, c)
         /\ tells' = Client!Silent
         /\ UNCHANGED <<connecting_uuid, rfcomm_proxy, rfcomm_client, calls, port, client_open,
                        abandoned>>
      \/ \E c \in calls :
           /\ IsFor(msg, c) /\ msg.method = "DiscoverServices"
           /\ Client!discover_services_cb(c, msg.ok) /\ UNCHANGED <<rfcomm_client, abandoned>>
      \/ \E c \in calls :
           /\ IsFor(msg, c) /\ msg.method = "Connect"
           /\ Client!client_connected_cb(c, msg.ok, msg.tty) /\ UNCHANGED port
  BY <1>a DEF Client!Dispatch, IsFor
<1>3. msg.ok \in BOOLEAN
  BY <1>a, <1>1, ReplyTaken DEF ClientReply
<1>4. CASE \A c \in calls : ~IsFor(msg, c)
  BY <1>a, <1>1, <1>2, <1>4, DroppedKeeps
<1>5. ASSUME NEW c \in calls, IsFor(msg, c), msg.method = "DiscoverServices",
             Client!discover_services_cb(c, msg.ok), UNCHANGED <<rfcomm_client, abandoned>>
      PROVE  ClientInv'
  <2>1. Discovering(c)
    BY <1>5 DEF Discovering, IsFor
  <2>2. CASE msg.ok = TRUE
    BY <1>a, <1>1, <1>5, <2>1, <2>2, FoundKeeps
  <2>3. CASE msg.ok = FALSE
    BY <1>a, <1>1, <1>5, <2>1, <2>3, NotFoundKeeps
  <2> QED  BY <1>3, <2>2, <2>3
<1>6. ASSUME NEW c \in calls, IsFor(msg, c), msg.method = "Connect",
             Client!client_connected_cb(c, msg.ok, msg.tty), UNCHANGED port
      PROVE  ClientInv'
  <2>1. c.method = "Connect"
    BY <1>6 DEF IsFor
  <2> QED  BY <1>a, <1>1, <1>6, <2>1, ClientConnectedKeeps
<1> QED  BY <1>2, <1>4, <1>5, <1>6

(***************************************************************************)
(* The client gives up.                                                    *)
(***************************************************************************)

\* The connect that is cancelled takes its call and its port with it.
LEMMA ClientCancelKeeps == ASSUME ClientInv, Client!CancelConnect PROVE ClientInv'
<1>a. PICK u : u = connecting_uuid
  OBVIOUS
<1>b. PICK id : id = rfcomm_proxy
  OBVIOUS
<1>1. /\ enabled /\ id # 0 /\ u # 0 /\ port' = [port EXCEPT ![u] = Client!NoPort]
      /\ hups' = hups \cup Client!Holder(u) /\ connecting_uuid' = 0 /\ rfcomm_proxy' = 0
      /\ calls' = {c \in calls : ~(c.id = id /\ c.method = "Connect")}
      /\ client_open' = client_open \ {id} /\ tells' = Client!Silent
      /\ UNCHANGED <<rfcomm_client, client_inbox, enabled, overlapped, abandoned, connects,
                     client_restarts>>
  BY <1>a, <1>b DEF Client!CancelConnect, Client!cancel_connecting
<1>2. u \in Client!Request /\ id \in client_open /\ u \in client_open
  BY <1>a, <1>b, <1>1 DEF ClientInv, ClientTyped, ClientSound, SlotsOfCalls, Client!Request
<1>3. \A v \in Client!Request : port'[v] = IF v = u THEN Client!NoPort ELSE port[v]
  BY <1>1 DEF ClientInv, ClientTyped
<1>4. \A v \in Client!Request : port'[v].state = "up" => v # u /\ port'[v] = port[v]
  BY <1>3, PortStates DEF ClientInv
<1>5. ClientTyped'
  <2>1. port' \in [Client!Request -> ClientPort]
    BY <1>1 DEF ClientInv, ClientTyped, ClientPort
  <2>2. connecting_uuid' \in 0..MaxConnects /\ rfcomm_proxy' \in 0..MaxConnects
    BY <1>1 DEF ClientInv, ClientTyped, Client!RfcommClientAssumption
  <2>3. hups' \subseteq Client!Request
    BY <1>1, <1>2, HolderIsRequest DEF ClientInv, ClientTyped
  <2> QED  BY <1>1, <2>1, <2>2, <2>3 DEF ClientInv, ClientTyped
<1>6. Answers' = Answers /\ ConnectAnswers' = ConnectAnswers
  BY <1>1 DEF Answers, ConnectAnswers
\* No call of the connect is left: its other call would be one that discovers.
<1>7. \A c \in calls' : c \in calls /\ c.id # id /\ c.id # 0
  <2>1. \A c \in calls : c.method = "Connect" \/ Discovering(c)
    BY DEF ClientInv, ClientTyped, ClientCall, Discovering
  <2>2. \A c \in calls : c.id # 0
    BY DEF ClientInv, ClientTyped, ClientCall, Client!Request
  <2> QED  BY <1>b, <1>1, <2>1, <2>2 DEF ClientInv, ClientSound, SlotsOfCalls
<1>8. SlotsOfCalls'
  <2>1. \A x \in client_open' : x \in overlapped
    BY <1>1, <1>2 DEF ClientInv, ClientSound, SlotsOfCalls
  <2> QED  BY <1>1, <1>7, <2>1 DEF ClientInv, ClientSound, SlotsOfCalls
<1>9. MadeRequests'
  BY <1>1, <1>3, <1>6 DEF ClientInv, ClientSound, MadeRequests
<1>10. PortsOfCalls'
  <2> SUFFICES ASSUME NEW c \in calls', c.uuid \in Client!Request \ overlapped PROVE PortOfCall(c)'
    BY <1>1 DEF PortsOfCalls
  <2>1. PortOfCall(c)
    BY <1>7 DEF ClientInv, ClientSound, PortsOfCalls
  <2>2. \/ port'[c.uuid] = port[c.uuid]
        \/ port'[c.uuid] = Client!NoPort /\ port'[c.uuid].state # "up"
    BY <1>3, <1>4
  <2> QED  BY <1>6, <2>1, <2>2 DEF PortOfCall
<1>11. TtysLeft'
  <2>1. PortTtys' \subseteq PortTtys /\ OpenTtys' = OpenTtys /\ AnsweredTtys' = AnsweredTtys
    BY <1>1, <1>4, <1>6 DEF PortTtys, OpenTtys, AnsweredTtys
  <2>2. Pending' \subseteq Pending
    BY <1>6, <1>7 DEF Pending, PendingCalls
  <2> QED  BY <1>1, <1>5, <2>1, <2>2, TtysTakenAre, TtysTakenNext, TtysLeftKept
<1>12. PortsAreHeld'
  <2> SUFFICES ASSUME NEW v \in Client!Request \ (abandoned \cup overlapped), port'[v].state = "up"
               PROVE  \/ (Client!Holder(v) # {})'
                      \/ \E e \in calls' : e.method = "Connect" /\ e.uuid = v
    BY <1>1 DEF PortsAreHeld, Client!PortsAreHeld
  <2>1. v # u /\ port'[v] = port[v]
    BY <1>4
  <2>2. Client!Holder(v)' = Client!Holder(v)
    BY <1>1, <2>1 DEF Client!Holder
  <2>3. ASSUME NEW e \in calls, e.method = "Connect", e.uuid = v PROVE e \in calls'
    <3>1. e.id = v
      BY <2>3 DEF ClientInv, ClientSound, PortsOfCalls, PortOfCall
    <3>2. id \notin overlapped => id = u
      BY <1>a, <1>2 DEF ClientInv, ClientSound, SlotsOfCalls
    <3> QED  BY <1>1, <2>1, <3>1, <3>2
  <2> QED  BY <2>1, <2>2, <2>3 DEF ClientInv, ClientSound, PortsAreHeld, Client!PortsAreHeld
<1> QED  BY <1>1, <1>5, <1>8, <1>9, <1>10, <1>11, <1>12, SilentTells DEF ClientInv, ClientSound

\* A tty is closed when its port is given up, or has gone with the adapter.
LEMMA ClosedKeeps ==
  ASSUME ClientInv, NEW i \in Client!Index,
         \/ Client!bluetooth_rfcomm_disconnect(i) \/ Client!client_data_received_cb(i)
  PROVE  ClientInv'
<1>1. /\ port' = Client!PortsAfter(i) \/ (~enabled /\ port' = port)
      /\ rfcomm_client' = [rfcomm_client EXCEPT ![i] = 0] /\ hups' \subseteq hups
      /\ tells' = Client!Silent
      /\ UNCHANGED <<connecting_uuid, rfcomm_proxy, calls, client_inbox, enabled, client_open,
                     overlapped, abandoned, connects, client_restarts>>
  BY DEF Client!bluetooth_rfcomm_disconnect, Client!client_data_received_cb, Client!Close
<1>2. \A v \in Client!Request :
        \/ port'[v] = port[v] /\ port[v] # Client!Up(i)
        \/ port'[v] = Client!NoPort
  <2>1. CASE port' = Client!PortsAfter(i)
    BY <2>1 DEF Client!PortsAfter
  <2>2. CASE ~enabled /\ port' = port
    BY <2>2 DEF ClientInv, ClientSound, MadeRequests
  <2> QED  BY <1>1, <2>1, <2>2
<1>3. \A j \in Client!Index : rfcomm_client'[j] = IF j = i THEN 0 ELSE rfcomm_client[j]
  BY <1>1 DEF ClientInv, ClientTyped
<1>4. ClientTyped'
  <2>1. port' \in [Client!Request -> ClientPort]
    BY <1>1 DEF ClientInv, ClientTyped, ClientPort, Client!PortsAfter
  <2>2. rfcomm_client' \in [Client!Index -> 0..MaxConnects]
    BY <1>1 DEF ClientInv, ClientTyped, Client!RfcommClientAssumption
  <2> QED  BY <1>1, <2>1, <2>2 DEF ClientInv, ClientTyped
<1>5. OpenTtys' \subseteq OpenTtys
  BY <1>3 DEF OpenTtys
<1>6. ASSUME NEW v \in Client!Request, port'[v].state = "up"
      PROVE  Client!Holder(v) # {} => Client!Holder(v)' # {}
  <2>1. port'[v] = port[v] /\ port[v] # Client!Up(i)
    BY <1>2, <1>6, PortStates DEF ClientInv
  <2>2. \A j \in Client!Index : port[v] = Client!Up(j) => j # i
    BY <2>1
  <2> QED  BY <1>3, <2>1, <2>2 DEF Client!Holder
<1>7. ~enabled' => \A v \in Client!Request : port'[v] = Client!NoPort
  BY <1>1, <1>2 DEF ClientInv, ClientSound, MadeRequests
<1> QED  BY <1>1, <1>2, <1>4, <1>5, <1>6, <1>7, PortsGo

LEMMA ClientNextInv == ClientInv /\ [SumNext]_sumVars => ClientInv'
<1> SUFFICES ASSUME ClientInv, [SumNext]_sumVars PROVE ClientInv'
  OBVIOUS
<1>1. CASE Client!Next
  BY <1>1, ServicesKeeps, PortConnectedKeeps, PortLostKeeps, ClientAdapterKeeps, ClientConnectKeeps,
     DispatchKeeps, ClientCancelKeeps, ClosedKeeps DEF Client!Next
<1>2. CASE UNCHANGED clientVars
  <2>1. Answers' = Answers /\ ConnectAnswers' = ConnectAnswers
    BY <1>2 DEF clientVars, Answers, ConnectAnswers
  <2>2. ClientTyped' /\ SlotsOfCalls' /\ MadeRequests'
    BY <1>2, <2>1 DEF clientVars, ClientInv, ClientTyped, ClientSound, SlotsOfCalls, MadeRequests
  <2>3. PortsOfCalls'
    BY <1>2, <2>1 DEF clientVars, ClientInv, ClientSound, PortsOfCalls, PortOfCall
  <2>4. TtysLeft'
    BY <1>2, <2>1, TtysTakenAre, TtysTakenNext DEF clientVars, ClientInv, ClientSound, TtysLeft,
       Pending, PendingCalls, PortTtys, OpenTtys, AnsweredTtys
  <2>5. EventTellsItsConnect' /\ PortsAreHeld'
    BY <1>2 DEF clientVars, ClientInv, ClientSound, EventTellsItsConnect,
       Client!EventTellsItsConnect, PortsAreHeld, Client!PortsAreHeld, Client!Holder
  <2> QED  BY <2>2, <2>3, <2>4, <2>5 DEF ClientInv, ClientSound
<1> QED  BY <1>1, <1>2 DEF SumNext, sumVars

\* However connects are made, answered, cancelled and overtaken by the adapter, an event
\* tells of the connect it is for, unless connects overlap.
THEOREM EventsTellTheirConnect == SumSpec => []EventTellsItsConnect
<1>1. SumInit => ClientInv
  BY ClientInitInv, TransportsAssumption DEF SumInit
<1>2. ClientInv => EventTellsItsConnect
  BY DEF ClientInv, ClientSound
<1> QED  BY <1>1, <1>2, ClientNextInv, PTL DEF SumSpec

\* No port is kept in BlueZ that no tty and no call of the library is for.
THEOREM PortsAreAlwaysHeld == SumSpec => []PortsAreHeld
<1>1. SumInit => ClientInv
  BY ClientInitInv, TransportsAssumption DEF SumInit
<1>2. ClientInv => PortsAreHeld
  BY DEF ClientInv, ClientSound
<1> QED  BY <1>1, <1>2, ClientNextInv, PTL DEF SumSpec
(***************************************************************************)
(* The types of the three components.                                      *)
(***************************************************************************)

\* The variables of the server that its invariant does not need.
ServerRest ==
  /\ bound \in [Server!Fd -> Server!Name \cup {Server!NoName}]
  /\ ended \in Server!Fd \cup {0, -1} /\ hci0 \in BOOLEAN /\ link \subseteq proxies
  /\ backlog \in [Server!Fd -> Seq({"live", "dead"})] /\ alive \subseteq Server!Fd
  /\ connections \in 0..MaxConnections /\ server_restarts \in 0..MaxRestarts
  /\ faults \in 0..MaxFaults /\ stale \in BOOLEAN

LEMMA ServerCallTypes ==
  ASSUME ServerInv, ServerRest, Server!ServerCall PROVE ServerRest'
<1>1. CASE Server!bluetooth_rfcomm_create_socket
  <2>1. Server!NewName \in Server!Name
    BY <1>1, FreeIndexIsFree DEF ServerInv, Server!bluetooth_rfcomm_create_socket
  <2>2. bound' \in [Server!Fd -> Server!Name \cup {Server!NoName}] /\ stale' \in BOOLEAN
    BY <1>1, <2>1 DEF Server!bluetooth_rfcomm_create_socket, ServerRest
  <2> QED  BY <1>1, <2>2 DEF Server!bluetooth_rfcomm_create_socket, ServerRest, Server!boundVars
<1>2. CASE Server!EnableFails
  BY <1>2 DEF Server!EnableFails, ServerRest, ServerInv, ServerTyped, Server!RfcommServerAssumption
<1>3. CASE \E x \in sockets : Server!bluetooth_rfcomm_listen(x[1])
  BY <1>3 DEF Server!bluetooth_rfcomm_listen, ServerRest, Server!bluezVars, Server!countVars,
     Server!boundVars
<1>4. ASSUME NEW x \in sockets, Server!bluetooth_rfcomm_remove_socket(x[1]) PROVE ServerRest'
  <2> DEFINE i == Server!index_from_socket(x[1])
  <2>1. i \in Server!Slot /\ x[1] \in Server!Fd
    BY <1>4, IndexInSlot DEF Server!bluetooth_rfcomm_remove_socket, Server!CanRemove, ServerInv,
       ServerTyped
  <2>2. /\ ended' = rfcomm_server[i].client_sock_fd
        /\ bound' = [bound EXCEPT ![x[1]] = Server!NoName]
        /\ backlog' = [backlog EXCEPT ![x[1]] = <<>>] /\ alive' \subseteq alive
        /\ \E n : proxies' = proxies \ {n} /\ link' = link \ {n}
        /\ UNCHANGED <<hci0, connections, server_restarts, faults, stale>>
    BY <1>4 DEF Server!bluetooth_rfcomm_remove_socket, Server!RemoveProxy, Server!countVars,
       Server!boundVars
  <2> HIDE DEF i
  <2>3. ended' \in Server!Fd \cup {0, -1}
    BY <2>1, <2>2 DEF ServerInv, ServerTyped, SlotRecord
  <2>4. bound' \in [Server!Fd -> Server!Name \cup {Server!NoName}]
    BY <2>2 DEF ServerRest
  <2>5. backlog' \in [Server!Fd -> Seq({"live", "dead"})]
    <3>1. <<>> \in Seq({"live", "dead"})
      OBVIOUS
    <3> QED  BY <2>2, <3>1 DEF ServerRest
  <2> QED  BY <2>2, <2>3, <2>4, <2>5 DEF ServerRest
<1>5. ASSUME NEW fd \in told, NEW event \in BOOLEAN,
             Server!bluetooth_rfcomm_server_disconnect(fd, event)
      PROVE  ServerRest'
  <2>1. /\ alive' \subseteq alive /\ ended' \in {fd, 0}
        /\ UNCHANGED <<bound, hci0, proxies, link, backlog, connections, server_restarts, faults,
                       stale>>
    BY <1>5 DEF Server!bluetooth_rfcomm_server_disconnect, Server!CloseClient, Server!countVars,
       Server!boundVars
  <2> QED  BY <2>1 DEF ServerRest, ServerInv, ServerTyped
<1> QED  BY <1>1, <1>2, <1>3, <1>4, <1>5 DEF Server!ServerCall

LEMMA ServerLoopTypes ==
  ASSUME ServerInv, ServerRest, Server!MainLoop PROVE ServerRest'
<1>1. ASSUME NEW fd \in Server!Fd, Server!server_connected_cb(fd) PROVE ServerRest'
  <2>1. Server!NextFd \in Server!Fd
    BY <1>1, NextFdIsFree DEF Server!server_connected_cb
  <2>2. backlog[fd] \in Seq({"live", "dead"}) /\ backlog[fd] # <<>>
    BY <1>1 DEF Server!server_connected_cb, ServerRest
  <2>3. Tail(backlog[fd]) \in Seq({"live", "dead"}) /\ <<>> \in Seq({"live", "dead"})
    BY <2>2
  <2>4. /\ backlog' \in [Server!Fd -> Seq({"live", "dead"})]
        /\ bound' \in [Server!Fd -> Server!Name \cup {Server!NoName}]
        /\ stale' \in BOOLEAN
    BY <1>1, <2>3 DEF Server!server_connected_cb, ServerRest
  <2>5. alive' \subseteq Server!Fd
    BY <1>1, <2>1 DEF Server!server_connected_cb, ServerRest
  <2> QED
    BY <1>1, <2>4, <2>5 DEF Server!server_connected_cb, ServerRest, Server!boundVars
<1>2. ASSUME NEW w \in watches, Server!server_data_received_cb(w[1], w[2]) PROVE ServerRest'
  <2>1. /\ alive' \subseteq alive
        /\ ended' = 0 \/ ended' = rfcomm_server[w[2]].client_sock_fd
        /\ stale' = stale \/ stale' \in BOOLEAN
        /\ UNCHANGED <<bound, hci0, proxies, link, backlog, connections, server_restarts, faults>>
    BY <1>2 DEF Server!server_data_received_cb, Server!CloseClient, Server!boundVars
  <2>2. rfcomm_server[w[2]].client_sock_fd \in Server!Fd \cup {0, -1}
    BY DEF ServerInv, ServerTyped, SlotRecord
  <2> QED  BY <2>1, <2>2 DEF ServerRest
<1> QED  BY <1>1, <1>2 DEF Server!MainLoop

LEMMA ServerBluezTypes ==
  ASSUME ServerInv, ServerRest, Server!Bluez PROVE ServerRest'
<1>1. ASSUME NEW N, Server!Drop(N)
      PROVE  /\ link' \subseteq link \ N /\ alive' \subseteq alive
             /\ backlog' \in [Server!Fd -> Seq({"live", "dead"})]
  <2>1. ASSUME NEW f \in Server!Fd PROVE [j \in DOMAIN backlog[f] |-> "dead"] \in Seq({"live", "dead"})
    <3>1. backlog[f] \in Seq({"live", "dead"})
      BY DEF ServerRest
    <3> QED  BY <3>1
  <2> QED  BY <1>1, <2>1 DEF Server!Drop, ServerRest
<1>2. ASSUME NEW fd \in Server!Fd, Server!RemoteConnects(fd) PROVE ServerRest'
  <2>1. Append(backlog[fd], "live") \in Seq({"live", "dead"})
    <3>1. backlog[fd] \in Seq({"live", "dead"})
      BY DEF ServerRest
    <3> QED  BY <3>1
  <2>2. backlog' \in [Server!Fd -> Seq({"live", "dead"})]
    BY <1>2, <2>1 DEF Server!RemoteConnects, ServerRest
  <2>3. connections' \in 0..MaxConnections
    BY <1>2 DEF Server!RemoteConnects, ServerRest, ServerInv, ServerTyped,
       Server!RfcommServerAssumption
  <2> QED  BY <1>2, <2>2, <2>3 DEF Server!RemoteConnects, ServerRest, Server!libVars
<1>3. ASSUME NEW n \in Server!Name, Server!RemoteDrops(n) PROVE ServerRest'
  BY <1>1, <1>3 DEF Server!RemoteDrops, ServerRest, Server!libVars, Server!countVars,
     Server!boundVars
<1>4. CASE Server!AdapterGoes
  <2>1. server_restarts' \in 0..MaxRestarts
    BY <1>4 DEF Server!AdapterGoes, ServerRest, ServerInv, ServerTyped,
       Server!RfcommServerAssumption
  <2>2. link \subseteq Server!Name
    BY DEF ServerRest, ServerInv, ServerTyped
  <2>3. link' \subseteq link \ Server!Name
    BY <1>1, <1>4 DEF Server!AdapterGoes
  <2> QED
    BY <1>1, <1>4, <2>1, <2>2, <2>3 DEF Server!AdapterGoes, ServerRest, Server!libVars
<1>5. CASE Server!AdapterAppears
  BY <1>5 DEF Server!AdapterAppears, ServerRest, Server!libVars, Server!countVars,
     Server!boundVars
<1> QED  BY <1>2, <1>3, <1>4, <1>5 DEF Server!Bluez

LEMMA ServerTypesNext == ServerInv /\ ServerRest /\ [SumNext]_sumVars => ServerRest'
<1> SUFFICES ASSUME ServerInv, ServerRest, [SumNext]_sumVars PROVE ServerRest'
  OBVIOUS
<1>1. CASE Server!Next
  BY <1>1, ServerCallTypes, ServerLoopTypes, ServerBluezTypes DEF Server!Next
<1>2. CASE UNCHANGED serverVars
  BY <1>2 DEF serverVars, ServerRest
<1> QED  BY <1>1, <1>2 DEF SumNext, sumVars

\* The variables of the three components have their types, whatever the bounds.
THEOREM SumTypesCorrect == SumSpec => []SumTypeOK
<1> DEFINE Inv == IInv /\ ServerInv /\ ServerRest /\ ClientInv
<1>1. SumInit => Inv
  <2> SUFFICES ASSUME SumInit PROVE Inv
    OBVIOUS
  <2>1. ServerRest
    <3>1. /\ MaxConnections \in Nat /\ MaxRestarts \in Nat /\ MaxFaults \in Nat
          /\ <<>> \in Seq({"live", "dead"})
      BY TransportsAssumption DEF Server!RfcommServerAssumption
    <3>2. Server!Init
      BY DEF SumInit
    <3>3. /\ backlog \in [Server!Fd -> Seq({"live", "dead"})]
          /\ bound \in [Server!Fd -> Server!Name \cup {Server!NoName}]
      BY <3>1, <3>2 DEF Server!Init
    <3>4. /\ connections \in 0..MaxConnections /\ server_restarts \in 0..MaxRestarts
          /\ faults \in 0..MaxFaults
      BY <3>1, <3>2 DEF Server!Init
    <3> QED  BY <3>2, <3>3, <3>4 DEF Server!Init, ServerRest
  <2> QED  BY <2>1, InitInv, ServerInitInv, ClientInitInv, TransportsAssumption DEF SumInit
<1>2. Inv /\ [SumNext]_sumVars => Inv'
  <2> SUFFICES ASSUME Inv, [SumNext]_sumVars PROVE Inv'
    OBVIOUS
  <2>1. [Next]_vars
    BY DEF SumNext, sumVars
  <2> QED  BY <2>1, NextInv, ServerNextInv, ServerTypesNext, ClientNextInv
<1>3. Inv => SumTypeOK
  <2> SUFFICES ASSUME Inv PROVE SumTypeOK
    OBVIOUS
  <2>1. TypeOK
    BY DEF IInv
  <2>2. Server!TypeOK
    BY DEF ServerInv, ServerTyped, ServerRest, SlotRecord, Server!TypeOK
  <2>3. Client!TypeOK
    BY DEF ClientInv, ClientTyped, ClientCall, ClientPort, Client!TypeOK
  <2> QED  BY <2>1, <2>2, <2>3 DEF SumTypeOK
<1> HIDE DEF Inv
<1> QED  BY <1>1, <1>2, <1>3, PTL DEF SumSpec
=============================================================================
