-------------------------- MODULE MCHandsFree_proof --------------------------
(***************************************************************************)
(* The hands-free agent and the telephony library, for all battery levels, *)
(* any number of changes, calls, headsets, operations, requests and        *)
(* restarts of BlueZ.                                                      *)
(*                                                                         *)
(* HfpStatus.  StatusFollows speaks of the moments at which the main loop  *)
(* is idle.  Told, its strengthening, speaks of every moment: a property   *)
(* that main has sent since it started is right, or its change waits as a  *)
(* notice, or it is among the missed or the unsent ones.                   *)
(*                                                                         *)
(* Telephony, the calls.  CountIsExplained speaks of the moments between   *)
(* two operations.  CountInv speaks of every moment: it counts, beside the *)
(* difference, the requests still in the agent's queue that the            *)
(* application has given up (Late), and says that the application waits    *)
(* for exactly one request, of the kind its operation sends (Pending);     *)
(* otherwise a reply could be taken for that of another request.           *)
(*                                                                         *)
(* Telephony, the headset.  HeadsetStateFollows speaks of the moments at   *)
(* which no signal waits.  Follows speaks of every moment: the last signal *)
(* of the headset that waits, if BlueZ has not restarted since, says how   *)
(* the headset is; and when none waits, headset_state is already right.    *)
(* Session says when the library hears signals at all.                     *)
(***************************************************************************)
EXTENDS MCHandsFree, Queues, FiniteSetTheorems, TLAPS

(***************************************************************************)
(* HfpStatus: what BlueZ is told.                                          *)
(***************************************************************************)

\* The place of a property in the order of sending.
Place(p) == CASE p = "BatteryBars" -> 1 [] p = "SignalBars" -> 2 [] p = "Registration" -> 3

StatusTyped ==
  /\ DOMAIN vconf = Key /\ vconf = [key \in Key |-> vconf[key]]
  /\ notices \subseteq Key /\ step \in 0..6
  /\ DOMAIN sent = Property /\ sent = [p \in Property |-> sent[p]]
  /\ missed \subseteq Property /\ unsent \subseteq Property /\ deaf \subseteq Key

Told ==
  \A p \in Property :
    step >= Place(p) /\ p \notin missed \cup unsent /\ (\A key \in notices : Tells(key) # p)
    => sent[p] = ValueOf(p)

\* Main subscribes to one key after the other, and goes on when that fails.
Subscribing == \A i \in 1..3 : step >= i + 3 => Subscriptions[i] \in subscribed \cup deaf

StatusInv == StatusTyped /\ Told /\ Subscribing

\* What the agent does not subscribe to is the roaming key, and what it could not.
LEMMA AllSubscribed ==
  ASSUME StatusInv, NEW key \in Key, key \notin subscribed
  PROVE  step < 6 \/ key \in deaf \cup {"roam"}
BY DEF StatusInv, StatusTyped, Subscribing, Subscriptions, Key

\* A key tells of one property, and the others do not look at it.
LEMMA OneProperty ==
  ASSUME StatusTyped, NEW key \in Key, NEW v, vconf' = [vconf EXCEPT ![key] = v],
         NEW p \in Property, p # Tells(key)
  PROVE  ValueOf(p)' = ValueOf(p)
<1>1. CASE key = "battery"
  BY <1>1 DEF StatusTyped, Key, Property, Tells, ValueOf
<1>2. CASE key = "rssi"
  BY <1>2 DEF StatusTyped, Key, Property, Tells, ValueOf
<1>3. CASE key = "service" \/ key = "roam"
  BY <1>3 DEF StatusTyped, Key, Property, Tells, ValueOf
<1> QED  BY <1>1, <1>2, <1>3 DEF Key

LEMMA TellsProperty == \A key \in Key : Tells(key) \in Property
BY DEF Key, Property, Tells

\* Sending one property makes it right or is known to have failed, and disturbs no other.
SentOnly(q) ==
  /\ q \in unsent' \/ sent'[q] = ValueOf(q)'
  /\ \A p \in Property \ {q} :
       /\ sent'[p] = sent[p] /\ ValueOf(p)' = ValueOf(p)
       /\ p \in missed' \cup unsent' <=> p \in missed \cup unsent
  /\ DOMAIN sent' = Property /\ sent' = [p \in Property |-> sent'[p]]
  /\ missed' \subseteq Property /\ unsent' \subseteq Property /\ deaf' = deaf

LEMMA SentIsTrue ==
  ASSUME StatusInv, NEW q \in Property, send_changed(q), UNCHANGED vconf
  PROVE  SentOnly(q)
<1>1. \A p \in Property : ValueOf(p)' = ValueOf(p)
  BY DEF ValueOf
<1>2. /\ missed \subseteq Property /\ unsent \subseteq Property
      /\ DOMAIN sent = Property /\ sent = [p \in Property |-> sent[p]]
  BY DEF StatusInv, StatusTyped
<1>3. PICK value : value = ValueOf(q)
  OBVIOUS
<1>4. CASE /\ sent' = [sent EXCEPT ![q] = value]
           /\ missed' = missed \ {q} /\ unsent' = unsent \ {q} /\ deaf' = deaf
  BY <1>1, <1>2, <1>3, <1>4 DEF SentOnly
<1>5. CASE /\ sent' = [sent EXCEPT ![q] = value] \/ sent' = sent
           /\ missed' = missed /\ unsent' = unsent \cup {q} /\ deaf' = deaf
  BY <1>1, <1>2, <1>3, <1>5 DEF SentOnly
<1> QED  BY <1>3, <1>4, <1>5 DEF send_changed

LEMMA ChangeIsNoticed ==
  ASSUME StatusInv, NEW key \in Key, NEW v \in Values(key), Change(key, v)
  PROVE  StatusInv'
<1>1. StatusTyped'
  BY TellsProperty DEF StatusInv, StatusTyped, Change
<1>2. SUFFICES ASSUME NEW p \in Property, step' >= Place(p), p \notin (missed \cup unsent)',
                      \A k \in notices' : Tells(k) # p
               PROVE  sent'[p] = ValueOf(p)'
  <2>1. Subscribing'
    BY DEF StatusInv, Subscribing, Change
  <2> QED  BY <1>1, <2>1 DEF StatusInv, Told
<1>3. p # Tells(key)
  BY <1>2, AllSubscribed DEF Change
<1>4. ValueOf(p)' = ValueOf(p)
  BY <1>3, OneProperty DEF StatusInv, Change
<1>5. p \notin missed \cup unsent /\ \A k \in notices : Tells(k) # p
  BY <1>2 DEF Change
<1> QED  BY <1>2, <1>4, <1>5 DEF StatusInv, Told, Change

LEMMA MainSends == ASSUME StatusInv, send_vconf_values PROVE StatusInv'
<1>1. PICK q \in Property : q = Order[step + 1]
  BY DEF send_vconf_values, StatusInv, StatusTyped, Order, Property
<1>2. Place(q) = step + 1 /\ step' = step + 1 /\ step \in 0..2
  BY <1>1 DEF send_vconf_values, StatusInv, StatusTyped, Order, Place
<1>3. SentOnly(q)
  BY <1>1, SentIsTrue DEF send_vconf_values
<1>4. StatusTyped'
  BY <1>2, <1>3 DEF StatusInv, StatusTyped, send_vconf_values, SentOnly
<1>5. ASSUME NEW p \in Property, step' >= Place(p), p # q
      PROVE  step >= Place(p)
  BY <1>1, <1>2, <1>5 DEF Property, Place, Order
<1>6. Told'
  BY <1>3, <1>5 DEF StatusInv, Told, send_vconf_values, SentOnly
<1>7. Subscribing'
  BY <1>2 DEF Subscribing
<1> QED  BY <1>4, <1>6, <1>7 DEF StatusInv

LEMMA CallbackSends ==
  ASSUME StatusInv, NEW key \in Key, vconf_cb(key)
  PROVE  StatusInv'
<1> DEFINE q == Tells(key)
<1>1. SentOnly(q)
  BY TellsProperty, SentIsTrue DEF vconf_cb
<1>2. StatusTyped'
  BY <1>1 DEF StatusInv, StatusTyped, vconf_cb, SentOnly
<1>3. Told'
  BY <1>1 DEF StatusInv, Told, vconf_cb, SentOnly
<1>4. Subscribing'
  BY <1>1 DEF StatusInv, Subscribing, vconf_cb, SentOnly
<1> QED  BY <1>2, <1>3, <1>4 DEF StatusInv

\* Every step keeps what was told, or knows that it is not right any more.
LEMMA StatusSteps == StatusInv /\ [Next]_vars => StatusInv'
<1> SUFFICES ASSUME StatusInv, [Next]_vars PROVE StatusInv'
  OBVIOUS
<1>1. ASSUME NEW key \in Key, NEW v \in Values(key), Change(key, v) PROVE StatusInv'
  BY <1>1, ChangeIsNoticed
<1>2. CASE send_vconf_values
  BY <1>2, MainSends
<1>3. CASE subscribe_vconf_updates
  <2>1. ASSUME NEW p \in Property PROVE Place(p) <= 3
    BY DEF Property, Place
  <2>2. StatusTyped'
    BY <1>3 DEF StatusInv, StatusTyped, subscribe_vconf_updates, Subscriptions, Key
  <2>3. Told'
    BY <1>3, <2>1 DEF StatusInv, StatusTyped, Told, subscribe_vconf_updates, Property, Place, ValueOf
  <2>4. Subscribing'
    BY <1>3 DEF StatusInv, StatusTyped, Subscribing, Subscriptions, subscribe_vconf_updates
  <2> QED  BY <2>2, <2>3, <2>4 DEF StatusInv
<1>4. ASSUME NEW key \in Key, vconf_cb(key) PROVE StatusInv'
  BY <1>4, CallbackSends
<1>5. CASE sigterm
  <2>1. StatusTyped'
    BY <1>5, TellsProperty DEF StatusInv, StatusTyped, sigterm
  <2>2. Told'
    BY <1>5 DEF StatusInv, Told, sigterm, Property, Place
  <2>3. Subscribing'
    BY <1>5 DEF Subscribing, sigterm
  <2> QED  BY <2>1, <2>2, <2>3 DEF StatusInv
<1>6. CASE BluezRestarts
  <2>1. StatusTyped'
    BY <1>6 DEF StatusInv, StatusTyped, BluezRestarts
  <2>2. Told' /\ Subscribing'
    BY <1>6 DEF StatusInv, Told, Subscribing, BluezRestarts
  <2> QED  BY <2>1, <2>2 DEF StatusInv
<1>7. CASE UNCHANGED vars
  BY <1>7 DEF StatusInv, StatusTyped, Told, Subscribing, ValueOf, vars, ghosts
<1> QED  BY <1>1, <1>2, <1>3, <1>4, <1>5, <1>6, <1>7 DEF Next

LEMMA StatusBegins == Init => StatusInv
BY DEF Init, StatusInv, StatusTyped, Told, Subscribing, Property, Place

LEMMA IdleIsTold == StatusInv => StatusFollows
BY DEF StatusInv, StatusTyped, Told, StatusFollows, Property, Place

\* When the main loop of the hands-free agent is idle, BlueZ has been told the battery,
\* the signal and the registration of the phone as they are; but for what changed when the
\* agent could not see it, and for what was lost by a call that failed or a BlueZ that was
\* started again (bluetooth-hfp-agent.c sends nothing twice).
THEOREM StatusAlwaysFollows == SumSpec => []StatusFollows
<1>1. StatusInv /\ [SumNext]_sumVars => StatusInv'
  <2> SUFFICES ASSUME [SumNext]_sumVars PROVE [Next]_vars
    BY StatusSteps
  <2> QED  BY DEF SumNext, sumVars
<1>2. SumInit => StatusInv
  BY StatusBegins DEF SumInit
<1> QED  BY <1>1, <1>2, IdleIsTold, PTL DEF SumSpec

(***************************************************************************)
(* Telephony: the calls that are counted.                                  *)
(***************************************************************************)

Counting == {"Incoming", "Outgoing", "MT_RELEASE"}
Statuses == {"ACTIVE"}
OwnRequests == {"Register", "Unregister"} \cup Statuses \cup Counting
AgentRequest == [what : OwnRequests \cup {"Forward", "Threeway", "Local"}, id : Nat, waited : BOOLEAN]

\* An operation, and what it asks the agent for.
Operation ==
  [op : {"none", "init", "deinit", "adapter", "indicate", "answered", "end", "status", "set_status"},
   id : Nat, audio : BOOLEAN, todo : Seq(Statuses)]
AskedBy(op) == CASE op = "indicate" -> {"Incoming", "Outgoing"}
                 [] op = "end"      -> {"MT_RELEASE"}
                 [] OTHER           -> OwnRequests \ Counting

\* Requests the application no longer waits for, and that may change a call.
Late(q) == {i \in 1..Len(q) : ~q[i].waited /\ q[i].what \in Counting}

\* The application waits for one request, that of its operation.
WaitsFor(q, whats) ==
  \E i \in 1..Len(q) : /\ q[i].waited /\ q[i].what \in whats
                       /\ \A j \in 1..Len(q) : q[j].waited => j = i

CountTyped ==
  /\ call_count \in Nat /\ lost \in Nat /\ IsFiniteSet(calls)
  /\ agent_in \in Seq(AgentRequest)
  /\ doing \in Operation
  /\ doing.op = "none" => doing = Telephony!NoOp
  /\ doing.todo # <<>> => doing.op = "status"

Pending ==
  IF doing = Telephony!NoOp THEN \A i \in 1..Len(agent_in) : ~agent_in[i].waited
                            ELSE WaitsFor(agent_in, AskedBy(doing.op))

CountInv ==
  /\ CountTyped
  /\ Pending
  /\ Telephony!Distance(call_count, Cardinality(calls)) + Cardinality(Late(agent_in)) <= lost

LEMMA LateAreFinite ==
  ASSUME NEW q \in Seq(AgentRequest)
  PROVE  IsFiniteSet(Late(q)) /\ Cardinality(Late(q)) \in Nat
<1>1. IsFiniteSet(1..Len(q)) /\ Late(q) \subseteq 1..Len(q)
  BY FS_Interval DEF Late
<1> QED  BY <1>1, FS_Subset, FS_CardinalityType

LEMMA LateAppended ==
  ASSUME NEW q \in Seq(AgentRequest), NEW a \in AgentRequest
  PROVE  /\ Append(q, a) \in Seq(AgentRequest)
         /\ Cardinality(Late(Append(q, a))) =
              IF ~a.waited /\ a.what \in Counting THEN Cardinality(Late(q)) + 1 ELSE Cardinality(Late(q))
<1>1. PICK t : t = Append(q, a)
  OBVIOUS
<1>2. /\ t \in Seq(AgentRequest) /\ Len(t) = Len(q) + 1 /\ t[Len(q) + 1] = a /\ Len(q) \in Nat
      /\ \A i \in 1..Len(q) : t[i] = q[i]
  BY <1>1
<1>3. 1..Len(t) = 1..Len(q) \cup {Len(q) + 1} /\ Len(q) + 1 \notin Late(q)
  BY <1>2 DEF Late
<1>4. Late(t) = IF ~a.waited /\ a.what \in Counting THEN Late(q) \cup {Len(q) + 1} ELSE Late(q)
  BY <1>2, <1>3 DEF Late
<1>5. /\ IsFiniteSet(Late(q))
      /\ Cardinality(Late(q) \cup {Len(q) + 1}) = Cardinality(Late(q)) + 1
  BY <1>3, LateAreFinite, FS_AddElement
<1> QED  BY <1>1, <1>2, <1>4, <1>5

LEMMA LateServed ==
  ASSUME NEW q \in Seq(AgentRequest), q # <<>>
  PROVE  /\ Tail(q) \in Seq(AgentRequest) /\ Head(q) \in AgentRequest
         /\ Cardinality(Late(q)) = IF ~Head(q).waited /\ Head(q).what \in Counting
                                   THEN Cardinality(Late(Tail(q))) + 1 ELSE Cardinality(Late(Tail(q)))
<1>1. PICK t : t = Tail(q)
  OBVIOUS
<1>2. /\ t \in Seq(AgentRequest) /\ Len(q) \in Nat \ {0} /\ Len(t) = Len(q) - 1
      /\ Head(q) = q[1] /\ Head(q) \in AgentRequest
      /\ \A i \in 1..Len(t) : i + 1 \in 2..Len(q) /\ t[i] = q[i + 1]
      /\ \A j \in 2..Len(q) : j - 1 \in 1..Len(t) /\ q[j] = t[j - 1]
  BY <1>1, RestItems
<1>3. PICK rest : rest = Late(q) \ {1}
  OBVIOUS
<1>4. PICK f : f = [i \in Late(t) |-> i + 1]
  OBVIOUS
<1>5. f \in Injection(Late(t), rest)
  <2>1. \A i \in Late(t) : i + 1 \in rest
    BY <1>2, <1>3 DEF Late
  <2>2. \A i, j \in Late(t) : i + 1 = j + 1 => i = j
    BY DEF Late
  <2> QED  BY <1>4, <2>1, <2>2 DEF Injection, IsInjective
<1>6. f \in Surjection(Late(t), rest)
  <2> SUFFICES ASSUME NEW j \in rest PROVE \E i \in Late(t) : f[i] = j
    BY <1>5 DEF Surjection, Injection
  <2>1. j \in 2..Len(q) /\ j - 1 \in Late(t)
    BY <1>2, <1>3 DEF Late
  <2>2. f[j - 1] = j
    BY <1>4, <2>1
  <2> QED  BY <2>1, <2>2
<1>7. ExistsBijection(Late(t), rest)
  BY <1>5, <1>6 DEF ExistsBijection, Bijection
<1>8. IsFiniteSet(Late(t)) /\ Cardinality(rest) = Cardinality(Late(t)) /\ Cardinality(Late(t)) \in Nat
  BY <1>2, <1>7, LateAreFinite, FS_Bijection
<1>9. Cardinality(rest) = IF 1 \in Late(q) THEN Cardinality(Late(q)) - 1 ELSE Cardinality(Late(q))
  BY <1>3, LateAreFinite, FS_RemoveElement
<1>10. Cardinality(Late(q)) \in Nat
  BY LateAreFinite
<1>11. 1 \in Late(q) <=> ~Head(q).waited /\ Head(q).what \in Counting
  BY <1>2 DEF Late
<1> QED  BY <1>1, <1>2, <1>8, <1>9, <1>10, <1>11

LEMMA LateGivenUp ==
  ASSUME NEW q \in Seq(AgentRequest), NEW whats, WaitsFor(q, whats),
         NEW i \in 1..Len(q), q[i].waited
  PROVE  /\ [q EXCEPT ![i].waited = FALSE] \in Seq(AgentRequest)
         /\ \A j \in 1..Len([q EXCEPT ![i].waited = FALSE]) : ~[q EXCEPT ![i].waited = FALSE][j].waited
         /\ q[i].what \in whats
         /\ Cardinality(Late([q EXCEPT ![i].waited = FALSE])) =
              IF q[i].what \in Counting THEN Cardinality(Late(q)) + 1 ELSE Cardinality(Late(q))
<1>1. PICK t : t = [q EXCEPT ![i].waited = FALSE]
  OBVIOUS
<1>2. /\ t \in Seq(AgentRequest) /\ Len(t) = Len(q)
      /\ \A j \in 1..Len(q) : j # i => t[j] = q[j]
      /\ t[i].waited = FALSE /\ t[i].what = q[i].what
  <2>0. q[i] \in AgentRequest
    OBVIOUS
  <2>1. PICK r : r = [q[i] EXCEPT !.waited = FALSE]
    OBVIOUS
  <2>2. r \in AgentRequest /\ r.waited = FALSE /\ r.what = q[i].what
    <3>1. PICK s \in AgentRequest : s = q[i]
      BY <2>0
    <3>2. r = [s EXCEPT !.waited = FALSE]
      BY <2>1, <3>1
    <3> QED  BY <3>1, <3>2 DEF AgentRequest
  <2>3. t = [q EXCEPT ![i] = r]
    BY <1>1, <2>1
  <2> QED  BY <2>2, <2>3
<1>3. \A j \in 1..Len(q) : q[j].waited => j = i
  BY DEF WaitsFor
<1>4. q[i].what \in whats
  BY DEF WaitsFor
<1>5. \A j \in 1..Len(t) : ~t[j].waited
  BY <1>2, <1>3
<1>6. i \notin Late(q) /\ Late(t) = IF q[i].what \in Counting THEN Late(q) \cup {i} ELSE Late(q)
  BY <1>2 DEF Late
<1>7. Cardinality(Late(t)) =
        IF q[i].what \in Counting THEN Cardinality(Late(q)) + 1 ELSE Cardinality(Late(q))
  BY <1>6, LateAreFinite, FS_AddElement
<1> QED  BY <1>1, <1>2, <1>4, <1>5, <1>7

LEMMA WaitsAppended ==
  ASSUME NEW q \in Seq(AgentRequest), NEW a \in AgentRequest
  PROVE  /\ a.waited /\ (\A i \in 1..Len(q) : ~q[i].waited)
              => \A whats : a.what \in whats => WaitsFor(Append(q, a), whats)
         /\ ~a.waited /\ (\A i \in 1..Len(q) : ~q[i].waited)
              => \A i \in 1..Len(Append(q, a)) : ~Append(q, a)[i].waited
         /\ ~a.waited => \A whats : WaitsFor(q, whats) => WaitsFor(Append(q, a), whats)
<1>1. PICK t : t = Append(q, a)
  OBVIOUS
<1>2. /\ Len(t) = Len(q) + 1 /\ t[Len(q) + 1] = a /\ Len(q) \in Nat
      /\ \A i \in 1..Len(q) : t[i] = q[i]
      /\ 1..Len(t) = 1..Len(q) \cup {Len(q) + 1}
  BY <1>1
<1>3. ASSUME a.waited, \A i \in 1..Len(q) : ~q[i].waited, NEW whats, a.what \in whats
      PROVE  WaitsFor(t, whats)
  BY <1>2, <1>3 DEF WaitsFor
<1>4. ASSUME ~a.waited, \A i \in 1..Len(q) : ~q[i].waited
      PROVE  \A i \in 1..Len(t) : ~t[i].waited
  BY <1>2, <1>4
<1>5. ASSUME ~a.waited, NEW whats, WaitsFor(q, whats) PROVE WaitsFor(t, whats)
  BY <1>2, <1>5 DEF WaitsFor
<1> QED  BY <1>1, <1>3, <1>4, <1>5

LEMMA WaitsServed ==
  ASSUME NEW q \in Seq(AgentRequest), q # <<>>
  PROVE  /\ \A whats : WaitsFor(q, whats) /\ Head(q).waited
              => Head(q).what \in whats /\ \A i \in 1..Len(Tail(q)) : ~Tail(q)[i].waited
         /\ \A whats : WaitsFor(q, whats) /\ ~Head(q).waited => WaitsFor(Tail(q), whats)
         /\ (\A i \in 1..Len(q) : ~q[i].waited)
              => ~Head(q).waited /\ \A i \in 1..Len(Tail(q)) : ~Tail(q)[i].waited
<1>1. PICK t : t = Tail(q)
  OBVIOUS
<1>2. /\ Len(q) \in Nat \ {0} /\ Len(t) = Len(q) - 1 /\ Head(q) = q[1]
      /\ \A i \in 1..Len(t) : i + 1 \in 2..Len(q) /\ t[i] = q[i + 1]
      /\ \A j \in 2..Len(q) : j - 1 \in 1..Len(t) /\ q[j] = t[j - 1]
  BY <1>1, RestItems
<1>3. ASSUME NEW whats, WaitsFor(q, whats), Head(q).waited
      PROVE  Head(q).what \in whats /\ \A i \in 1..Len(t) : ~t[i].waited
  <2>1. PICK i \in 1..Len(q) : q[i].what \in whats /\ \A j \in 1..Len(q) : q[j].waited => j = i
    BY <1>3 DEF WaitsFor
  <2>2. i = 1
    BY <1>2, <1>3, <2>1
  <2> QED  BY <1>2, <2>1, <2>2
<1>4. ASSUME NEW whats, WaitsFor(q, whats), ~Head(q).waited PROVE WaitsFor(t, whats)
  <2>1. PICK i \in 1..Len(q) : /\ q[i].waited /\ q[i].what \in whats
                               /\ \A j \in 1..Len(q) : q[j].waited => j = i
    BY <1>4 DEF WaitsFor
  <2>2. i \in 2..Len(q)
    BY <1>2, <1>4, <2>1
  <2>3. \A j \in 1..Len(t) : t[j].waited => j = i - 1
    BY <1>2, <2>1
  <2> QED  BY <1>2, <2>1, <2>2, <2>3 DEF WaitsFor
<1>5. ASSUME \A i \in 1..Len(q) : ~q[i].waited
      PROVE  ~Head(q).waited /\ \A i \in 1..Len(t) : ~t[i].waited
  BY <1>2, <1>5
<1> QED  BY <1>1, <1>3, <1>4, <1>5

LEMMA SameSize == \A S : Telephony!Cardinality(S) = Cardinality(S)
BY DEF Telephony!Cardinality, Cardinality

\* Steps that touch neither the calls nor the queue of the agent.
countVars == <<call_count, lost, calls, agent_in, doing>>
LEMMA CountUntouched == CountInv /\ UNCHANGED countVars => CountInv'
BY DEF countVars, CountInv, CountTyped, Pending

LEMMA SizeOfCalls ==
  ASSUME IsFiniteSet(calls), NEW id
  PROVE  /\ IsFiniteSet(calls \cup {id}) /\ IsFiniteSet(calls \ {id})
         /\ Cardinality(calls) \in Nat
         /\ id \notin calls => Cardinality(calls \cup {id}) = Cardinality(calls) + 1
         /\ id \in calls => Cardinality(calls) = Cardinality(calls \ {id}) + 1
                            /\ Cardinality(calls \ {id}) \in Nat
<1>1. IsFiniteSet(calls \ {id}) /\ Cardinality(calls \ {id}) \in Nat
  BY FS_RemoveElement, FS_CardinalityType
<1> QED  BY <1>1, FS_AddElement, FS_RemoveElement, FS_CardinalityType

\* The application sends a request and waits for it.
LEMMA SendKeeps ==
  ASSUME CountInv, doing = Telephony!NoOp, UNCHANGED <<call_count, lost, calls>>,
         NEW op \in Operation, op.op # "none", op.todo # <<>> => op.op = "status",
         NEW what \in AskedBy(op.op), NEW id \in Nat,
         Telephony!dbus_method_send(op, what, id)
  PROVE  CountInv'
<1>1. PICK a \in AgentRequest : a = [what |-> what, id |-> id, waited |-> TRUE]
  BY DEF AgentRequest, AskedBy, OwnRequests, Statuses, Counting
<1>2. a.waited /\ a.what = what
  BY <1>1
<1>3. agent_in' = Append(agent_in, a) /\ doing' = op
  BY <1>1 DEF Telephony!dbus_method_send, Telephony!Request
<1>4. agent_in \in Seq(AgentRequest) /\ \A i \in 1..Len(agent_in) : ~agent_in[i].waited
  BY DEF CountInv, CountTyped, Pending
<1>5. /\ agent_in' \in Seq(AgentRequest)
      /\ Cardinality(Late(agent_in')) = Cardinality(Late(agent_in))
  BY <1>2, <1>3, <1>4, LateAppended
<1>6. WaitsFor(agent_in', AskedBy(op.op))
  BY <1>2, <1>3, <1>4, WaitsAppended
<1>7. op # Telephony!NoOp
  BY DEF Telephony!NoOp
<1>8. CountTyped'
  BY <1>3, <1>5, <1>7 DEF CountInv, CountTyped
<1>9. Pending'
  BY <1>3, <1>6, <1>7 DEF Pending
<1> QED  BY <1>5, <1>8, <1>9 DEF CountInv

\* A request of the headset joins, which nobody of the application waits for.
LEMMA AskKeepsCount ==
  ASSUME CountInv, NEW what \in {"Forward", "Threeway", "Local"}, Telephony!Ask(what)
  PROVE  CountInv'
<1>1. PICK a \in AgentRequest : a = [what |-> what, id |-> 0, waited |-> FALSE]
  BY DEF AgentRequest
<1>2. ~a.waited /\ a.what \notin Counting
  BY <1>1 DEF Counting
<1>3. agent_in' = Append(agent_in, a) /\ UNCHANGED <<call_count, lost, calls, doing>>
  BY <1>1 DEF Telephony!Ask, Telephony!libVars, Telephony!loopVars
<1>4. agent_in \in Seq(AgentRequest)
  BY DEF CountInv, CountTyped
<1>5. /\ agent_in' \in Seq(AgentRequest)
      /\ Cardinality(Late(agent_in')) = Cardinality(Late(agent_in))
  BY <1>2, <1>3, <1>4, LateAppended
<1>6. Pending'
  <2>1. CASE doing = Telephony!NoOp
    BY <1>2, <1>3, <1>4, <2>1, WaitsAppended DEF CountInv, Pending
  <2>2. CASE doing # Telephony!NoOp
    BY <1>2, <1>3, <1>4, <2>2, WaitsAppended DEF CountInv, Pending
  <2> QED  BY <2>1, <2>2
<1> QED  BY <1>3, <1>5, <1>6 DEF CountInv, CountTyped

\* The calls that BlueZ loses are counted as lost.
LEMMA StopKeepsCount == ASSUME CountInv, Telephony!BluezStops PROVE CountInv'
<1>1. /\ calls' = {} /\ lost' = lost + Cardinality(calls)
      /\ UNCHANGED <<call_count, agent_in, doing>>
  BY SameSize DEF Telephony!BluezStops, Telephony!libVars, Telephony!agentVars
<1>2. /\ IsFiniteSet(calls') /\ Cardinality(calls') = 0 /\ Cardinality(calls) \in Nat
      /\ Cardinality(Late(agent_in)) \in Nat
  BY <1>1, FS_EmptySet, FS_CardinalityType, LateAreFinite DEF CountInv, CountTyped
<1>3. CountTyped' /\ Pending'
  BY <1>1, <1>2 DEF CountInv, CountTyped, Pending
<1>4. Telephony!Distance(call_count', 0) + Cardinality(Late(agent_in)) <= lost'
  BY <1>1, <1>2 DEF CountInv, CountTyped, Telephony!Distance
<1> QED  BY <1>1, <1>2, <1>3, <1>4 DEF CountInv

\* What a reply, or its absence, makes of the count and of the operation.
LEMMA ReplyCounts ==
  ASSUME CountTyped, NEW ok \in BOOLEAN, NEW uncounted \in Nat, Telephony!Reply(ok, uncounted)
  PROVE  /\ call_count' \in Nat
         /\ doing' = IF ok /\ doing.todo # <<>> THEN [doing EXCEPT !.todo = Tail(@)]
                     ELSE Telephony!NoOp
         /\ \/ lost' = Telephony!Distance(call_count', Cardinality(calls')) + Cardinality(Telephony!Stale)
            \/ /\ lost' = lost + uncounted
               /\ call_count' = IF ok /\ doing.op = "indicate" THEN call_count + 1
                                ELSE IF ok /\ doing.op = "end" /\ call_count > 0 THEN call_count - 1
                                ELSE call_count
<1>1. doing \in Operation /\ call_count \in Nat /\ doing.id \in Nat
  BY DEF CountTyped, Operation
<1>2. doing' = IF ok /\ doing.todo # <<>> THEN [doing EXCEPT !.todo = Tail(@)]
               ELSE Telephony!NoOp
  BY DEF Telephony!Reply, Telephony!More
<1>3. IF Telephony!Counted(ok)
      THEN lost' = Telephony!Distance(call_count', Cardinality(calls')) + Cardinality(Telephony!Stale)
      ELSE lost' = lost + uncounted
  BY SameSize DEF Telephony!Reply, Telephony!Rebase
<1>4. CASE doing.op = "end"
  <2>1. Telephony!call_end_reply(ok)
    BY <1>4 DEF Telephony!Reply
  <2>2. call_count' = IF ok /\ call_count > 0 THEN call_count - 1 ELSE call_count
    BY <1>1, <2>1 DEF Telephony!call_end_reply, Telephony!call_count_after_end
  <2>3. ~Telephony!Counted(ok)
    BY <1>4 DEF Telephony!Counted
  <2> QED  BY <1>1, <1>2, <1>3, <1>4, <2>2, <2>3
<1>5. CASE doing.op = "indicate"
  <2>1. Telephony!indicate_reply(ok)
    BY <1>5 DEF Telephony!Reply
  <2>2. call_count' = IF ok THEN call_count + 1 ELSE call_count
    BY <2>1 DEF Telephony!indicate_reply
  <2>3. ~Telephony!Counted(ok)
    BY <1>5 DEF Telephony!Counted
  <2> QED  BY <1>1, <1>2, <1>3, <1>5, <2>2, <2>3
<1>6. CASE doing.op \in {"deinit", "init"}
  <2>1. call_count' = 0 \/ (call_count' = call_count /\ doing.op = "init" /\ ok)
    BY <1>6 DEF Telephony!Reply, Telephony!init_reply, Telephony!deinit_reply
  <2>2. CASE call_count' = 0 /\ (doing.op = "init" => ~ok)
    BY <1>1, <1>2, <1>3, <1>6, <2>2 DEF Telephony!Counted
  <2>3. CASE doing.op = "init" /\ ok
    <3>1. call_count' = call_count
      BY <2>3 DEF Telephony!Reply, Telephony!init_reply
    <3>2. ~Telephony!Counted(ok)
      BY <2>3 DEF Telephony!Counted
    <3> QED  BY <1>1, <1>2, <1>3, <2>3, <3>1, <3>2
  <2> QED  BY <2>1, <2>2, <2>3
<1>7. CASE doing.op \in {"answered", "adapter"}
  <2>1. call_count' = call_count
    BY <1>7 DEF Telephony!Reply, Telephony!call_answered_reply, Telephony!adapter_added_reply
  <2>2. ~Telephony!Counted(ok)
    BY <1>7 DEF Telephony!Counted
  <2> QED  BY <1>1, <1>2, <1>3, <1>7, <2>1, <2>2
<1>8. CASE doing.op \in {"status", "set_status", "none"}
  <2>1. Telephony!set_call_status_reply(ok)
    BY <1>8 DEF Telephony!Reply
  <2>2. CASE doing.op = "set_status" /\ ok /\ doing.todo = <<>>
    <3>1. call_count' = doing.id
      BY <2>1, <2>2 DEF Telephony!set_call_status_reply
    <3>2. Telephony!Counted(ok)
      BY <2>2 DEF Telephony!Counted
    <3> QED  BY <1>1, <1>2, <1>3, <3>1, <3>2
  <2>3. CASE ~(doing.op = "set_status" /\ ok /\ doing.todo = <<>>)
    <3>1. call_count' = call_count
      BY <2>1, <2>3 DEF Telephony!set_call_status_reply
    <3>2. ~Telephony!Counted(ok)
      BY <1>8, <2>3 DEF Telephony!Counted
    <3> QED  BY <1>1, <1>2, <1>3, <1>8, <3>1, <3>2
  <2> QED  BY <2>2, <2>3
<1> QED  BY <1>1, <1>4, <1>5, <1>6, <1>7, <1>8 DEF Operation

LEMMA NextOperation ==
  ASSUME NEW d \in Operation, d.todo # <<>>, d.op = "status"
  PROVE  /\ [d EXCEPT !.todo = Tail(@)] \in Operation
         /\ [d EXCEPT !.todo = Tail(@)].op = "status"
         /\ [d EXCEPT !.todo = Tail(@)] # Telephony!NoOp
         /\ Head(d.todo) \in Statuses /\ d.id \in Nat
<1>1. d.todo \in Seq(Statuses)
  BY DEF Operation
<1>2. Tail(d.todo) \in Seq(Statuses) /\ Head(d.todo) \in Statuses
  BY <1>1
<1>3. PICK e : e = [d EXCEPT !.todo = Tail(@)]
  OBVIOUS
<1>4. e \in Operation /\ e.op = "status"
  BY <1>2, <1>3 DEF Operation
<1>5. e # Telephony!NoOp
  BY <1>4 DEF Telephony!NoOp
<1> QED  BY <1>2, <1>3, <1>4, <1>5 DEF Operation

LEMMA NothingToDo == Telephony!NoOp \in Operation /\ Telephony!NoOp.todo = <<>>
BY DEF Telephony!NoOp, Operation

LEMMA StaleAreLate ==
  ASSUME agent_in' \in Seq(AgentRequest) PROVE Telephony!Stale = Late(agent_in')
BY DEF Telephony!Stale, Late, Counting

\* The reply gets too late: what the request does is not counted.
LEMMA TimeoutKeepsCount == ASSUME CountInv, Telephony!AppTimeout PROVE CountInv'
<1>1. PICK i : i = CHOOSE k \in DOMAIN agent_in : agent_in[k].waited
  OBVIOUS
<1>2. PICK uncounted : uncounted = IF doing.op \in {"indicate", "end"} THEN 1 ELSE 0
  OBVIOUS
<1>3. PICK ok \in BOOLEAN : ok = FALSE
  OBVIOUS
<1>4. /\ agent_in' = [agent_in EXCEPT ![i].waited = FALSE] /\ calls' = calls
      /\ doing # Telephony!NoOp
  BY <1>1 DEF Telephony!AppTimeout
<1>5. Telephony!Reply(ok, uncounted)
  BY <1>2, <1>3 DEF Telephony!AppTimeout
<1>6. agent_in \in Seq(AgentRequest) /\ WaitsFor(agent_in, AskedBy(doing.op)) /\ doing \in Operation
  BY <1>4 DEF CountInv, CountTyped, Pending
<1>7. i \in 1..Len(agent_in) /\ agent_in[i].waited
  BY <1>1, <1>6 DEF WaitsFor
<1>8. /\ agent_in' \in Seq(AgentRequest)
      /\ \A j \in 1..Len(agent_in') : ~agent_in'[j].waited
      /\ agent_in[i].what \in AskedBy(doing.op)
      /\ Cardinality(Late(agent_in')) =
           IF agent_in[i].what \in Counting THEN Cardinality(Late(agent_in)) + 1
                                            ELSE Cardinality(Late(agent_in))
  BY <1>4, <1>6, <1>7, LateGivenUp
<1>9. agent_in[i].what \in Counting => uncounted = 1
  BY <1>2, <1>8 DEF AskedBy
<1>10. uncounted \in Nat
  BY <1>2
<1>11. /\ call_count' \in Nat /\ doing' = Telephony!NoOp
       /\ \/ lost' = Telephony!Distance(call_count', Cardinality(calls')) + Cardinality(Telephony!Stale)
          \/ lost' = lost + uncounted /\ call_count' = call_count
  BY <1>3, <1>5, <1>10, ReplyCounts DEF CountInv
<1>12. /\ IsFiniteSet(calls') /\ Cardinality(calls') \in Nat /\ Cardinality(Late(agent_in')) \in Nat
       /\ Cardinality(Late(agent_in)) \in Nat /\ call_count \in Nat /\ lost \in Nat
  BY <1>4, <1>6, <1>8, FS_CardinalityType, LateAreFinite DEF CountInv, CountTyped
<1>13. /\ Telephony!Distance(call_count', Cardinality(calls')) + Cardinality(Late(agent_in')) <= lost'
       /\ lost' \in Nat
  <2>1. CASE lost' = Telephony!Distance(call_count', Cardinality(calls')) + Cardinality(Telephony!Stale)
    BY <1>8, <1>11, <1>12, <2>1, StaleAreLate, SMTT(20) DEF Telephony!Distance
  <2>2. CASE lost' = lost + uncounted /\ call_count' = call_count
    BY <1>4, <1>8, <1>9, <1>10, <1>12, <2>2, SMTT(20) DEF CountInv, Telephony!Distance
  <2> QED  BY <1>11, <2>1, <2>2
<1>14. CountTyped' /\ Pending'
  BY <1>8, <1>11, <1>12, <1>13, NothingToDo DEF CountTyped, Pending
<1> QED  BY <1>13, <1>14 DEF CountInv

\* The count and the calls move together, or the count stays at 0.
LEMMA CountsMove ==
  ASSUME NEW c \in Nat, NEW d \in Nat, NEW n \in Nat, NEW m \in Nat,
         \/ d = c + 1 /\ m = n + 1
         \/ d = (IF c > 0 THEN c - 1 ELSE c) /\ n = m + 1
         \/ d = c /\ m = n
  PROVE  /\ Telephony!Distance(c, n) \in Nat /\ Telephony!Distance(d, m) \in Nat
         /\ Telephony!Distance(d, m) <= Telephony!Distance(c, n)
BY DEF Telephony!Distance

\* A request that the application waits for is served, and the reply counts.
LEMMA AnsweredKeepsCount ==
  ASSUME CountInv, agent_in # <<>>, Telephony!ServeApplication(Head(agent_in)), Head(agent_in).waited
  PROVE  CountInv'
<1>1. PICK r : r = Head(agent_in)
  OBVIOUS
<1>2. PICK ok \in BOOLEAN : ok = Telephony!CsdAccepts(r)
  BY DEF Telephony!CsdAccepts
<1>3. PICK rest : rest = Tail(agent_in)
  OBVIOUS
<1>4. agent_in \in Seq(AgentRequest) /\ doing \in Operation
  BY DEF CountInv, CountTyped
<1>5. /\ rest \in Seq(AgentRequest) /\ r \in AgentRequest
      /\ Cardinality(Late(agent_in)) = Cardinality(Late(rest))
  BY <1>1, <1>3, <1>4, LateServed
<1>6. doing # Telephony!NoOp
  BY <1>4, WaitsServed DEF CountInv, Pending
<1>7. /\ r.what \in AskedBy(doing.op)
      /\ \A i \in 1..Len(rest) : ~rest[i].waited
  BY <1>1, <1>3, <1>4, <1>6, WaitsServed DEF CountInv, Pending
<1>8. /\ Telephony!Reply(ok, 0) /\ Telephony!Csd(r)
      /\ agent_in' = rest \o Telephony!NextRequest(ok)
  BY <1>1, <1>2, <1>3 DEF Telephony!ServeApplication
<1>9. /\ call_count' \in Nat
      /\ doing' = IF ok /\ doing.todo # <<>> THEN [doing EXCEPT !.todo = Tail(@)]
                  ELSE Telephony!NoOp
      /\ \/ lost' = Telephony!Distance(call_count', Cardinality(calls')) + Cardinality(Telephony!Stale)
         \/ /\ lost' = lost + 0
            /\ call_count' = IF ok /\ doing.op = "indicate" THEN call_count + 1
                             ELSE IF ok /\ doing.op = "end" /\ call_count > 0 THEN call_count - 1
                             ELSE call_count
  BY <1>8, ReplyCounts DEF CountInv
<1>10. /\ agent_in' \in Seq(AgentRequest)
       /\ Cardinality(Late(agent_in')) = Cardinality(Late(rest))
       /\ Pending' /\ doing' \in Operation
       /\ doing'.op = "none" => doing' = Telephony!NoOp
       /\ doing'.todo # <<>> => doing'.op = "status"
  <2>1. CASE ok /\ doing.todo # <<>>
    <3>1. doing.op = "status"
      BY <2>1 DEF CountInv, CountTyped
    <3>2. /\ doing' \in Operation /\ doing'.op = "status" /\ doing' # Telephony!NoOp
          /\ Head(doing.todo) \in Statuses /\ doing.id \in Nat
      BY <1>4, <1>9, <2>1, <3>1, NextOperation
    <3>3. PICK a \in AgentRequest :
            a = [what |-> Head(doing.todo), id |-> doing.id, waited |-> TRUE]
      BY <3>2 DEF AgentRequest, OwnRequests
    <3>4. a.waited /\ a.what \in Statuses
      BY <3>2, <3>3
    <3>5. agent_in' = rest \o <<a>>
      BY <1>8, <2>1, <3>3 DEF Telephony!NextRequest, Telephony!More, Telephony!Request
    <3>6. agent_in' = Append(rest, a)
      BY <1>5, <3>5, AppendJoins
    <3>7. a.what \in AskedBy(doing'.op)
      BY <3>2, <3>4 DEF AskedBy, OwnRequests, Statuses, Counting
    <3>8. WaitsFor(agent_in', AskedBy(doing'.op))
      BY <1>5, <1>7, <3>4, <3>6, <3>7, WaitsAppended
    <3>9. /\ agent_in' \in Seq(AgentRequest)
          /\ Cardinality(Late(agent_in')) = Cardinality(Late(rest))
      BY <1>5, <3>4, <3>6, LateAppended
    <3> QED  BY <3>2, <3>8, <3>9 DEF Pending
  <2>2. CASE ~(ok /\ doing.todo # <<>>)
    <3>1. agent_in' = rest /\ doing' = Telephony!NoOp
      BY <1>5, <1>8, <1>9, <2>2 DEF Telephony!NextRequest, Telephony!More
    <3> QED  BY <1>5, <1>7, <3>1, NothingToDo DEF Pending
  <2> QED  BY <2>1, <2>2
<1>11. /\ IsFiniteSet(calls') /\ Cardinality(calls) \in Nat /\ Cardinality(calls') \in Nat
       /\ CASE ok /\ doing.op = "indicate" -> Cardinality(calls') = Cardinality(calls) + 1
            [] ok /\ doing.op = "end" -> Cardinality(calls) = Cardinality(calls') + 1
            [] OTHER -> calls' = calls
  <2>0. IsFiniteSet(calls)
    BY DEF CountInv, CountTyped
  <2>1. CASE ok /\ doing.op = "indicate"
    <3>1. r.what \in {"Incoming", "Outgoing"}
      BY <1>7, <2>1 DEF AskedBy
    <3>2. calls' = calls \cup {r.id} /\ r.id \notin calls
      BY <1>2, <1>8, <2>1, <3>1 DEF Telephony!Csd, Telephony!CsdAccepts
    <3>3. /\ IsFiniteSet(calls') /\ Cardinality(calls) \in Nat
          /\ Cardinality(calls') = Cardinality(calls) + 1
      BY <2>0, <3>2, SizeOfCalls
    <3> QED  BY <2>1, <3>3
  <2>2. CASE ok /\ doing.op = "end"
    <3>1. r.what = "MT_RELEASE"
      BY <1>7, <2>2 DEF AskedBy
    <3>2. calls' = calls \ {r.id} /\ r.id \in calls
      BY <1>2, <1>8, <2>2, <3>1 DEF Telephony!Csd, Telephony!CsdAccepts
    <3> QED  BY <2>0, <2>2, <3>2, SizeOfCalls
  <2>3. CASE ~(ok /\ doing.op \in {"indicate", "end"})
    <3>1. ~ok \/ r.what \notin Counting
      BY <1>7, <2>3 DEF AskedBy
    <3>2. calls' = calls
      BY <1>2, <1>8, <3>1 DEF Telephony!Csd, Counting
    <3> QED  BY <2>0, <2>3, <3>2, SizeOfCalls
  <2> QED  BY <2>1, <2>2, <2>3
<1>12. /\ Cardinality(Late(agent_in')) \in Nat /\ call_count \in Nat /\ lost \in Nat
  BY <1>10, LateAreFinite DEF CountInv, CountTyped
<1>13. /\ Telephony!Distance(call_count', Cardinality(calls')) + Cardinality(Late(agent_in')) <= lost'
       /\ lost' \in Nat
  <2>1. CASE lost' = Telephony!Distance(call_count', Cardinality(calls')) + Cardinality(Telephony!Stale)
    BY <1>9, <1>10, <1>11, <1>12, <2>1, StaleAreLate, SMTT(20) DEF Telephony!Distance
  <2>2. CASE /\ lost' = lost + 0
             /\ call_count' = IF ok /\ doing.op = "indicate" THEN call_count + 1
                              ELSE IF ok /\ doing.op = "end" /\ call_count > 0 THEN call_count - 1
                              ELSE call_count
    <3>1. Telephony!Distance(call_count, Cardinality(calls)) + Cardinality(Late(agent_in')) <= lost
      BY <1>5, <1>10 DEF CountInv
    <3>2. \/ call_count' = call_count + 1 /\ Cardinality(calls') = Cardinality(calls) + 1
          \/ /\ call_count' = (IF call_count > 0 THEN call_count - 1 ELSE call_count)
             /\ Cardinality(calls) = Cardinality(calls') + 1
          \/ call_count' = call_count /\ Cardinality(calls') = Cardinality(calls)
      <4>1. CASE ok /\ doing.op = "indicate"
        BY <1>11, <2>2, <4>1
      <4>2. CASE ok /\ doing.op = "end"
        <5>1. call_count' = (IF call_count > 0 THEN call_count - 1 ELSE call_count)
          BY <2>2, <4>2
        <5> QED  BY <1>11, <4>2, <5>1
      <4>3. CASE ~(ok /\ doing.op = "indicate") /\ ~(ok /\ doing.op = "end")
        BY <1>11, <2>2, <4>3
      <4> QED  BY <4>1, <4>2, <4>3
    <3>3. PICK before : before = Telephony!Distance(call_count, Cardinality(calls))
      OBVIOUS
    <3>4. PICK after : after = Telephony!Distance(call_count', Cardinality(calls'))
      OBVIOUS
    <3>5. before \in Nat /\ after \in Nat /\ after <= before
      BY <1>9, <1>11, <1>12, <3>2, <3>3, <3>4, CountsMove
    <3>6. PICK late : late = Cardinality(Late(agent_in'))
      OBVIOUS
    <3>7. after + late <= lost
      BY <1>12, <3>1, <3>3, <3>5, <3>6
    <3>8. lost' = lost
      BY <1>12, <2>2
    <3> QED  BY <1>12, <3>4, <3>6, <3>7, <3>8
  <2> QED  BY <1>9, <2>1, <2>2
<1>14. CountTyped'
  BY <1>9, <1>10, <1>11, <1>13 DEF CountTyped
<1> QED  BY <1>10, <1>13, <1>14 DEF CountInv

\* One that it has given up is served: what it changes had been allowed for.
LEMMA LateKeepsCount ==
  ASSUME CountInv, agent_in # <<>>, Telephony!ServeApplication(Head(agent_in)), ~Head(agent_in).waited
  PROVE  CountInv'
<1>1. PICK r : r = Head(agent_in)
  OBVIOUS
<1>2. agent_in \in Seq(AgentRequest)
  BY DEF CountInv, CountTyped
<1>3. Tail(agent_in) \in Seq(AgentRequest) /\ r \in AgentRequest
  BY <1>1, <1>2, LateServed
<1>4. /\ agent_in' = Tail(agent_in) /\ Telephony!Csd(r)
      /\ UNCHANGED <<call_count, lost, doing>>
  BY <1>1, <1>3 DEF Telephony!ServeApplication, Telephony!libVars
<1>5. /\ agent_in' \in Seq(AgentRequest)
      /\ Cardinality(Late(agent_in)) = IF r.what \in Counting THEN Cardinality(Late(agent_in')) + 1
                                       ELSE Cardinality(Late(agent_in'))
  BY <1>1, <1>2, <1>3, <1>4, LateServed
<1>6. Pending'
  <2>1. CASE doing = Telephony!NoOp
    BY <1>2, <1>4, <2>1, WaitsServed DEF CountInv, Pending
  <2>2. CASE doing # Telephony!NoOp
    BY <1>2, <1>4, <2>2, WaitsServed DEF CountInv, Pending
  <2> QED  BY <2>1, <2>2
<1>7. /\ IsFiniteSet(calls') /\ Cardinality(calls) \in Nat /\ Cardinality(calls') \in Nat
      /\ r.what \notin Counting => calls' = calls
      /\ \/ Cardinality(calls') = Cardinality(calls)
         \/ Cardinality(calls') = Cardinality(calls) + 1
         \/ Cardinality(calls) = Cardinality(calls') + 1
  <2>0. IsFiniteSet(calls)
    BY DEF CountInv, CountTyped
  <2>1. CASE calls' = calls
    BY <2>0, <2>1, SizeOfCalls
  <2>2. CASE calls' # calls
    <3>1. \/ calls' = calls \cup {r.id} /\ r.what \in Counting
          \/ calls' = calls \ {r.id} /\ r.what \in Counting
      BY <1>4, <2>2 DEF Telephony!Csd, Counting
    <3>2. calls' = calls \cup {r.id} => r.id \notin calls
      BY <2>2
    <3>3. calls' = calls \ {r.id} => r.id \in calls
      BY <2>2
    <3>4. CASE calls' = calls \cup {r.id}
      <4>1. /\ IsFiniteSet(calls') /\ Cardinality(calls) \in Nat
            /\ Cardinality(calls') = Cardinality(calls) + 1
        BY <2>0, <3>2, <3>4, SizeOfCalls
      <4> QED  BY <2>2, <3>1, <4>1
    <3>5. CASE calls' = calls \ {r.id}
      <4>1. /\ IsFiniteSet(calls') /\ Cardinality(calls') \in Nat
            /\ Cardinality(calls) = Cardinality(calls') + 1
        BY <2>0, <3>3, <3>5, SizeOfCalls
      <4> QED  BY <2>2, <3>1, <4>1
    <3> QED  BY <3>1, <3>4, <3>5
  <2> QED  BY <2>1, <2>2
<1>8. CountTyped'
  BY <1>4, <1>5, <1>7 DEF CountInv, CountTyped
<1>9. Cardinality(Late(agent_in')) \in Nat /\ call_count \in Nat /\ lost \in Nat
  BY <1>5, LateAreFinite DEF CountInv, CountTyped
<1>10. Telephony!Distance(call_count, Cardinality(calls)) + Cardinality(Late(agent_in)) <= lost
  BY DEF CountInv
<1>11. Telephony!Distance(call_count', Cardinality(calls')) + Cardinality(Late(agent_in')) <= lost'
  <2>1. CASE r.what \in Counting
    <3>1. Cardinality(Late(agent_in)) = Cardinality(Late(agent_in')) + 1
      BY <1>5, <2>1
    <3>2. Telephony!Distance(call_count, Cardinality(calls'))
            <= Telephony!Distance(call_count, Cardinality(calls)) + 1
      BY <1>7, <1>9 DEF Telephony!Distance
    <3>3. /\ Telephony!Distance(call_count, Cardinality(calls)) \in Nat
          /\ Telephony!Distance(call_count, Cardinality(calls')) \in Nat
      BY <1>7, <1>9 DEF Telephony!Distance
    <3> QED  BY <1>4, <1>9, <1>10, <3>1, <3>2, <3>3
  <2>2. CASE r.what \notin Counting
    BY <1>4, <1>5, <1>7, <1>10, <2>2
  <2> QED  BY <2>1, <2>2
<1> QED  BY <1>6, <1>8, <1>11 DEF CountInv

\* The requests of the headset are not those the application waits for.
LEMMA HeadsetServedKeepsCount ==
  ASSUME CountInv, agent_in # <<>>, Head(agent_in).what \in {"Forward", "Threeway", "Local"},
         agent_in' = Tail(agent_in), UNCHANGED <<call_count, lost, calls, doing>>
  PROVE  CountInv'
<1>1. PICK r : r = Head(agent_in)
  OBVIOUS
<1>2. agent_in \in Seq(AgentRequest)
  BY DEF CountInv, CountTyped
<1>3. r.what \notin OwnRequests /\ r.what \notin Counting
  BY <1>1 DEF OwnRequests, Statuses, Counting
<1>4. AskedBy(doing.op) \subseteq OwnRequests
  BY DEF AskedBy, OwnRequests, Counting
<1>5. ~r.waited
  <2>1. CASE doing = Telephony!NoOp
    BY <1>1, <1>2, <2>1, WaitsServed DEF CountInv, Pending
  <2>2. CASE doing # Telephony!NoOp
    BY <1>1, <1>2, <1>3, <1>4, <2>2, WaitsServed DEF CountInv, Pending
  <2> QED  BY <2>1, <2>2
<1>6. Pending'
  <2>1. CASE doing = Telephony!NoOp
    BY <1>2, <2>1, WaitsServed DEF CountInv, Pending
  <2>2. CASE doing # Telephony!NoOp
    BY <1>1, <1>2, <1>5, <2>2, WaitsServed DEF CountInv, Pending
  <2> QED  BY <2>1, <2>2
<1>7. /\ agent_in' \in Seq(AgentRequest)
      /\ Cardinality(Late(agent_in)) = Cardinality(Late(agent_in'))
  BY <1>1, <1>2, <1>3, LateServed
<1> QED  BY <1>6, <1>7 DEF CountInv, CountTyped

LEMMA ServeKeepsCount == ASSUME CountInv, Telephony!Serve PROVE CountInv'
<1>1. PICK r : r = Head(agent_in)
  OBVIOUS
<1>2. CASE Telephony!ServeApplication(r)
  BY <1>1, <1>2, AnsweredKeepsCount, LateKeepsCount DEF Telephony!Serve
<1>3. CASE Telephony!ServeForward(r) \/ Telephony!ServeLocal(r) \/ Telephony!bt_hfp_agent_threeway_call(r)
  <2>1. /\ r.what \in {"Forward", "Threeway", "Local"} /\ agent_in' = Tail(agent_in)
        /\ UNCHANGED <<call_count, lost, calls, doing>>
    BY <1>3 DEF Telephony!ServeForward, Telephony!ServeLocal, Telephony!bt_hfp_agent_threeway_call,
                Telephony!libVars, Telephony!loopVars, Telephony!bluezVars
  <2> QED  BY <1>1, <2>1, HeadsetServedKeepsCount DEF Telephony!Serve
<1> QED  BY <1>1, <1>2, <1>3 DEF Telephony!Serve

\* What the application begins, or does at once.
LEMMA ApplicationKeepsCount == ASSUME CountInv, Telephony!Application PROVE CountInv'
<1>1. CASE Telephony!bluetooth_telephony_start_voice_recognition \/ Telephony!AudioCall
  <2>1. UNCHANGED countVars
    BY <1>1 DEF countVars, Telephony!bluetooth_telephony_start_voice_recognition, Telephony!AudioCall,
                Telephony!loopVars, Telephony!agentVars, Telephony!bluezVars
  <2> QED  BY <2>1, CountUntouched
<1>2. CASE Telephony!bluetooth_telephony_init /\ ~up
  <2>1. UNCHANGED countVars
    BY <1>2 DEF countVars, Telephony!bluetooth_telephony_init, Telephony!Begin, Telephony!bluezVars
  <2> QED  BY <2>1, CountUntouched
<1>3. ASSUME NEW name \in {"init", "deinit", "indicate", "answered", "end", "status", "set_status"},
             NEW id \in Nat, NEW audio \in BOOLEAN, NEW todo \in {<<>>, <<"ACTIVE">>},
             NEW what \in AskedBy(name), todo # <<>> => name = "status",
             Telephony!Begin, Telephony!dbus_method_send(Telephony!Op(name, id, audio, todo), what, id)
      PROVE  CountInv'
  <2>1. PICK op : op = Telephony!Op(name, id, audio, todo)
    OBVIOUS
  <2>2. todo \in Seq(Statuses)
    <3>1. <<>> \in Seq(Statuses) /\ <<"ACTIVE">> \in Seq(Statuses)
      BY DEF Statuses
    <3> QED  BY <3>1
  <2>3. op \in Operation /\ op.op = name /\ op.todo = todo
    BY <2>1, <2>2 DEF Telephony!Op, Operation
  <2>4. doing = Telephony!NoOp /\ UNCHANGED <<call_count, lost, calls>>
    BY <1>3 DEF Telephony!Begin, Telephony!bluezVars
  <2> QED  BY <1>3, <2>1, <2>3, <2>4, SendKeeps
<1>4. CASE Telephony!bluetooth_telephony_init /\ up
  <2>1. "Register" \in AskedBy("init") /\ FALSE \in BOOLEAN
    BY DEF AskedBy, OwnRequests, Counting
  <2> QED  BY <1>3, <1>4, <2>1 DEF Telephony!bluetooth_telephony_init
<1>5. CASE Telephony!bluetooth_telephony_deinit
  <2>1. "Unregister" \in AskedBy("deinit") /\ FALSE \in BOOLEAN
    BY DEF AskedBy, OwnRequests, Counting
  <2> QED  BY <1>3, <1>5, <2>1 DEF Telephony!bluetooth_telephony_deinit
<1>6. CASE Telephony!bluetooth_telephony_set_call_status
  <2>1. "ACTIVE" \in AskedBy("set_status") /\ FALSE \in BOOLEAN
    BY DEF AskedBy, OwnRequests, Counting, Statuses
  <2> QED  BY <1>3, <1>6, <2>1 DEF Telephony!bluetooth_telephony_set_call_status, Telephony!CallOp
<1>7. ASSUME NEW id \in Telephony!CallId, NEW audio \in BOOLEAN,
             \/ Telephony!bluetooth_telephony_indicate_outgoing_call(id, audio)
             \/ Telephony!bluetooth_telephony_call_answered(id, audio)
      PROVE  CountInv'
  <2>1. "Outgoing" \in AskedBy("indicate") /\ "ACTIVE" \in AskedBy("answered") /\ id \in Nat
    BY DEF AskedBy, OwnRequests, Counting, Statuses, Telephony!CallId
  <2>2. CASE Telephony!bluetooth_telephony_indicate_outgoing_call(id, audio)
    BY <1>3, <2>1, <2>2 DEF Telephony!bluetooth_telephony_indicate_outgoing_call, Telephony!CallOp
  <2>3. CASE Telephony!bluetooth_telephony_call_answered(id, audio)
    BY <1>3, <2>1, <2>3 DEF Telephony!bluetooth_telephony_call_answered, Telephony!CallOp
  <2> QED  BY <1>7, <2>2, <2>3
<1>8. ASSUME NEW id \in Telephony!CallId, Telephony!bluetooth_telephony_indicate_incoming_call(id)
      PROVE  CountInv'
  <2>1. "Incoming" \in AskedBy("indicate") /\ id \in Nat /\ FALSE \in BOOLEAN
    BY DEF AskedBy, Telephony!CallId
  <2> QED  BY <1>3, <1>8, <2>1 DEF Telephony!bluetooth_telephony_indicate_incoming_call, Telephony!CallOp
<1>9. ASSUME NEW id \in Telephony!CallId, Telephony!bluetooth_telephony_call_end(id)
      PROVE  CountInv'
  <2>1. "MT_RELEASE" \in AskedBy("end") /\ id \in Nat /\ FALSE \in BOOLEAN
    BY DEF AskedBy, Telephony!CallId
  <2> QED  BY <1>3, <1>9, <2>1 DEF Telephony!bluetooth_telephony_call_end, Telephony!CallOp
<1>10. ASSUME NEW id \in Telephony!CallId,
              Telephony!SendStatus(id) \/ Telephony!bluetooth_telephony_call_swapped(id)
       PROVE  CountInv'
  <2>1. "ACTIVE" \in AskedBy("status") /\ id \in Nat /\ FALSE \in BOOLEAN
    BY DEF AskedBy, OwnRequests, Counting, Statuses, Telephony!CallId
  <2>2. CASE Telephony!SendStatus(id)
    BY <1>3, <2>1, <2>2 DEF Telephony!SendStatus, Telephony!CallOp
  <2>3. CASE Telephony!bluetooth_telephony_call_swapped(id)
    BY <1>3, <2>1, <2>3 DEF Telephony!bluetooth_telephony_call_swapped, Telephony!CallOp
  <2> QED  BY <1>10, <2>2, <2>3
<1> QED  BY <1>1, <1>2, <1>4, <1>5, <1>6, <1>7, <1>8, <1>9, <1>10 DEF Telephony!Application

LEMMA DispatchKeepsCount == ASSUME CountInv, Telephony!Dispatch PROVE CountInv'
<1>1. PICK s : s = Head(app_in)
  OBVIOUS
<1>2. CASE Telephony!adapter_added_cb(s) /\ conn
  <2>1. PICK op : op = Telephony!Op("adapter", 0, FALSE, <<>>)
    OBVIOUS
  <2>2. op \in Operation /\ op.op = "adapter" /\ op.todo = <<>>
    BY <2>1 DEF Telephony!Op, Operation
  <2>3. "Register" \in AskedBy("adapter")
    BY DEF AskedBy, OwnRequests, Counting
  <2>4. doing = Telephony!NoOp /\ UNCHANGED <<call_count, lost, calls>>
    BY <1>2 DEF Telephony!Dispatch, Telephony!adapter_added_cb, Telephony!bluezVars
  <2>5. Telephony!dbus_method_send(op, "Register", 0)
    BY <1>2, <2>1 DEF Telephony!adapter_added_cb
  <2> QED  BY <2>2, <2>3, <2>4, <2>5, SendKeeps
<1>3. CASE ~(Telephony!adapter_added_cb(s) /\ conn)
  <2>1. UNCHANGED countVars
    BY <1>1, <1>3
       DEF countVars, Telephony!Dispatch, Telephony!event_filter, Telephony!Unheard,
           Telephony!name_owner_changed, Telephony!adapter_added_cb, Telephony!method_answer,
           Telephony!method_threeway, Telephony!bluezVars, Telephony!libVars
  <2> QED  BY <2>1, CountUntouched
<1> QED  BY <1>2, <1>3

LEMMA CountSteps == CountInv /\ [Telephony!Next]_telephonyVars => CountInv'
<1> SUFFICES ASSUME CountInv, [Telephony!Next]_telephonyVars PROVE CountInv'
  OBVIOUS
<1>1. CASE \/ Telephony!HeadsetSide \/ Telephony!BluezStarts \/ Telephony!Crash
           \/ Telephony!CallbackReturns \/ Telephony!AgentTimeout \/ UNCHANGED telephonyVars
  <2>1. UNCHANGED countVars
    BY <1>1 DEF countVars, telephonyVars, Telephony!HeadsetSide, Telephony!BluezStarts, Telephony!Crash,
                Telephony!CallbackReturns, Telephony!AgentTimeout, Telephony!libVars,
                Telephony!agentVars, Telephony!loopVars, Telephony!bluezVars
  <2> QED  BY <2>1, CountUntouched
<1> QED  BY <1>1, StopKeepsCount, AskKeepsCount, ApplicationKeepsCount, DispatchKeepsCount,
            TimeoutKeepsCount, ServeKeepsCount DEF Telephony!Next

LEMMA CountBegins == SumInit => CountInv
<1> SUFFICES ASSUME Telephony!Init PROVE CountInv
  BY DEF SumInit
<1>1. /\ call_count = 0 /\ lost = 0 /\ calls = {} /\ agent_in = <<>> /\ doing = Telephony!NoOp
  BY DEF Telephony!Init
<1>2. Late(agent_in) = {}
  BY <1>1 DEF Late
<1>3. IsFiniteSet({}) /\ Cardinality({}) = 0
  BY FS_EmptySet
<1>4. CountTyped
  BY <1>1, <1>3, NothingToDo DEF CountTyped
<1>5. Pending
  BY <1>1 DEF Pending
<1>6. Cardinality(calls) = 0 /\ Cardinality(Late(agent_in)) = 0
  BY <1>1, <1>2, <1>3
<1>7. Telephony!Distance(call_count, 0) + 0 <= lost
  BY <1>1 DEF Telephony!Distance
<1> QED  BY <1>4, <1>5, <1>6, <1>7 DEF CountInv

LEMMA CountExplained == CountInv => CountIsExplained
<1> SUFFICES ASSUME CountInv PROVE CountIsExplained
  OBVIOUS
<1>1. Cardinality(Late(agent_in)) \in Nat /\ Cardinality(calls) \in Nat /\ call_count \in Nat
  BY LateAreFinite, FS_CardinalityType DEF CountInv, CountTyped
<1> QED  BY <1>1, SameSize DEF CountInv, CountTyped, CountIsExplained, Telephony!CountIsExplained,
                               Telephony!Distance

\* Between two operations, the application and BlueZ differ in their number of calls by no
\* more than the replies that came too late and the calls BlueZ lost: for any number of
\* calls, headsets, requests and restarts.
THEOREM CountIsAlwaysExplained == SumSpec => []CountIsExplained
<1>1. CountInv /\ [SumNext]_sumVars => CountInv'
  <2> SUFFICES ASSUME CountInv, [SumNext]_sumVars PROVE CountInv'
    OBVIOUS
  <2>1. [Telephony!Next]_telephonyVars
    BY DEF SumNext, sumVars
  <2> QED  BY <2>1, CountSteps
<1>2. SumSpec => []CountInv
  BY <1>1, CountBegins, PTL DEF SumSpec
<1> QED  BY <1>2, CountExplained, PTL

(***************************************************************************)
(* Telephony: the state of the headset.                                    *)
(***************************************************************************)

HeadsetStates == {"connected", "playing", "disconnected"}
HeadsetSignal ==
  [kind : {"signal"}, property : {"State"}, value : HeadsetStates, from : Nat, epoch : Nat]
  \cup [kind : {"signal"}, property : {"Connected", "Playing"}, value : BOOLEAN, from : Nat, epoch : Nat]
BluezSignal ==
  [kind : {"signal"}, property : {"NameOwnerChanged", "AdapterAdded"}, value : BOOLEAN, from : Nat,
   epoch : Nat]
AppMessage == HeadsetSignal \cup BluezSignal \cup [kind : {"Forward", "Threeway"}]

\* The signals of the headset, and those that, if BlueZ has not been restarted since, say
\* how it is.
Early(epoch) == {m \in HeadsetSignal : m.epoch > epoch}
Right(epoch, state) == {m \in HeadsetSignal : m.epoch = epoch => Telephony!StateAfter(m) = state}

HeadsetIs == IF link = 0 THEN "disconnected" ELSE IF sco THEN "playing" ELSE "connected"

\* The signals that wait, and what the application knows without them.
Follows ==
  /\ app_in \in Seq(AppMessage) /\ restarts \in Nat /\ link \in Nat /\ {sco, known} \subseteq BOOLEAN
  /\ link = 0 => ~sco
  /\ ~Has(app_in, Early(restarts))
  /\ ~matched => ~Has(app_in, HeadsetSignal)
  /\ LastIn(app_in, HeadsetSignal, Right(restarts, HeadsetIs))
  /\ known => matched
  /\ known /\ ~Has(app_in, HeadsetSignal) => headset_state = HeadsetIs

\* The session of the library.
Session ==
  /\ filters \in Nat /\ {conn, matched} \subseteq BOOLEAN
  /\ conn => matched /\ (filters > 0 \/ doing.op = "deinit")
  /\ known => conn
  /\ doing # Telephony!NoOp => conn

HeadsetInv == Follows /\ Session

\* What BlueZ reports of a change: two signals, the second of which says how it is now.
LEMMA ReportTells ==
  ASSUME restarts \in Nat, NEW h \in Nat, NEW s \in {"connected", "playing", "silent", "disconnected"}
  PROVE  /\ Telephony!Report(h, s) \in Seq(AppMessage)
         /\ Has(Telephony!Report(h, s), HeadsetSignal)
         /\ ~Has(Telephony!Report(h, s), Early(restarts))
         /\ LastIn(Telephony!Report(h, s), HeadsetSignal,
                   Right(restarts, IF s = "silent" THEN "connected" ELSE s))
<1>1. PICK state : state = IF s = "silent" THEN "connected" ELSE s
  OBVIOUS
<1>2. PICK a : a = [kind |-> "signal", property |-> "State", value |-> state, from |-> h, epoch |-> restarts]
  OBVIOUS
<1>3. \E b : /\ Telephony!Report(h, s) = <<a, b>>
             /\ a \in HeadsetSignal /\ b \in HeadsetSignal
             /\ a.epoch = restarts /\ b.epoch = restarts
             /\ Telephony!StateAfter(b) = state
  <2>1. a \in HeadsetSignal /\ a.epoch = restarts
    BY <1>1, <1>2 DEF HeadsetSignal, HeadsetStates
  <2>2. CASE s = "connected"
    <3>1. PICK b : b = [kind |-> "signal", property |-> "Connected", value |-> TRUE, from |-> h,
                        epoch |-> restarts]
      OBVIOUS
    <3>2. Telephony!Report(h, s) = <<a, b>>
      BY <1>1, <1>2, <2>2, <3>1 DEF Telephony!Report, Telephony!Signal
    <3>3. b \in HeadsetSignal
      BY <3>1 DEF HeadsetSignal
    <3>4. b.epoch = restarts /\ b.property = "Connected" /\ b.value = TRUE
      BY <3>1
    <3>5. Telephony!StateAfter(b) = state
      BY <1>1, <2>2, <3>4 DEF Telephony!StateAfter
    <3> QED  BY <2>1, <3>2, <3>3, <3>4, <3>5
  <2>3. CASE s = "playing"
    <3>1. PICK b : b = [kind |-> "signal", property |-> "Playing", value |-> TRUE, from |-> h,
                        epoch |-> restarts]
      OBVIOUS
    <3>2. Telephony!Report(h, s) = <<a, b>>
      BY <1>1, <1>2, <2>3, <3>1 DEF Telephony!Report, Telephony!Signal
    <3>3. b \in HeadsetSignal
      BY <3>1 DEF HeadsetSignal
    <3>4. b.epoch = restarts /\ b.property = "Playing" /\ b.value = TRUE
      BY <3>1
    <3>5. Telephony!StateAfter(b) = state
      BY <1>1, <2>3, <3>4 DEF Telephony!StateAfter
    <3> QED  BY <2>1, <3>2, <3>3, <3>4, <3>5
  <2>4. CASE s = "silent"
    <3>1. PICK b : b = [kind |-> "signal", property |-> "Playing", value |-> FALSE, from |-> h,
                        epoch |-> restarts]
      OBVIOUS
    <3>2. Telephony!Report(h, s) = <<a, b>>
      BY <1>1, <1>2, <2>4, <3>1 DEF Telephony!Report, Telephony!Signal
    <3>3. b \in HeadsetSignal
      BY <3>1 DEF HeadsetSignal
    <3>4. b.epoch = restarts /\ b.property = "Playing" /\ b.value = FALSE
      BY <3>1
    <3>5. Telephony!StateAfter(b) = state
      BY <1>1, <2>4, <3>4 DEF Telephony!StateAfter
    <3> QED  BY <2>1, <3>2, <3>3, <3>4, <3>5
  <2>5. CASE s = "disconnected"
    <3>1. PICK b : b = [kind |-> "signal", property |-> "Connected", value |-> FALSE, from |-> h,
                        epoch |-> restarts]
      OBVIOUS
    <3>2. Telephony!Report(h, s) = <<a, b>>
      BY <1>1, <1>2, <2>5, <3>1 DEF Telephony!Report, Telephony!Signal
    <3>3. b \in HeadsetSignal
      BY <3>1 DEF HeadsetSignal
    <3>4. b.epoch = restarts /\ b.property = "Connected" /\ b.value = FALSE
      BY <3>1
    <3>5. Telephony!StateAfter(b) = state
      BY <1>1, <2>5, <3>4 DEF Telephony!StateAfter
    <3> QED  BY <2>1, <3>2, <3>3, <3>4, <3>5
  <2> QED  BY <2>2, <2>3, <2>4, <2>5
<1>4. PICK b : /\ Telephony!Report(h, s) = <<a, b>>
               /\ a \in HeadsetSignal /\ b \in HeadsetSignal
               /\ a.epoch = restarts /\ b.epoch = restarts
               /\ Telephony!StateAfter(b) = state
  BY <1>3
<1>5. a \notin Early(restarts) /\ b \notin Early(restarts) /\ b \in Right(restarts, state)
  BY <1>4 DEF Early, Right
<1>6. <<a, b>> \in Seq(AppMessage)
  BY <1>4 DEF AppMessage
<1>7. Has(<<a, b>>, HeadsetSignal) /\ ~Has(<<a, b>>, Early(restarts))
  BY <1>4, <1>5, TwoItems
<1>8. LastIn(<<a, b>>, HeadsetSignal, Right(restarts, state))
  BY <1>4, <1>5, TwoItems
<1> QED  BY <1>1, <1>4, <1>6, <1>7, <1>8

LEMMA Delivered ==
  ASSUME Follows, NEW h \in Nat, NEW s \in {"connected", "playing", "silent", "disconnected"},
         Telephony!Deliver(Telephony!Report(h, s))
  PROVE  /\ app_in' \in Seq(AppMessage)
         /\ ~Has(app_in', Early(restarts))
         /\ matched => Has(app_in', HeadsetSignal)
         /\ ~matched => ~Has(app_in', HeadsetSignal)
         /\ LastIn(app_in', HeadsetSignal, Right(restarts, IF s = "silent" THEN "connected" ELSE s))
<1>1. PICK r : r = Telephony!Report(h, s)
  OBVIOUS
<1>2. PICK state : state = IF s = "silent" THEN "connected" ELSE s
  OBVIOUS
<1>3. /\ r \in Seq(AppMessage) /\ Has(r, HeadsetSignal) /\ ~Has(r, Early(restarts))
      /\ LastIn(r, HeadsetSignal, Right(restarts, state))
  BY <1>1, <1>2, ReportTells DEF Follows
<1>4. /\ app_in \in Seq(AppMessage) /\ ~Has(app_in, Early(restarts))
      /\ ~matched => ~Has(app_in, HeadsetSignal)
  BY DEF Follows
<1>5. CASE matched
  <2>1. app_in' = app_in \o r
    BY <1>1, <1>5 DEF Telephony!Deliver
  <2>2. app_in \o r \in Seq(AppMessage)
    BY <1>3, <1>4
  <2>3. ~Has(app_in \o r, Early(restarts)) /\ Has(app_in \o r, HeadsetSignal)
    BY <1>3, <1>4, JoinedHas
  <2>4. LastIn(app_in \o r, HeadsetSignal, Right(restarts, state))
    BY <1>3, <1>4, JoinedLast
  <2> QED  BY <1>2, <1>5, <2>1, <2>2, <2>3, <2>4
<1>6. CASE ~matched
  <2>1. app_in' = app_in
    BY <1>6 DEF Telephony!Deliver
  <2>2. LastIn(app_in, HeadsetSignal, Right(restarts, state))
    BY <1>4, <1>6 DEF LastIn, Has
  <2> QED  BY <1>2, <1>4, <1>6, <2>1, <2>2
<1> QED  BY <1>5, <1>6

LEMMA OtherJoins ==
  ASSUME NEW q \in Seq(AppMessage), NEW m \in AppMessage \ HeadsetSignal
  PROVE  /\ Append(q, m) \in Seq(AppMessage)
         /\ Has(Append(q, m), HeadsetSignal) <=> Has(q, HeadsetSignal)
         /\ \A epoch : Has(Append(q, m), Early(epoch)) <=> Has(q, Early(epoch))
         /\ \A T : LastIn(q, HeadsetSignal, T) => LastIn(Append(q, m), HeadsetSignal, T)
<1>1. Append(q, m) = q \o <<m>> /\ <<m>> \in Seq(AppMessage)
  BY AppendJoins
<1>2. \A epoch : m \notin Early(epoch)
  BY DEF Early
<1>3. /\ ~Has(<<m>>, HeadsetSignal) /\ \A epoch : ~Has(<<m>>, Early(epoch))
      /\ \A T : LastIn(<<m>>, HeadsetSignal, T)
  BY <1>2, OneItem
<1>4. Has(q \o <<m>>, HeadsetSignal) <=> Has(q, HeadsetSignal)
  BY <1>1, <1>3, JoinedHas
<1>5. \A epoch : Has(q \o <<m>>, Early(epoch)) <=> Has(q, Early(epoch))
  BY <1>1, <1>3, JoinedHas
<1>6. \A T : LastIn(q, HeadsetSignal, T) => LastIn(q \o <<m>>, HeadsetSignal, T)
  BY <1>1, <1>3, JoinedLast
<1> QED  BY <1>1, <1>4, <1>5, <1>6

\* The library's own calls about the audio: it learns how the headset is from BlueZ, or from
\* the signals that its call brings about.
LEMMA AudioKeeps ==
  ASSUME Follows, UNCHANGED <<link, restarts, matched>>, known' \in BOOLEAN, known' => known,
         \/ Telephony!bluetooth_telephony_audio_open \/ Telephony!bluetooth_telephony_audio_close
         \/ Telephony!NoAudio
         \/ Telephony!get_connected_device_proxy(address) /\ UNCHANGED <<sco, app_in>>
  PROVE  Follows'
<1>1. CASE UNCHANGED <<sco, app_in>>
  <2>1. headset_state' = headset_state \/ headset_state' = HeadsetIs
    <3>1. ASSUME Telephony!get_connected_device_proxy(address)
          PROVE  headset_state' = headset_state \/ headset_state' = HeadsetIs
      <4>1. CASE proxy = 0 /\ up /\ Telephony!FoundAddress(address) # 0 /\ address = 0
        <5>1. link # 0
          BY <4>1 DEF Telephony!FoundAddress
        <5>2. headset_state' = IF sco THEN "playing" ELSE "connected"
          BY <3>1, <4>1 DEF Telephony!get_connected_device_proxy
        <5> QED  BY <5>1, <5>2 DEF HeadsetIs
      <4>2. CASE ~(proxy = 0 /\ up /\ Telephony!FoundAddress(address) # 0 /\ address = 0)
        BY <3>1, <4>2 DEF Telephony!get_connected_device_proxy
      <4> QED  BY <4>1, <4>2
    <3> QED  BY <3>1 DEF Telephony!bluetooth_telephony_audio_open, Telephony!NoAudio,
                         Telephony!bluetooth_telephony_audio_close
  <2>2. HeadsetIs' = HeadsetIs
    BY <1>1 DEF HeadsetIs
  <2>3. known /\ ~Has(app_in, HeadsetSignal) => headset_state' = HeadsetIs
    BY <2>1 DEF Follows
  <2> QED  BY <1>1, <2>2, <2>3 DEF Follows
<1>2. CASE ~UNCHANGED <<sco, app_in>>
  <2>1. /\ link # 0
        /\ \/ sco' = TRUE /\ Telephony!Deliver(Telephony!Report(link, "playing"))
           \/ sco' = FALSE /\ Telephony!Deliver(Telephony!Report(link, "silent"))
    <3>1. Telephony!bluetooth_telephony_audio_open \/ Telephony!bluetooth_telephony_audio_close
      BY <1>2 DEF Telephony!NoAudio
    <3>2. CASE Telephony!bluetooth_telephony_audio_open
      BY <1>2, <3>2 DEF Telephony!bluetooth_telephony_audio_open
    <3>3. CASE Telephony!bluetooth_telephony_audio_close
      <4>1. link # 0 \/ UNCHANGED <<sco, app_in>>
        BY <3>3 DEF Telephony!bluetooth_telephony_audio_close
      <4> QED  BY <1>2, <3>3, <4>1 DEF Telephony!bluetooth_telephony_audio_close
    <3> QED  BY <3>1, <3>2, <3>3
  <2>2. PICK s \in {"playing", "silent"} :
          /\ Telephony!Deliver(Telephony!Report(link, s))
          /\ sco' \in BOOLEAN /\ HeadsetIs' = (IF s = "silent" THEN "connected" ELSE s)
    BY <2>1 DEF HeadsetIs
  <2>3. /\ app_in' \in Seq(AppMessage)
        /\ ~Has(app_in', Early(restarts))
        /\ matched => Has(app_in', HeadsetSignal)
        /\ ~matched => ~Has(app_in', HeadsetSignal)
        /\ LastIn(app_in', HeadsetSignal, Right(restarts, IF s = "silent" THEN "connected" ELSE s))
    BY <2>2, Delivered DEF Follows
  <2> QED  BY <2>1, <2>2, <2>3 DEF Follows
<1> QED  BY <1>1, <1>2

\* Steps that change nothing of it.
headsetVars == <<app_in, restarts, link, sco, headset_state, matched>>
LEMMA FollowsUntouched ==
  ASSUME Follows, UNCHANGED headsetVars, known' \in BOOLEAN, known' => known PROVE Follows'
BY DEF headsetVars, Follows, HeadsetIs

LEMMA HeadsetSideKeeps == ASSUME HeadsetInv, Telephony!HeadsetSide PROVE HeadsetInv'
<1>1. PICK h, s :
        /\ h \in Nat /\ s \in {"connected", "playing", "silent", "disconnected"}
        /\ Telephony!Deliver(Telephony!Report(h, s))
        /\ link' \in Nat /\ sco' \in BOOLEAN /\ (link' = 0 => ~sco')
        /\ HeadsetIs' = (IF s = "silent" THEN "connected" ELSE s)
  <2>0. link \in Nat /\ (link = 0 => ~sco) /\ sco \in BOOLEAN
    BY DEF HeadsetInv, Follows
  <2>1. ASSUME NEW h \in Telephony!Headset, Telephony!Link(h)
        PROVE  /\ h \in Nat /\ Telephony!Deliver(Telephony!Report(h, "connected"))
               /\ link' \in Nat /\ sco' \in BOOLEAN /\ (link' = 0 => ~sco')
               /\ HeadsetIs' = "connected"
    <3>1. h \in Nat /\ h # 0
      BY DEF Telephony!Headset
    <3>2. link' = h /\ sco' = sco /\ link = 0
      BY <2>1 DEF Telephony!Link
    <3> QED  BY <2>0, <2>1, <3>1, <3>2 DEF Telephony!Link, HeadsetIs
  <2>2. ASSUME Telephony!Unlink
        PROVE  /\ Telephony!Deliver(Telephony!Report(link, "disconnected"))
               /\ link' \in Nat /\ sco' \in BOOLEAN /\ (link' = 0 => ~sco')
               /\ HeadsetIs' = "disconnected"
    BY <2>2 DEF Telephony!Unlink, HeadsetIs
  <2>3. ASSUME Telephony!Audio
        PROVE  \E s \in {"silent", "playing"} :
                 /\ Telephony!Deliver(Telephony!Report(link, s))
                 /\ link' \in Nat /\ sco' \in BOOLEAN /\ (link' = 0 => ~sco')
                 /\ HeadsetIs' = (IF s = "silent" THEN "connected" ELSE s)
    <3>1. link' = link /\ link # 0
      BY <2>3 DEF Telephony!Audio
    <3>2. CASE sco
      <4>1. sco' = FALSE
        BY <2>3, <3>2 DEF Telephony!Audio
      <4>2. Telephony!Deliver(Telephony!Report(link, "silent"))
        BY <2>3, <3>2 DEF Telephony!Audio
      <4> QED  BY <2>0, <3>1, <4>1, <4>2 DEF HeadsetIs
    <3>3. CASE ~sco
      <4>1. sco' = TRUE
        BY <2>3, <3>3 DEF Telephony!Audio
      <4>2. Telephony!Deliver(Telephony!Report(link, "playing"))
        BY <2>3, <3>3 DEF Telephony!Audio
      <4> QED  BY <2>0, <3>1, <4>1, <4>2 DEF HeadsetIs
    <3> QED  BY <3>2, <3>3
  <2> QED  BY <2>0, <2>1, <2>2, <2>3 DEF Telephony!HeadsetSide
<1>2. /\ app_in' \in Seq(AppMessage)
      /\ ~Has(app_in', Early(restarts))
      /\ matched => Has(app_in', HeadsetSignal)
      /\ ~matched => ~Has(app_in', HeadsetSignal)
      /\ LastIn(app_in', HeadsetSignal, Right(restarts, IF s = "silent" THEN "connected" ELSE s))
  BY <1>1, Delivered DEF HeadsetInv
<1>3. UNCHANGED <<restarts, matched, known, conn, filters, doing>>
  BY DEF Telephony!HeadsetSide, Telephony!libVars, Telephony!Link, Telephony!Unlink, Telephony!Audio,
         Telephony!boundVars
<1>4. Follows'
  BY <1>1, <1>2, <1>3 DEF HeadsetInv, Follows
<1>5. Session'
  BY <1>3 DEF HeadsetInv, Session
<1> QED  BY <1>4, <1>5 DEF HeadsetInv

\* What was reported before BlueZ stopped says nothing of the headset.
LEMMA StopKeepsHeadset == ASSUME HeadsetInv, Telephony!BluezStops PROVE HeadsetInv'
<1>1. /\ link' = 0 /\ sco' = FALSE /\ restarts' = restarts + 1 /\ known' = FALSE
      /\ UNCHANGED <<conn, filters, matched, doing>>
      /\ app_in' = IF conn THEN Append(app_in, Telephony!Signal("NameOwnerChanged", FALSE, 0)) ELSE app_in
  BY DEF Telephony!BluezStops, Telephony!libVars
<1>2. PICK m : m = [kind |-> "signal", property |-> "NameOwnerChanged", value |-> FALSE, from |-> 0,
                    epoch |-> restarts]
  OBVIOUS
<1>3. restarts \in Nat /\ app_in \in Seq(AppMessage)
  BY DEF HeadsetInv, Follows
<1>4. m \in AppMessage \ HeadsetSignal
  BY <1>2, <1>3 DEF AppMessage, BluezSignal, HeadsetSignal
<1>5. app_in' = app_in \/ app_in' = Append(app_in, m)
  BY <1>1, <1>2 DEF Telephony!Signal
<1>6. /\ app_in' \in Seq(AppMessage)
      /\ Has(app_in', HeadsetSignal) <=> Has(app_in, HeadsetSignal)
      /\ Has(app_in', Early(restarts)) <=> Has(app_in, Early(restarts))
  <2>1. CASE app_in' = app_in
    BY <1>3, <2>1
  <2>2. CASE app_in' = Append(app_in, m)
    BY <1>3, <1>4, <2>2, OtherJoins
  <2> QED  BY <1>5, <2>1, <2>2
<1>7. ASSUME NEW e, e \in HeadsetSignal, e \notin Early(restarts)
      PROVE  e \notin Early(restarts') /\ e \in Right(restarts', HeadsetIs')
  <2>1. e.epoch \in Nat
    BY <1>7 DEF HeadsetSignal
  <2> QED  BY <1>1, <1>3, <1>7, <2>1 DEF Early, Right
<1>8. ~Has(app_in', Early(restarts))
  BY <1>6 DEF HeadsetInv, Follows
<1>9. ~Has(app_in', Early(restarts')) /\ LastIn(app_in', HeadsetSignal, Right(restarts', HeadsetIs'))
  <2>1. Early(restarts') \subseteq HeadsetSignal
    BY DEF Early
  <2> QED  BY <1>7, <1>8, <2>1 DEF Has, LastIn
<1>10. Follows'
  <2>1. /\ restarts' \in Nat /\ link' \in Nat /\ {sco', known'} \subseteq BOOLEAN
        /\ (link' = 0 => ~sco') /\ ~known'
    <3>1. restarts' \in Nat /\ link' \in Nat
      BY <1>1, <1>3
    <3>2. ~sco' /\ ~known' /\ sco' \in BOOLEAN /\ known' \in BOOLEAN
      BY <1>1
    <3> QED  BY <3>1, <3>2
  <2>2. ~matched' => ~Has(app_in', HeadsetSignal)
    BY <1>1, <1>6 DEF HeadsetInv, Follows
  <2> QED  BY <1>6, <1>9, <2>1, <2>2 DEF Follows
<1>11. Session'
  BY <1>1 DEF HeadsetInv, Session
<1> QED  BY <1>10, <1>11 DEF HeadsetInv

\* Something else than a signal of the headset joins.
LEMMA OtherKeepsHeadset ==
  ASSUME Follows, NEW m \in AppMessage \ HeadsetSignal, app_in' = Append(app_in, m),
         UNCHANGED <<restarts, link, sco, headset_state, matched, known>>
  PROVE  Follows'
<1>1. app_in \in Seq(AppMessage) /\ HeadsetIs' = HeadsetIs
  BY DEF Follows, HeadsetIs
<1>2. /\ app_in' \in Seq(AppMessage)
      /\ Has(app_in', HeadsetSignal) <=> Has(app_in, HeadsetSignal)
      /\ Has(app_in', Early(restarts)) <=> Has(app_in, Early(restarts))
      /\ LastIn(app_in, HeadsetSignal, Right(restarts, HeadsetIs))
           => LastIn(app_in', HeadsetSignal, Right(restarts, HeadsetIs))
  BY <1>1, OtherJoins
<1> QED  BY <1>1, <1>2 DEF Follows

LEMMA StartKeepsHeadset == ASSUME HeadsetInv, Telephony!BluezStarts PROVE HeadsetInv'
<1>1. /\ UNCHANGED <<restarts, link, sco, headset_state, known, conn, filters, matched, doing>>
      /\ app_in' = IF conn THEN Append(app_in, Telephony!Signal("AdapterAdded", TRUE, 0)) ELSE app_in
  BY DEF Telephony!BluezStarts, Telephony!libVars, Telephony!boundVars
<1>2. PICK m : m = [kind |-> "signal", property |-> "AdapterAdded", value |-> TRUE, from |-> 0,
                    epoch |-> restarts]
  OBVIOUS
<1>3. restarts \in Nat /\ known \in BOOLEAN
  BY DEF HeadsetInv, Follows
<1>4. m \in AppMessage \ HeadsetSignal
  BY <1>2, <1>3 DEF AppMessage, BluezSignal, HeadsetSignal
<1>5. app_in' = app_in \/ app_in' = Append(app_in, m)
  BY <1>1, <1>2 DEF Telephony!Signal
<1>6. Follows'
  <2>1. CASE app_in' = app_in
    BY <1>1, <1>3, <2>1, FollowsUntouched DEF headsetVars, HeadsetInv
  <2>2. CASE app_in' = Append(app_in, m)
    BY <1>1, <1>4, <2>2, OtherKeepsHeadset DEF HeadsetInv
  <2> QED  BY <1>5, <2>1, <2>2
<1>7. Session'
  BY <1>1 DEF HeadsetInv, Session
<1> QED  BY <1>6, <1>7 DEF HeadsetInv

\* The reply to an operation, or its absence.
LEMMA ReplyKeepsHeadset ==
  ASSUME CountTyped, HeadsetInv, doing # Telephony!NoOp, NEW ok \in BOOLEAN, NEW uncounted,
         Telephony!Reply(ok, uncounted), UNCHANGED <<link, restarts>>
  PROVE  HeadsetInv'
<1>1. doing \in Operation /\ conn /\ conn \in BOOLEAN /\ filters \in Nat
  BY DEF CountTyped, HeadsetInv, Session
<1>2. UNCHANGED matched /\ known' = (known /\ doing.op # "deinit" /\ (doing.op = "init" => ok))
  BY DEF Telephony!Reply
<1>3. known' \in BOOLEAN /\ (known' => known)
  BY <1>2
<1>4. \/ Telephony!bluetooth_telephony_audio_open \/ Telephony!bluetooth_telephony_audio_close
      \/ Telephony!NoAudio
  <2>1. CASE doing.op = "end"
    BY <2>1 DEF Telephony!Reply, Telephony!call_end_reply
  <2>2. CASE doing.op = "indicate"
    BY <2>2 DEF Telephony!Reply, Telephony!indicate_reply
  <2>3. CASE doing.op = "answered"
    BY <2>3 DEF Telephony!Reply, Telephony!call_answered_reply
  <2>4. CASE doing.op \in {"init", "deinit", "adapter"}
    BY <2>4 DEF Telephony!Reply, Telephony!init_reply, Telephony!deinit_reply,
                Telephony!adapter_added_reply
  <2>5. CASE doing.op \in {"status", "set_status", "none"}
    BY <2>5 DEF Telephony!Reply, Telephony!set_call_status_reply
  <2> QED  BY <1>1, <2>1, <2>2, <2>3, <2>4, <2>5 DEF Operation
<1>5. Follows'
  BY <1>2, <1>3, <1>4, AudioKeeps DEF HeadsetInv
<1>6. /\ conn' \in BOOLEAN /\ filters' \in Nat /\ filters' >= filters
      /\ doing.op = "deinit" => ~conn'
      /\ doing.op = "init" => conn' = ok
      /\ doing.op \notin {"init", "deinit"} => conn' = conn
  <2>1. CASE doing.op \in {"end", "indicate", "answered", "status", "set_status", "none"}
    <3>1. UNCHANGED <<conn, filters>>
      BY <2>1 DEF Telephony!Reply
    <3>2. conn' \in BOOLEAN /\ conn' = conn
      BY <1>1, <3>1
    <3>3. filters' \in Nat /\ filters' >= filters
      BY <1>1, <3>1
    <3> QED  BY <2>1, <3>2, <3>3
  <2>2. CASE doing.op = "init"
    <3>1. conn' = ok /\ UNCHANGED filters
      BY <2>2 DEF Telephony!Reply, Telephony!init_reply
    <3> QED  BY <1>1, <2>2, <3>1
  <2>3. CASE doing.op = "deinit"
    <3>1. conn' = FALSE /\ UNCHANGED filters
      BY <2>3 DEF Telephony!Reply, Telephony!deinit_reply
    <3>2. conn' \in BOOLEAN /\ ~conn'
      BY <3>1
    <3>3. filters' \in Nat /\ filters' >= filters
      BY <1>1, <3>1
    <3> QED  BY <2>3, <3>2, <3>3
  <2>4. CASE doing.op = "adapter"
    <3>1. /\ filters' = IF ok THEN filters + 1 ELSE filters
          /\ UNCHANGED conn
      BY <2>4 DEF Telephony!Reply, Telephony!adapter_added_reply
    <3> QED  BY <1>1, <2>4, <3>1
  <2> QED  BY <1>1, <2>1, <2>2, <2>3, <2>4 DEF Operation
<1>7. doing' # Telephony!NoOp => doing.op = "status"
  BY DEF Telephony!Reply, Telephony!More, CountTyped
<1>8. /\ known' => conn'
      /\ doing' # Telephony!NoOp => conn'
      /\ conn' => matched' /\ filters' > 0
  <2>1. known' => conn'
    BY <1>1, <1>2, <1>6
  <2>2. doing' # Telephony!NoOp => conn'
    BY <1>1, <1>6, <1>7
  <2>3. conn' => filters > 0 /\ matched
    BY <1>1, <1>6 DEF HeadsetInv, Session
  <2> QED  BY <1>1, <1>2, <1>6, <2>1, <2>2, <2>3
<1>9. matched' \in BOOLEAN
  BY <1>2 DEF HeadsetInv, Session
<1>10. Session'
  BY <1>6, <1>8, <1>9 DEF Session
<1> QED  BY <1>5, <1>10 DEF HeadsetInv

LEMMA TimeoutKeepsHeadset ==
  ASSUME CountInv, HeadsetInv, Telephony!AppTimeout PROVE HeadsetInv'
<1>1. PICK ok \in BOOLEAN : ok = FALSE
  OBVIOUS
<1>2. PICK uncounted : uncounted = IF doing.op \in {"indicate", "end"} THEN 1 ELSE 0
  OBVIOUS
<1>3. Telephony!Reply(ok, uncounted) /\ doing # Telephony!NoOp /\ UNCHANGED <<link, restarts>>
  BY <1>1, <1>2 DEF Telephony!AppTimeout, Telephony!boundVars
<1> QED  BY <1>3, ReplyKeepsHeadset DEF CountInv

LEMMA ServeKeepsHeadset ==
  ASSUME CountInv, HeadsetInv, Telephony!Serve PROVE HeadsetInv'
<1>1. PICK r : r = Head(agent_in)
  OBVIOUS
<1>2. UNCHANGED restarts /\ agent_in # <<>>
  BY DEF Telephony!Serve, Telephony!boundVars
<1>3. CASE Telephony!ServeApplication(r) /\ r.waited
  <2>1. PICK ok \in BOOLEAN : ok = Telephony!CsdAccepts(r)
    BY DEF Telephony!CsdAccepts
  <2>2. Telephony!Reply(ok, 0) /\ UNCHANGED <<link, restarts>>
    BY <1>2, <1>3, <2>1 DEF Telephony!ServeApplication
  <2>3. agent_in \in Seq(AgentRequest)
    BY DEF CountInv, CountTyped
  <2>4. doing # Telephony!NoOp
    BY <1>1, <1>2, <1>3, <2>3, WaitsServed DEF CountInv, Pending
  <2> QED  BY <2>2, <2>4, ReplyKeepsHeadset DEF CountInv
<1>4. CASE (Telephony!ServeApplication(r) /\ ~r.waited) \/ Telephony!ServeLocal(r)
  <2>1. UNCHANGED headsetVars /\ UNCHANGED <<known, conn, filters, matched, doing>>
    BY <1>2, <1>4 DEF headsetVars, Telephony!ServeApplication, Telephony!ServeLocal, Telephony!libVars,
                      Telephony!loopVars
  <2>2. known' \in BOOLEAN /\ (known' => known)
    BY <2>1 DEF HeadsetInv, Follows
  <2> QED  BY <2>1, <2>2, FollowsUntouched DEF HeadsetInv, Session
<1>5. CASE Telephony!ServeForward(r) \/ Telephony!bt_hfp_agent_threeway_call(r)
  <2>1. UNCHANGED <<restarts, link, sco, headset_state, matched, known, conn, filters, doing>>
    BY <1>2, <1>5 DEF Telephony!ServeForward, Telephony!bt_hfp_agent_threeway_call, Telephony!libVars,
                      Telephony!bluezVars
  <2>2. PICK m \in [kind : {"Forward", "Threeway"}] : app_in' = Append(app_in, m)
    BY <1>5 DEF Telephony!ServeForward, Telephony!bt_hfp_agent_threeway_call
  <2>3. m \in AppMessage \ HeadsetSignal
    BY DEF AppMessage, HeadsetSignal
  <2> QED  BY <2>1, <2>2, <2>3, OtherKeepsHeadset DEF HeadsetInv, Session
<1> QED  BY <1>1, <1>3, <1>4, <1>5 DEF Telephony!Serve

\* What the application begins, or does at once.
LEMMA ApplicationKeepsHeadset ==
  ASSUME HeadsetInv, Telephony!Application PROVE HeadsetInv'
<1>1. CASE Telephony!bluetooth_telephony_start_voice_recognition \/ Telephony!AudioCall
  <2>1. UNCHANGED <<link, restarts, matched, known, conn, filters, doing>>
    BY <1>1 DEF Telephony!bluetooth_telephony_start_voice_recognition, Telephony!AudioCall,
                Telephony!loopVars, Telephony!bluezVars
  <2>2. \/ Telephony!bluetooth_telephony_audio_open \/ Telephony!bluetooth_telephony_audio_close
        \/ Telephony!get_connected_device_proxy(address) /\ UNCHANGED <<sco, app_in>>
    BY <1>1 DEF Telephony!bluetooth_telephony_start_voice_recognition, Telephony!AudioCall,
                Telephony!loopVars, Telephony!bluezVars
  <2>3. known' \in BOOLEAN /\ (known' => known)
    BY <2>1 DEF HeadsetInv, Follows
  <2>4. Follows'
    BY <2>1, <2>2, <2>3, AudioKeeps DEF HeadsetInv
  <2> QED  BY <2>1, <2>4 DEF HeadsetInv, Session
<1>2. ASSUME Telephony!Begin
      PROVE  /\ UNCHANGED <<app_in, restarts, link, sco, headset_state, known>>
             /\ doing = Telephony!NoOp /\ known' \in BOOLEAN /\ (known' => known)
             /\ conn => matched /\ filters > 0
  <2>1. /\ UNCHANGED <<app_in, restarts, link, sco, headset_state, known>>
        /\ doing = Telephony!NoOp
    BY <1>2 DEF Telephony!Begin, Telephony!bluezVars
  <2>2. conn => matched /\ filters > 0
    BY <2>1 DEF HeadsetInv, Session, Telephony!NoOp
  <2> QED  BY <2>1, <2>2 DEF HeadsetInv, Follows
<1>3. CASE Telephony!bluetooth_telephony_init
  <2>1. ~conn /\ conn' = TRUE /\ matched' = TRUE /\ filters' = filters + 1
    BY <1>3 DEF Telephony!bluetooth_telephony_init
  <2>2. /\ UNCHANGED <<app_in, restarts, link, sco, headset_state, known>>
        /\ known' \in BOOLEAN /\ HeadsetIs' = HeadsetIs
    BY <1>2, <1>3 DEF Telephony!bluetooth_telephony_init, HeadsetIs
  <2>3. filters \in Nat /\ ~known
    BY <2>1 DEF HeadsetInv, Session
  <2>4. matched' \in BOOLEAN /\ conn' \in BOOLEAN
    BY <2>1
  <2>5. Follows'
    BY <2>1, <2>2, <2>3 DEF HeadsetInv, Follows
  <2>6. Session'
    BY <2>1, <2>2, <2>3, <2>4 DEF Session
  <2> QED  BY <2>5, <2>6 DEF HeadsetInv
<1>4. CASE Telephony!bluetooth_telephony_deinit
  <2>1. /\ UNCHANGED <<conn, matched>> /\ conn /\ filters' = filters - 1 /\ doing'.op = "deinit"
    BY <1>4 DEF Telephony!bluetooth_telephony_deinit, Telephony!dbus_method_send, Telephony!Op
  <2>2. UNCHANGED headsetVars /\ UNCHANGED known /\ filters > 0
        /\ known' \in BOOLEAN /\ (known' => known)
    BY <1>2, <1>4, <2>1 DEF Telephony!bluetooth_telephony_deinit, headsetVars
  <2>3. Follows'
    BY <2>2, FollowsUntouched DEF HeadsetInv
  <2>4. filters' \in Nat
    BY <2>1, <2>2 DEF HeadsetInv, Session
  <2>5. Session'
    BY <2>1, <2>2, <2>4 DEF HeadsetInv, Session
  <2> QED  BY <2>3, <2>5 DEF HeadsetInv
<1>5. ASSUME Telephony!CallOp PROVE HeadsetInv'
  <2>1. UNCHANGED <<conn, filters, matched>> /\ conn
    BY <1>5 DEF Telephony!CallOp
  <2>2. UNCHANGED headsetVars /\ UNCHANGED known /\ filters > 0
        /\ known' \in BOOLEAN /\ (known' => known)
    BY <1>2, <1>5, <2>1 DEF Telephony!CallOp, headsetVars
  <2>3. Follows'
    BY <2>2, FollowsUntouched DEF HeadsetInv
  <2>4. Session'
    BY <2>1, <2>2 DEF HeadsetInv, Session
  <2> QED  BY <2>3, <2>4 DEF HeadsetInv
<1>6. ASSUME NEW id \in Telephony!CallId, NEW audio \in BOOLEAN,
             \/ Telephony!bluetooth_telephony_indicate_outgoing_call(id, audio)
             \/ Telephony!bluetooth_telephony_call_answered(id, audio)
      PROVE  HeadsetInv'
  BY <1>5, <1>6 DEF Telephony!bluetooth_telephony_indicate_outgoing_call,
                    Telephony!bluetooth_telephony_call_answered
<1>7. ASSUME NEW id \in Telephony!CallId,
             \/ Telephony!bluetooth_telephony_indicate_incoming_call(id)
             \/ Telephony!bluetooth_telephony_call_end(id)
             \/ Telephony!SendStatus(id) \/ Telephony!bluetooth_telephony_call_swapped(id)
      PROVE  HeadsetInv'
  BY <1>5, <1>7 DEF Telephony!bluetooth_telephony_indicate_incoming_call,
                    Telephony!bluetooth_telephony_call_end, Telephony!SendStatus,
                    Telephony!bluetooth_telephony_call_swapped
<1>8. CASE Telephony!bluetooth_telephony_set_call_status
  BY <1>5, <1>8 DEF Telephony!bluetooth_telephony_set_call_status
<1> QED  BY <1>1, <1>3, <1>4, <1>6, <1>7, <1>8 DEF Telephony!Application

\* The signal at the head has been seen.
LEMMA SeenKeeps ==
  ASSUME Follows, app_in # <<>>, app_in' = Tail(app_in), UNCHANGED <<restarts, link, sco, matched>>,
         known' \in BOOLEAN, known' => matched,
         \/ Head(app_in) \notin HeadsetSignal /\ UNCHANGED headset_state /\ (known' => known)
         \/ Head(app_in) \in HeadsetSignal /\ ~known'
         \/ /\ Head(app_in) \in HeadsetSignal /\ headset_state' = Telephony!StateAfter(Head(app_in))
            /\ known' => Head(app_in).epoch = restarts
  PROVE  Follows'
<1>1. PICK s : s = Head(app_in)
  OBVIOUS
<1>2. app_in \in Seq(AppMessage) /\ HeadsetIs' = HeadsetIs
  BY DEF Follows, HeadsetIs
<1>3. app_in' \in Seq(AppMessage)
  BY <1>2, RestItems
<1>4. Has(app_in, HeadsetSignal) <=> s \in HeadsetSignal \/ Has(app_in', HeadsetSignal)
  BY <1>1, <1>2, RestHas
<1>5. Has(app_in, Early(restarts)) <=> s \in Early(restarts) \/ Has(app_in', Early(restarts))
  BY <1>1, <1>2, RestHas
<1>6. /\ LastIn(app_in', HeadsetSignal, Right(restarts, HeadsetIs))
      /\ s \in HeadsetSignal /\ ~Has(app_in', HeadsetSignal) => s \in Right(restarts, HeadsetIs)
  BY <1>1, <1>2, RestLast DEF Follows
<1>7. known' /\ ~Has(app_in', HeadsetSignal) => headset_state' = HeadsetIs
  <2> SUFFICES ASSUME known', ~Has(app_in', HeadsetSignal) PROVE headset_state' = HeadsetIs
    OBVIOUS
  <2>1. CASE s \notin HeadsetSignal
    BY <1>1, <1>4, <2>1 DEF Follows
  <2>2. CASE s \in HeadsetSignal
    <3>1. s \in Right(restarts, HeadsetIs) /\ s.epoch = restarts
      BY <1>1, <1>6, <2>2
    <3>2. Telephony!StateAfter(s) = HeadsetIs
      BY <3>1 DEF Right
    <3> QED  BY <1>1, <2>2, <3>2
  <2> QED  BY <2>1, <2>2
<1> QED  BY <1>2, <1>3, <1>4, <1>5, <1>6, <1>7 DEF Follows

LEMMA DispatchKeepsHeadset ==
  ASSUME CountInv, HeadsetInv, Telephony!Dispatch PROVE HeadsetInv'
<1>1. PICK s : s = Head(app_in)
  OBVIOUS
<1>2. /\ app_in # <<>> /\ app_in' = Tail(app_in) /\ doing = Telephony!NoOp
      /\ UNCHANGED restarts
  BY DEF Telephony!Dispatch, Telephony!boundVars
<1>3. s \in AppMessage
  BY <1>1, <1>2 DEF HeadsetInv, Follows
<1>4. conn => matched /\ filters > 0
  BY <1>2 DEF HeadsetInv, Session, Telephony!NoOp
<1>5. known \in BOOLEAN /\ conn \in BOOLEAN /\ (known => conn)
  BY DEF HeadsetInv, Follows, Session
<1>6. CASE s.kind = "signal" /\ s.property \in {"State", "Connected", "Playing"} /\ Telephony!event_filter(s)
  <2>1. s \in HeadsetSignal
    BY <1>3, <1>6 DEF AppMessage, BluezSignal
  <2>2. /\ headset_state' = Telephony!StateAfter(s) /\ known' = (conn /\ s.epoch = restarts)
        /\ UNCHANGED <<conn, filters, matched, doing, link, sco>>
    BY <1>6 DEF Telephony!event_filter, Telephony!bluezVars
  <2>3. known' \in BOOLEAN /\ (known' => conn /\ s.epoch = restarts)
    BY <2>2
  <2>4. Follows'
    BY <1>1, <1>2, <1>4, <2>1, <2>2, <2>3, SeenKeeps DEF HeadsetInv
  <2>5. Session'
    BY <2>2, <2>3 DEF HeadsetInv, Session
  <2> QED  BY <2>4, <2>5 DEF HeadsetInv
<1>7. CASE s.kind = "signal" /\ s.property \in {"State", "Connected", "Playing"} /\ Telephony!Unheard(s)
  <2>1. s \in HeadsetSignal
    BY <1>3, <1>7 DEF AppMessage, BluezSignal
  <2>2. UNCHANGED <<conn, filters, matched, doing, link, sco, known>> /\ filters = 0
    BY <1>7 DEF Telephony!Unheard, Telephony!libVars, Telephony!bluezVars
  <2>3. known' \in BOOLEAN /\ ~known'
    BY <1>4, <1>5, <2>2
  <2>4. Follows'
    BY <1>1, <1>2, <2>1, <2>2, <2>3, SeenKeeps DEF HeadsetInv
  <2>5. Session'
    BY <2>2 DEF HeadsetInv, Session
  <2> QED  BY <2>4, <2>5 DEF HeadsetInv
<1>8. ASSUME s \notin HeadsetSignal,
             UNCHANGED <<conn, filters, matched, link, sco, known, headset_state>>,
             doing' # Telephony!NoOp => conn
      PROVE  HeadsetInv'
  <2>1. known' \in BOOLEAN /\ (known' => known) /\ (known' => matched)
    BY <1>4, <1>5, <1>8
  <2>2. Follows'
    BY <1>1, <1>2, <1>8, <2>1, SeenKeeps DEF HeadsetInv
  <2>3. Session'
    BY <1>4, <1>8 DEF HeadsetInv, Session
  <2> QED  BY <2>2, <2>3 DEF HeadsetInv
<1>9. CASE s.kind = "signal" /\ (Telephony!name_owner_changed(s) \/ Telephony!adapter_added_cb(s))
  <2>1. s.property \in {"NameOwnerChanged", "AdapterAdded"}
    BY <1>9 DEF Telephony!name_owner_changed, Telephony!adapter_added_cb
  <2>2. s \notin HeadsetSignal
    BY <2>1 DEF HeadsetSignal
  <2>3. UNCHANGED <<conn, filters, matched, link, sco, known, headset_state>>
    BY <1>9 DEF Telephony!name_owner_changed, Telephony!adapter_added_cb, Telephony!bluezVars
  <2>4. doing' # Telephony!NoOp => conn
    BY <1>2, <1>9 DEF Telephony!name_owner_changed, Telephony!adapter_added_cb
  <2> QED  BY <1>8, <2>2, <2>3, <2>4
<1>10. CASE \/ s.kind = "Forward" /\ Telephony!method_answer
            \/ s.kind = "Threeway" /\ Telephony!method_threeway
  <2>1. s \notin HeadsetSignal
    BY <1>10 DEF HeadsetSignal
  <2>2. UNCHANGED <<conn, filters, matched, link, sco, known, headset_state, doing>>
    BY <1>10 DEF Telephony!method_answer, Telephony!method_threeway, Telephony!libVars,
                 Telephony!bluezVars
  <2> QED  BY <1>2, <1>8, <2>1, <2>2
<1> QED  BY <1>1, <1>6, <1>7, <1>9, <1>10 DEF Telephony!Dispatch

\* The process starts anew, with nothing that waits.
LEMMA CrashKeepsHeadset == ASSUME HeadsetInv, Telephony!Crash PROVE HeadsetInv'
<1>1. /\ ~conn /\ filters' = 0 /\ matched' = FALSE /\ known' = FALSE /\ app_in' = <<>>
      /\ UNCHANGED <<conn, doing, link, sco, restarts>> /\ doing = Telephony!NoOp
  BY DEF Telephony!Crash, Telephony!bluezVars, Telephony!boundVars
<1>2. /\ ~matched' /\ ~known' /\ matched' \in BOOLEAN /\ known' \in BOOLEAN
  BY <1>1
<1>3. /\ app_in' \in Seq(AppMessage) /\ ~Has(app_in', HeadsetSignal) /\ ~Has(app_in', Early(restarts'))
      /\ LastIn(app_in', HeadsetSignal, Right(restarts', HeadsetIs'))
  BY <1>1, NoItem
<1>4. /\ restarts' \in Nat /\ link' \in Nat /\ sco' \in BOOLEAN /\ (link' = 0 => ~sco')
      /\ filters' \in Nat /\ conn' \in BOOLEAN
  BY <1>1 DEF HeadsetInv, Follows, Session
<1>5. Follows'
  BY <1>2, <1>3, <1>4 DEF Follows
<1>6. Session'
  BY <1>1, <1>2, <1>4 DEF Session
<1> QED  BY <1>5, <1>6 DEF HeadsetInv

LEMMA HeadsetSteps == CountInv /\ HeadsetInv /\ [Telephony!Next]_telephonyVars => HeadsetInv'
<1> SUFFICES ASSUME CountInv, HeadsetInv, [Telephony!Next]_telephonyVars PROVE HeadsetInv'
  OBVIOUS
<1>1. CASE \/ \E what \in {"Forward", "Threeway", "Local"} : Telephony!Ask(what)
           \/ Telephony!CallbackReturns \/ Telephony!AgentTimeout \/ UNCHANGED telephonyVars
  <2>1. UNCHANGED headsetVars /\ UNCHANGED <<known, conn, filters, matched, doing>>
    BY <1>1 DEF headsetVars, telephonyVars, Telephony!Ask, Telephony!CallbackReturns,
                Telephony!AgentTimeout, Telephony!libVars, Telephony!loopVars, Telephony!boundVars
  <2>2. known' \in BOOLEAN /\ (known' => known)
    BY <2>1 DEF HeadsetInv, Follows
  <2> QED  BY <2>1, <2>2, FollowsUntouched DEF HeadsetInv, Session
<1> QED  BY <1>1, HeadsetSideKeeps, StopKeepsHeadset, StartKeepsHeadset, ApplicationKeepsHeadset,
            DispatchKeepsHeadset, CrashKeepsHeadset, TimeoutKeepsHeadset, ServeKeepsHeadset
         DEF Telephony!Next

LEMMA HeadsetBegins == SumInit => HeadsetInv
<1> SUFFICES ASSUME Telephony!Init PROVE HeadsetInv
  BY DEF SumInit
<1>1. /\ app_in = <<>> /\ restarts = 0 /\ link = 0 /\ sco = FALSE /\ known = FALSE /\ matched = FALSE
      /\ conn = FALSE /\ filters = 0 /\ doing = Telephony!NoOp
  BY DEF Telephony!Init
<1>2. {sco, known, matched, conn} \subseteq BOOLEAN /\ ~sco /\ ~known /\ ~matched /\ ~conn
  BY <1>1
<1>3. Follows
  BY <1>1, <1>2, NoItem DEF Follows
<1>4. Session
  BY <1>1, <1>2 DEF Session
<1> QED  BY <1>3, <1>4 DEF HeadsetInv

LEMMA HeadsetFollowed == HeadsetInv => HeadsetStateFollows
<1> SUFFICES ASSUME HeadsetInv, known, \A i \in DOMAIN app_in : app_in[i].kind # "signal"
             PROVE  headset_state = HeadsetIs
  BY DEF HeadsetStateFollows, Telephony!HeadsetStateFollows, HeadsetIs
<1>1. app_in \in Seq(AppMessage)
  BY DEF HeadsetInv, Follows
<1>2. ~Has(app_in, HeadsetSignal)
  BY <1>1 DEF Has, HeadsetSignal
<1> QED  BY <1>2 DEF HeadsetInv, Follows

\* When the application has seen every signal, and one of them in this session of the library
\* and of BlueZ, headset_state is the state of BlueZ's headset: whatever was cached before,
\* however often BlueZ restarted and whatever the library did to the audio meanwhile.
THEOREM HeadsetStateAlwaysFollows == SumSpec => []HeadsetStateFollows
<1> DEFINE Inv == CountInv /\ HeadsetInv
<1>1. Inv /\ [SumNext]_sumVars => Inv'
  <2> SUFFICES ASSUME Inv, [SumNext]_sumVars PROVE Inv'
    OBVIOUS
  <2>1. [Telephony!Next]_telephonyVars
    BY DEF SumNext, sumVars
  <2> QED  BY <2>1, CountSteps, HeadsetSteps
<1>2. SumInit => Inv
  BY CountBegins, HeadsetBegins
<1>3. Inv => HeadsetStateFollows
  BY HeadsetFollowed
<1> HIDE DEF Inv
<1> QED  BY <1>1, <1>2, <1>3, PTL DEF SumSpec
=============================================================================
