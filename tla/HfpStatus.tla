------------------------------ MODULE HfpStatus ------------------------------
(***************************************************************************)
(* What the hands-free agent tells BlueZ of the phone: battery, signal and *)
(* registration (bluetooth-hfp-agent/bluetooth-hfp-agent.c, main and the   *)
(* vconf callbacks).                                                       *)
(*                                                                         *)
(* main sends every value, then subscribes to the keys, then runs its main *)
(* loop.  A change between the two is not seen, and the roaming key is     *)
(* never subscribed to, so BlueZ keeps the old value until the next change *)
(* of the battery, the signal or the service.  Reading a key, SetProperty  *)
(* and a subscription may fail, which is logged and no more; nothing is    *)
(* sent again, also when BlueZ was restarted and has forgotten it.         *)
(***************************************************************************)
EXTENDS Naturals, FiniteSets

CONSTANTS
  Levels,    \* battery levels, in percent
  MaxChanges \* bound on the changes of the keys, the failures and the restarts

ASSUME HfpStatusAssumption == Levels \subseteq 0..100 /\ Levels # {} /\ MaxChanges \in Nat

VARIABLES
  vconf,      \* the keys: battery, rssi, service, roam
  notices,    \* subscribed keys whose change the main loop has still to see
  subscribed,
  step,       \* how far main has come
  sent,       \* what BlueZ was told last, by property; NotSet before
  \* ghosts and bound
  missed,     \* properties that changed when no notice could come of it
  unsent,     \* properties whose last sending failed, or that BlueZ has forgotten
  deaf,       \* keys whose subscription failed
  changes

ghosts == <<missed, unsent, deaf>>
vars == <<vconf, notices, subscribed, step, sent, ghosts, changes>>

NotSet == 255
HOME == 0
ROAMING == 1
UNKOWN == 9
Services == {"NOSVC", "SEARCH", "VOICE"}
Key == {"battery", "rssi", "service", "roam"}
Property == {"BatteryBars", "SignalBars", "Registration"}
Values(key) == CASE key = "battery" -> Levels
                 [] key = "rssi"    -> 0..1
                 [] key = "service" -> Services
                 [] key = "roam"    -> 0..1

\* The property a key decides.
Tells(key) == CASE key = "battery" -> "BatteryBars"
                [] key = "rssi"    -> "SignalBars"
                [] OTHER           -> "Registration"

Init ==
  /\ vconf = [key \in Key |-> CHOOSE v \in Values(key) : TRUE]
  /\ notices = {} /\ subscribed = {} /\ step = 0
  /\ sent = [p \in Property |-> NotSet]
  /\ missed = {} /\ unsent = {} /\ deaf = {} /\ changes = 0

Bounded == changes < MaxChanges /\ changes' = changes + 1

(***************************************************************************)
(* The phone and BlueZ (external).                                         *)
(***************************************************************************)

\* Keys change at any time.
Change(key, v) ==
  /\ Bounded /\ v # vconf[key]
  /\ vconf' = [vconf EXCEPT ![key] = v]
  /\ IF key \in subscribed
     THEN notices' = notices \cup {key} /\ UNCHANGED missed
     ELSE /\ notices' = notices
          /\ missed' = IF step < 6 \/ key \in deaf \cup {"roam"}
                       THEN missed \cup {Tells(key)} ELSE missed
  /\ UNCHANGED <<subscribed, step, sent, unsent, deaf>>

\* BlueZ is started again; the agent does not watch its name.
BluezRestarts ==
  /\ Bounded
  /\ sent' = [p \in Property |-> NotSet] /\ unsent' = Property
  /\ UNCHANGED <<vconf, notices, subscribed, step, missed, deaf>>

(***************************************************************************)
(* The agent.                                                              *)
(***************************************************************************)

BatteryBars(level) == IF level < 5 THEN 0 ELSE IF level >= 100 THEN 5 ELSE level \div 20 + 1

Registration(service, roam) ==
  CASE service \in {"NOSVC", "SEARCH"} -> UNKOWN
    [] roam = 0                        -> HOME
    [] roam = 1                        -> ROAMING

ValueOf(p) ==
  CASE p = "BatteryBars"  -> BatteryBars(vconf["battery"])
    [] p = "SignalBars"   -> vconf["rssi"]
    [] p = "Registration" -> Registration(vconf["service"], vconf["roam"])

\* The key is read and the property set.  When either fails nothing was set, or it was
\* and the reply came too late.
send_changed(p) ==
  LET told == [sent EXCEPT ![p] = ValueOf(p)]
  IN /\ \/ /\ sent' = told /\ UNCHANGED changes
           /\ missed' = missed \ {p} /\ unsent' = unsent \ {p}
        \/ /\ sent' = told \/ sent' = sent
           /\ Bounded
           /\ unsent' = unsent \cup {p} /\ UNCHANGED missed
     /\ UNCHANGED deaf

Order == <<"BatteryBars", "SignalBars", "Registration">>

\* Mutant: the service key is not subscribed to.
Subscriptions_no_service == <<"battery", "rssi", "rssi">>

Subscriptions == <<"battery", "rssi", "service">>

send_vconf_values ==
  /\ step < 3 /\ step' = step + 1
  /\ send_changed(Order[step + 1])
  /\ UNCHANGED <<vconf, notices, subscribed>>

subscribe_vconf_updates ==
  /\ step \in 3..5 /\ step' = step + 1
  /\ \/ subscribed' = subscribed \cup {Subscriptions[step - 2]} /\ UNCHANGED <<deaf, changes>>
     \/ deaf' = deaf \cup {Subscriptions[step - 2]} /\ Bounded /\ UNCHANGED subscribed
  /\ UNCHANGED <<vconf, notices, sent, missed, unsent>>

\* The value is that of the key when the callback runs; the roaming key is read anew.
vconf_cb(key) ==
  /\ step = 6 /\ key \in notices
  /\ notices' = notices \ {key}
  /\ send_changed(Tells(key))
  /\ UNCHANGED <<vconf, subscribed, step>>

\* SIGTERM: the subscriptions are released, and the agent is started again.
sigterm ==
  /\ step = 6 /\ Bounded
  /\ step' = 0 /\ notices' = {} /\ subscribed' = {} /\ deaf' = {}
  /\ missed' = missed \cup {Tells(key) : key \in notices}
  /\ UNCHANGED <<vconf, sent, unsent>>

Next ==
  \/ \E key \in Key : \E v \in Values(key) : Change(key, v)
  \/ BluezRestarts
  \/ send_vconf_values \/ subscribe_vconf_updates
  \/ \E key \in Key : vconf_cb(key)
  \/ sigterm

Spec == Init /\ [][Next]_vars

(***************************************************************************)
(* Properties                                                              *)
(***************************************************************************)

\* When the main loop has nothing left to do, BlueZ has the phone's values, but for
\* what changed when the agent could not see it (before the subscription, by roaming
\* alone, a key whose subscription failed) and what was lost afterwards (a failed
\* SetProperty, a BlueZ that was restarted); and the next value that arrives makes up
\* for both (main, vconf callbacks).
StatusFollows ==
  step = 6 /\ notices = {} =>
    \A p \in Property \ (missed \cup unsent) : sent[p] = ValueOf(p)
=============================================================================
