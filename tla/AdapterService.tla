--------------------------- MODULE AdapterService ---------------------------
(***************************************************************************)
(* What the library promises an application about switching the adapter on *)
(* and off (bluetooth_enable_adapter, bluetooth_disable_adapter and their  *)
(* events): at most one change at a time, every change ended by one        *)
(* outcome, every outcome told, and no failure told that ended nothing.    *)
(* How the outcome is found - calls, timer, signals, proxies - is not here; *)
(* GapAdapter implements it.                                               *)
(***************************************************************************)

VARIABLES
  open,       \* the application has a session
  listening,  \* and a callback
  view,       \* what bluetooth_check_adapter would say
  told        \* the event of the step

vars == <<open, listening, view, told>>

Silent == [name |-> "NO_EVENT", result |-> "NONE"]
Settled == {"ENABLED", "DISABLED"}
Reasons == {"TIMEOUT", "CANCEL_BY_USER"}

\* The change asked for in a settled state.
Change(state) == IF state = "ENABLED" THEN "CHANGING_DISABLE" ELSE "CHANGING_ENABLE"

\* The settled state a change leaves, and the one it is to reach.
Source(change) == IF change = "CHANGING_ENABLE" THEN "DISABLED" ELSE "ENABLED"
Target(change) == IF change = "CHANGING_ENABLE" THEN "ENABLED" ELSE "DISABLED"

Tell(name, result) ==
  told' = IF listening THEN [name |-> name, result |-> result] ELSE Silent

Init == open = FALSE /\ listening = FALSE /\ view = "DISABLED" /\ told = Silent

\* A session opens with the adapter as it is found.
Found == IF open THEN {view} ELSE {view} \cup Settled

\* A call of the application tells nothing.  It changes the view by opening the
\* session, or by the change it asks for, which only a settled adapter takes.
Call ==
  /\ open' = TRUE /\ told' = Silent
  /\ listening' \in {listening, TRUE}
  /\ \E found \in Found :
       view' = found \/ (found \in Settled /\ view' \in {Change("ENABLED"), Change("DISABLED")})

Close == open /\ open' = FALSE /\ listening' = FALSE /\ told' = Silent /\ UNCHANGED view

\* The adapter is there or gone, whoever made it so.
Outcome(state) ==
  /\ open /\ view' = state
  /\ Tell(state, "NONE")
  /\ UNCHANGED <<open, listening>>

\* A change fails: the view is what it was before it.
Failure(reason) ==
  /\ view \notin Settled
  /\ view' = Source(view)
  /\ Tell(Target(view), reason)
  /\ UNCHANGED <<open, listening>>

\* What happens inside is not seen.
Quiet == told' = Silent /\ UNCHANGED <<open, listening, view>>

Next ==
  \/ Call \/ Close \/ Quiet
  \/ \E state \in Settled : Outcome(state)
  \/ \E reason \in Reasons : Failure(reason)

Spec == Init /\ [][Next]_vars
=============================================================================
