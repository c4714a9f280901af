-------------------------------- MODULE Audio --------------------------------
(***************************************************************************)
(* Headset and A2DP: bluetooth_audio_*, bluetooth_ag_* and bluetooth_av_*  *)
(* (lib/bluetooth-audio-api.c).                                            *)
(*                                                                         *)
(* Every process that uses the library hears BlueZ's signals by itself and *)
(* writes what it hears to one vconf key, a set of bits, in two steps: it  *)
(* reads the key, then writes it back with one bit changed.                *)
(***************************************************************************)
EXTENDS Naturals, Sequences

CONSTANTS
  Proc,         \* processes that use the library
  MaxChanges,   \* bound on the changes of the headset's links
  MaxConnects,  \* bound on the connect calls
  MaxSessions   \* bound on the initialisations of a process

AudioAssumption ==
  /\ Proc # {} /\ {MaxChanges, MaxConnects, MaxSessions} \subseteq Nat

VARIABLES
  audio_conn,    \* the processes that are initialised
  ag_state, av_state,
  current_call,  \* the call proxy_deinit would cancel, by process; 0: NULL
  calls,         \* calls whose reply will still be delivered, by process
  inbox,         \* signals not yet dispatched, by process
  writing,       \* the change of the key a process is in the middle of
  \* vconf and BlueZ
  headset_bits,  \* BLUETOOTH_PHONE_STATUS_HEADSET_STATE, the bits that are set
  ag,            \* state of the headset's hands-free link
  av,            \* TRUE: its A2DP link is there
  \* ghosts and bounds
  in_step,       \* processes whose ag_state has met BlueZ's in this session
  stale,         \* TRUE: a change was written over by an older value of the key
  unheard,       \* bits nobody was there to change, or that AdapterRemoved left
  changes, connects, sessions

procVars == <<audio_conn, ag_state, av_state, current_call, calls, inbox, writing>>
bluezVars == <<ag, av, changes>>
ghosts == <<in_step, stale, unheard>>
vars == <<procVars, headset_bits, bluezVars, ghosts, connects, sessions>>

Bits == {"HEADSET", "A2DP"}
NotWriting == [bit |-> "none", on |-> FALSE, read |-> {}]

Init ==
  /\ audio_conn = {}
  /\ ag_state = [p \in Proc |-> "none"] /\ av_state = [p \in Proc |-> "none"]
  /\ current_call = [p \in Proc |-> 0] /\ calls = [p \in Proc |-> {}]
  /\ inbox = [p \in Proc |-> <<>>] /\ writing = [p \in Proc |-> NotWriting]
  /\ headset_bits = {} /\ ag = "disconnected" /\ av = FALSE
  /\ in_step = {} /\ stale = FALSE /\ unheard = {}
  /\ changes = 0 /\ connects = 0 /\ sessions = [p \in Proc |-> 0]

(***************************************************************************)
(* BlueZ (external): the links of one headset.                             *)
(***************************************************************************)

State(s) == [property |-> "State", value |-> s]
Connected(bit, on) == [property |-> "Connected", bit |-> bit, value |-> on]
Removed(bit) == [property |-> "AdapterRemoved", bit |-> bit]

Broadcast(msgs, bits) ==
  /\ changes < MaxChanges /\ changes' = changes + 1
  /\ inbox' = [p \in Proc |-> IF p \in audio_conn THEN inbox[p] \o msgs ELSE inbox[p]]
  /\ unheard' = IF audio_conn = {} THEN unheard \cup bits ELSE unheard
  /\ UNCHANGED <<audio_conn, ag_state, av_state, current_call, calls, writing, headset_bits,
                 in_step, stale, connects, sessions>>

AgChanges ==
  /\ UNCHANGED av
  /\ \/ /\ ag = "disconnected" /\ ag' = "connecting"
        /\ Broadcast(<<State("connecting")>>, {})
     \/ /\ ag \in {"connecting", "playing"} /\ ag' = "connected"
        /\ Broadcast(<<State("connected")>> \o
                     (IF ag = "connecting" THEN <<Connected("HEADSET", TRUE)>> ELSE <<>>), {"HEADSET"})
     \/ /\ ag = "connected" /\ ag' = "playing"
        /\ Broadcast(<<State("playing")>>, {})
     \/ /\ ag = "connecting" /\ ag' = "disconnected"
        /\ Broadcast(<<State("disconnected")>>, {})
     \/ /\ ag \in {"connected", "playing"} /\ ag' = "disconnected"
        /\ Broadcast(<<State("disconnected"), Connected("HEADSET", FALSE)>>, {"HEADSET"})

AvChanges ==
  /\ UNCHANGED ag
  /\ av' = ~av /\ Broadcast(<<Connected("A2DP", av')>>, {"A2DP"})

\* The adapter goes and the links with it, without a word about them.
AdapterGoes ==
  /\ ag # "disconnected" \/ av
  /\ ag' = "disconnected" /\ av' = FALSE
  /\ Broadcast(<<Removed("HEADSET"), Removed("A2DP")>>, Bits)

(***************************************************************************)
(* The application.                                                        *)
(***************************************************************************)

\* audio_info keeps what it held in the session before.
bluetooth_audio_init(p) ==
  /\ p \notin audio_conn /\ sessions[p] < MaxSessions
  /\ audio_conn' = audio_conn \cup {p}
  /\ sessions' = [sessions EXCEPT ![p] = @ + 1]
  /\ UNCHANGED <<ag_state, av_state, current_call, calls, inbox, writing, headset_bits,
                 bluezVars, ghosts, connects>>

\* Signals not yet dispatched are lost; of the calls the current one is cancelled.
bluetooth_audio_deinit(p) ==
  /\ p \in audio_conn /\ writing[p] = NotWriting
  /\ audio_conn' = audio_conn \ {p}
  /\ calls' = [calls EXCEPT ![p] = @ \ {current_call[p]}]
  /\ current_call' = [current_call EXCEPT ![p] = 0]
  /\ unheard' = unheard \cup {inbox[p][i].bit : i \in {j \in DOMAIN inbox[p] : inbox[p][j].property # "State"}}
  /\ inbox' = [inbox EXCEPT ![p] = <<>>]
  /\ in_step' = in_step \ {p}
  /\ UNCHANGED <<ag_state, av_state, writing, headset_bits, bluezVars, stale, connects, sessions>>

\* bluetooth_audio_connect, bluetooth_ag_connect and bluetooth_av_connect: the slot of
\* a call under way is simply overwritten.
audio_connect(p) ==
  /\ p \in audio_conn /\ writing[p] = NotWriting /\ connects < MaxConnects
  /\ connects' = connects + 1
  /\ calls' = [calls EXCEPT ![p] = @ \cup {connects'}]
  /\ current_call' = [current_call EXCEPT ![p] = connects']
  /\ UNCHANGED <<audio_conn, ag_state, av_state, inbox, writing, headset_bits, bluezVars,
                 ghosts, sessions>>

\* A failed A2DP call resets av_state, whatever the link is.
connect_cb(p, n) ==
  /\ n \in calls[p] /\ writing[p] = NotWriting
  /\ calls' = [calls EXCEPT ![p] = @ \ {n}]
  /\ current_call' = [current_call EXCEPT ![p] = 0]
  /\ \/ UNCHANGED av_state
     \/ av_state' = [av_state EXCEPT ![p] = "none"]
  /\ UNCHANGED <<audio_conn, ag_state, inbox, writing, headset_bits, bluezVars, ghosts,
                 connects, sessions>>

(***************************************************************************)
(* The signal filters.                                                     *)
(***************************************************************************)

AgMoves ==
  [connecting |-> {"connected", "disconnected"},
   connected |-> {"playing", "disconnected"},
   playing |-> {"connected", "disconnected"},
   disconnected |-> {"connecting"}]

Allowed(from, to) == from = "none" \/ to \in AgMoves[from]

ag_state_event_handler(p, s) ==
  LET next == IF Allowed(ag_state[p], s) THEN s ELSE ag_state[p]
  IN /\ ag_state' = [ag_state EXCEPT ![p] = next]
     /\ in_step' = IF next = s /\ Allowed(ag_state[p], s) THEN in_step \cup {p} ELSE in_step
     /\ UNCHANGED <<av_state, writing, unheard>>

Begin(p, bit, on) == writing' = [writing EXCEPT ![p] = [bit |-> bit, on |-> on, read |-> headset_bits]]

\* The first half of the handlers: av_state is set, then the key is read.
Connected_changes(p, msg) ==
  /\ Begin(p, msg.bit, msg.value)
  /\ av_state' = IF msg.bit = "HEADSET" THEN av_state
                 ELSE [av_state EXCEPT ![p] = IF msg.value THEN "connected" ELSE "disconnected"]
  /\ UNCHANGED <<ag_state, in_step, unheard>>

\* AdapterRemoved counts only in the state CONNECTED; a headset that plays is not it.
AdapterRemoved(p, bit) ==
  LET state == IF bit = "HEADSET" THEN ag_state[p] ELSE av_state[p] IN
  IF state = "connected"
  THEN /\ Begin(p, bit, FALSE)
       /\ av_state' = IF bit = "A2DP" THEN [av_state EXCEPT ![p] = "disconnected"] ELSE av_state
       /\ UNCHANGED <<ag_state, in_step, unheard>>
  ELSE /\ unheard' = unheard \cup {bit}
       /\ in_step' = IF bit = "HEADSET" THEN in_step \ {p} ELSE in_step
       /\ UNCHANGED <<ag_state, av_state, writing>>

Dispatch(p) ==
  /\ p \in audio_conn /\ inbox[p] # <<>> /\ writing[p] = NotWriting
  /\ inbox' = [inbox EXCEPT ![p] = Tail(@)]
  /\ LET msg == Head(inbox[p])
     IN \/ msg.property = "State" /\ ag_state_event_handler(p, msg.value)
        \/ msg.property = "Connected" /\ Connected_changes(p, msg)
        \/ msg.property = "AdapterRemoved" /\ AdapterRemoved(p, msg.bit)
  /\ UNCHANGED <<audio_conn, current_call, calls, headset_bits, bluezVars, stale, connects, sessions>>

\* Mutant: the bit is toggled without a look at it.
WithBit_toggled(bits, bit, on) ==
  IF on THEN bits \cup {bit} ELSE (bits \ {bit}) \cup ({bit} \ bits)

WithBit(bits, bit, on) == IF on THEN bits \cup {bit} ELSE bits \ {bit}

\* The second half: the key is written, and the headset's link is down or up.
WriteKey(p) ==
  LET w == writing[p] IN
  /\ w # NotWriting
  /\ writing' = [writing EXCEPT ![p] = NotWriting]
  /\ headset_bits' = WithBit(w.read, w.bit, w.on)
  /\ ag_state' = IF w.bit = "HEADSET" /\ ~w.on THEN [ag_state EXCEPT ![p] = "disconnected"] ELSE ag_state
  /\ stale' = (stale \/ w.read \ {w.bit} # headset_bits \ {w.bit})
  /\ unheard' = unheard \ {w.bit}
  /\ UNCHANGED <<audio_conn, av_state, current_call, calls, inbox, bluezVars, in_step,
                 connects, sessions>>

Next ==
  \/ AgChanges \/ AvChanges \/ AdapterGoes
  \/ \E p \in Proc :
       \/ bluetooth_audio_init(p) \/ bluetooth_audio_deinit(p)
       \/ audio_connect(p) \/ (\E n \in 1..MaxConnects : connect_cb(p, n))
       \/ Dispatch(p) \/ WriteKey(p)

Spec == Init /\ [][Next]_vars

(***************************************************************************)
(* Properties                                                              *)
(***************************************************************************)

Quiet(p) == inbox[p] = <<>> /\ writing[p] = NotWriting

\* When every process has dealt with its signals, the key has the bits of the links
\* that are up, however the processes took turns; but for a write with an older value
\* of the key, and for changes nobody heard or AdapterRemoved passed over
\* (__bluetooth_ag_handle_connect, __bluetooth_ag_handle_disconnect and those of A2DP).
HeadsetBitsTrue ==
  ~stale /\ (\A p \in audio_conn : Quiet(p)) =>
    \A bit \in Bits \ unheard :
      bit \in headset_bits <=> IF bit = "HEADSET" THEN ag \in {"connected", "playing"} ELSE av

\* Once in step, ag_state stays in step: no change of the headset's state is refused by
\* the state machine of __bluetooth_set_ag_state, nor undone by the Connected handlers.
AgStateFollows == \A p \in in_step : Quiet(p) => ag_state[p] = ag
=============================================================================
