# A TLA+ model of the Tizen Bluetooth framework

The repository is the layer between Bluetooth applications and BlueZ 4: a C
library (`lib/`) every Bluetooth application links, a daemon that serves it and
BlueZ (`bluetooth-frwk-agent/`), and profile daemons (hands-free, phone book,
messages, media control). This directory models the parts that keep state over
several D-Bus messages, checks them with TLC and proves nearly all that is checked,
but for liveness, for every value of the bounds with TLAPS.

Contents: 1 the system, 2 what is hard in it, 3 the modules, 4 the runs,
5 fairness, 6 the proofs, 7 where code and documents disagree, 8 what is not
modelled, 9 the plan.

## 1. The system

Every process runs GLib's main loop in one thread. Code runs in *handlers*: an
API call of the application, the reply of an asynchronous D-Bus call, a D-Bus
signal, a timer, an idle callback, or an input watch on a descriptor. A handler
runs to its end, so it is one atomic step; what interleaves are the handlers of
one process with each other and with the steps of the other processes. A
*blocking* D-Bus call inside a handler sees the other process as it is at that
moment, while signals sent before it still wait in the queue of the caller. That
difference, between what is asked now and what was signalled before, is behind
most of the hard behaviour below.

| Part | Source | State | Operations | Talks to |
|---|---|---|---|---|
| Adapter power (library) | `lib/bluetooth-gap-api.c`, `bluetooth-api-common.c` | `bt_info`: adapter state, change timer, the proxies | register/unregister callback, enable, disable; AdapterAdded/Removed, agent's reply, timer | agent (`ConfirmMode`), BlueZ signals |
| Stack power (daemon) | `bluetooth-frwk-agent/bluetooth-agent.c`, `sc_core_agent.c` | `bt_status`, destroy timer, registration on the adapter | start, ConfirmMode, flight mode, AdapterAdded, loss of BlueZ's name, end | scripts `bt-stack-up.sh`/`-down.sh`, BlueZ |
| Discovery | same as adapter power | `is_discovering`, `is_discovery_cancel`, 2 s request timer, 200 ms result timer | start, cancel; `Discovering` signal, timers | BlueZ |
| Bonding | same | address, flag and timer of *the* request, headset retry flags, device proxies | bond, cancel, unbond; reply, timeout, DeviceCreated/Removed, Paired | BlueZ |
| Pairing and authorization (daemon) | `sc_core_agent.c`, `bluetooth-agent-cb.c` | one reply slot (`exec_type`, `reply_context`), IgnoreAutoPairing | the agent methods of BlueZ, replies of popups and applications | BlueZ, bt-syspopup, library |
| Discoverable mode | gap-api, api-common, `sc_core_agent.c` | two BlueZ properties; the agent's seconds left | set mode; two property signals, one second timer | BlueZ; every process with the library |
| Object push client | `bluetooth-opc-api.c`, `obex-agent.c` | the agent object, the current transfer, the pending SendFiles, a cancel flag | init, deinit, push, cancel; the agent's callbacks | obex-client |
| RFCOMM server | `bluetooth-rfcomm-api.c` | five slots: proxy, server socket, client socket and watch | create, listen, disconnect, remove; accept, data/hang-up | BlueZ serial proxies, local sockets |
| Object push server | `bluetooth-obex-server-api.c` | the agent object, one slot for the call to answer, the transfers, `auto_authorize` | init, deinit, accept and reject a push or a connection, cancel; Authorize, TransferStarted, TransferCompleted | obexd, the framework agent |
| RFCOMM client | `bluetooth-rfcomm-api.c` | `connecting_uuid`, `rfcomm_proxy`, the table of ttys | connect (two calls), cancel, disconnect; replies, hang-ups | BlueZ's `Serial` |
| Service discovery | `bluetooth-sdp-api.c`, `bluetooth-api-common.c` | `is_service_req`, one address, the device proxies | search, cancel, session; three replies, `UUIDs`, DeviceCreated/Removed, AdapterAdded/Removed | BlueZ |
| Audio | `bluetooth-audio-api.c` | `ag_state`, `av_state`, the call under way; a vconf key all processes write | init, deinit, connects; `PropertyChanged`, AdapterRemoved | BlueZ, vconf |
| HID host | `bluetooth-hid-api.c` | one proxy slot, the requests | init, deinit, connect, disconnect; replies, `Connected` | BlueZ |
| Network | `bluetooth-network-api.c`, `bluetooth-api-common.c` | the server's proxy, the client's filter | (de)activate, connect, disconnect; AdapterAdded/Removed, peers and links | BlueZ |
| Health device | `bluetooth-hdp-api.c` | applications, their channels, descriptors and watches | (de)activate; ChannelConnected/Deleted, hang-up, idle destruction | BlueZ |
| Telephony library, hands-free agent | `bluetooth-telephony/`, `bluetooth-hfp-agent/` | calls and their count, the headset's state and path; the application served; what of the phone BlueZ was told | register, calls, audio, answers; the headset's requests; vconf keys | each other, both blocking; BlueZ, vconf |
| Phone book agent | `bluetooth-pb-agent/` | the index of the folder listed last | folders, listings, cards, sizes; changes of the data, 600 s timer | obexd, BlueZ, contacts service |
| RFCOMM authorization, GATT, AVRCP, MAP agent, media control, local name, popups | `lib/`, their directories | see PROJECT.json | | BlueZ, obexd |

What makes each one correct:

* power: a change the library starts ends, with an event that names the state the
  adapter then has; library and daemon agree with BlueZ when nothing is under way;
* discovery: a running discovery is known, its end is reported once and not while
  one runs;
* bonding: one timer, belonging to the request that is there; every request ends;
* agent: a request of BlueZ is answered at most once and the slot never keeps a
  finished one;
* visibility: every process reports the mode the adapter is in; a time limit ends it;
* object push: the callbacks come in the order the assertions in the code expect,
  each started transfer is completed, and no agent is kept;
* object push server: an answer reaches the push it is about, what is let in unasked was
  permitted, the list of transfers is that of obexd;
* RFCOMM: no watch outlives its descriptor, and a descriptor leads to its own slot; a
  connect is told about itself, and no port stays connected that nobody can use;
* profiles: what was told (links, peers, channels, headsets, search results) is what there
  is once the signals are dispatched, or one of the named things the code loses, and no
  session hears of the one before;
* hands-free: the calls the library counts are those BlueZ has, its headset is the
  one there is, requests of the headset are answered, the phone's status arrives unless
  its sending fails, and then with the next change;
* phone book: a handle leads to the entry it was given for, and pages join.

## 2. What is hard

* **Old signal, new answer.** A handler compares a signal that waited with a
  blocking call made now: discovery's 200 ms timer, `DiscoverableTimeout`,
  `bluetooth_check_adapter` before every API call.
* **Timer against late answer.** Change timer, request timer, bonding timer, each
  racing the reply that should remove it, and retries that start it again.
* **One slot for many.** One bonding address, one reply context, one current
  transfer, one client per RFCOMM slot; the answer does not say what it is for.
* **Waiting in a circle.** The application blocks on the hands-free agent, the agent on
  the application; a nested main loop dispatches what its caller did not expect.
* **A key several processes write.** Audio processes read and write back one set of bits,
  each at its own pace.
* **Two processes, one adapter.** Library, daemon and scripts each follow the stack
  by their own signals; two libraries set the same BlueZ properties.
* **Failure in the middle.** BlueZ crashes, adapters vanish, obex-client refuses,
  a script cannot be started; flags set before the failing call stay set.
* **Numbers used again.** File descriptors are keys of RFCOMM slots and the kernel
  recycles them; a health channel's descriptor is closed by two owners; proxies are
  named by how many there are.

PROJECT.json lists these at their lines under "hazards".

## 3. The modules

Names of variables and actions are those of the code; a `bluetooth_` or
`__bt_internal_` prefix is dropped where the rest is unambiguous. PROJECT.json
"map" gives the lines of every definition. A definition whose comment begins
*Mutant* is a deliberately wrong form of the definition after it, kept to show that
the properties notice; no specification uses it.

| Module | Models | Environment |
|---|---|---|
| `GapAdapter` | adapter state of one application, the 30 s change timer and the events | the most general: every reply and signal at any time |
| `BtAgent` | life of the daemon, `bt_status`, scripts, destroy timer | actions take what the environment decides as parameters |
| `AdapterPower` | `GapAdapter` (extended) and `BtAgent` (by `INSTANCE`), D-Bus queues, BlueZ and the scripts | explicit: BlueZ and scripts, with faults |
| `GapDiscovery` | discovery with its two timers and its flags | the part of BlueZ that runs inquiries, other clients of it, adapters |
| `GapBonding` | bond, cancel, unbond, retries, timers, device proxies | BlueZ's devices and pairings |
| `ScCoreAgent` | the daemon's reply slot and what fills and empties it | BlueZ's one request at a time, popups that answer late |
| `GapVisibility` | discoverable mode over several processes and the agent's count | BlueZ's two properties |
| `OpcClient` | a push from `SendFiles` to `Release` | obex-client with failures and a lost link |
| `ObexServer` | registration, questions and answers, `accept_connection` with its nested main loop, the list of transfers | obexd and the framework agent asking about one push and one connection at a time, devices that give up, an adapter that goes |
| `RfcommServer` | slots, sockets, watches, descriptors, proxies | kernel descriptors, BlueZ's serial proxies, remote devices |
| `RfcommClient` | connect as two calls, cancel at any point, the table of ttys | BlueZ's ports, ttys that cannot be opened, an adapter that goes |
| `Sdp` | searches, the flag and the address they share, the session and the proxies of adapter and devices | BlueZ's devices and their services, which change, an adapter that goes and comes back |
| `Audio` | the state machines of several processes and their read-then-write of the key | the headset's links, vconf |
| `Hid` | sessions, one proxy slot for overlapping requests | input devices |
| `Network` | the server's proxy and the client's filter as adapters come and go | peers, links, a BlueZ that ends or crashes |
| `Hdp` | the lists of applications and channels; channels that end by signal, hang-up or both, with descriptors closed twice | BlueZ's channels, those of other processes, the kernel's descriptors |
| `Telephony` | library and agent with both blocking calls, their time-outs, three-way calling | BlueZ that restarts, one headset after the other |
| `HfpStatus` | the values sent at the start and from notifications; reads, calls and subscriptions that fail | the phone's keys, a BlueZ that forgets |
| `PhoneBook` | folders, index, cards, windows, sizes | contacts and calls that change |
| `AdapterService` | what switching the adapter promises an application: the abstract specification `GapAdapter` implements | |
| `Queues` | no code: what is said of the messages in a queue (the last of a kind, each with the next, how many of a kind), with the lemmas about appending and taking the head, and lemmas about smallest numbers | |

A module `X_proof` has the theorems about `X`; those of the components that are checked
together in a sum (below) are in the proof module of the sum.

How they correspond to the code:

* *A handler is an action.* Calls that block are inside the action. Two exceptions,
  where the order of blocking calls matters to another process: `GapVisibility` sets
  the two properties in two steps (`pc`), and `AdapterPower` starts the daemon in two
  (the adapter is read before the handlers are connected).
* *Queues.* `inbox`, `libInbox`, `agentInbox` are the messages D-Bus has delivered to
  a process and the main loop has not dispatched: first in, first out per process,
  as the bus keeps them. An idle callback runs only when the queue is empty
  (`cancel_connect_cb` in `OpcClient`), as its priority is lower.
* *Ids for pointers.* A timer, call or push is the number it was created with; 0 is
  `NULL` or no timer. Source ids of GLib and addresses are otherwise opaque.
* *Events* to the application are a variable that holds the event (or, where one
  handler gives several, the sequence of events) of the last step.
* *What is only observed.* Bookkeeping that is not in the code is kept to a
  few variables named in their modules: `missed` in `AdapterPower` (a signal passed
  before the daemon listened), `waiting` in `GapBonding` (the application has not been
  answered), `ended`, `told`, `sockets` and `stale` in `RfcommServer`, `requests` in
  `ScCoreAgent` and `answers` in `ObexServer` (how often each call was answered), `permits`
  and `unasked` in `ObexServer`; the profile modules and `HfpStatus` list theirs under
  "ghosts and bounds". What the *events* told (`peers_told`, `links_told` in `Network`)
  changes only in handlers that give an event. No guard of a code action reads
  them, except that a bounded or well-behaved application does.

Composition: `AdapterPower` extends `GapAdapter`, whose `vars`, `Init` and `Next` stay
those of the library, and instantiates `BtAgent` over its own variables, so that each of
their actions is used unchanged with the environment's choice replaced by what BlueZ and
the queues determine; that it adds no step of the library's is a theorem
(`CompositionIsOfLibrary`). `Telephony` holds library and
agent together, since each blocks on the other. The other modules share with
`GapAdapter` only `application_pid`, the adapter proxy and whether there is an
adapter; those for which they matter model session and adapter themselves.

Refinement: `GapAdapter` implements `AdapterService` under the mapping at its end
(`Service == INSTANCE AdapterService WITH ...`): session, callback, adapter state and
event of the abstract one are those of the detailed one, whose proxies, calls, timer
and signals it does not have. An abstract step is a
call, a change that settles or fails and is told, or nothing the application sees.

`MCGapDevices`, `MCTransports`, `MCHandsFree` and `MCProfiles` check several components
in one run each. The components of such a *sum* have no variable in common: one is
chosen at the start (`component`), runs over all its behaviours, and the others stay in
their initial state, in which none of their fair actions is enabled. A sum therefore
has the behaviours of each of its components and no others; it saves runs and is no
composition.

## 4. The runs

Passing runs:

| Run | Components and instance | Shows |
|---|---|---|
| `adapter_api` | `GapAdapter`: 3 requests | `TimerWatchesChange`, `ChangeIsWatched`: the timer is armed exactly during a change. `EventTellsState`: events are true. `ImplementsService`: the library implements `AdapterService`; no change ends silently, no failure is told that ended none. `ChangeEnds`: liveness by the timer |
| `adapter_power` | `AdapterPower`: 2 requests, 1 fault, 1 destroy timer, 4 messages | `LibAgreesWhenQuiet`, `AgentAgreesWhenQuiet`: with all queues empty and no script running, both processes know whether the adapter is there. `DaemonSettles`: the daemon, which has no timer for it, never stays in activating or deactivating |
| `gap_devices` | `GapBonding`: a headset and a phone, 3 calls, 2 messages, an application that waits for its answer. `GapDiscovery`: 3 signals, 2 result timers, 1 leaked proxy. `GapVisibility`: 2 processes, 3 mode changes, 1 refusal | `TimerHasRequest` and, as liveness, `RequestEnds`; `RunningDiscoveryIsKnown`, `FinishedIsTrue` and, as liveness, `SeenEndIsReported`; `ReportIsTrue` (a process that has read its signals reports the mode of the adapter), `TimeLeftRuns` |
| `agent_requests` | `ScCoreAgent`: a headset and a keyboard, 3 calls | `SlotHoldsOpenCall`, `BluezAnsweredOnce`, `RequestIsHeld` |
| `obex_server` | `ObexServer`: 3 pushes, 2 registrations, 1 loss of the adapter, careful and careless applications | `AnswersReachTheirPush`, `OnePermissionOnePush`, `TransfersAreThoseOfObexd` |
| `transports` | `OpcClient`: 2 pushes of 1 or 2 files, 1 deinit. `RfcommServer`: 2 slots of 5, 4 descriptors, 4 connections, 1 restart, 1 refusal. `RfcommClient`: 2 places, 3 connects, 1 restart | `RequestFindsNoTransfer` (the `g_assert` of the request callback), `TransfersEnd`, as liveness `AgentGoes`; `WatchedAreOpen`, `SocketsAreFound`; `EventTellsItsConnect`, `PortsAreHeld` |
| `hands_free` | `Telephony`: 1 call, 1 headset, 3 operations, 1 request of the headset, 1 restart of BlueZ. `HfpStatus`: an empty, a low and two full batteries, 3 changes of a key, failures or restarts | `CountIsExplained`, `HeadsetStateFollows`, as liveness `HeadsetAnswered`; `StatusFollows` |
| `profiles` | `Sdp`: 2 devices, 2 searches, 2 changes of services, devices or the adapter. `Audio`: 2 processes, 4 changes, 1 connect. `Hid`: 2 devices, 3 requests, 2 sessions. `Network`: 2 devices, 2 adapters, 2 requests, 2 changes. `Hdp`: 2 applications and 2 paths (both symmetric), 2 connections, 2 descriptors, 3 activations. `PhoneBook`: 2 contacts, 3 calls (incoming, missed, other), 3 changes | `FlagHasCall`; `HeadsetFollows`; `FailureOfThisSession`; `NetworkIsTold`; `ChannelsAreTold`; `ListingIsKept` |

The type invariants are checked where they say more than the types (`SumTypeOK` of
`gap_devices` and `transports`: no more idle callbacks than pushes, timers and
descriptors in range); those of `GapAdapter` and `ScCoreAgent` are proved. `profiles` uses
symmetry, which is sound there: it checks no liveness, and no definition of `Hdp` picks
one application or path rather than another.

Why the bounds are enough. Two requests are what it takes for one to meet the
remains of another (a late reply, a timer, a flag), and three for a third to meet two
of them; the interesting devices are one with automatic PIN and one without; two
processes are one that acts and one that watches; two RFCOMM slots are a slot and its
neighbour, and 4 descriptors hold two servers and two clients, so that numbers are
used again. Two adapters are one and its successor. In `hands_free` the one headset link
may be there at the start of a session or come and go in it, with BlueZ restarted before
or after; that the next headset changes nothing is only proved (section 6). Its one
request of three-way calling meets every operation of the application. Two connections
of a health channel are one and the next that gets its path or its descriptor, of the
same application, of another one or of another process; three activations are those of
two applications and one of them anew (that more of them change nothing is proved,
section 6). Two contacts and three calls fill every folder and leave one empty. Faults are one at a time: a crash, a refusal or a
failed spawn in every position; `HfpStatus` and `Sdp` have several, in any order. A bound
is a conjunct of the guard of the environment's or the application's action, not of a
handler that must run, with two exceptions. `GapDiscovery` handles the end of an inquiry
only when the result timers this starts, one for each of its signal handlers, fit into
`MaxResTimers` (`adapter_property_not_discovering`): else the handler waits for timers,
which fairness lets fire, and since `MaxResTimers` is no less than the number of handlers
(`MaxLeaked` + 1) it can always go on once they have fired. In `HfpStatus` a failure is
one of the alternatives of a handler and bounded; the other is always possible. Where the
application's calls are bounded the system comes to rest, so deadlock is checked only in
`adapter_api` and `adapter_power`, which cannot.

`RequestEnds` holds for an application that waits for the answer before
it bonds again (`Overlap = FALSE`); with overlapping requests the code does overwrite
the first, see section 7. `WatchedAreOpen` and `SocketsAreFound` end when the library
itself closes a descriptor that a slot keeps (`stale`): from then on the number may
belong to anyone, and the finding is the close. In the same way the properties of the
other components name the cases the code loses, each with a variable that only
observes: connects that overlapped and ports whose tty the library did not take
(`overlapped`, `abandoned`), replies that came too late (`lost`), values of the phone
whose change no notice told (`missed`) or whose last sending failed or was forgotten by
BlueZ (`unsent`), a key written over (`stale`) or changed while nobody was there
(`unheard`), a search whose proxy was dropped with its device, its adapter or the session
(`dropped`), links and peers that went with a removed adapter (`links_stale`,
`peers_stale`), a BlueZ that crashed (`crashed`), a channel that could not be acquired
(`refused`), and a watch that took another channel for its own, closed the descriptor of another, or ended
by a failed read (`spoilt`). Section 7 says what happens in them.

In `obex_server` a behaviour chooses at its start whether the application is careful: one
that gives up a question when a newer one comes or when it lets a device in. Nothing
tells it that obexd has stopped waiting, so a careless one can answer another push than
it means, or a call a second time; dbus-glib has freed the call by then, what the
program does next is undefined, and the model ends such a behaviour there (`Defined`).
That `AnswersReachTheirPush` includes `answers[k] = 0` shows that a careful application
never comes to that. Three pushes are one the answer is for, one it must not reach and
one after both; the two properties about a single registration say so, because a second
one does meet the remains of the first (section 7).

Runs that TLC must find violated each check one sentence of a document or a check in
the code: `visibility_limited_ends`, `agent_answered_once`, `rfcomm_wrong_client` and
`sdp_search_answered`; see section 7.

## 5. Fairness

Weak fairness is assumed of what the main loop or a started program does by itself:
timers fire, queued messages are dispatched, idle callbacks run, a spawned script
ends, and a handler that is enabled is not postponed for ever. GLib's main loop
dispatches every ready source of equal priority in turn, which is what makes this
true. Nothing is assumed of applications, users, other devices, faults or the choice
BlueZ makes. Two places need a sentence:

* `GapBonding`: `SF(BluezAnswers)`. BlueZ answers a pending `CreatePairedDevice` in the
  end (it has its own timeouts), also when its way to the answer is interrupted again
  and again by adapters that go and come.
* `AdapterPower`: D-Bus starts the daemon for a call that waits, hence weak fairness of
  `AgentStart` only while `agentInbox` is not empty.

`SeenEndIsReported` rests on the main loop alone: signals are dispatched and the 200 ms
timer fires; whether BlueZ starts or ends inquiries is left open. `OpcClient` assumes that
obex-client takes its next step; it does not assume that it succeeds. `Telephony` assumes
that the agent serves what is queued, that the application's callback returns, and that
libdbus' timeout of 25 s ends a call that blocks; `HeadsetAnswered` rests on that timeout
where agent and application wait for each other. `Sdp` assumes that each call of BlueZ is
answered or times out. The sums take the fairness of those components whose liveness they
check; `MCProfiles`, which checks none, has that of `Sdp`.

## 6. The proofs

Each theorem holds for every value of the constants that satisfies the assumptions named
in the modules, which TLC evaluates in the runs: numbers of requests, devices, processes,
descriptors, calls. The argument is the same throughout: a property of the runs speaks of
the moments that matter (a queue is empty, an event is given, an assertion is
evaluated), its inductive invariant of every moment, in terms of what still waits.
`Queues` holds what these invariants have in common.

`AdapterPower_proof`, the library alone: all safety properties of `adapter_api`
(`TypeCorrect`, `TimerOnlyWatchesChange`, `ChangeAlwaysWatched`, `EventsAreTrue`). `IInv`
adds to the properties that a callback is registered only in an open session. The two
timer invariants need each other: a session that opens while no change is in progress
must find no timer, which holds because the previous session ended either without a
change, hence without a timer, or with a change, whose timer deinit removed.
`LibraryImplementsService` is the refinement: initial states are initial, and each action
is matched with a call, an outcome, a failure, the close or a quiet step of
`AdapterService`. The timer's half of the invariant is needed once more: a timeout is a
failure only of a change that is under way. With it come the action properties on
settlements and failures.

`AdapterPower_proof`, the composition: `CompositionIsOfLibrary` says that library, daemon,
BlueZ and D-Bus together do with the library's variables only what `GapAdapter` allows,
so that all of the above holds in the composition. `LibraryKnowsTheAdapter` and
`DaemonKnowsTheStack` are `LibAgreesWhenQuiet` and `AgentAgreesWhenQuiet`. `PowerIInv` says
for each process: the last signal in its queue that settles the state (AdapterAdded, the
loss of BlueZ's name) tells whether BlueZ is there (`LibraryToldLast`, `DaemonToldLast`);
when none waits the state fits the adapter, or is one of change; and the daemon's status
is one of change only while the script that will end it runs. The replies D-Bus makes up
when the daemon dies are a queue filtered by kind. The library's `SelectSeq` is
recursive, so the model filters by the ranks of the indices (`Kept`), about which one
can reason: each rank is reached.

`ScCoreAgent_proof`: all safety properties of `agent_requests` (`TypeCorrect`,
`SlotIsOpen`, `AnsweredAtMostOnce`, `RequestHeld`). The invariant adds `SlotKind`, what the
slot holds for each `exec_type`: with `NO_OPERATION` nothing, with `CONFIRM_MODE` a
ConfirmMode call. It is needed because an answer goes to *whatever* is in the slot: that
BlueZ's request is answered once follows only if the slot holds no request that was
answered before. Sequences of calls are handled by two lemmas (`AppendCall`,
`AnswerCall`), and the ways a handler uses the slot (answer at once, ask the user, answer
from the slot, leave it, cancel, ConfirmMode) by one lemma each.

`MCGapDevices_proof`:

* *Bonding*, `TimerAlwaysHasRequest`. A reply or a timer that comes late could start a
  request, with its timer, that nobody waits for: the headset retry and the removal of
  the old bond both call BlueZ again. The invariant says what is left once the
  application has its answer (`AnsweredIsOver`): no timer, and if a call is left, then
  neither flag nor address, without which its reply is not taken for one to try again.
* *Discovery*, `RunningDiscoveryAlwaysKnown` and, as an action property,
  `FinishedAlwaysTrue`. When the library takes a running discovery for over, or does not
  know of it, the signal that says otherwise is still in the queue.
* *Visibility*, `ReportsAreTrue` and `TimeLeftAlwaysRuns`. The last signal of each of the
  two properties that waits tells its value (`LastTells`), and without one the process
  has seen it. A process that read "not discoverable" resets the time-out by a blocking
  call of its own (`Sees`): until BlueZ reads it the process asks nothing else, and what
  BlueZ then signals joins every queue.
* *Types*, `TypesAlwaysCorrect`, is about two counts that no step keeps alone. A reply
  that waits may be tried again, so the calls made *and* the replies that will be retried
  stay within the bound (`Fits`), whatever order they come in. A proxy is added when
  AdapterAdded is handled, not when it is sent: from the proxies there are, each prefix of
  the queue leads to no more than a session can leave behind (`ProxiesBounded`), and
  AdapterRemoved finds one (`RemovesFind`). Both count the messages of a kind in a queue;
  `CountTo` of `Queues` is that count, as the cardinality of their positions.

`MCTransports_proof`:

* *Object push*, `TypeCorrect`, `AssertionNeverFails`, and the action property
  `TransfersAlwaysEnd`. A transfer is current until its end is dispatched, and obexd may
  by then have asked about the next file or released the agent. The invariant says that
  a transfer whose agent is still there either goes on in obexd or has its end in the
  queue *before* any such Request or Release (`TransferGoesOn`, `EndFirst`); that obexd
  has at most one Request of a push in the queue, while it waits for its answer, and a
  Release only of a push that is over (`Agree`).
* *RFCOMM server*, `SocketsAreAlwaysFound` and `WatchedAreAlwaysOpen`. The kernel gives
  out the smallest free descriptor, so one that was closed comes back as that of another
  socket: a descriptor leads to its slot only because no two open things share one. The
  invariant says where each open descriptor is kept (`SocketHasSlot`, `ListenerHasSlot`,
  `ClientHasWatch`), as long as the library has not closed a socket that a slot keeps
  (`stale`, section 4). That the first free slot and the next descriptor are free is
  `LeastThereIs` of `Queues`: a set of naturals has a smallest member, by the
  well-foundedness of the finite sets.
* *RFCOMM client*, `EventsTellTheirConnect` and `PortsAreAlwaysHeld`. Of connects that do
  not overlap one is under way at a time, and the two slots of the library, the UUID and
  the proxy, are about it (`SlotsOfCalls`); a port in BlueZ is that of the call or the
  answer that is on its way, or has its tty in the table (`ClientSound`). An answer
  names a tty that no other port has, because enough ttys are left for every pending call.
* *Types*, `SumTypesCorrect`, with what they say about numbers: no more idle callbacks
  than pushes, descriptors in range.

`ObexServer_proof`: all three safety properties of `obex_server`.
`AnswersAlwaysReachTheirPush`: the library has one place for the call it must answer; it
is enough because obexd waits for one push, which is the last one asked about in the
queue, or the one in that place with no question in the queue that could replace it
(`LastIsWaited`, `WaitedIsKnown`); for a careful application, one that answers only the
last question, no call is answered twice either (`CarefulHasOne`).
`PermissionsAreUsedOnce`: the flag by which `accept_connection` lets a push in stays set
until the transfer has started, and longer when the wait times out; `PermissionInv` says
that while it is set a permission is left, or the message that resets it comes before any
question (`Clears`), which holds because the push let in was the last one asked about.
`ListIsThatOfObexd`: `ListInv` says for each push what is in the queue when the list
differs from obexd's sessions, above all that the end of a transfer always comes after
its start (`EndFollows`). The two speak of the first registration only, as the properties
do.

`MCProfiles_proof`:

* *Service search*, `FlagAlwaysHasCall`. The flag is inductive by itself, once it is clear
  that the call answered may be the one the flag stands for, and that dropping proxies
  (`Drop`, for a device, the adapter or the session) leaves it set without a discovery only
  when the last discovery was among the calls dropped, which is what `dropped` says.
* *HID*, `FailuresAreOfThisSession`. A call whose proxy is in the slot is of the session
  that is open, since closing a session cancels that call; every other has overlapped.
* *Phone book*, `ListingsAreKept`: what the agent keeps of a listing agrees with its index
  until one of them goes (`ListingAgrees`). That pages join to the whole is shown for
  any phone book and log (`PagesFollow`): a page is made of the contacts or calls of the
  very places it names, and the owner's card moves all others by one place.
* *Audio*, `HeadsetAlwaysFollows`. For every process, the last signal about the link that
  waits tells its state; without one `ag_state` has it, or will when the write the process
  is in the middle of is done (`StateInv`). For the key, which several processes read
  and write back: what is in it, or what a process will write, has the bits of the links,
  until one wrote over another (`BitInv`, `stale`).
* *Network*, `NetworkAlwaysTold`. Adapters come and go in turn, with numbers of their own
  (`Turns`, `Fresh`); the filter of the links is there when their signals are dispatched,
  because after AdapterRemoved the next signal is AdapterAdded (`FilterWay`); the
  server's proxy is that of the last adapter, or its AdapterAdded waits (`Arrives`).
  AdapterRemoved tells nothing, so the argument is made for what was told since the last
  one (`LinksKnown`, `PeersKnown`); the rest is part of what was told (`StaleTold`), until
  a signal of the device makes it known again.
* *Health devices*, `ChannelsAreAlwaysTold`. What an application knows by one path it
  acquired in the order it was connected (`InfosInOrder`), so when a later channel of a
  path has hung up, the first has, and its watch, which ran before, has removed it: the
  hang-up finds its own channel although it looks for the path. A channel that is up is
  in the list, or the last signal about its path that waits says so (`ToBeTold`).

`MCHandsFree_proof`:

* *The phone's status*, `StatusAlwaysFollows`. `Told` relates how far `main` has come to what
  was sent and subscribed: a property sent is right, or its change waits, or no notice told
  it (`missed`), or its last sending failed or BlueZ has forgotten it (`unsent`). A
  successful sending takes the property out of both, so that the exception ends with it.
* *The count of calls*, `CountIsAlwaysExplained`. The difference between the library's count
  and BlueZ's calls, and beside it the requests in the agent's queue that the application
  has given up (`Late`), are no more than what was counted as lost; the application
  waits for exactly one request, of the kind its operation sends (`Pending`), since a
  reply could else be taken for that of another.
* *The headset*, `HeadsetStateAlwaysFollows`. The last signal of the headset that waits, if
  BlueZ has not been restarted since, says how the headset is; without one
  `headset_state` is right (`Follows`), as long as the session hears signals (`Session`).

Only model-checked: all liveness (ENABLED and fairness are out of TLAPS's reach).

## 7. Where code and documents disagree

Shown by a violation run:

* **A limited mode has no limit** (`visibility_limited_ends`,
  `lib/bluetooth-api-common.c:705`). Any process reading an old "not discoverable" signal
  sets `DiscoverableTimeout` to 0, whatever was set since.
* **ConfirmMode is answered twice** (`agent_answered_once`, `sc_core_agent.c:534` and `:890`).
  The answered call stays in the slot and takes the next answer.
* **The wrong client is disconnected** (`rfcomm_wrong_client`, `lib/bluetooth-rfcomm-api.c:535`).
  The hang-up handler closes the client the slot holds now.
* **A search that is never answered** (`sdp_search_answered`, `lib/bluetooth-sdp-api.c:223`).
  A device without services is asked a second time with the flag cleared (`:232`, `:258`),
  and the reply of the second discovery takes the clear flag for an event already sent.
  When BlueZ cannot create the device, the callback only logs (`:156`), and a call dropped
  with its proxy has no reply.

Met while modelling; the models contain the behaviour, and a property that states the
document would be violated:

* *An enable is answered by DISABLED* (`bluetooth-gap-api.c:213`): a request accepted while
  the stack is still going down is ended by the DISABLED event; `bluetooth-api.h:915`
  promises BLUETOOTH_EVENT_ENABLED.
* *IN_PROGRESS for ever* (`bluetooth-gap-api.c:227`): the state is set to changing before a
  call that can fail at once, without a proxy of the agent; `bluetooth-api.h:925` says
  "Adapter is activating or deactivating".
* *The daemon ends while the stack comes up* (`sc_core_agent.c:1070`): the signal that BlueZ
  left the bus overwrites activating, and the destroy timer, which waits "because it is
  possible that anyone try to BT on" (`:1074`), ends the daemon.
* *The end of a discovery is not reported when the adapter went* (`bluetooth-api-common.c:658`):
  the 200 ms timer reports only when `bluetooth_is_discovering()` is FALSE, and without an
  adapter it is an error code. `BluetoothFW_PG.h:74` promises DISCOVERY_FINISHED.
* *DISCOVERY_FINISHED without a discovery* (`bluetooth-api-common.c:691`): a second end
  overwrites the id of the 200 ms timer, and deinit does not remove it.
* *A cancel that is never answered* (`bluetooth-gap-api.c:938`): before BlueZ has set
  `Discovering` the cancel succeeds and only sets a flag, which marks the end of the next
  discovery as cancelled. `bluetooth-api.h:1373` promises the event.
* *A bond request that is never answered* (`bluetooth-gap-api.c:1636`): cancel removes the
  timer before BlueZ has said whether there is a request; once the adapter has gone no
  other answer comes. `bluetooth-api.h:1454` promises BONDING_FINISHED.
* *CANCEL_BY_USER without a user* (`bluetooth-gap-api.c:1067`): the library's own cancel after
  a timeout is reported so when the call was a retry; `bluetooth-api.h:1458` says
  "Cancelled by the user".
* *Overlapping bond requests* (`bluetooth-gap-api.c:1606`): the second overwrites address,
  proxy and timer id of the first.
* *IgnoreAutoPairing is used up by another device* (`bluetooth-agent-cb.c:694`): the headset
  is then answered 0000 again, against the comment at `:603`.
* *A refused Request keeps its transfer* (`bluetooth-opc-api.c:443`): every later push is
  refused with IN_PROGRESS, for which `bluetooth-api.h:2579` says "Already one push in
  progress".
* *A cancelled push answered by neither event* (`bluetooth-opc-api.c:461`): between connection
  and file, only DISCONNECTED comes; `bluetooth-api.h:2597` names two others.
* *An answer for another push* (`bluetooth-obex-server-api.c:970`): the answer of the user to a
  push that obexd gave up goes to the one that came after, or to a call that is already
  answered; `bluetooth-api.h:2766` says it "Accepts the authorization request indicated by
  the event".
* *A permission that outlives its registration* (`bluetooth-obex-server-api.c:521`): after a
  timeout `auto_authorize` stays TRUE over deinit and init, also when it is then the
  framework agent that is asked; transfers whose end was not heard stay in the list.
* *DISCONNECTED for a client that never was* (`bluetooth-rfcomm-api.c:1473`): a slot tests its
  client descriptor against 0, and -1 is the value after a disconnection;
  `bluetooth-api.h:1940` says no event will come.
* *A server that listens no more* (`bluetooth-rfcomm-api.c:519`): a connection that is gone
  before it is accepted closes the server socket; the slot still counts as listening
  (`bluetooth-api.h:2017`).
* *No new server although slots are free* (`bluetooth-rfcomm-api.c:899`): proxies are named by
  their number, so after a removal in the middle the next name is taken.
* *Connects that overlap* (`bluetooth-rfcomm-api.c:1823`): a second connect is not refused,
  although `bluetooth-api.h:2157` names CONNECTION_BUSY; the two answer with each other's
  UUID. A cancel during DiscoverServices is not possible, and a tty that cannot be opened
  or is beyond the table (`:1903`) leaves the port connected in BlueZ.
* *A search reported for another device* (`bluetooth-sdp-api.c:178`): the event names the
  device searched last, an error event one of an earlier search. A change of UUIDs of any
  device clears the flag, so that the reply of the search is silent.
* *A flag left behind* (`bluetooth-api-common.c:592-597`, `:902-916`): a removed device, a
  removed adapter and the end of the session drop the proxy and with it the reply of
  DiscoverServices, but leave `is_service_req` TRUE; the next discovery, answered without a
  search, then reports one.
* *Links that went with the adapter are not told gone* (`bluetooth-api-common.c:1003-1015`,
  `:878-922`): AdapterRemoved drops the filter and the proxies and gives no event, DISABLED
  comes only when BlueZ leaves the bus (`:1025-1030`). An adapter that goes while BlueZ
  stays leaves the application told of connections there are no more, until the device
  connects again and leaves again.
* *A crash of BlueZ is not noticed by the network's server* (`bluetooth-api-common.c`,
  AdapterAdded): the proxy of the old adapter's path is kept, and peers are never told again.
* *Health channels* (`bluetooth-hdp-api.c:632`): the descriptor of a channel of another
  process stays open; a watch keeps a path that is freed when the signal comes first, and
  ends without an event when its read fails. A descriptor is closed with its channel
  (`:109`) and again when the watch ends (`:624`, close on unref): when a ChannelDeleted
  and a ChannelConnected are dispatched before the watch, the number is that of the new
  channel by then, which is closed under the application. A channel is looked for by its
  path, application by application, so a hang-up can end another application's channel.
* *Two filters, one removed* (`bluetooth-telephony-api.c`): `bluetooth_telephony_deinit`
  removes one, AdapterAdded had added another; later signals call a NULL callback.
* *The first headset for ever* (`bluetooth-telephony-api.c:484`): the object path is cached,
  so the next headset is addressed by the path of the first. The count of calls is kept over
  a restart of BlueZ, which has forgotten them.
* *Waiting in a circle* (`bluetooth-telephony-api.c:161`): a three-way callback that calls
  the library waits for the agent, which waits for it, until libdbus gives up after 25 s.
* *A card of another folder* (`bluetooth_pb_agent.c:296`): the handle is looked up before
  the index is made anew; after a change, a timeout or another listing the entry is that
  of the owner or of another folder. For folders of calls offset 0 and 1 give the same
  entry; the cards of the combined folder include calls of unknown type, its size and
  listing do not. `get_total_object_count` and `add_contact` do not start the 600 s again.
* *An indicator that could not be sent stays old* (`bluetooth-hfp-agent.c:1098-1112`):
  SetProperty blocks and may fail or run into its timeout, its result is ignored (`:1247`,
  `:1267`, `:1348`, `:1400`, `:1413`), a key that cannot be read ends the handler (`:1240`,
  `:1260`, `:1334`, `:1363`, `:1372`, `:1429`), a subscription that fails is only logged, and
  nothing is sent again when BlueZ is restarted: the headset sees the old value, or none,
  until the key changes once more.
* *Roaming alone is not told* (`bluetooth-hfp-agent.c:1439`): the key is read but not
  subscribed to; and the test of the signal quality's reading (`:1003`) is inverted.

## 8. What is not modelled

PROJECT.json gives the reason for each component. In short: conversions (addresses,
classes, UUIDs, the text of vCards, message listings), queries that keep no state, the
drawing of popups, GATT and AVRCP (proxies that live within a call, properties passed
on), and the message and media daemons. External code (BlueZ, obexd, the scripts,
bt-syspopup, the contacts service, the kernel's descriptors) is modelled from how the
library and the agents use it, no further than its answers and signals; in particular it
does not lie, and it does not reorder what it sends to one process.

*RFCOMM authorization* is left out. The filter that hears `Authorize`
(`bluetooth-rfcomm-api.c:1101`) answers HANDLED, so only the server registered first is
asked, whichever the connection is for; and `accept_connection` (`:1269`) runs the main
loop inside itself for up to 2 s and returns the first connection of any server. What a
question is about is decided by nothing the library keeps, so no property of the kind
this project states can be said of it. `ObexServer` has the same nested loop.

*Also left out*:

* an adapter that appears while the library starts, whose AdapterAdded waits although the
  question for the default adapter has found it already (`bluetooth-api-common.c:1181`;
  `GapDiscovery` has it, for the proxy that is leaked);
* signals that reach a connection after its session was closed: closing empties the queue
  in `Sdp`, since no handler is connected any more;
* in `Sdp`, a BlueZ that dies without removing its adapter first;
* the death of obex-client without a Release (`bluetooth-opc-api.c:159`; the library does
  not watch its name, and every later push is refused);
* the reads of an uninitialised table when `GetProperties` fails for a device that was
  removed in between (`bluetooth-sdp-api.c:243`): `Sdp` lets no device go while such an
  answer is on its way (`NoneReadLate`);
* an application that calls `bluetooth_obex_server_deinit` after
  `bluetooth_obex_server_init_without_agent`, which leaves the filter for the questions
  about connections installed (`bluetooth-obex-server-api.c:314-337`): that of `ObexServer`
  uses the two variants in pairs;
* a second `accept_connection` from a callback that runs in the main loop of the first
  (`bluetooth-obex-server-api.c:515-523`): the application of `ObexServer` waits for one
  to return;
* the hang-up of a *listening* RFCOMM socket (`bluetooth-rfcomm-api.c:339`): it is a local
  socket of the library's own that nothing shuts down;
* a health application activated again before the idle callback of its deactivation ran,
  if BlueZ then gives it the same path (`bluetooth-hdp-api.c:800-825`, `:867`): `Hdp` gives
  every registration a path of its own.

## 9. The plan

Done: power with the daemon, the refinement and the proofs of both; discovery, bonding
and visibility, the agent's slot, object push client and server, RFCOMM server and
client, service discovery, audio, HID, network, health device, telephony with the
hands-free agent, the phone's status, the phone book, each with its safety proved.

Worth doing next: *one pending request* (asked, answered once) as an abstract
specification that `ScCoreAgent` and `ObexServer` implement; the bonding of two processes
with the agent between them; the message access agent.

Runs stay few: a new profile joins the run of the profiles of its kind before it gets
one of its own.
