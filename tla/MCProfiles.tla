----------------------------- MODULE MCProfiles -----------------------------
(***************************************************************************)
(* Model-checking instance of Sdp, Audio, Hid, Network, Hdp and PhoneBook: *)
(* two of everything; an incoming call, a missed one and one of no known   *)
(* type.                                                                   *)
(***************************************************************************)
EXTENDS Sdp, TLC

CONSTANTS
  Proc, MaxAudioChanges, MaxConnects, MaxAudioSessions,
  MaxHidRequests, MaxHidSessions,
  MaxAdapters, MaxNetworkRequests, MaxNetworkChanges,
  App, Path, MaxConnections, MaxFds, MaxActivations,
  Contact, CallType, MaxHandle, MaxContactChanges

VARIABLES
  component,  \* the component that runs, chosen at the start
  \* Audio
  audio_conn, ag_state, av_state, current_call, audio_calls, audio_inbox,
  writing, headset_bits, ag, av, in_step, stale, audio_unheard, audio_changes,
  connects, audio_sessions,
  \* Hid
  session, hid_proxy, hid_calls, hid_inbox, hid_told, connected, overlapped,
  hid_requests, hid_sessions,
  \* Network
  adapter_proxy, network_server_proxy, sys_conn, network_matched,
  network_calls, network_inbox, adapter, server, peers, links, peers_told,
  links_told, peers_stale, links_stale, network_unheard, crashed, adapters,
  network_requests, network_changes,
  \* Hdp
  g_app_list, obj_info, watches, g_hdp_dus_conn, hdp_matched, idles,
  hdp_inbox, apps, channel, fds, hdp_told, twice, refused, spoilt, acquired,
  connections, activations,
  \* PhoneBook
  running, g_current_pb_type, contact_list_hash, answer, contacts, phonelog,
  notices, listed, phonebook_changes

\* Applications and paths of health channels are alike.
Symmetry == Permutations(App) \cup Permutations(Path)

MCCallType == 1 :> "incoming" @@ 2 :> "missed" @@ 3 :> "other"

audioVars ==
  <<audio_conn, ag_state, av_state, current_call, audio_calls, audio_inbox,
    writing, headset_bits, ag, av, in_step, stale, audio_unheard,
    audio_changes, connects, audio_sessions>>
hidVars ==
  <<session, hid_proxy, hid_calls, hid_inbox, hid_told, connected, overlapped,
    hid_requests, hid_sessions>>
networkVars ==
  <<adapter_proxy, network_server_proxy, sys_conn, network_matched,
    network_calls, network_inbox, adapter, server, peers, links, peers_told,
    links_told, peers_stale, links_stale, network_unheard, crashed, adapters,
    network_requests, network_changes>>
hdpVars ==
  <<g_app_list, obj_info, watches, g_hdp_dus_conn, hdp_matched, idles,
    hdp_inbox, apps, channel, fds, hdp_told, twice, refused, spoilt, acquired,
    connections, activations>>
phonebookVars ==
  <<running, g_current_pb_type, contact_list_hash, answer, contacts, phonelog,
    notices, listed, phonebook_changes>>

Audio == INSTANCE Audio WITH
  MaxChanges <- MaxAudioChanges, MaxSessions <- MaxAudioSessions,
  calls <- audio_calls, inbox <- audio_inbox, unheard <- audio_unheard,
  changes <- audio_changes, sessions <- audio_sessions

Hid == INSTANCE Hid WITH
  MaxRequests <- MaxHidRequests, MaxSessions <- MaxHidSessions,
  calls <- hid_calls, inbox <- hid_inbox, told <- hid_told,
  requests <- hid_requests, sessions <- hid_sessions

Network == INSTANCE Network WITH
  MaxRequests <- MaxNetworkRequests, MaxChanges <- MaxNetworkChanges,
  matched <- network_matched, calls <- network_calls, inbox <- network_inbox,
  unheard <- network_unheard, requests <- network_requests,
  changes <- network_changes

Hdp == INSTANCE Hdp WITH
  matched <- hdp_matched, inbox <- hdp_inbox, told <- hdp_told

PhoneBook == INSTANCE PhoneBook WITH
  MaxChanges <- MaxContactChanges, changes <- phonebook_changes

ASSUME ProfilesAssumption ==
  /\ Audio!AudioAssumption /\ Hid!HidAssumption /\ Network!NetworkAssumption
  /\ Hdp!HdpAssumption /\ PhoneBook!PhoneBookAssumption

\* The components have no state in common, so one of them runs at a time.
SumInit ==
  /\ component \in {"sdp", "audio", "hid", "network", "hdp", "phonebook"}
  /\ Init
  /\ Audio!Init
  /\ Hid!Init
  /\ Network!Init
  /\ Hdp!Init
  /\ PhoneBook!Init

SumNext ==
  \/ /\ component = "sdp" /\ Next
     /\ UNCHANGED <<component, audioVars, hidVars, networkVars, hdpVars, phonebookVars>>
  \/ /\ component = "audio" /\ Audio!Next
     /\ UNCHANGED <<component, vars, hidVars, networkVars, hdpVars, phonebookVars>>
  \/ /\ component = "hid" /\ Hid!Next
     /\ UNCHANGED <<component, vars, audioVars, networkVars, hdpVars, phonebookVars>>
  \/ /\ component = "network" /\ Network!Next
     /\ UNCHANGED <<component, vars, audioVars, hidVars, hdpVars, phonebookVars>>
  \/ /\ component = "hdp" /\ Hdp!Next
     /\ UNCHANGED <<component, vars, audioVars, hidVars, networkVars, phonebookVars>>
  \/ /\ component = "phonebook" /\ PhoneBook!Next
     /\ UNCHANGED <<component, vars, audioVars, hidVars, networkVars, hdpVars>>

sumVars == <<component, vars, audioVars, hidVars, networkVars, hdpVars, phonebookVars>>

\* A component that does not run stays where none of its fair actions is enabled.
SumSpec == SumInit /\ [][SumNext]_sumVars /\ Fairness

\* Audio: the key has the bits of the links there are, and ag_state that of the
\* headset.
HeadsetFollows == Audio!HeadsetBitsTrue /\ Audio!AgStateFollows

\* Hid: a failure told is one of this session (bluetooth_hid_deinit).
FailureOfThisSession == Hid!FailureOfThisSession

\* Network: the events have told the links and peers there are, and those that went
\* with a removed adapter (AdapterRemoved gives no event).
NetworkIsTold == Network!NetworkIsTold

\* Hdp: a channel told connected is told disconnected once, by its own end.
ChannelsAreTold == Hdp!ChannelsAreTold

\* PhoneBook: the index is that of the folder as it is, a card is the one that
\* was listed, and pages join.
ListingIsKept == PhoneBook!IndexIsCurrent /\ PhoneBook!CardIsThatListed /\ PhoneBook!PagesJoin
=============================================================================
