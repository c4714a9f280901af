-------------------------- MODULE MCProfiles_proof --------------------------
(***************************************************************************)
(* Proofs about the profiles, for any devices, processes and bounds.       *)
(*                                                                         *)
(* Service search: the flag is never left behind, FlagHasCall.  It is      *)
(* inductive; the work is in the answers: the call that is answered may be *)
(* the one the flag stands for, and then the answer must clear the flag,   *)
(* unless the call is none of the two that do; and in what drops proxies   *)
(* with their calls, where either a discovery stays or the flag is known   *)
(* to be left behind.                                                      *)
(*                                                                         *)
(* HID: FailureOfThisSession.  A call whose proxy is in the slot is of the *)
(* session that is open, for to close a session is to cancel that call;    *)
(* every other call under way has overlapped.                              *)
(*                                                                         *)
(* Phone book: IndexIsCurrent and CardIsThatListed.  What the agent keeps  *)
(* of a listing agrees with the index, until one of them goes.  PagesJoin: *)
(* a page is made of the entries at the places it names.                   *)
(*                                                                         *)
(* Audio and network: HeadsetFollows, NetworkIsTold.  What the signals on  *)
(* their way will make of the library is what is: the last signal about a  *)
(* link says how the link is.  That needs to know in which order signals   *)
(* can wait: the predicates of Queues.                                     *)
(*                                                                         *)
(* Health devices: ChannelsAreTold.  What was acquired later by a path was *)
(* connected later, so that the first channel of a path in a list has hung *)
(* up when a later one has, and a hang-up finds its own.                   *)
(***************************************************************************)
EXTENDS MCProfiles, Queues, FiniteSetTheorems, TLAPS

(***************************************************************************)
(* Service search.                                                         *)
(***************************************************************************)

\* A step that leaves the flag and the DiscoverServices calls alone keeps the property.
LEMMA CallsKept ==
  ASSUME FlagHasCall, UNCHANGED <<is_service_req, dropped>>,
         \A c \in calls : c.method = "DiscoverServices" => c \in calls'
  PROVE  FlagHasCall'
BY DEF FlagHasCall

LEMMA ClearedIsFine == ASSUME ClearFlag PROVE FlagHasCall'
BY DEF ClearFlag, FlagHasCall

\* The methods of calls are told apart by their names.
LEMMA OtherMethod ==
  ASSUME NEW call, call.method \in {"CreateDevice", "GetProperties"}
  PROVE  \A c \in calls : c.method = "DiscoverServices" => c # call
OBVIOUS

LEMMA SearchKeepsFlag ==
  ASSUME FlagHasCall, NEW d \in Device, bluetooth_search_service(d)
  PROVE  FlagHasCall'
<1>1. CASE Call("DiscoverServices", d, searches') \in calls'
  BY <1>1 DEF FlagHasCall, Call
<1>2. CASE UNCHANGED <<is_service_req, dropped>> /\ calls \subseteq calls'
  BY <1>2, CallsKept
<1> QED  BY <1>1, <1>2 DEF bluetooth_search_service

LEMMA DiscoveredClearsFlag ==
  ASSUME FlagHasCall, NEW call \in calls, NEW ok, discover_services_cb(call, ok)
  PROVE  FlagHasCall'
<1>1. ClearFlag \/ (~is_service_req /\ UNCHANGED is_service_req)
  BY DEF discover_services_cb, discover_failed, request_search_supported_services
<1> QED  BY <1>1, ClearedIsFine DEF FlagHasCall

LEMMA AnswerKeepsFlag ==
  ASSUME FlagHasCall, NEW call, NEW ok, Answered(call, ok)
  PROVE  FlagHasCall'
<1>1. CASE call \notin calls /\ UNCHANGED <<libVars, calls, dropped>>
  BY <1>1, CallsKept DEF libVars
<1>2. CASE call \in calls /\ call.method = "CreateDevice" /\ device_created_cb(call, ok)
  <2>1. UNCHANGED <<is_service_req, dropped>> /\ calls \ {call} \subseteq calls'
    BY <1>2 DEF device_created_cb
  <2> QED  BY <1>2, <2>1, OtherMethod, CallsKept
<1>3. CASE call \in calls /\ call.method = "GetProperties" /\ get_remote_device_uuids_cb(call, ok)
  <2>1. UNCHANGED <<is_service_req, dropped>> /\ calls \ {call} \subseteq calls'
    BY <1>3 DEF get_remote_device_uuids_cb, libVars
  <2> QED  BY <1>3, <2>1, OtherMethod, CallsKept
<1>4. CASE call \in calls /\ discover_services_cb(call, ok)
  BY <1>4, DiscoveredClearsFlag
<1> QED  BY <1>1, <1>2, <1>3, <1>4 DEF Answered

\* Calls are dropped with their proxies.
LEMMA DropKeepsFlag ==
  ASSUME FlagHasCall, NEW cs, Drop(cs)
  PROVE  FlagHasCall'
<1>1. SUFFICES ASSUME is_service_req', ~dropped'
               PROVE  \E c \in calls' : c.method = "DiscoverServices"
  BY DEF FlagHasCall
<1>2. PICK c \in calls : c.method = "DiscoverServices"
  BY <1>1 DEF Drop, FlagHasCall
<1>3. CASE c \in cs
  BY <1>1, <1>2, <1>3 DEF Drop
<1>4. CASE c \notin cs
  BY <1>2, <1>4 DEF Drop
<1> QED  BY <1>3, <1>4

LEMMA RemovalKeepsFlag ==
  ASSUME FlagHasCall, __bluetooth_internal_remove_signal
  PROVE  FlagHasCall'
<1>1. CASE Drop(calls)
  BY <1>1, DropKeepsFlag
<1>2. CASE UNCHANGED <<is_service_req, dropped, calls>>
  BY <1>2, CallsKept
<1> QED  BY <1>1, <1>2 DEF __bluetooth_internal_remove_signal

LEMMA DeviceRemovalKeepsFlag ==
  ASSUME FlagHasCall, NEW d, device_removed(d)
  PROVE  FlagHasCall'
<1>1. CASE Drop(OfProxy(d))
  BY <1>1, DropKeepsFlag
<1>2. CASE UNCHANGED <<is_service_req, dropped, calls>>
  BY <1>2, CallsKept
<1> QED  BY <1>1, <1>2 DEF device_removed

LEMMA DispatchKeepsFlag == ASSUME FlagHasCall, Dispatch PROVE FlagHasCall'
<1> DEFINE msg == Head(inbox)
<1>1. CASE device_property_changed(msg.device, msg.some)
  <2>1. ClearFlag \/ UNCHANGED <<is_service_req, dropped, calls>>
    BY <1>1 DEF device_property_changed
  <2> QED  BY <2>1, ClearedIsFine, CallsKept
<1>2. CASE device_created(msg.device)
  BY <1>2, CallsKept DEF device_created
<1>3. CASE device_removed(msg.device)
  BY <1>3, DeviceRemovalKeepsFlag
<1>4. CASE Answered(msg.call, msg.ok)
  BY <1>4, AnswerKeepsFlag
<1>5. CASE adapter_added_cb
  BY <1>5, CallsKept DEF adapter_added_cb
<1>6. CASE adapter_removed_cb
  BY <1>6, RemovalKeepsFlag DEF adapter_removed_cb
<1> QED  BY <1>1, <1>2, <1>3, <1>4, <1>5, <1>6 DEF Dispatch

LEMMA Inductive == FlagHasCall /\ [Next]_vars => FlagHasCall'
<1> SUFFICES ASSUME FlagHasCall, [Next]_vars PROVE FlagHasCall'
  OBVIOUS
<1>1. ASSUME NEW d \in Device, bluetooth_search_service(d) PROVE FlagHasCall'
  BY <1>1, SearchKeepsFlag
<1>2. ASSUME NEW d \in Device, ServicesChange(d) \/ DeviceComesOrGoes(d) PROVE FlagHasCall'
  BY <1>2, CallsKept DEF ServicesChange, DeviceComesOrGoes, libVars
<1>3. ASSUME bluetooth_cancel_service_search \/ \E call \in calls : Answer(call) PROVE FlagHasCall'
  BY <1>3, CallsKept DEF bluetooth_cancel_service_search, Answer, libVars
<1>4. CASE Dispatch
  BY <1>4, DispatchKeepsFlag
<1>5. CASE bluetooth_register_callback
  BY <1>5, CallsKept DEF bluetooth_register_callback
<1>6. CASE bluetooth_unregister_callback
  BY <1>6, RemovalKeepsFlag DEF bluetooth_unregister_callback
<1>7. CASE AdapterGoes \/ AdapterAppears
  BY <1>7, CallsKept DEF AdapterGoes, AdapterAppears, libVars
<1>8. CASE UNCHANGED vars
  BY <1>8, CallsKept DEF vars, libVars
<1> QED  BY <1>1, <1>2, <1>3, <1>4, <1>5, <1>6, <1>7, <1>8 DEF Next

\* While is_service_req is set a DiscoverServices call is under way whose reply will
\* clear it, over any number of sessions and adapters; but after the last such call was
\* dropped with the proxy of its device, its adapter or the session.
THEOREM FlagAlwaysHasCall == Spec => []FlagHasCall
<1>1. Init => FlagHasCall
  BY DEF Init, FlagHasCall
<1> QED  BY <1>1, Inductive, PTL DEF Spec

(***************************************************************************)
(* HID.                                                                    *)
(***************************************************************************)

HidTyped ==
  /\ hid_requests \in Nat /\ hid_sessions \in Nat /\ hid_proxy \in Nat
  /\ \A c \in hid_calls : c.id \in 1..hid_requests

OneCallForEachId == \A c, d \in hid_calls : c.id = d.id => c = d

\* The call in the slot is of this session, any other one has overlapped.
CallsOfThisSession ==
  /\ \A c \in hid_calls : IF c.id = hid_proxy THEN c.session = session ELSE c.id \in overlapped
  /\ session = 0 => hid_proxy = 0

HidInv == HidTyped /\ OneCallForEachId /\ CallsOfThisSession /\ FailureOfThisSession

LEMMA HidInit == Hid!Init => HidInv
BY DEF Hid!Init, HidInv, HidTyped, OneCallForEachId, CallsOfThisSession,
   FailureOfThisSession, Hid!FailureOfThisSession, Hid!None

LEMMA NothingTold == ASSUME hid_told' = Hid!None PROVE FailureOfThisSession'
BY DEF FailureOfThisSession, Hid!FailureOfThisSession, Hid!None

LEMMA HidAnswer == ASSUME HidInv, NEW c \in hid_calls, Hid!Answer(c) PROVE HidInv'
<1>1. PICK d : d = [c EXCEPT !.answered = TRUE]
  OBVIOUS
<1>2. d.id = c.id /\ d.session = c.session
  BY <1>1
<1>3. /\ hid_calls' = (hid_calls \ {c}) \cup {d}
      /\ UNCHANGED <<session, hid_proxy, overlapped, hid_requests, hid_sessions>>
      /\ hid_told' = Hid!None
  BY <1>1 DEF Hid!Answer
<1>4. FailureOfThisSession'
  BY <1>3, NothingTold
<1> QED
  BY <1>2, <1>3, <1>4 DEF HidInv, HidTyped, OneCallForEachId, CallsOfThisSession

LEMMA HidRequest ==
  ASSUME HidInv, NEW d \in Device, NEW connect \in BOOLEAN, Hid!Request(d, connect)
  PROVE  HidInv'
<1>1. PICK n \in Nat : n = hid_requests + 1
  BY DEF HidInv, HidTyped
<1>2. PICK c : /\ c = [id |-> n, session |-> session, device |-> d, connect |-> connect,
                       answered |-> FALSE]
  OBVIOUS
<1>3. c.id = n /\ c.session = session
  BY <1>2
<1>4. /\ hid_calls' = hid_calls \cup {c} /\ hid_requests' = n /\ hid_proxy' = n
      /\ overlapped' = overlapped \cup {hid_proxy} /\ session # 0
      /\ UNCHANGED <<session, hid_sessions>> /\ hid_told' = Hid!None
  BY <1>1, <1>2 DEF Hid!Request
<1>5. FailureOfThisSession'
  BY <1>4, NothingTold
<1>6. \A e \in hid_calls : e.id \in 1..n /\ e.id # n
  BY <1>1 DEF HidInv, HidTyped
<1> QED
  BY <1>1, <1>3, <1>4, <1>5, <1>6 DEF HidInv, HidTyped, OneCallForEachId, CallsOfThisSession

LEMMA HidSession ==
  ASSUME HidInv, Hid!bluetooth_hid_init \/ Hid!bluetooth_hid_deinit
  PROVE  HidInv'
<1>1. FailureOfThisSession'
  BY NothingTold DEF Hid!bluetooth_hid_init, Hid!bluetooth_hid_deinit
<1>2. CASE Hid!bluetooth_hid_init
  <2>1. hid_proxy = 0
    BY <1>2 DEF Hid!bluetooth_hid_init, HidInv, CallsOfThisSession
  <2>2. \A c \in hid_calls : c.id # hid_proxy
    BY <2>1 DEF HidInv, HidTyped
  <2> QED
    BY <1>1, <1>2, <2>1, <2>2
    DEF Hid!bluetooth_hid_init, HidInv, HidTyped, OneCallForEachId, CallsOfThisSession
<1>3. CASE Hid!bluetooth_hid_deinit
  BY <1>1, <1>3
  DEF Hid!bluetooth_hid_deinit, Hid!Cancelled, HidInv, HidTyped, OneCallForEachId,
      CallsOfThisSession
<1> QED  BY <1>2, <1>3

\* Here the failure is told: the call is that in the slot, or it has overlapped.
LEMMA HidReply ==
  ASSUME HidInv, NEW c \in hid_calls, NEW ok, Hid!request_cb(c, ok),
         UNCHANGED <<session, hid_requests, hid_sessions>>
  PROVE  HidInv'
<1>1. overlapped \subseteq overlapped' /\ hid_calls' = hid_calls \ {c} /\ hid_proxy' = 0
  BY DEF Hid!request_cb
<1>2. CallsOfThisSession'
  <2>1. ASSUME NEW e \in hid_calls' PROVE e.id # 0 /\ e.id # c.id
    BY <1>1, <2>1 DEF HidInv, HidTyped, OneCallForEachId
  <2>2. ASSUME NEW e \in hid_calls' PROVE e.id \in overlapped'
    BY <1>1, <2>1, <2>2 DEF HidInv, CallsOfThisSession, Hid!request_cb
  <2> QED  BY <1>1, <2>1, <2>2 DEF CallsOfThisSession
<1>3. FailureOfThisSession'
  <2>1. hid_told' = Hid!None \/ hid_told' = [event |-> "failed", request |-> c]
    BY DEF Hid!request_cb
  <2>2. c.session = session \/ c.id \in overlapped
    BY DEF HidInv, CallsOfThisSession
  <2> QED
    BY <1>1, <2>1, <2>2, NothingTold DEF FailureOfThisSession, Hid!FailureOfThisSession
<1> QED  BY <1>1, <1>2, <1>3 DEF HidInv, HidTyped, OneCallForEachId

LEMMA HidDispatch == ASSUME HidInv, Hid!Dispatch PROVE HidInv'
<1>1. PICK msg : msg = Head(hid_inbox)
  OBVIOUS
<1>2. CASE Hid!connection_changed_cb(msg)
  <2>1. FailureOfThisSession'
    BY <1>2 DEF Hid!connection_changed_cb, FailureOfThisSession, Hid!FailureOfThisSession,
       Hid!None
  <2> QED
    BY <1>2, <2>1 DEF Hid!Dispatch, Hid!connection_changed_cb, HidInv, HidTyped,
       OneCallForEachId, CallsOfThisSession
<1>3. CASE \E c \in hid_calls : Hid!request_cb(c, msg.ok)
  BY <1>3, HidReply DEF Hid!Dispatch
<1>4. CASE hid_told' = Hid!None /\ UNCHANGED <<hid_calls, hid_proxy, overlapped>>
  BY <1>4, NothingTold
  DEF Hid!Dispatch, HidInv, HidTyped, OneCallForEachId, CallsOfThisSession
<1> QED  BY <1>1, <1>2, <1>3, <1>4 DEF Hid!Dispatch

LEMMA HidNext == HidInv /\ Hid!Next => HidInv'
<1> SUFFICES ASSUME HidInv, Hid!Next PROVE HidInv'
  OBVIOUS
<1>1. ASSUME NEW d \in Device, Hid!LinkDrops(d) PROVE HidInv'
  BY <1>1, NothingTold
  DEF Hid!LinkDrops, HidInv, HidTyped, OneCallForEachId, CallsOfThisSession
<1> QED
  BY <1>1, HidAnswer, HidRequest, HidSession, HidDispatch DEF Hid!Next

LEMMA HidKept == HidInv /\ UNCHANGED hidVars => HidInv'
BY DEF HidInv, hidVars, HidTyped, OneCallForEachId, CallsOfThisSession,
   FailureOfThisSession, Hid!FailureOfThisSession

\* A failure the application is told is that of a request of the session that is open,
\* or of one whose slot another request took: bluetooth_hid_deinit cancels the request
\* in the slot.
THEOREM FailuresAreOfThisSession == SumSpec => []FailureOfThisSession
<1>1. SumInit => HidInv
  BY HidInit DEF SumInit
<1>2. HidInv /\ [SumNext]_sumVars => HidInv'
  BY HidNext, HidKept DEF SumNext, sumVars
<1>3. HidInv => FailureOfThisSession
  BY DEF HidInv
<1> QED  BY <1>1, <1>2, <1>3, PTL DEF SumSpec

(***************************************************************************)
(* Phone book.                                                             *)
(***************************************************************************)

\* Only a running agent has an index.
IndexWhileRunning == ~running => g_current_pb_type = "none"

\* What is kept of a listing agrees with the index.
ListingAgrees ==
  listed.folder # "none" =>
    /\ listed.folder = g_current_pb_type
    /\ \A h \in DOMAIN listed.ids :
         h \in DOMAIN contact_list_hash /\ listed.ids[h] = contact_list_hash[h]

PbInv ==
  /\ IndexWhileRunning /\ PhoneBook!IndexIsCurrent
  /\ ListingAgrees /\ PhoneBook!CardIsThatListed

LEMMA PbInit == PhoneBook!Init => PbInv
BY DEF PhoneBook!Init, PbInv, IndexWhileRunning, PhoneBook!IndexIsCurrent, ListingAgrees,
   PhoneBook!NotListed, PhoneBook!CardIsThatListed, PhoneBook!Silent

\* The folders are made from the contacts and the calls alone.
LEMMA FolderKept ==
  ASSUME NEW folder, UNCHANGED <<contacts, phonelog>>
  PROVE  PhoneBook!Folder(folder)' = PhoneBook!Folder(folder)
BY DEF PhoneBook!Folder

LEMMA SilentCard == ASSUME answer' = PhoneBook!Silent PROVE PhoneBook!CardIsThatListed'
BY DEF PhoneBook!CardIsThatListed, PhoneBook!Silent

\* To clear the index is to forget the listing.
LEMMA ClearKeeps ==
  ASSUME PbInv, PhoneBook!clear, answer' = PhoneBook!Silent
  PROVE  PbInv'
BY SilentCard
DEF PhoneBook!clear, PbInv, IndexWhileRunning, PhoneBook!IndexIsCurrent, ListingAgrees,
    PhoneBook!NotListed

\* A change of the contacts or calls keeps the index, and is told later.
LEMMA ChangeKeeps ==
  ASSUME PbInv, PhoneBook!Change \/ PhoneBook!bluetooth_pb_add_contact
  PROVE  PbInv'
<1>1. /\ notices' \/ ~running
      /\ UNCHANGED <<g_current_pb_type, contact_list_hash, listed>>
      /\ running' \/ ~running
      /\ answer' = PhoneBook!Silent
  BY DEF PhoneBook!Change, PhoneBook!bluetooth_pb_add_contact
<1> QED
  BY <1>1, SilentCard
  DEF PbInv, IndexWhileRunning, PhoneBook!IndexIsCurrent, ListingAgrees

\* The index that is made is that of the folder as it is.
LEMMA IndexMade ==
  ASSUME PbInv, NEW folder \in PhoneBook!Folders, PhoneBook!create_index(folder),
         PhoneBook!Serve, UNCHANGED notices
  PROVE  /\ IndexWhileRunning' /\ PhoneBook!IndexIsCurrent'
         /\ g_current_pb_type' = folder
<1>1. running' /\ UNCHANGED <<contacts, phonelog, notices>> /\ g_current_pb_type' = folder
  BY DEF PhoneBook!Serve, PhoneBook!create_index
<1>2. contact_list_hash' = PhoneBook!Folder(folder) \/ notices
  BY DEF PhoneBook!create_index, PbInv, PhoneBook!IndexIsCurrent, PhoneBook!Folders
<1>3. PhoneBook!Folder(folder)' = PhoneBook!Folder(folder)
  BY <1>1, FolderKept
<1> QED
  BY <1>1, <1>2, <1>3 DEF IndexWhileRunning, PhoneBook!IndexIsCurrent

LEMMA ListingKeeps ==
  ASSUME PbInv, NEW folder \in PhoneBook!Folders, NEW handles,
         PhoneBook!Listing(folder, handles)
  PROVE  PbInv'
<1>1. IndexWhileRunning' /\ PhoneBook!IndexIsCurrent' /\ g_current_pb_type' = folder
  BY IndexMade DEF PhoneBook!Listing
<1>2. PhoneBook!CardIsThatListed'
  BY SilentCard DEF PhoneBook!Listing
<1>3. PICK ids : ids = [h \in handles \cap DOMAIN contact_list_hash' |-> contact_list_hash'[h]]
  OBVIOUS
<1>4. listed' = [folder |-> folder, ids |-> ids]
  BY <1>3 DEF PhoneBook!Listing
<1>5. ListingAgrees'
  BY <1>1, <1>3, <1>4 DEF ListingAgrees
<1> QED  BY <1>1, <1>2, <1>5 DEF PbInv

LEMMA EntryKeeps ==
  ASSUME PbInv, NEW folder \in PhoneBook!Folders, NEW handle,
         PhoneBook!bluetooth_pb_get_phonebook_entry(folder, handle)
  PROVE  PbInv'
<1>1. IndexWhileRunning' /\ PhoneBook!IndexIsCurrent' /\ g_current_pb_type' = folder
  BY IndexMade DEF PhoneBook!bluetooth_pb_get_phonebook_entry
<1>2. ListingAgrees'
  BY DEF PhoneBook!bluetooth_pb_get_phonebook_entry, PhoneBook!create_index, PbInv,
     ListingAgrees, PhoneBook!NotListed
<1>3. PhoneBook!CardIsThatListed'
  <2>1. answer' = [request |-> "entry", folder |-> folder, handle |-> handle,
                   id |-> PhoneBook!Cid(handle), listed |-> listed]
    BY DEF PhoneBook!bluetooth_pb_get_phonebook_entry
  <2>2. ASSUME listed.folder = folder, handle \in DOMAIN listed.ids
        PROVE  PhoneBook!Cid(handle) = listed.ids[handle]
    BY <2>2 DEF PbInv, ListingAgrees, PhoneBook!Folders, PhoneBook!Cid, PhoneBook!lookup_id
  <2> QED  BY <2>1, <2>2 DEF PhoneBook!CardIsThatListed
<1> QED  BY <1>1, <1>2, <1>3 DEF PbInv

LEMMA PbNext == PbInv /\ PhoneBook!Next => PbInv'
<1> SUFFICES ASSUME PbInv, PhoneBook!Next PROVE PbInv'
  OBVIOUS
<1>1. CASE PhoneBook!changed_cb \/ PhoneBook!Ends
  BY <1>1, ClearKeeps DEF PhoneBook!changed_cb, PhoneBook!Ends
<1>2. CASE PhoneBook!bluetooth_pb_get_phonebook
  <2>1. \A folder : PhoneBook!Folder(folder)' = PhoneBook!Folder(folder)
    BY <1>2, FolderKept DEF PhoneBook!bluetooth_pb_get_phonebook, PhoneBook!Serve
  <2> QED
    BY <1>2, <2>1, SilentCard
    DEF PhoneBook!bluetooth_pb_get_phonebook, PhoneBook!Serve, PbInv, IndexWhileRunning,
        PhoneBook!IndexIsCurrent, ListingAgrees
<1>3. ASSUME NEW folder \in PhoneBook!Folders,
             \/ PhoneBook!bluetooth_pb_get_phonebook_list(folder)
             \/ \E start, end \in PhoneBook!Handle :
                  PhoneBook!bluetooth_pb_get_phonebook_entries_at(folder, start, end)
             \/ \E found \in SUBSET PhoneBook!Handle :
                  PhoneBook!bluetooth_pb_get_phonebook_entries_find_at(folder, found)
      PROVE  PbInv'
  BY <1>3, ListingKeeps
  DEF PhoneBook!bluetooth_pb_get_phonebook_list,
      PhoneBook!bluetooth_pb_get_phonebook_entries_at,
      PhoneBook!bluetooth_pb_get_phonebook_entries_find_at
<1> QED
  BY <1>1, <1>2, <1>3, ChangeKeeps, EntryKeeps DEF PhoneBook!Next

LEMMA PbKept == PbInv /\ UNCHANGED phonebookVars => PbInv'
<1> SUFFICES ASSUME PbInv, UNCHANGED phonebookVars PROVE PbInv'
  OBVIOUS
<1>1. \A folder : PhoneBook!Folder(folder)' = PhoneBook!Folder(folder)
  BY FolderKept DEF phonebookVars
<1> QED
  BY <1>1 DEF phonebookVars, PbInv, IndexWhileRunning, PhoneBook!IndexIsCurrent,
     ListingAgrees, PhoneBook!CardIsThatListed

(***************************************************************************)
(* Phone book: the pages.                                                  *)
(***************************************************************************)

\* Contacts and calls are kept in sequences.
PbSequences == contacts \in Seq(Nat) /\ phonelog \in Seq(PhoneBook!Call)

LEMMA ChangedIsSequence ==
  ASSUME NEW M, NEW s \in Seq(M), NEW ids, ids \subseteq M, NEW t \in PhoneBook!Changed(s, ids)
  PROVE  t \in Seq(M)
<1>1. /\ Len(s) \in Nat /\ \A i \in 1..Len(s) : s[i] \in M
      /\ DOMAIN s = 1..Len(s) /\ 1 \in Int /\ Len(s) \in Int
  OBVIOUS
<1>2. ASSUME NEW k \in Int, 1 <= k
      PROVE  SubSeq(s, k, Len(s)) \in Seq(M)
  <2>1. \A i \in k..Len(s) : s[i] \in M
    BY <1>1, <1>2
  <2> QED  BY <1>1, <2>1, SubSeqProperties
<1>3. ASSUME NEW k \in Int, k - 1 <= Len(s)
      PROVE  SubSeq(s, 1, k - 1) \in Seq(M)
  <2>1. /\ \A i \in 1..(k - 1) : s[i] \in M
        /\ k - 1 \in Int
    BY <1>1, <1>3
  <2> QED  BY <1>1, <2>1, SubSeqProperties
<1>4. CASE \E k \in 1..(Len(s) + 1), x \in ids \ PhoneBook!ToSet(s) : t = PhoneBook!InsertAt(s, k, x)
  <2>1. PICK k \in 1..(Len(s) + 1), x \in ids : t = SubSeq(s, 1, k - 1) \o <<x>> \o SubSeq(s, k, Len(s))
    BY <1>4 DEF PhoneBook!InsertAt
  <2>2. k \in Int /\ 1 <= k /\ k - 1 <= Len(s)
    BY <1>1
  <2>3. SubSeq(s, 1, k - 1) \in Seq(M) /\ SubSeq(s, k, Len(s)) \in Seq(M) /\ <<x>> \in Seq(M)
    BY <1>2, <1>3, <2>2
  <2> QED  BY <2>1, <2>3
<1>5. CASE \E k \in DOMAIN s : t = PhoneBook!RemoveAt(s, k)
  <2>1. PICK k \in DOMAIN s : t = SubSeq(s, 1, k - 1) \o SubSeq(s, k + 1, Len(s))
    BY <1>5 DEF PhoneBook!RemoveAt
  <2>2. k \in Int /\ k + 1 \in Int /\ 1 <= k + 1 /\ k - 1 <= Len(s)
    BY <1>1
  <2>3. SubSeq(s, 1, k - 1) \in Seq(M) /\ SubSeq(s, k + 1, Len(s)) \in Seq(M)
    BY <1>2, <1>3, <2>2
  <2> QED  BY <2>1, <2>3
<1> QED  BY <1>4, <1>5 DEF PhoneBook!Changed

LEMMA PbSequencesNext ==
  ASSUME PhoneBook!PhoneBookAssumption, PbSequences, PhoneBook!Next \/ UNCHANGED phonebookVars
  PROVE  PbSequences'
<1>1. Contact \subseteq Nat
  BY DEF PhoneBook!PhoneBookAssumption
<1>2. CASE PhoneBook!Change
  <2>1. CASE contacts' \in PhoneBook!Changed(contacts, Contact) /\ UNCHANGED phonelog
    BY <1>1, <2>1, ChangedIsSequence DEF PbSequences
  <2>2. CASE phonelog' \in PhoneBook!Changed(phonelog, PhoneBook!Call) /\ UNCHANGED contacts
    BY <2>2, ChangedIsSequence DEF PbSequences, PhoneBook!Call
  <2> QED  BY <1>2, <2>1, <2>2 DEF PhoneBook!Change
<1>3. CASE PhoneBook!bluetooth_pb_add_contact
  BY <1>1, <1>3 DEF PhoneBook!bluetooth_pb_add_contact, PbSequences, PhoneBook!Call
<1>4. CASE UNCHANGED <<contacts, phonelog>>
  BY <1>4 DEF PbSequences, PhoneBook!Call
<1> QED
  BY <1>2, <1>3, <1>4
  DEF phonebookVars, PhoneBook!Next, PhoneBook!changed_cb, PhoneBook!Ends, PhoneBook!Serve,
      PhoneBook!bluetooth_pb_get_phonebook, PhoneBook!bluetooth_pb_get_phonebook_list,
      PhoneBook!bluetooth_pb_get_phonebook_entries_at,
      PhoneBook!bluetooth_pb_get_phonebook_entries_find_at,
      PhoneBook!bluetooth_pb_get_phonebook_entry, PhoneBook!Listing

\* What a part of a sequence holds.
IsPart(p, M, s, i, n) ==
  /\ p \in Seq(M) /\ Len(p) \in Nat
  /\ \A r \in Nat : r \in 1..Len(p) <=> r \in 1..n /\ i + r <= Len(s) + 1
  /\ \A r \in 1..Len(p) : p[r] = s[i + r - 1]

LEMMA PartItems ==
  ASSUME NEW M, NEW s \in Seq(M), NEW i \in Nat \ {0}, NEW n \in Nat,
         NEW p, p = PhoneBook!Part(s, i, n)
  PROVE  IsPart(p, M, s, i, n)
<1>1. PICK e : e = IF i + n - 1 < Len(s) THEN i + n - 1 ELSE Len(s)
  OBVIOUS
<1>2. Len(s) \in Nat /\ (\A j \in 1..Len(s) : s[j] \in M) /\ e \in Int /\ i \in Int /\ e <= Len(s)
  BY <1>1
<1>3. p = SubSeq(s, i, e)
  BY <1>1 DEF PhoneBook!Part
<1>4. \A j \in i..e : s[j] \in M
  BY <1>2
<1>5. /\ p \in Seq(M) /\ Len(p) = (IF i <= e THEN e - i + 1 ELSE 0)
      /\ \A r \in 1..e-i+1 : p[r] = s[i + r - 1]
  BY <1>2, <1>3, <1>4, SubSeqProperties
<1>6. ASSUME NEW r \in Nat PROVE r \in 1..Len(p) <=> r \in 1..n /\ i + r <= Len(s) + 1
  <2>1. PICK l \in Nat : l = Len(s)
    BY <1>2
  <2>2. Len(p) = IF i <= e THEN e - i + 1 ELSE 0
    BY <1>5
  <2>3. e = IF i + n - 1 < l THEN i + n - 1 ELSE l
    BY <1>1, <2>1
  <2>4. r \in 1..Len(p) <=> r \in 1..n /\ i + r <= l + 1
    <3>1. CASE i + n - 1 < l
      <4>1. Len(p) = n
        BY <2>2, <2>3, <3>1
      <4> QED  BY <3>1, <4>1
    <3>2. CASE ~(i + n - 1 < l) /\ i <= l
      <4>1. Len(p) = l - i + 1
        BY <2>2, <2>3, <3>2
      <4> QED  BY <3>2, <4>1
    <3>3. CASE ~(i + n - 1 < l) /\ ~(i <= l)
      <4>1. Len(p) = 0
        BY <2>2, <2>3, <3>3
      <4> QED  BY <3>3, <4>1
    <3> QED  BY <3>1, <3>2, <3>3
  <2> QED  BY <2>1, <2>4
<1>7. \A r \in 1..Len(p) : p[r] = s[i + r - 1]
  BY <1>2, <1>5
<1> QED  BY <1>5, <1>6, <1>7 DEF IsPart

\* What there is to show of a page.
LEMMA PageMade ==
  ASSUME NEW M, NEW page \in Seq(M), NEW W, NEW whole \in Seq(W), NEW o \in Nat, NEW max \in Nat,
         \A r \in Nat : r \in 1..Len(page) <=> r \in 1..max /\ o + r <= Len(whole),
         \A r \in 1..Len(page) : page[r] = whole[o + r]
  PROVE  PhoneBook!IsPage(page, whole, o, max)
<1>1. /\ DOMAIN page = 1..Len(page) /\ Len(page) \in Nat
      /\ DOMAIN whole = 1..Len(whole) /\ Len(whole) \in Nat
  OBVIOUS
<1>2. \A r \in Nat : r \in 1..Len(page) <=> r \in 1..max /\ o + r \in 1..Len(whole)
  BY <1>1
<1>3. 1..Len(page) \subseteq Nat /\ 1..max \subseteq Nat
  BY <1>1
<1>4. 1..Len(page) = {r \in 1..max : o + r \in 1..Len(whole)}
  BY <1>2, <1>3
<1> QED  BY <1>1, <1>4 DEF PhoneBook!IsPage

\* A page of calls from card o + 1 on.
LEMMA CallPage ==
  ASSUME NEW folder, folder # "pb", NEW M, NEW whole \in Seq(M), whole = PhoneBook!Cards(folder),
         NEW max \in Nat, NEW o \in Nat, NEW page, page = PhoneBook!Window(folder, max, 1 + o)
  PROVE  PhoneBook!IsPage(page, whole, o, max)
<1>1. PICK i : i = 1 + o
  OBVIOUS
<1>2. i \in Nat \ {0} /\ i # 0 /\ Len(whole) \in Nat
  BY <1>1
<1>3. page = PhoneBook!Part(whole, i, max)
  BY <1>1, <1>2 DEF PhoneBook!Window
<1>4. /\ page \in Seq(M) /\ Len(page) \in Nat
      /\ \A r \in Nat : r \in 1..Len(page) <=> r \in 1..max /\ i + r <= Len(whole) + 1
      /\ \A r \in 1..Len(page) : page[r] = whole[i + r - 1]
  <2>1. IsPart(page, M, whole, i, max)
    BY <1>2, <1>3, PartItems
  <2> QED  BY <2>1 DEF IsPart
<1>5. \A r \in Nat : (i + r <= Len(whole) + 1 <=> o + r <= Len(whole)) /\ i + r - 1 = o + r
  BY <1>1, <1>2
<1>6. \A r \in Nat : r \in 1..Len(page) <=> r \in 1..max /\ o + r <= Len(whole)
  BY <1>4, <1>5
<1>7. ASSUME NEW r \in 1..Len(page) PROVE page[r] = whole[o + r]
  <2>1. r \in Nat
    BY <1>4
  <2> QED  BY <1>4, <1>5, <2>1
<1> QED  BY <1>4, <1>6, <1>7, PageMade

LEMMA OwnerFirst ==
  ASSUME NEW p \in Seq(Nat), NEW page, page = << 0 >> \o p
  PROVE  /\ page \in Seq(Nat) /\ Len(page) = Len(p) + 1 /\ page[1] = 0
         /\ \A j \in 1..Len(p) : page[j + 1] = p[j]
OBVIOUS

\* A page of contacts from card o + 1 on: the owner's card comes first.
LEMMA ContactPage ==
  ASSUME NEW c \in Seq(Nat), c = contacts, NEW max \in Nat \ {0}, NEW o \in Nat, NEW page,
         page = PhoneBook!Window("pb", max, o), NEW whole, whole = << 0 >> \o c
  PROVE  PhoneBook!IsPage(page, whole, o, max)
<1>0. PICK n : n = Len(c)
  OBVIOUS
<1>1. /\ n \in Nat /\ whole \in Seq(Nat) /\ Len(whole) = n + 1 /\ whole[1] = 0
      /\ \A j \in 1..n : whole[j + 1] = c[j]
  BY <1>0, OwnerFirst
<1>2. CASE o = 0
  <2>1. PICK last : last = max - 1
    OBVIOUS
  <2>2. PICK p : p = PhoneBook!Part(c, 1, last)
    OBVIOUS
  <2>3. last \in Nat /\ max = last + 1 /\ 1 \in Nat \ {0} /\ max # 0
    BY <2>1
  <2>4. /\ p \in Seq(Nat) /\ Len(p) \in Nat
        /\ \A r \in Nat : r \in 1..Len(p) <=> r \in 1..last /\ 1 + r <= Len(c) + 1
        /\ \A r \in 1..Len(p) : p[r] = c[1 + r - 1]
    <3>1. IsPart(p, Nat, c, 1, last)
      BY <2>2, <2>3, PartItems
    <3> QED  BY <3>1 DEF IsPart
  <2>5. page = << 0 >> \o p
    BY <1>2, <2>1, <2>2, <2>3 DEF PhoneBook!Window
  <2>6. /\ page \in Seq(Nat) /\ Len(page) = Len(p) + 1 /\ page[1] = 0
        /\ \A j \in 1..Len(p) : page[j + 1] = p[j]
    <3>1. p \in Seq(Nat)
      BY <2>4
    <3> QED  BY <2>5, <3>1, OwnerFirst
  <2>7. \A r \in Nat : r \in 1..Len(p) <=> r \in 1..last /\ r \in 1..n
    BY <1>0, <1>1, <2>4
  <2>8. \A r \in Nat : r \in 1..Len(page) <=> r \in 1..max /\ o + r <= Len(whole)
    <3> SUFFICES ASSUME NEW r \in Nat
                 PROVE  r \in 1..Len(p)+1 <=> r \in 1..max /\ r <= n + 1
      BY <1>1, <1>2, <2>6
    <3>1. CASE r \in {0, 1}
      BY <1>1, <2>3, <2>4, <3>1
    <3>2. CASE r \notin {0, 1}
      <4>1. PICK q \in Nat \ {0} : r = q + 1
        <5>1. r - 1 \in Nat \ {0} /\ r = (r - 1) + 1
          BY <3>2
        <5> QED  BY <5>1
      <4>2. q \in 1..Len(p) <=> q \in 1..last /\ q \in 1..n
        BY <2>7
      <4> QED  BY <1>1, <2>3, <2>4, <4>1, <4>2
    <3> QED  BY <3>1, <3>2
  <2>9. ASSUME NEW r \in 1..Len(page) PROVE page[r] = whole[o + r]
    <3>0. r \in Nat /\ o + r = r
      BY <1>2
    <3>1. CASE r = 1
      BY <1>1, <2>6, <3>0, <3>1
    <3>2. CASE r # 1
      <4>1. PICK q \in 1..Len(p) : r = q + 1
        <5>1. r - 1 \in 1..Len(p) /\ r = (r - 1) + 1
          BY <2>4, <2>6, <3>2
        <5> QED  BY <5>1
      <4>2. q \in 1..n /\ 1 + q - 1 = q
        BY <2>4, <2>7, <4>1
      <4>3. page[r] = p[q] /\ p[q] = c[q]
        BY <2>4, <2>6, <4>1, <4>2
      <4> QED  BY <1>1, <3>0, <4>1, <4>2, <4>3
    <3> QED  BY <3>1, <3>2
  <2>10. max \in Nat
    OBVIOUS
  <2> QED  BY <1>1, <2>6, <2>8, <2>9, <2>10, PageMade
<1>3. CASE o # 0
  <2>1. o \in Nat \ {0} /\ max \in Nat
    BY <1>3
  <2>2. page = PhoneBook!Part(c, o, max)
    BY <1>3 DEF PhoneBook!Window
  <2>3. /\ page \in Seq(Nat) /\ Len(page) \in Nat
        /\ \A r \in Nat : r \in 1..Len(page) <=> r \in 1..max /\ o + r <= Len(c) + 1
        /\ \A r \in 1..Len(page) : page[r] = c[o + r - 1]
    <3>1. IsPart(page, Nat, c, o, max)
      BY <2>1, <2>2, PartItems
    <3> QED  BY <3>1 DEF IsPart
  <2>4. \A r \in Nat : r \in 1..Len(page) <=> r \in 1..max /\ o + r <= Len(whole)
    BY <1>0, <1>1, <2>3
  <2>5. ASSUME NEW r \in 1..Len(page) PROVE page[r] = whole[o + r]
    <3>0. r \in Nat /\ r >= 1
      BY <2>3, <2>5
    <3>1. r \in Nat /\ r >= 1 /\ o + r <= n + 1
      BY <1>0, <2>3, <2>5, <3>0
    <3>2. o + r - 1 \in 1..n /\ (o + r - 1) + 1 = o + r
      BY <1>1, <2>1, <3>1
    <3> QED  BY <1>1, <2>3, <3>2
  <2> QED  BY <1>1, <2>1, <2>3, <2>4, <2>5, PageMade
<1> QED  BY <1>2, <1>3

LEMMA CardsAreSequence ==
  ASSUME PbSequences, NEW folder, folder # "pb"
  PROVE  \E M : PhoneBook!Cards(folder) \in Seq(M)
<1>1. CASE folder = "cch"
  BY <1>1 DEF PbSequences, PhoneBook!Cards
<1>2. CASE folder # "cch"
  <2> DEFINE at == {i \in DOMAIN phonelog : PhoneBook!IsIn(phonelog[i], folder)}
  <2> DEFINE result == [k \in 1..Cardinality(at) |->
                          phonelog[CHOOSE i \in at : Cardinality({j \in at : j <= i}) = k]]
  <2>1. at \subseteq DOMAIN phonelog
    OBVIOUS
  <2> HIDE DEF at
  <2>2. result \in Seq({phonelog[i] : i \in at})
    BY <2>1, PickedItems DEF PbSequences
  <2>3. PhoneBook!Cards(folder) = PhoneBook!CallsIn(folder, phonelog)
    BY <1>2 DEF PhoneBook!Cards, PhoneBook!Folder
  <2>4. PhoneBook!CallsIn(folder, phonelog) = result
    BY DEF PhoneBook!CallsIn, PhoneBook!Cardinality, Cardinality, at
  <2> HIDE DEF result
  <2> QED  BY <2>2, <2>3, <2>4
<1> QED  BY <1>1, <1>2

LEMMA PagesFollow ==
  ASSUME PhoneBook!PhoneBookAssumption, PbSequences
  PROVE  PhoneBook!PagesJoin
<1>1. PhoneBook!Handle \subseteq Nat \ {0}
  BY DEF PhoneBook!PhoneBookAssumption, PhoneBook!Handle
<1>2. ASSUME NEW max \in PhoneBook!Handle, NEW k \in Nat
      PROVE  max \in Nat \ {0} /\ k * max \in Nat
  BY <1>1, <1>2
<1>3. contacts \in Seq(Nat)
  BY DEF PbSequences
<1>4. ASSUME NEW folder \in PhoneBook!Folders, NEW whole, NEW first,
             whole = IF folder = "pb" THEN << 0 >> \o contacts ELSE PhoneBook!Cards(folder),
             first = IF folder = "pb" THEN 0 ELSE 1
      PROVE  /\ \A max \in PhoneBook!Handle, k \in 0..Len(whole) :
                  PhoneBook!IsPage(PhoneBook!Window(folder, max, first + k * max), whole, k * max, max)
             /\ folder # "cch" => PhoneBook!Size(folder) = Len(whole)
  <2>1. ASSUME NEW max \in PhoneBook!Handle, NEW k \in 0..Len(whole)
        PROVE  PhoneBook!IsPage(PhoneBook!Window(folder, max, first + k * max), whole, k * max, max)
    <3>1. PICK o : o = k * max
      OBVIOUS
    <3>2. k \in Nat /\ max \in Nat \ {0} /\ max \in Nat /\ o \in Nat
      BY <1>2, <2>1, <3>1
    <3>3. PICK page : page = PhoneBook!Window(folder, max, first + o)
      OBVIOUS
    <3>4. PhoneBook!IsPage(page, whole, o, max)
      <4>1. CASE folder = "pb"
        <5>1. first + o = o /\ whole = << 0 >> \o contacts
          BY <1>4, <3>2, <4>1
        <5>2. page = PhoneBook!Window("pb", max, o)
          BY <3>3, <4>1, <5>1
        <5> QED  BY <1>3, <3>2, <5>1, <5>2, ContactPage
      <4>2. CASE folder # "pb"
        <5>1. first = 1 /\ whole = PhoneBook!Cards(folder)
          BY <1>4, <4>2
        <5>2. PICK M : whole \in Seq(M)
          BY <4>2, <5>1, CardsAreSequence
        <5>3. page = PhoneBook!Window(folder, max, 1 + o)
          BY <3>3, <5>1
        <5> QED  BY <3>2, <4>2, <5>1, <5>2, <5>3, CallPage
      <4> QED  BY <4>1, <4>2
    <3> QED  BY <3>1, <3>3, <3>4
  <2>2. folder # "cch" => PhoneBook!Size(folder) = Len(whole)
    <3>1. CASE folder = "pb"
      <4>1. whole = << 0 >> \o contacts
        BY <1>4, <3>1
      <4>2. Len(whole) = Len(contacts) + 1
        BY <1>3, <4>1
      <4> QED  BY <3>1, <4>2 DEF PhoneBook!Size, PhoneBook!Folder
    <3>2. CASE folder # "pb" /\ folder # "cch"
      <4>1. PICK M : PhoneBook!Cards(folder) \in Seq(M)
        BY <3>2, CardsAreSequence
      <4>2. whole = PhoneBook!Cards(folder) /\ PhoneBook!Cards(folder) = PhoneBook!Folder(folder)
        BY <1>4, <3>2 DEF PhoneBook!Cards
      <4>3. Len(whole) \in Nat
        BY <4>1, <4>2
      <4> QED  BY <3>2, <4>2, <4>3 DEF PhoneBook!Size
    <3> QED  BY <3>1, <3>2
  <2> QED  BY <2>1, <2>2
<1> QED  BY <1>4 DEF PhoneBook!PagesJoin

\* The index is that of its folder as it is, unless a change has still to be told; the card
\* of a handle is that of the entry the listing gave this handle; and pages join
\* (bluetooth_pb_agent_clear, bluetooth_pb_get_phonebook_entry, the vcards functions).
THEOREM ListingsAreKept == SumSpec => []ListingIsKept
<1>1. SumInit => PbInv /\ PbSequences
  <2>1. PhoneBook!Init => PbSequences
    BY DEF PhoneBook!Init, PbSequences
  <2> QED  BY <2>1, PbInit DEF SumInit
<1>2. PbInv /\ PbSequences /\ [SumNext]_sumVars => PbInv' /\ PbSequences'
  BY PbNext, PbKept, PbSequencesNext, ProfilesAssumption DEF SumNext, sumVars
<1>3. PbInv /\ PbSequences => ListingIsKept
  BY PagesFollow, ProfilesAssumption DEF PbInv, ListingIsKept
<1> QED  BY <1>1, <1>2, <1>3, PTL DEF SumSpec

(***************************************************************************)
(* Audio: what a process will make of the signals in its queue.            *)
(***************************************************************************)

AgStates == {"disconnected", "connecting", "connected", "playing"}

AudioSignal ==
  [property : {"State"}, value : AgStates]
    \cup [property : {"Connected"}, bit : Audio!Bits, value : BOOLEAN]
    \cup [property : {"AdapterRemoved"}, bit : Audio!Bits]

\* Signals that tell the state of the headset's link, and the state they tell.
Tells ==
  {m \in AudioSignal :
     \/ m.property = "State"
     \/ m.bit = "HEADSET" /\ (m.property = "Connected" => ~m.value)}

StateTold(m) == IF m.property = "State" THEN m.value ELSE "disconnected"

Telling(state) == {m \in Tells : StateTold(m) = state}

\* What the state machine takes after a state.
After(state) ==
  {m \in Tells : /\ m.property = "State" => m.value \in Audio!AgMoves[state]
                 /\ m.property = "Connected" => state = "disconnected"}

Moves == {pair \in Tells \X Tells : pair[2] \in After(StateTold(pair[1]))}

\* Signals about a bit of the key, and those of them that agree with the links.
For(b) == {m \in AudioSignal : m.property # "State" /\ m.bit = b}

Up(b, link, a2dp) == IF b = "HEADSET" THEN link \in {"connected", "playing"} ELSE a2dp

Agreeing(b, link, a2dp) ==
  {m \in For(b) : (m.property = "Connected" /\ m.value) <=> Up(b, link, a2dp)}

Writing == {Audio!NotWriting} \cup [bit : Audio!Bits, on : BOOLEAN, read : SUBSET Audio!Bits]

AudioTyped ==
  /\ audio_conn \subseteq Proc /\ in_step \subseteq audio_conn
  /\ audio_inbox \in [Proc -> Seq(AudioSignal)] /\ writing \in [Proc -> Writing]
  /\ ag_state \in [Proc -> AgStates \cup {"none"}]
  /\ ag \in AgStates /\ av \in BOOLEAN /\ headset_bits \subseteq Audio!Bits
  /\ \A p \in Proc \ audio_conn : audio_inbox[p] = <<>> /\ writing[p] = Audio!NotWriting

\* The state a process will have when the write it is in the middle of is done.
Settled(w, state) == IF w.bit = "HEADSET" /\ ~w.on THEN "disconnected" ELSE state

Follows(queue, state, link) ==
  /\ state \in AgStates
  /\ FirstIn(queue, Tells, After(state))
  /\ ~Has(queue, Tells) => state = link

QueueTells(queue, link) == LastIn(queue, Tells, Telling(link)) /\ Chain(queue, Tells, Moves)

StateInv ==
  \A p \in Proc :
    /\ QueueTells(audio_inbox[p], ag)
    /\ p \in in_step => Follows(audio_inbox[p], Settled(writing[p], ag_state[p]), ag)

\* What a process will write in the end, and what it writes now.
Writes(b, queue, w, link, a2dp) ==
  /\ LastIn(queue, For(b), Agreeing(b, link, a2dp))
  /\ w.bit = b /\ ~Has(queue, For(b)) => (w.on <=> Up(b, link, a2dp))

BitWaits(b, queue, w) == Has(queue, For(b)) \/ w.bit = b

BitInv ==
  \A b \in Audio!Bits :
    /\ \A p \in Proc : Writes(b, audio_inbox[p], writing[p], ag, av)
    /\ b \notin audio_unheard /\ ~stale =>
         \/ b \in headset_bits <=> Up(b, ag, av)
         \/ \E p \in Proc : BitWaits(b, audio_inbox[p], writing[p])

AudioInv == AudioTyped /\ StateInv /\ BitInv

LEMMA AudioKinds ==
  /\ \A m \in AudioSignal :
       \/ m.property = "State" /\ m.value \in AgStates
       \/ m.property = "Connected" /\ m.bit \in Audio!Bits /\ m.value \in BOOLEAN
       \/ m.property = "AdapterRemoved" /\ m.bit \in Audio!Bits
  /\ \A s \in AgStates : Audio!State(s) \in AudioSignal
  /\ \A b \in Audio!Bits, on \in BOOLEAN : Audio!Connected(b, on) \in AudioSignal
  /\ \A b \in Audio!Bits : Audio!Removed(b) \in AudioSignal
<1>1. \A m \in AudioSignal :
       \/ m.property = "State" /\ m.value \in AgStates
       \/ m.property = "Connected" /\ m.bit \in Audio!Bits /\ m.value \in BOOLEAN
       \/ m.property = "AdapterRemoved" /\ m.bit \in Audio!Bits
  BY DEF AudioSignal
<1>2. \A s \in AgStates : Audio!State(s) \in AudioSignal
  BY DEF AudioSignal, Audio!State
<1>3. \A b \in Audio!Bits, on \in BOOLEAN : Audio!Connected(b, on) \in AudioSignal
  BY DEF AudioSignal, Audio!Connected
<1>4. \A b \in Audio!Bits : Audio!Removed(b) \in AudioSignal
  BY DEF AudioSignal, Audio!Removed
<1> QED  BY <1>1, <1>2, <1>3, <1>4

LEMMA AudioInit == Audio!Init => AudioInv
<1> SUFFICES ASSUME Audio!Init PROVE AudioInv
  OBVIOUS
<1>1. <<>> \in Seq(AudioSignal)
  OBVIOUS
<1>2. AudioTyped
  <2>1. audio_inbox \in [Proc -> Seq(AudioSignal)]
    BY <1>1 DEF Audio!Init
  <2>2. writing \in [Proc -> Writing]
    BY DEF Audio!Init, Writing
  <2> QED  BY <2>1, <2>2 DEF Audio!Init, AudioTyped, AgStates
<1>3. StateInv
  BY NoItem DEF Audio!Init, StateInv, QueueTells
<1>4. BitInv
  <2>1. \A p \in Proc : audio_inbox[p] = <<>> /\ writing[p].bit = "none"
    BY DEF Audio!Init, Audio!NotWriting
  <2>2. \A b \in Audio!Bits : b \notin headset_bits /\ ~Up(b, ag, av) /\ b # "none"
    BY DEF Audio!Init, Up, Audio!Bits
  <2> QED  BY <2>1, <2>2, NoItem DEF BitInv, Writes
<1> QED  BY <1>2, <1>3, <1>4 DEF AudioInv

(***************************************************************************)
(* BlueZ.                                                                  *)
(***************************************************************************)

\* Signals that tell every change of the links.
LEMMA BroadcastKeeps ==
  ASSUME AudioInv, NEW msgs \in Seq(AudioSignal), NEW bits, Audio!Broadcast(msgs, bits),
         ag' \in AgStates, av' \in BOOLEAN,
         QueueTells(msgs, ag'), FirstIn(msgs, Tells, After(ag)),
         Has(msgs, Tells) \/ ag' = ag,
         \A b \in Audio!Bits :
           /\ LastIn(msgs, For(b), Agreeing(b, ag', av'))
           /\ (Has(msgs, For(b)) /\ b \in bits) \/ (Up(b, ag', av') <=> Up(b, ag, av))
  PROVE  AudioInv'
<1>1. /\ UNCHANGED <<audio_conn, ag_state, writing, headset_bits, in_step, stale>>
      /\ audio_inbox' = [p \in Proc |-> IF p \in audio_conn THEN audio_inbox[p] \o msgs
                                        ELSE audio_inbox[p]]
      /\ audio_unheard' = IF audio_conn = {} THEN audio_unheard \cup bits ELSE audio_unheard
  BY DEF Audio!Broadcast
<1>2. AudioTyped /\ StateInv /\ BitInv
  BY DEF AudioInv
<1>3. \A p \in Proc : audio_inbox[p] \in Seq(AudioSignal)
  BY <1>2 DEF AudioTyped
<1>4. AudioTyped'
  <2>1. \A q \in Seq(AudioSignal) : q \o msgs \in Seq(AudioSignal)
    OBVIOUS
  <2>2. audio_inbox' \in [Proc -> Seq(AudioSignal)]
    BY <1>1, <1>3, <2>1
  <2>3. \A p \in Proc \ audio_conn : audio_inbox'[p] = audio_inbox[p]
    BY <1>1
  <2> QED  BY <1>1, <1>2, <2>2, <2>3 DEF AudioTyped
<1>5. ASSUME NEW p \in audio_conn
      PROVE  /\ p \in Proc /\ audio_inbox[p] \in Seq(AudioSignal)
             /\ audio_inbox'[p] = audio_inbox[p] \o msgs
  BY <1>1, <1>2, <1>3 DEF AudioTyped
<1>6. ASSUME NEW p \in Proc, p \notin audio_conn
      PROVE  audio_inbox'[p] = <<>> /\ writing'[p] = Audio!NotWriting /\ p \notin in_step'
  BY <1>1, <1>2, <1>6 DEF AudioTyped
<1>7. StateInv'
  <2> SUFFICES ASSUME NEW p \in Proc
               PROVE  /\ QueueTells(audio_inbox'[p], ag')
                      /\ p \in in_step' => Follows(audio_inbox'[p], Settled(writing'[p], ag_state'[p]), ag')
    BY DEF StateInv
  <2>1. CASE p \notin audio_conn
    BY <1>6, <2>1, NoItem DEF QueueTells
  <2>2. CASE p \in audio_conn
    <3> DEFINE queue == audio_inbox[p]
    <3>1. queue \in Seq(AudioSignal) /\ audio_inbox'[p] = queue \o msgs
      BY <1>5, <2>2
    <3>2. QueueTells(queue, ag)
      BY <1>2 DEF StateInv
    <3>3. p \in in_step => Follows(queue, Settled(writing[p], ag_state[p]), ag)
      BY <1>2 DEF StateInv
    <3> HIDE DEF queue
    <3>4. LastIn(queue \o msgs, Tells, Telling(ag'))
      <4>1. Has(msgs, Tells) \/ LastIn(queue, Tells, Telling(ag'))
        BY <3>2 DEF QueueTells
      <4> QED  BY <3>1, <4>1, JoinedLast DEF QueueTells
    <3>5. Chain(queue \o msgs, Tells, Moves)
      <4>1. \A x \in Telling(ag) : \A y \in After(ag) : <<x, y>> \in Moves
        BY DEF Telling, After, Moves
      <4> QED  BY <3>1, <3>2, <4>1, JoinedChain DEF QueueTells
    <3>6. ASSUME p \in in_step, NEW state, Follows(queue, state, ag)
          PROVE  Follows(queue \o msgs, state, ag')
      <4>1. FirstIn(queue \o msgs, Tells, After(state))
        <5>1. Has(queue, Tells) \/ FirstIn(msgs, Tells, After(state))
          BY <3>6 DEF Follows
        <5> QED  BY <3>1, <3>6, <5>1, JoinedFirst DEF Follows
      <4>2. Has(queue \o msgs, Tells) <=> Has(queue, Tells) \/ Has(msgs, Tells)
        BY <3>1, JoinedHas
      <4> QED  BY <3>6, <4>1, <4>2 DEF Follows
    <3> QED  BY <1>1, <3>1, <3>3, <3>4, <3>5, <3>6 DEF QueueTells
  <2> QED  BY <2>1, <2>2
<1>8. BitInv'
  <2> SUFFICES ASSUME NEW b \in Audio!Bits
               PROVE  /\ \A p \in Proc : Writes(b, audio_inbox'[p], writing'[p], ag', av')
                      /\ b \notin audio_unheard' /\ ~stale' =>
                           \/ b \in headset_bits' <=> Up(b, ag', av')
                           \/ \E p \in Proc : BitWaits(b, audio_inbox'[p], writing'[p])
    BY DEF BitInv
  <2>1. ASSUME NEW p \in Proc PROVE Writes(b, audio_inbox'[p], writing'[p], ag', av')
    <3>1. CASE p \notin audio_conn
      <4>1. audio_inbox'[p] = <<>> /\ writing'[p].bit # b
        BY <1>6, <3>1 DEF Audio!NotWriting, Audio!Bits
      <4> QED  BY <4>1, NoItem DEF Writes
    <3>2. CASE p \in audio_conn
      <4>1. /\ audio_inbox[p] \in Seq(AudioSignal) /\ audio_inbox'[p] = audio_inbox[p] \o msgs
            /\ Writes(b, audio_inbox[p], writing[p], ag, av)
        BY <1>2, <1>5, <3>2 DEF BitInv
      <4>2. Has(msgs, For(b)) \/ Agreeing(b, ag', av') = Agreeing(b, ag, av)
        BY DEF Agreeing
      <4>3. LastIn(audio_inbox[p] \o msgs, For(b), Agreeing(b, ag', av'))
        <5>1. Has(msgs, For(b)) \/ LastIn(audio_inbox[p], For(b), Agreeing(b, ag', av'))
          BY <4>1, <4>2 DEF Writes
        <5> QED  BY <4>1, <5>1, JoinedLast
      <4>4. Has(audio_inbox[p] \o msgs, For(b)) <=> Has(audio_inbox[p], For(b)) \/ Has(msgs, For(b))
        BY <4>1, JoinedHas
      <4> QED  BY <1>1, <4>1, <4>3, <4>4 DEF Writes
    <3> QED  BY <3>1, <3>2
  <2>2. ASSUME b \notin audio_unheard', ~stale'
        PROVE  \/ b \in headset_bits' <=> Up(b, ag', av')
               \/ \E p \in Proc : BitWaits(b, audio_inbox'[p], writing'[p])
    <3>1. CASE Has(msgs, For(b)) /\ audio_conn # {}
      <4>1. PICK p \in audio_conn : TRUE
        BY <3>1
      <4>2. /\ p \in Proc /\ audio_inbox[p] \in Seq(AudioSignal)
            /\ audio_inbox'[p] = audio_inbox[p] \o msgs
        BY <1>5
      <4>3. Has(audio_inbox[p] \o msgs, For(b))
        BY <3>1, <4>2, JoinedHas
      <4> QED  BY <4>2, <4>3 DEF BitWaits
    <3>2. CASE ~(Has(msgs, For(b)) /\ audio_conn # {})
      <4>1. Up(b, ag', av') <=> Up(b, ag, av)
        BY <1>1, <2>2, <3>2
      <4>2. \A p \in Proc : BitWaits(b, audio_inbox[p], writing[p])
                              => BitWaits(b, audio_inbox'[p], writing'[p])
        <5>1. \A p \in Proc : Has(audio_inbox[p], For(b)) => Has(audio_inbox'[p], For(b))
          BY <1>1, <1>3, JoinedHas
        <5> QED  BY <1>1, <5>1 DEF BitWaits
      <4>3. b \notin audio_unheard /\ ~stale
        BY <1>1, <2>2
      <4> QED  BY <1>1, <1>2, <4>1, <4>2, <4>3 DEF BitInv
    <3> QED  BY <3>1, <3>2
  <2> QED  BY <2>1, <2>2
<1> QED  BY <1>4, <1>7, <1>8 DEF AudioInv

LEMMA MovesAre ==
  /\ Audio!AgMoves["connecting"] = {"connected", "disconnected"}
  /\ Audio!AgMoves["connected"] = {"playing", "disconnected"}
  /\ Audio!AgMoves["playing"] = {"connected", "disconnected"}
  /\ Audio!AgMoves["disconnected"] = {"connecting"}
BY DEF Audio!AgMoves

LEMMA SignalSets ==
  /\ \A s \in AgStates :
       /\ Audio!State(s) \in Tells /\ StateTold(Audio!State(s)) = s
       /\ \A state : s \in Audio!AgMoves[state] => Audio!State(s) \in After(state)
       /\ \A b : Audio!State(s) \notin For(b)
  /\ \A b \in Audio!Bits, on \in BOOLEAN :
       /\ Audio!Connected(b, on) \in Tells <=> b = "HEADSET" /\ ~on
       /\ StateTold(Audio!Connected(b, on)) = "disconnected"
       /\ b = "HEADSET" /\ ~on => Audio!Connected(b, on) \in After("disconnected")
       /\ \A c : Audio!Connected(b, on) \in For(c) <=> c = b
       /\ \A link, a2dp : (on <=> Up(b, link, a2dp))
                            => Audio!Connected(b, on) \in Agreeing(b, link, a2dp)
  /\ \A b \in Audio!Bits :
       /\ Audio!Removed(b) \in Tells <=> b = "HEADSET"
       /\ StateTold(Audio!Removed(b)) = "disconnected"
       /\ b = "HEADSET" => \A state : Audio!Removed(b) \in After(state)
       /\ \A c : Audio!Removed(b) \in For(c) <=> c = b
       /\ \A link, a2dp : ~Up(b, link, a2dp) => Audio!Removed(b) \in Agreeing(b, link, a2dp)
<1>1. ASSUME NEW s \in AgStates
      PROVE  /\ Audio!State(s) \in Tells /\ StateTold(Audio!State(s)) = s
             /\ \A state : s \in Audio!AgMoves[state] => Audio!State(s) \in After(state)
             /\ \A b : Audio!State(s) \notin For(b)
  BY AudioKinds DEF Audio!State, Tells, StateTold, After, For
<1>2. ASSUME NEW b \in Audio!Bits, NEW on \in BOOLEAN
      PROVE  /\ Audio!Connected(b, on) \in Tells <=> b = "HEADSET" /\ ~on
             /\ StateTold(Audio!Connected(b, on)) = "disconnected"
             /\ b = "HEADSET" /\ ~on => Audio!Connected(b, on) \in After("disconnected")
             /\ \A c : Audio!Connected(b, on) \in For(c) <=> c = b
             /\ \A link, a2dp : (on <=> Up(b, link, a2dp))
                                  => Audio!Connected(b, on) \in Agreeing(b, link, a2dp)
  <2>1. PICK m : m = Audio!Connected(b, on)
    OBVIOUS
  <2>2. m \in AudioSignal /\ m.property = "Connected" /\ m.bit = b /\ m.value = on
    BY <2>1, AudioKinds DEF Audio!Connected
  <2>3. m \in Tells <=> b = "HEADSET" /\ ~on
    BY <2>2 DEF Tells
  <2>4. \A c : m \in For(c) <=> c = b
    BY <2>2 DEF For
  <2>5. \A link, a2dp : (on <=> Up(b, link, a2dp)) => m \in Agreeing(b, link, a2dp)
    BY <2>2, <2>4 DEF Agreeing
  <2> QED  BY <2>1, <2>2, <2>3, <2>4, <2>5 DEF StateTold, After
<1>3. ASSUME NEW b \in Audio!Bits
      PROVE  /\ Audio!Removed(b) \in Tells <=> b = "HEADSET"
             /\ StateTold(Audio!Removed(b)) = "disconnected"
             /\ b = "HEADSET" => \A state : Audio!Removed(b) \in After(state)
             /\ \A c : Audio!Removed(b) \in For(c) <=> c = b
             /\ \A link, a2dp : ~Up(b, link, a2dp) => Audio!Removed(b) \in Agreeing(b, link, a2dp)
  BY AudioKinds DEF Audio!Removed, Tells, StateTold, After, For, Agreeing
<1> QED  BY <1>1, <1>2, <1>3

LEMMA StateAloneKeeps ==
  ASSUME AudioInv, NEW s \in AgStates, NEW bits, Audio!Broadcast(<<Audio!State(s)>>, bits),
         s \in Audio!AgMoves[ag], ag' = s, av' = av,
         s \in {"connected", "playing"} <=> ag \in {"connected", "playing"}
  PROVE  AudioInv'
<1> DEFINE m == Audio!State(s)
<1>1. /\ m \in AudioSignal /\ m \in Tells /\ StateTold(m) = s /\ m \in After(ag)
      /\ \A b : m \notin For(b)
  BY AudioKinds, SignalSets
<1> HIDE DEF m
<1>2. <<m>> \in Seq(AudioSignal)
  BY <1>1
<1>3. QueueTells(<<m>>, s) /\ FirstIn(<<m>>, Tells, After(ag)) /\ Has(<<m>>, Tells)
  BY <1>1, OneItem DEF QueueTells, Telling
<1>4. \A b : LastIn(<<m>>, For(b), Agreeing(b, ag', av'))
  BY <1>1, OneItem
<1>5. \A b : Up(b, ag', av') <=> Up(b, ag, av)
  BY DEF Up
<1>6. ag' \in AgStates /\ av' \in BOOLEAN
  BY DEF AudioInv, AudioTyped
<1> QED  BY <1>2, <1>3, <1>4, <1>5, <1>6, BroadcastKeeps DEF m

\* The state and then Connected.
LEMMA StateAndLinkKeep ==
  ASSUME AudioInv, NEW s \in AgStates, NEW on \in BOOLEAN,
         Audio!Broadcast(<<Audio!State(s), Audio!Connected("HEADSET", on)>>, {"HEADSET"}),
         s \in Audio!AgMoves[ag], ag' = s, av' = av,
         IF on THEN s = "connected" ELSE s = "disconnected"
  PROVE  AudioInv'
<1> DEFINE m == Audio!State(s)
<1> DEFINE n == Audio!Connected("HEADSET", on)
<1>1. /\ m \in AudioSignal /\ m \in Tells /\ StateTold(m) = s /\ m \in After(ag)
      /\ \A b : m \notin For(b)
  BY AudioKinds, SignalSets
<1>2. Up("HEADSET", s, av) <=> on
  BY DEF Up
<1>3. "HEADSET" \in Audio!Bits
  BY DEF Audio!Bits
<1>4. /\ n \in AudioSignal /\ StateTold(n) = "disconnected"
      /\ n \in Tells <=> ~on
      /\ ~on => n \in After("disconnected")
      /\ \A b : n \in For(b) <=> b = "HEADSET"
      /\ n \in Agreeing("HEADSET", s, av)
  BY <1>2, <1>3, AudioKinds, SignalSets
<1> HIDE DEF m, n
<1>5. <<m, n>> \in Seq(AudioSignal)
  BY <1>1, <1>4
<1>6. QueueTells(<<m, n>>, s)
  <2>1. LastIn(<<m, n>>, Tells, Telling(s))
    BY <1>1, <1>4, TwoItems DEF Telling
  <2>2. n \in Tells => <<m, n>> \in Moves
    BY <1>1, <1>4 DEF Moves
  <2> QED  BY <2>1, <2>2, TwoItems DEF QueueTells
<1>7. FirstIn(<<m, n>>, Tells, After(ag)) /\ Has(<<m, n>>, Tells)
  BY <1>1, TwoItems
<1>8. ASSUME NEW b \in Audio!Bits
      PROVE  /\ LastIn(<<m, n>>, For(b), Agreeing(b, ag', av'))
             /\ \/ Has(<<m, n>>, For(b)) /\ b \in {"HEADSET"}
                \/ Up(b, ag', av') <=> Up(b, ag, av)
  <2>1. CASE b = "HEADSET"
    BY <1>1, <1>4, <2>1, TwoItems
  <2>2. CASE b # "HEADSET"
    BY <1>1, <1>4, <2>2, TwoItems DEF Up
  <2> QED  BY <2>1, <2>2
<1>9. ag' \in AgStates /\ av' \in BOOLEAN
  BY DEF AudioInv, AudioTyped
<1> QED  BY <1>5, <1>6, <1>7, <1>8, <1>9, BroadcastKeeps DEF m, n

LEMMA AvKeeps == ASSUME AudioInv, Audio!AvChanges PROVE AudioInv'
<1> DEFINE n == Audio!Connected("A2DP", av')
<1>1. ag' = ag /\ av' = ~av /\ Audio!Broadcast(<<n>>, {"A2DP"})
  BY DEF Audio!AvChanges
<1>2. ag' \in AgStates /\ av' \in BOOLEAN
  BY <1>1 DEF AudioInv, AudioTyped
<1>3. /\ n \in AudioSignal /\ n \notin Tells /\ \A b : n \in For(b) <=> b = "A2DP"
      /\ n \in Agreeing("A2DP", ag', av')
  <2>1. "A2DP" \in Audio!Bits /\ (Up("A2DP", ag', av') <=> av')
    BY DEF Audio!Bits, Up
  <2> QED  BY <1>2, <2>1, AudioKinds, SignalSets
<1> HIDE DEF n
<1>4. <<n>> \in Seq(AudioSignal)
  BY <1>3
<1>5. QueueTells(<<n>>, ag') /\ FirstIn(<<n>>, Tells, After(ag))
  BY <1>3, OneItem DEF QueueTells
<1>6. ASSUME NEW b \in Audio!Bits
      PROVE  /\ LastIn(<<n>>, For(b), Agreeing(b, ag', av'))
             /\ \/ Has(<<n>>, For(b)) /\ b \in {"A2DP"}
                \/ Up(b, ag', av') <=> Up(b, ag, av)
  <2>1. CASE b = "A2DP"
    BY <1>3, <2>1, OneItem
  <2>2. CASE b # "A2DP"
    BY <1>1, <1>3, <2>2, OneItem DEF Up, Audio!Bits
  <2> QED  BY <2>1, <2>2
<1> QED  BY <1>1, <1>2, <1>4, <1>5, <1>6, BroadcastKeeps

LEMMA AdapterKeepsAudio == ASSUME AudioInv, Audio!AdapterGoes PROVE AudioInv'
<1> DEFINE m == Audio!Removed("HEADSET")
<1> DEFINE n == Audio!Removed("A2DP")
<1>1. ag' = "disconnected" /\ av' = FALSE /\ Audio!Broadcast(<<m, n>>, Audio!Bits)
  BY DEF Audio!AdapterGoes
<1>2. ag' \in AgStates /\ av' \in BOOLEAN
  BY <1>1 DEF AgStates
<1>3. \A b \in Audio!Bits : ~Up(b, ag', av')
  BY <1>1 DEF Up
<1>4. /\ m \in AudioSignal /\ m \in Tells /\ StateTold(m) = "disconnected" /\ m \in After(ag)
      /\ \A b : m \in For(b) <=> b = "HEADSET"
      /\ m \in Agreeing("HEADSET", ag', av')
      /\ n \in AudioSignal /\ n \notin Tells
      /\ \A b : n \in For(b) <=> b = "A2DP"
      /\ n \in Agreeing("A2DP", ag', av')
  <2>1. "HEADSET" \in Audio!Bits /\ "A2DP" \in Audio!Bits
    BY DEF Audio!Bits
  <2> QED  BY <1>3, <2>1, AudioKinds, SignalSets
<1> HIDE DEF m, n
<1>5. <<m, n>> \in Seq(AudioSignal)
  BY <1>4
<1>6. QueueTells(<<m, n>>, ag') /\ FirstIn(<<m, n>>, Tells, After(ag)) /\ Has(<<m, n>>, Tells)
  BY <1>1, <1>4, TwoItems DEF QueueTells, Telling
<1>7. ASSUME NEW b \in Audio!Bits
      PROVE  /\ LastIn(<<m, n>>, For(b), Agreeing(b, ag', av'))
             /\ Has(<<m, n>>, For(b)) /\ b \in Audio!Bits
  <2>1. CASE b = "HEADSET"
    BY <1>4, <2>1, TwoItems
  <2>2. CASE b = "A2DP"
    BY <1>4, <2>2, TwoItems
  <2> QED  BY <2>1, <2>2 DEF Audio!Bits
<1> QED  BY <1>1, <1>2, <1>5, <1>6, <1>7, BroadcastKeeps

LEMMA AgKeeps == ASSUME AudioInv, Audio!AgChanges PROVE AudioInv'
<1>1. av' = av
  BY DEF Audio!AgChanges
<1>2. <<Audio!State("connected")>> \o <<>> = <<Audio!State("connected")>>
  OBVIOUS
<1>3. <<Audio!State("connected")>> \o <<Audio!Connected("HEADSET", TRUE)>>
        = <<Audio!State("connected"), Audio!Connected("HEADSET", TRUE)>>
  BY TwoJoined
<1>4. CASE ag = "disconnected" /\ ag' = "connecting" /\ Audio!Broadcast(<<Audio!State("connecting")>>, {})
  BY <1>1, <1>4, StateAloneKeeps, MovesAre DEF AgStates
<1>5. CASE ag = "playing" /\ ag' = "connected"
           /\ Audio!Broadcast(<<Audio!State("connected")>> \o <<>>, {"HEADSET"})
  BY <1>1, <1>2, <1>5, StateAloneKeeps, MovesAre DEF AgStates
<1>6. CASE ag = "connecting" /\ ag' = "connected"
           /\ Audio!Broadcast(<<Audio!State("connected")>> \o <<Audio!Connected("HEADSET", TRUE)>>,
                              {"HEADSET"})
  BY <1>1, <1>3, <1>6, StateAndLinkKeep, MovesAre DEF AgStates
<1>7. CASE ag = "connected" /\ ag' = "playing" /\ Audio!Broadcast(<<Audio!State("playing")>>, {})
  BY <1>1, <1>7, StateAloneKeeps, MovesAre DEF AgStates
<1>8. CASE ag = "connecting" /\ ag' = "disconnected"
           /\ Audio!Broadcast(<<Audio!State("disconnected")>>, {})
  BY <1>1, <1>8, StateAloneKeeps, MovesAre DEF AgStates
<1>9. CASE ag \in {"connected", "playing"} /\ ag' = "disconnected"
           /\ Audio!Broadcast(<<Audio!State("disconnected"), Audio!Connected("HEADSET", FALSE)>>,
                              {"HEADSET"})
  BY <1>1, <1>9, StateAndLinkKeep, MovesAre DEF AgStates
<1>10. CASE ag \in {"connecting", "playing"} /\ ag' = "connected"
            /\ Audio!Broadcast(<<Audio!State("connected")>> \o
                 (IF ag = "connecting" THEN <<Audio!Connected("HEADSET", TRUE)>> ELSE <<>>),
                 {"HEADSET"})
  <2>1. CASE ag = "connecting"
    BY <1>6, <1>10, <2>1
  <2>2. CASE ag = "playing"
    <3>1. ag # "connecting"
      BY <2>2
    <3> QED  BY <1>5, <1>10, <2>2, <3>1
  <2> QED  BY <1>10, <2>1, <2>2
<1> QED  BY <1>4, <1>7, <1>8, <1>9, <1>10 DEF Audio!AgChanges

(***************************************************************************)
(* The processes.                                                          *)
(***************************************************************************)

LEMMA AudioAlone ==
  ASSUME AudioInv, AudioTyped', UNCHANGED <<ag_state, audio_inbox, writing, headset_bits, ag, av,
                                            in_step, stale, audio_unheard>>
  PROVE  AudioInv'
<1>1. StateInv'
  BY DEF AudioInv, StateInv
<1>2. BitInv'
  BY DEF AudioInv, BitInv
<1> QED  BY <1>1, <1>2 DEF AudioInv

LEMMA AudioCallKeeps ==
  ASSUME AudioInv, NEW p \in Proc,
         \/ Audio!bluetooth_audio_init(p) \/ Audio!audio_connect(p)
         \/ \E n \in 1..MaxConnects : Audio!connect_cb(p, n)
  PROVE  AudioInv'
<1>1. UNCHANGED <<ag_state, audio_inbox, writing, headset_bits, ag, av, in_step, stale,
                  audio_unheard>>
  BY DEF Audio!bluetooth_audio_init, Audio!audio_connect, Audio!connect_cb, Audio!bluezVars,
     Audio!ghosts
<1>2. audio_conn' = audio_conn \/ audio_conn' = audio_conn \cup {p}
  BY DEF Audio!bluetooth_audio_init, Audio!audio_connect, Audio!connect_cb
<1>3. AudioTyped'
  BY <1>1, <1>2 DEF AudioInv, AudioTyped
<1> QED  BY <1>1, <1>3, AudioAlone

LEMMA AudioDeinitKeeps ==
  ASSUME AudioInv, NEW p \in Proc, Audio!bluetooth_audio_deinit(p)
  PROVE  AudioInv'
<1>1. PICK lost : lost = {audio_inbox[p][i].bit :
                            i \in {j \in DOMAIN audio_inbox[p] : audio_inbox[p][j].property # "State"}}
  OBVIOUS
<1>2. /\ audio_conn' = audio_conn \ {p} /\ writing[p] = Audio!NotWriting
      /\ audio_unheard' = audio_unheard \cup lost
      /\ audio_inbox' = [audio_inbox EXCEPT ![p] = <<>>]
      /\ in_step' = in_step \ {p}
      /\ UNCHANGED <<ag_state, writing, headset_bits, ag, av, stale>>
  BY <1>1 DEF Audio!bluetooth_audio_deinit, Audio!bluezVars
<1>3. AudioTyped /\ StateInv /\ BitInv
  BY DEF AudioInv
<1>4. /\ audio_inbox \in [Proc -> Seq(AudioSignal)] /\ <<>> \in Seq(AudioSignal)
  BY <1>3 DEF AudioTyped
<1>5. audio_inbox'[p] = <<>> /\ \A q \in Proc : q # p => audio_inbox'[q] = audio_inbox[q]
  BY <1>2, <1>4
<1>6. AudioTyped'
  <2>1. audio_inbox' \in [Proc -> Seq(AudioSignal)]
    BY <1>2, <1>4
  <2> QED  BY <1>2, <1>3, <1>5, <2>1 DEF AudioTyped
<1>7. StateInv'
  <2>1. ASSUME NEW q \in Proc
        PROVE  /\ QueueTells(audio_inbox'[q], ag')
               /\ q \in in_step' => Follows(audio_inbox'[q], Settled(writing'[q], ag_state'[q]), ag')
    <3>1. CASE q = p
      BY <1>2, <1>5, <3>1, NoItem DEF QueueTells
    <3>2. CASE q # p
      BY <1>2, <1>3, <1>5, <3>2 DEF StateInv
    <3> QED  BY <3>1, <3>2
  <2> QED  BY <2>1 DEF StateInv
<1>8. BitInv'
  <2>1. ASSUME NEW b \in Audio!Bits, NEW q \in Proc
        PROVE  Writes(b, audio_inbox'[q], writing'[q], ag', av')
    <3>1. CASE q = p
      BY <1>2, <1>5, <3>1, NoItem DEF Writes, Audio!NotWriting, Audio!Bits
    <3>2. CASE q # p
      BY <1>2, <1>3, <1>5, <3>2 DEF BitInv
    <3> QED  BY <3>1, <3>2
  <2>2. ASSUME NEW b \in Audio!Bits, Has(audio_inbox[p], For(b)) PROVE b \in lost
    <3>1. PICK i \in 1..Len(audio_inbox[p]) : audio_inbox[p][i] \in For(b)
      BY <2>2 DEF Has
    <3>2. i \in DOMAIN audio_inbox[p]
      BY <1>4
    <3> QED  BY <1>1, <3>1, <3>2 DEF For
  <2>3. ASSUME NEW b \in Audio!Bits, b \notin audio_unheard', ~stale'
        PROVE  \/ b \in headset_bits' <=> Up(b, ag', av')
               \/ \E q \in Proc : BitWaits(b, audio_inbox'[q], writing'[q])
    <3>1. ~Has(audio_inbox[p], For(b)) /\ b \notin audio_unheard /\ ~stale
      BY <1>2, <2>2, <2>3
    <3>2. writing[p].bit # b
      BY <1>2 DEF Audio!NotWriting, Audio!Bits
    <3>3. \A q \in Proc : BitWaits(b, audio_inbox[q], writing[q])
                            => BitWaits(b, audio_inbox'[q], writing'[q])
      BY <1>2, <1>5, <3>1, <3>2 DEF BitWaits
    <3> QED  BY <1>2, <1>3, <3>1, <3>3 DEF BitInv
  <2> QED  BY <2>1, <2>3 DEF BitInv
<1> QED  BY <1>6, <1>7, <1>8 DEF AudioInv

\* The key is written: what was waited for has come.
LEMMA WriteKeeps == ASSUME AudioInv, NEW p \in Proc, Audio!WriteKey(p) PROVE AudioInv'
<1>1. AudioTyped /\ StateInv /\ BitInv
  BY DEF AudioInv
<1>2. PICK w : w = writing[p]
  OBVIOUS
<1>3. w \in [bit : Audio!Bits, on : BOOLEAN, read : SUBSET Audio!Bits]
  BY <1>1, <1>2 DEF AudioTyped, Writing, Audio!WriteKey
<1>4. w.bit \in Audio!Bits /\ w.on \in BOOLEAN /\ w.read \subseteq Audio!Bits
  BY <1>3
<1>5. /\ writing' = [writing EXCEPT ![p] = Audio!NotWriting]
      /\ headset_bits' = Audio!WithBit(w.read, w.bit, w.on)
      /\ ag_state' = IF w.bit = "HEADSET" /\ ~w.on THEN [ag_state EXCEPT ![p] = "disconnected"]
                     ELSE ag_state
      /\ audio_unheard' = audio_unheard \ {w.bit}
      /\ UNCHANGED <<audio_conn, audio_inbox, ag, av, in_step>>
  BY <1>2 DEF Audio!WriteKey, Audio!bluezVars
<1>6. ~stale' => ~stale /\ w.read \ {w.bit} = headset_bits \ {w.bit}
  BY <1>2, Zenon DEF Audio!WriteKey
<1>7. /\ writing'[p] = Audio!NotWriting /\ ag_state'[p] = Settled(w, ag_state[p])
      /\ \A q \in Proc : q # p => writing'[q] = writing[q] /\ ag_state'[q] = ag_state[q]
  BY <1>1, <1>5 DEF AudioTyped, Settled
<1>8. AudioTyped'
  <2>1. writing' \in [Proc -> Writing]
    BY <1>1, <1>5 DEF AudioTyped, Writing
  <2>2. ag_state' \in [Proc -> AgStates \cup {"none"}]
    BY <1>1, <1>5 DEF AudioTyped, AgStates
  <2>3. headset_bits' \subseteq Audio!Bits
    BY <1>4, <1>5 DEF Audio!WithBit
  <2>4. \A q \in Proc \ audio_conn : writing'[q] = Audio!NotWriting
    BY <1>1, <1>7 DEF AudioTyped
  <2> QED  BY <1>1, <1>5, <2>1, <2>2, <2>3, <2>4 DEF AudioTyped
<1>9. StateInv'
  <2>1. \A state : Settled(Audio!NotWriting, state) = state
    BY DEF Settled, Audio!NotWriting
  <2>2. \A q \in Proc : Settled(writing'[q], ag_state'[q]) = Settled(writing[q], ag_state[q])
    BY <1>2, <1>7, <2>1
  <2> QED  BY <1>1, <1>5, <2>2 DEF StateInv
<1>10. BitInv'
  <2>1. Audio!NotWriting.bit = "none" /\ "none" \notin Audio!Bits
    BY DEF Audio!NotWriting, Audio!Bits
  <2>2. ASSUME NEW b \in Audio!Bits, NEW q \in Proc
        PROVE  Writes(b, audio_inbox'[q], writing'[q], ag', av')
    <3>1. Writes(b, audio_inbox[q], writing[q], ag, av)
      BY <1>1 DEF BitInv
    <3>2. writing'[q] = writing[q] \/ writing'[q].bit # b
      BY <1>7, <2>1
    <3> QED  BY <1>5, <3>1, <3>2 DEF Writes
  <2>3. ASSUME NEW b \in Audio!Bits, b \notin audio_unheard', ~stale'
        PROVE  \/ b \in headset_bits' <=> Up(b, ag', av')
               \/ \E q \in Proc : BitWaits(b, audio_inbox'[q], writing'[q])
    <3>1. CASE b = w.bit
      <4>1. CASE Has(audio_inbox[p], For(b))
        BY <1>5, <4>1 DEF BitWaits
      <4>2. CASE ~Has(audio_inbox[p], For(b))
        <5>1. w.on <=> Up(b, ag, av)
          BY <1>1, <1>2, <3>1, <4>2 DEF BitInv, Writes
        <5>2. b \in headset_bits' <=> w.on
          BY <1>5, <3>1 DEF Audio!WithBit
        <5> QED  BY <1>5, <5>1, <5>2
      <4> QED  BY <4>1, <4>2
    <3>2. CASE b # w.bit
      <4>1. b \in headset_bits' <=> b \in headset_bits
        BY <1>5, <1>6, <2>3, <3>2 DEF Audio!WithBit
      <4>2. b \notin audio_unheard /\ ~stale
        BY <1>5, <1>6, <2>3, <3>2
      <4>3. \A q \in Proc : BitWaits(b, audio_inbox[q], writing[q])
                              => BitWaits(b, audio_inbox'[q], writing'[q])
        BY <1>2, <1>5, <1>7, <3>2 DEF BitWaits
      <4> QED  BY <1>1, <1>5, <4>1, <4>2, <4>3 DEF BitInv
    <3> QED  BY <3>1, <3>2
  <2> QED  BY <2>2, <2>3 DEF BitInv
<1> QED  BY <1>8, <1>9, <1>10 DEF AudioInv

\* A signal that tells the state leaves the process where the next one may follow.
LEMMA HeardTells ==
  ASSUME NEW queue \in Seq(AudioSignal), queue # <<>>, NEW link, QueueTells(queue, link),
         Head(queue) \in Tells
  PROVE  Follows(Tail(queue), StateTold(Head(queue)), link)
<1>1. PICK m : m = Head(queue)
  OBVIOUS
<1>2. StateTold(m) \in AgStates
  BY <1>1, AudioKinds DEF Tells, StateTold, AgStates
<1>3. FirstIn(Tail(queue), Tells, After(StateTold(m)))
  <2>1. \A y \in Tells : <<m, y>> \in Moves => y \in After(StateTold(m))
    BY DEF Moves
  <2> QED  BY <1>1, <2>1, RestChain DEF QueueTells
<1>4. ASSUME ~Has(Tail(queue), Tells) PROVE StateTold(m) = link
  <2>1. m \in Telling(link)
    BY <1>1, <1>4, RestLast DEF QueueTells
  <2> QED  BY <2>1 DEF Telling
<1> QED  BY <1>1, <1>2, <1>3, <1>4 DEF Follows

LEMMA HeardOther ==
  ASSUME NEW queue \in Seq(AudioSignal), queue # <<>>, NEW state, NEW link,
         Follows(queue, state, link), Head(queue) \notin Tells
  PROVE  Follows(Tail(queue), state, link)
<1>1. FirstIn(Tail(queue), Tells, After(state))
  BY RestFirst DEF Follows
<1>2. Has(queue, Tells) <=> Has(Tail(queue), Tells)
  BY RestHas
<1> QED  BY <1>1, <1>2 DEF Follows

\* What a handler must see to: w is the write it begins, state the state it leaves.
LEMMA HeardKeeps ==
  ASSUME AudioInv, NEW p \in Proc, p \in audio_conn, audio_inbox[p] # <<>>,
         audio_inbox' = [audio_inbox EXCEPT ![p] = Tail(audio_inbox[p])],
         UNCHANGED <<audio_conn, headset_bits, ag, av, stale>>,
         writing[p] = Audio!NotWriting,
         NEW w \in Writing, writing' = [writing EXCEPT ![p] = w],
         NEW state \in AgStates \cup {"none"}, ag_state' = [ag_state EXCEPT ![p] = state],
         in_step' \subseteq in_step \cup {p},
         audio_unheard \subseteq audio_unheard',
         p \in in_step' => Follows(Tail(audio_inbox[p]), Settled(w, state), ag),
         \A b \in Audio!Bits :
           /\ Head(audio_inbox[p]) \in For(b) => w.bit = b \/ b \in audio_unheard'
           /\ w.bit = b /\ ~Has(Tail(audio_inbox[p]), For(b)) => (w.on <=> Up(b, ag, av))
  PROVE  AudioInv'
<1>1. AudioTyped /\ StateInv /\ BitInv
  BY DEF AudioInv
<1> DEFINE queue == audio_inbox[p]
<1>2. audio_inbox \in [Proc -> Seq(AudioSignal)] /\ queue \in Seq(AudioSignal)
  BY <1>1 DEF AudioTyped
<1>3. Tail(queue) \in Seq(AudioSignal) /\ queue # <<>>
  <2> HIDE DEF queue
  <2>1. queue # <<>>
    BY DEF queue
  <2> QED  BY <1>2, <2>1, RestItems
<1>4. /\ audio_inbox'[p] = Tail(queue) /\ writing'[p] = w /\ ag_state'[p] = state
      /\ \A q \in Proc : q # p => /\ audio_inbox'[q] = audio_inbox[q]
                                  /\ writing'[q] = writing[q] /\ ag_state'[q] = ag_state[q]
                                  /\ q \in in_step' => q \in in_step
  BY <1>1, <1>2 DEF AudioTyped
<1>5. AudioTyped'
  <2>1. audio_inbox' \in [Proc -> Seq(AudioSignal)]
    BY <1>2, <1>3
  <2>2. writing' \in [Proc -> Writing] /\ ag_state' \in [Proc -> AgStates \cup {"none"}]
    BY <1>1 DEF AudioTyped
  <2>3. in_step' \subseteq audio_conn
    BY <1>1 DEF AudioTyped
  <2>4. \A q \in Proc \ audio_conn : audio_inbox'[q] = <<>> /\ writing'[q] = Audio!NotWriting
    BY <1>1, <1>4 DEF AudioTyped
  <2> QED  BY <1>1, <2>1, <2>2, <2>3, <2>4 DEF AudioTyped
<1>6. StateInv'
  <2>1. QueueTells(Tail(queue), ag)
    <3>1. QueueTells(queue, ag)
      BY <1>1 DEF StateInv
    <3> HIDE DEF queue
    <3> QED  BY <1>2, <1>3, <3>1, RestLast, RestChain DEF QueueTells
  <2>2. ASSUME NEW q \in Proc
        PROVE  /\ QueueTells(audio_inbox'[q], ag')
               /\ q \in in_step' => Follows(audio_inbox'[q], Settled(writing'[q], ag_state'[q]), ag')
    <3>1. CASE q = p
      BY <1>4, <2>1, <3>1
    <3>2. CASE q # p
      BY <1>1, <1>4, <3>2 DEF StateInv
    <3> QED  BY <3>1, <3>2
  <2> QED  BY <2>2 DEF StateInv
<1>7. BitInv'
  <2>1. ASSUME NEW b \in Audio!Bits, NEW q \in Proc
        PROVE  Writes(b, audio_inbox'[q], writing'[q], ag', av')
    <3>1. Writes(b, audio_inbox[q], writing[q], ag, av)
      BY <1>1 DEF BitInv
    <3>2. CASE q = p
      <4>1. LastIn(Tail(queue), For(b), Agreeing(b, ag, av))
        <5>1. LastIn(queue, For(b), Agreeing(b, ag, av))
          BY <3>1, <3>2 DEF Writes
        <5> HIDE DEF queue
        <5> QED  BY <1>2, <1>3, <5>1, RestLast
      <4> QED  BY <1>4, <3>2, <4>1 DEF Writes
    <3>3. CASE q # p
      BY <1>4, <3>1, <3>3
    <3> QED  BY <3>2, <3>3
  <2>2. ASSUME NEW b \in Audio!Bits, b \notin audio_unheard', ~stale'
        PROVE  \/ b \in headset_bits' <=> Up(b, ag', av')
               \/ \E q \in Proc : BitWaits(b, audio_inbox'[q], writing'[q])
    <3>1. Has(queue, For(b)) => Head(queue) \in For(b) \/ Has(Tail(queue), For(b))
      <4> HIDE DEF queue
      <4> QED  BY <1>2, <1>3, RestHas
    <3>2. BitWaits(b, queue, writing[p]) => BitWaits(b, Tail(queue), w)
      BY <2>2, <3>1 DEF BitWaits, Audio!NotWriting, Audio!Bits
    <3>3. \A q \in Proc : BitWaits(b, audio_inbox[q], writing[q])
                            => BitWaits(b, audio_inbox'[q], writing'[q])
      BY <1>4, <3>2
    <3>4. b \notin audio_unheard /\ ~stale
      BY <2>2
    <3> QED  BY <1>1, <3>3, <3>4 DEF BitInv
  <2> QED  BY <2>1, <2>2 DEF BitInv
<1> QED  BY <1>5, <1>6, <1>7 DEF AudioInv

LEMMA AudioDispatchKeeps ==
  ASSUME AudioInv, NEW p \in Proc, Audio!Dispatch(p) PROVE AudioInv'
<1>1. PICK queue : queue = audio_inbox[p]
  OBVIOUS
<1>2. PICK msg : msg = Head(queue)
  OBVIOUS
<1>3. AudioTyped /\ StateInv /\ BitInv
  BY DEF AudioInv
<1>4. /\ p \in audio_conn /\ queue # <<>> /\ writing[p] = Audio!NotWriting
      /\ audio_inbox' = [audio_inbox EXCEPT ![p] = Tail(audio_inbox[p])]
      /\ UNCHANGED <<audio_conn, headset_bits, ag, av, stale>>
  BY <1>1 DEF Audio!Dispatch, Audio!bluezVars
<1>5. /\ queue \in Seq(AudioSignal) /\ writing \in [Proc -> Writing]
      /\ ag_state \in [Proc -> AgStates \cup {"none"}]
  BY <1>1, <1>3 DEF AudioTyped
<1>6. msg \in AudioSignal
  BY <1>2, <1>4, <1>5, RestItems
<1>7. QueueTells(queue, ag) /\ (p \in in_step => Follows(queue, ag_state[p], ag))
  <2>1. Settled(Audio!NotWriting, ag_state[p]) = ag_state[p]
    BY DEF Settled, Audio!NotWriting
  <2> QED  BY <1>1, <1>3, <1>4, <2>1 DEF StateInv
<1>8. msg \in Tells => Follows(Tail(queue), StateTold(msg), ag)
  BY <1>2, <1>4, <1>5, <1>7, HeardTells
<1>9. msg \notin Tells /\ p \in in_step => Follows(Tail(queue), ag_state[p], ag)
  BY <1>2, <1>4, <1>5, <1>7, HeardOther
<1>10. ASSUME NEW b \in Audio!Bits, msg \in For(b), ~Has(Tail(queue), For(b))
       PROVE  (msg.property = "Connected" /\ msg.value) <=> Up(b, ag, av)
  <2>1. LastIn(queue, For(b), Agreeing(b, ag, av))
    BY <1>1, <1>3 DEF BitInv, Writes
  <2>2. msg \in Agreeing(b, ag, av)
    BY <1>2, <1>4, <1>5, <1>10, <2>1, RestLast
  <2> QED  BY <2>2 DEF Agreeing
<1>11. writing = [writing EXCEPT ![p] = Audio!NotWriting] /\ Audio!NotWriting \in Writing
  BY <1>4, <1>5 DEF Writing
<1>12. \A b \in Audio!Bits : Audio!NotWriting.bit # b
  BY DEF Audio!NotWriting, Audio!Bits
<1>13. ag_state[p] \in AgStates \cup {"none"} /\ ag_state = [ag_state EXCEPT ![p] = ag_state[p]]
  BY <1>5
<1>14. CASE msg.property = "State" /\ Audio!ag_state_event_handler(p, msg.value)
  <2>1. msg \in Tells /\ StateTold(msg) = msg.value /\ msg.value \in AgStates
    BY <1>6, <1>14, AudioKinds DEF Tells, StateTold
  <2>2. PICK state : state = IF Audio!Allowed(ag_state[p], msg.value) THEN msg.value ELSE ag_state[p]
    OBVIOUS
  <2>3. /\ ag_state' = [ag_state EXCEPT ![p] = state] /\ writing' = writing
        /\ in_step' \subseteq in_step \cup {p} /\ audio_unheard' = audio_unheard
        /\ p \in in_step' => p \in in_step \/ Audio!Allowed(ag_state[p], msg.value)
    BY <1>14, <2>2 DEF Audio!ag_state_event_handler
  <2>4. state \in AgStates \cup {"none"}
    BY <1>13, <2>1, <2>2
  <2>5. ASSUME p \in in_step' PROVE Follows(Tail(queue), Settled(Audio!NotWriting, state), ag)
    <3>1. Settled(Audio!NotWriting, state) = state
      BY DEF Settled, Audio!NotWriting
    <3>2. ASSUME p \in in_step PROVE Audio!Allowed(ag_state[p], msg.value)
      <4>1. msg \in After(ag_state[p])
        BY <1>2, <1>4, <1>5, <1>7, <2>1, <3>2, RestFirst DEF Follows
      <4> QED  BY <1>14, <4>1 DEF After, Audio!Allowed
    <3> QED  BY <1>8, <2>1, <2>2, <2>3, <2>5, <3>1, <3>2
  <2>6. \A b \in Audio!Bits : msg \notin For(b)
    BY <1>14 DEF For
  <2>7. writing' = [writing EXCEPT ![p] = Audio!NotWriting]
    BY <1>11, <2>3
  <2> QED  BY <1>1, <1>2, <1>4, <1>11, <1>12, <2>3, <2>4, <2>5, <2>6, <2>7, HeardKeeps
<1>15. ASSUME NEW bit \in Audio!Bits, NEW on \in BOOLEAN, msg.property # "State", msg.bit = bit,
              on <=> (msg.property = "Connected" /\ msg.value),
              Audio!Begin(p, bit, on), UNCHANGED <<ag_state, in_step, audio_unheard>>
       PROVE  AudioInv'
  <2>1. PICK w : w = [bit |-> bit, on |-> on, read |-> headset_bits]
    OBVIOUS
  <2>2. w.bit = bit /\ w.on = on /\ writing' = [writing EXCEPT ![p] = w]
    BY <1>15, <2>1 DEF Audio!Begin
  <2>3. w \in Writing
    BY <1>3, <2>1 DEF AudioTyped, Writing
  <2>4. \A b \in Audio!Bits : msg \in For(b) <=> b = bit
    BY <1>6, <1>15 DEF For
  <2>5. msg \in Tells <=> bit = "HEADSET" /\ ~on
    BY <1>6, <1>15, AudioKinds DEF Tells
  <2>6. ASSUME p \in in_step' PROVE Follows(Tail(queue), Settled(w, ag_state[p]), ag)
    <3>1. CASE bit = "HEADSET" /\ ~on
      <4>1. StateTold(msg) = "disconnected" /\ Settled(w, ag_state[p]) = "disconnected"
        BY <1>15, <2>2, <3>1 DEF StateTold, Settled
      <4> QED  BY <1>8, <2>5, <3>1, <4>1
    <3>2. CASE ~(bit = "HEADSET" /\ ~on)
      <4>1. Settled(w, ag_state[p]) = ag_state[p]
        BY <2>2, <3>2 DEF Settled
      <4> QED  BY <1>9, <1>15, <2>5, <2>6, <3>2, <4>1
    <3> QED  BY <3>1, <3>2
  <2>7. ASSUME NEW b \in Audio!Bits, w.bit = b, ~Has(Tail(queue), For(b))
        PROVE  w.on <=> Up(b, ag, av)
    BY <1>10, <1>15, <2>2, <2>4, <2>7
  <2>8. /\ in_step' \subseteq in_step \cup {p} /\ audio_unheard \subseteq audio_unheard'
        /\ ag_state' = [ag_state EXCEPT ![p] = ag_state[p]]
    BY <1>13, <1>15
  <2> QED  BY <1>1, <1>2, <1>4, <1>13, <2>2, <2>3, <2>4, <2>6, <2>7, <2>8, HeardKeeps
<1>16. CASE msg.property = "Connected" /\ Audio!Connected_changes(p, msg)
  <2>1. msg.bit \in Audio!Bits /\ msg.value \in BOOLEAN
    BY <1>6, <1>16, AudioKinds
  <2>2. Audio!Begin(p, msg.bit, msg.value) /\ UNCHANGED <<ag_state, in_step, audio_unheard>>
    BY <1>16 DEF Audio!Connected_changes
  <2> QED  BY <1>15, <1>16, <2>1, <2>2
<1>17. CASE msg.property = "AdapterRemoved" /\ Audio!AdapterRemoved(p, msg.bit)
  <2>1. msg.bit \in Audio!Bits
    BY <1>6, <1>17, AudioKinds
  <2>2. CASE Audio!Begin(p, msg.bit, FALSE) /\ UNCHANGED <<ag_state, in_step, audio_unheard>>
    BY <1>15, <1>17, <2>1, <2>2
  <2>3. CASE /\ audio_unheard' = audio_unheard \cup {msg.bit}
             /\ in_step' = IF msg.bit = "HEADSET" THEN in_step \ {p} ELSE in_step
             /\ UNCHANGED <<ag_state, writing>>
    <3>1. /\ writing' = [writing EXCEPT ![p] = Audio!NotWriting]
          /\ ag_state' = [ag_state EXCEPT ![p] = ag_state[p]]
          /\ in_step' \subseteq in_step \cup {p} /\ audio_unheard \subseteq audio_unheard'
      BY <1>11, <1>13, <2>3
    <3>2. ASSUME p \in in_step' PROVE Follows(Tail(queue), Settled(Audio!NotWriting, ag_state[p]), ag)
      <4>1. msg.bit # "HEADSET" /\ p \in in_step
        BY <2>3, <3>2
      <4>2. msg \notin Tells
        BY <1>17, <4>1 DEF Tells
      <4>3. Settled(Audio!NotWriting, ag_state[p]) = ag_state[p]
        BY DEF Settled, Audio!NotWriting
      <4> QED  BY <1>9, <4>1, <4>2, <4>3
    <3>3. \A b \in Audio!Bits : msg \in For(b) => b \in audio_unheard'
      BY <2>3 DEF For
    <3> QED  BY <1>1, <1>2, <1>4, <1>11, <1>12, <1>13, <3>1, <3>2, <3>3, HeardKeeps
  <2> QED  BY <1>17, <2>2, <2>3 DEF Audio!AdapterRemoved
<1> QED  BY <1>1, <1>2, <1>14, <1>16, <1>17 DEF Audio!Dispatch

LEMMA AudioNext == AudioInv /\ Audio!Next => AudioInv'
BY AgKeeps, AvKeeps, AdapterKeepsAudio, AudioCallKeeps, AudioDeinitKeeps, AudioDispatchKeeps,
   WriteKeeps DEF Audio!Next

LEMMA AudioKept == AudioInv /\ UNCHANGED audioVars => AudioInv'
<1> SUFFICES ASSUME AudioInv, UNCHANGED audioVars PROVE AudioInv'
  OBVIOUS
<1>1. AudioTyped'
  BY DEF AudioInv, AudioTyped, audioVars
<1> QED  BY <1>1, AudioAlone DEF audioVars

LEMMA AudioFollows == AudioInv => HeadsetFollows
<1> SUFFICES ASSUME AudioInv PROVE HeadsetFollows
  OBVIOUS
<1>1. AudioTyped /\ StateInv /\ BitInv
  BY DEF AudioInv
<1>2. ASSUME NEW p \in Proc, Audio!Quiet(p)
      PROVE  /\ Settled(writing[p], ag_state[p]) = ag_state[p]
             /\ ~Has(audio_inbox[p], Tells)
             /\ \A b \in Audio!Bits : ~BitWaits(b, audio_inbox[p], writing[p])
  BY <1>2, NoItem DEF Audio!Quiet, Audio!NotWriting, Audio!Bits, Settled, BitWaits
<1>3. Audio!AgStateFollows
  BY <1>1, <1>2 DEF Audio!AgStateFollows, AudioTyped, StateInv, Follows
<1>4. Audio!HeadsetBitsTrue
  <2> SUFFICES ASSUME ~stale, \A p \in audio_conn : Audio!Quiet(p),
                      NEW b \in Audio!Bits \ audio_unheard
               PROVE  b \in headset_bits <=> Up(b, ag, av)
    BY DEF Audio!HeadsetBitsTrue, Up
  <2>1. \A p \in Proc : Audio!Quiet(p)
    BY <1>1 DEF AudioTyped, Audio!Quiet
  <2> QED  BY <1>1, <1>2, <2>1 DEF BitInv
<1> QED  BY <1>3, <1>4 DEF HeadsetFollows

\* When every process has dealt with its signals, the key has the bits of the links that
\* are up, and ag_state, once in step, is the state of the headset's link: for any number
\* of processes, however their two halves of a write interleave, until one writes over
\* another (__bluetooth_ag_handle_connect, __bluetooth_set_ag_state).
THEOREM HeadsetAlwaysFollows == SumSpec => []HeadsetFollows
<1>1. SumInit => AudioInv
  BY AudioInit DEF SumInit
<1>2. AudioInv /\ [SumNext]_sumVars => AudioInv'
  BY AudioNext, AudioKept DEF SumNext, sumVars
<1> QED  BY <1>1, <1>2, AudioFollows, PTL DEF SumSpec

(***************************************************************************)
(* Network.                                                                *)
(***************************************************************************)

\* The signals of several devices, in some order.
LEMMA Listed ==
  ASSUME NEW S, IsFiniteSet(S)
  PROVE  /\ Network!SetToSeq(S) \in Seq(S)
         /\ \A x \in S : \E i \in 1..Len(Network!SetToSeq(S)) : Network!SetToSeq(S)[i] = x
<1> DEFINE N == Cardinality(S)
           f == Network!SetToSeq(S)
<1>1. Network!Cardinality(S) = N
  BY DEF Network!Cardinality, Cardinality
<1>2. N \in Nat /\ ExistsBijection(1..N, S)
  BY FS_CardinalityType
<1>3. f \in [1..N -> S] /\ Network!IsInjective(f)
  <2>1. \E g \in [1..N -> S] : Network!IsInjective(g)
    BY <1>2 DEF ExistsBijection, Bijection, Injection, IsInjective, Network!IsInjective
  <2> QED  BY <1>1, <2>1 DEF Network!SetToSeq
<1> HIDE DEF f
<1>4. f \in Injection(1..N, S)
  BY <1>3 DEF Injection, IsInjective, Network!IsInjective
<1>5. IsFiniteSet(1..N) /\ Cardinality(1..N) = N
  BY <1>2, FS_Interval
<1>6. f \in Surjection(1..N, S)
  BY <1>4, <1>5, FS_Injection
<1> HIDE DEF N
<1>7. f \in Seq(S) /\ Len(f) = N
  BY <1>2, <1>3
<1> QED  BY <1>6, <1>7 DEF Surjection, f

NetSignal ==
  {m \in [kind : {"AdapterAdded", "AdapterRemoved", "NameOwnerChanged", "Peer", "Connected"},
          adapter : Nat \ {0}, device : Device \cup {"none"}, on : BOOLEAN] :
     IF m.kind \in {"Peer", "Connected"} THEN m.device \in Device
                                         ELSE m = Network!AdapterSignal(m.kind, m.adapter)}

NetCall == [id : Nat, device : Device, connect : BOOLEAN]
NetReply == [kind : {"reply"}, call : NetCall, ok : BOOLEAN]
NetMessage == NetSignal \cup NetReply

Ends == {m \in NetSignal : m.kind \in {"AdapterRemoved", "NameOwnerChanged"}}
Adds == {m \in NetSignal : m.kind = "AdapterAdded"}
Removals == {m \in NetSignal : m.kind = "AdapterRemoved"}
Comings == Adds \cup Removals
AddsOf(n) == {m \in Adds : m.adapter = n}
Peers == {m \in NetSignal : m.kind = "Peer"}
PeersOf(n) == {m \in Peers : m.adapter = n}

\* What the events have told since the adapter came.
LinksKnown == links_told \ links_stale
PeersKnown == peers_told \ peers_stale

NetTyped ==
  /\ network_inbox \in Seq(NetMessage) /\ network_calls \subseteq NetCall
  /\ adapter \in Nat /\ adapters \in Nat /\ network_server_proxy \in Nat
  /\ network_requests \in Nat
  /\ peers \subseteq Device /\ IsFiniteSet(peers) /\ links \subseteq Device
  /\ PeersKnown \subseteq Device /\ LinksKnown \subseteq Device
  /\ adapter = 0 => links = {} /\ peers = {} /\ ~server

\* The signals that tell of a device, as a peer or a link, and those that agree with set.
About(kind, d) == Ends \cup {m \in NetSignal : m.kind = kind /\ m.device = d}
Saying(kind, d, set) == {m \in About(kind, d) : (m.kind = kind /\ m.on) <=> d \in set}

\* The last signal about a device tells what is; without one it has been told.
WillTell(kind, set, told, queue, late) ==
  \A d \in Device \ late :
    /\ LastIn(queue, About(kind, d), Saying(kind, d, set))
    /\ ~Has(queue, About(kind, d)) => (d \in told <=> d \in set)

\* The filter is there when Connected is dispatched: after AdapterRemoved the next is
\* AdapterAdded.
Ways == {m \in NetSignal : m.kind \in {"AdapterAdded", "AdapterRemoved", "Connected"}}
Open == {m \in Ways : m.kind # "AdapterRemoved"}
Heard(sys) == {m \in Ways : m.kind = "Connected" => sys}
Opened == {pair \in Ways \X Ways : pair[2].kind = "Connected" => pair[1] \in Open}

FilterWay(queue, sys, ad) ==
  /\ FirstIn(queue, Ways, Heard(sys)) /\ Chain(queue, Ways, Opened)
  /\ ad # 0 => LastIn(queue, Ways, Open) /\ (Has(queue, Ways) \/ sys)

\* The proxy of the server: adapters come and go in turn, and are never the same.
InTurn == {pair \in Comings \X Comings : pair[1].kind # pair[2].kind}
NextComing(proxy) == IF proxy = 0 THEN Adds ELSE Removals

Turns(queue, proxy) ==
  /\ FirstIn(queue, Comings, NextComing(proxy)) /\ Chain(queue, Comings, InTurn)
  /\ Never(queue, Comings, Peers) /\ ~Has(queue, Peers \ PeersOf(proxy))

Fresh(queue, proxy, count) ==
  /\ proxy \in 0..count /\ ~Has(queue, AddsOf(proxy))
  /\ \A n \in Nat : /\ Never(queue, AddsOf(n), AddsOf(n))
                    /\ n > count => ~Has(queue, AddsOf(n))

Arrives(queue, proxy, ad) ==
  \/ proxy = ad /\ ~Has(queue, Comings)
  \/ LastIs(queue, Comings, IF ad = 0 THEN Removals ELSE AddsOf(ad))

ServerWay ==
  /\ WillTell("Peer", peers, PeersKnown, network_inbox, network_unheard)
  /\ Turns(network_inbox, network_server_proxy)
  /\ Fresh(network_inbox, network_server_proxy, adapters)
  /\ Arrives(network_inbox, network_server_proxy, adapter)
  /\ network_server_proxy # 0 => adapter_proxy # 0

NetInv ==
  /\ NetTyped
  /\ WillTell("Connected", links, LinksKnown, network_inbox, network_unheard)
  /\ FilterWay(network_inbox, sys_conn, adapter)
  /\ ~crashed => ServerWay

LEMMA NetInit == Network!Init => NetInv
<1> SUFFICES ASSUME Network!Init PROVE NetInv
  OBVIOUS
<1>1. /\ network_inbox = <<>> /\ <<>> \in Seq(NetMessage) /\ adapter = 0 /\ links = {} /\ peers = {}
      /\ PeersKnown = {} /\ LinksKnown = {} /\ network_server_proxy = 0
      /\ adapters = 0 /\ network_requests = 0 /\ network_calls = {} /\ server = FALSE
  BY DEF Network!Init, LinksKnown, PeersKnown
<1>2. IsFiniteSet(peers)
  BY <1>1, FS_EmptySet
<1>3. NetTyped
  BY <1>1, <1>2 DEF NetTyped
<1>4. /\ WillTell("Connected", links, LinksKnown, <<>>, network_unheard)
      /\ WillTell("Peer", peers, PeersKnown, <<>>, network_unheard)
  BY <1>1, NoItem DEF WillTell
<1>5. \A S, T : Never(<<>>, S, T)
  BY DEF Never
<1>6. FilterWay(<<>>, sys_conn, 0) /\ Turns(<<>>, 0) /\ Fresh(<<>>, 0, 0) /\ Arrives(<<>>, 0, 0)
  BY <1>5, NoItem DEF FilterWay, Turns, Fresh, Arrives
<1> QED  BY <1>1, <1>3, <1>4, <1>6 DEF NetInv, ServerWay

(***************************************************************************)
(* What signals do to the invariant.                                       *)
(***************************************************************************)

\* News of what changes.
LEMMA NewsTold ==
  ASSUME NEW q \in Seq(NetMessage), NEW r \in Seq(NetMessage), NEW kind,
         NEW set, NEW next, NEW told, NEW late, NEW later,
         WillTell(kind, set, told, q, late),
         \A d \in Device \ later :
           /\ LastIn(r, About(kind, d), Saying(kind, d, next))
           /\ Has(r, About(kind, d)) \/ (d \notin late /\ (d \in next <=> d \in set))
  PROVE  WillTell(kind, next, told, q \o r, later)
<1> SUFFICES ASSUME NEW d \in Device \ later
             PROVE  /\ LastIn(q \o r, About(kind, d), Saying(kind, d, next))
                    /\ ~Has(q \o r, About(kind, d)) => (d \in told <=> d \in next)
  BY DEF WillTell
<1>1. Has(q \o r, About(kind, d)) <=> Has(q, About(kind, d)) \/ Has(r, About(kind, d))
  BY JoinedHas
<1>2. Has(r, About(kind, d)) \/ LastIn(q, About(kind, d), Saying(kind, d, next))
  <2> SUFFICES ASSUME ~Has(r, About(kind, d)) PROVE LastIn(q, About(kind, d), Saying(kind, d, next))
    OBVIOUS
  <2>1. d \in Device \ late /\ Saying(kind, d, next) = Saying(kind, d, set)
    BY DEF Saying
  <2> QED  BY <2>1 DEF WillTell
<1>3. LastIn(q \o r, About(kind, d), Saying(kind, d, next))
  BY <1>2, JoinedLast
<1> QED  BY <1>1, <1>3 DEF WillTell

LEMMA NoNews ==
  ASSUME NEW q \in Seq(NetMessage), NEW r \in Seq(NetMessage), NEW kind,
         NEW set, NEW next, NEW told, NEW late, NEW later,
         WillTell(kind, set, told, q, late), late \subseteq later,
         \A d \in Device \ later : d \in next <=> d \in set,
         \A d \in Device : ~Has(r, About(kind, d))
  PROVE  WillTell(kind, next, told, q \o r, later)
<1>1. \A d \in Device : LastIn(r, About(kind, d), Saying(kind, d, next))
  BY DEF Has, LastIn
<1> QED  BY <1>1, NewsTold

LEMMA RestTells ==
  ASSUME NEW q \in Seq(NetMessage), q # <<>>, NEW kind, NEW set, NEW told, NEW hence, NEW late,
         WillTell(kind, set, told, q, late),
         \A d \in Device : IF Head(q) \in About(kind, d)
                           THEN d \in hence <=> (Head(q).kind = kind /\ Head(q).on)
                           ELSE d \in hence <=> d \in told
  PROVE  WillTell(kind, set, hence, Tail(q), late)
<1> SUFFICES ASSUME NEW d \in Device \ late
             PROVE  /\ LastIn(Tail(q), About(kind, d), Saying(kind, d, set))
                    /\ ~Has(Tail(q), About(kind, d)) => (d \in hence <=> d \in set)
  BY DEF WillTell
<1>1. LastIn(q, About(kind, d), Saying(kind, d, set))
  BY DEF WillTell
<1>2. LastIn(Tail(q), About(kind, d), Saying(kind, d, set))
  BY <1>1, RestLast
<1>3. ASSUME ~Has(Tail(q), About(kind, d)) PROVE d \in hence <=> d \in set
  <2>1. CASE Head(q) \in About(kind, d)
    <3>1. Head(q) \in Saying(kind, d, set)
      BY <1>1, <1>3, <2>1, RestLast
    <3> QED  BY <2>1, <3>1 DEF Saying
  <2>2. CASE Head(q) \notin About(kind, d)
    <3>1. ~Has(q, About(kind, d))
      BY <1>3, <2>2, RestHas
    <3> QED  BY <2>2, <3>1 DEF WillTell
  <2> QED  BY <2>1, <2>2
<1> QED  BY <1>2, <1>3

\* Signals that are not of the filter's kind, and Connected while an adapter is there.
LEMMA FilterJoined ==
  ASSUME NEW q \in Seq(NetMessage), NEW r \in Seq(NetMessage), NEW sys, NEW ad, NEW next,
         FilterWay(q, sys, ad), Chain(r, Ways, Opened),
         ad = 0 => FirstIn(r, Ways, Heard(FALSE)),
         next # 0 => LastIn(r, Ways, Open) /\ (Has(r, Ways) \/ next = ad)
  PROVE  FilterWay(q \o r, sys, next)
<1>1. Heard(FALSE) \subseteq Heard(sys)
  BY DEF Heard
<1>2. Has(q \o r, Ways) <=> Has(q, Ways) \/ Has(r, Ways)
  BY JoinedHas
<1>3. \A S \in SUBSET Heard(sys) : FirstIn(r, Ways, S) => FirstIn(r, Ways, Heard(sys))
  BY DEF FirstIn
<1>4. Has(q, Ways) \/ FirstIn(r, Ways, Heard(sys))
  <2>1. CASE ad = 0
    BY <1>1, <1>3, <2>1
  <2>2. CASE ad # 0 /\ ~Has(q, Ways)
    <3>1. sys
      BY <2>2 DEF FilterWay
    <3>2. Heard(sys) = Ways
      BY <3>1 DEF Heard
    <3> QED  BY <3>2 DEF FirstIn
  <2> QED  BY <2>1, <2>2
<1>5. FirstIn(q \o r, Ways, Heard(sys))
  BY <1>4, JoinedFirst DEF FilterWay
<1>6. Chain(q \o r, Ways, Opened)
  <2>1. CASE ad # 0
    <3>1. LastIn(q, Ways, Open) /\ FirstIn(r, Ways, Ways)
      BY <2>1 DEF FilterWay, FirstIn
    <3>2. \A x \in Open : \A y \in Ways : <<x, y>> \in Opened
      BY DEF Open, Ways, Opened
    <3> QED  BY <3>1, <3>2, JoinedChain DEF FilterWay
  <2>2. CASE ad = 0
    <3>1. LastIn(q, Ways, Ways)
      BY DEF LastIn
    <3>2. \A x \in Ways : \A y \in Heard(FALSE) : <<x, y>> \in Opened
      BY DEF Ways, Opened, Heard
    <3>3. FirstIn(r, Ways, Heard(FALSE))
      BY <2>2 DEF FirstIn
    <3> QED  BY <3>1, <3>2, <3>3, JoinedChain DEF FilterWay
  <2> QED  BY <2>1, <2>2
<1>7. ASSUME next # 0
      PROVE  LastIn(q \o r, Ways, Open) /\ (Has(q \o r, Ways) \/ sys)
  <2>1. Has(r, Ways) \/ LastIn(q, Ways, Open)
    BY <1>7 DEF FilterWay
  <2>2. LastIn(q \o r, Ways, Open)
    BY <1>7, <2>1, JoinedLast
  <2> QED  BY <1>2, <1>7, <2>2 DEF FilterWay
<1> QED  BY <1>5, <1>6, <1>7 DEF FilterWay

LEMMA NetKinds ==
  /\ \A m \in NetMessage : IF m.kind = "reply" THEN m \in NetReply ELSE m \in NetSignal
  /\ \A m \in NetReply :
       /\ m \notin Ways /\ m \notin Comings /\ m \notin Peers
       /\ \A kind, d : m \notin About(kind, d)
<1>1. \A m \in NetReply : m.kind = "reply"
  BY DEF NetReply
<1>2. \A m \in NetSignal : m.kind # "reply"
  BY DEF NetSignal
<1> QED  BY <1>1, <1>2 DEF NetMessage, Ways, Comings, Adds, Removals, Peers, About, Ends

\* A signal of the adapter, of a peer, of a link.
LEMMA AdapterSignals ==
  ASSUME NEW name \in {"AdapterAdded", "AdapterRemoved", "NameOwnerChanged"}, NEW n \in Nat \ {0},
         NEW a, a = Network!AdapterSignal(name, n)
  PROVE  /\ a \in NetSignal /\ a \in NetMessage /\ a.kind = name /\ a.adapter = n
         /\ a \notin Peers
         /\ \A d : \A kind \in {"Peer", "Connected"} : a \in About(kind, d) <=> a \in Ends
         /\ a \in Ends => \A d : \A kind \in {"Peer", "Connected"} : a \in Saying(kind, d, {})
<1>1. a \in NetSignal /\ a.kind = name /\ a.adapter = n
  BY DEF Network!AdapterSignal, Network!Signal, NetSignal
<1>2. a \notin Peers /\ a \in NetMessage
  BY <1>1 DEF Peers, NetMessage
<1>3. ASSUME NEW kind \in {"Peer", "Connected"}, NEW d PROVE a \in About(kind, d) <=> a \in Ends
  BY <1>1 DEF About
<1>4. ASSUME NEW kind \in {"Peer", "Connected"}, NEW d, a \in Ends PROVE a \in Saying(kind, d, {})
  BY <1>1, <1>3, <1>4 DEF Saying
<1> QED  BY <1>1, <1>2, <1>3, <1>4

LEMMA DeviceSignals ==
  ASSUME NEW kind \in {"Peer", "Connected"}, NEW n \in Nat \ {0}, NEW d \in Device, NEW on \in BOOLEAN,
         NEW a, a = Network!Signal(kind, n, d, on)
  PROVE  /\ a \in NetSignal /\ a \in NetMessage /\ a.kind = kind /\ a.adapter = n
         /\ a.device = d /\ a.on = on
         /\ a \notin Comings /\ a \notin Ends
         /\ a \in Ways <=> kind = "Connected"
         /\ a \in Peers <=> kind = "Peer"
         /\ \A other, e : a \in About(other, e) <=> other = kind /\ e = d
         /\ \A set : (on <=> d \in set) => a \in Saying(kind, d, set)
<1>1. a \in NetSignal /\ a.kind = kind /\ a.adapter = n /\ a.device = d /\ a.on = on
  BY DEF Network!Signal, NetSignal
<1>2. a \in NetMessage /\ a \notin Comings /\ a \notin Ends
  BY <1>1 DEF NetMessage, Comings, Adds, Removals, Ends
<1>3. (a \in Ways <=> kind = "Connected") /\ (a \in Peers <=> kind = "Peer")
  BY <1>1 DEF Ways, Peers
<1>4. \A other, e : a \in About(other, e) <=> other = kind /\ e = d
  BY <1>1, <1>2 DEF About
<1>5. ASSUME NEW set, on <=> d \in set PROVE a \in Saying(kind, d, set)
  BY <1>1, <1>4, <1>5 DEF Saying
<1> QED  BY <1>1, <1>2, <1>3, <1>4, <1>5

\* Signals that are no adapter's keep what is known of the adapters.
LEMMA OthersJoined ==
  ASSUME NEW q \in Seq(NetMessage), NEW r \in Seq(NetMessage), NEW proxy, NEW count, NEW ad,
         ~Has(r, Comings), ~Has(r, Peers \ PeersOf(proxy)), ~Has(q, Comings) \/ ~Has(r, Peers),
         Turns(q, proxy), Fresh(q, proxy, count), Arrives(q, proxy, ad)
  PROVE  Turns(q \o r, proxy) /\ Fresh(q \o r, proxy, count) /\ Arrives(q \o r, proxy, ad)
<1>1. /\ \A T : FirstIn(r, Comings, T) /\ LastIn(r, Comings, T)
      /\ Chain(r, Comings, InTurn) /\ Never(r, Comings, Peers)
  BY DEF Has, FirstIn, LastIn, Chain, Never
<1>2. ASSUME NEW n PROVE ~Has(r, AddsOf(n)) /\ Never(r, AddsOf(n), AddsOf(n))
  <2>1. AddsOf(n) \subseteq Comings
    BY DEF AddsOf, Comings
  <2> QED  BY <2>1 DEF Has, Never
<1>3. \A S : Has(q \o r, S) <=> Has(q, S) \/ Has(r, S)
  BY JoinedHas
<1>4. Turns(q \o r, proxy)
  <2>1. FirstIn(q \o r, Comings, NextComing(proxy))
    BY <1>1, JoinedFirst DEF Turns
  <2>2. Chain(q \o r, Comings, InTurn)
    <3>1. LastIn(q, Comings, Comings) /\ FirstIn(r, Comings, {})
      BY <1>1 DEF LastIn
    <3> QED  BY <1>1, <3>1, JoinedChain DEF Turns
  <2>3. Never(q \o r, Comings, Peers)
    BY <1>1, JoinedNever DEF Turns
  <2> QED  BY <1>3, <2>1, <2>2, <2>3 DEF Turns
<1>5. Fresh(q \o r, proxy, count)
  <2>1. \A n \in Nat : Never(q \o r, AddsOf(n), AddsOf(n))
    BY <1>2, JoinedNever DEF Fresh
  <2> QED  BY <1>2, <1>3, <2>1 DEF Fresh
<1>6. Arrives(q \o r, proxy, ad)
  BY <1>3, JoinedLastIs DEF Arrives
<1> QED  BY <1>4, <1>5, <1>6

LEMMA AddJoined ==
  ASSUME NEW q \in Seq(NetMessage), NEW proxy, NEW count \in Nat, NEW a,
         a = Network!AdapterSignal("AdapterAdded", count + 1),
         Turns(q, proxy), Fresh(q, proxy, count), Arrives(q, proxy, 0)
  PROVE  /\ Turns(q \o <<a>>, proxy) /\ Fresh(q \o <<a>>, proxy, count + 1)
         /\ Arrives(q \o <<a>>, proxy, count + 1)
<1>1. count + 1 \in Nat \ {0}
  OBVIOUS
<1>2. a \in NetSignal /\ a \in NetMessage /\ a.kind = "AdapterAdded" /\ a.adapter = count + 1 /\ a \notin Peers
  BY <1>1, AdapterSignals
<1>3. <<a>> \in Seq(NetMessage)
  BY <1>2
<1>4. a \in Adds /\ a \in Comings /\ \A n : a \in AddsOf(n) <=> n = count + 1
  BY <1>2 DEF Adds, Comings, AddsOf
<1>5. \A S : Has(q \o <<a>>, S) <=> Has(q, S) \/ a \in S
  BY <1>3, JoinedHas, OneItem, ZenonT(30)
<1>6. LastIn(q, Comings, Removals) /\ (Has(q, Comings) \/ proxy = 0)
  <2>1. CASE proxy = 0 /\ ~Has(q, Comings)
    BY <2>1 DEF LastIn, Has
  <2>2. CASE LastIs(q, Comings, Removals)
    <3>1. Removals \subseteq Comings
      BY DEF Comings
    <3>2. LastIn(q, Comings, Removals) /\ Has(q, Removals)
      BY <2>2, <3>1, LastIsIn
    <3> QED  BY <3>1, <3>2 DEF Has
  <2> QED  BY <2>1, <2>2 DEF Arrives
<1>7. Turns(q \o <<a>>, proxy)
  <2>1. FirstIn(q \o <<a>>, Comings, NextComing(proxy))
    <3>1. Has(q, Comings) \/ FirstIn(<<a>>, Comings, NextComing(proxy))
      BY <1>4, <1>6, OneItem DEF NextComing
    <3> QED  BY <1>3, <3>1, JoinedFirst DEF Turns
  <2>2. Chain(q \o <<a>>, Comings, InTurn)
    <3>1. FirstIn(<<a>>, Comings, Adds) /\ Chain(<<a>>, Comings, InTurn)
      BY <1>4, OneItem
    <3>2. \A x \in Removals : \A y \in Adds : <<x, y>> \in InTurn
      BY DEF Removals, Adds, Comings, InTurn
    <3> QED  BY <1>3, <1>6, <3>1, <3>2, JoinedChain DEF Turns
  <2>3. Never(q \o <<a>>, Comings, Peers)
    BY <1>2, <1>3, OneItem, OneLast, JoinedNever DEF Turns
  <2> QED  BY <1>2, <1>5, <2>1, <2>2, <2>3 DEF Turns
<1>8. Fresh(q \o <<a>>, proxy, count + 1)
  <2>1. proxy \in 0..count /\ ~Has(q, AddsOf(count + 1))
    BY DEF Fresh
  <2>2. ASSUME NEW n \in Nat PROVE Never(q \o <<a>>, AddsOf(n), AddsOf(n))
    <3>1. ~Has(q, AddsOf(n)) \/ ~Has(<<a>>, AddsOf(n))
      BY <1>4, <2>1, OneItem
    <3>2. Never(q, AddsOf(n), AddsOf(n)) /\ Never(<<a>>, AddsOf(n), AddsOf(n))
      BY OneLast DEF Fresh
    <3> QED  BY <1>3, <3>1, <3>2, JoinedNever
  <2>3. \A n \in Nat : n > count + 1 => ~Has(q \o <<a>>, AddsOf(n))
    BY <1>4, <1>5 DEF Fresh
  <2>4. ~Has(q \o <<a>>, AddsOf(proxy)) /\ proxy \in 0..count + 1
    BY <1>4, <1>5, <2>1 DEF Fresh
  <2> QED  BY <2>2, <2>3, <2>4 DEF Fresh
<1>9. Arrives(q \o <<a>>, proxy, count + 1)
  <2>1. LastIs(<<a>>, Comings, AddsOf(count + 1))
    BY <1>4, OneLast
  <2> QED  BY <1>1, <1>3, <2>1, JoinedLastIs DEF Arrives
<1> QED  BY <1>7, <1>8, <1>9

LEMMA RemovalJoined ==
  ASSUME NEW q \in Seq(NetMessage), NEW proxy, NEW count, NEW ad \in Nat \ {0}, NEW a,
         a = Network!AdapterSignal("AdapterRemoved", ad),
         Turns(q, proxy), Fresh(q, proxy, count), Arrives(q, proxy, ad)
  PROVE  /\ Turns(q \o <<a>>, proxy) /\ Fresh(q \o <<a>>, proxy, count)
         /\ Arrives(q \o <<a>>, proxy, 0)
<1>1. a \in NetSignal /\ a \in NetMessage /\ a.kind = "AdapterRemoved" /\ a \notin Peers
  BY AdapterSignals
<1>2. <<a>> \in Seq(NetMessage)
  BY <1>1
<1>3. a \in Removals /\ a \in Comings /\ \A n : a \notin AddsOf(n)
  BY <1>1 DEF Removals, Comings, Adds, AddsOf
<1>4. \A S : Has(q \o <<a>>, S) <=> Has(q, S) \/ a \in S
  BY <1>2, JoinedHas, OneItem
<1>5. LastIn(q, Comings, Adds) /\ (Has(q, Comings) \/ proxy # 0)
  <2>1. CASE proxy = ad /\ ~Has(q, Comings)
    BY <2>1 DEF LastIn, Has
  <2>2. CASE LastIs(q, Comings, AddsOf(ad))
    <3>1. AddsOf(ad) \subseteq Adds /\ Adds \subseteq Comings
      BY DEF Comings, AddsOf
    <3>2. LastIn(q, Comings, AddsOf(ad)) /\ Has(q, AddsOf(ad))
      BY <2>2, <3>1, LastIsIn
    <3> QED  BY <3>1, <3>2 DEF Has, LastIn
  <2> QED  BY <2>1, <2>2 DEF Arrives
<1>6. Turns(q \o <<a>>, proxy)
  <2>1. FirstIn(q \o <<a>>, Comings, NextComing(proxy))
    <3>1. Has(q, Comings) \/ FirstIn(<<a>>, Comings, NextComing(proxy))
      BY <1>3, <1>5, OneItem DEF NextComing
    <3> QED  BY <1>2, <3>1, JoinedFirst DEF Turns
  <2>2. Chain(q \o <<a>>, Comings, InTurn)
    <3>1. FirstIn(<<a>>, Comings, Removals) /\ Chain(<<a>>, Comings, InTurn)
      BY <1>3, OneItem
    <3>2. \A x \in Adds : \A y \in Removals : <<x, y>> \in InTurn
      BY DEF Removals, Adds, Comings, InTurn
    <3> QED  BY <1>2, <1>5, <3>1, <3>2, JoinedChain DEF Turns
  <2>3. Never(q \o <<a>>, Comings, Peers)
    BY <1>1, <1>2, OneItem, OneLast, JoinedNever DEF Turns
  <2> QED  BY <1>1, <1>4, <2>1, <2>2, <2>3 DEF Turns
<1>7. Fresh(q \o <<a>>, proxy, count)
  <2>1. ASSUME NEW n \in Nat PROVE Never(q \o <<a>>, AddsOf(n), AddsOf(n))
    <3>1. ~Has(<<a>>, AddsOf(n))
      BY <1>3, OneItem
    <3>2. Never(q, AddsOf(n), AddsOf(n)) /\ Never(<<a>>, AddsOf(n), AddsOf(n))
      BY OneLast DEF Fresh
    <3> QED  BY <1>2, <3>1, <3>2, JoinedNever
  <2> QED  BY <1>3, <1>4, <2>1 DEF Fresh
<1>8. Arrives(q \o <<a>>, proxy, 0)
  BY <1>2, <1>3, OneLast, JoinedLastIs DEF Arrives
<1> QED  BY <1>6, <1>7, <1>8

(***************************************************************************)
(* The actions.                                                            *)
(***************************************************************************)

LEMMA NetAlone ==
  ASSUME NetInv, NetTyped',
         UNCHANGED <<network_inbox, adapter, adapters, links, LinksKnown, peers, PeersKnown,
                     network_unheard, sys_conn, network_server_proxy, adapter_proxy, crashed>>
  PROVE  NetInv'
<1>1. UNCHANGED WillTell("Connected", links, LinksKnown, network_inbox, network_unheard)
  OBVIOUS
<1>2. UNCHANGED FilterWay(network_inbox, sys_conn, adapter)
  OBVIOUS
<1>3. UNCHANGED ServerWay
  BY DEF ServerWay
<1> QED  BY <1>1, <1>2, <1>3 DEF NetInv

LEMMA NetRequestKeeps ==
  ASSUME NetInv, NEW d \in Device, NEW connect \in BOOLEAN, Network!Request(d, connect)
  PROVE  NetInv'
<1>1. /\ UNCHANGED <<network_inbox, adapter, adapters, links, LinksKnown, peers, PeersKnown,
                     network_unheard, sys_conn, network_server_proxy, adapter_proxy, crashed, server>>
      /\ network_calls' = network_calls \cup {[id |-> network_requests', device |-> d, connect |-> connect]}
      /\ network_requests' = network_requests + 1
  BY DEF Network!Request, Network!Asks, Network!libVars, Network!bluezVars, Network!ghosts,
     Network!told, LinksKnown, PeersKnown
<1>2. NetTyped
  BY DEF NetInv
<1>3. network_requests' \in Nat
  BY <1>1, <1>2 DEF NetTyped
<1>4. network_calls' \subseteq NetCall
  BY <1>1, <1>2, <1>3 DEF NetTyped, NetCall
<1>5. NetTyped'
  BY <1>1, <1>2, <1>3, <1>4 DEF NetTyped
<1> QED  BY <1>1, <1>5, NetAlone

LEMMA ActivateKeeps == ASSUME NetInv, Network!bluetooth_network_activate_server PROVE NetInv'
<1>1. /\ UNCHANGED <<network_inbox, adapter, adapters, links, LinksKnown, peers, PeersKnown, network_calls,
                     network_unheard, sys_conn, network_server_proxy, adapter_proxy, crashed>>
      /\ adapter # 0 /\ network_requests' = network_requests + 1
  BY DEF Network!bluetooth_network_activate_server, Network!Asks, Network!libVars, Network!ghosts,
     Network!told, LinksKnown, PeersKnown
<1>2. NetTyped
  BY DEF NetInv
<1>3. NetTyped'
  BY <1>1, <1>2 DEF NetTyped
<1> QED  BY <1>1, <1>3, NetAlone

LEMMA AppearsKeeps == ASSUME NetInv, Network!AdapterAppears PROVE NetInv'
<1>1. PICK a : a = Network!AdapterSignal("AdapterAdded", adapters + 1)
  OBVIOUS
<1>2. /\ adapter = 0 /\ adapters' = adapters + 1 /\ adapter' = adapters + 1
      /\ network_inbox' = Append(network_inbox, a)
      /\ UNCHANGED <<links, LinksKnown, peers, PeersKnown, network_calls, server, network_requests,
                     network_unheard, sys_conn, network_server_proxy, adapter_proxy, crashed>>
  BY <1>1 DEF Network!AdapterAppears, Network!libVars, Network!ghosts,
     Network!told, LinksKnown, PeersKnown
<1>3. NetTyped /\ network_inbox \in Seq(NetMessage) /\ adapters \in Nat /\ adapters + 1 \in Nat \ {0}
  BY DEF NetInv, NetTyped
<1>4. /\ a \in NetSignal /\ a \in NetMessage /\ a.kind = "AdapterAdded" /\ a \notin Ends
      /\ \A d : \A kind \in {"Peer", "Connected"} : a \notin About(kind, d)
  BY <1>1, <1>3, AdapterSignals DEF Ends
<1>5. network_inbox' = network_inbox \o <<a>> /\ <<a>> \in Seq(NetMessage)
  BY <1>2, <1>3, <1>4, AppendJoins
<1>6. network_inbox' \in Seq(NetMessage)
  BY <1>2, <1>3, <1>4
<1>7. NetTyped'
  BY <1>2, <1>3, <1>6 DEF NetTyped
<1>8. \A kind \in {"Peer", "Connected"}, d \in Device : ~Has(<<a>>, About(kind, d))
  BY <1>4, OneItem
<1>9. WillTell("Connected", links, LinksKnown, network_inbox, network_unheard)'
  <2>1. WillTell("Connected", links, LinksKnown, network_inbox, network_unheard)
    BY DEF NetInv
  <2>2. WillTell("Connected", links, LinksKnown, network_inbox \o <<a>>, network_unheard)
    BY <1>3, <1>5, <1>8, <2>1, NoNews
  <2> QED  BY <1>2, <1>5, <2>2
<1>10. FilterWay(network_inbox, sys_conn, adapter)'
  <2>1. FilterWay(network_inbox, sys_conn, 0)
    BY <1>2 DEF NetInv
  <2>2. a \in Ways /\ a \in Open /\ a \in Heard(FALSE)
    BY <1>4 DEF Ways, Open, Heard
  <2>3. /\ Chain(<<a>>, Ways, Opened) /\ FirstIn(<<a>>, Ways, Heard(FALSE))
        /\ LastIn(<<a>>, Ways, Open) /\ Has(<<a>>, Ways)
    BY <2>2, OneItem
  <2>4. FilterWay(network_inbox \o <<a>>, sys_conn, adapters + 1)
    BY <1>3, <1>5, <2>1, <2>3, FilterJoined
  <2> QED  BY <1>2, <1>5, <2>4
<1>11. ASSUME ~crashed PROVE ServerWay'
  <2>1. ServerWay
    BY <1>11 DEF NetInv
  <2>2. WillTell("Peer", peers, PeersKnown, network_inbox, network_unheard)
    BY <2>1 DEF ServerWay
  <2>3. WillTell("Peer", peers, PeersKnown, network_inbox \o <<a>>, network_unheard)
    BY <1>3, <1>5, <1>8, <2>2, NoNews
  <2>4. /\ Turns(network_inbox, network_server_proxy)
        /\ Fresh(network_inbox, network_server_proxy, adapters)
        /\ Arrives(network_inbox, network_server_proxy, 0)
    BY <1>2, <2>1 DEF ServerWay
  <2>5. /\ Turns(network_inbox \o <<a>>, network_server_proxy)
        /\ Fresh(network_inbox \o <<a>>, network_server_proxy, adapters + 1)
        /\ Arrives(network_inbox \o <<a>>, network_server_proxy, adapters + 1)
    BY <1>1, <1>3, <2>4, AddJoined
  <2> QED  BY <1>2, <1>5, <2>1, <2>3, <2>5 DEF ServerWay
<1> QED  BY <1>2, <1>7, <1>9, <1>10, <1>11 DEF NetInv

LEMMA GoesKeeps == ASSUME NetInv, NEW dies \in BOOLEAN, Network!AdapterGoes(dies) PROVE NetInv'
<1>1. PICK name \in {"AdapterRemoved", "NameOwnerChanged"} :
         name = IF dies THEN "NameOwnerChanged" ELSE "AdapterRemoved"
  OBVIOUS
<1>2. PICK a : a = Network!AdapterSignal(name, adapter)
  OBVIOUS
<1>3. /\ adapter # 0 /\ adapter' = 0 /\ ~server' /\ peers' = {} /\ links' = {}
      /\ network_inbox' = Append(network_inbox, a) /\ network_unheard' = {}
      /\ crashed' = (crashed \/ dies)
      /\ UNCHANGED <<LinksKnown, PeersKnown, network_calls, network_requests, adapters,
                     sys_conn, network_server_proxy, adapter_proxy>>
  BY <1>1, <1>2 DEF Network!AdapterGoes, Network!libVars, Network!bounds,
                    Network!told, LinksKnown, PeersKnown
<1>4. NetTyped /\ network_inbox \in Seq(NetMessage) /\ adapter \in Nat \ {0}
  BY <1>3 DEF NetInv, NetTyped
<1>5. /\ a \in NetSignal /\ a \in NetMessage /\ a.kind = name /\ a \in Ends
      /\ \A d : \A kind \in {"Peer", "Connected"} : a \in About(kind, d) /\ a \in Saying(kind, d, {})
  <2>1. a \in NetSignal /\ a \in NetMessage /\ a.kind = name
    BY <1>1, <1>2, <1>4, AdapterSignals
  <2>2. a \in Ends
    BY <2>1 DEF Ends
  <2> QED  BY <1>1, <1>2, <1>4, <2>1, <2>2, AdapterSignals
<1>6. network_inbox' = network_inbox \o <<a>> /\ <<a>> \in Seq(NetMessage)
  BY <1>3, <1>4, <1>5, AppendJoins
<1>7. NetTyped'
  <2>1. network_inbox' \in Seq(NetMessage)
    BY <1>3, <1>4, <1>5
  <2>2. IsFiniteSet(peers')
    BY <1>3, FS_EmptySet
  <2> QED  BY <1>3, <1>4, <2>1, <2>2 DEF NetTyped
<1>8. \A kind \in {"Peer", "Connected"}, d \in Device :
        Has(<<a>>, About(kind, d)) /\ LastIn(<<a>>, About(kind, d), Saying(kind, d, {}))
  BY <1>5, OneItem
<1>9. WillTell("Connected", links, LinksKnown, network_inbox, network_unheard)'
  <2>1. WillTell("Connected", links, LinksKnown, network_inbox, network_unheard)
    BY DEF NetInv
  <2>2. WillTell("Connected", {}, LinksKnown, network_inbox \o <<a>>, {})
    BY <1>4, <1>6, <1>8, <2>1, NewsTold
  <2> QED  BY <1>3, <1>6, <2>2
<1>10. FilterWay(network_inbox, sys_conn, adapter)'
  <2>1. FilterWay(network_inbox, sys_conn, adapter)
    BY DEF NetInv
  <2>2. Chain(<<a>>, Ways, Opened)
    BY OneItem
  <2>3. FilterWay(network_inbox \o <<a>>, sys_conn, 0)
    BY <1>4, <1>6, <2>1, <2>2, FilterJoined
  <2> QED  BY <1>3, <1>6, <2>3
<1>11. ASSUME ~crashed, ~dies PROVE ServerWay'
  <2>1. ServerWay
    BY <1>11 DEF NetInv
  <2>2. WillTell("Peer", peers, PeersKnown, network_inbox, network_unheard)
    BY <2>1 DEF ServerWay
  <2>3. WillTell("Peer", {}, PeersKnown, network_inbox \o <<a>>, {})
    BY <1>4, <1>6, <1>8, <2>2, NewsTold
  <2>4. /\ Turns(network_inbox, network_server_proxy)
        /\ Fresh(network_inbox, network_server_proxy, adapters)
        /\ Arrives(network_inbox, network_server_proxy, adapter)
    BY <2>1 DEF ServerWay
  <2>5. a = Network!AdapterSignal("AdapterRemoved", adapter)
    BY <1>1, <1>2, <1>11
  <2>6. /\ Turns(network_inbox \o <<a>>, network_server_proxy)
        /\ Fresh(network_inbox \o <<a>>, network_server_proxy, adapters)
        /\ Arrives(network_inbox \o <<a>>, network_server_proxy, 0)
    BY <1>4, <2>4, <2>5, RemovalJoined
  <2> QED  BY <1>3, <1>6, <2>1, <2>3, <2>6 DEF ServerWay
<1>12. ~crashed' => ~crashed /\ ~dies
  BY <1>3, Zenon
<1> QED  BY <1>7, <1>9, <1>10, <1>11, <1>12 DEF NetInv

LEMMA RepliesJoined ==
  ASSUME NEW q \in Seq(NetMessage), NEW r \in Seq(NetReply)
  PROVE  /\ q \o r \in Seq(NetMessage)
         /\ \A kind, set, told, late :
              WillTell(kind, set, told, q, late) => WillTell(kind, set, told, q \o r, late)
         /\ \A sys, ad : FilterWay(q, sys, ad) => FilterWay(q \o r, sys, ad)
         /\ \A proxy, count, ad :
              Turns(q, proxy) /\ Fresh(q, proxy, count) /\ Arrives(q, proxy, ad)
                => Turns(q \o r, proxy) /\ Fresh(q \o r, proxy, count) /\ Arrives(q \o r, proxy, ad)
<1>1. r \in Seq(NetMessage) /\ q \o r \in Seq(NetMessage)
  BY DEF NetMessage
<1>2. \A i \in 1..Len(r) : r[i] \in NetReply
  OBVIOUS
<1>3. /\ ~Has(r, Ways) /\ ~Has(r, Comings) /\ ~Has(r, Peers)
      /\ \A kind, d : ~Has(r, About(kind, d))
  BY <1>2, NetKinds DEF Has
<1>4. /\ Chain(r, Ways, Opened) /\ FirstIn(r, Ways, Heard(FALSE)) /\ LastIn(r, Ways, Open)
      /\ \A proxy : ~Has(r, Peers \ PeersOf(proxy))
  BY <1>3 DEF Has, Chain, FirstIn, LastIn
<1>5. ASSUME NEW kind, NEW set, NEW told, NEW late, WillTell(kind, set, told, q, late)
      PROVE  WillTell(kind, set, told, q \o r, late)
  BY <1>1, <1>3, <1>5, NoNews
<1>6. ASSUME NEW sys, NEW ad, FilterWay(q, sys, ad) PROVE FilterWay(q \o r, sys, ad)
  BY <1>1, <1>4, <1>6, FilterJoined
<1>7. ASSUME NEW proxy, NEW count, NEW ad,
             Turns(q, proxy), Fresh(q, proxy, count), Arrives(q, proxy, ad)
      PROVE  Turns(q \o r, proxy) /\ Fresh(q \o r, proxy, count) /\ Arrives(q \o r, proxy, ad)
  BY <1>1, <1>3, <1>4, <1>7, OthersJoined
<1> QED  BY <1>1, <1>5, <1>6, <1>7

\* The peers of ds come, or go.
LEMMA PeersTold ==
  ASSUME NetInv, NEW ds, ds \subseteq Device, IsFiniteSet(ds), NEW on \in BOOLEAN, adapter # 0,
         Network!TellPeers(ds, on),
         peers' \subseteq Device, IsFiniteSet(peers'), network_requests' \in Nat,
         \A d \in Device : IF d \in ds THEN d \in peers' <=> on ELSE d \in peers' <=> d \in peers,
         UNCHANGED <<adapter, adapters, links, LinksKnown, PeersKnown, network_calls,
                     sys_conn, network_server_proxy, adapter_proxy, crashed>>
  PROVE  NetInv'
<1>1. NetTyped /\ network_inbox \in Seq(NetMessage) /\ adapter \in Nat \ {0}
  BY DEF NetInv, NetTyped
<1>2. /\ WillTell("Connected", links, LinksKnown, network_inbox, network_unheard)
      /\ FilterWay(network_inbox, sys_conn, adapter)
      /\ ~crashed => ServerWay
  BY DEF NetInv
<1>3. CASE network_server_proxy = adapter
  <2>1. PICK S : S = {Network!Signal("Peer", adapter, d, on) : d \in ds}
    OBVIOUS
  <2>2. PICK r : r = Network!SetToSeq(S)
    OBVIOUS
  <2>3. network_inbox' = network_inbox \o r /\ UNCHANGED network_unheard
    BY <1>3, <2>1, <2>2 DEF Network!TellPeers
  <2>4. IsFiniteSet(S)
    <3>1. PICK f : f = [d \in ds |-> Network!Signal("Peer", adapter, d, on)]
      OBVIOUS
    <3>2. f \in Surjection(ds, S)
      BY <2>1, <3>1 DEF Surjection
    <3> QED  BY <3>2, FS_Surjection
  <2>5. r \in Seq(S) /\ \A x \in S : \E i \in 1..Len(r) : r[i] = x
    BY <2>2, <2>4, Listed
  <2>6. ASSUME NEW d \in ds
        PROVE  \E a \in S : a = Network!Signal("Peer", adapter, d, on)
    BY <2>1
  <2>7. ASSUME NEW a \in S
        PROVE  /\ a \in NetMessage /\ a \notin Comings /\ a \notin Ways /\ a \in PeersOf(adapter)
               /\ \A d : a \notin About("Connected", d)
               /\ \A d \in Device \ ds : a \notin About("Peer", d)
               /\ \A d \in ds : a \in About("Peer", d) => a \in Saying("Peer", d, peers')
    <3>1. PICK e \in ds : a = Network!Signal("Peer", adapter, e, on)
      BY <2>1
    <3>2. e \in Device /\ (on <=> e \in peers')
      OBVIOUS
    <3>3. /\ a \in NetMessage /\ a \notin Comings /\ a \notin Ways /\ a \in Peers /\ a.adapter = adapter
          /\ \A other, d : a \in About(other, d) <=> other = "Peer" /\ d = e
          /\ a \in Saying("Peer", e, peers')
      BY <1>1, <3>1, <3>2, DeviceSignals
    <3> QED  BY <3>3 DEF PeersOf
  <2>8. r \in Seq(NetMessage)
    BY <2>5, <2>7
  <2>9. \A i \in 1..Len(r) : r[i] \in S
    BY <2>5
  <2>10. /\ ~Has(r, Comings) /\ ~Has(r, Ways) /\ ~Has(r, Peers \ PeersOf(adapter))
         /\ \A d : ~Has(r, About("Connected", d))
    BY <2>7, <2>9 DEF Has
  <2>11. ASSUME NEW d \in Device
         PROVE  /\ LastIn(r, About("Peer", d), Saying("Peer", d, peers'))
                /\ Has(r, About("Peer", d)) \/ (d \in peers' <=> d \in peers)
    <3>1. CASE d \in ds
      <4>1. PICK a \in S : a = Network!Signal("Peer", adapter, d, on)
        BY <2>6, <3>1
      <4>2. a \in About("Peer", d)
        BY <1>1, <3>1, <4>1, DeviceSignals
      <4>3. Has(r, About("Peer", d))
        BY <2>5, <4>2 DEF Has
      <4> QED  BY <2>7, <2>9, <3>1, <4>3 DEF LastIn
    <3>2. CASE d \notin ds
      BY <2>7, <2>9, <3>2 DEF LastIn
    <3> QED  BY <3>1, <3>2
  <2>12. NetTyped'
    <3>1. network_inbox' \in Seq(NetMessage)
      BY <1>1, <2>3, <2>8
    <3> QED  BY <1>1, <3>1 DEF NetTyped
  <2>13. WillTell("Connected", links, LinksKnown, network_inbox, network_unheard)'
    <3>1. WillTell("Connected", links, LinksKnown, network_inbox \o r, network_unheard)
      BY <1>1, <1>2, <2>8, <2>10, NoNews
    <3> QED  BY <2>3, <3>1
  <2>14. FilterWay(network_inbox, sys_conn, adapter)'
    <3>1. Chain(r, Ways, Opened) /\ FirstIn(r, Ways, Heard(FALSE)) /\ LastIn(r, Ways, Open)
      BY <2>10 DEF Has, Chain, FirstIn, LastIn
    <3>2. FilterWay(network_inbox \o r, sys_conn, adapter)
      BY <1>1, <1>2, <2>8, <3>1, FilterJoined
    <3> QED  BY <2>3, <3>2
  <2>15. ASSUME ~crashed PROVE ServerWay'
    <3>1. /\ WillTell("Peer", peers, PeersKnown, network_inbox, network_unheard)
          /\ Turns(network_inbox, network_server_proxy)
          /\ Fresh(network_inbox, network_server_proxy, adapters)
          /\ Arrives(network_inbox, network_server_proxy, adapter)
      BY <1>2, <2>15 DEF ServerWay
    <3>2. WillTell("Peer", peers', PeersKnown, network_inbox \o r, network_unheard)
      <4>1. \A d \in Device \ network_unheard :
              /\ LastIn(r, About("Peer", d), Saying("Peer", d, peers'))
              /\ Has(r, About("Peer", d)) \/ (d \notin network_unheard /\ (d \in peers' <=> d \in peers))
        BY <2>11
      <4> QED  BY <1>1, <2>8, <3>1, <4>1, NewsTold
    <3>3. ~Has(network_inbox, Comings)
      <4>1. ~Has(network_inbox, AddsOf(adapter))
        BY <1>3, <3>1 DEF Fresh
      <4>2. AddsOf(adapter) \subseteq Comings
        BY DEF AddsOf, Comings
      <4>3. ~LastIs(network_inbox, Comings, AddsOf(adapter))
        BY <1>1, <4>1, <4>2, LastIsIn
      <4> QED  BY <1>1, <3>1, <4>3 DEF Arrives
    <3>4. /\ Turns(network_inbox \o r, network_server_proxy)
          /\ Fresh(network_inbox \o r, network_server_proxy, adapters)
          /\ Arrives(network_inbox \o r, network_server_proxy, adapter)
      BY <1>1, <1>3, <2>8, <2>10, <3>1, <3>3, OthersJoined
    <3> QED  BY <1>2, <2>3, <2>15, <3>2, <3>4 DEF ServerWay
  <2> QED  BY <2>12, <2>13, <2>14, <2>15 DEF NetInv
<1>4. CASE network_server_proxy # adapter
  <2>1. /\ UNCHANGED network_inbox
        /\ network_unheard' = IF Network!AddedWaits THEN network_unheard \cup ds ELSE network_unheard
    BY <1>4 DEF Network!TellPeers
  <2>2. NetTyped'
    BY <1>1, <2>1 DEF NetTyped
  <2>3. network_inbox = network_inbox \o <<>> /\ <<>> \in Seq(NetMessage)
    BY <1>1
  <2>4. WillTell("Connected", links, LinksKnown, network_inbox, network_unheard)'
    <3>1. network_unheard \subseteq network_unheard'
      BY <2>1
    <3>2. WillTell("Connected", links, LinksKnown, network_inbox, network_unheard')
      BY <1>2, <3>1 DEF WillTell
    <3> QED  BY <2>1, <3>2
  <2>5. FilterWay(network_inbox, sys_conn, adapter)'
    BY <1>2, <2>1
  <2>6. ASSUME ~crashed PROVE ServerWay'
    <3>1. /\ WillTell("Peer", peers, PeersKnown, network_inbox, network_unheard)
          /\ Arrives(network_inbox, network_server_proxy, adapter)
      BY <1>2, <2>6 DEF ServerWay
    <3>2. Network!AddedWaits
      <4>1. PICK i \in 1..Len(network_inbox) : network_inbox[i] \in AddsOf(adapter)
        BY <1>1, <1>4, <3>1 DEF Arrives, LastIs
      <4>2. network_inbox[i] = Network!AdapterSignal("AdapterAdded", adapter)
        BY <4>1 DEF AddsOf, Adds, NetSignal
      <4>3. DOMAIN network_inbox = 1..Len(network_inbox)
        BY <1>1
      <4> QED  BY <4>2, <4>3 DEF Network!AddedWaits, Network!Range
    <3>3. network_unheard' = network_unheard \cup ds
      BY <2>1, <3>2
    <3>4. \A d \in Device \ network_unheard' : d \notin network_unheard /\ (d \in peers' <=> d \in peers)
      BY <3>3
    <3>5. WillTell("Peer", peers', PeersKnown, network_inbox, network_unheard')
      <4>1. PICK later : later = network_unheard'
        OBVIOUS
      <4>2. PICK next : next = peers'
        OBVIOUS
      <4>3. network_unheard \subseteq later
        BY <3>3, <4>1
      <4>4. \A d \in Device \ later : d \in next <=> d \in peers
        BY <3>4, <4>1, <4>2
      <4>5. \A d \in Device : ~Has(<<>>, About("Peer", d))
        BY NoItem
      <4>6. WillTell("Peer", next, PeersKnown, network_inbox \o <<>>, later)
        BY <1>1, <2>3, <3>1, <4>3, <4>4, <4>5, NoNews
      <4> QED  BY <2>3, <4>1, <4>2, <4>6
    <3> QED  BY <1>2, <2>1, <2>6, <3>5 DEF ServerWay
  <2> QED  BY <2>2, <2>4, <2>5, <2>6 DEF NetInv
<1> QED  BY <1>3, <1>4

LEMMA PeerKeeps == ASSUME NetInv, NEW d \in Device, Network!PeerChanges(d) PROVE NetInv'
<1>1. /\ server /\ peers' = IF d \in peers THEN peers \ {d} ELSE peers \cup {d}
      /\ Network!TellPeers({d}, d \in peers')
      /\ UNCHANGED <<adapter, adapters, links, LinksKnown, PeersKnown, network_calls, network_requests,
                     sys_conn, network_server_proxy, adapter_proxy, crashed>>
  BY DEF Network!PeerChanges, Network!libVars, Network!told, LinksKnown, PeersKnown
<1>2. NetTyped
  BY DEF NetInv
<1>3. adapter # 0 /\ peers' \subseteq Device /\ network_requests' \in Nat
  BY <1>1, <1>2 DEF NetTyped
<1>4. IsFiniteSet(peers')
  BY <1>1, <1>2, FS_AddElement, FS_RemoveElement DEF NetTyped
<1>5. IsFiniteSet({d}) /\ {d} \subseteq Device
  BY FS_Singleton
<1>6. CASE d \in peers'
  <2>1. (d \in peers') = TRUE
    BY <1>6
  <2>2. Network!TellPeers({d}, TRUE)
    BY <1>1, <2>1
  <2>3. \A e \in Device : IF e \in {d} THEN e \in peers' <=> TRUE ELSE e \in peers' <=> e \in peers
    BY <1>1, <1>6
  <2> QED  BY <1>1, <1>3, <1>4, <1>5, <2>2, <2>3, PeersTold
<1>7. CASE d \notin peers'
  <2>1. (d \in peers') = FALSE
    BY <1>7
  <2>2. Network!TellPeers({d}, FALSE)
    BY <1>1, <2>1
  <2>3. \A e \in Device : IF e \in {d} THEN e \in peers' <=> FALSE ELSE e \in peers' <=> e \in peers
    BY <1>1, <1>7
  <2> QED  BY <1>1, <1>3, <1>4, <1>5, <2>2, <2>3, PeersTold
<1> QED  BY <1>6, <1>7

LEMMA DeactivateKeeps == ASSUME NetInv, Network!bluetooth_network_deactivate_server PROVE NetInv'
<1>1. /\ adapter # 0 /\ peers' = {} /\ Network!TellPeers(peers, FALSE)
      /\ network_requests' = network_requests + 1
      /\ UNCHANGED <<adapter, adapters, links, LinksKnown, PeersKnown, network_calls,
                     sys_conn, network_server_proxy, adapter_proxy, crashed>>
  BY DEF Network!bluetooth_network_deactivate_server, Network!Asks, Network!libVars,
         Network!told, LinksKnown, PeersKnown
<1>2. NetTyped
  BY DEF NetInv
<1>3. peers \subseteq Device /\ IsFiniteSet(peers) /\ network_requests' \in Nat
  BY <1>1, <1>2 DEF NetTyped
<1>4. IsFiniteSet(peers')
  BY <1>1, FS_EmptySet
<1>5. \A d \in Device : IF d \in peers THEN d \in peers' <=> FALSE ELSE d \in peers' <=> d \in peers
  BY <1>1
<1>6. peers' \subseteq Device
  BY <1>1
<1> QED  BY <1>1, <1>3, <1>4, <1>5, <1>6, PeersTold

\* A link is there, or is gone: its signal, and a reply after it.
LEMMA LinkTold ==
  ASSUME NetInv, NEW d \in Device, NEW on \in BOOLEAN, adapter # 0, NEW tail \in Seq(NetReply),
         links' = IF on THEN links \cup {d} ELSE links \ {d},
         network_inbox' = network_inbox \o Network!LinkSignal(d, on) \o tail,
         network_unheard' = IF network_matched THEN network_unheard ELSE network_unheard \cup {d},
         network_calls' \subseteq NetCall,
         UNCHANGED <<adapter, adapters, server, peers, LinksKnown, PeersKnown, network_requests,
                     sys_conn, network_server_proxy, adapter_proxy, crashed>>
  PROVE  NetInv'
<1>1. NetTyped /\ network_inbox \in Seq(NetMessage) /\ adapter \in Nat \ {0}
  BY DEF NetInv, NetTyped
<1>2. /\ WillTell("Connected", links, LinksKnown, network_inbox, network_unheard)
      /\ FilterWay(network_inbox, sys_conn, adapter)
      /\ ~crashed => ServerWay
  BY DEF NetInv
<1>3. PICK r : r = Network!LinkSignal(d, on)
  OBVIOUS
<1>4. /\ r \in Seq(NetMessage) /\ Chain(r, Ways, Opened) /\ LastIn(r, Ways, Open)
      /\ ~Has(r, Comings) /\ ~Has(r, Peers) /\ \A e : ~Has(r, About("Peer", e))
      /\ \A e \in Device \ network_unheard' :
           /\ LastIn(r, About("Connected", e), Saying("Connected", e, links'))
           /\ Has(r, About("Connected", e)) \/ (e \notin network_unheard /\ (e \in links' <=> e \in links))
      /\ network_unheard \subseteq network_unheard'
  <2>1. CASE network_matched
    <3>1. PICK a : a = Network!Signal("Connected", adapter, d, on)
      OBVIOUS
    <3>2. r = <<a>>
      BY <1>3, <2>1, <3>1 DEF Network!LinkSignal
    <3>3. on <=> d \in links'
      OBVIOUS
    <3>4. /\ a \in NetMessage /\ a.kind = "Connected" /\ a \in Ways /\ a \notin Comings /\ a \notin Peers
          /\ \A other, e : a \in About(other, e) <=> other = "Connected" /\ e = d
          /\ a \in Saying("Connected", d, links')
      BY <1>1, <3>1, <3>3, DeviceSignals
    <3>5. a \in Open
      BY <3>4 DEF Open
    <3>6. /\ Chain(r, Ways, Opened) /\ LastIn(r, Ways, Open)
          /\ ~Has(r, Comings) /\ ~Has(r, Peers) /\ \A e : ~Has(r, About("Peer", e))
      BY <3>2, <3>4, <3>5, OneItem
    <3>7. \A e : /\ LastIn(r, About("Connected", e), Saying("Connected", e, links'))
                 /\ Has(r, About("Connected", e)) <=> e = d
      BY <3>2, <3>4, OneItem
    <3>8. \A e : e # d => (e \in links' <=> e \in links)
      OBVIOUS
    <3>9. r \in Seq(NetMessage)
      BY <3>2, <3>4
    <3>10. ASSUME NEW e \in Device \ network_unheard'
           PROVE  /\ LastIn(r, About("Connected", e), Saying("Connected", e, links'))
                  /\ Has(r, About("Connected", e)) \/ (e \notin network_unheard /\ (e \in links' <=> e \in links))
      BY <2>1, <3>7, <3>8
    <3> QED  BY <2>1, <3>6, <3>9, <3>10
  <2>2. CASE ~network_matched
    <3>1. r = <<>>
      BY <1>3, <2>2 DEF Network!LinkSignal
    <3>2. network_unheard' = network_unheard \cup {d}
      BY <2>2
    <3>3. \A e : e # d => (e \in links' <=> e \in links)
      OBVIOUS
    <3>4. \A e \in Device \ network_unheard' : e \notin network_unheard /\ (e \in links' <=> e \in links)
      BY <3>2, <3>3
    <3>5. r \in Seq(NetMessage)
      BY <3>1
    <3> QED  BY <3>1, <3>2, <3>4, <3>5, NoItem
  <2> QED  BY <2>1, <2>2
<1>5. PICK m : m = network_inbox \o r
  OBVIOUS
<1>6. m \in Seq(NetMessage) /\ network_inbox' = m \o tail
  BY <1>1, <1>3, <1>4, <1>5
<1>7. NetTyped'
  <2>1. network_inbox' \in Seq(NetMessage)
    BY <1>6, RepliesJoined
  <2>2. links' \subseteq Device
    BY <1>1 DEF NetTyped
  <2> QED  BY <1>1, <2>1, <2>2 DEF NetTyped
<1>8. WillTell("Connected", links, LinksKnown, network_inbox, network_unheard)'
  <2>1. WillTell("Connected", links', LinksKnown, m, network_unheard')
    BY <1>1, <1>2, <1>4, <1>5, NewsTold
  <2>2. WillTell("Connected", links', LinksKnown, m \o tail, network_unheard')
    BY <1>6, <2>1, RepliesJoined
  <2> QED  BY <1>6, <2>2
<1>9. FilterWay(network_inbox, sys_conn, adapter)'
  <2>1. FilterWay(m, sys_conn, adapter)
    BY <1>1, <1>2, <1>4, <1>5, FilterJoined
  <2>2. FilterWay(m \o tail, sys_conn, adapter)
    BY <1>6, <2>1, RepliesJoined
  <2> QED  BY <1>6, <2>2
<1>10. ASSUME ~crashed PROVE ServerWay'
  <2>1. /\ WillTell("Peer", peers, PeersKnown, network_inbox, network_unheard)
        /\ Turns(network_inbox, network_server_proxy)
        /\ Fresh(network_inbox, network_server_proxy, adapters)
        /\ Arrives(network_inbox, network_server_proxy, adapter)
    BY <1>2, <1>10 DEF ServerWay
  <2>2. WillTell("Peer", peers, PeersKnown, m, network_unheard')
    BY <1>1, <1>4, <1>5, <2>1, NoNews
  <2>3. WillTell("Peer", peers, PeersKnown, m \o tail, network_unheard')
    BY <1>6, <2>2, RepliesJoined
  <2>4. ~Has(r, Peers \ PeersOf(network_server_proxy))
    BY <1>4 DEF Has
  <2>5. /\ Turns(m, network_server_proxy)
        /\ Fresh(m, network_server_proxy, adapters)
        /\ Arrives(m, network_server_proxy, adapter)
    BY <1>1, <1>4, <1>5, <2>1, <2>4, OthersJoined
  <2>6. /\ Turns(m \o tail, network_server_proxy)
        /\ Fresh(m \o tail, network_server_proxy, adapters)
        /\ Arrives(m \o tail, network_server_proxy, adapter)
    BY <1>6, <2>5, RepliesJoined
  <2> QED  BY <1>2, <1>6, <1>10, <2>3, <2>6 DEF ServerWay
<1> QED  BY <1>7, <1>8, <1>9, <1>10 DEF NetInv

LEMMA DropsKeep == ASSUME NetInv, NEW d \in Device, Network!LinkDrops(d) PROVE NetInv'
<1>1. /\ d \in links /\ links' = links \ {d}
      /\ network_inbox' = network_inbox \o Network!LinkSignal(d, FALSE)
      /\ network_unheard' = IF network_matched THEN network_unheard ELSE network_unheard \cup {d}
      /\ UNCHANGED <<adapter, adapters, server, peers, LinksKnown, PeersKnown, network_calls,
                     network_requests, sys_conn, network_server_proxy, adapter_proxy, crashed>>
  BY DEF Network!LinkDrops, Network!libVars, Network!told, LinksKnown, PeersKnown
<1>2. NetTyped
  BY DEF NetInv
<1>3. adapter \in Nat \ {0} /\ network_calls' \subseteq NetCall
  BY <1>1, <1>2 DEF NetTyped
<1>4. PICK on \in BOOLEAN : on = FALSE
  OBVIOUS
<1>5. PICK r : r = Network!LinkSignal(d, on)
  OBVIOUS
<1>6. r \in Seq(NetMessage)
  <2>1. PICK a : a = Network!Signal("Connected", adapter, d, on)
    OBVIOUS
  <2>2. a \in NetMessage
    BY <1>3, <2>1, DeviceSignals
  <2> QED  BY <1>5, <2>1, <2>2 DEF Network!LinkSignal
<1>7. network_inbox' = network_inbox \o r \o <<>>
  <2>1. Network!LinkSignal(d, FALSE) = r
    BY <1>4, <1>5, Zenon
  <2>2. network_inbox' = network_inbox \o r
    BY <1>1, <2>1
  <2> QED  BY <1>2, <1>6, <2>2 DEF NetTyped
<1>8. links' = IF on THEN links \cup {d} ELSE links \ {d}
  BY <1>1, <1>4
<1>9. <<>> \in Seq(NetReply)
  OBVIOUS
<1> QED  BY <1>1, <1>3, <1>5, <1>7, <1>8, <1>9, LinkTold

LEMMA NetAnswerKeeps == ASSUME NetInv, NEW c \in network_calls, Network!Answer(c) PROVE NetInv'
<1>1. /\ network_calls' = network_calls \ {c}
      /\ UNCHANGED <<adapter, adapters, server, peers, LinksKnown, PeersKnown,
                     network_requests, sys_conn, network_server_proxy, adapter_proxy, crashed>>
  BY DEF Network!Answer, Network!libVars, Network!bounds, Network!told, LinksKnown, PeersKnown
<1>2. NetTyped /\ network_inbox \in Seq(NetMessage)
  BY DEF NetInv, NetTyped
<1>3. c \in NetCall /\ c.device \in Device /\ c.connect \in BOOLEAN /\ network_calls' \subseteq NetCall
  BY <1>1, <1>2 DEF NetTyped, NetCall
<1>4. PICK good, bad : good = Network!Reply(c, TRUE) /\ bad = Network!Reply(c, FALSE)
  OBVIOUS
<1>5. good \in NetReply /\ bad \in NetReply
  BY <1>3, <1>4 DEF Network!Reply, NetReply
<1>6. CASE /\ adapter # 0
           /\ links' = IF c.connect THEN links \cup {c.device} ELSE links \ {c.device}
           /\ network_inbox' = network_inbox \o Network!LinkSignal(c.device, c.connect)
                                 \o <<good>>
           /\ network_unheard' = IF network_matched THEN network_unheard
                                 ELSE network_unheard \cup {c.device}
  <2>1. <<good>> \in Seq(NetReply)
    BY <1>5
  <2> QED  BY <1>1, <1>3, <1>6, <2>1, LinkTold
<1>7. CASE /\ network_inbox' = Append(network_inbox, bad)
           /\ UNCHANGED <<links, network_unheard>>
  <2>1. PICK r : r = <<bad>>
    OBVIOUS
  <2>2. r \in Seq(NetReply) /\ bad \in NetMessage
    BY <1>5, <2>1 DEF NetMessage
  <2>3. network_inbox' = network_inbox \o r
    BY <1>2, <1>7, <2>1, <2>2, AppendJoins
  <2>4. NetTyped'
    <3>1. network_inbox' \in Seq(NetMessage)
      BY <1>2, <2>2, <2>3, RepliesJoined
    <3> QED  BY <1>1, <1>2, <1>3, <1>7, <3>1 DEF NetTyped
  <2>5. WillTell("Connected", links, LinksKnown, network_inbox, network_unheard)'
    <3>1. WillTell("Connected", links, LinksKnown, network_inbox, network_unheard)
      BY DEF NetInv
    <3>2. WillTell("Connected", links, LinksKnown, network_inbox \o r, network_unheard)
      BY <1>2, <2>2, <3>1, RepliesJoined
    <3> QED  BY <1>1, <1>7, <2>3, <3>2
  <2>6. FilterWay(network_inbox, sys_conn, adapter)'
    <3>1. FilterWay(network_inbox, sys_conn, adapter)
      BY DEF NetInv
    <3>2. FilterWay(network_inbox \o r, sys_conn, adapter)
      BY <1>2, <2>2, <3>1, RepliesJoined
    <3> QED  BY <1>1, <2>3, <3>2
  <2>7. ASSUME ~crashed PROVE ServerWay'
    <3>1. ServerWay
      BY <2>7 DEF NetInv
    <3>2. WillTell("Peer", peers, PeersKnown, network_inbox \o r, network_unheard)
      BY <1>2, <2>2, <3>1, RepliesJoined DEF ServerWay
    <3>3. /\ Turns(network_inbox \o r, network_server_proxy)
          /\ Fresh(network_inbox \o r, network_server_proxy, adapters)
          /\ Arrives(network_inbox \o r, network_server_proxy, adapter)
      BY <1>2, <2>2, <3>1, RepliesJoined DEF ServerWay
    <3> QED  BY <1>1, <1>7, <2>3, <3>1, <3>2, <3>3 DEF ServerWay
  <2> QED  BY <1>1, <2>4, <2>5, <2>6, <2>7 DEF NetInv
<1> QED  BY <1>4, <1>6, <1>7 DEF Network!Answer

(***************************************************************************)
(* The handlers.                                                           *)
(***************************************************************************)

\* The filter stays as it is, is there, or goes with the adapter.
LEMMA RestFilter ==
  ASSUME NEW q \in Seq(NetMessage), q # <<>>, NEW sys, NEW hence, NEW ad,
         FilterWay(q, sys, ad),
         IF Head(q) \in Ways THEN hence \/ Head(q).kind = "AdapterRemoved" ELSE hence <=> sys
  PROVE  FilterWay(Tail(q), hence, ad)
<1>1. /\ FirstIn(q, Ways, Heard(sys)) /\ Chain(q, Ways, Opened)
      /\ ad # 0 => LastIn(q, Ways, Open) /\ (Has(q, Ways) \/ sys)
  BY DEF FilterWay
<1>2. Chain(Tail(q), Ways, Opened)
  BY <1>1, RestChain
<1>3. FirstIn(Tail(q), Ways, Heard(hence))
  <2>1. CASE hence
    <3>1. Heard(hence) = Ways
      BY <2>1 DEF Heard
    <3> QED  BY <3>1 DEF FirstIn
  <2>2. CASE ~hence /\ Head(q) \in Ways
    <3>1. Head(q) \notin Open
      BY <2>2 DEF Open
    <3>2. \A y \in Ways : <<Head(q), y>> \in Opened => y \in Heard(hence)
      BY <3>1 DEF Opened, Heard
    <3> QED  BY <1>1, <2>2, <3>2, RestChain
  <2>3. CASE ~hence /\ Head(q) \notin Ways
    <3>1. FirstIn(Tail(q), Ways, Heard(sys))
      BY <1>1, <2>3, RestFirst
    <3>2. Heard(sys) = Heard(hence)
      BY <2>3 DEF Heard
    <3> QED  BY <3>1, <3>2
  <2> QED  BY <2>1, <2>2, <2>3
<1>4. ASSUME ad # 0 PROVE LastIn(Tail(q), Ways, Open) /\ (Has(Tail(q), Ways) \/ hence)
  <2>1. LastIn(Tail(q), Ways, Open) /\ (Head(q) \in Ways /\ ~Has(Tail(q), Ways) => Head(q) \in Open)
    BY <1>1, <1>4, RestLast
  <2>2. Has(q, Ways) <=> Head(q) \in Ways \/ Has(Tail(q), Ways)
    BY RestHas
  <2>3. Head(q) \in Open => Head(q).kind # "AdapterRemoved"
    BY DEF Open
  <2> QED  BY <1>1, <1>4, <2>1, <2>2, <2>3
<1> QED  BY <1>2, <1>3, <1>4 DEF FilterWay

\* What is no adapter's keeps what is known of the adapters.
LEMMA RestTurns ==
  ASSUME NEW q \in Seq(NetMessage), q # <<>>, NEW proxy, NEW count, NEW ad, Head(q) \notin Comings,
         Turns(q, proxy), Fresh(q, proxy, count), Arrives(q, proxy, ad)
  PROVE  Turns(Tail(q), proxy) /\ Fresh(Tail(q), proxy, count) /\ Arrives(Tail(q), proxy, ad)
<1>1. \A S : Has(q, S) <=> Head(q) \in S \/ Has(Tail(q), S)
  BY RestHas
<1>2. Turns(Tail(q), proxy)
  <2>1. FirstIn(Tail(q), Comings, NextComing(proxy))
    BY RestFirst DEF Turns
  <2>2. Chain(Tail(q), Comings, InTurn)
    BY RestChain DEF Turns
  <2>3. Never(Tail(q), Comings, Peers)
    BY RestNever DEF Turns
  <2> QED  BY <1>1, <2>1, <2>2, <2>3 DEF Turns
<1>3. Fresh(Tail(q), proxy, count)
  <2>1. \A n \in Nat : Never(Tail(q), AddsOf(n), AddsOf(n))
    BY RestNever DEF Fresh
  <2> QED  BY <1>1, <2>1 DEF Fresh
<1>4. Arrives(Tail(q), proxy, ad)
  <2>1. PICK T : T = IF ad = 0 THEN Removals ELSE AddsOf(ad)
    OBVIOUS
  <2>2. Head(q) \notin T
    BY <2>1 DEF Comings, AddsOf
  <2>3. LastIs(q, Comings, T) => LastIs(Tail(q), Comings, T)
    BY <2>2, RestLastIs
  <2> QED  BY <1>1, <2>1, <2>3 DEF Arrives
<1> QED  BY <1>2, <1>3, <1>4

\* AdapterAdded is dispatched: there is no proxy, and there is one of this adapter.
LEMMA RestAdded ==
  ASSUME NEW q \in Seq(NetMessage), q # <<>>, NEW proxy, NEW count \in Nat, NEW ad, Head(q) \in Adds,
         Turns(q, proxy), Fresh(q, proxy, count), Arrives(q, proxy, ad),
         NEW n, n = Head(q).adapter
  PROVE  /\ proxy = 0
         /\ Turns(Tail(q), n) /\ Fresh(Tail(q), n, count) /\ Arrives(Tail(q), n, ad)
<1>1. \A S : Has(q, S) <=> Head(q) \in S \/ Has(Tail(q), S)
  BY RestHas
<1>2. Head(q) \in Comings /\ Head(q) \notin Removals /\ Head(q) \in AddsOf(n) /\ n \in Nat \ {0}
  BY DEF Adds, Comings, Removals, AddsOf, NetSignal
<1>3. proxy = 0
  <2>1. Head(q) \in NextComing(proxy)
    BY <1>2, RestFirst DEF Turns
  <2> QED  BY <1>2, <2>1 DEF NextComing
<1>4. Turns(Tail(q), n)
  <2>1. FirstIn(Tail(q), Comings, NextComing(n))
    <3>1. \A y \in Comings : <<Head(q), y>> \in InTurn => y \in Removals
      BY DEF Adds, Comings, InTurn
    <3>2. NextComing(n) = Removals
      BY <1>2 DEF NextComing
    <3> QED  BY <1>2, <3>1, <3>2, RestChain DEF Turns
  <2>2. Chain(Tail(q), Comings, InTurn)
    BY RestChain DEF Turns
  <2>3. Never(Tail(q), Comings, Peers) /\ ~Has(Tail(q), Peers)
    BY <1>2, RestNever DEF Turns
  <2>4. ~Has(Tail(q), Peers \ PeersOf(n))
    BY <2>3 DEF Has
  <2> QED  BY <2>1, <2>2, <2>3, <2>4 DEF Turns
<1>5. Fresh(Tail(q), n, count)
  <2>1. ASSUME NEW k \in Nat PROVE Never(Tail(q), AddsOf(k), AddsOf(k))
    BY RestNever DEF Fresh
  <2>2. ~Has(Tail(q), AddsOf(n))
    BY <1>2, RestNever DEF Fresh
  <2>3. n \in 0..count
    <3>1. Has(q, AddsOf(n)) /\ 0 \in 0..count
      BY <1>1, <1>2, <1>3 DEF Fresh
    <3>2. ~(n > count)
      BY <1>2, <3>1 DEF Fresh
    <3> QED  BY <1>2, <3>1, <3>2
  <2> QED  BY <1>1, <2>1, <2>2, <2>3 DEF Fresh
<1>6. Arrives(Tail(q), n, ad)
  <2>1. PICK T : T = IF ad = 0 THEN Removals ELSE AddsOf(ad)
    OBVIOUS
  <2>2. LastIs(q, Comings, T)
    BY <1>1, <1>2, <2>1 DEF Arrives
  <2>3. LastIs(Tail(q), Comings, T) \/ (Head(q) \in T /\ ~Has(Tail(q), Comings))
    BY <2>2, RestLastIs
  <2>4. Head(q) \in T => n = ad
    BY <1>2, <2>1 DEF AddsOf
  <2> QED  BY <2>1, <2>3, <2>4 DEF Arrives
<1> QED  BY <1>3, <1>4, <1>5, <1>6

LEMMA RestRemoved ==
  ASSUME NEW q \in Seq(NetMessage), q # <<>>, NEW proxy, NEW count \in Nat, NEW ad, Head(q) \in Removals,
         Turns(q, proxy), Fresh(q, proxy, count), Arrives(q, proxy, ad)
  PROVE  /\ proxy # 0
         /\ Turns(Tail(q), 0) /\ Fresh(Tail(q), 0, count) /\ Arrives(Tail(q), 0, ad)
<1>1. \A S : Has(q, S) <=> Head(q) \in S \/ Has(Tail(q), S)
  BY RestHas
<1>2. Head(q) \in Comings /\ Head(q) \notin Adds /\ \A n : Head(q) \notin AddsOf(n)
  BY DEF Adds, Comings, Removals, AddsOf
<1>3. proxy # 0
  <2>1. Head(q) \in NextComing(proxy)
    BY <1>2, RestFirst DEF Turns
  <2> QED  BY <1>2, <2>1 DEF NextComing
<1>4. Turns(Tail(q), 0)
  <2>1. FirstIn(Tail(q), Comings, NextComing(0))
    <3>1. \A y \in Comings : <<Head(q), y>> \in InTurn => y \in Adds
      BY DEF Removals, Comings, InTurn
    <3>2. NextComing(0) = Adds
      BY DEF NextComing
    <3> QED  BY <1>2, <3>1, <3>2, RestChain DEF Turns
  <2>2. Chain(Tail(q), Comings, InTurn)
    BY RestChain DEF Turns
  <2>3. Never(Tail(q), Comings, Peers) /\ ~Has(Tail(q), Peers)
    BY <1>2, RestNever DEF Turns
  <2>4. ~Has(Tail(q), Peers \ PeersOf(0))
    BY <2>3 DEF Has
  <2> QED  BY <2>1, <2>2, <2>3, <2>4 DEF Turns
<1>5. Fresh(Tail(q), 0, count)
  <2>1. ASSUME NEW k \in Nat PROVE Never(Tail(q), AddsOf(k), AddsOf(k))
    BY RestNever DEF Fresh
  <2>2. AddsOf(0) = {}
    BY DEF AddsOf, Adds, NetSignal
  <2>3. ~Has(Tail(q), AddsOf(0)) /\ 0 \in 0..count
    BY <2>2 DEF Has
  <2> QED  BY <1>1, <2>1, <2>3 DEF Fresh
<1>6. Arrives(Tail(q), 0, ad)
  <2>1. PICK T : T = IF ad = 0 THEN Removals ELSE AddsOf(ad)
    OBVIOUS
  <2>2. LastIs(q, Comings, T)
    BY <1>1, <1>2, <2>1 DEF Arrives
  <2>3. LastIs(Tail(q), Comings, T) \/ (Head(q) \in T /\ ~Has(Tail(q), Comings))
    BY <2>2, RestLastIs
  <2>4. Head(q) \in T => ad = 0
    BY <1>2, <2>1
  <2> QED  BY <2>1, <2>3, <2>4 DEF Arrives
<1> QED  BY <1>3, <1>4, <1>5, <1>6

\* What a handler has to do to keep the invariant.
LEMMA RestKeeps ==
  ASSUME NetInv, network_inbox # <<>>, network_inbox' = Tail(network_inbox),
         UNCHANGED <<network_calls, network_requests, adapter, adapters, server, peers, links,
                     network_unheard, crashed>>,
         network_server_proxy' \in Nat, LinksKnown' \subseteq Device, PeersKnown' \subseteq Device,
         \A d \in Device : IF Head(network_inbox) \in About("Connected", d)
                           THEN d \in LinksKnown' <=> (Head(network_inbox).kind = "Connected"
                                                         /\ Head(network_inbox).on)
                           ELSE d \in LinksKnown' <=> d \in LinksKnown,
         IF Head(network_inbox) \in Ways
         THEN sys_conn' \/ Head(network_inbox).kind = "AdapterRemoved" ELSE sys_conn' <=> sys_conn,
         ~crashed =>
           /\ \A d \in Device : IF Head(network_inbox) \in About("Peer", d)
                                THEN d \in PeersKnown' <=> (Head(network_inbox).kind = "Peer"
                                                              /\ Head(network_inbox).on)
                                ELSE d \in PeersKnown' <=> d \in PeersKnown
           /\ Turns(Tail(network_inbox), network_server_proxy')
           /\ Fresh(Tail(network_inbox), network_server_proxy', adapters)
           /\ Arrives(Tail(network_inbox), network_server_proxy', adapter)
           /\ network_server_proxy' # 0 => adapter_proxy' # 0
  PROVE  NetInv'
<1>1. NetTyped /\ network_inbox \in Seq(NetMessage) /\ Tail(network_inbox) \in Seq(NetMessage)
  BY DEF NetInv, NetTyped
<1>2. NetTyped'
  BY <1>1 DEF NetTyped
<1>3. WillTell("Connected", links, LinksKnown, network_inbox, network_unheard)'
  <2>1. WillTell("Connected", links, LinksKnown, network_inbox, network_unheard)
    BY DEF NetInv
  <2>2. WillTell("Connected", links, LinksKnown', Tail(network_inbox), network_unheard)
    BY <1>1, <2>1, RestTells
  <2> QED  BY <2>2
<1>4. FilterWay(network_inbox, sys_conn, adapter)'
  <2>1. FilterWay(network_inbox, sys_conn, adapter)
    BY DEF NetInv
  <2>2. FilterWay(Tail(network_inbox), sys_conn', adapter)
    BY <1>1, <2>1, RestFilter
  <2> QED  BY <2>2
<1>5. ASSUME ~crashed PROVE ServerWay'
  <2>1. WillTell("Peer", peers, PeersKnown, network_inbox, network_unheard)
    BY <1>5 DEF NetInv, ServerWay
  <2>2. WillTell("Peer", peers, PeersKnown', Tail(network_inbox), network_unheard)
    BY <1>1, <1>5, <2>1, RestTells
  <2> QED  BY <1>5, <2>2 DEF ServerWay
<1> QED  BY <1>2, <1>3, <1>4, <1>5 DEF NetInv

LEMMA NetDispatchKeeps == ASSUME NetInv, Network!Dispatch PROVE NetInv'
<1>1. /\ NetTyped /\ network_inbox \in Seq(NetMessage) /\ adapters \in Nat
      /\ network_server_proxy \in Nat /\ LinksKnown \subseteq Device /\ PeersKnown \subseteq Device
  BY DEF NetInv, NetTyped
<1>2. /\ network_inbox # <<>> /\ network_inbox' = Tail(network_inbox)
      /\ UNCHANGED <<network_calls, network_requests, adapter, adapters, server, peers, links>>
  BY DEF Network!Dispatch, Network!bluezVars, Network!bounds
<1>3. PICK h : h = Head(network_inbox)
  OBVIOUS
<1>4. h \in NetMessage
  BY <1>1, <1>2, <1>3
<1>5. FilterWay(network_inbox, sys_conn, adapter)
  BY DEF NetInv
<1>6. ASSUME ~crashed
      PROVE  /\ Turns(network_inbox, network_server_proxy)
             /\ Fresh(network_inbox, network_server_proxy, adapters)
             /\ Arrives(network_inbox, network_server_proxy, adapter)
             /\ network_server_proxy # 0 => adapter_proxy # 0
  BY <1>6 DEF NetInv, ServerWay
<1>7. ASSUME ~crashed, h \notin Comings
      PROVE  /\ Turns(Tail(network_inbox), network_server_proxy)
             /\ Fresh(Tail(network_inbox), network_server_proxy, adapters)
             /\ Arrives(Tail(network_inbox), network_server_proxy, adapter)
  BY <1>1, <1>2, <1>3, <1>6, <1>7, RestTurns
<1>8. CASE h.kind = "AdapterAdded" /\ Network!adapter_added_cb(h.adapter)
  <2>1. h \in NetSignal
    BY <1>4, <1>8, NetKinds
  <2>2. /\ h \in Adds /\ h \in Ways /\ h.adapter \in Nat \ {0}
        /\ \A d : \A kind \in {"Peer", "Connected"} : h \notin About(kind, d)
    BY <1>8, <2>1 DEF Adds, Ways, About, Ends, NetSignal
  <2>3. /\ adapter_proxy' = h.adapter /\ sys_conn'
        /\ network_server_proxy' = IF network_server_proxy = 0 THEN h.adapter ELSE network_server_proxy
        /\ UNCHANGED <<LinksKnown, PeersKnown, network_unheard, crashed>>
    BY <1>8 DEF Network!adapter_added_cb, Network!_bluetooth_network_server_add_signal,
                Network!_bluetooth_network_client_add_filter, Network!ghosts,
     Network!told, LinksKnown, PeersKnown
  <2>4. ASSUME ~crashed
        PROVE  /\ network_server_proxy' = h.adapter
               /\ Turns(Tail(network_inbox), h.adapter)
               /\ Fresh(Tail(network_inbox), h.adapter, adapters)
               /\ Arrives(Tail(network_inbox), h.adapter, adapter)
    BY <1>1, <1>2, <1>3, <1>6, <2>2, <2>3, <2>4, RestAdded
  <2> QED  BY <1>1, <1>2, <1>3, <2>2, <2>3, <2>4, RestKeeps
<1>9. CASE h.kind = "AdapterRemoved" /\ Network!adapter_removed_cb
  <2>1. h \in NetSignal
    BY <1>4, <1>9, NetKinds
  <2>2. /\ h \in Removals /\ h \in Ways
        /\ \A d : \A kind \in {"Peer", "Connected"} : h \in About(kind, d)
    BY <1>9, <2>1 DEF Removals, Ways, About, Ends
  <2>3. /\ LinksKnown' = {} /\ PeersKnown' = {}
        /\ UNCHANGED <<network_unheard, crashed>>
        /\ network_server_proxy' \in Nat
        /\ adapter_proxy # 0 => network_server_proxy' = 0
    BY <1>1, <1>9 DEF Network!adapter_removed_cb, Network!_bluetooth_network_server_remove_signal,
                      Network!libVars, LinksKnown, PeersKnown
  <2>4. ASSUME ~crashed
        PROVE  /\ network_server_proxy' = 0
               /\ Turns(Tail(network_inbox), 0)
               /\ Fresh(Tail(network_inbox), 0, adapters)
               /\ Arrives(Tail(network_inbox), 0, adapter)
    BY <1>1, <1>2, <1>3, <1>6, <2>2, <2>3, <2>4, RestRemoved
  <2> QED  BY <1>1, <1>2, <1>3, <1>9, <2>2, <2>3, <2>4, RestKeeps
<1>10. CASE h.kind = "NameOwnerChanged" /\ Network!name_owner_changed
  <2>1. h \in NetSignal
    BY <1>4, <1>10, NetKinds
  <2>2. /\ h \notin Comings /\ h \notin Ways
        /\ \A d : \A kind \in {"Peer", "Connected"} : h \in About(kind, d)
    BY <1>10, <2>1 DEF Adds, Removals, Comings, Ways, About, Ends
  <2>3. /\ LinksKnown' = {} /\ PeersKnown' = {}
        /\ UNCHANGED <<adapter_proxy, network_server_proxy, sys_conn, network_unheard, crashed>>
    BY <1>10 DEF Network!name_owner_changed, Network!libVars, LinksKnown, PeersKnown
  <2> QED  BY <1>1, <1>2, <1>3, <1>6, <1>7, <1>10, <2>2, <2>3, RestKeeps
<1>11. CASE h.kind = "Peer" /\ Network!server_connected(h)
  <2>1. h \in NetSignal
    BY <1>4, <1>11, NetKinds
  <2>2. /\ h \notin Comings /\ h \notin Ways /\ h \in Peers /\ h.device \in Device
        /\ \A d : h \notin About("Connected", d)
        /\ \A d : h \in About("Peer", d) <=> d = h.device
    BY <1>11, <2>1 DEF Adds, Removals, Comings, Ways, About, Ends, Peers, NetSignal
  <2>3. /\ PeersKnown' = IF network_server_proxy = h.adapter THEN Network!Told(PeersKnown, h) ELSE PeersKnown
        /\ UNCHANGED <<adapter_proxy, network_server_proxy, sys_conn, LinksKnown, network_unheard, crashed>>
    <3>1. /\ IF network_server_proxy = h.adapter
             THEN /\ peers_told' = Network!Told(peers_told, h)
                  /\ peers_stale' = peers_stale \ {h.device}
             ELSE UNCHANGED <<peers_told, peers_stale>>
          /\ UNCHANGED <<links_told, links_stale>>
          /\ UNCHANGED <<adapter_proxy, network_server_proxy, sys_conn, network_unheard, crashed>>
      BY <1>11 DEF Network!server_connected, Network!libVars
    <3>2. CASE network_server_proxy = h.adapter
      BY <3>1, <3>2 DEF Network!Told, LinksKnown, PeersKnown
    <3>3. CASE network_server_proxy # h.adapter
      BY <3>1, <3>3 DEF LinksKnown, PeersKnown
    <3> QED  BY <3>2, <3>3
  <2>4. PeersKnown' \subseteq Device
    BY <1>1, <2>2, <2>3 DEF Network!Told
  <2>5. ASSUME ~crashed
        PROVE  \A d \in Device : IF d = h.device THEN d \in PeersKnown' <=> h.on
                                                 ELSE d \in PeersKnown' <=> d \in PeersKnown
    <3>1. ~Has(network_inbox, Peers \ PeersOf(network_server_proxy))
      BY <1>6, <2>5 DEF Turns
    <3>2. h \notin Peers \ PeersOf(network_server_proxy)
      BY <1>1, <1>2, <1>3, <3>1, RestHas
    <3>3. h.adapter = network_server_proxy
      BY <2>2, <3>2 DEF PeersOf
    <3> QED  BY <2>3, <3>3 DEF Network!Told
  <2> QED  BY <1>1, <1>2, <1>3, <1>6, <1>7, <1>11, <2>2, <2>3, <2>4, <2>5, RestKeeps
<1>12. CASE h.kind = "Connected" /\ Network!event_filter(h)
  <2>1. h \in NetSignal
    BY <1>4, <1>12, NetKinds
  <2>2. /\ h \notin Comings /\ h \in Ways /\ h.device \in Device
        /\ \A d : h \notin About("Peer", d)
        /\ \A d : h \in About("Connected", d) <=> d = h.device
    BY <1>12, <2>1 DEF Adds, Removals, Comings, Ways, About, Ends, NetSignal
  <2>3. /\ LinksKnown' = IF sys_conn THEN Network!Told(LinksKnown, h) ELSE LinksKnown
        /\ UNCHANGED <<adapter_proxy, network_server_proxy, sys_conn, PeersKnown, network_unheard, crashed>>
    <3>1. /\ IF sys_conn
             THEN /\ links_told' = Network!Told(links_told, h)
                  /\ links_stale' = links_stale \ {h.device}
             ELSE UNCHANGED <<links_told, links_stale>>
          /\ UNCHANGED <<peers_told, peers_stale>>
          /\ UNCHANGED <<adapter_proxy, network_server_proxy, sys_conn, network_unheard, crashed>>
      BY <1>12 DEF Network!event_filter, Network!libVars
    <3>2. CASE sys_conn
      BY <3>1, <3>2 DEF Network!Told, LinksKnown, PeersKnown
    <3>3. CASE ~sys_conn
      BY <3>1, <3>3 DEF LinksKnown, PeersKnown
    <3> QED  BY <3>2, <3>3
  <2>4. sys_conn
    <3>1. FirstIn(network_inbox, Ways, Heard(sys_conn))
      BY <1>5 DEF FilterWay
    <3>2. h \in Heard(sys_conn)
      BY <1>1, <1>2, <1>3, <2>2, <3>1, RestFirst
    <3> QED  BY <1>12, <3>2 DEF Heard
  <2>5. /\ LinksKnown' \subseteq Device
        /\ \A d \in Device : IF d = h.device THEN d \in LinksKnown' <=> h.on
                                             ELSE d \in LinksKnown' <=> d \in LinksKnown
    BY <1>1, <2>2, <2>3, <2>4 DEF Network!Told
  <2>6. sys_conn'
    BY <2>3, <2>4
  <2> QED  BY <1>1, <1>2, <1>3, <1>6, <1>7, <1>12, <2>2, <2>3, <2>5, <2>6, RestKeeps
<1>13. CASE h.kind = "reply" /\ Network!request_cb
  <2>1. h \in NetReply
    BY <1>4, <1>13, NetKinds
  <2>2. h \notin Comings /\ h \notin Ways /\ \A kind, d : h \notin About(kind, d)
    BY <2>1, NetKinds
  <2>3. UNCHANGED <<adapter_proxy, network_server_proxy, sys_conn, LinksKnown, PeersKnown,
                    network_unheard, crashed>>
    BY <1>13 DEF Network!request_cb, Network!libVars, Network!ghosts,
     Network!told, LinksKnown, PeersKnown
  <2> QED  BY <1>1, <1>2, <1>3, <1>6, <1>7, <2>2, <2>3, RestKeeps
<1> QED  BY <1>3, <1>8, <1>9, <1>10, <1>11, <1>12, <1>13 DEF Network!Dispatch

LEMMA NetNext == NetInv /\ Network!Next => NetInv'
BY AppearsKeeps, GoesKeeps, PeerKeeps, DropsKeep, NetRequestKeeps, NetAnswerKeeps, ActivateKeeps,
   DeactivateKeeps, NetDispatchKeeps DEF Network!Next

LEMMA NetKept == NetInv /\ UNCHANGED networkVars => NetInv'
<1> SUFFICES ASSUME NetInv, UNCHANGED networkVars PROVE NetInv'
  OBVIOUS
<1>1. NetTyped'
  BY DEF NetInv, NetTyped, networkVars, LinksKnown, PeersKnown
<1> QED  BY <1>1, NetAlone DEF networkVars, LinksKnown, PeersKnown

\* What the last adapter left behind has been told.
StaleTold == links_stale \subseteq links_told /\ peers_stale \subseteq peers_told

LEMMA StaleNext == StaleTold /\ Network!Next => StaleTold'
<1> SUFFICES ASSUME StaleTold, Network!Next PROVE StaleTold'
  OBVIOUS
<1>1. CASE UNCHANGED <<peers_told, links_told, peers_stale, links_stale>>
  BY <1>1 DEF StaleTold
<1>2. CASE Network!Dispatch
  <2>1. PICK msg : msg = Head(network_inbox)
    OBVIOUS
  <2>2. CASE Network!adapter_removed_cb
    BY <2>2 DEF Network!adapter_removed_cb, StaleTold
  <2>3. CASE Network!name_owner_changed
    BY <2>3 DEF Network!name_owner_changed, StaleTold
  <2>4. CASE Network!server_connected(msg)
    BY <2>4 DEF Network!server_connected, Network!Told, StaleTold
  <2>5. CASE Network!event_filter(msg)
    BY <2>5 DEF Network!event_filter, Network!Told, StaleTold
  <2>6. CASE Network!request_cb \/ Network!adapter_added_cb(msg.adapter)
    BY <1>1, <2>6 DEF Network!request_cb, Network!adapter_added_cb, Network!ghosts, Network!told
  <2> QED  BY <1>2, <2>1, <2>2, <2>3, <2>4, <2>5, <2>6 DEF Network!Dispatch
<1>3. ASSUME NEW d \in Device, Network!PeerChanges(d) \/ Network!LinkDrops(d) PROVE StaleTold'
  BY <1>1, <1>3 DEF Network!PeerChanges, Network!LinkDrops, Network!told
<1>4. ASSUME NEW d \in Device, NEW connect \in BOOLEAN, Network!Request(d, connect) PROVE StaleTold'
  BY <1>1, <1>4 DEF Network!Request, Network!ghosts, Network!told
<1>5. ASSUME NEW c \in network_calls, Network!Answer(c) PROVE StaleTold'
  BY <1>1, <1>5 DEF Network!Answer, Network!told
<1>6. CASE Network!AdapterAppears \/ \E dies \in BOOLEAN : Network!AdapterGoes(dies)
  BY <1>1, <1>6 DEF Network!AdapterAppears, Network!AdapterGoes, Network!ghosts, Network!told
<1>7. CASE Network!bluetooth_network_activate_server \/ Network!bluetooth_network_deactivate_server
  BY <1>1, <1>7 DEF Network!bluetooth_network_activate_server,
     Network!bluetooth_network_deactivate_server, Network!ghosts, Network!told
<1> QED  BY <1>2, <1>3, <1>4, <1>5, <1>6, <1>7 DEF Network!Next

LEMMA NetTold == NetInv /\ StaleTold => NetworkIsTold
<1> SUFFICES ASSUME NetInv, StaleTold, network_inbox = <<>>
             PROVE  /\ links_told \ network_unheard = (links \cup links_stale) \ network_unheard
                    /\ ~crashed => peers_told \ network_unheard
                                     = (peers \cup peers_stale) \ network_unheard
  BY DEF NetworkIsTold, Network!NetworkIsTold
<1>1. \A S : ~Has(network_inbox, S)
  BY NoItem
<1>2. \A d \in Device \ network_unheard : d \in LinksKnown <=> d \in links
  BY <1>1 DEF NetInv, WillTell
<1>3. ~crashed => \A d \in Device \ network_unheard : d \in PeersKnown <=> d \in peers
  BY <1>1 DEF NetInv, ServerWay, WillTell
<1>4. LinksKnown \subseteq Device /\ links \subseteq Device /\ PeersKnown \subseteq Device /\ peers \subseteq Device
  BY DEF NetInv, NetTyped
<1>5. links_told \ network_unheard = (links \cup links_stale) \ network_unheard
  BY <1>2, <1>4 DEF LinksKnown, StaleTold
<1>6. ASSUME ~crashed
      PROVE  peers_told \ network_unheard = (peers \cup peers_stale) \ network_unheard
  BY <1>3, <1>4, <1>6 DEF PeersKnown, StaleTold
<1> QED  BY <1>5, <1>6

\* With nothing left to dispatch the events have told the application which devices are
\* linked and which use the server, and of those that went with a removed adapter nothing
\* more; for any number of adapters that come and go, in any order the bus allows: but for a
\* device faster than the dispatch of AdapterAdded, and for the server's peers after BlueZ
\* died (_bluetooth_network_server_add_signal and _remove_signal,
\* _bluetooth_network_client_add_filter and _remove_filter).
THEOREM NetworkAlwaysTold == SumSpec => []NetworkIsTold
<1>1. SumInit => NetInv /\ StaleTold
  BY NetInit DEF SumInit, Network!Init, StaleTold
<1>2. NetInv /\ [SumNext]_sumVars => NetInv'
  BY NetNext, NetKept DEF SumNext, sumVars
<1>3. StaleTold /\ [SumNext]_sumVars => StaleTold'
  <2>1. StaleTold /\ UNCHANGED networkVars => StaleTold'
    BY DEF StaleTold, networkVars
  <2> QED  BY <2>1, StaleNext DEF SumNext, sumVars
<1> QED  BY <1>1, <1>2, <1>3, NetTold, PTL DEF SumSpec

(***************************************************************************)
(* Health devices.                                                         *)
(***************************************************************************)

HdpSignal == [name : {"ChannelConnected", "ChannelDeleted"}, path : Path]
Watch(i) == [n |-> i.n, path |-> i.path, fd |-> i.fd]
Connecting(p) == [name |-> "ChannelConnected", path |-> p]
Deleting(p) == [name |-> "ChannelDeleted", path |-> p]

HdpTyped ==
  /\ connections \in Nat /\ acquired \in Nat /\ activations \in Nat
  /\ idles \subseteq App /\ g_app_list \in [App -> Nat]
  /\ obj_info \subseteq [app : App, path : Path, n : Nat, fd : Hdp!Fd]
  /\ watches \subseteq [n : Nat, path : Path, fd : Hdp!Fd]
  /\ channel \in [Path -> [app : App \cup {"other", "none"}, sock : Nat]]
  /\ fds \in [Hdp!Fd -> Nat]
  /\ hdp_inbox \in Seq(HdpSignal)

\* An application BlueZ knows is in the list and hears its signals.
HdpLists ==
  /\ \A app \in apps \cap App : g_app_list[app] # 0 /\ app \notin idles
  /\ \A app \in idles : g_app_list[app] # 0
  /\ \A app \in App : g_app_list[app] # 0 => g_hdp_dus_conn /\ hdp_matched

HdpChannels ==
  /\ \A p \in Path : channel[p].sock <= connections
  /\ \A fd \in Hdp!Fd : fds[fd] <= connections
  /\ \A p, q \in Path : channel[p].sock # 0 /\ channel[p].sock = channel[q].sock => p = q

InfosApart ==
  /\ \A i, j \in obj_info : i.n = j.n \/ i.fd = j.fd => i = j
  /\ \A i \in obj_info : i.n <= acquired /\ fds[i.fd] # 0

\* The connection of a descriptor is of the path it was acquired by, and so is its
\* application.
InfosOfTheirPath ==
  \A i \in obj_info, p \in Path :
    channel[p].sock = fds[i.fd] => p = i.path /\ channel[p].app = i.app

\* What was acquired later by a path was connected later, or is the same.
InfosInOrder ==
  /\ \A i \in obj_info : channel[i.path].sock # 0 => fds[i.fd] <= channel[i.path].sock
  /\ \A i, j \in obj_info : i.path = j.path /\ i.n < j.n => fds[i.fd] <= fds[j.fd]

InfosWatched ==
  /\ \A i \in obj_info : Watch(i) \in watches
  /\ \A w \in watches : w.n <= acquired /\ \A i \in obj_info : i.n = w.n => w = Watch(i)

InfosTold == hdp_told = {i.fd : i \in obj_info} /\ ~twice

InfosSound == InfosApart /\ InfosOfTheirPath /\ InfosInOrder /\ InfosWatched /\ InfosTold

\* A channel that is up is known, and no signal is on its way that takes it for deleted, or
\* the last signal about its path says that it is connected.
ToBeTold(p) ==
  channel[p].sock # 0 /\ channel[p].app \in apps \cap App /\ channel[p].sock \notin refused
Known(p) == \E i \in obj_info : i.path = p /\ fds[i.fd] = channel[p].sock
ChannelsExpected ==
  \A p \in Path : ToBeTold(p) =>
    \/ LastIs(hdp_inbox, {Deleting(p)}, {Connecting(p)})
    \/ Known(p) /\ ~Has(hdp_inbox, {Deleting(p)})

HdpInv ==
  /\ HdpTyped /\ HdpLists /\ HdpChannels
  /\ ~spoilt => InfosSound /\ ChannelsExpected

LEMMA AppsOfThisProcess == "other" \notin App /\ "none" \notin App
BY ProfilesAssumption DEF Hdp!HdpAssumption

LEMMA HdpInit == Hdp!Init => HdpInv
<1> SUFFICES ASSUME Hdp!Init PROVE HdpInv
  OBVIOUS
<1> USE DEF Hdp!Init, Hdp!Free
<1>1. HdpTyped
  <2>1. channel \in [Path -> [app : App \cup {"other", "none"}, sock : Nat]]
    OBVIOUS
  <2>2. hdp_inbox \in Seq(HdpSignal)
    OBVIOUS
  <2> QED  BY <2>1, <2>2 DEF HdpTyped
<1>2. HdpLists
  BY AppsOfThisProcess DEF HdpLists
<1>3. HdpChannels
  BY DEF HdpChannels
<1>4. InfosSound
  BY DEF InfosSound, InfosApart, InfosOfTheirPath, InfosInOrder, InfosWatched, InfosTold
<1>5. ChannelsExpected
  BY DEF ChannelsExpected, ToBeTold
<1> QED  BY <1>1, <1>2, <1>3, <1>4, <1>5 DEF HdpInv

\* A signal about another path joins.
LEMMA SignalOfOther ==
  ASSUME HdpTyped, NEW name \in {"ChannelConnected", "ChannelDeleted"}, NEW p \in Path,
         Hdp!Signal(name, p)
  PROVE  /\ hdp_inbox' \in Seq(HdpSignal)
         /\ hdp_matched => hdp_inbox' = hdp_inbox \o <<[name |-> name, path |-> p]>>
         /\ \A q \in Path : q # p \/ name = "ChannelConnected" =>
              /\ ~Has(hdp_inbox, {Deleting(q)}) => ~Has(hdp_inbox', {Deleting(q)})
              /\ LastIs(hdp_inbox, {Deleting(q)}, {Connecting(q)})
                   => LastIs(hdp_inbox', {Deleting(q)}, {Connecting(q)})
<1>1. PICK a : a = [name |-> name, path |-> p]
  OBVIOUS
<1>2. a \in HdpSignal /\ <<a>> \in Seq(HdpSignal) /\ hdp_inbox \in Seq(HdpSignal)
  BY <1>1 DEF HdpTyped, HdpSignal
<1>3. hdp_inbox' = IF hdp_matched THEN hdp_inbox \o <<a>> ELSE hdp_inbox
  BY <1>1, <1>2, AppendJoins DEF Hdp!Signal
<1>4. hdp_inbox' \in Seq(HdpSignal)
  BY <1>2, <1>3
<1>5. ASSUME NEW q \in Path, q # p \/ name = "ChannelConnected" PROVE ~Has(<<a>>, {Deleting(q)})
  <2>1. a # Deleting(q)
    BY <1>1, <1>5 DEF Deleting
  <2> QED  BY <2>1, OneItem
<1>6. ASSUME NEW q \in Path, q # p \/ name = "ChannelConnected"
      PROVE  /\ ~Has(hdp_inbox, {Deleting(q)}) => ~Has(hdp_inbox', {Deleting(q)})
             /\ LastIs(hdp_inbox, {Deleting(q)}, {Connecting(q)})
                  => LastIs(hdp_inbox', {Deleting(q)}, {Connecting(q)})
  BY <1>2, <1>3, <1>5, <1>6, JoinedHas, JoinedLastIs
<1> QED  BY <1>1, <1>3, <1>4, <1>6

LEMMA ConnectKeeps ==
  ASSUME HdpInv, NEW p \in Path, NEW app \in App \cup {"other"}, Hdp!ChannelConnects(p, app)
  PROVE  HdpInv'
<1>1. PICK c : c = connections + 1
  OBVIOUS
<1>2. /\ channel' = [channel EXCEPT ![p] = [app |-> app, sock |-> c]] /\ connections' = c
      /\ channel[p].sock = 0 /\ app \in apps
      /\ Hdp!Signal("ChannelConnected", p)
      /\ UNCHANGED <<g_app_list, obj_info, watches, g_hdp_dus_conn, hdp_matched, idles, apps, fds,
                     hdp_told, twice, refused, spoilt, acquired, activations>>
  BY <1>1 DEF Hdp!ChannelConnects, Hdp!libVars, Hdp!ghosts
<1>3. HdpTyped /\ HdpLists /\ HdpChannels /\ connections \in Nat /\ c \in Nat \ {0}
  BY <1>1 DEF HdpInv, HdpTyped
<1>4. /\ channel' \in [Path -> [app : App \cup {"other", "none"}, sock : Nat]]
      /\ channel'[p] = [app |-> app, sock |-> c] /\ \A q \in Path \ {p} : channel'[q] = channel[q]
  BY <1>2, <1>3 DEF HdpTyped
<1>5. HdpTyped'
  BY <1>2, <1>3, <1>4, SignalOfOther DEF HdpTyped
<1>6. HdpLists'
  BY <1>2, <1>3 DEF HdpLists
<1>7. HdpChannels'
  BY <1>1, <1>2, <1>3, <1>4 DEF HdpChannels, HdpTyped
<1>8. ASSUME ~spoilt PROVE InfosSound' /\ ChannelsExpected'
  <2>1. InfosSound /\ ChannelsExpected
    BY <1>8 DEF HdpInv
  <2>2. \A i \in obj_info : i.fd \in Hdp!Fd /\ fds[i.fd] \in Nat /\ fds[i.fd] < c /\ i.path \in Path
    BY <1>1, <1>3 DEF HdpTyped, HdpChannels
  <2>3. InfosOfTheirPath'
    BY <1>2, <1>4, <2>1, <2>2 DEF InfosSound, InfosOfTheirPath
  <2>4. InfosInOrder'
    BY <1>2, <1>3, <1>4, <2>1, <2>2 DEF InfosSound, InfosInOrder
  <2>5. InfosApart' /\ InfosWatched' /\ InfosTold'
    BY <1>2, <2>1 DEF InfosSound, InfosApart, InfosWatched, InfosTold
  <2>6. ASSUME NEW q \in Path, ToBeTold(q)', q # p
        PROVE  \/ LastIs(hdp_inbox, {Deleting(q)}, {Connecting(q)})'
               \/ (Known(q) /\ ~Has(hdp_inbox, {Deleting(q)}))'
    <3>1. ToBeTold(q) /\ (Known(q) => Known(q)')
      BY <1>2, <1>4, <2>6 DEF ToBeTold, Known
    <3> QED
      BY <1>2, <1>3, <2>1, <2>6, <3>1, SignalOfOther DEF ChannelsExpected, Connecting, Deleting
  <2>7. ASSUME ToBeTold(p)' PROVE LastIs(hdp_inbox, {Deleting(p)}, {Connecting(p)})'
    <3>1. app \in apps \cap App /\ hdp_matched
      BY <1>2, <1>3, <1>4, <2>7 DEF ToBeTold, HdpLists
    <3>2. hdp_inbox' = hdp_inbox \o <<Connecting(p)>>
      BY <1>2, <1>3, <3>1, SignalOfOther DEF Connecting
    <3>3. hdp_inbox \in Seq(HdpSignal) /\ <<Connecting(p)>> \in Seq(HdpSignal)
      BY <1>3 DEF HdpTyped, HdpSignal, Connecting
    <3>4. LastIs(<<Connecting(p)>>, {Deleting(p)}, {Connecting(p)})
      BY OneLast
    <3>5. LastIs(hdp_inbox', {Deleting(p)}, {Connecting(p)})
      BY <3>2, <3>3, <3>4, JoinedLastIs
    <3> QED  BY <3>5 DEF Connecting, Deleting
  <2> QED  BY <2>3, <2>4, <2>5, <2>6, <2>7 DEF InfosSound, ChannelsExpected
<1> QED  BY <1>2, <1>5, <1>6, <1>7, <1>8 DEF HdpInv

\* What an end of a channel in BlueZ leaves of the descriptors' properties: fewer are up.
LEMMA EndKeepsInfos ==
  ASSUME HdpTyped, InfosSound, NEW p \in Path,
         channel'[p].sock = 0, \A q \in Path \ {p} : channel'[q] = channel[q],
         UNCHANGED <<obj_info, watches, fds, hdp_told, twice, acquired>>
  PROVE  InfosSound'
<1>1. InfosOfTheirPath'
  BY DEF InfosSound, InfosOfTheirPath, InfosApart
<1>2. InfosInOrder'
  BY DEF InfosSound, InfosInOrder, HdpTyped
<1>3. InfosApart' /\ InfosWatched' /\ InfosTold'
  BY DEF InfosSound, InfosApart, InfosWatched, InfosTold
<1> QED  BY <1>1, <1>2, <1>3 DEF InfosSound

LEMMA EndKeeps ==
  ASSUME HdpInv, NEW p \in Path, Hdp!LinkLost(p) \/ Hdp!ChannelDeleted(p)
  PROVE  HdpInv'
<1>1. /\ UNCHANGED <<g_app_list, obj_info, watches, g_hdp_dus_conn, hdp_matched, idles, apps, fds,
                     hdp_told, twice, refused, spoilt, acquired, connections, activations>>
      /\ hdp_inbox' = hdp_inbox \/ Hdp!Signal("ChannelDeleted", p)
  BY DEF Hdp!LinkLost, Hdp!ChannelDeleted, Hdp!libVars, Hdp!ghosts, Hdp!bounds
<1>2. HdpTyped /\ HdpLists /\ HdpChannels
  BY DEF HdpInv
<1>3. /\ channel' \in [Path -> [app : App \cup {"other", "none"}, sock : Nat]]
      /\ channel'[p].sock = 0 /\ \A q \in Path \ {p} : channel'[q] = channel[q]
  <2>1. CASE Hdp!LinkLost(p)
    BY <1>2, <2>1 DEF Hdp!LinkLost, HdpTyped
  <2>2. CASE Hdp!ChannelDeleted(p)
    BY <1>2, <2>2 DEF Hdp!ChannelDeleted, HdpTyped, Hdp!Free
  <2> QED  BY <2>1, <2>2
<1>4. hdp_inbox' \in Seq(HdpSignal)
  BY <1>1, <1>2, SignalOfOther DEF HdpTyped
<1>5. HdpTyped'
  BY <1>1, <1>2, <1>3, <1>4 DEF HdpTyped
<1>6. HdpLists'
  BY <1>1, <1>2 DEF HdpLists
<1>7. HdpChannels'
  <2>1. \A q \in Path : channel'[q].sock = channel[q].sock \/ (q = p /\ channel'[q].sock = 0)
    BY <1>3
  <2>2. 0 <= connections
    BY <1>2 DEF HdpTyped
  <2>3. \A q \in Path : channel'[q].sock <= connections
    BY <1>2, <2>1, <2>2 DEF HdpChannels
  <2>4. \A q, r \in Path : channel'[q].sock # 0 /\ channel'[q].sock = channel'[r].sock => q = r
    BY <1>2, <2>1 DEF HdpChannels
  <2> QED  BY <1>1, <1>2, <2>3, <2>4 DEF HdpChannels
<1>8. ASSUME ~spoilt, NEW q \in Path, ToBeTold(q)'
      PROVE  \/ LastIs(hdp_inbox, {Deleting(q)}, {Connecting(q)})'
             \/ (Known(q) /\ ~Has(hdp_inbox, {Deleting(q)}))'
  <2>1. q # p /\ ToBeTold(q) /\ (Known(q) => Known(q)')
    BY <1>1, <1>3, <1>8 DEF ToBeTold, Known
  <2>2. CASE hdp_inbox' = hdp_inbox
    BY <1>8, <2>1, <2>2 DEF HdpInv, ChannelsExpected, Deleting, Connecting
  <2>3. CASE Hdp!Signal("ChannelDeleted", p)
    BY <1>2, <1>8, <2>1, <2>3, SignalOfOther DEF HdpInv, ChannelsExpected, Deleting, Connecting
  <2> QED  BY <1>1, <2>2, <2>3
<1>9. ~spoilt => InfosSound'
  BY <1>1, <1>2, <1>3, EndKeepsInfos DEF HdpInv
<1> QED  BY <1>1, <1>5, <1>6, <1>7, <1>8, <1>9 DEF HdpInv, ChannelsExpected

LEMMA ActivateKeepsHdp ==
  ASSUME HdpInv, NEW app \in App, Hdp!bluetooth_hdp_activate(app)
  PROVE  HdpInv'
<1>1. PICK n : n = activations + 1
  OBVIOUS
<1>2. /\ g_app_list' = [g_app_list EXCEPT ![app] = n] /\ activations' = n
      /\ apps' = apps \cup {app} /\ g_hdp_dus_conn' /\ hdp_matched'
      /\ g_app_list[app] = 0 /\ \A p \in Path : channel[p].app # app
      /\ UNCHANGED <<obj_info, watches, idles, hdp_inbox, channel, fds, hdp_told, twice, refused,
                     spoilt, acquired, connections>>
  BY <1>1 DEF Hdp!bluetooth_hdp_activate, Hdp!ghosts
<1>3. HdpTyped /\ HdpLists /\ HdpChannels /\ n \in Nat \ {0}
  BY <1>1 DEF HdpInv, HdpTyped
<1>4. HdpTyped'
  BY <1>2, <1>3 DEF HdpTyped
<1>5. HdpLists'
  BY <1>2, <1>3 DEF HdpTyped, HdpLists
<1>6. HdpChannels'
  BY <1>2, <1>3 DEF HdpChannels
<1>7. ~spoilt => InfosSound'
  BY <1>2 DEF HdpInv, InfosSound, InfosApart, InfosOfTheirPath, InfosInOrder, InfosWatched, InfosTold
<1>8. ASSUME NEW p \in Path, ToBeTold(p)' PROVE ToBeTold(p)
  BY <1>2, <1>8 DEF ToBeTold
<1>9. ~spoilt => ChannelsExpected'
  BY <1>2, <1>8 DEF HdpInv, ChannelsExpected, Known, Deleting, Connecting
<1> QED  BY <1>2, <1>4, <1>5, <1>6, <1>7, <1>9 DEF HdpInv

LEMMA DeactivateKeepsHdp ==
  ASSUME HdpInv, NEW app \in App, Hdp!bluetooth_hdp_deactivate(app)
  PROVE  HdpInv'
<1>1. /\ app \in apps /\ apps' = apps \ {app} /\ idles' = idles \cup {app}
      /\ UNCHANGED <<g_app_list, obj_info, watches, g_hdp_dus_conn, hdp_matched, hdp_inbox, channel,
                     fds, hdp_told, twice, refused, spoilt, acquired, connections, activations>>
  BY DEF Hdp!bluetooth_hdp_deactivate, Hdp!ghosts, Hdp!bounds
<1>2. HdpTyped /\ HdpLists /\ HdpChannels
  BY DEF HdpInv
<1>3. HdpTyped'
  BY <1>1, <1>2 DEF HdpTyped
<1>4. HdpLists'
  BY <1>1, <1>2 DEF HdpLists
<1>5. HdpChannels'
  BY <1>1, <1>2 DEF HdpChannels
<1>6. ~spoilt => InfosSound'
  BY <1>1 DEF HdpInv, InfosSound, InfosApart, InfosOfTheirPath, InfosInOrder, InfosWatched, InfosTold
<1>7. ASSUME NEW p \in Path, ToBeTold(p)' PROVE ToBeTold(p)
  BY <1>1, <1>7 DEF ToBeTold
<1>8. ~spoilt => ChannelsExpected'
  BY <1>1, <1>7 DEF HdpInv, ChannelsExpected, Known, Deleting, Connecting
<1> QED  BY <1>1, <1>3, <1>4, <1>5, <1>6, <1>8 DEF HdpInv

\* Some channels are freed; the descriptors and the watches of the others stay.
LEMMA GoneKeepsInfos ==
  ASSUME InfosSound, obj_info' \subseteq obj_info, watches' \subseteq watches,
         \A i \in obj_info' : fds'[i.fd] = fds[i.fd] /\ Watch(i) \in watches',
         hdp_told' = {i.fd : i \in obj_info'}, ~twice', UNCHANGED <<acquired, channel>>
  PROVE  InfosSound'
<1>1. InfosApart'
  BY DEF InfosSound, InfosApart
<1>2. InfosOfTheirPath'
  BY DEF InfosSound, InfosOfTheirPath
<1>3. InfosInOrder'
  BY DEF InfosSound, InfosInOrder
<1>4. InfosWatched'
  BY DEF InfosSound, InfosWatched, Watch
<1>5. InfosTold'
  BY DEF InfosTold
<1> QED  BY <1>1, <1>2, <1>3, <1>4, <1>5 DEF InfosSound

LEMMA ClosedIs ==
  ASSUME HdpTyped, NEW some, fds' = Hdp!Closed(some)
  PROVE  /\ fds' \in [Hdp!Fd -> Nat]
         /\ \A fd \in Hdp!Fd : fds'[fd] = IF fd \in some THEN 0 ELSE fds[fd]
         /\ HdpChannels /\ UNCHANGED <<channel, connections>> => HdpChannels'
<1>1. /\ fds' \in [Hdp!Fd -> Nat]
      /\ \A fd \in Hdp!Fd : fds'[fd] = IF fd \in some THEN 0 ELSE fds[fd]
  BY DEF Hdp!Closed, HdpTyped
<1>2. ASSUME HdpChannels, UNCHANGED <<channel, connections>> PROVE HdpChannels'
  <2>1. 0 <= connections
    BY DEF HdpTyped
  <2>2. \A fd \in Hdp!Fd : fds'[fd] <= connections
    BY <1>1, <1>2, <2>1 DEF HdpChannels
  <2> QED  BY <1>2, <2>2 DEF HdpChannels
<1> QED  BY <1>1, <1>2

(***************************************************************************)
(* The signals are dispatched.                                             *)
(***************************************************************************)

LEMMA SignalTaken ==
  ASSUME HdpTyped, hdp_inbox # <<>>, hdp_inbox' = Tail(hdp_inbox)
  PROVE  /\ hdp_inbox' \in Seq(HdpSignal) /\ Head(hdp_inbox) \in HdpSignal
         /\ \A p \in Path : ~Has(hdp_inbox, {Deleting(p)}) =>
              ~Has(hdp_inbox', {Deleting(p)}) /\ Head(hdp_inbox) # Deleting(p)
         /\ \A p \in Path : LastIs(hdp_inbox, {Deleting(p)}, {Connecting(p)}) =>
              \/ LastIs(hdp_inbox', {Deleting(p)}, {Connecting(p)})
              \/ Head(hdp_inbox) = Connecting(p) /\ ~Has(hdp_inbox', {Deleting(p)})
<1>1. hdp_inbox \in Seq(HdpSignal)
  BY DEF HdpTyped
<1>2. hdp_inbox' \in Seq(HdpSignal) /\ Head(hdp_inbox) \in HdpSignal
  BY <1>1, RestItems
<1> QED  BY <1>1, <1>2, RestHas, RestLastIs

\* A signal that changes neither the channels known nor what is to be told, but is
\* about a path that is not to be told.
LEMMA SignalWithoutEffect ==
  ASSUME HdpTyped, ChannelsExpected, hdp_inbox # <<>>, hdp_inbox' = Tail(hdp_inbox),
         \A p \in Path : ToBeTold(p)' => ToBeTold(p) /\ Head(hdp_inbox) # Connecting(p),
         \A p \in Path : ToBeTold(p)' /\ Known(p) /\ Head(hdp_inbox) # Deleting(p) => Known(p)'
  PROVE  ChannelsExpected'
<1> SUFFICES ASSUME NEW p \in Path, ToBeTold(p)'
             PROVE  \/ LastIs(hdp_inbox, {Deleting(p)}, {Connecting(p)})'
                    \/ (Known(p) /\ ~Has(hdp_inbox, {Deleting(p)}))'
  BY DEF ChannelsExpected
<1>1. CASE LastIs(hdp_inbox, {Deleting(p)}, {Connecting(p)})
  BY <1>1, SignalTaken DEF Deleting, Connecting
<1>2. CASE Known(p) /\ ~Has(hdp_inbox, {Deleting(p)})
  BY <1>2, SignalTaken DEF Deleting
<1> QED  BY <1>1, <1>2 DEF ChannelsExpected

LEMMA RefuseKeeps ==
  ASSUME HdpInv, hdp_inbox # <<>>, hdp_inbox' = Tail(hdp_inbox), NEW path \in Path,
         Head(hdp_inbox) = Connecting(path),
         refused' = (refused \cup {channel[path].sock}) \ {0},
         UNCHANGED <<obj_info, watches, hdp_told, acquired>>,
         fds' = fds \/ \E fd \in Hdp!Fd : /\ fds[fd] = 0 /\ fds' = [fds EXCEPT ![fd] = channel[path].sock],
         UNCHANGED <<g_app_list, g_hdp_dus_conn, hdp_matched, idles, apps, channel, spoilt, twice,
                     connections, activations>>
  PROVE  HdpInv'
<1>1. HdpTyped /\ HdpLists /\ HdpChannels
  BY DEF HdpInv
<1>2. /\ fds' \in [Hdp!Fd -> Nat]
      /\ \A fd \in Hdp!Fd : fds'[fd] = fds[fd] \/ (fds[fd] = 0 /\ fds'[fd] = channel[path].sock)
  <2>1. channel[path].sock \in Nat
    BY <1>1 DEF HdpTyped
  <2> QED  BY <1>1, <2>1 DEF HdpTyped
<1>3. HdpTyped'
  BY <1>1, <1>2, SignalTaken DEF HdpTyped
<1>4. HdpLists'
  BY <1>1 DEF HdpLists
<1>5. HdpChannels'
  <2>1. \A fd \in Hdp!Fd : fds'[fd] <= connections
    BY <1>1, <1>2 DEF HdpChannels
  <2> QED  BY <1>1, <2>1 DEF HdpChannels
<1>6. ASSUME ~spoilt PROVE InfosSound' /\ ChannelsExpected'
  <2>1. InfosSound /\ ChannelsExpected
    BY <1>6 DEF HdpInv
  <2>2. \A i \in obj_info : fds'[i.fd] = fds[i.fd]
    BY <1>1, <1>2, <2>1 DEF InfosSound, InfosApart, HdpTyped
  <2>3. InfosSound'
    BY <2>1, <2>2, GoneKeepsInfos DEF InfosSound, InfosWatched, InfosTold
  <2>4. ASSUME NEW p \in Path, ToBeTold(p)' PROVE ToBeTold(p) /\ Head(hdp_inbox) # Connecting(p)
    BY <2>4 DEF ToBeTold, Connecting
  <2>5. \A p \in Path : Known(p) => Known(p)'
    BY <2>2 DEF Known
  <2>6. ChannelsExpected'
    BY <1>1, <2>1, <2>4, <2>5, SignalWithoutEffect
  <2> QED  BY <2>3, <2>6
<1> QED  BY <1>3, <1>4, <1>5, <1>6 DEF HdpInv

LEMMA AddKeeps ==
  ASSUME HdpInv, hdp_inbox # <<>>, hdp_inbox' = Tail(hdp_inbox), NEW path \in Path,
         Head(hdp_inbox) = Connecting(path), NEW app \in App, NEW fd \in Hdp!Fd,
         app = channel[path].app, channel[path].sock # 0,
         fds[fd] = 0, fds' = [fds EXCEPT ![fd] = channel[path].sock],
         Hdp!Add(app, path, fd),
         UNCHANGED <<g_app_list, g_hdp_dus_conn, hdp_matched, idles, apps, channel, spoilt, twice,
                     connections, activations>>
  PROVE  HdpInv'
<1>1. HdpTyped /\ HdpLists /\ HdpChannels
  BY DEF HdpInv
<1>2. PICK s : s = channel[path].sock
  OBVIOUS
<1>3. PICK n : n = acquired + 1
  OBVIOUS
<1>4. PICK new : new = [app |-> app, n |-> n, path |-> path, fd |-> fd]
  OBVIOUS
<1>5. /\ obj_info' = obj_info \cup {new} /\ watches' = watches \cup {Watch(new)}
      /\ hdp_told' = hdp_told \cup {fd} /\ acquired' = n /\ refused' = refused
  BY <1>3, <1>4 DEF Hdp!Add, Watch
<1>6. /\ n \in Nat /\ s \in Nat \ {0} /\ acquired \in Nat /\ s <= connections
      /\ new \in [app : App, path : Path, n : Nat, fd : Hdp!Fd]
      /\ new.app = app /\ new.n = n /\ new.path = path /\ new.fd = fd
  BY <1>1, <1>2, <1>3, <1>4 DEF HdpTyped, HdpChannels
<1>7. Watch(new) \in [n : Nat, path : Path, fd : Hdp!Fd]
  BY <1>6 DEF Watch
<1>8. /\ fds' \in [Hdp!Fd -> Nat] /\ fds'[fd] = s
      /\ \A f \in Hdp!Fd : f # fd => fds'[f] = fds[f]
  BY <1>1, <1>2, <1>6 DEF HdpTyped
<1>9. HdpTyped'
  BY <1>1, <1>5, <1>6, <1>7, <1>8, SignalTaken DEF HdpTyped
<1>10. HdpLists'
  BY <1>1 DEF HdpLists
<1>11. HdpChannels'
  <2>1. \A f \in Hdp!Fd : fds'[f] <= connections
    BY <1>1, <1>6, <1>8 DEF HdpChannels
  <2> QED  BY <1>1, <2>1 DEF HdpChannels
<1>12. ASSUME ~spoilt PROVE InfosSound' /\ ChannelsExpected'
  <2>1. InfosSound /\ ChannelsExpected
    BY <1>12 DEF HdpInv
  <2>2. \A i \in obj_info : /\ i.n \in Nat /\ i.n < n /\ i.fd \in Hdp!Fd /\ i.fd # fd
                            /\ fds'[i.fd] = fds[i.fd] /\ fds[i.fd] \in Nat /\ i.path \in Path
    <3>1. \A i \in obj_info : /\ i.n \in Nat /\ i.fd \in Hdp!Fd /\ i.path \in Path
                              /\ fds[i.fd] \in Nat /\ fds[i.fd] # 0
      BY <1>1, <2>1 DEF HdpTyped, InfosSound, InfosApart
    <3>2. \A i \in obj_info : i.n <= acquired
      BY <2>1 DEF InfosSound, InfosApart
    <3>3. \A i \in obj_info : i.n < n
      BY <1>3, <1>6, <3>1, <3>2
    <3> QED  BY <1>8, <3>1, <3>3
  <2>3. InfosApart'
    <3>1. \A i, j \in obj_info' : i.n = j.n \/ i.fd = j.fd => i = j
      BY <1>5, <1>6, <2>1, <2>2 DEF InfosSound, InfosApart
    <3>2. \A i \in obj_info' : i.n <= n /\ fds'[i.fd] # 0
      BY <1>5, <1>6, <1>8, <2>1, <2>2 DEF InfosSound, InfosApart
    <3> QED  BY <1>5, <3>1, <3>2 DEF InfosApart
  <2>4. InfosOfTheirPath'
    <3>1. \A p \in Path : channel[p].sock = s => p = path
      BY <1>1, <1>2, <1>6 DEF HdpChannels
    <3> QED
      BY <1>5, <1>6, <1>8, <2>1, <2>2, <3>1 DEF InfosSound, InfosOfTheirPath
  <2>5. InfosInOrder'
    <3>1. \A i \in obj_info' : channel[i.path].sock # 0 => fds'[i.fd] <= channel[i.path].sock
      BY <1>2, <1>5, <1>6, <1>8, <2>1, <2>2 DEF InfosSound, InfosInOrder
    <3>2. ASSUME NEW i \in obj_info', NEW j \in obj_info', i.path = j.path, i.n < j.n
          PROVE  fds'[i.fd] <= fds'[j.fd]
      <4>1. i \in obj_info
        BY <1>5, <1>6, <2>2, <3>2
      <4>2. CASE j \in obj_info
        BY <2>1, <2>2, <3>2, <4>1, <4>2 DEF InfosSound, InfosInOrder
      <4>3. CASE j = new
        BY <1>2, <1>6, <1>8, <2>1, <2>2, <3>2, <4>1, <4>3 DEF InfosSound, InfosInOrder
      <4> QED  BY <1>5, <4>2, <4>3
    <3> QED  BY <3>1, <3>2 DEF InfosInOrder
  <2>6. InfosWatched'
    <3>1. \A i \in obj_info' : Watch(i) \in watches'
      BY <1>5, <2>1 DEF InfosSound, InfosWatched
    <3>2. \A w \in watches : w.n \in Nat /\ w.n <= acquired
      BY <1>1, <2>1 DEF HdpTyped, InfosSound, InfosWatched
    <3>3. \A w \in watches : w.n <= n /\ w.n # n
      BY <1>3, <1>6, <3>2
    <3>4. Watch(new).n = n
      BY <1>6 DEF Watch
    <3>5. ASSUME NEW w \in watches', NEW i \in obj_info', i.n = w.n PROVE w = Watch(i)
      <4>1. CASE w = Watch(new)
        BY <1>5, <1>6, <2>2, <3>4, <3>5, <4>1
      <4>2. CASE w \in watches
        BY <1>5, <1>6, <2>1, <3>3, <3>5, <4>2 DEF InfosSound, InfosWatched
      <4> QED  BY <1>5, <4>1, <4>2
    <3> QED  BY <1>5, <1>6, <3>1, <3>3, <3>4, <3>5 DEF InfosWatched
  <2>7. InfosTold'
    BY <1>5, <1>6, <2>1 DEF InfosSound, InfosTold
  <2>8. Known(path)' /\ \A p \in Path : Known(p) => Known(p)'
    BY <1>2, <1>5, <1>6, <1>8, <2>2 DEF Known
  <2>9. ASSUME NEW p \in Path, ToBeTold(p)'
        PROVE  \/ LastIs(hdp_inbox, {Deleting(p)}, {Connecting(p)})'
               \/ (Known(p) /\ ~Has(hdp_inbox, {Deleting(p)}))'
    <3>1. ToBeTold(p)
      BY <1>5, <2>9 DEF ToBeTold
    <3>2. CASE LastIs(hdp_inbox, {Deleting(p)}, {Connecting(p)})
      <4>1. Connecting(p) = Connecting(path) => p = path
        BY DEF Connecting
      <4> QED  BY <1>1, <2>8, <3>2, <4>1, SignalTaken DEF Deleting, Connecting
    <3>3. CASE Known(p) /\ ~Has(hdp_inbox, {Deleting(p)})
      BY <1>1, <2>8, <3>3, SignalTaken DEF Deleting
    <3> QED  BY <2>1, <3>1, <3>2, <3>3 DEF ChannelsExpected
  <2> QED  BY <2>3, <2>4, <2>5, <2>6, <2>7, <2>9 DEF InfosSound, ChannelsExpected
<1> QED  BY <1>9, <1>10, <1>11, <1>12 DEF HdpInv

\* A channel that is known is not known for another path, nor by another descriptor.
LEMMA FreedIs ==
  ASSUME HdpTyped, InfosSound, NEW info \in obj_info, NEW fd, fd = info.fd,
         obj_info' = obj_info \ {info}, hdp_told' = hdp_told \ {fd},
         twice' = (twice \/ fd \notin hdp_told),
         fds' = Hdp!Closed({fd}), watches' \subseteq watches,
         \A i \in obj_info' : Watch(i) \in watches', UNCHANGED <<acquired, channel>>
  PROVE  /\ InfosSound'
         /\ \A p \in Path : Known(p) /\ (channel[p].sock # fds[fd] \/ info.path # p) => Known(p)'
<1>1. info.fd \in Hdp!Fd /\ \A i \in obj_info : i.fd \in Hdp!Fd
  BY DEF HdpTyped
<1>2. \A i \in obj_info' : i.fd # fd /\ fds'[i.fd] = fds[i.fd]
  BY <1>1, ClosedIs DEF InfosSound, InfosApart
<1>3. hdp_told' = {i.fd : i \in obj_info'}
  BY <1>2 DEF InfosSound, InfosTold
<1>4. ~twice'
  BY DEF InfosSound, InfosTold
<1>5. InfosSound'
  BY <1>2, <1>3, <1>4, GoneKeepsInfos
<1>6. ASSUME NEW p \in Path, Known(p), channel[p].sock # fds[fd] \/ info.path # p PROVE Known(p)'
  <2>1. PICK i \in obj_info : i.path = p /\ fds[i.fd] = channel[p].sock
    BY <1>6 DEF Known
  <2>2. i \in obj_info'
    BY <1>6, <2>1
  <2> QED  BY <1>2, <2>1, <2>2 DEF Known
<1> QED  BY <1>5, <1>6

LEMMA DeletedKeeps ==
  ASSUME HdpInv, hdp_inbox # <<>>, hdp_inbox' = Tail(hdp_inbox), NEW path \in Path,
         Head(hdp_inbox) = Deleting(path), Hdp!handle_disconnect(path),
         UNCHANGED <<g_app_list, g_hdp_dus_conn, hdp_matched, idles, apps, channel, spoilt,
                     watches, refused, acquired, connections, activations>>
  PROVE  HdpInv'
<1>1. HdpTyped /\ HdpLists /\ HdpChannels
  BY DEF HdpInv
<1>2. HdpLists'
  BY <1>1 DEF HdpLists
<1>3. \A p \in Path : ToBeTold(p)' => ToBeTold(p) /\ Head(hdp_inbox) # Connecting(p)
  BY DEF ToBeTold, Deleting, Connecting
<1>4. CASE UNCHANGED <<obj_info, hdp_told, twice, fds>>
  <2>1. HdpTyped'
    BY <1>1, <1>4, SignalTaken DEF HdpTyped
  <2>2. HdpChannels'
    BY <1>1, <1>4 DEF HdpChannels
  <2>3. ASSUME ~spoilt PROVE InfosSound' /\ ChannelsExpected'
    <3>1. InfosSound /\ ChannelsExpected
      BY <2>3 DEF HdpInv
    <3>2. InfosSound'
      BY <1>4, <3>1 DEF InfosSound, InfosApart, InfosOfTheirPath, InfosInOrder, InfosWatched, InfosTold
    <3>3. ChannelsExpected'
      BY <1>1, <1>3, <1>4, <3>1, SignalWithoutEffect DEF Known
    <3> QED  BY <3>2, <3>3
  <2> QED  BY <1>2, <2>1, <2>2, <2>3 DEF HdpInv
<1>5. ASSUME NEW info \in obj_info, info.path = path, Hdp!Disconnect(info, info.fd),
             fds' = Hdp!Closed({info.fd})
      PROVE  HdpInv'
  <2>1. /\ obj_info' = obj_info \ {info} /\ hdp_told' = hdp_told \ {info.fd}
        /\ twice' = (twice \/ info.fd \notin hdp_told)
    BY <1>5 DEF Hdp!Disconnect, Hdp!find_using_path
  <2>2. HdpTyped'
    BY <1>1, <1>5, <2>1, ClosedIs, SignalTaken DEF HdpTyped
  <2>3. HdpChannels'
    BY <1>1, <1>5, ClosedIs
  <2>4. ASSUME ~spoilt PROVE InfosSound' /\ ChannelsExpected'
    <3>1. InfosSound /\ ChannelsExpected
      BY <2>4 DEF HdpInv
    <3>2. \A i \in obj_info' : Watch(i) \in watches'
      BY <2>1, <3>1 DEF InfosSound, InfosWatched
    <3>3. PICK fd : fd = info.fd
      OBVIOUS
    <3>4. InfosSound' /\ \A p \in Path : Known(p) /\ path # p => Known(p)'
      BY <1>1, <1>5, <2>1, <3>1, <3>2, <3>3, FreedIs
    <3>5. \A p \in Path : ToBeTold(p)' /\ Known(p) /\ Head(hdp_inbox) # Deleting(p) => Known(p)'
      BY <3>4
    <3>6. ChannelsExpected'
      BY <1>1, <1>3, <3>1, <3>5, SignalWithoutEffect
    <3> QED  BY <3>4, <3>6
  <2> QED  BY <1>2, <2>2, <2>3, <2>4 DEF HdpInv
<1> QED  BY <1>4, <1>5 DEF Hdp!handle_disconnect, Hdp!Found, Hdp!At

LEMMA UnheardKeeps ==
  ASSUME HdpInv, hdp_inbox # <<>>, hdp_inbox' = Tail(hdp_inbox), ~g_hdp_dus_conn,
         UNCHANGED <<obj_info, watches, hdp_told, twice, refused, fds, acquired, g_app_list,
                     g_hdp_dus_conn, hdp_matched, idles, apps, channel, spoilt, connections, activations>>
  PROVE  HdpInv'
<1>1. HdpTyped /\ HdpLists /\ HdpChannels
  BY DEF HdpInv
<1>2. HdpTyped'
  BY <1>1, SignalTaken DEF HdpTyped
<1>3. HdpLists' /\ HdpChannels'
  BY <1>1 DEF HdpLists, HdpChannels
<1>4. ~spoilt => InfosSound'
  BY DEF HdpInv, InfosSound, InfosApart, InfosOfTheirPath, InfosInOrder, InfosWatched, InfosTold
<1>5. ChannelsExpected'
  BY <1>1 DEF HdpLists, ChannelsExpected, ToBeTold
<1> QED  BY <1>2, <1>3, <1>4, <1>5 DEF HdpInv

LEMMA FilterKeeps == ASSUME HdpInv, Hdp!event_filter PROVE HdpInv'
<1>1. PICK h : h = Head(hdp_inbox)
  OBVIOUS
<1>2. /\ hdp_inbox # <<>> /\ hdp_inbox' = Tail(hdp_inbox)
      /\ UNCHANGED <<g_app_list, g_hdp_dus_conn, hdp_matched, idles, apps, channel, spoilt,
                     connections, activations>>
  BY DEF Hdp!event_filter
<1>3. HdpTyped /\ h \in HdpSignal
  BY <1>1, <1>2, SignalTaken DEF HdpInv
<1>4. h.path \in Path /\ h = [name |-> h.name, path |-> h.path]
  BY <1>3 DEF HdpSignal
<1>5. CASE ~g_hdp_dus_conn /\ UNCHANGED <<obj_info, watches, hdp_told, twice, refused, fds, acquired>>
  BY <1>2, <1>5, UnheardKeeps
<1>6. CASE h.name = "ChannelDeleted" /\ Hdp!handle_disconnect(h.path) /\ UNCHANGED <<watches, refused, acquired>>
  <2>1. h = Deleting(h.path)
    BY <1>4, <1>6 DEF Deleting
  <2> QED  BY <1>1, <1>2, <1>4, <1>6, <2>1, DeletedKeeps
<1>7. CASE h.name = "ChannelConnected" /\ Hdp!acquire_fd(h.path) /\ UNCHANGED twice
  <2>1. h = Connecting(h.path)
    BY <1>4, <1>7 DEF Connecting
  <2>2. PICK path \in Path : path = h.path
    BY <1>4
  <2>3. CASE /\ refused' = (refused \cup {channel[path].sock}) \ {0}
             /\ UNCHANGED <<obj_info, watches, hdp_told, acquired>>
             /\ fds' = fds \/ \E fd \in Hdp!Fd : fds[fd] = 0 /\ fds' = [fds EXCEPT ![fd] = channel[path].sock]
    BY <1>1, <1>2, <1>7, <2>1, <2>2, <2>3, RefuseKeeps
  <2>4. CASE \E fd \in Hdp!Fd : /\ fds[fd] = 0 /\ fds' = [fds EXCEPT ![fd] = channel[path].sock]
                                /\ channel[path].sock # 0 /\ channel[path].app \in App
                                /\ Hdp!Add(channel[path].app, path, fd)
    <3>1. PICK fd \in Hdp!Fd : /\ fds[fd] = 0 /\ fds' = [fds EXCEPT ![fd] = channel[path].sock]
                               /\ channel[path].sock # 0 /\ channel[path].app \in App
                               /\ Hdp!Add(channel[path].app, path, fd)
      BY <2>4
    <3>2. PICK app \in App : app = channel[path].app
      BY <3>1
    <3> QED  BY <1>1, <1>2, <1>7, <2>1, <2>2, <3>1, <3>2, AddKeeps
  <2>5. Hdp!acquire_fd(path)
    BY <1>7, <2>2
  <2> QED  BY <2>3, <2>4, <2>5 DEF Hdp!acquire_fd
<1> QED  BY <1>1, <1>5, <1>6, <1>7 DEF Hdp!event_filter

(***************************************************************************)
(* A descriptor hangs up.                                                  *)
(***************************************************************************)

\* A channel of the same application that comes first was connected first, has hung up
\* as well, and its watch has run.
LEMMA HangsUpFirst ==
  ASSUME HdpTyped, HdpChannels, InfosSound, NEW w \in Hdp!Ready,
         \A v \in Hdp!Ready : v.path = w.path /\ Hdp!Own(v) # {} => w.n <= v.n,
         NEW own \in Hdp!Own(w), NEW info \in obj_info, Hdp!Found(info, w.path), info.app = own.app
  PROVE  info = own
<1>1. own \in obj_info /\ own.n = w.n /\ w = Watch(own) /\ w \in watches /\ fds[w.fd] \notin Hdp!Up
  BY DEF Hdp!Own, Hdp!Ready, InfosSound, InfosWatched
<1>2. w.path = own.path /\ w.fd = own.fd
  BY <1>1 DEF Watch
<1>3. info.path = own.path /\ info.n <= own.n
  BY <1>1, <1>2 DEF Hdp!Found, Hdp!At, Hdp!Before
<1>4. SUFFICES ASSUME info.n < own.n PROVE FALSE
  BY <1>1, <1>3 DEF InfosSound, InfosApart, HdpTyped
<1>5. /\ fds[info.fd] \in Nat \ {0} /\ fds[own.fd] \in Nat \ {0} /\ info.path \in Path
      /\ \A p \in Path : channel[p].sock \in Nat
  BY <1>1 DEF HdpTyped, InfosSound, InfosApart
<1>6. fds[info.fd] <= fds[own.fd]
  BY <1>1, <1>3, <1>4 DEF InfosSound, InfosInOrder
<1>7. ASSUME fds[info.fd] \in Hdp!Up PROVE FALSE
  <2>1. PICK q \in Path : channel[q].sock = fds[info.fd]
    BY <1>7 DEF Hdp!Up
  <2>2. q = own.path
    BY <1>3, <2>1 DEF InfosSound, InfosOfTheirPath
  <2>3. fds[own.fd] <= channel[q].sock
    BY <1>1, <1>5, <2>1, <2>2 DEF InfosSound, InfosInOrder
  <2>4. fds[own.fd] = channel[q].sock
    BY <1>5, <1>6, <2>1, <2>3
  <2> QED  BY <1>1, <1>2, <1>5, <2>4 DEF Hdp!Up
<1>8. Watch(info) \in watches /\ Watch(info).path = w.path /\ Watch(info).fd = info.fd
      /\ Watch(info).n = info.n
  BY <1>2, <1>3 DEF InfosSound, InfosWatched, Watch
<1>9. info \in Hdp!Own(Watch(info))
  BY <1>8 DEF Hdp!Own
<1>10. Watch(info) \in Hdp!Ready
  BY <1>7, <1>8 DEF Hdp!Ready
<1>11. w.n <= info.n
  BY <1>8, <1>9, <1>10
<1>12. info.n \in Nat /\ own.n \in Nat
  BY <1>1 DEF HdpTyped
<1> QED  BY <1>1, <1>4, <1>11, <1>12

LEMMA HangUpKeeps ==
  ASSUME HdpInv, NEW w \in watches, Hdp!data_received(w)
  PROVE  HdpInv'
<1>1. /\ w \in Hdp!Ready
      /\ \A v \in Hdp!Ready : v.path = w.path /\ Hdp!Own(v) # {} => w.n <= v.n
      /\ watches' = watches \ {w}
      /\ UNCHANGED <<g_app_list, g_hdp_dus_conn, hdp_matched, idles, hdp_inbox, apps, channel,
                     refused, acquired, connections, activations>>
  BY DEF Hdp!data_received, Hdp!bounds
<1>2. HdpTyped /\ HdpLists /\ HdpChannels
  BY DEF HdpInv
<1>3. /\ obj_info' \subseteq obj_info /\ (\E some : fds' = Hdp!Closed(some))
      /\ ~spoilt' => ~spoilt
  <2>1. CASE Hdp!data_received_fails(w)
    BY <2>1 DEF Hdp!data_received_fails
  <2>2. CASE Hdp!handle_disconnect_cb(w)
    BY <2>2 DEF Hdp!handle_disconnect_cb, Hdp!Disconnect, Hdp!find_using_path
  <2> QED  BY <2>1, <2>2 DEF Hdp!data_received
<1>4. PICK some : fds' = Hdp!Closed(some)
  BY <1>3
<1>5. HdpTyped' /\ HdpChannels'
  BY <1>1, <1>2, <1>3, <1>4, ClosedIs DEF HdpTyped
<1>6. HdpLists'
  BY <1>1, <1>2 DEF HdpLists
<1>7. ASSUME ~spoilt' PROVE InfosSound' /\ ChannelsExpected'
  <2>1. InfosSound /\ ChannelsExpected
    BY <1>3, <1>7 DEF HdpInv
  <2>2. CASE \E own \in Hdp!Own(w) : \E info \in obj_info :
               /\ Hdp!Found(info, w.path) /\ Hdp!Disconnect(info, w.fd)
               /\ fds' = Hdp!Closed({info.fd, w.fd}) /\ info.app = own.app
    <3>1. PICK own \in Hdp!Own(w) : \E info \in obj_info :
               /\ Hdp!Found(info, w.path) /\ Hdp!Disconnect(info, w.fd)
               /\ fds' = Hdp!Closed({info.fd, w.fd}) /\ info.app = own.app
      BY <2>2
    <3>2. PICK info \in obj_info :
               /\ Hdp!Found(info, w.path) /\ Hdp!Disconnect(info, w.fd)
               /\ fds' = Hdp!Closed({info.fd, w.fd}) /\ info.app = own.app
      BY <3>1
    <3>3. info = own
      BY <1>1, <1>2, <2>1, <3>1, <3>2, HangsUpFirst
    <3>4. info.n = w.n /\ w = Watch(info)
      BY <2>1, <3>1, <3>3 DEF Hdp!Own, InfosSound, InfosWatched
    <3>5. w.fd = info.fd /\ {info.fd, w.fd} = {info.fd} /\ w.n = info.n
      BY <3>4 DEF Watch
    <3>6. /\ obj_info' = obj_info \ {info} /\ hdp_told' = hdp_told \ {info.fd}
          /\ twice' = (twice \/ info.fd \notin hdp_told) /\ fds' = Hdp!Closed({info.fd})
      BY <3>2, <3>5 DEF Hdp!Disconnect, Hdp!find_using_path
    <3>7. \A i \in obj_info' : Watch(i) \in watches'
      <4>1. \A i \in obj_info' : i \in obj_info /\ i.n # info.n
        BY <2>1, <3>6 DEF InfosSound, InfosApart
      <4>2. \A i \in obj_info' : Watch(i).n # w.n
        BY <3>5, <4>1 DEF Watch
      <4> QED  BY <1>1, <2>1, <4>1, <4>2 DEF InfosSound, InfosWatched
    <3>8. PICK fd : fd = info.fd
      OBVIOUS
    <3>9. /\ InfosSound'
          /\ \A p \in Path : Known(p) /\ channel[p].sock # fds[fd] => Known(p)'
      BY <1>1, <1>2, <2>1, <3>6, <3>7, <3>8, FreedIs
    <3>10. fds[fd] \notin Hdp!Up
      BY <1>1, <3>1, <3>5, <3>8 DEF Hdp!Ready
    <3>11. ASSUME NEW p \in Path, ToBeTold(p)'
           PROVE  ToBeTold(p) /\ (Known(p) => Known(p)')
      <4>1. ToBeTold(p) /\ channel[p].sock \in Hdp!Up
        BY <1>1, <3>11 DEF ToBeTold, Hdp!Up
      <4> QED  BY <3>9, <3>10, <4>1
    <3>12. ChannelsExpected'
      BY <1>1, <2>1, <3>11 DEF ChannelsExpected, Deleting, Connecting
    <3> QED  BY <3>9, <3>12
  <2>3. CASE /\ Hdp!Own(w) = {} /\ fds' = Hdp!Closed({w.fd})
             /\ ~\E info \in obj_info : info.fd = w.fd
             /\ UNCHANGED <<obj_info, hdp_told, twice>>
    <3>1. \A i \in obj_info : i.fd \in Hdp!Fd
      BY <1>2 DEF HdpTyped
    <3>2. \A i \in obj_info : fds'[i.fd] = fds[i.fd]
      BY <1>2, <2>3, <3>1, ClosedIs
    <3>3. \A i \in obj_info : Watch(i) \in watches'
      <4>1. \A i \in obj_info : i.n # w.n /\ Watch(i).n = i.n
        BY <2>3 DEF Hdp!Own, Watch
      <4> QED  BY <1>1, <2>1, <4>1 DEF InfosSound, InfosWatched
    <3>4. hdp_told' = {i.fd : i \in obj_info'} /\ ~twice'
      BY <2>1, <2>3 DEF InfosSound, InfosTold
    <3>5. InfosSound'
      BY <1>1, <2>1, <2>3, <3>2, <3>3, <3>4, GoneKeepsInfos
    <3>6. \A p \in Path : (ToBeTold(p)' => ToBeTold(p)) /\ (Known(p) => Known(p)')
      BY <1>1, <2>3, <3>2 DEF ToBeTold, Known
    <3>7. ChannelsExpected'
      BY <1>1, <2>1, <3>6 DEF ChannelsExpected, Deleting, Connecting
    <3> QED  BY <3>5, <3>7
  <2> QED
    BY <1>7, <2>2, <2>3 DEF Hdp!data_received, Hdp!handle_disconnect_cb, Hdp!data_received_fails
<1> QED  BY <1>5, <1>6, <1>7 DEF HdpInv

\* Nothing is up of an application that BlueZ has forgotten but what it never told.
LEMMA DestroyKeeps ==
  ASSUME HdpInv, NEW app \in App, Hdp!destroy_application_cb(app)
  PROVE  HdpInv'
<1>1. PICK mine : mine = {info \in obj_info : info.app = app}
  OBVIOUS
<1>2. PICK some : some = {info.fd : info \in mine}
  OBVIOUS
<1>3. /\ app \in idles /\ idles' = idles \ {app} /\ g_app_list' = [g_app_list EXCEPT ![app] = 0]
      /\ obj_info' = obj_info \ mine /\ fds' = Hdp!Closed(some)
      /\ hdp_told' = hdp_told \ some
      /\ g_hdp_dus_conn' = (\E other \in App : g_app_list'[other] # 0)
      /\ UNCHANGED <<watches, hdp_matched, hdp_inbox, apps, channel, twice, refused, spoilt,
                     acquired, connections, activations>>
  BY <1>1, <1>2 DEF Hdp!destroy_application_cb, Hdp!bounds
<1>4. HdpTyped /\ HdpLists /\ HdpChannels
  BY DEF HdpInv
<1>5. HdpTyped' /\ HdpChannels'
  BY <1>3, <1>4, ClosedIs DEF HdpTyped
<1>6. HdpLists'
  BY <1>3, <1>4 DEF HdpTyped, HdpLists
<1>7. ASSUME ~spoilt PROVE InfosSound' /\ ChannelsExpected'
  <2>1. InfosSound /\ ChannelsExpected
    BY <1>7 DEF HdpInv
  <2>2. \A i \in obj_info' : i \in obj_info /\ i.app # app /\ i.fd \in Hdp!Fd /\ i.fd \notin some
    BY <1>1, <1>2, <1>3, <1>4, <2>1 DEF HdpTyped, InfosSound, InfosApart
  <2>3. \A i \in obj_info' : fds'[i.fd] = fds[i.fd]
    BY <1>3, <1>4, <2>2, ClosedIs
  <2>4. hdp_told' = {i.fd : i \in obj_info'} /\ ~twice'
    BY <1>1, <1>2, <1>3, <2>1, <2>2 DEF InfosSound, InfosTold
  <2>5. InfosSound'
    BY <1>3, <2>1, <2>2, <2>3, <2>4, GoneKeepsInfos DEF InfosSound, InfosWatched
  <2>6. ASSUME NEW p \in Path, ToBeTold(p)' PROVE ToBeTold(p) /\ (Known(p) => Known(p)')
    <3>1. ToBeTold(p) /\ channel[p].app # app
      BY <1>3, <1>4, <2>6 DEF ToBeTold, HdpLists
    <3>2. ASSUME NEW i \in obj_info, i.path = p, fds[i.fd] = channel[p].sock PROVE Known(p)'
      <4>1. i.app # app
        BY <2>1, <3>1, <3>2 DEF InfosSound, InfosOfTheirPath
      <4>2. i \in obj_info'
        BY <1>1, <1>3, <4>1
      <4> QED  BY <1>3, <2>3, <3>2, <4>2 DEF Known
    <3> QED  BY <3>1, <3>2 DEF Known
  <2>7. ChannelsExpected'
    BY <1>3, <2>1, <2>6 DEF ChannelsExpected, Deleting, Connecting
  <2> QED  BY <2>5, <2>7
<1> QED  BY <1>3, <1>5, <1>6, <1>7 DEF HdpInv

LEMMA HdpNext == HdpInv /\ Hdp!Next => HdpInv'
BY ConnectKeeps, EndKeeps, ActivateKeepsHdp, DeactivateKeepsHdp, DestroyKeeps, FilterKeeps,
   HangUpKeeps DEF Hdp!Next

LEMMA HdpKept == HdpInv /\ UNCHANGED hdpVars => HdpInv'
<1> SUFFICES ASSUME HdpInv, UNCHANGED hdpVars PROVE HdpInv'
  OBVIOUS
<1> USE DEF hdpVars
<1>1. HdpTyped' /\ HdpLists' /\ HdpChannels'
  BY DEF HdpInv, HdpTyped, HdpLists, HdpChannels
<1>2. ~spoilt => InfosSound'
  BY DEF HdpInv, InfosSound, InfosApart, InfosOfTheirPath, InfosInOrder, InfosWatched, InfosTold
<1>3. ~spoilt => ChannelsExpected'
  BY DEF HdpInv, ChannelsExpected, ToBeTold, Known, Deleting, Connecting
<1> QED  BY <1>1, <1>2, <1>3 DEF HdpInv

LEMMA HdpTold == HdpInv => ChannelsAreTold
<1> SUFFICES ASSUME HdpInv, ~spoilt PROVE ChannelsAreTold
  BY DEF ChannelsAreTold, Hdp!ChannelsAreTold
<1>1. HdpTyped /\ InfosSound /\ ChannelsExpected
  BY DEF HdpInv
<1>2. ASSUME Hdp!Settled, NEW fd \in hdp_told PROVE fds[fd] \in Hdp!Up
  <2>1. PICK i \in obj_info : fd = i.fd
    BY <1>1, <1>2 DEF InfosSound, InfosTold
  <2>2. Watch(i) \in watches /\ Watch(i).fd = fd
    BY <1>1, <2>1 DEF InfosSound, InfosWatched, Watch
  <2>3. Watch(i) \notin Hdp!Ready
    BY <1>2 DEF Hdp!Settled
  <2> QED  BY <2>2, <2>3 DEF Hdp!Ready
<1>3. ASSUME Hdp!Settled, NEW p \in Path, channel[p].app \in apps \cap App
      PROVE  channel[p].sock \in {fds[fd] : fd \in hdp_told} \cup refused \cup {0}
  <2>1. SUFFICES ASSUME ToBeTold(p) PROVE channel[p].sock \in {fds[fd] : fd \in hdp_told}
    BY <1>3 DEF ToBeTold
  <2>2. hdp_inbox = <<>>
    BY <1>3 DEF Hdp!Settled
  <2>3. ~LastIs(hdp_inbox, {Deleting(p)}, {Connecting(p)})
    BY <2>2 DEF LastIs
  <2>4. Known(p)
    BY <1>1, <2>1, <2>3 DEF ChannelsExpected
  <2> QED  BY <1>1, <2>4 DEF Known, InfosSound, InfosTold
<1>4. ~twice
  BY <1>1 DEF InfosSound, InfosTold
<1> QED  BY <1>2, <1>3, <1>4 DEF ChannelsAreTold, Hdp!ChannelsAreTold

\* Each channel that was told connected is told disconnected once, by its own end, and when
\* signals and hang-ups have been dealt with the application has been told of the channels
\* that are up; a watch that takes another channel for its own, closes the descriptor of
\* another or ends without an event is what can break that (handle_disconnect,
\* handle_disconnect_cb).
THEOREM ChannelsAreAlwaysTold == SumSpec => []ChannelsAreTold
<1>1. SumInit => HdpInv
  BY HdpInit DEF SumInit
<1>2. HdpInv /\ [SumNext]_sumVars => HdpInv'
  BY HdpNext, HdpKept DEF SumNext, sumVars
<1> QED  BY <1>1, <1>2, HdpTold, PTL DEF SumSpec
=============================================================================
