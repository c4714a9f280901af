------------------------------ MODULE PhoneBook ------------------------------
(***************************************************************************)
(* The phone book agent (bluetooth-pb-agent/bluetooth_pb_agent.c): obexd   *)
(* and BlueZ ask it for contacts and calls on behalf of a car kit.         *)
(*                                                                         *)
(* A listing gives each entry a handle and keeps the index from handles to *)
(* identifiers; a card asked for later is looked up in the index.  There   *)
(* is one index, of the folder listed last; a change of the contacts or    *)
(* the calls clears it, and 600 s without a request end the agent.         *)
(***************************************************************************)
EXTENDS Naturals, Sequences, FiniteSets, SequencesExt

CONSTANTS
  Contact,    \* identifiers of contacts, Nat \ {0}; 0 is the owner of the phone
  CallType,   \* the type of a call, by its identifier
  MaxHandle,  \* bound on the handles that are asked for
  MaxChanges  \* bound on the changes of contacts and calls

PhoneBookAssumption ==
  /\ Contact \subseteq Nat \ {0}
  /\ CallType \in [DOMAIN CallType -> {"incoming", "outgoing", "missed", "other"}]
  /\ {MaxHandle, MaxChanges} \subseteq Nat

VARIABLES
  running,            \* the agent runs
  g_current_pb_type,  \* the folder the index is of
  contact_list_hash,  \* the index: identifiers, by handle
  answer,             \* what the step answers
  \* the contacts service
  contacts, phonelog, \* identifiers, in its order
  notices,            \* changes whose callback has still to run
  \* ghosts and bounds
  listed,             \* the folder and identifiers of the last listing the agent still keeps
  changes

vars == <<running, g_current_pb_type, contact_list_hash, answer, contacts, phonelog, notices,
          listed, changes>>

Call == DOMAIN CallType
Folders == {"pb", "ich", "och", "mch", "cch"}
Silent == [request |-> "none"]
NotListed == [folder |-> "none", ids |-> <<>>]

Init ==
  /\ running = FALSE /\ g_current_pb_type = "none" /\ contact_list_hash = <<>>
  /\ answer = Silent /\ contacts = <<>> /\ phonelog = <<>> /\ notices = FALSE
  /\ listed = NotListed /\ changes = 0

(***************************************************************************)
(* The contacts service (external).                                        *)
(***************************************************************************)

\* One more or one less, anywhere.
Changed(s, ids) ==
  {InsertAt(s, k, x) : k \in 1..(Len(s) + 1), x \in ids \ ToSet(s)}
    \cup {RemoveAt(s, k) : k \in DOMAIN s}

Change ==
  /\ changes < MaxChanges /\ changes' = changes + 1
  /\ \/ contacts' \in Changed(contacts, Contact) /\ UNCHANGED phonelog
     \/ phonelog' \in Changed(phonelog, Call) /\ UNCHANGED contacts
  /\ notices' = running /\ answer' = Silent
  /\ UNCHANGED <<running, g_current_pb_type, contact_list_hash, listed>>

(***************************************************************************)
(* The folders.                                                            *)
(***************************************************************************)

\* _bluetooth_pb_is_incoming_call, _is_outgoing_call, _is_missed_call
IsIn(c, folder) ==
  CASE folder = "ich" -> CallType[c] = "incoming"
    [] folder = "och" -> CallType[c] = "outgoing"
    [] folder = "mch" -> CallType[c] = "missed"
    [] folder = "cch" -> CallType[c] \in {"incoming", "outgoing", "missed"}

\* The calls of the log that the folder shows, in their order.
CallsIn(folder, log) ==
  LET at == {i \in DOMAIN log : IsIn(log[i], folder)}
  IN [k \in 1..Cardinality(at) |-> log[CHOOSE i \in at : Cardinality({j \in at : j <= i}) = k]]

Folder(folder) == IF folder = "pb" THEN contacts ELSE CallsIn(folder, phonelog)

\* The cards of calls in the combined folder are those of all calls.
Cards(folder) == IF folder = "cch" THEN phonelog ELSE Folder(folder)

\* The card of the owner is number 0 of the contacts.
Size(folder) == Len(Folder(folder)) + (IF folder = "pb" THEN 1 ELSE 0)

(***************************************************************************)
(* The index.                                                              *)
(***************************************************************************)

\* __bluetooth_pb_create_contact_index, __bluetooth_pb_create_call_index
create_index(folder) ==
  IF g_current_pb_type = folder
  THEN UNCHANGED <<g_current_pb_type, contact_list_hash>>
  ELSE g_current_pb_type' = folder /\ contact_list_hash' = Folder(folder)

\* 0 for a handle the index does not have, and without an index.
lookup_id(handle) ==
  IF handle \in DOMAIN contact_list_hash THEN contact_list_hash[handle] ELSE 0

\* Mutant: the index is kept for the next listing.
clear_keeps_index == UNCHANGED <<g_current_pb_type, contact_list_hash>> /\ listed' = NotListed

\* bluetooth_pb_agent_clear
clear == g_current_pb_type' = "none" /\ contact_list_hash' = <<>> /\ listed' = NotListed

\* __bluetooth_pb_contact_changed, __bluetooth_pb_call_changed
changed_cb ==
  /\ notices /\ notices' = FALSE
  /\ clear /\ answer' = Silent
  /\ UNCHANGED <<running, contacts, phonelog, changes>>

(***************************************************************************)
(* The requests.  The bus starts the agent when it is asked.               *)
(***************************************************************************)

\* Every request but GetTotalObjectCount and AddContact puts off the end of the agent.
Serve == running' = TRUE /\ UNCHANGED <<contacts, phonelog, changes>>

\* Cards i to i + n - 1 of a sequence, as far as it has them.
Part(s, i, n) == SubSeq(s, i, IF i + n - 1 < Len(s) THEN i + n - 1 ELSE Len(s))

\* bluetooth_pb_get_phonebook, the vcards functions: max cards from offset on.  The owner,
\* number 0, counts only among the contacts; calls are numbered from 1, and 0 is 1.
Window(folder, max, offset) ==
  IF folder = "pb"
  THEN (IF offset = 0 THEN <<0>> \o Part(contacts, 1, IF max = 0 THEN 0 ELSE max - 1)
                      ELSE Part(contacts, offset, max))
  ELSE Part(Cards(folder), IF offset = 0 THEN 1 ELSE offset, max)

\* bluetooth_pb_get_phonebook (Window), bluetooth_pb_get_phonebook_size, _size_at (Size):
\* answered from the contacts, without the index.
bluetooth_pb_get_phonebook ==
  /\ answer' = Silent
  /\ Serve /\ UNCHANGED <<g_current_pb_type, contact_list_hash, listed, notices>>

\* __bluetooth_pb_get_contact_list, __bluetooth_pb_get_call_list, and the two by name: a
\* listing of all, of some or of those a text finds, from the index.
Listing(folder, handles) ==
  /\ create_index(folder)
  /\ listed' = [folder |-> folder,
                ids |-> [h \in handles \cap DOMAIN contact_list_hash' |-> contact_list_hash'[h]]]
  /\ answer' = Silent
  /\ Serve /\ UNCHANGED notices

\* bluetooth_pb_get_phonebook_list
bluetooth_pb_get_phonebook_list(folder) == Listing(folder, 1..MaxHandle)

\* bluetooth_pb_get_phonebook_entries_at: an end before the start is the start.
bluetooth_pb_get_phonebook_entries_at(folder, start, end) ==
  /\ folder # "cch"
  /\ Listing(folder, start..(IF end < start THEN start ELSE end))

\* bluetooth_pb_get_phonebook_entries_find_at
bluetooth_pb_get_phonebook_entries_find_at(folder, found) ==
  folder # "cch" /\ Listing(folder, found)

Cid(handle) == lookup_id(handle)

\* bluetooth_pb_get_phonebook_entry: the handle is looked up, then the index is made that
\* of the folder.
bluetooth_pb_get_phonebook_entry(folder, handle) ==
  /\ answer' = [request |-> "entry", folder |-> folder, handle |-> handle, id |-> Cid(handle),
                listed |-> listed]
  /\ create_index(folder)
  /\ listed' = IF g_current_pb_type = folder THEN listed ELSE NotListed
  /\ Serve /\ UNCHANGED notices

\* bluetooth_pb_add_contact: a contact with a number that is there already is not added.
bluetooth_pb_add_contact ==
  /\ changes < MaxChanges /\ changes' = changes + 1
  /\ \E c \in Contact \ ToSet(contacts) : contacts' = Append(contacts, c)
  /\ notices' = TRUE /\ running' = TRUE /\ answer' = Silent
  /\ UNCHANGED <<g_current_pb_type, contact_list_hash, phonelog, listed>>

\* __bluetooth_pb_agent_timeout_calback, or SIGTERM: the agent ends.
Ends ==
  /\ running /\ running' = FALSE /\ notices' = FALSE
  /\ clear /\ answer' = Silent
  /\ UNCHANGED <<contacts, phonelog, changes>>

Handle == 1..MaxHandle

Next ==
  \/ Change \/ changed_cb \/ Ends \/ bluetooth_pb_add_contact
  \/ bluetooth_pb_get_phonebook
  \/ \E folder \in Folders :
       \/ bluetooth_pb_get_phonebook_list(folder)
       \/ \E start, end \in Handle : bluetooth_pb_get_phonebook_entries_at(folder, start, end)
       \/ \E found \in SUBSET Handle : bluetooth_pb_get_phonebook_entries_find_at(folder, found)
       \/ \E handle \in Handle : bluetooth_pb_get_phonebook_entry(folder, handle)

Spec == Init /\ [][Next]_vars

(***************************************************************************)
(* Properties                                                              *)
(***************************************************************************)

\* The index is that of its folder as it is now, unless a change has still to be told: a
\* listing never shows a folder as it was before a change that was told (clear).
IndexIsCurrent ==
  g_current_pb_type # "none" /\ ~notices => contact_list_hash = Folder(g_current_pb_type)

\* Cards o + 1 to o + max of the whole, as far as it has them.
IsPage(page, whole, o, max) ==
  /\ DOMAIN page = {r \in 1..max : o + r \in DOMAIN whole}
  /\ \A r \in DOMAIN page : page[r] = whole[o + r]

\* Pages of max cards, from the first card on, are the cards of the whole folder, cut
\* every max cards: none is missing, none comes twice, and the owner's is the first of
\* the contacts.  Their number is the size, but for the combined folder, whose cards are
\* those of all calls (the vcards functions, the size functions).
PagesJoin ==
  \A folder \in Folders :
    LET whole == IF folder = "pb" THEN <<0>> \o contacts ELSE Cards(folder)
        first == IF folder = "pb" THEN 0 ELSE 1
    IN /\ \A max \in Handle, k \in 0..Len(whole) :
            IsPage(Window(folder, max, first + k * max), whole, k * max, max)
       /\ folder # "cch" => Size(folder) = Len(whole)

\* The card of a handle is that of the entry the listing gave this handle, as long as
\* the agent has kept that listing, whatever has become of the folder since
\* (bluetooth_pb_get_phonebook_entry).
CardIsThatListed ==
  answer.request = "entry" /\ answer.listed.folder = answer.folder
    /\ answer.handle \in DOMAIN answer.listed.ids
  => answer.id = answer.listed.ids[answer.handle]
=============================================================================
