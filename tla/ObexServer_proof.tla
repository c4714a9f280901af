-------------------------- MODULE ObexServer_proof --------------------------
(***************************************************************************)
(* Proofs of the properties of ObexServer, for any number of pushes,       *)
(* registrations and losses of the adapter.                                *)
(*                                                                         *)
(* AnswersReachTheirPush: the one slot is enough because obexd asks about  *)
(* one push at a time, which is either the last one asked about in the     *)
(* queue or the one in the slot with nothing in the queue to replace it.   *)
(*                                                                         *)
(* OnePermissionOnePush: while auto_authorize is set a permission is left, *)
(* or the message that resets it comes before the next question.           *)
(*                                                                         *)
(* TransfersAreThoseOfObexd: what the list lacks or has too much, against  *)
(* the sessions of obexd, is in the queue.                                 *)
(***************************************************************************)
EXTENDS ObexServer, FiniteSetTheorems, TLAPS

Kinds == {"CONNECTION", "AUTHORIZE", "STARTED", "COMPLETED"}
Message == [kind : Kinds, push : Push]

\* The sessions obexd has not asked about.
Early == {"none", "connecting", "connected"}

Asks(q, n) == q[n].kind = "AUTHORIZE"

\* A push in the queue is new to the library, which has neither its call nor its question.
NewInQueue(q, ses, ans, slot, ask) ==
  \A n \in 1..Len(q) : Asks(q, n) =>
    /\ ans[q[n].push] = 0 /\ slot # q[n].push
    /\ q[n].push \notin ask /\ ses[q[n].push] \notin Early

\* Each is in the queue once, and obexd waits at most for the last.
LastIsWaited(q, ses) ==
  \A m, n \in 1..Len(q) : Asks(q, m) /\ Asks(q, n) /\ m < n =>
    q[m].push # q[n].push /\ ses[q[m].push] # "authorizing"

InQueue(q, k) == \E n \in 1..Len(q) : Asks(q, n) /\ q[n].push = k

\* The push obexd waits for is in the queue, or in the slot and none is in the queue.
WaitedIsKnown(q, ses, ans, slot) ==
  \A k \in Push : ses[k] = "authorizing" =>
    \/ InQueue(q, k)
    \/ slot = k /\ ans[k] = 0 /\ \A n \in 1..Len(q) : ~Asks(q, n)

Queue(q, ses, ans, slot, ask) ==
  /\ NewInQueue(q, ses, ans, slot, ask)
  /\ LastIsWaited(q, ses)
  /\ WaitedIsKnown(q, ses, ans, slot)

Typed ==
  /\ session \in [Push -> SessionState] /\ answers \in [Push -> Nat]
  /\ inbox \in Seq(Message) /\ asked \subseteq Push
  /\ asked # {} => reply_context \in Push

OneAuthorizing ==
  \A j, k \in Push : session[j] = "authorizing" /\ session[k] = "authorizing" => j = k

EarlyIsUntouched ==
  \A k \in Push : session[k] \in Early =>
    answers[k] = 0 /\ reply_context # k /\ k \notin asked

\* A careful application has the question in the slot, unanswered, and none while the
\* library answers for it.
CarefulHasOne ==
  careful => /\ auto_authorize => asked = {}
             /\ \A k \in asked : reply_context = k /\ answers[k] = 0

Others == Typed /\ OneAuthorizing /\ EarlyIsUntouched /\ CarefulHasOne
IInv == Others /\ Queue(inbox, session, answers, reply_context, asked)

LEMMA InitInv == Init => IInv
<1> SUFFICES ASSUME Init PROVE IInv
  OBVIOUS
<1>1. Others
  BY DEF Init, Others, Typed, OneAuthorizing, EarlyIsUntouched, CarefulHasOne, Early,
     SessionState, Push
<1>2. Queue(inbox, session, answers, reply_context, asked)
  BY DEF Init, Queue, NewInQueue, LastIsWaited, WaitedIsKnown
<1> QED  BY <1>1, <1>2 DEF IInv

LEMMA InvIsProperty == IInv => AnswersReachTheirPush
<1> SUFFICES ASSUME IInv, NEW k \in asked, session[k] = "authorizing" \/ careful
             PROVE  reply_context = k /\ answers[k] = 0
  BY DEF AnswersReachTheirPush
<1>1. CASE careful
  BY <1>1 DEF IInv, Others, CarefulHasOne
<1>2. CASE session[k] = "authorizing"
  <2>1. k \in Push /\ ~InQueue(inbox, k)
    BY DEF IInv, Others, Typed, Queue, NewInQueue, InQueue
  <2> QED  BY <1>2, <2>1 DEF IInv, Queue, WaitedIsKnown
<1> QED  BY <1>1, <1>2

(***************************************************************************)
(* The queue.                                                              *)
(***************************************************************************)

LEMMA SetToSeqIsSeq ==
  ASSUME NEW S, IsFiniteSet(S)
  PROVE  Cardinality(S) \in Nat /\ SetToSeq(S) \in [1..Cardinality(S) -> S]
<1>1. Cardinality(S) \in Nat /\ ExistsBijection(1..Cardinality(S), S)
  BY FS_CardinalityType
<1>2. \E f \in [1..Cardinality(S) -> S] : IsInjective(f)
  BY <1>1 DEF ExistsBijection, Bijection, Injection, IsInjective
<1> QED  BY <1>1, <1>2 DEF SetToSeq

LEMMA SetToSeqOnto ==
  ASSUME NEW S, IsFiniteSet(S)
  PROVE  \A x \in S : \E i \in 1..Cardinality(S) : SetToSeq(S)[i] = x
<1> DEFINE N == Cardinality(S)
           f == SetToSeq(S)
<1>1. f \in [1..N -> S] /\ IsInjective(f) /\ N \in Nat
  <2>1. ExistsBijection(1..N, S)
    BY FS_CardinalityType
  <2>2. \E g \in [1..N -> S] : IsInjective(g)
    BY <2>1 DEF ExistsBijection, Bijection, Injection, IsInjective
  <2> QED  BY <2>2, FS_CardinalityType DEF SetToSeq
<1> HIDE DEF f, N
<1>2. f \in Injection(1..N, S)
  BY <1>1 DEF Injection, IsInjective
<1>3. IsFiniteSet(1..N) /\ Cardinality(1..N) = N
  BY <1>1, FS_Interval
<1>4. f \in Surjection(1..N, S)
  BY <1>2, <1>3, FS_Injection DEF N
<1> QED  BY <1>4 DEF Surjection, f, N

Quiet(s) == s \in Seq(Message) /\ \A n \in 1..Len(s) : ~Asks(s, n)

LEMMA OneQuiet ==
  ASSUME NEW kind \in Kinds \ {"AUTHORIZE"}, NEW k \in Push, NEW q \in Seq(Message)
  PROVE  Quiet(<<Msg(kind, k)>>) /\ Append(q, Msg(kind, k)) = q \o <<Msg(kind, k)>>
<1>1. Msg(kind, k) \in Message /\ Msg(kind, k).kind = kind
  BY DEF Msg, Message
<1> QED  BY <1>1 DEF Quiet, Asks

LEMMA Popped ==
  ASSUME NEW q \in Seq(Message), q # <<>>
  PROVE  /\ Tail(q) \in Seq(Message) /\ Head(q) \in Message /\ Head(q) = q[1]
         /\ Len(q) \in Nat \ {0} /\ Len(Tail(q)) = Len(q) - 1
         /\ \A n \in 1..(Len(q) - 1) : Tail(q)[n] = q[n + 1]
OBVIOUS

LEMMA Joined ==
  ASSUME NEW q \in Seq(Message), NEW s \in Seq(Message)
  PROVE  /\ q \o s \in Seq(Message) /\ Len(q) \in Nat /\ Len(s) \in Nat
         /\ Len(q \o s) = Len(q) + Len(s)
         /\ \A n \in 1..Len(q) : (q \o s)[n] = q[n]
         /\ \A n \in 1..Len(s) : (q \o s)[Len(q) + n] = s[n]
OBVIOUS

\* Where the messages that ask are in a longer queue.
LEMMA AsksJoined ==
  ASSUME NEW q \in Seq(Message), NEW s, Quiet(s)
  PROVE  /\ q \o s \in Seq(Message)
         /\ \A n \in 1..Len(q \o s) : Asks(q \o s, n) =>
              n \in 1..Len(q) /\ Asks(q, n) /\ (q \o s)[n] = q[n]
         /\ \A k : InQueue(q, k) => InQueue(q \o s, k)
<1>1. s \in Seq(Message)
  BY DEF Quiet
<1>2. ASSUME NEW n \in 1..Len(q \o s), Asks(q \o s, n) PROVE n \in 1..Len(q)
  <2> SUFFICES ASSUME n \notin 1..Len(q) PROVE FALSE
    OBVIOUS
  <2>1. n - Len(q) \in 1..Len(s) /\ Len(q) + (n - Len(q)) = n
    BY <1>1, Joined
  <2>2. (q \o s)[n] = s[n - Len(q)]
    BY <1>1, <2>1, Joined
  <2> QED  BY <1>2, <2>1, <2>2 DEF Quiet, Asks
<1> HIDE DEF Quiet
<1>3. \A n \in 1..Len(q) : (q \o s)[n] = q[n] /\ n \in 1..Len(q \o s)
  BY <1>1, Joined
<1> QED  BY <1>1, <1>2, <1>3, Joined DEF Asks, InQueue

LEMMA QueueJoined ==
  ASSUME NEW q \in Seq(Message), NEW s, Quiet(s), NEW ses, NEW ans, NEW slot, NEW ask,
         Queue(q, ses, ans, slot, ask)
  PROVE  Queue(q \o s, ses, ans, slot, ask)
<1> DEFINE r == q \o s
<1>1. \A n \in 1..Len(r) : Asks(r, n) => n \in 1..Len(q) /\ Asks(q, n) /\ r[n] = q[n]
  BY AsksJoined
<1>2. \A k : InQueue(q, k) => InQueue(r, k)
  BY AsksJoined
<1> HIDE DEF r
<1>3. NewInQueue(r, ses, ans, slot, ask)
  BY <1>1 DEF Queue, NewInQueue
<1>4. LastIsWaited(r, ses)
  BY <1>1 DEF Queue, LastIsWaited
<1>5. WaitedIsKnown(r, ses, ans, slot)
  BY <1>1, <1>2 DEF Queue, WaitedIsKnown
<1> QED  BY <1>3, <1>4, <1>5 DEF Queue, r

\* Where the messages that ask are when the head is taken.
LEMMA AsksPopped ==
  ASSUME NEW q \in Seq(Message), q # <<>>
  PROVE  /\ Tail(q) \in Seq(Message) /\ 1 \in 1..Len(q)
         /\ \A n \in 1..Len(Tail(q)) :
              n + 1 \in 1..Len(q) /\ 1 < n + 1 /\ Tail(q)[n] = q[n + 1]
              /\ (Asks(Tail(q), n) <=> Asks(q, n + 1))
         /\ \A m, n \in 1..Len(Tail(q)) : m < n => m + 1 < n + 1
         /\ \A k : InQueue(q, k) => InQueue(Tail(q), k) \/ (Asks(q, 1) /\ q[1].push = k)
<1>1. ASSUME NEW k, NEW n \in 1..Len(q), Asks(q, n), q[n].push = k, n # 1
      PROVE  InQueue(Tail(q), k)
  <2>1. n - 1 \in 1..Len(Tail(q)) /\ Tail(q)[n - 1] = q[n]
    BY <1>1, Popped
  <2> QED  BY <1>1, <2>1 DEF InQueue, Asks
<1>2. \A k : InQueue(q, k) => InQueue(Tail(q), k) \/ (Asks(q, 1) /\ q[1].push = k)
  BY <1>1 DEF InQueue
<1> QED  BY <1>2, Popped DEF Asks

\* The rest of a queue is in order; what it lacks is the head.
LEMMA RestInOrder ==
  ASSUME NEW q \in Seq(Message), q # <<>>, NEW ses, NEW ans, NEW slot, NEW ask,
         Queue(q, ses, ans, slot, ask)
  PROVE  /\ NewInQueue(Tail(q), ses, ans, slot, ask) /\ LastIsWaited(Tail(q), ses)
         /\ Asks(q, 1) => \A n \in 1..Len(Tail(q)) : Asks(Tail(q), n) =>
              Tail(q)[n].push # q[1].push /\ ses[q[1].push] # "authorizing"
<1>1. NewInQueue(Tail(q), ses, ans, slot, ask)
  BY AsksPopped DEF Queue, NewInQueue
<1>2. LastIsWaited(Tail(q), ses)
  BY AsksPopped DEF Queue, LastIsWaited
<1>3. Asks(q, 1) => \A n \in 1..Len(Tail(q)) : Asks(Tail(q), n) =>
              Tail(q)[n].push # q[1].push /\ ses[q[1].push] # "authorizing"
  BY AsksPopped DEF Queue, LastIsWaited
<1> QED  BY <1>1, <1>2, <1>3

LEMMA QueuePopped ==
  ASSUME NEW q \in Seq(Message), q # <<>>, ~Asks(q, 1), NEW ses, NEW ans, NEW slot, NEW ask,
         Queue(q, ses, ans, slot, ask)
  PROVE  Queue(Tail(q), ses, ans, slot, ask)
<1>1. WaitedIsKnown(Tail(q), ses, ans, slot)
  BY AsksPopped DEF Queue, WaitedIsKnown
<1> QED  BY <1>1, RestInOrder DEF Queue

\* Sessions that come no closer to a question.
Recedes(ses, new) ==
  \A k \in Push : /\ new[k] \in Early => ses[k] \in Early
                  /\ new[k] = "authorizing" => ses[k] = "authorizing"

LEMMA QueueReceded ==
  ASSUME NEW q \in Seq(Message), NEW ses, NEW ans, NEW slot, NEW ask, NEW new, NEW fewer,
         Queue(q, ses, ans, slot, ask), Recedes(ses, new), fewer \subseteq ask
  PROVE  Queue(q, new, ans, slot, fewer)
<1>1. \A n \in 1..Len(q) : q[n].push \in Push
  <2>1. \A n \in 1..Len(q) : q[n] \in Message
    OBVIOUS
  <2> QED  BY <2>1 DEF Message
<1>2. NewInQueue(q, new, ans, slot, fewer)
  BY <1>1 DEF Queue, NewInQueue, Recedes
<1>3. LastIsWaited(q, new)
  BY <1>1 DEF Queue, LastIsWaited, Recedes
<1>4. WaitedIsKnown(q, new, ans, slot)
  BY DEF Queue, WaitedIsKnown, Recedes
<1> QED  BY <1>2, <1>3, <1>4 DEF Queue

(***************************************************************************)
(* Steps after which obexd waits for no other push.  q is what is left of  *)
(* the queue, s what comes to it.                                          *)
(***************************************************************************)

LEMMA RecedingKeeps ==
  ASSUME IInv, NEW q \in Seq(Message), Queue(q, session, answers, reply_context, asked),
         NEW s, Quiet(s), inbox' = q \o s,
         session' \in [Push -> SessionState], Recedes(session, session'),
         UNCHANGED <<answers, reply_context, careful>>,
         asked' \subseteq asked, careful /\ auto_authorize' => auto_authorize \/ asked' = {}
  PROVE  IInv'
<1>1. inbox' \in Seq(Message)
  BY AsksJoined
<1>2. Others'
  BY <1>1 DEF IInv, Others, Typed, OneAuthorizing, EarlyIsUntouched, CarefulHasOne, Recedes
<1>3. Queue(q, session', answers, reply_context, asked')
  BY QueueReceded
<1>4. Queue(inbox', session', answers', reply_context', asked')
  BY <1>3, QueueJoined
<1> QED  BY <1>2, <1>4 DEF IInv

LEMMA EndsReceding ==
  ASSUME session \in [Push -> SessionState], NEW K \in SUBSET Push,
         NEW rest \in Seq(Message), Ends(K, rest), MaxPushes \in Nat
  PROVE  /\ session' \in [Push -> SessionState] /\ Recedes(session, session')
         /\ \A k \in K : session'[k] = "over"
         /\ \E s : Quiet(s) /\ inbox' = rest \o s
<1> DEFINE S == {k \in K : session[k] \in {"authorizing", "sending"}}
           had == SetToSeq(S)
           s == [i \in DOMAIN had |-> Msg("COMPLETED", had[i])]
<1>1. session' = [k \in Push |-> IF k \in K THEN "over" ELSE session[k]] /\ inbox' = rest \o s
  BY DEF Ends
<1>2. Cardinality(S) \in Nat /\ had \in [1..Cardinality(S) -> S]
  <2>1. IsFiniteSet(S)
    <3>1. IsFiniteSet(Push)
      BY FS_Interval DEF Push
    <3> QED  BY <3>1, FS_Subset
  <2> QED  BY <2>1, SetToSeqIsSeq
<1>3. Quiet(s)
  <2> DEFINE N == Cardinality(S)
  <2>1. \A i \in 1..N : s[i] = Msg("COMPLETED", had[i]) /\ had[i] \in Push
    BY <1>2
  <2>2. s = [i \in 1..N |-> Msg("COMPLETED", had[i])]
    BY <1>2
  <2> HIDE DEF N, S, had, s
  <2>3. \A i \in 1..N : s[i] \in Message /\ s[i].kind = "COMPLETED"
    <3>1. \A k \in Push : Msg("COMPLETED", k) \in Message /\ Msg("COMPLETED", k).kind = "COMPLETED"
      BY DEF Msg, Message, Kinds
    <3> QED  BY <2>1, <3>1
  <2>4. s \in Seq(Message) /\ Len(s) = N
    BY <1>2, <2>2, <2>3 DEF N
  <2> QED  BY <2>3, <2>4 DEF Quiet, Asks
<1> HIDE DEF s
<1>4. session' \in [Push -> SessionState] /\ \A k \in K : session'[k] = "over"
  BY <1>1 DEF SessionState
<1>5. Recedes(session, session')
  BY <1>1 DEF Recedes, Early
<1> QED  BY <1>1, <1>3, <1>4, <1>5

\* The same with nothing taken from the queue, or nothing put into it.
LEMMA AddsKeeps ==
  ASSUME IInv, NEW s, Quiet(s), inbox' = inbox \o s,
         session' \in [Push -> SessionState], Recedes(session, session'),
         UNCHANGED <<answers, reply_context, careful>>,
         asked' \subseteq asked, careful /\ auto_authorize' => auto_authorize \/ asked' = {}
  PROVE  IInv'
BY RecedingKeeps DEF IInv, Others, Typed

LEMMA StaysKeeps ==
  ASSUME IInv, UNCHANGED inbox,
         session' \in [Push -> SessionState], Recedes(session, session'),
         UNCHANGED <<answers, reply_context, careful>>,
         asked' \subseteq asked, careful /\ auto_authorize' => auto_authorize \/ asked' = {}
  PROVE  IInv'
<1>1. inbox \in Seq(Message) /\ Quiet(<<>>)
  BY DEF IInv, Others, Typed, Quiet
<1>2. inbox' = inbox \o <<>>
  BY <1>1
<1> QED  BY <1>1, <1>2, AddsKeeps

LEMMA UnmovedRecedes == session \in [Push -> SessionState] => Recedes(session, session)
BY DEF Recedes

LEMMA EndsKeeps ==
  ASSUME IInv, NEW K \in SUBSET Push, Ends(K, inbox),
         UNCHANGED <<answers, reply_context, careful, auto_authorize, asked>>
  PROVE  IInv'
<1>1. session \in [Push -> SessionState] /\ inbox \in Seq(Message) /\ MaxPushes \in Nat
  BY ObexServerAssumption DEF IInv, Others, Typed
<1>2. PICK s : Quiet(s) /\ inbox' = inbox \o s
  BY <1>1, EndsReceding
<1>3. session' \in [Push -> SessionState] /\ Recedes(session, session')
  BY <1>1, EndsReceding
<1> QED  BY <1>2, <1>3, AddsKeeps

\* One message that is no question, and one session that comes no closer to one.
LEMMA OneKeeps ==
  ASSUME IInv, NEW kind \in Kinds \ {"AUTHORIZE"}, NEW k \in Push, inbox' = Append(inbox, Msg(kind, k)),
         session' \in [Push -> SessionState], Recedes(session, session'),
         UNCHANGED <<answers, reply_context, careful, auto_authorize, asked>>
  PROVE  IInv'
<1>1. inbox \in Seq(Message)
  BY DEF IInv, Others, Typed
<1> QED  BY <1>1, OneQuiet, AddsKeeps

(***************************************************************************)
(* The world.                                                              *)
(***************************************************************************)

LEMMA ConnectKeeps == ASSUME IInv, NEW k \in Push, Connect(k) PROVE IInv'
<1>1. session \in [Push -> SessionState]
  BY DEF IInv, Others, Typed
<1>2. UNCHANGED <<answers, reply_context, careful, auto_authorize, asked>>
  BY DEF Connect, libVars, slotVars, appVars
<1>3. session' \in [Push -> SessionState] /\ Recedes(session, session')
  BY <1>1 DEF Connect, SessionState, Recedes, Early
<1>4. CASE inbox' = Append(inbox, Msg("CONNECTION", k))
  BY <1>2, <1>3, <1>4, OneKeeps DEF Kinds
<1>5. CASE UNCHANGED inbox
  BY <1>2, <1>3, <1>5, StaysKeeps
<1> QED  BY <1>4, <1>5 DEF Connect

LEMMA OtherTransferKeeps == ASSUME IInv, NEW k \in Push, OtherTransfer(k) PROVE IInv'
<1>1. session \in [Push -> SessionState]
  BY DEF IInv, Others, Typed
<1>2. UNCHANGED <<answers, reply_context, careful, auto_authorize, asked>>
  BY DEF OtherTransfer, libVars, slotVars, appVars
<1>3. session' \in [Push -> SessionState] /\ Recedes(session, session')
  BY <1>1 DEF OtherTransfer, SessionState, Recedes, Early
<1> QED  BY <1>2, <1>3, OneKeeps DEF Kinds, OtherTransfer

LEMMA NextFileKeeps == ASSUME IInv, NEW j \in Push, NEW k \in Push, NextFile(j, k) PROVE IInv'
<1>1. session \in [Push -> SessionState]
  BY DEF IInv, Others, Typed
<1>2. UNCHANGED <<answers, reply_context, careful, auto_authorize, asked>>
  BY DEF NextFile, libVars, slotVars, appVars
<1>3. session' \in [Push -> SessionState] /\ Recedes(session, session')
  BY <1>1 DEF NextFile, SessionState, Recedes, Early
<1> QED  BY <1>2, <1>3, OneKeeps DEF Kinds, NextFile

LEMMA EndingKeeps ==
  ASSUME IInv, AdapterGoes \/ AdapterAppears \/ \E k \in Push : SessionEnds(k) PROVE IInv'
<1>1. Live \subseteq Push
  BY DEF Live
<1>2. CASE AdapterGoes
  BY <1>1, <1>2, EndsKeeps DEF AdapterGoes, libVars, slotVars, appVars
<1>3. CASE AdapterAppears
  <2>1. UNCHANGED <<answers, reply_context, careful, auto_authorize, asked, session, inbox>>
    BY <1>3 DEF AdapterAppears, libVars, slotVars, appVars
  <2> QED  BY <2>1, StaysKeeps, UnmovedRecedes DEF IInv, Others, Typed
<1>4. ASSUME NEW k \in Push, SessionEnds(k) PROVE IInv'
  <2>1. Ends({k}, inbox) /\ UNCHANGED <<answers, reply_context, careful, auto_authorize, asked>>
    BY <1>4 DEF SessionEnds, libVars, slotVars, appVars
  <2> QED  BY <2>1, EndsKeeps
<1> QED  BY <1>2, <1>3, <1>4

\* The one step that brings a push that is waited for: none is when obexd asks.
LEMMA AuthorizeKeeps == ASSUME IInv, NEW k \in Push, Authorize(k) PROVE IInv'
<1> DEFINE q == Append(inbox, Msg("AUTHORIZE", k))
<1>1. /\ session[k] = "connected" /\ \A j \in Push : session[j] # "authorizing"
      /\ session' = [session EXCEPT ![k] = "authorizing"] /\ inbox' = q
      /\ UNCHANGED <<answers, reply_context, careful, auto_authorize, asked>>
  BY DEF Authorize, libVars, slotVars, appVars
<1>2. Typed /\ inbox \in Seq(Message)
  BY DEF IInv, Others, Typed
<1>3. Msg("AUTHORIZE", k) \in Message /\ Msg("AUTHORIZE", k).kind = "AUTHORIZE"
      /\ Msg("AUTHORIZE", k).push = k
  BY DEF Msg, Message, Kinds
<1>4. /\ q \in Seq(Message) /\ Len(inbox) \in Nat /\ Len(q) = Len(inbox) + 1
      /\ \A n \in 1..Len(inbox) : q[n] = inbox[n]
      /\ q[Len(q)] = Msg("AUTHORIZE", k)
  BY <1>2, <1>3
<1>5. Others'
  BY <1>1, <1>2, <1>4
  DEF IInv, Others, Typed, OneAuthorizing, EarlyIsUntouched, CarefulHasOne, SessionState, Early
<1>6. \A n \in 1..Len(q) : \/ n = Len(q) /\ q[n].push = k /\ Asks(q, n)
                           \/ n \in 1..Len(inbox) /\ q[n] = inbox[n] /\ (Asks(q, n) <=> Asks(inbox, n))
  BY <1>3, <1>4 DEF Asks
<1>7. \A n \in 1..Len(inbox) : inbox[n].push \in Push /\ (Asks(inbox, n) => inbox[n].push # k)
  <2>1. \A n \in 1..Len(inbox) : inbox[n] \in Message
    BY <1>2
  <2> QED  BY <1>1, <2>1 DEF Message, IInv, Queue, NewInQueue, Early
<1>8. Len(q) \in 1..Len(q)
  BY <1>4
<1> HIDE DEF q
<1>9. NewInQueue(q, session', answers, reply_context, asked)
  <2>1. session'[k] \notin Early /\ answers[k] = 0 /\ reply_context # k /\ k \notin asked
    BY <1>1, <1>2 DEF IInv, Others, EarlyIsUntouched, Early, Typed
  <2>2. \A j \in Push : j # k => session'[j] = session[j]
    BY <1>1, <1>2 DEF Typed
  <2> QED  BY <1>6, <1>7, <2>1, <2>2 DEF IInv, Queue, NewInQueue
<1>10. LastIsWaited(q, session')
  <2>1. \A j \in Push : j # k => session'[j] # "authorizing"
    BY <1>1, <1>2 DEF Typed
  <2>2. \A m, n \in 1..Len(q) : m < n => m # Len(q)
    BY <1>4
  <2> QED  BY <1>6, <1>7, <2>1, <2>2 DEF IInv, Queue, LastIsWaited
<1>11. WaitedIsKnown(q, session', answers, reply_context)
  <2>1. \A j \in Push : session'[j] = "authorizing" => j = k
    BY <1>1, <1>2 DEF Typed
  <2>2. InQueue(q, k)
    BY <1>6, <1>8, <1>4 DEF InQueue
  <2> QED  BY <2>1, <2>2 DEF WaitedIsKnown
<1> QED  BY <1>1, <1>5, <1>9, <1>10, <1>11 DEF IInv, Queue

(***************************************************************************)
(* Answers.                                                                *)
(***************************************************************************)

\* The push in the slot is answered.
LEMMA ReplyQueue ==
  ASSUME session \in [Push -> SessionState], answers \in [Push -> Nat], MaxPushes \in Nat,
         NEW r \in Push, NEW accept, NEW q \in Seq(Message), NEW ask,
         Queue(q, session, answers, r, ask), Reply(r, accept, q)
  PROVE  /\ session' \in [Push -> SessionState] /\ Recedes(session, session')
         /\ answers' \in [Push -> Nat] /\ \A j \in Push : j # r => answers'[j] = answers[j]
         /\ inbox' \in Seq(Message) /\ Queue(inbox', session', answers', r, ask)
<1>1. answers' \in [Push -> Nat] /\ \A j \in Push : j # r => answers'[j] = answers[j]
  BY DEF Reply
<1>2. /\ session' \in [Push -> SessionState] /\ Recedes(session, session')
      /\ session'[r] # "authorizing" /\ \E s : Quiet(s) /\ inbox' = q \o s
  <2>1. CASE session[r] = "authorizing" /\ accept
    <3>1. session' = [session EXCEPT ![r] = "sending"] /\ inbox' = Append(q, Msg("STARTED", r))
      BY <2>1 DEF Reply
    <3> QED  BY <3>1, OneQuiet DEF Recedes, Early, SessionState, Kinds
  <2>2. CASE session[r] = "authorizing" /\ ~accept
    <3>1. Ends({r}, q)
      BY <2>2 DEF Reply
    <3> QED  BY <3>1, EndsReceding
  <2>3. CASE session[r] # "authorizing"
    <3>1. inbox' = q \o <<>> /\ UNCHANGED session /\ Quiet(<<>>)
      BY <2>3 DEF Reply, Quiet
    <3> QED  BY <2>3, <3>1, UnmovedRecedes
  <2> QED  BY <2>1, <2>2, <2>3
<1>3. Queue(q, session', answers, r, ask)
  BY <1>2, QueueReceded
<1>4. NewInQueue(q, session', answers', r, ask)
  <2>1. \A n \in 1..Len(q) : q[n].push \in Push
    <3>1. \A n \in 1..Len(q) : q[n] \in Message
      OBVIOUS
    <3> QED  BY <3>1 DEF Message
  <2> QED  BY <1>1, <1>3, <2>1 DEF Queue, NewInQueue
<1>5. WaitedIsKnown(q, session', answers', r)
  BY <1>2, <1>3 DEF Queue, WaitedIsKnown
<1>6. Queue(q, session', answers', r, ask)
  BY <1>3, <1>4, <1>5 DEF Queue
<1> QED  BY <1>1, <1>2, <1>6, QueueJoined, AsksJoined

LEMMA ReplyAuthorizeKeeps ==
  ASSUME IInv, NEW k \in Push, NEW accept, reply_authorize(k, accept) PROVE IInv'
<1>1. /\ k \in asked /\ asked' = asked \ {k}
      /\ Reply(reply_context, accept, inbox) /\ UNCHANGED <<reply_context, careful, auto_authorize>>
  BY DEF reply_authorize
<1>2. Typed /\ reply_context \in Push /\ MaxPushes \in Nat
  BY <1>1, ObexServerAssumption DEF IInv, Others, Typed
<1>3. Queue(inbox, session, answers, reply_context, asked)
  BY DEF IInv
<1>4. /\ session' \in [Push -> SessionState] /\ Recedes(session, session')
      /\ answers' \in [Push -> Nat]
      /\ \A j \in Push : j # reply_context => answers'[j] = answers[j]
      /\ inbox' \in Seq(Message) /\ Queue(inbox', session', answers', reply_context, asked)
  BY <1>1, <1>2, <1>3, ReplyQueue DEF Typed
<1>5. Queue(inbox', session', answers', reply_context', asked')
  BY <1>1, <1>4, QueueReceded, UnmovedRecedes DEF Recedes
<1>6. Typed' /\ OneAuthorizing'
  BY <1>1, <1>2, <1>4 DEF IInv, Others, Typed, OneAuthorizing, Recedes
<1>7. EarlyIsUntouched'
  BY <1>1, <1>4 DEF IInv, Others, EarlyIsUntouched, Recedes
<1>8. CarefulHasOne'
  BY <1>1 DEF IInv, Others, CarefulHasOne
<1> QED  BY <1>5, <1>6, <1>7, <1>8 DEF IInv, Others

LEMMA RegistrationKeeps ==
  ASSUME IInv, \/ \E filter \in BOOLEAN : bluetooth_obex_server_init(filter)
               \/ bluetooth_obex_server_deinit \/ accept_connection_timeout
  PROVE  IInv'
<1>1. UNCHANGED <<answers, reply_context, careful, auto_authorize, session, inbox>> /\ asked' \subseteq asked
  BY DEF bluetooth_obex_server_init, bluetooth_obex_server_deinit, accept_connection_timeout,
     slotVars, appVars
<1> QED  BY <1>1, StaysKeeps, UnmovedRecedes DEF IInv, Others, Typed

\* A device that is let in or not: it comes no closer to a question than "connected".
LEMMA AnsweredRecedes ==
  ASSUME session \in [Push -> SessionState], NEW k, NEW state \in {"connected", "over"},
         Answered(k, state)
  PROVE  session' \in [Push -> SessionState] /\ Recedes(session, session')
BY DEF Answered, SessionState, Recedes, Early

LEMMA ConnectionKeeps ==
  ASSUME IInv, NEW k \in Push,
         bluetooth_obex_server_accept_connection(k) \/ bluetooth_obex_server_reject_connection(k)
  PROVE  IInv'
<1>1. session \in [Push -> SessionState]
  BY DEF IInv, Others, Typed
<1>2. CASE bluetooth_obex_server_accept_connection(k)
  <2>1. Answered(k, "connected")
    BY <1>2 DEF bluetooth_obex_server_accept_connection
  <2>2. UNCHANGED <<answers, reply_context, careful, inbox>>
    BY <1>2 DEF bluetooth_obex_server_accept_connection, slotVars
  <2>3. asked' \subseteq asked /\ (careful /\ auto_authorize' => auto_authorize \/ asked' = {})
    BY <1>2 DEF bluetooth_obex_server_accept_connection
  <2> QED  BY <1>1, <2>1, <2>2, <2>3, AnsweredRecedes, StaysKeeps
<1>3. CASE bluetooth_obex_server_reject_connection(k)
  <2>1. Answered(k, "over") /\ UNCHANGED <<answers, reply_context, careful, inbox, asked, auto_authorize>>
    BY <1>3 DEF bluetooth_obex_server_reject_connection, libVars, slotVars
  <2> QED  BY <1>1, <2>1, AnsweredRecedes, StaysKeeps
<1> QED  BY <1>2, <1>3

LEMMA CancelKeeps == ASSUME IInv, NEW K, cancel_transfers(K) PROVE IInv'
<1>1. K \cap Live \in SUBSET Push
  BY DEF Live
<1>2. Ends(K \cap Live, inbox) /\ UNCHANGED <<answers, reply_context, careful, auto_authorize, asked>>
  BY DEF cancel_transfers, libVars, slotVars, appVars
<1> QED  BY <1>1, <1>2, EndsKeeps

LEMMA ApplicationKeeps == ASSUME IInv, Application PROVE IInv'
BY RegistrationKeeps, ReplyAuthorizeKeeps, ConnectionKeeps, CancelKeeps DEF Application

(***************************************************************************)
(* The main loop.                                                          *)
(***************************************************************************)

\* The question at the head is put to the application, or answered.
LEMMA AskedQueue ==
  ASSUME IInv, inbox # <<>>, NEW k, Asks(inbox, 1), inbox[1].push = k
  PROVE  /\ k \in Push /\ answers[k] = 0 /\ reply_context # k /\ k \notin asked
         /\ session[k] \notin Early /\ Tail(inbox) \in Seq(Message)
         /\ Queue(Tail(inbox), session, answers, k, asked \cup {k})
<1>1. inbox \in Seq(Message) /\ Queue(inbox, session, answers, reply_context, asked)
  BY DEF IInv, Others, Typed
<1>2. 1 \in 1..Len(inbox) /\ inbox[1] \in Message /\ Tail(inbox) \in Seq(Message)
  BY <1>1, Popped
<1>3. /\ k \in Push /\ answers[k] = 0 /\ reply_context # k /\ k \notin asked
      /\ session[k] \notin Early
  BY <1>1, <1>2 DEF Queue, NewInQueue, Message
<1> DEFINE q == Tail(inbox)
<1>4. /\ NewInQueue(q, session, answers, reply_context, asked) /\ LastIsWaited(q, session)
      /\ \A n \in 1..Len(q) : Asks(q, n) => q[n].push # k /\ session[k] # "authorizing"
  BY <1>1, RestInOrder
<1>5. \A j : InQueue(inbox, j) => InQueue(q, j) \/ j = k
  BY <1>1, AsksPopped
<1> HIDE DEF q
<1>6. NewInQueue(q, session, answers, k, asked \cup {k})
  BY <1>4 DEF NewInQueue
<1>7. WaitedIsKnown(q, session, answers, k)
  BY <1>1, <1>2, <1>3, <1>4, <1>5 DEF Queue, WaitedIsKnown
<1> QED  BY <1>2, <1>3, <1>4, <1>6, <1>7 DEF Queue, q

LEMMA AuthorizeCallbackKeeps ==
  ASSUME IInv, inbox # <<>>, NEW k, Asks(inbox, 1), inbox[1].push = k,
         authorize_callback(k, Tail(inbox))
  PROVE  IInv'
<1> DEFINE q == Tail(inbox)
<1>1. /\ k \in Push /\ answers[k] = 0 /\ reply_context # k /\ k \notin asked
      /\ session[k] \notin Early /\ q \in Seq(Message)
      /\ Queue(q, session, answers, k, asked \cup {k})
  BY AskedQueue
<1>2. reply_context' = k /\ UNCHANGED <<auto_authorize, careful>> /\ Typed /\ MaxPushes \in Nat
  BY ObexServerAssumption DEF authorize_callback, IInv, Others
<1>3. CASE auto_authorize /\ enabled
  <2>1. Reply(k, TRUE, q) /\ UNCHANGED asked
    BY <1>3 DEF authorize_callback
  <2> HIDE DEF q
  <2>2. /\ session' \in [Push -> SessionState] /\ Recedes(session, session')
        /\ answers' \in [Push -> Nat] /\ \A j \in Push : j # k => answers'[j] = answers[j]
        /\ inbox' \in Seq(Message) /\ Queue(inbox', session', answers', k, asked \cup {k})
    BY <1>1, <1>2, <2>1, ReplyQueue DEF Typed
  <2>3. Queue(inbox', session', answers', reply_context', asked')
    BY <1>2, <2>1, <2>2, QueueReceded, UnmovedRecedes DEF Recedes
  <2>4. Others'
    BY <1>1, <1>2, <1>3, <2>1, <2>2
    DEF IInv, Others, Typed, OneAuthorizing, EarlyIsUntouched, CarefulHasOne, Recedes
  <2> QED  BY <2>3, <2>4 DEF IInv
<1>4. CASE ~(auto_authorize /\ enabled)
  <2>1. /\ UNCHANGED <<session, answers>> /\ inbox' = q /\ asked' \subseteq asked \cup {k}
        /\ auto_authorize => UNCHANGED asked
        /\ careful /\ ~auto_authorize => asked' = {k}
    BY <1>4 DEF authorize_callback
  <2> HIDE DEF q
  <2>2. Queue(inbox', session', answers', reply_context', asked')
    BY <1>1, <1>2, <2>1, QueueReceded, UnmovedRecedes DEF Typed
  <2>3. Others'
    BY <1>1, <1>2, <2>1
    DEF IInv, Others, Typed, OneAuthorizing, EarlyIsUntouched, CarefulHasOne
  <2> QED  BY <2>2, <2>3 DEF IInv
<1> QED  BY <1>3, <1>4

\* What is not heard: a question ends in an error, so that obexd waits for it no more.
LEMMA UnheardKeeps ==
  ASSUME IInv, inbox # <<>>, Unheard(Head(inbox), Tail(inbox)) PROVE IInv'
<1> DEFINE m == Head(inbox)
           q == Tail(inbox)
<1>1. inbox \in Seq(Message) /\ Typed /\ MaxPushes \in Nat
  BY ObexServerAssumption DEF IInv, Others, Typed
<1>2. m \in Message /\ m = inbox[1] /\ q \in Seq(Message)
  BY <1>1, Popped
<1>3. UNCHANGED <<answers, reply_context, careful, auto_authorize, asked>>
  BY DEF Unheard, libVars, slotVars, appVars
<1>4. CASE Asks(inbox, 1)
  <2> DEFINE k == m.push
  <2>1. Ends({k} \cap Live, q)
    BY <1>2, <1>4 DEF Unheard, Asks
  <2>2. /\ k \in Push /\ session[k] \notin Early
        /\ Queue(q, session, answers, k, asked \cup {k})
    BY <1>2, <1>4, AskedQueue
  <2> HIDE DEF m, q, k
  <2>3. {k} \cap Live \in SUBSET Push
    BY <2>2
  <2>4. /\ session' \in [Push -> SessionState] /\ Recedes(session, session')
        /\ \A j \in {k} \cap Live : session'[j] = "over"
        /\ \E s : Quiet(s) /\ inbox' = q \o s
    BY <1>1, <1>2, <2>1, <2>3, EndsReceding DEF Typed
  <2>5. session'[k] # "authorizing"
    <3>1. session[k] = "authorizing" => k \in Live
      BY <2>2 DEF Live
    <3> QED  BY <2>2, <2>4, <3>1 DEF Recedes
  <2>6. Queue(q, session', answers, reply_context, asked)
    <3>1. NewInQueue(q, session, answers, reply_context, asked) /\ LastIsWaited(q, session)
          /\ \A j \in Push : InQueue(inbox, j) => InQueue(q, j) \/ j = k
      BY <1>1, <1>2, AsksPopped, RestInOrder DEF IInv, q, k
    <3>2. \A n \in 1..Len(q) : q[n].push \in Push
      <4>1. \A n \in 1..Len(q) : q[n] \in Message
        BY <1>2
      <4> QED  BY <4>1 DEF Message
    <3>3. NewInQueue(q, session', answers, reply_context, asked)
      BY <2>4, <3>1, <3>2 DEF NewInQueue, Recedes
    <3>4. LastIsWaited(q, session')
      BY <2>4, <3>1, <3>2 DEF LastIsWaited, Recedes
    <3>5. WaitedIsKnown(q, session', answers, reply_context)
      <4>1. 1 \in 1..Len(inbox)
        BY <1>1, Popped
      <4> QED  BY <1>4, <2>4, <2>5, <3>1, <4>1 DEF IInv, Queue, WaitedIsKnown, Recedes
    <3> QED  BY <3>3, <3>4, <3>5 DEF Queue
  <2>7. PICK s : Quiet(s) /\ inbox' = q \o s
    BY <2>4
  <2>8. Queue(inbox', session', answers', reply_context', asked')
    BY <1>2, <1>3, <2>6, <2>7, QueueJoined
  <2>9. Others'
    <3>1. inbox' \in Seq(Message)
      BY <1>2, <2>7, AsksJoined
    <3> QED
      BY <1>3, <2>4, <3>1
      DEF IInv, Others, Typed, OneAuthorizing, EarlyIsUntouched, CarefulHasOne, Recedes
  <2> QED  BY <2>8, <2>9 DEF IInv
<1>5. CASE ~Asks(inbox, 1)
  <2>1. inbox' = q \o <<>> /\ UNCHANGED session /\ Quiet(<<>>)
    BY <1>2, <1>5 DEF Unheard, Asks, Quiet
  <2>2. Queue(q, session, answers, reply_context, asked)
    BY <1>1, <1>5, QueuePopped DEF IInv
  <2> HIDE DEF m, q
  <2> QED  BY <1>1, <1>2, <1>3, <2>1, <2>2, RecedingKeeps, UnmovedRecedes DEF Typed
<1> QED  BY <1>4, <1>5

LEMMA HeardKeeps ==
  ASSUME IInv, inbox # <<>>, NEW k, ~Asks(inbox, 1),
         \/ obex_authorize_event_filter(k, Tail(inbox))
         \/ transfer_started_cb(k, Tail(inbox)) \/ transfer_completed_cb(k, Tail(inbox))
  PROVE  IInv'
<1> DEFINE q == Tail(inbox)
<1>1. inbox \in Seq(Message) /\ Typed
  BY DEF IInv, Others, Typed
<1>2. q \in Seq(Message) /\ Queue(q, session, answers, reply_context, asked)
  BY <1>1, Popped, QueuePopped DEF IInv
<1>3. /\ inbox' = q /\ UNCHANGED <<session, answers, reply_context, careful, asked>>
      /\ auto_authorize' => auto_authorize
  BY DEF obex_authorize_event_filter, transfer_started_cb, transfer_completed_cb, libVars,
     slotVars, appVars
<1>4. Quiet(<<>>) /\ q \o <<>> = q
  BY <1>2 DEF Quiet
<1> HIDE DEF q
<1> QED  BY <1>1, <1>2, <1>3, <1>4, RecedingKeeps, UnmovedRecedes DEF Typed

LEMMA DispatchKeeps == ASSUME IInv, Dispatch PROVE IInv'
<1>1. inbox # <<>> /\ Head(inbox) = inbox[1]
  BY Popped DEF Dispatch, IInv, Others, Typed
<1>2. CASE Unheard(Head(inbox), Tail(inbox))
  BY <1>1, <1>2, UnheardKeeps
<1>3. CASE Asks(inbox, 1) /\ authorize_callback(Head(inbox).push, Tail(inbox))
  BY <1>1, <1>3, AuthorizeCallbackKeeps
<1>4. CASE /\ ~Asks(inbox, 1)
           /\ \/ obex_authorize_event_filter(Head(inbox).push, Tail(inbox))
              \/ transfer_started_cb(Head(inbox).push, Tail(inbox))
              \/ transfer_completed_cb(Head(inbox).push, Tail(inbox))
  BY <1>1, <1>4, HeardKeeps
<1> QED  BY <1>1, <1>2, <1>3, <1>4 DEF Dispatch, Asks

LEMMA NextInv == IInv /\ [Next]_vars => IInv'
<1> SUFFICES ASSUME IInv, [Next]_vars PROVE IInv'
  OBVIOUS
<1>1. CASE World
  BY <1>1, ConnectKeeps, AuthorizeKeeps, OtherTransferKeeps, NextFileKeeps, EndingKeeps DEF World
<1>2. CASE UNCHANGED vars
  <2>1. UNCHANGED <<answers, reply_context, careful, auto_authorize, asked, session, inbox>>
    BY <1>2 DEF vars, libVars, slotVars, appVars
  <2> QED  BY <2>1, StaysKeeps, UnmovedRecedes DEF IInv, Others, Typed
<1> QED  BY <1>1, <1>2, ApplicationKeeps, DispatchKeeps DEF Next

\* The answer to a push obexd waits for goes to that push, and no call of a careful
\* application, one that answers only the last question, is answered twice.
THEOREM AnswersAlwaysReachTheirPush == Spec => []AnswersReachTheirPush
<1> QED  BY InitInv, NextInv, InvIsProperty, PTL DEF Spec

(***************************************************************************)
(* Pushes let in without a question.                                       *)
(***************************************************************************)

\* The next message that bears on it resets auto_authorize.
Clears(q, path) ==
  \E n \in 1..Len(q) : /\ q[n].kind = "STARTED" /\ q[n].push = path
                       /\ \A m \in 1..n : ~Asks(q, m)

\* While auto_authorize is set there is a permission left, or it is about to be reset.
PermissionInv ==
  /\ unasked \subseteq Push /\ inits \in Nat /\ permits \in Nat
  /\ inits = 0 => /\ ~obex_server_agent /\ ~system_bus /\ ~auto_authorize
                  /\ knocking = {} /\ unasked = {}
  /\ careful /\ inits = 1 =>
       /\ Cardinality(unasked) <= permits
       /\ obex_server_agent /\ auto_authorize =>
            Cardinality(unasked) < permits \/ Clears(inbox, transfer_path)

LEMMA ClearsJoined ==
  ASSUME NEW q \in Seq(Message), NEW s \in Seq(Message), NEW path, Clears(q, path)
  PROVE  Clears(q \o s, path)
<1>1. PICK n \in 1..Len(q) : /\ q[n].kind = "STARTED" /\ q[n].push = path
                             /\ \A m \in 1..n : ~Asks(q, m)
  BY DEF Clears
<1>2. n \in 1..Len(q \o s) /\ \A m \in 1..n : m \in 1..Len(q) /\ (q \o s)[m] = q[m]
  BY Joined
<1>3. n \in 1..n
  OBVIOUS
<1> QED  BY <1>1, <1>2, <1>3 DEF Clears, Asks

LEMMA ClearsPopped ==
  ASSUME NEW q \in Seq(Message), q # <<>>, NEW path, Clears(q, path)
  PROVE  /\ ~Asks(q, 1)
         /\ Clears(Tail(q), path) \/ (q[1].kind = "STARTED" /\ q[1].push = path)
<1>1. PICK n \in 1..Len(q) : /\ q[n].kind = "STARTED" /\ q[n].push = path
                             /\ \A m \in 1..n : ~Asks(q, m)
  BY DEF Clears
<1>2. 1 \in 1..n
  OBVIOUS
<1>3. ASSUME n # 1 PROVE Clears(Tail(q), path)
  <2>1. n - 1 \in 1..Len(Tail(q)) /\ Tail(q)[n - 1] = q[n]
    BY <1>3, Popped
  <2>2. \A m \in 1..(n - 1) : m \in 1..Len(Tail(q)) /\ m + 1 \in 1..n /\ Tail(q)[m] = q[m + 1]
    BY Popped
  <2> QED  BY <1>1, <2>1, <2>2 DEF Clears, Asks
<1> QED  BY <1>1, <1>2, <1>3

LEMMA ClearsAppended ==
  ASSUME NEW q \in Seq(Message), NEW k \in Push, \A n \in 1..Len(q) : ~Asks(q, n)
  PROVE  Clears(Append(q, Msg("STARTED", k)), k)
<1> DEFINE r == Append(q, Msg("STARTED", k))
<1>1. /\ Len(q) \in Nat /\ Len(r) = Len(q) + 1 /\ r[Len(r)] = Msg("STARTED", k)
      /\ \A n \in 1..Len(q) : r[n] = q[n]
  OBVIOUS
<1>2. Msg("STARTED", k).kind = "STARTED" /\ Msg("STARTED", k).push = k
  BY DEF Msg
<1> HIDE DEF r
<1>3. \A m \in 1..Len(r) : m \in 1..Len(q) \/ m = Len(r)
  BY <1>1
<1>4. \A m \in 1..Len(r) : ~Asks(r, m)
  BY <1>1, <1>2, <1>3 DEF Asks
<1>5. Len(r) \in 1..Len(r)
  BY <1>1
<1>6. Clears(r, k)
  BY <1>1, <1>2, <1>4, <1>5 DEF Clears
<1> QED  BY <1>6 DEF r

LEMMA SmallUnasked == PermissionInv => IsFiniteSet(unasked) /\ Cardinality(unasked) \in Nat
<1>1. IsFiniteSet(Push)
  BY FS_Interval, ObexServerAssumption DEF Push
<1> QED  BY <1>1, FS_Subset, FS_CardinalityType DEF PermissionInv

LEMMA PermissionInit == Init => PermissionInv
BY FS_EmptySet DEF Init, PermissionInv

\* Messages only come to the queue.
Grows == \E s \in Seq(Message) : inbox' = inbox \o s

LEMMA EndsGrows == ASSUME IInv, NEW K \in SUBSET Push, Ends(K, inbox) PROVE Grows
BY EndsReceding, ObexServerAssumption DEF IInv, Others, Typed, Grows, Quiet

LEMMA AppendGrows ==
  ASSUME IInv, NEW kind \in Kinds, NEW k \in Push, inbox' = Append(inbox, Msg(kind, k))
  PROVE  Grows
<1>1. inbox \in Seq(Message) /\ Msg(kind, k) \in Message
  BY DEF IInv, Others, Typed, Msg, Message
<1>2. inbox' = inbox \o <<Msg(kind, k)>> /\ <<Msg(kind, k)>> \in Seq(Message)
  BY <1>1
<1> QED  BY <1>2 DEF Grows

LEMMA SameGrows == ASSUME IInv, UNCHANGED inbox PROVE Grows
<1>1. inbox' = inbox \o <<>> /\ <<>> \in Seq(Message)
  BY DEF IInv, Others, Typed
<1> QED  BY <1>1 DEF Grows

LEMMA WorldGrows == ASSUME IInv, World PROVE Grows
<1>1. Live \in SUBSET Push
  BY DEF Live
<1>2. ASSUME NEW k \in Push, Connect(k) PROVE Grows
  BY <1>2, AppendGrows, SameGrows DEF Connect, Kinds
<1>3. ASSUME NEW k \in Push, Authorize(k) \/ OtherTransfer(k) PROVE Grows
  BY <1>3, AppendGrows DEF Authorize, OtherTransfer, Kinds
<1>4. ASSUME NEW j \in Push, NEW k \in Push, NextFile(j, k) PROVE Grows
  BY <1>4, AppendGrows DEF NextFile, Kinds
<1>5. ASSUME NEW k \in Push, SessionEnds(k) PROVE Grows
  BY <1>5, EndsGrows DEF SessionEnds
<1>6. CASE AdapterGoes
  BY <1>1, <1>6, EndsGrows DEF AdapterGoes
<1>7. CASE AdapterAppears
  BY <1>7, SameGrows DEF AdapterAppears
<1> QED  BY <1>2, <1>3, <1>4, <1>5, <1>6, <1>7 DEF World

LEMMA PermissionKept ==
  ASSUME IInv, PermissionInv, Grows,
         UNCHANGED <<careful, inits, permits, unasked, knocking, system_bus,
                     obex_server_agent, auto_authorize, transfer_path>>
  PROVE  PermissionInv'
<1>1. Clears(inbox, transfer_path) => Clears(inbox', transfer_path)
  BY ClearsJoined DEF Grows, IInv, Others, Typed
<1> QED  BY <1>1 DEF PermissionInv

LEMMA PermissionOfApplication == ASSUME IInv, PermissionInv, Application PROVE PermissionInv'
<1>1. ASSUME NEW filter \in BOOLEAN, bluetooth_obex_server_init(filter) PROVE PermissionInv'
  <2>1. /\ inits' = inits + 1 /\ inits \in Nat
        /\ UNCHANGED <<careful, permits, unasked, auto_authorize>>
    BY <1>1 DEF bluetooth_obex_server_init, appVars, history, PermissionInv
  <2>2. inits' # 0 /\ (inits' = 1 => ~auto_authorize' /\ unasked' = {})
    BY <2>1 DEF PermissionInv
  <2> QED  BY <2>1, <2>2, FS_EmptySet DEF PermissionInv
<1>2. CASE bluetooth_obex_server_deinit
  <2>1. inits # 0
    BY <1>2 DEF bluetooth_obex_server_deinit, PermissionInv
  <2> QED  BY <1>2, <2>1 DEF bluetooth_obex_server_deinit, PermissionInv, slotVars, counters, history
<1>3. ASSUME NEW k \in Push, NEW accept \in BOOLEAN, reply_authorize(k, accept)
      PROVE  PermissionInv'
  \* A careful application has no question while auto_authorize is set.
  <2>1. careful => ~auto_authorize
    BY <1>3 DEF reply_authorize, IInv, Others, CarefulHasOne
  <2>2. inits # 0
    BY <1>3 DEF reply_authorize, PermissionInv
  <2> QED  BY <1>3, <2>1, <2>2 DEF reply_authorize, PermissionInv, counters, history
<1>4. ASSUME NEW k \in Push, bluetooth_obex_server_accept_connection(k) PROVE PermissionInv'
  <2>1. k \in knocking /\ inits # 0
    BY <1>4 DEF bluetooth_obex_server_accept_connection, Answered, PermissionInv
  <2>2. UNCHANGED <<careful, inits, unasked, obex_server_agent, system_bus, transfer_path, inbox>>
    BY <1>4 DEF bluetooth_obex_server_accept_connection, slotVars, counters
  <2>3. CASE UNCHANGED <<auto_authorize, permits>>
    BY <2>1, <2>2, <2>3 DEF PermissionInv
  <2>4. CASE permits' = permits + 1
    BY <2>1, <2>2, <2>4, SmallUnasked DEF PermissionInv
  <2> QED  BY <1>4, <2>3, <2>4 DEF bluetooth_obex_server_accept_connection
<1>5. ASSUME NEW k \in Push, bluetooth_obex_server_reject_connection(k) PROVE PermissionInv'
  <2>1. k \in knocking /\ inits # 0
    BY <1>5 DEF bluetooth_obex_server_reject_connection, Answered, PermissionInv
  <2> QED
    BY <1>5, <2>1
    DEF bluetooth_obex_server_reject_connection, PermissionInv, libVars, slotVars, counters, history
<1>6. CASE accept_connection_timeout
  <2>1. Grows
    BY <1>6, SameGrows DEF accept_connection_timeout
  <2> QED
    BY <1>6, <2>1, PermissionKept DEF accept_connection_timeout, slotVars, appVars, counters, history
<1>7. ASSUME NEW K \in SUBSET transfers, cancel_transfers(K) PROVE PermissionInv'
  <2>1. K \cap Live \in SUBSET Push
    BY DEF Live
  <2>2. Grows
    BY <1>7, <2>1, EndsGrows DEF cancel_transfers
  <2> QED
    BY <1>7, <2>2, PermissionKept DEF cancel_transfers, libVars, slotVars, appVars, counters, history
<1> QED  BY <1>1, <1>2, <1>3, <1>4, <1>5, <1>6, <1>7 DEF Application

\* A push the library lets in was the last asked about: nothing is asked before the
\* message that it has started.
LEMMA PermissionOfAuthorize ==
  ASSUME IInv, PermissionInv, inbox # <<>>, NEW k, Asks(inbox, 1), inbox[1].push = k,
         obex_server_agent, authorize_callback(k, Tail(inbox))
  PROVE  PermissionInv'
<1> DEFINE q == Tail(inbox)
<1>1. k \in Push /\ q \in Seq(Message)
  BY AskedQueue
<1>2. /\ UNCHANGED <<careful, inits, permits, knocking, system_bus, obex_server_agent, auto_authorize>>
      /\ transfer_path' = k /\ inits # 0
  BY DEF authorize_callback, counters, PermissionInv
<1>3. ~Clears(inbox, transfer_path)
  BY ClearsPopped DEF IInv, Others, Typed
<1>4. CASE ~auto_authorize
  BY <1>2, <1>4 DEF authorize_callback, PermissionInv
<1>5. CASE auto_authorize /\ UNCHANGED session
  <2>1. unasked' = unasked
    BY <1>5 DEF authorize_callback, PermissionInv
  <2> QED  BY <1>2, <1>3, <1>5, <2>1 DEF PermissionInv
<1>6. CASE auto_authorize /\ session' # session
  <2>1. Reply(k, TRUE, q) /\ unasked' = {j \in Push : j \in unasked \/ session'[j] # session[j]}
    BY <1>6 DEF authorize_callback
  <2>2. /\ session[k] = "authorizing" /\ session' = [session EXCEPT ![k] = "sending"]
        /\ inbox' = Append(q, Msg("STARTED", k))
    BY <1>6, <2>1 DEF Reply
  <2>3. unasked' = unasked \cup {k}
    BY <1>1, <2>1, <2>2 DEF PermissionInv, IInv, Others, Typed
  <2>4. Cardinality(unasked') \in Nat /\ Cardinality(unasked') <= Cardinality(unasked) + 1
    <3>1. IsFiniteSet(unasked) /\ Cardinality(unasked) \in Nat
      BY SmallUnasked
    <3>2. Cardinality(unasked \cup {k}) =
            IF k \in unasked THEN Cardinality(unasked) ELSE Cardinality(unasked) + 1
      BY <3>1, FS_AddElement
    <3> QED  BY <2>3, <3>1, <3>2
  <2>5. \A n \in 1..Len(q) : ~Asks(q, n)
    BY <2>2, RestInOrder DEF IInv, Others, Typed
  <2>6. Clears(inbox', transfer_path')
    BY <1>1, <1>2, <2>2, <2>5, ClearsAppended
  <2>7. careful /\ inits = 1 => Cardinality(unasked') <= permits
    BY <1>3, <1>6, <2>4, SmallUnasked DEF PermissionInv
  <2> QED  BY <1>1, <1>2, <2>3, <2>6, <2>7 DEF PermissionInv
<1> QED  BY <1>4, <1>5, <1>6

LEMMA PermissionOfDispatch == ASSUME IInv, PermissionInv, Dispatch PROVE PermissionInv'
<1>1. inbox \in Seq(Message) /\ inbox # <<>> /\ Head(inbox) = inbox[1] /\ Tail(inbox) \in Seq(Message)
  BY Popped DEF Dispatch, IInv, Others, Typed
<1>2. ASSUME NEW m, m = Head(inbox), inbox' = Tail(inbox),
             UNCHANGED <<careful, inits, permits, unasked, obex_server_agent, auto_authorize, transfer_path>>,
             ~(m.kind = "STARTED" /\ m.push = transfer_path), inits # 0
      PROVE  PermissionInv'
  <2>1. Clears(inbox, transfer_path) => Clears(inbox', transfer_path')
    BY <1>1, <1>2, ClearsPopped
  <2> QED  BY <1>2, <2>1 DEF PermissionInv
<1>3. CASE ~Heard(Head(inbox).kind) /\ Unheard(Head(inbox), Tail(inbox))
  <2>1. UNCHANGED <<careful, inits, permits, unasked, knocking, system_bus,
                    obex_server_agent, auto_authorize, transfer_path>>
    BY <1>3 DEF Unheard, libVars, slotVars, appVars, counters, history
  <2>2. CASE ~obex_server_agent
    BY <2>1, <2>2 DEF PermissionInv
  <2>3. CASE obex_server_agent
    <3>1. Head(inbox).kind = "CONNECTION" /\ inits # 0
      BY <1>3, <2>3 DEF Heard, PermissionInv
    <3> QED  BY <1>2, <1>3, <2>1, <3>1 DEF Unheard
  <2> QED  BY <2>2, <2>3
<1>4. CASE /\ Heard("CONNECTION") /\ Head(inbox).kind = "CONNECTION"
           /\ obex_authorize_event_filter(Head(inbox).push, Tail(inbox))
  <2>1. /\ UNCHANGED <<careful, inits, permits, unasked, obex_server_agent, auto_authorize, transfer_path>>
        /\ inbox' = Tail(inbox) /\ inits # 0
    BY <1>4
    DEF obex_authorize_event_filter, Heard, libVars, slotVars, counters, history, PermissionInv
  <2> QED  BY <1>2, <1>4, <2>1
<1>5. CASE /\ obex_server_agent /\ Head(inbox).kind = "AUTHORIZE"
           /\ authorize_callback(Head(inbox).push, Tail(inbox))
  BY <1>1, <1>5, PermissionOfAuthorize DEF Asks
<1>6. CASE /\ obex_server_agent /\ Head(inbox).kind = "STARTED"
           /\ transfer_started_cb(Head(inbox).push, Tail(inbox))
  <2>1. /\ UNCHANGED <<careful, inits, permits, unasked, obex_server_agent>>
        /\ inbox' = Tail(inbox) /\ inits # 0
    BY <1>6 DEF transfer_started_cb, counters, history, PermissionInv, appVars
  <2>2. CASE ~auto_authorize'
    BY <2>1, <2>2 DEF PermissionInv
  <2>3. CASE Head(inbox).push # transfer_path /\ UNCHANGED <<auto_authorize, transfer_path>>
    BY <1>2, <2>1, <2>3
  <2> QED  BY <1>6, <2>2, <2>3 DEF transfer_started_cb
<1>7. CASE /\ obex_server_agent /\ Head(inbox).kind = "COMPLETED"
           /\ transfer_completed_cb(Head(inbox).push, Tail(inbox))
  <2>1. /\ UNCHANGED <<careful, inits, permits, unasked, obex_server_agent, auto_authorize, transfer_path>>
        /\ inbox' = Tail(inbox) /\ inits # 0
    BY <1>7 DEF transfer_completed_cb, slotVars, appVars, counters, history, PermissionInv
  <2> QED  BY <1>2, <1>7, <2>1
<1> QED  BY <1>3, <1>4, <1>5, <1>6, <1>7 DEF Dispatch, Heard

LEMMA PermissionNext == IInv /\ PermissionInv /\ [Next]_vars => PermissionInv'
<1> SUFFICES ASSUME IInv, PermissionInv, [Next]_vars PROVE PermissionInv'
  OBVIOUS
<1>1. CASE World
  <2>1. UNCHANGED <<careful, inits, permits, unasked, knocking, system_bus,
                    obex_server_agent, auto_authorize, transfer_path>>
    BY <1>1
    DEF World, Connect, Authorize, OtherTransfer, NextFile, SessionEnds, AdapterGoes,
        AdapterAppears, libVars, slotVars, appVars, counters, history
  <2> QED  BY <1>1, <2>1, WorldGrows, PermissionKept
<1>2. CASE UNCHANGED vars
  <2>1. Grows
    BY <1>2, SameGrows DEF vars
  <2> QED  BY <1>2, <2>1, PermissionKept DEF vars, libVars, slotVars, appVars, counters, history
<1> QED  BY <1>1, <1>2, PermissionOfApplication, PermissionOfDispatch DEF Next

\* Under the first registration a careful application lets in no more pushes without a
\* question than it let devices in, for any number of pushes and timeouts.
THEOREM PermissionsAreUsedOnce == Spec => []OnePermissionOnePush
<1>1. PermissionInv => OnePermissionOnePush
  BY DEF PermissionInv, OnePermissionOnePush
<1> QED  BY <1>1, InitInv, NextInv, PermissionInit, PermissionNext, PTL DEF Spec

(***************************************************************************)
(* The list of transfers.                                                  *)
(***************************************************************************)

Says(q, n, kind, k) == q[n].kind = kind /\ q[n].push = k
Has(q, kind, k) == \E n \in 1..Len(q) : Says(q, n, kind, k)

EndFollows(q, k) ==
  \A n \in 1..Len(q) : Says(q, n, "STARTED", k) =>
    \E m \in 1..Len(q) : n < m /\ Says(q, m, "COMPLETED", k)

\* What is in the queue and the list of a push in this state.
Told(q, state, listed, k) ==
  /\ state = "sending" =>
       ~Has(q, "COMPLETED", k) /\ (listed \/ Has(q, "STARTED", k))
  /\ state = "over" =>
       EndFollows(q, k) /\ (listed => Has(q, "COMPLETED", k))
  /\ state \notin {"sending", "over"} =>
       ~Has(q, "COMPLETED", k) /\ ~Has(q, "STARTED", k) /\ ~listed

AllTold(q, ses, list) == \A k \in Push : Told(q, ses[k], k \in list, k)

ListInv ==
  /\ transfers \subseteq Push
  /\ inits = 0 => \A k \in Push : session[k] = "none"
  /\ inits = 0 \/ (inits = 1 /\ obex_server_agent) => AllTold(inbox, session, transfers)

LEMMA HasJoined ==
  ASSUME NEW q \in Seq(Message), NEW s \in Seq(Message), NEW kind, NEW k
  PROVE  Has(q \o s, kind, k) <=> Has(q, kind, k) \/ Has(s, kind, k)
<1>1. ASSUME NEW n \in 1..Len(q \o s), n \notin 1..Len(q)
      PROVE  n - Len(q) \in 1..Len(s) /\ (q \o s)[n] = s[n - Len(q)]
  <2>1. n - Len(q) \in 1..Len(s) /\ Len(q) + (n - Len(q)) = n
    BY <1>1, Joined
  <2> QED  BY <2>1, Joined
<1>2. \A n \in 1..Len(q) : n \in 1..Len(q \o s) /\ (q \o s)[n] = q[n]
  BY Joined
<1>3. \A n \in 1..Len(s) : Len(q) + n \in 1..Len(q \o s) /\ (q \o s)[Len(q) + n] = s[n]
  BY Joined
<1>4. Has(q \o s, kind, k) => Has(q, kind, k) \/ Has(s, kind, k)
  BY <1>1, <1>2 DEF Has, Says
<1>5. Has(q, kind, k) => Has(q \o s, kind, k)
  BY <1>2 DEF Has, Says
<1>6. Has(s, kind, k) => Has(q \o s, kind, k)
  BY <1>3 DEF Has, Says
<1> QED  BY <1>4, <1>5, <1>6

LEMMA EndFollowsJoined ==
  ASSUME NEW q \in Seq(Message), NEW s \in Seq(Message), NEW k, ~Has(s, "STARTED", k),
         EndFollows(q, k) \/ Has(s, "COMPLETED", k)
  PROVE  EndFollows(q \o s, k)
<1> SUFFICES ASSUME NEW n \in 1..Len(q \o s), Says(q \o s, n, "STARTED", k)
             PROVE  \E m \in 1..Len(q \o s) : n < m /\ Says(q \o s, m, "COMPLETED", k)
  BY DEF EndFollows
<1>1. n \in 1..Len(q)
  <2> SUFFICES ASSUME n \notin 1..Len(q) PROVE FALSE
    OBVIOUS
  <2>1. n - Len(q) \in 1..Len(s) /\ Len(q) + (n - Len(q)) = n
    BY Joined
  <2>2. (q \o s)[n] = s[n - Len(q)]
    BY <2>1, Joined
  <2> QED  BY <2>1, <2>2 DEF Has, Says
<1>2. CASE EndFollows(q, k)
  <2>1. PICK m \in 1..Len(q) : n < m /\ Says(q, m, "COMPLETED", k)
    BY <1>1, <1>2, Joined DEF EndFollows, Says
  <2>2. m \in 1..Len(q \o s) /\ (q \o s)[m] = q[m]
    BY Joined
  <2> QED  BY <2>1, <2>2 DEF Says
<1>3. CASE Has(s, "COMPLETED", k)
  <2>1. PICK m \in 1..Len(s) : Says(s, m, "COMPLETED", k)
    BY <1>3 DEF Has
  <2>2. /\ Len(q) + m \in 1..Len(q \o s) /\ n < Len(q) + m
        /\ (q \o s)[Len(q) + m] = s[m]
    BY <1>1, Joined
  <2> QED  BY <2>1, <2>2 DEF Says
<1> QED  BY <1>2, <1>3

\* Messages that say nothing of k.
LEMMA ToldJoined ==
  ASSUME NEW q \in Seq(Message), NEW s \in Seq(Message), NEW k, NEW state, NEW listed,
         ~Has(s, "STARTED", k), ~Has(s, "COMPLETED", k), Told(q, state, listed, k)
  PROVE  Told(q \o s, state, listed, k)
BY HasJoined, EndFollowsJoined DEF Told

\* k is over; when it was being sent, obexd says so.
LEMMA ToldEnds ==
  ASSUME NEW q \in Seq(Message), NEW s \in Seq(Message), NEW k, NEW state, NEW listed,
         ~Has(s, "STARTED", k), state = "sending" => Has(s, "COMPLETED", k),
         Told(q, state, listed, k)
  PROVE  Told(q \o s, "over", listed, k)
<1>1. EndFollows(q, k) \/ Has(s, "COMPLETED", k)
  BY DEF Told, EndFollows, Has
<1>2. EndFollows(q \o s, k)
  BY <1>1, EndFollowsJoined
<1>3. listed => Has(q \o s, "COMPLETED", k)
  BY HasJoined DEF Told
<1> QED  BY <1>2, <1>3 DEF Told

\* One message.
LEMMA HasOne ==
  ASSUME NEW kind \in Kinds, NEW k \in Push, NEW q \in Seq(Message)
  PROVE  /\ <<Msg(kind, k)>> \in Seq(Message)
         /\ Append(q, Msg(kind, k)) = q \o <<Msg(kind, k)>>
         /\ \A other, j : Has(<<Msg(kind, k)>>, other, j) <=> other = kind /\ j = k
<1>1. Msg(kind, k) \in Message /\ Msg(kind, k).kind = kind /\ Msg(kind, k).push = k
  BY DEF Msg, Message
<1>2. Append(q, Msg(kind, k)) = q \o <<Msg(kind, k)>>
  BY <1>1
<1> DEFINE s == <<Msg(kind, k)>>
<1>3. s \in Seq(Message) /\ Len(s) = 1 /\ s[1] = Msg(kind, k)
  BY <1>1
<1> HIDE DEF s
<1>4. 1..Len(s) = {1}
  BY <1>3
<1>5. \A other, j : Has(s, other, j) <=> other = kind /\ j = k
  BY <1>1, <1>3, <1>4 DEF Has, Says
<1> QED  BY <1>2, <1>3, <1>5 DEF s

LEMMA ToldStarts ==
  ASSUME NEW q \in Seq(Message), NEW k \in Push, NEW state, NEW listed,
         state \notin {"sending", "over"},
         Told(q, state, listed, k)
  PROVE  Told(Append(q, Msg("STARTED", k)), "sending", listed, k)
<1> DEFINE s == <<Msg("STARTED", k)>>
<1>1. /\ s \in Seq(Message) /\ Append(q, Msg("STARTED", k)) = q \o s
      /\ Has(s, "STARTED", k) /\ ~Has(s, "COMPLETED", k)
  BY HasOne DEF Kinds
<1> HIDE DEF s
<1>2. Has(q \o s, "STARTED", k) /\ ~Has(q \o s, "COMPLETED", k)
  BY <1>1, HasJoined DEF Told
<1> QED  BY <1>1, <1>2 DEF Told

\* The head of the queue is taken.
LEMMA HasPopped ==
  ASSUME NEW q \in Seq(Message), q # <<>>, NEW kind, NEW k
  PROVE  Has(q, kind, k) <=> Has(Tail(q), kind, k) \/ Says(q, 1, kind, k)
<1>1. \A n \in 1..Len(q) : n # 1 => n - 1 \in 1..Len(Tail(q)) /\ Tail(q)[n - 1] = q[n]
  <2> SUFFICES ASSUME NEW n \in 1..Len(q), n # 1
               PROVE  n - 1 \in 1..Len(Tail(q)) /\ Tail(q)[n - 1] = q[n]
    OBVIOUS
  <2>1. n - 1 \in 1..(Len(q) - 1) /\ (n - 1) + 1 = n
    BY Popped
  <2> QED  BY <2>1, Popped
<1>2. \A n \in 1..Len(Tail(q)) : n + 1 \in 1..Len(q) /\ Tail(q)[n] = q[n + 1]
  BY Popped
<1>3. 1 \in 1..Len(q)
  BY Popped
<1> QED  BY <1>1, <1>2, <1>3 DEF Has, Says

LEMMA EndFollowsPopped ==
  ASSUME NEW q \in Seq(Message), q # <<>>, NEW k, EndFollows(q, k)
  PROVE  /\ EndFollows(Tail(q), k)
         /\ Says(q, 1, "STARTED", k) => Has(Tail(q), "COMPLETED", k)
<1>1. \A n \in 1..Len(Tail(q)) : n + 1 \in 1..Len(q) /\ Tail(q)[n] = q[n + 1]
  BY Popped
<1>2. \A n \in 1..Len(q), m \in 1..Len(q) : n < m =>
        m - 1 \in 1..Len(Tail(q)) /\ Tail(q)[m - 1] = q[m]
  <2> SUFFICES ASSUME NEW n \in 1..Len(q), NEW m \in 1..Len(q), n < m
               PROVE  m - 1 \in 1..Len(Tail(q)) /\ Tail(q)[m - 1] = q[m]
    OBVIOUS
  <2>1. m - 1 \in 1..(Len(q) - 1) /\ (m - 1) + 1 = m
    BY Popped
  <2> QED  BY <2>1, Popped
<1>3. ASSUME NEW n \in 1..Len(Tail(q)), Says(Tail(q), n, "STARTED", k)
      PROVE  \E m \in 1..Len(Tail(q)) : n < m /\ Says(Tail(q), m, "COMPLETED", k)
  <2>1. PICK m \in 1..Len(q) : n + 1 < m /\ Says(q, m, "COMPLETED", k)
    BY <1>1, <1>3 DEF EndFollows, Says
  <2>2. m - 1 \in 1..Len(Tail(q)) /\ n < m - 1 /\ Tail(q)[m - 1] = q[m]
    BY <1>1, <1>2, <2>1
  <2> QED  BY <2>1, <2>2 DEF Says
<1>4. ASSUME Says(q, 1, "STARTED", k) PROVE Has(Tail(q), "COMPLETED", k)
  <2>1. 1 \in 1..Len(q)
    BY Popped
  <2>2. PICK m \in 1..Len(q) : 1 < m /\ Says(q, m, "COMPLETED", k)
    BY <1>4, <2>1 DEF EndFollows
  <2> QED  BY <1>2, <2>1, <2>2 DEF Has, Says
<1> QED  BY <1>3, <1>4 DEF EndFollows

LEMMA ToldPopped ==
  ASSUME NEW q \in Seq(Message), q # <<>>, NEW k, NEW state, NEW listed, Told(q, state, listed, k)
  PROVE  /\ ~Says(q, 1, "STARTED", k) /\ ~Says(q, 1, "COMPLETED", k) =>
              Told(Tail(q), state, listed, k)
         /\ Says(q, 1, "STARTED", k) => /\ Told(Tail(q), state, TRUE, k)
                                        /\ state # "sending" => Told(Tail(q), state, listed, k)
         /\ Says(q, 1, "COMPLETED", k) => Told(Tail(q), state, FALSE, k)
BY HasPopped, EndFollowsPopped DEF Told

(***************************************************************************)
(* Steps and the list.                                                     *)
(***************************************************************************)

\* obexd tells of the end of each session that had come to a transfer, and only of those.
LEMMA EndsTells ==
  ASSUME NEW K \in SUBSET Push, NEW rest, Ends(K, rest)
  PROVE  \E s \in Seq(Message) :
           /\ inbox' = rest \o s
           /\ \A k : ~Has(s, "STARTED", k)
           /\ \A k : Has(s, "COMPLETED", k) => k \in K
           /\ \A k \in K : session[k] = "sending" => Has(s, "COMPLETED", k)
<1> DEFINE S == {k \in K : session[k] \in {"authorizing", "sending"}}
           had == SetToSeq(S)
           s == [i \in DOMAIN had |-> Msg("COMPLETED", had[i])]
           N == Cardinality(S)
<1>1. IsFiniteSet(S)
  <2>1. IsFiniteSet(Push)
    BY FS_Interval, ObexServerAssumption DEF Push
  <2> QED  BY <2>1, FS_Subset
<1>2. N \in Nat /\ had \in [1..N -> S]
  BY <1>1, SetToSeqIsSeq
<1>3. \A k \in S : \E i \in 1..N : had[i] = k
  BY <1>1, SetToSeqOnto
<1>4. inbox' = rest \o s
  BY DEF Ends
<1>5. s = [i \in 1..N |-> Msg("COMPLETED", had[i])]
  BY <1>2
<1>6. S \subseteq K /\ \A k \in K : session[k] = "sending" => k \in S
  OBVIOUS
<1> HIDE DEF N, S, had, s
<1>7. \A k \in Push : /\ Msg("COMPLETED", k) \in Message
                      /\ Msg("COMPLETED", k).kind = "COMPLETED" /\ Msg("COMPLETED", k).push = k
  BY DEF Msg, Message, Kinds
<1>8. \A i \in 1..N : /\ had[i] \in K /\ s[i] \in Message
                      /\ s[i].kind = "COMPLETED" /\ s[i].push = had[i]
  BY <1>2, <1>5, <1>6, <1>7
<1>9. s \in Seq(Message) /\ Len(s) = N
  BY <1>2, <1>5, <1>8
<1>10. \A k : ~Has(s, "STARTED", k) /\ (Has(s, "COMPLETED", k) => k \in K)
  BY <1>8, <1>9 DEF Has, Says
<1>11. \A k \in S : Has(s, "COMPLETED", k)
  BY <1>3, <1>8, <1>9 DEF Has, Says
<1> QED  BY <1>4, <1>6, <1>9, <1>10, <1>11

LEMMA AllToldEnds ==
  ASSUME NEW K \in SUBSET Push, NEW rest \in Seq(Message), Ends(K, rest),
         AllTold(rest, session, transfers)
  PROVE  AllTold(inbox', session', transfers)
<1>1. PICK s \in Seq(Message) :
           /\ inbox' = rest \o s
           /\ \A k : ~Has(s, "STARTED", k)
           /\ \A k : Has(s, "COMPLETED", k) => k \in K
           /\ \A k \in K : session[k] = "sending" => Has(s, "COMPLETED", k)
  BY EndsTells
<1>2. \A k \in Push : session'[k] = IF k \in K THEN "over" ELSE session[k]
  BY DEF Ends
<1>3. ASSUME NEW k \in Push PROVE Told(inbox', session'[k], k \in transfers, k)
  <2>1. Told(rest, session[k], k \in transfers, k)
    BY DEF AllTold
  <2>2. CASE k \in K
    BY <1>1, <1>2, <2>1, <2>2, ToldEnds
  <2>3. CASE k \notin K
    BY <1>1, <1>2, <2>1, <2>3, ToldJoined
  <2> QED  BY <2>2, <2>3
<1> QED  BY <1>3 DEF AllTold

\* Sessions that do not come to a transfer, nor leave one, with a message about neither.
NoTransfer(ses, new) ==
  \A k \in Push : new[k] = ses[k] \/ {ses[k], new[k]} \cap {"sending", "over"} = {}

LEMMA AllToldJoined ==
  ASSUME NEW q \in Seq(Message), NEW s \in Seq(Message), NEW ses, NEW new, NEW list,
         \A k : ~Has(s, "STARTED", k) /\ ~Has(s, "COMPLETED", k),
         NoTransfer(ses, new), AllTold(q, ses, list)
  PROVE  AllTold(q \o s, new, list)
<1>1. ASSUME NEW k \in Push PROVE Told(q \o s, new[k], k \in list, k)
  <2>1. Told(q \o s, ses[k], k \in list, k)
    BY ToldJoined DEF AllTold
  <2> QED  BY <2>1 DEF NoTransfer, Told
<1> QED  BY <1>1 DEF AllTold

LEMMA AllToldStays ==
  ASSUME NEW q, NEW ses, NEW new, NEW list, NoTransfer(ses, new), AllTold(q, ses, list)
  PROVE  AllTold(q, new, list)
BY DEF AllTold, NoTransfer, Told

LEMMA AllToldStarts ==
  ASSUME NEW q \in Seq(Message), NEW k \in Push, NEW new, NEW list,
         session \in [Push -> SessionState], session[k] \notin {"sending", "over"},
         new = [session EXCEPT ![k] = "sending"], AllTold(q, session, list)
  PROVE  AllTold(Append(q, Msg("STARTED", k)), new, list)
<1> DEFINE s == <<Msg("STARTED", k)>>
<1>1. /\ s \in Seq(Message) /\ Append(q, Msg("STARTED", k)) = q \o s
      /\ \A j : j # k => ~Has(s, "STARTED", j) /\ ~Has(s, "COMPLETED", j)
  BY HasOne DEF Kinds
<1> HIDE DEF s
<1>2. ASSUME NEW j \in Push PROVE Told(q \o s, new[j], j \in list, j)
  <2>1. Told(q, session[j], j \in list, j)
    BY DEF AllTold
  <2>2. CASE j = k
    <3>1. new[k] = "sending"
      OBVIOUS
    <3> QED  BY <1>1, <2>1, <2>2, <3>1, ToldStarts
  <2>3. CASE j # k
    <3>1. new[j] = session[j]
      BY <2>3
    <3> QED  BY <1>1, <2>1, <2>3, <3>1, ToldJoined
  <2> QED  BY <2>2, <2>3
<1> QED  BY <1>1, <1>2 DEF AllTold

LEMMA ListInit == Init => ListInv
BY DEF Init, ListInv, AllTold, Told, Has, Push

\* A step under one registration; ListInv says nothing of the others.
LEMMA ListKept ==
  ASSUME ListInv, transfers' \subseteq Push, UNCHANGED inits,
         obex_server_agent' => obex_server_agent \/ inits # 1,
         inits = 0 => \A k \in Push : session'[k] = "none",
         AllTold(inbox, session, transfers) => AllTold(inbox', session', transfers')
  PROVE  ListInv'
BY DEF ListInv

LEMMA EndsList ==
  ASSUME IInv, ListInv, NEW K \in SUBSET Live, Ends(K, inbox),
         UNCHANGED <<transfers, inits, obex_server_agent>>
  PROVE  ListInv'
<1>1. K \in SUBSET Push /\ inbox \in Seq(Message)
  BY DEF Live, IInv, Others, Typed
<1>2. inits = 0 => \A k \in Push : session'[k] = "none"
  BY DEF Ends, Live, ListInv
<1> QED  BY <1>1, <1>2, AllToldEnds, ListKept DEF ListInv

LEMMA ListOfWorld == ASSUME IInv, PermissionInv, ListInv, World PROVE ListInv'
<1>1. /\ inbox \in Seq(Message) /\ session \in [Push -> SessionState]
      /\ UNCHANGED <<transfers, inits, obex_server_agent>>
  BY DEF IInv, Others, Typed, World, Connect, Authorize, OtherTransfer, NextFile, SessionEnds,
     AdapterGoes, AdapterAppears, libVars, counters
<1>2. transfers' \subseteq Push
  BY <1>1 DEF ListInv
<1>3. ASSUME NEW kind \in {"CONNECTION", "AUTHORIZE"}, NEW k \in Push,
             inbox' = Append(inbox, Msg(kind, k)), NoTransfer(session, session'), inits # 0
      PROVE  ListInv'
  <2> DEFINE s == <<Msg(kind, k)>>
  <2>1. s \in Seq(Message) /\ inbox' = inbox \o s
        /\ \A j : ~Has(s, "STARTED", j) /\ ~Has(s, "COMPLETED", j)
    BY <1>1, <1>3, HasOne DEF Kinds
  <2> HIDE DEF s
  <2> QED  BY <1>1, <1>2, <1>3, <2>1, AllToldJoined, ListKept
<1>4. ASSUME NEW k \in Push, Connect(k) PROVE ListInv'
  <2>1. NoTransfer(session, session') /\ inits # 0
    BY <1>1, <1>4 DEF Connect, NoTransfer, PermissionInv
  <2>2. CASE inbox' = Append(inbox, Msg("CONNECTION", k))
    BY <1>3, <2>1, <2>2
  <2>3. CASE UNCHANGED inbox
    BY <1>1, <1>2, <2>1, <2>3, AllToldStays, ListKept
  <2> QED  BY <1>4, <2>2, <2>3 DEF Connect
<1>5. ASSUME NEW k \in Push, Authorize(k) PROVE ListInv'
  <2>1. /\ NoTransfer(session, session') /\ inits # 0
        /\ inbox' = Append(inbox, Msg("AUTHORIZE", k))
    BY <1>1, <1>5 DEF Authorize, NoTransfer, PermissionInv
  <2> QED  BY <1>3, <2>1
<1>6. ASSUME NEW k \in Push, OtherTransfer(k) PROVE ListInv'
  <2>1. /\ session[k] = "connected" /\ session' = [session EXCEPT ![k] = "sending"]
        /\ inbox' = Append(inbox, Msg("STARTED", k)) /\ inits # 0
    BY <1>6 DEF OtherTransfer, ListInv
  <2>2. AllTold(inbox, session, transfers) => AllTold(inbox', session', transfers')
    BY <1>1, <2>1, AllToldStarts
  <2> QED  BY <1>1, <1>2, <2>1, <2>2, ListKept
<1>7. ASSUME NEW j \in Push, NEW k \in Push, NextFile(j, k) PROVE ListInv'
  <2> DEFINE s == <<Msg("COMPLETED", j)>>
  <2>1. /\ session[j] = "sending" /\ session[k] = "none" /\ inits # 0
        /\ session' = [session EXCEPT ![j] = "over", ![k] = "connected"]
        /\ inbox' = Append(inbox, Msg("COMPLETED", j))
    BY <1>7 DEF NextFile, ListInv
  <2>2. /\ s \in Seq(Message) /\ inbox' = inbox \o s /\ Has(s, "COMPLETED", j)
        /\ \A i : ~Has(s, "STARTED", i) /\ (i # j => ~Has(s, "COMPLETED", i))
    BY <1>1, <2>1, HasOne DEF Kinds
  <2> HIDE DEF s
  <2>3. ASSUME AllTold(inbox, session, transfers), NEW i \in Push
        PROVE  Told(inbox', session'[i], i \in transfers, i)
    <3>1. Told(inbox, session[i], i \in transfers, i)
      BY <2>3 DEF AllTold
    <3>2. CASE i = j
      <4>1. session'[j] = "over"
        BY <1>1, <2>1
      <4> QED  BY <1>1, <2>2, <3>1, <3>2, <4>1, ToldEnds
    <3>3. CASE i # j
      <4>1. Told(inbox', session[i], i \in transfers, i)
        BY <1>1, <2>2, <3>1, <3>3, ToldJoined
      <4>2. session'[i] = session[i] \/ {session[i], session'[i]} = {"none", "connected"}
        BY <1>1, <2>1, <3>3
      <4> QED  BY <4>1, <4>2 DEF Told
    <3> QED  BY <3>2, <3>3
  <2>4. AllTold(inbox, session, transfers) => AllTold(inbox', session', transfers')
    BY <1>1, <2>3 DEF AllTold
  <2> QED  BY <1>1, <1>2, <2>1, <2>4, ListKept
<1>8. ASSUME NEW k \in Push, SessionEnds(k) PROVE ListInv'
  BY <1>1, <1>8, EndsList DEF SessionEnds
<1>9. CASE AdapterGoes
  BY <1>1, <1>9, EndsList DEF AdapterGoes
<1>10. CASE AdapterAppears
  BY <1>1, <1>2, <1>10, ListKept DEF AdapterAppears, ListInv
<1> QED  BY <1>4, <1>5, <1>6, <1>7, <1>8, <1>9, <1>10 DEF World

\* The push in the slot is answered; q is what is left of the queue.
LEMMA ReplyTold ==
  ASSUME session \in [Push -> SessionState], NEW r \in Push, NEW accept, NEW q \in Seq(Message),
         Reply(r, accept, q), AllTold(q, session, transfers)
  PROVE  AllTold(inbox', session', transfers)
<1>1. CASE session[r] = "authorizing" /\ accept
  <2>1. session' = [session EXCEPT ![r] = "sending"] /\ inbox' = Append(q, Msg("STARTED", r))
    BY <1>1 DEF Reply
  <2> QED  BY <1>1, <2>1, AllToldStarts
<1>2. CASE session[r] = "authorizing" /\ ~accept
  <2>1. Ends({r}, q)
    BY <1>2 DEF Reply
  <2> QED  BY <2>1, AllToldEnds
<1>3. CASE session[r] # "authorizing"
  BY <1>3 DEF Reply
<1> QED  BY <1>1, <1>2, <1>3

LEMMA ListOfApplication == ASSUME IInv, PermissionInv, ListInv, Application PROVE ListInv'
<1>1. inbox \in Seq(Message) /\ session \in [Push -> SessionState]
  BY DEF IInv, Others, Typed
<1>2. UNCHANGED transfers /\ transfers' \subseteq Push
  BY DEF Application, bluetooth_obex_server_init, bluetooth_obex_server_deinit, reply_authorize,
     bluetooth_obex_server_accept_connection, bluetooth_obex_server_reject_connection,
     accept_connection_timeout, cancel_transfers, libVars, ListInv
<1>3. ASSUME NEW filter \in BOOLEAN, bluetooth_obex_server_init(filter) PROVE ListInv'
  <2>1. inits' = inits + 1 /\ inits \in Nat /\ UNCHANGED <<session, inbox>>
    BY <1>3 DEF bluetooth_obex_server_init, PermissionInv
  <2>2. inits' # 0 /\ (inits' = 1 => inits = 0)
    BY <2>1
  <2> QED  BY <1>2, <2>1, <2>2 DEF ListInv
<1>4. ASSUME bluetooth_obex_server_deinit \/ accept_connection_timeout PROVE ListInv'
  <2>1. UNCHANGED <<session, inbox, inits>> /\ (obex_server_agent' => obex_server_agent)
    BY <1>4 DEF bluetooth_obex_server_deinit, accept_connection_timeout, counters
  <2> QED  BY <1>2, <2>1, ListKept DEF ListInv
<1>5. ASSUME NEW k \in Push, NEW accept \in BOOLEAN, reply_authorize(k, accept) PROVE ListInv'
  <2>1. /\ k \in asked /\ Reply(reply_context, accept, inbox) /\ obex_server_agent
        /\ UNCHANGED <<inits, obex_server_agent>>
    BY <1>5 DEF reply_authorize, counters
  <2>2. reply_context \in Push /\ inits # 0
    BY <2>1 DEF IInv, Others, Typed, PermissionInv
  <2>3. AllTold(inbox, session, transfers) => AllTold(inbox', session', transfers')
    BY <1>1, <1>2, <2>1, <2>2, ReplyTold
  <2> QED  BY <1>2, <2>1, <2>2, <2>3, ListKept
<1>6. ASSUME NEW k \in Push,
             bluetooth_obex_server_accept_connection(k) \/ bluetooth_obex_server_reject_connection(k)
      PROVE  ListInv'
  <2>1. \E state \in {"connected", "over"} : Answered(k, state)
    BY <1>6 DEF bluetooth_obex_server_accept_connection, bluetooth_obex_server_reject_connection
  <2>2. UNCHANGED <<inbox, inits, obex_server_agent>>
    BY <1>6 DEF bluetooth_obex_server_accept_connection, bluetooth_obex_server_reject_connection,
       libVars, counters
  <2>3. inits # 0
    BY <2>1 DEF Answered, PermissionInv
  <2>4. ASSUME AllTold(inbox, session, transfers), NEW j \in Push
        PROVE  Told(inbox, session'[j], j \in transfers, j)
    <3>1. Told(inbox, session[j], j \in transfers, j)
      BY <2>4 DEF AllTold
    <3>2. \/ session'[j] = session[j]
          \/ session[j] = "connecting" /\ session'[j] \in {"connected", "over"}
      BY <2>1 DEF Answered
    <3> QED  BY <3>1, <3>2 DEF Told, EndFollows, Has
  <2>5. AllTold(inbox, session, transfers) => AllTold(inbox', session', transfers')
    BY <1>2, <2>2, <2>4 DEF AllTold
  <2> QED  BY <1>2, <2>2, <2>3, <2>5, ListKept
<1>7. ASSUME NEW K \in SUBSET transfers, cancel_transfers(K) PROVE ListInv'
  <2>1. Ends(K \cap Live, inbox) /\ UNCHANGED <<transfers, inits, obex_server_agent>>
    BY <1>7 DEF cancel_transfers, libVars, counters
  <2> QED  BY <2>1, EndsList
<1> QED  BY <1>3, <1>4, <1>5, <1>6, <1>7 DEF Application

LEMMA ListOfDispatch == ASSUME IInv, PermissionInv, ListInv, Dispatch PROVE ListInv'
<1> DEFINE m == Head(inbox)
           q == Tail(inbox)
<1>1. /\ inbox \in Seq(Message) /\ session \in [Push -> SessionState] /\ inbox # <<>>
      /\ m = inbox[1] /\ m \in Message /\ q \in Seq(Message)
  BY Popped DEF Dispatch, IInv, Others, Typed
<1>2. m.push \in Push
  BY <1>1 DEF Message
<1>3. UNCHANGED <<inits, obex_server_agent>>
  BY DEF Dispatch, Unheard, obex_authorize_event_filter, authorize_callback, transfer_started_cb,
     transfer_completed_cb, libVars, counters
\* A message about no transfer.
<1>4. m.kind \notin {"STARTED", "COMPLETED"} /\ AllTold(inbox, session, transfers) =>
        AllTold(q, session, transfers)
  BY <1>1, ToldPopped DEF AllTold, Says
<1>5. ASSUME ~Heard(m.kind), Unheard(m, q) PROVE ListInv'
  <2>1. CASE inits = 0 \/ obex_server_agent
    <3>1. AllTold(inbox, session, transfers) \/ ~(inits = 0 \/ inits = 1)
      BY <2>1 DEF ListInv
    <3>2. inits = 0 /\ AllTold(inbox, session, transfers) => m.kind \notin {"STARTED", "COMPLETED"}
      <4>1. 1 \in 1..Len(inbox)
        BY <1>1, Popped
      <4> QED  BY <1>1, <1>2, <4>1 DEF ListInv, AllTold, Told, Has, Says
    <3>3. obex_server_agent => m.kind = "CONNECTION"
      BY <1>5 DEF Heard
    <3>4. UNCHANGED transfers
      BY <1>5 DEF Unheard, libVars
    <3> HIDE DEF m, q
    <3>5. CASE m.kind = "AUTHORIZE"
      <4>1. Ends({m.push} \cap Live, q) /\ {m.push} \cap Live \in SUBSET Push
        BY <1>2, <1>5, <3>5 DEF Unheard
      <4>2. AllTold(inbox, session, transfers) => AllTold(inbox', session', transfers')
        BY <1>1, <1>4, <3>4, <3>5, <4>1, AllToldEnds
      <4>3. inits = 0 => \A k \in Push : session'[k] = "none"
        BY <4>1 DEF Ends, Live, ListInv
      <4> QED  BY <1>3, <3>4, <4>2, <4>3, ListKept DEF ListInv
    <3>6. CASE m.kind # "AUTHORIZE"
      <4>1. inbox' = q /\ UNCHANGED session
        BY <1>5, <3>6 DEF Unheard
      <4>2. inits = 0 \/ inits = 1 => AllTold(inbox', session', transfers')
        BY <1>4, <2>1, <3>1, <3>2, <3>3, <3>4, <4>1
      <4> QED  BY <1>3, <3>4, <4>1, <4>2 DEF ListInv
    <3> QED  BY <3>5, <3>6
  <2>2. CASE inits # 0 /\ ~obex_server_agent
    BY <1>3, <1>5, <2>2 DEF ListInv, Unheard, libVars
  <2> QED  BY <2>1, <2>2
<1>6. CASE Heard("CONNECTION") /\ m.kind = "CONNECTION" /\ obex_authorize_event_filter(m.push, q)
  <2>1. inbox' = q /\ UNCHANGED <<session, transfers>>
    BY <1>6 DEF obex_authorize_event_filter, libVars
  <2> QED  BY <1>3, <1>4, <1>6, <2>1, ListKept DEF ListInv
<1>7. CASE obex_server_agent /\ m.kind = "AUTHORIZE" /\ authorize_callback(m.push, q)
  <2>1. UNCHANGED transfers /\ inits # 0
    BY <1>7 DEF authorize_callback, PermissionInv
  <2>2. \/ Reply(m.push, TRUE, q)
        \/ inbox' = q /\ UNCHANGED session
    BY <1>7 DEF authorize_callback
  <2> HIDE DEF m, q
  <2>3. AllTold(inbox, session, transfers) => AllTold(inbox', session', transfers')
    BY <1>1, <1>2, <1>4, <1>7, <2>1, <2>2, ReplyTold
  <2> QED  BY <1>3, <2>1, <2>3, ListKept DEF ListInv
<1>8. CASE obex_server_agent /\ m.kind = "STARTED" /\ transfer_started_cb(m.push, q)
  <2>1. inbox' = q /\ UNCHANGED session /\ inits # 0
    BY <1>8 DEF transfer_started_cb, PermissionInv
  <2>2. /\ transfers' \in {transfers, transfers \cup {m.push}}
        /\ session[m.push] = "sending" => transfers' = transfers \cup {m.push}
    BY <1>8 DEF transfer_started_cb
  <2>3. ASSUME AllTold(inbox, session, transfers), NEW k \in Push
        PROVE  Told(q, session[k], k \in transfers', k)
    <3>1. Told(inbox, session[k], k \in transfers, k)
      BY <2>3 DEF AllTold
    <3>2. Says(inbox, 1, "STARTED", k) <=> k = m.push
      BY <1>1, <1>8 DEF Says
    <3>3. ~Says(inbox, 1, "COMPLETED", k)
      BY <1>1, <1>8 DEF Says
    <3> HIDE DEF m, q
    <3>4. CASE k # m.push
      <4>1. k \in transfers' <=> k \in transfers
        BY <2>2, <3>4
      <4>2. Told(q, session[k], k \in transfers, k)
        BY <1>1, <3>1, <3>2, <3>3, <3>4, ToldPopped DEF q
      <4> QED  BY <4>1, <4>2 DEF Told
    <3>5. CASE k = m.push
      <4>1. /\ Told(q, session[k], TRUE, k)
            /\ session[k] # "sending" => Told(q, session[k], k \in transfers, k)
        BY <1>1, <3>1, <3>2, <3>5, ToldPopped DEF q
      <4>2. k \in transfers' \/ (session[k] # "sending" /\ transfers' = transfers)
        BY <2>2, <3>5
      <4> QED  BY <4>1, <4>2 DEF Told
    <3> QED  BY <3>4, <3>5
  <2>4. AllTold(inbox, session, transfers) => AllTold(inbox', session', transfers')
    BY <2>1, <2>3 DEF AllTold
  <2> QED  BY <1>2, <1>3, <2>1, <2>2, <2>4, ListKept DEF ListInv
<1>9. CASE obex_server_agent /\ m.kind = "COMPLETED" /\ transfer_completed_cb(m.push, q)
  <2>1. inbox' = q /\ UNCHANGED session /\ inits # 0 /\ transfers' = transfers \ {m.push}
    BY <1>9 DEF transfer_completed_cb, PermissionInv
  <2>2. ASSUME AllTold(inbox, session, transfers), NEW k \in Push
        PROVE  Told(q, session[k], k \in transfers', k)
    <3>1. Told(inbox, session[k], k \in transfers, k)
      BY <2>2 DEF AllTold
    <3>2. Says(inbox, 1, "COMPLETED", k) <=> k = m.push
      BY <1>1, <1>9 DEF Says
    <3>3. ~Says(inbox, 1, "STARTED", k)
      BY <1>1, <1>9 DEF Says
    <3> HIDE DEF m, q
    <3>4. CASE k # m.push
      <4>1. k \in transfers' <=> k \in transfers
        BY <2>1, <3>4
      <4>2. Told(q, session[k], k \in transfers, k)
        BY <1>1, <3>1, <3>2, <3>3, <3>4, ToldPopped DEF q
      <4> QED  BY <4>1, <4>2 DEF Told
    <3>5. CASE k = m.push
      <4>1. Told(q, session[k], FALSE, k)
        BY <1>1, <3>1, <3>2, <3>5, ToldPopped DEF q
      <4>2. k \notin transfers'
        BY <2>1, <3>5
      <4> QED  BY <4>1, <4>2 DEF Told
    <3> QED  BY <3>4, <3>5
  <2>3. AllTold(inbox, session, transfers) => AllTold(inbox', session', transfers')
    BY <2>1, <2>2 DEF AllTold
  <2> QED  BY <1>3, <2>1, <2>3, ListKept DEF ListInv
<1> QED  BY <1>5, <1>6, <1>7, <1>8, <1>9 DEF Dispatch, Heard

LEMMA ListNext == IInv /\ PermissionInv /\ ListInv /\ [Next]_vars => ListInv'
<1> SUFFICES ASSUME IInv, PermissionInv, ListInv, [Next]_vars PROVE ListInv'
  OBVIOUS
<1>1. CASE UNCHANGED vars
  <2>1. UNCHANGED <<inits, obex_server_agent, session, inbox, transfers>>
    BY <1>1 DEF vars, libVars, counters
  <2> QED  BY <2>1 DEF ListInv
<1> QED  BY <1>1, ListOfWorld, ListOfApplication, ListOfDispatch DEF Next

\* While the first registration lasts the list is that of obexd once its signals are
\* dispatched, for any number of pushes, cancellations and losses of the adapter.
THEOREM ListIsThatOfObexd == Spec => []TransfersAreThoseOfObexd
<1>1. ListInv => TransfersAreThoseOfObexd
  <2> SUFFICES ASSUME ListInv, inits = 1, obex_server_agent, inbox = <<>>
               PROVE  transfers = {k \in Push : session[k] = "sending"}
    BY DEF TransfersAreThoseOfObexd
  <2>1. \A kind, k : ~Has(inbox, kind, k)
    BY DEF Has
  <2> QED  BY <2>1 DEF ListInv, AllTold, Told
<1> QED
  BY <1>1, InitInv, NextInv, PermissionInit, PermissionNext, ListInit, ListNext, PTL DEF Spec
=============================================================================
