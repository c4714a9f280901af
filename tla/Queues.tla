-------------------------------- MODULE Queues --------------------------------
(***************************************************************************)
(* Predicates of queues, for the invariants about signals that wait to be  *)
(* dispatched, and for each what becomes of it when signals join at the    *)
(* end and when the head is dispatched.  S is the set of the signals that  *)
(* matter, T what is wanted of one; both are sets, so that they can be     *)
(* given by the state.                                                     *)
(***************************************************************************)
EXTENDS Integers, Sequences, SequenceTheorems, FiniteSetTheorems, WellFoundedInduction, TLAPS

Has(q, S) == \E i \in 1..Len(q) : q[i] \in S

\* The last of them.
LastIn(q, S, T) ==
  \A i \in 1..Len(q) : q[i] \in S /\ (\A j \in i+1..Len(q) : q[j] \notin S) => q[i] \in T

\* The first of them.
FirstIn(q, S, T) ==
  \A i \in 1..Len(q) : q[i] \in S /\ (\A j \in 1..i-1 : q[j] \notin S) => q[i] \in T

\* Each with the next: R is a relation.
Chain(q, S, R) ==
  \A i, j \in 1..Len(q) :
    i < j /\ q[i] \in S /\ q[j] \in S /\ (\A k \in i+1..j-1 : q[k] \notin S)
      => <<q[i], q[j]>> \in R

\* No T after an S.
Never(q, S, T) == \A i, j \in 1..Len(q) : i < j /\ q[i] \in S => q[j] \notin T

\* The last S is there and is a T.
LastIs(q, S, T) == \E i \in 1..Len(q) : q[i] \in T /\ \A j \in i+1..Len(q) : q[j] \notin S

\* The first n of two queues are the same.
Alike(q, r, n) == \A i \in 1..n : q[i] = r[i]

\* How many of the first n there are.
CountTo(q, S, n) == Cardinality({i \in 1..n : q[i] \in S})

(***************************************************************************)
(* Short queues.                                                           *)
(***************************************************************************)

LEMMA OneItem ==
  ASSUME NEW a
  PROVE  /\ \A S : Has(<<a>>, S) <=> a \in S
         /\ \A S, T : LastIn(<<a>>, S, T) <=> (a \in S => a \in T)
         /\ \A S, T : FirstIn(<<a>>, S, T) <=> (a \in S => a \in T)
         /\ \A S, R : Chain(<<a>>, S, R)
<1>1. Len(<<a>>) = 1 /\ <<a>>[1] = a
  OBVIOUS
<1>2. 1..1 = {1} /\ 1+1..1 = {} /\ 1..1-1 = {}
  OBVIOUS
<1> QED  BY <1>1, <1>2 DEF Has, LastIn, FirstIn, Chain

LEMMA TwoItems ==
  ASSUME NEW a, NEW b
  PROVE  /\ \A S : Has(<<a, b>>, S) <=> a \in S \/ b \in S
         /\ \A S, T : LastIn(<<a, b>>, S, T) <=>
                        (b \in S => b \in T) /\ (a \in S /\ b \notin S => a \in T)
         /\ \A S, T : FirstIn(<<a, b>>, S, T) <=>
                        (a \in S => a \in T) /\ (b \in S /\ a \notin S => b \in T)
         /\ \A S, R : (a \in S /\ b \in S => <<a, b>> \in R)  <=>  Chain(<<a, b>>, S, R)
<1>1. PICK r : r = <<a, b>>
  OBVIOUS
<1>2. Len(r) = 2 /\ r[1] = a /\ r[2] = b
  BY <1>1
<1>3. /\ 1..2 = {1, 2} /\ 1+1..2 = {2} /\ 2+1..2 = {} /\ 1..1-1 = {} /\ 1..2-1 = {1}
      /\ 1+1..2-1 = {}
  OBVIOUS
<1>4. \A S : Has(r, S) <=> a \in S \/ b \in S
  BY <1>2, <1>3 DEF Has
<1>5. \A S, T : LastIn(r, S, T) <=> (b \in S => b \in T) /\ (a \in S /\ b \notin S => a \in T)
  BY <1>2, <1>3 DEF LastIn
<1>6. \A S, T : FirstIn(r, S, T) <=> (a \in S => a \in T) /\ (b \in S /\ a \notin S => b \in T)
  BY <1>2, <1>3 DEF FirstIn
<1>7. \A S, R : (a \in S /\ b \in S => <<a, b>> \in R)  <=>  Chain(r, S, R)
  BY <1>2, <1>3 DEF Chain
<1> QED  BY <1>1, <1>4, <1>5, <1>6, <1>7

LEMMA NoItem ==
  /\ \A S : ~Has(<<>>, S)
  /\ \A S, T : LastIn(<<>>, S, T) /\ FirstIn(<<>>, S, T)
  /\ \A S, R : Chain(<<>>, S, R)
<1>1. Len(<<>>) = 0 /\ 1..0 = {}
  OBVIOUS
<1> QED  BY <1>1 DEF Has, LastIn, FirstIn, Chain

LEMMA AppendJoins ==
  ASSUME NEW M, NEW q \in Seq(M), NEW a \in M
  PROVE  Append(q, a) = q \o <<a>>
OBVIOUS

LEMMA TwoJoined == ASSUME NEW a, NEW b PROVE <<a>> \o <<b>> = <<a, b>>
<1> DEFINE M == {a, b}
<1>1. <<a>> \in Seq(M) /\ <<b>> \in Seq(M) /\ <<a, b>> \in Seq(M)
  OBVIOUS
<1>2. PICK s : s = <<a>> \o <<b>>
  OBVIOUS
<1>3. PICK t : t = <<a, b>>
  OBVIOUS
<1>4. s \in Seq(M) /\ Len(s) = 2 /\ s[1] = a /\ s[2] = b
  BY <1>1, <1>2
<1>5. t \in Seq(M) /\ Len(t) = 2 /\ t[1] = a /\ t[2] = b
  BY <1>1, <1>3
<1> HIDE DEF M
<1>6. \A i \in 1..Len(s) : s[i] = t[i]
  BY <1>4, <1>5
<1> QED  BY <1>2, <1>3, <1>4, <1>5, <1>6, SeqEqual

(***************************************************************************)
(* Signals join, and the head is dispatched.                               *)
(***************************************************************************)

LEMMA JoinedItems ==
  ASSUME NEW M, NEW q \in Seq(M), NEW r \in Seq(M)
  PROVE  /\ q \o r \in Seq(M) /\ Len(q \o r) = Len(q) + Len(r)
         /\ Len(q) \in Nat /\ Len(r) \in Nat
         /\ \A i \in 1..Len(q) : (q \o r)[i] = q[i]
         /\ \A i \in 1..Len(r) : Len(q) + i \in 1..Len(q) + Len(r) /\ (q \o r)[Len(q) + i] = r[i]
         /\ \A k \in 1..Len(q) + Len(r) :
              k \in 1..Len(q) \/ (k > Len(q) /\ k - Len(q) \in 1..Len(r)
                                  /\ (q \o r)[k] = r[k - Len(q)])
OBVIOUS

LEMMA JoinedHas ==
  ASSUME NEW M, NEW q \in Seq(M), NEW r \in Seq(M), NEW S
  PROVE  Has(q \o r, S) <=> Has(q, S) \/ Has(r, S)
<1> DEFINE c == q \o r
<1>1. /\ Len(c) = Len(q) + Len(r) /\ Len(q) \in Nat /\ Len(r) \in Nat
      /\ \A i \in 1..Len(q) : c[i] = q[i]
      /\ \A i \in 1..Len(r) : Len(q) + i \in 1..Len(c) /\ c[Len(q) + i] = r[i]
      /\ \A k \in 1..Len(c) :
           k \in 1..Len(q) \/ (k > Len(q) /\ k - Len(q) \in 1..Len(r) /\ c[k] = r[k - Len(q)])
  BY JoinedItems
<1> HIDE DEF c
<1>2. ASSUME Has(c, S) PROVE Has(q, S) \/ Has(r, S)
  BY <1>1, <1>2 DEF Has
<1>3. ASSUME Has(q, S) PROVE Has(c, S)
  BY <1>1, <1>3 DEF Has
<1>4. ASSUME Has(r, S) PROVE Has(c, S)
  BY <1>1, <1>4 DEF Has
<1> QED  BY <1>2, <1>3, <1>4 DEF c

LEMMA JoinedLast ==
  ASSUME NEW M, NEW q \in Seq(M), NEW r \in Seq(M), NEW S, NEW T,
         LastIn(r, S, T), Has(r, S) \/ LastIn(q, S, T)
  PROVE  LastIn(q \o r, S, T)
<1> DEFINE c == q \o r
<1>1. /\ Len(c) = Len(q) + Len(r) /\ Len(q) \in Nat /\ Len(r) \in Nat
      /\ \A i \in 1..Len(q) : c[i] = q[i]
      /\ \A i \in 1..Len(r) : Len(q) + i \in 1..Len(c) /\ c[Len(q) + i] = r[i]
      /\ \A k \in 1..Len(c) :
           k \in 1..Len(q) \/ (k > Len(q) /\ k - Len(q) \in 1..Len(r) /\ c[k] = r[k - Len(q)])
  BY JoinedItems
<1> HIDE DEF c
<1> SUFFICES ASSUME NEW k \in 1..Len(c), c[k] \in S, \A j \in k+1..Len(c) : c[j] \notin S
             PROVE  c[k] \in T
  BY DEF c, LastIn
<1>2. CASE k \in 1..Len(q)
  <2>1. ASSUME NEW j \in 1..Len(r) PROVE r[j] \notin S
    <3>1. Len(q) + j \in k+1..Len(c)
      BY <1>1, <1>2
    <3> QED  BY <1>1, <3>1
  <2>2. ASSUME NEW j \in k+1..Len(q) PROVE q[j] \notin S
    <3>1. j \in k+1..Len(c) /\ j \in 1..Len(q)
      BY <1>1, <1>2
    <3> QED  BY <1>1, <3>1
  <2>3. LastIn(q, S, T)
    BY <2>1 DEF Has
  <2> QED  BY <1>1, <1>2, <2>2, <2>3 DEF LastIn
<1>3. CASE k \notin 1..Len(q)
  <2>1. k - Len(q) \in 1..Len(r) /\ c[k] = r[k - Len(q)]
    BY <1>1, <1>3
  <2>2. ASSUME NEW j \in k-Len(q)+1..Len(r) PROVE r[j] \notin S
    <3>1. Len(q) + j \in k+1..Len(c) /\ j \in 1..Len(r)
      BY <1>1, <2>1
    <3> QED  BY <1>1, <3>1
  <2> QED  BY <2>1, <2>2 DEF LastIn
<1> QED  BY <1>2, <1>3

LEMMA JoinedFirst ==
  ASSUME NEW M, NEW q \in Seq(M), NEW r \in Seq(M), NEW S, NEW T,
         FirstIn(q, S, T), Has(q, S) \/ FirstIn(r, S, T)
  PROVE  FirstIn(q \o r, S, T)
<1> DEFINE c == q \o r
<1>1. /\ Len(c) = Len(q) + Len(r) /\ Len(q) \in Nat /\ Len(r) \in Nat
      /\ \A i \in 1..Len(q) : c[i] = q[i]
      /\ \A i \in 1..Len(r) : Len(q) + i \in 1..Len(c) /\ c[Len(q) + i] = r[i]
      /\ \A k \in 1..Len(c) :
           k \in 1..Len(q) \/ (k > Len(q) /\ k - Len(q) \in 1..Len(r) /\ c[k] = r[k - Len(q)])
  BY JoinedItems
<1> HIDE DEF c
<1> SUFFICES ASSUME NEW k \in 1..Len(c), c[k] \in S, \A j \in 1..k-1 : c[j] \notin S
             PROVE  c[k] \in T
  BY DEF c, FirstIn
<1>2. CASE k \in 1..Len(q)
  <2>1. ASSUME NEW j \in 1..k-1 PROVE q[j] \notin S
    <3>1. j \in 1..Len(q)
      BY <1>1, <1>2
    <3> QED  BY <1>1, <3>1
  <2> QED  BY <1>1, <1>2, <2>1 DEF FirstIn
<1>3. CASE k \notin 1..Len(q)
  <2>1. k > Len(q) /\ k - Len(q) \in 1..Len(r) /\ c[k] = r[k - Len(q)]
    BY <1>1, <1>3
  <2>2. ASSUME NEW j \in 1..Len(q) PROVE q[j] \notin S
    <3>1. j \in 1..k-1
      BY <1>1, <2>1
    <3> QED  BY <1>1, <3>1
  <2>3. ASSUME NEW j \in 1..(k - Len(q))-1 PROVE r[j] \notin S
    <3>1. Len(q) + j \in 1..k-1 /\ j \in 1..Len(r)
      BY <1>1, <2>1
    <3> QED  BY <1>1, <3>1
  <2>4. FirstIn(r, S, T)
    BY <2>2 DEF Has
  <2> QED  BY <2>1, <2>3, <2>4 DEF FirstIn
<1> QED  BY <1>2, <1>3

\* T is what the last of q can be, U what the first of r can.
LEMMA JoinedChain ==
  ASSUME NEW M, NEW q \in Seq(M), NEW r \in Seq(M), NEW S, NEW R, NEW T, NEW U,
         Chain(q, S, R), Chain(r, S, R), LastIn(q, S, T), FirstIn(r, S, U),
         \A x \in T : \A y \in U : <<x, y>> \in R
  PROVE  Chain(q \o r, S, R)
<1> DEFINE c == q \o r
<1>1. /\ Len(c) = Len(q) + Len(r) /\ Len(q) \in Nat /\ Len(r) \in Nat
      /\ \A i \in 1..Len(q) : c[i] = q[i]
      /\ \A i \in 1..Len(r) : Len(q) + i \in 1..Len(c) /\ c[Len(q) + i] = r[i]
      /\ \A k \in 1..Len(c) :
           k \in 1..Len(q) \/ (k > Len(q) /\ k - Len(q) \in 1..Len(r) /\ c[k] = r[k - Len(q)])
  BY JoinedItems
<1> HIDE DEF c
<1> SUFFICES ASSUME NEW i \in 1..Len(c), NEW j \in 1..Len(c), i < j, c[i] \in S, c[j] \in S,
                    \A k \in i+1..j-1 : c[k] \notin S
             PROVE  <<c[i], c[j]>> \in R
  BY DEF c, Chain
<1>2. CASE j \in 1..Len(q)
  <2>1. i \in 1..Len(q)
    BY <1>1, <1>2
  <2>2. ASSUME NEW k \in i+1..j-1 PROVE q[k] \notin S
    <3>1. k \in 1..Len(q)
      BY <1>1, <1>2
    <3> QED  BY <1>1, <3>1
  <2> QED  BY <1>1, <1>2, <2>1, <2>2 DEF Chain
<1>3. CASE i \in 1..Len(q) /\ j \notin 1..Len(q)
  <2>1. j > Len(q) /\ j - Len(q) \in 1..Len(r) /\ c[j] = r[j - Len(q)]
    BY <1>1, <1>3
  <2>2. ASSUME NEW k \in i+1..Len(q) PROVE q[k] \notin S
    <3>1. k \in 1..Len(q) /\ k \in i+1..j-1
      BY <1>1, <1>3, <2>1
    <3> QED  BY <1>1, <3>1
  <2>3. ASSUME NEW k \in 1..(j - Len(q))-1 PROVE r[k] \notin S
    <3>1. k \in 1..Len(r) /\ Len(q) + k \in i+1..j-1
      BY <1>1, <1>3, <2>1
    <3> QED  BY <1>1, <3>1
  <2>4. c[i] \in T
    BY <1>1, <1>3, <2>2 DEF LastIn
  <2>5. c[j] \in U
    BY <2>1, <2>3 DEF FirstIn
  <2> QED  BY <2>4, <2>5
<1>4. CASE i \notin 1..Len(q)
  <2>0. j \notin 1..Len(q)
    BY <1>1, <1>4
  <2>1. /\ i - Len(q) \in 1..Len(r) /\ c[i] = r[i - Len(q)]
        /\ j - Len(q) \in 1..Len(r) /\ c[j] = r[j - Len(q)]
    BY <1>1, <1>4, <2>0
  <2>2. ASSUME NEW k \in (i - Len(q))+1..(j - Len(q))-1 PROVE r[k] \notin S
    <3>1. k \in 1..Len(r) /\ Len(q) + k \in i+1..j-1
      BY <1>1, <2>1
    <3> QED  BY <1>1, <3>1
  <2>3. i - Len(q) < j - Len(q)
    BY <1>1
  <2> QED  BY <2>1, <2>2, <2>3 DEF Chain
<1> QED  BY <1>2, <1>3, <1>4

LEMMA RestItems ==
  ASSUME NEW M, NEW q \in Seq(M), q # <<>>
  PROVE  /\ Tail(q) \in Seq(M) /\ Len(q) \in Nat \ {0} /\ Len(Tail(q)) = Len(q) - 1
         /\ Head(q) = q[1] /\ Head(q) \in M
         /\ \A i \in 1..Len(Tail(q)) : i + 1 \in 2..Len(q) /\ Tail(q)[i] = q[i + 1]
         /\ \A j \in 2..Len(q) : j - 1 \in 1..Len(Tail(q)) /\ q[j] = Tail(q)[j - 1]
OBVIOUS

LEMMA RestHas ==
  ASSUME NEW M, NEW q \in Seq(M), q # <<>>, NEW S
  PROVE  Has(q, S) <=> Head(q) \in S \/ Has(Tail(q), S)
<1>1. PICK t : t = Tail(q)
  OBVIOUS
<1>2. /\ Len(q) \in Nat \ {0} /\ Head(q) = q[1]
      /\ \A i \in 1..Len(t) : i + 1 \in 2..Len(q) /\ t[i] = q[i + 1]
      /\ \A j \in 2..Len(q) : j - 1 \in 1..Len(t) /\ q[j] = t[j - 1]
  BY <1>1, RestItems
<1>3. ASSUME Has(q, S), Head(q) \notin S PROVE Has(t, S)
  <2>1. PICK i \in 1..Len(q) : q[i] \in S
    BY <1>3 DEF Has
  <2>2. i \in 2..Len(q)
    BY <1>2, <1>3, <2>1
  <2> QED  BY <1>2, <2>1, <2>2 DEF Has
<1>4. ASSUME Has(t, S) PROVE Has(q, S)
  <2>1. PICK i \in 1..Len(t) : t[i] \in S
    BY <1>4 DEF Has
  <2>2. i + 1 \in 1..Len(q) /\ q[i + 1] \in S
    BY <1>2, <2>1
  <2> QED  BY <2>2 DEF Has
<1>5. Head(q) \in S => Has(q, S)
  BY <1>2 DEF Has
<1> QED  BY <1>1, <1>3, <1>4, <1>5

LEMMA RestLast ==
  ASSUME NEW M, NEW q \in Seq(M), q # <<>>, NEW S, NEW T, LastIn(q, S, T)
  PROVE  /\ LastIn(Tail(q), S, T)
         /\ Head(q) \in S /\ ~Has(Tail(q), S) => Head(q) \in T
<1>1. PICK t : t = Tail(q)
  OBVIOUS
<1>2. /\ Len(q) \in Nat \ {0} /\ Head(q) = q[1] /\ Len(t) = Len(q) - 1
      /\ \A i \in 1..Len(t) : i + 1 \in 2..Len(q) /\ t[i] = q[i + 1]
      /\ \A j \in 2..Len(q) : j - 1 \in 1..Len(t) /\ q[j] = t[j - 1]
  BY <1>1, RestItems
<1>3. LastIn(t, S, T)
  <2> SUFFICES ASSUME NEW i \in 1..Len(t), t[i] \in S, \A j \in i+1..Len(t) : t[j] \notin S
               PROVE  t[i] \in T
    BY DEF LastIn
  <2>1. i + 1 \in 1..Len(q) /\ q[i + 1] = t[i]
    BY <1>2
  <2>2. ASSUME NEW j \in i+1+1..Len(q) PROVE q[j] \notin S
    <3>1. j \in 2..Len(q) /\ j - 1 \in i+1..Len(t)
      BY <1>2
    <3> QED  BY <1>2, <3>1
  <2> QED  BY <2>1, <2>2 DEF LastIn
<1>4. ASSUME Head(q) \in S, ~Has(t, S) PROVE Head(q) \in T
  <2>1. ASSUME NEW j \in 1+1..Len(q) PROVE q[j] \notin S
    <3>1. j \in 2..Len(q)
      BY <1>2
    <3>2. j - 1 \in 1..Len(t) /\ q[j] = t[j - 1]
      BY <1>2, <3>1
    <3> QED  BY <1>4, <3>2 DEF Has
  <2>2. 1 \in 1..Len(q)
    BY <1>2
  <2> QED  BY <1>2, <1>4, <2>1, <2>2 DEF LastIn
<1> QED  BY <1>1, <1>3, <1>4

LEMMA RestFirst ==
  ASSUME NEW M, NEW q \in Seq(M), q # <<>>, NEW S, NEW T, FirstIn(q, S, T)
  PROVE  IF Head(q) \in S THEN Head(q) \in T ELSE FirstIn(Tail(q), S, T)
<1>1. PICK t : t = Tail(q)
  OBVIOUS
<1>2. /\ Len(q) \in Nat \ {0} /\ Head(q) = q[1] /\ Len(t) = Len(q) - 1
      /\ \A i \in 1..Len(t) : i + 1 \in 2..Len(q) /\ t[i] = q[i + 1]
      /\ \A j \in 2..Len(q) : j - 1 \in 1..Len(t) /\ q[j] = t[j - 1]
  BY <1>1, RestItems
<1>3. ASSUME Head(q) \in S PROVE Head(q) \in T
  <2>1. 1 \in 1..Len(q) /\ \A j \in 1..1-1 : q[j] \notin S
    BY <1>2
  <2> QED  BY <1>2, <1>3, <2>1 DEF FirstIn
<1>4. ASSUME Head(q) \notin S PROVE FirstIn(t, S, T)
  <2> SUFFICES ASSUME NEW i \in 1..Len(t), t[i] \in S, \A j \in 1..i-1 : t[j] \notin S
               PROVE  t[i] \in T
    BY DEF FirstIn
  <2>1. i + 1 \in 1..Len(q) /\ q[i + 1] = t[i]
    BY <1>2
  <2>2. ASSUME NEW j \in 1..(i+1)-1 PROVE q[j] \notin S
    <3>1. CASE j = 1
      BY <1>2, <1>4, <3>1
    <3>2. CASE j # 1
      <4>1. j \in 2..Len(q) /\ j - 1 \in 1..i-1
        BY <1>2, <3>2
      <4> QED  BY <1>2, <4>1
    <3> QED  BY <3>1, <3>2
  <2> QED  BY <2>1, <2>2 DEF FirstIn
<1> QED  BY <1>1, <1>3, <1>4

\* U is what may come after the first.
LEMMA RestChain ==
  ASSUME NEW M, NEW q \in Seq(M), q # <<>>, NEW S, NEW R, Chain(q, S, R)
  PROVE  /\ Chain(Tail(q), S, R)
         /\ \A U : Head(q) \in S /\ (\A y \in S : <<Head(q), y>> \in R => y \in U)
                     => FirstIn(Tail(q), S, U)
<1>1. PICK t : t = Tail(q)
  OBVIOUS
<1>2. /\ Len(q) \in Nat \ {0} /\ Head(q) = q[1] /\ Len(t) = Len(q) - 1
      /\ \A i \in 1..Len(t) : i + 1 \in 2..Len(q) /\ t[i] = q[i + 1]
      /\ \A j \in 2..Len(q) : j - 1 \in 1..Len(t) /\ q[j] = t[j - 1]
  BY <1>1, RestItems
<1>3. Chain(t, S, R)
  <2> SUFFICES ASSUME NEW i \in 1..Len(t), NEW j \in 1..Len(t), i < j, t[i] \in S, t[j] \in S,
                      \A k \in i+1..j-1 : t[k] \notin S
               PROVE  <<t[i], t[j]>> \in R
    BY DEF Chain
  <2>1. /\ i + 1 \in 1..Len(q) /\ q[i + 1] = t[i] /\ j + 1 \in 1..Len(q) /\ q[j + 1] = t[j]
        /\ i + 1 < j + 1
    BY <1>2
  <2>2. ASSUME NEW k \in (i+1)+1..(j+1)-1 PROVE q[k] \notin S
    <3>1. k \in 2..Len(q) /\ k - 1 \in i+1..j-1
      BY <1>2
    <3> QED  BY <1>2, <3>1
  <2> QED  BY <2>1, <2>2 DEF Chain
<1>4. ASSUME NEW U, Head(q) \in S, \A y \in S : <<Head(q), y>> \in R => y \in U
      PROVE  FirstIn(t, S, U)
  <2> SUFFICES ASSUME NEW i \in 1..Len(t), t[i] \in S, \A j \in 1..i-1 : t[j] \notin S
               PROVE  t[i] \in U
    BY DEF FirstIn
  <2>1. i + 1 \in 1..Len(q) /\ q[i + 1] = t[i] /\ 1 \in 1..Len(q) /\ 1 < i + 1
    BY <1>2
  <2>2. ASSUME NEW j \in 1+1..(i+1)-1 PROVE q[j] \notin S
    <3>1. j \in 2..Len(q) /\ j - 1 \in 1..i-1
      BY <1>2
    <3> QED  BY <1>2, <3>1
  <2>3. <<q[1], q[i + 1]>> \in R
    BY <1>2, <1>4, <2>1, <2>2 DEF Chain
  <2> QED  BY <1>2, <1>4, <2>1, <2>3
<1> QED  BY <1>1, <1>3, <1>4

LEMMA JoinedNever ==
  ASSUME NEW M, NEW q \in Seq(M), NEW r \in Seq(M), NEW S, NEW T,
         Never(q, S, T), Never(r, S, T), ~Has(q, S) \/ ~Has(r, T)
  PROVE  Never(q \o r, S, T)
<1> DEFINE c == q \o r
<1>1. /\ Len(c) = Len(q) + Len(r) /\ Len(q) \in Nat /\ Len(r) \in Nat
      /\ \A i \in 1..Len(q) : c[i] = q[i]
      /\ \A k \in 1..Len(c) :
           k \in 1..Len(q) \/ (k > Len(q) /\ k - Len(q) \in 1..Len(r) /\ c[k] = r[k - Len(q)])
  BY JoinedItems
<1> HIDE DEF c
<1> SUFFICES ASSUME NEW i \in 1..Len(c), NEW j \in 1..Len(c), i < j, c[i] \in S
             PROVE  c[j] \notin T
  BY DEF c, Never
<1>2. CASE j \in 1..Len(q)
  <2>1. i \in 1..Len(q)
    BY <1>1, <1>2
  <2> QED  BY <1>1, <1>2, <2>1 DEF Never
<1>3. CASE i \in 1..Len(q) /\ j \notin 1..Len(q)
  <2>1. j - Len(q) \in 1..Len(r) /\ c[j] = r[j - Len(q)] /\ Has(q, S)
    BY <1>1, <1>3 DEF Has
  <2> QED  BY <2>1 DEF Has
<1>4. CASE i \notin 1..Len(q)
  <2>0. j \notin 1..Len(q)
    BY <1>1, <1>4
  <2>1. /\ i - Len(q) \in 1..Len(r) /\ c[i] = r[i - Len(q)]
        /\ j - Len(q) \in 1..Len(r) /\ c[j] = r[j - Len(q)]
    BY <1>1, <1>4, <2>0
  <2>2. i - Len(q) < j - Len(q)
    BY <1>1
  <2> QED  BY <2>1, <2>2 DEF Never
<1> QED  BY <1>2, <1>3, <1>4

LEMMA RestNever ==
  ASSUME NEW M, NEW q \in Seq(M), q # <<>>, NEW S, NEW T, Never(q, S, T)
  PROVE  /\ Never(Tail(q), S, T)
         /\ Head(q) \in S => ~Has(Tail(q), T)
<1>1. PICK t : t = Tail(q)
  OBVIOUS
<1>2. /\ Len(q) \in Nat \ {0} /\ Head(q) = q[1] /\ Len(t) = Len(q) - 1
      /\ \A i \in 1..Len(t) : i + 1 \in 2..Len(q) /\ t[i] = q[i + 1]
  BY <1>1, RestItems
<1>3. ASSUME NEW i \in 1..Len(t), NEW j \in 1..Len(t), i < j, t[i] \in S PROVE t[j] \notin T
  <2>1. i + 1 \in 1..Len(q) /\ j + 1 \in 1..Len(q) /\ i + 1 < j + 1
    BY <1>2, <1>3
  <2> QED  BY <1>2, <1>3, <2>1 DEF Never
<1>4. ASSUME Head(q) \in S, NEW i \in 1..Len(t) PROVE t[i] \notin T
  <2>1. 1 \in 1..Len(q) /\ i + 1 \in 1..Len(q) /\ 1 < i + 1
    BY <1>2
  <2> QED  BY <1>2, <1>4, <2>1 DEF Never
<1> QED  BY <1>1, <1>3, <1>4 DEF Never, Has

LEMMA JoinedLastIs ==
  ASSUME NEW M, NEW q \in Seq(M), NEW r \in Seq(M), NEW S, NEW T,
         LastIs(r, S, T) \/ (LastIs(q, S, T) /\ ~Has(r, S))
  PROVE  LastIs(q \o r, S, T)
<1> DEFINE c == q \o r
<1>1. /\ Len(c) = Len(q) + Len(r) /\ Len(q) \in Nat /\ Len(r) \in Nat
      /\ \A i \in 1..Len(q) : c[i] = q[i]
      /\ \A i \in 1..Len(r) : Len(q) + i \in 1..Len(c) /\ c[Len(q) + i] = r[i]
      /\ \A k \in 1..Len(c) :
           k \in 1..Len(q) \/ (k > Len(q) /\ k - Len(q) \in 1..Len(r) /\ c[k] = r[k - Len(q)])
  BY JoinedItems
<1> HIDE DEF c
<1>2. CASE LastIs(r, S, T)
  <2>1. PICK i \in 1..Len(r) : r[i] \in T /\ \A j \in i+1..Len(r) : r[j] \notin S
    BY <1>2 DEF LastIs
  <2>2. ASSUME NEW j \in Len(q)+i+1..Len(c) PROVE c[j] \notin S
    <3>1. j \in 1..Len(c) /\ j \notin 1..Len(q)
      BY <1>1
    <3>2. j - Len(q) \in 1..Len(r) /\ c[j] = r[j - Len(q)]
      BY <1>1, <3>1
    <3>3. j - Len(q) \in i+1..Len(r)
      BY <1>1, <3>2
    <3> QED  BY <2>1, <3>2, <3>3
  <2>3. Len(q) + i \in 1..Len(c) /\ c[Len(q) + i] \in T
    BY <1>1, <2>1
  <2> QED  BY <2>2, <2>3 DEF LastIs, c
<1>3. CASE LastIs(q, S, T) /\ ~Has(r, S)
  <2>1. PICK i \in 1..Len(q) : q[i] \in T /\ \A j \in i+1..Len(q) : q[j] \notin S
    BY <1>3 DEF LastIs
  <2>2. ASSUME NEW j \in i+1..Len(c) PROVE c[j] \notin S
    <3>1. j \in 1..Len(c)
      BY <1>1
    <3>2. CASE j \in 1..Len(q)
      BY <1>1, <2>1, <3>2
    <3>3. CASE j \notin 1..Len(q)
      BY <1>1, <1>3, <3>1, <3>3 DEF Has
    <3> QED  BY <3>2, <3>3
  <2>3. i \in 1..Len(c) /\ c[i] \in T
    BY <1>1, <2>1
  <2> QED  BY <2>2, <2>3 DEF LastIs, c
<1> QED  BY <1>2, <1>3

LEMMA RestLastIs ==
  ASSUME NEW M, NEW q \in Seq(M), q # <<>>, NEW S, NEW T, LastIs(q, S, T)
  PROVE  LastIs(Tail(q), S, T) \/ (Head(q) \in T /\ ~Has(Tail(q), S))
<1>1. PICK t : t = Tail(q)
  OBVIOUS
<1>2. /\ Len(q) \in Nat \ {0} /\ Head(q) = q[1] /\ Len(t) = Len(q) - 1
      /\ \A i \in 1..Len(t) : i + 1 \in 2..Len(q) /\ t[i] = q[i + 1]
      /\ \A j \in 2..Len(q) : j - 1 \in 1..Len(t) /\ q[j] = t[j - 1]
  BY <1>1, RestItems
<1>3. PICK i \in 1..Len(q) : q[i] \in T /\ \A j \in i+1..Len(q) : q[j] \notin S
  BY DEF LastIs
<1>4. CASE i = 1
  <2>1. ASSUME NEW j \in 1..Len(t) PROVE t[j] \notin S
    <3>1. j + 1 \in i+1..Len(q)
      BY <1>2, <1>4
    <3> QED  BY <1>2, <1>3, <3>1
  <2> QED  BY <1>1, <1>2, <1>3, <1>4, <2>1 DEF Has
<1>5. CASE i # 1
  <2>1. i - 1 \in 1..Len(t) /\ t[i - 1] \in T
    BY <1>2, <1>3, <1>5
  <2>2. ASSUME NEW j \in i-1+1..Len(t) PROVE t[j] \notin S
    <3>1. j \in 1..Len(t) /\ j + 1 \in i+1..Len(q)
      BY <1>2
    <3> QED  BY <1>2, <1>3, <3>1
  <2> QED  BY <1>1, <2>1, <2>2 DEF LastIs
<1> QED  BY <1>4, <1>5

LEMMA LastIsIn ==
  ASSUME NEW M, NEW q \in Seq(M), NEW S, NEW T, T \subseteq S, LastIs(q, S, T)
  PROVE  LastIn(q, S, T) /\ Has(q, T)
<1>1. PICK i \in 1..Len(q) : q[i] \in T /\ \A j \in i+1..Len(q) : q[j] \notin S
  BY DEF LastIs
<1>2. ASSUME NEW k \in 1..Len(q), q[k] \in S, \A j \in k+1..Len(q) : q[j] \notin S PROVE q[k] \in T
  <2>1. Len(q) \in Nat
    OBVIOUS
  <2>2. ~(k > i)
    <3>1. k > i => k \in i+1..Len(q)
      BY <2>1
    <3> QED  BY <1>1, <1>2, <3>1
  <2>3. ~(i > k)
    <3>1. i > k => i \in k+1..Len(q)
      BY <2>1
    <3> QED  BY <1>1, <1>2, <3>1
  <2>4. k = i
    BY <2>1, <2>2, <2>3
  <2> QED  BY <1>1, <2>4
<1> QED  BY <1>1, <1>2 DEF LastIn, Has

LEMMA OneLast ==
  ASSUME NEW a
  PROVE  /\ \A S, T : LastIs(<<a>>, S, T) <=> a \in T
         /\ \A S, T : Never(<<a>>, S, T)
<1>1. Len(<<a>>) = 1 /\ <<a>>[1] = a
  OBVIOUS
<1>2. 1..1 = {1} /\ 1+1..1 = {}
  OBVIOUS
<1> QED  BY <1>1, <1>2 DEF LastIs, Never

(***************************************************************************)
(* Indices.                                                                *)
(***************************************************************************)

\* A set of naturals has a smallest member: 0..m is then the smallest of the sets 0..n.
LEMMA LeastThereIs == ASSUME NEW S \in SUBSET Nat, S # {} PROVE \E m \in S : \A n \in S : m =< n
<1> DEFINE Below == {0..n : n \in S}
<1>1. Below \subseteq FiniteSubsetsOf(Nat)
  <2>1. ASSUME NEW n \in S PROVE IsFiniteSet(0..n) /\ 0..n \in SUBSET Nat
    BY FS_Interval
  <2> QED  BY <2>1 DEF FiniteSubsetsOf
<1>2. Below # {}
  OBVIOUS
<1>3. PICK B \in Below : \A C \in Below : ~(<<C, B>> \in StrictSubsetOrdering(Nat))
  BY <1>1, <1>2, FS_StrictSubsetOrderingWellFounded, WFMin
<1>4. PICK m \in S : B = 0..m
  OBVIOUS
<1>5. ASSUME NEW n \in S, n < m PROVE FALSE
  <2>1. 0..n \in Below /\ 0..n \subseteq 0..m /\ m \in 0..m /\ ~(m \in 0..n)
    BY <1>5
  <2>2. <<0..n, 0..m>> \in StrictSubsetOrdering(Nat)
    BY <2>1 DEF StrictSubsetOrdering
  <2> QED  BY <1>3, <1>4, <2>1, <2>2
<1>6. \A n \in S : m =< n
  BY <1>5
<1> QED  BY <1>6

\* Counting the members of a set of indices up to each index reaches every rank.
LEMMA RankReached ==
  ASSUME NEW n \in Nat, NEW at, at \subseteq 1..n, NEW k \in 1..Cardinality(at)
  PROVE  \E i \in at : Cardinality({j \in at : j <= i}) = k
<1> DEFINE upTo(i) == {j \in at : j <= i}
<1> DEFINE enough == {i \in Nat : Cardinality(upTo(i)) >= k}
<1>0. \A j \in at : j \in Nat /\ 1 <= j /\ j <= n
  OBVIOUS
<1>1. IsFiniteSet(at)
  <2>1. 1 \in Int /\ n \in Int
    OBVIOUS
  <2>2. IsFiniteSet(1..n)
    BY <2>1, FS_Interval
  <2> QED  BY <2>2, FS_Subset
<1>2. ASSUME NEW i \in Nat PROVE IsFiniteSet(upTo(i)) /\ Cardinality(upTo(i)) \in Nat
  <2>1. IsFiniteSet(upTo(i))
    BY <1>1, FS_Subset
  <2> HIDE DEF upTo
  <2> QED  BY <2>1, FS_CardinalityType
<1>3. Cardinality(at) \in Nat
  BY <1>1, FS_CardinalityType
<1>4. n \in enough
  <2>1. upTo(n) = at
    BY <1>0
  <2> HIDE DEF upTo
  <2> QED  BY <1>3, <2>1
<1>5. PICK i \in enough : \A j \in enough : i <= j
  <2>1. enough \in SUBSET Nat /\ enough # {}
    BY <1>4
  <2> HIDE DEF enough
  <2>2. \E i \in enough : \A j \in enough : i <= j
    BY <2>1, LeastThereIs
  <2> QED  BY <2>2
<1>6. i \in Nat /\ Cardinality(upTo(i)) >= k
  BY <1>5
<1>7. i # 0
  <2>0. \A j \in at : ~(j <= 0)
    BY <1>0
  <2>1. upTo(0) = {}
    BY <2>0
  <2> HIDE DEF upTo
  <2>2. Cardinality(upTo(0)) = 0
    BY <2>1, FS_EmptySet
  <2> QED  BY <1>6, <2>2
<1>8. i - 1 \in Nat /\ Cardinality(upTo(i - 1)) < k
  <2>0. i - 1 \in Nat /\ ~(i <= i - 1)
    BY <1>6, <1>7
  <2>1. i - 1 \in Nat /\ i - 1 \notin enough
    <3> HIDE DEF enough
    <3> QED  BY <1>5, <2>0
  <2>2. Cardinality(upTo(i - 1)) \in Nat
    BY <1>2, <2>1
  <2>3. ~(Cardinality(upTo(i - 1)) >= k)
    BY <2>1
  <2> HIDE DEF upTo, enough
  <2> QED  BY <2>1, <2>2, <2>3
<1>9. i \in at
  <2> SUFFICES ASSUME i \notin at PROVE FALSE
    OBVIOUS
  <2>1. \A j \in at : j <= i <=> j <= i - 1
    BY <1>0, <1>6
  <2>3. upTo(i) = upTo(i - 1)
    BY <2>1
  <2> HIDE DEF upTo
  <2>2. Cardinality(upTo(i - 1)) \in Nat
    BY <1>2, <1>8
  <2> QED  BY <1>6, <1>8, <2>3, <2>2
<1>10. upTo(i) = upTo(i - 1) \cup {i} /\ i \notin upTo(i - 1)
  <2>1. \A j \in at : j <= i <=> j <= i - 1 \/ j = i
    BY <1>0, <1>6
  <2>2. i <= i /\ ~(i <= i - 1)
    BY <1>6
  <2> QED  BY <1>9, <2>1, <2>2
<1> HIDE DEF upTo, enough
<1>11. Cardinality(upTo(i)) = Cardinality(upTo(i - 1)) + 1
  BY <1>2, <1>8, <1>10, FS_AddElement
<1>12. Cardinality(upTo(i)) = k
  BY <1>2, <1>6, <1>8, <1>11
<1> QED  BY <1>9, <1>12 DEF upTo

\* The items at some places of a queue, in their order, are a queue.
LEMMA PickedItems ==
  ASSUME NEW M, NEW queue \in Seq(M), NEW at, at \subseteq DOMAIN queue
  PROVE  /\ [k \in 1..Cardinality(at) |-> queue[CHOOSE i \in at : Cardinality({j \in at : j <= i}) = k]]
              \in Seq({queue[i] : i \in at})
         /\ Cardinality(at) \in Nat /\ Cardinality(at) <= Len(queue)
<1> DEFINE N == Cardinality(at)
<1> DEFINE result == [k \in 1..N |-> queue[CHOOSE i \in at : Cardinality({j \in at : j <= i}) = k]]
<1> DEFINE T == {queue[i] : i \in at}
<1>1. DOMAIN queue = 1..Len(queue) /\ Len(queue) \in Nat
  OBVIOUS
<1>2. at \subseteq 1..Len(queue)
  BY <1>1
<1>3. N \in Nat /\ N <= Len(queue)
  <2>1. 1 \in Int /\ Len(queue) \in Int
    BY <1>1
  <2>2. /\ IsFiniteSet(1..Len(queue))
        /\ Cardinality(1..Len(queue)) = IF 1 > Len(queue) THEN 0 ELSE Len(queue) - 1 + 1
    BY <2>1, FS_Interval
  <2>3. Cardinality(1..Len(queue)) = Len(queue)
    BY <1>1, <2>2
  <2>4. IsFiniteSet(at) /\ Cardinality(at) <= Cardinality(1..Len(queue))
    BY <1>2, <2>2, FS_Subset
  <2> QED  BY <2>3, <2>4, FS_CardinalityType
<1>4. ASSUME NEW k \in 1..N
      PROVE  queue[CHOOSE i \in at : Cardinality({j \in at : j <= i}) = k] \in T
  <2>0. PICK n : n = Len(queue)
    OBVIOUS
  <2>1. n \in Nat /\ at \subseteq 1..n /\ k \in 1..Cardinality(at)
    BY <1>1, <1>2, <2>0
  <2>2. \E i \in at : Cardinality({j \in at : j <= i}) = k
    BY <2>1, RankReached
  <2>3. PICK m : m = CHOOSE i \in at : Cardinality({j \in at : j <= i}) = k
    OBVIOUS
  <2>4. m \in at
    BY <2>2, <2>3, Zenon
  <2> QED  BY <2>3, <2>4
<1> HIDE DEF N, T
<1>5. result \in [1..N -> T]
  BY <1>4
<1>6. \A f : f \in [1..N -> T] => f \in Seq(T)
  BY <1>3
<1>7. result \in Seq(T)
  BY <1>5, <1>6
<1> QED  BY <1>3, <1>7 DEF N, T

(***************************************************************************)
(* How many.                                                               *)
(***************************************************************************)

LEMMA CountIsNat ==
  ASSUME NEW q, NEW S, NEW n \in Nat
  PROVE  IsFiniteSet({i \in 1..n : q[i] \in S}) /\ CountTo(q, S, n) \in Nat
<1>1. PICK at : at = {i \in 1..n : q[i] \in S}
  OBVIOUS
<1>2. 1 \in Int /\ n \in Int
  OBVIOUS
<1>3. IsFiniteSet(1..n)
  BY <1>2, FS_Interval
<1>4. at \subseteq 1..n
  BY <1>1
<1>5. IsFiniteSet(at)
  BY <1>3, <1>4, FS_Subset
<1> QED  BY <1>1, <1>5, FS_CardinalityType DEF CountTo

LEMMA CountNothing == ASSUME NEW q, NEW S PROVE CountTo(q, S, 0) = 0
<1>1. {i \in 1..0 : q[i] \in S} = {}
  OBVIOUS
<1> QED  BY <1>1, FS_EmptySet DEF CountTo

LEMMA CountNext ==
  ASSUME NEW q, NEW S, NEW n \in Nat
  PROVE  /\ q[n + 1] \in S => CountTo(q, S, n + 1) = CountTo(q, S, n) + 1
         /\ q[n + 1] \notin S => CountTo(q, S, n + 1) = CountTo(q, S, n)
<1>1. PICK before : before = {i \in 1..n : q[i] \in S}
  OBVIOUS
<1>2. PICK after : after = {i \in 1..n+1 : q[i] \in S}
  OBVIOUS
<1>3. after = IF q[n + 1] \in S THEN before \cup {n + 1} ELSE before
  <2>1. \A i : i \in 1..n+1 <=> i \in 1..n \/ i = n + 1
    OBVIOUS
  <2>2. \A i : i \in after <=> (i \in 1..n \/ i = n + 1) /\ q[i] \in S
    BY <1>2, <2>1
  <2>3. \A i : i \in before <=> i \in 1..n /\ q[i] \in S
    BY <1>1
  <2>4. CASE q[n + 1] \in S
    <3>1. \A i : i \in after <=> i \in before \/ i = n + 1
      BY <2>2, <2>3, <2>4
    <3> QED  BY <2>4, <3>1
  <2>5. CASE q[n + 1] \notin S
    <3>1. \A i : i \in after <=> i \in before
      BY <2>2, <2>3, <2>5
    <3> QED  BY <2>5, <3>1
  <2> QED  BY <2>4, <2>5
<1>4. IsFiniteSet(before) /\ n + 1 \notin before
  <2>1. IsFiniteSet(before)
    BY <1>1, CountIsNat
  <2>2. n + 1 \notin 1..n
    OBVIOUS
  <2> QED  BY <1>1, <2>1, <2>2
<1>5. Cardinality(before \cup {n + 1}) = Cardinality(before) + 1
  BY <1>4, FS_AddElement
<1> QED  BY <1>1, <1>2, <1>3, <1>5 DEF CountTo

LEMMA CountSame ==
  ASSUME NEW q, NEW r, NEW S, NEW n, Alike(q, r, n)
  PROVE  CountTo(q, S, n) = CountTo(r, S, n)
<1>1. {i \in 1..n : q[i] \in S} = {i \in 1..n : r[i] \in S}
  BY DEF Alike
<1> QED  BY <1>1 DEF CountTo

LEMMA CountSkips ==
  ASSUME NEW q, NEW S, NEW n \in Nat, NEW m \in Nat, n <= m, \A i \in n+1..m : q[i] \notin S
  PROVE  CountTo(q, S, m) = CountTo(q, S, n)
<1>1. \A i \in 1..m : q[i] \in S => i \in 1..n
  OBVIOUS
<1>2. {i \in 1..m : q[i] \in S} = {i \in 1..n : q[i] \in S}
  BY <1>1
<1> QED  BY <1>2 DEF CountTo

\* The places of the rest of a queue are those of the queue, each one earlier.
LEMMA CountRest ==
  ASSUME NEW M, NEW q \in Seq(M), q # <<>>, NEW S, NEW n \in Nat, n < Len(q)
  PROVE  CountTo(q, S, n + 1) =
           IF Head(q) \in S THEN CountTo(Tail(q), S, n) + 1 ELSE CountTo(Tail(q), S, n)
<1>1. PICK t : t = Tail(q)
  OBVIOUS
<1>2. /\ Head(q) = q[1]
      /\ \A i \in 1..n : t[i] = q[i + 1]
  BY <1>1
<1>3. PICK late : late = {i \in 1..n : t[i] \in S}
  OBVIOUS
<1>4. PICK all : all = {i \in 1..n+1 : q[i] \in S}
  OBVIOUS
<1>5. PICK rest : rest = all \ {1}
  OBVIOUS
<1>6. PICK f : f = [i \in late |-> i + 1]
  OBVIOUS
<1>7. f \in Injection(late, rest)
  <2>1. \A i \in late : i + 1 \in rest
    BY <1>2, <1>3, <1>4, <1>5
  <2>2. \A i, j \in late : i + 1 = j + 1 => i = j
    BY <1>3
  <2> QED  BY <1>6, <2>1, <2>2 DEF Injection, IsInjective
<1>8. f \in Surjection(late, rest)
  <2> SUFFICES ASSUME NEW j \in rest PROVE \E i \in late : f[i] = j
    BY <1>7 DEF Surjection, Injection
  <2>1. j \in 1..n+1 /\ j # 1 /\ q[j] \in S
    BY <1>4, <1>5
  <2>2. j - 1 \in 1..n /\ (j - 1) + 1 = j
    BY <2>1
  <2>3. j - 1 \in late
    BY <1>2, <1>3, <2>1, <2>2
  <2> QED  BY <1>6, <2>2, <2>3
<1>9. ExistsBijection(late, rest)
  BY <1>7, <1>8 DEF ExistsBijection, Bijection
<1>10. /\ IsFiniteSet(late) /\ Cardinality(late) = CountTo(t, S, n)
       /\ Cardinality(late) \in Nat
  BY <1>3, CountIsNat DEF CountTo
<1>11. /\ IsFiniteSet(all) /\ Cardinality(all) = CountTo(q, S, n + 1)
       /\ Cardinality(all) \in Nat
  <2>1. n + 1 \in Nat
    OBVIOUS
  <2> QED  BY <1>4, <2>1, CountIsNat DEF CountTo
<1>12. Cardinality(rest) = Cardinality(late)
  BY <1>9, <1>10, FS_Bijection
<1>13. Cardinality(rest) = IF 1 \in all THEN Cardinality(all) - 1 ELSE Cardinality(all)
  BY <1>5, <1>11, FS_RemoveElement
<1>14. 1 \in all <=> Head(q) \in S
  BY <1>2, <1>4
<1> QED  BY <1>1, <1>10, <1>11, <1>12, <1>13, <1>14
=============================================================================
