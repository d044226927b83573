--------------------------- MODULE Clients_proofs ---------------------------
(***************************************************************************)
(* Theorems about Clients.                                                 *)
(*                                                                         *)
(* The handlers compute a record W of the server and give another, and     *)
(* apply many operators on the way.  The invariant Good(W) is stated of    *)
(* any W; GoodBut(W, ks, cs) is what holds half way: the lists of the keys *)
(* ks may be empty, and the limits of the clients cs are not looked at.    *)
(* What an operator does to the order of the queues and to the work that   *)
(* is left is a relation between the two records (Quiet, Calm, Goes,       *)
(* Released, Served, Obeyed, Turned, Read, Drained).  A lemma ...Good says *)
(* that an operator keeps Good and which relation it establishes.          *)
(* The order of the file: sequences and tables; one client's record;       *)
(* replies and limits; publishing; watching; blocking; closing; the        *)
(* commands of the dataset; serving; transactions; the loops; the actions. *)
(***************************************************************************)
EXTENDS Clients, SumTheorems, SequenceTheorems

----------------------------------------------------------------------------
\* Sequences.
LEMMA EmptyIs == \A X : Empty \in Seq(X) /\ Len(Empty) = 0
BY DEF Empty

LEMMA ContainsRange ==
  ASSUME NEW X, NEW s \in Seq(X), NEW e
  PROVE  Contains(s, e) <=> e \in Range(s)
BY DEF Contains, Range

LEMMA AppendContains ==
  ASSUME NEW X, NEW s \in Seq(X), NEW e \in X
  PROVE  /\ Append(s, e) \in Seq(X) /\ Append(s, e) # Empty /\ Len(Append(s, e)) = Len(s) + 1
         /\ \A x : Contains(Append(s, e), x) <=> Contains(s, x) \/ x = e
<1> DEFINE u == Append(s, e)
<1>1. Len(s) \in Nat /\ u \in Seq(X) /\ Len(u) = Len(s) + 1
  OBVIOUS
<1>2. u[Len(s) + 1] = e /\ \A i \in 1..Len(s) : u[i] = s[i]
  OBVIOUS
<1> HIDE DEF u
<1>3. u # Empty
  BY <1>1, EmptyIs
<1>4. ASSUME NEW x PROVE Contains(u, x) <=> Contains(s, x) \/ x = e
  BY <1>1, <1>2 DEF Contains
<1> QED
  BY <1>1, <1>3, <1>4 DEF u

LEMMA AppendOnce ==
  ASSUME NEW X, NEW s \in Seq(X), IsInjective(s), NEW e \in X, ~Contains(s, e)
  PROVE  IsInjective(Append(s, e))
<1> DEFINE u == Append(s, e)
<1>1. Len(s) \in Nat /\ DOMAIN u = 1..Len(s) + 1 /\ DOMAIN s = 1..Len(s)
  OBVIOUS
<1>2. u[Len(s) + 1] = e /\ \A i \in 1..Len(s) : u[i] = s[i]
  OBVIOUS
<1> HIDE DEF u
<1>3. \A i \in 1..Len(s) : s[i] # e
  BY DEF Contains
<1>4. \A i \in 1..Len(s) + 1 : i = Len(s) + 1 \/ i \in 1..Len(s)
  BY <1>1
<1>5. IsInjective(u)
  BY <1>1, <1>2, <1>3, <1>4 DEF IsInjective
<1> QED
  BY <1>5 DEF u

LEMMA OneIs ==
  ASSUME NEW X, NEW e \in X
  PROVE  /\ <<e>> \in Seq(X) /\ <<e>> # Empty /\ IsInjective(<<e>>)
         /\ \A x : Contains(<<e>>, x) <=> x = e
BY DEF Empty, IsInjective, Contains

LEMMA NatMin ==
  ASSUME NEW N \in SUBSET Nat, N # {}
  PROVE  Min(N) \in N /\ \A y \in N : Min(N) <= y
<1>1. PICK x \in N : \A y \in N : <<y, x>> \notin OpToRel(<, Nat)
  BY WFMin, NatLessThanWellFounded
<1>2. \A y \in N : ~(y < x)
  BY <1>1 DEF OpToRel
<1>3. \A y \in N : x <= y
  BY <1>2
<1> QED
  BY <1>3 DEF Min

\* What is left of a list when the first e is taken out: where each element was.
LEMMA RemoveFirstIs ==
  ASSUME NEW X, NEW s \in Seq(X), NEW e, Contains(s, e)
  PROVE  \E n \in 1..Len(s) :
            /\ s[n] = e /\ \A i \in 1..n - 1 : s[i] # e
            /\ RemoveFirst(s, e) \in Seq(X) /\ Len(RemoveFirst(s, e)) = Len(s) - 1
            /\ \A i \in 1..Len(s) - 1 : RemoveFirst(s, e)[i] = IF i < n THEN s[i] ELSE s[i + 1]
<1> DEFINE I == {i \in 1..Len(s) : s[i] = e}
           n == Min(I)
           a == SubSeq(s, 1, n - 1)
           b == SubSeq(s, n + 1, Len(s))
           u == a \o b
<1>1. I \in SUBSET Nat /\ I # {}
  BY DEF Contains
<1>2. n \in I /\ \A y \in I : n <= y
  BY ONLY <1>1, NatMin
<1>3. RemoveFirst(s, e) = u
  BY <1>1 DEF RemoveFirst, RemoveAt, SelectInSeq, Contains
<1> HIDE DEF n
<1>4. n \in 1..Len(s) /\ s[n] = e /\ \A i \in 1..n - 1 : s[i] # e
  BY <1>2
<1>5. Len(s) \in Nat /\ n \in Nat
  BY <1>4
<1>6. a \in Seq(X) /\ Len(a) = n - 1 /\ \A i \in 1..n - 1 : a[i] = s[i]
  BY <1>4, <1>5
<1>7. b \in Seq(X) /\ Len(b) = Len(s) - n /\ \A i \in 1..Len(s) - n : b[i] = s[n + i]
  BY <1>4, <1>5
<1> HIDE DEF a, b
<1>8. u \in Seq(X) /\ Len(u) = Len(s) - 1
  <2>1. u \in Seq(X) /\ Len(u) = Len(a) + Len(b)
    BY ONLY <1>6, <1>7
  <2>2. Len(u) = Len(s) - 1
    BY ONLY <1>4, <1>5, <1>6, <1>7, <2>1
  <2> QED
    BY <2>1, <2>2
<1>9. ASSUME NEW i \in 1..Len(s) - 1 PROVE u[i] = IF i < n THEN s[i] ELSE s[i + 1]
  <2>1. u[i] = IF i <= Len(a) THEN a[i] ELSE b[i - Len(a)]
    BY <1>5, <1>6, <1>7
  <2>2. CASE i < n
    BY <1>5, <1>6, <2>1, <2>2
  <2>3. CASE ~(i < n)
    <3>1. i - Len(a) \in 1..Len(s) - n /\ n + (i - Len(a)) = i + 1
      BY <1>5, <1>6, <2>3
    <3> QED
      BY <1>5, <1>6, <1>7, <2>1, <2>3, <3>1
  <2> QED
    BY <2>2, <2>3
<1> QED
  BY <1>3, <1>4, <1>8, <1>9

LEMMA RemoveFirstList ==
  ASSUME NEW X, NEW s \in Seq(X), NEW e
  PROVE  /\ RemoveFirst(s, e) \in Seq(X)
         /\ Contains(s, e) => Len(RemoveFirst(s, e)) = Len(s) - 1
         /\ ~Contains(s, e) => RemoveFirst(s, e) = s
         /\ \A x : x # e => (Contains(RemoveFirst(s, e), x) <=> Contains(s, x))
<1>1. CASE ~Contains(s, e)
  BY <1>1 DEF RemoveFirst, Contains
<1>2. CASE Contains(s, e)
  <2> DEFINE u == RemoveFirst(s, e)
  <2>1. PICK n \in 1..Len(s) :
            /\ s[n] = e /\ \A i \in 1..n - 1 : s[i] # e
            /\ u \in Seq(X) /\ Len(u) = Len(s) - 1
            /\ \A i \in 1..Len(s) - 1 : u[i] = IF i < n THEN s[i] ELSE s[i + 1]
    BY <1>2, RemoveFirstIs
  <2> HIDE DEF u
  <2>2. Len(s) \in Nat /\ n \in Nat
    OBVIOUS
  <2>3. ASSUME NEW x, x # e, Contains(u, x) PROVE Contains(s, x)
    BY <2>1, <2>2, <2>3 DEF Contains
  <2>4. ASSUME NEW x, x # e, Contains(s, x) PROVE Contains(u, x)
    <3>1. PICK i \in 1..Len(s) : s[i] = x
      BY <2>4 DEF Contains
    <3>2. i # n
      BY <2>1, <2>4, <3>1
    <3>3. CASE i < n
      BY <2>1, <2>2, <3>1, <3>3 DEF Contains
    <3>4. CASE i > n
      <4>1. i - 1 \in 1..Len(s) - 1 /\ ~(i - 1 < n) /\ (i - 1) + 1 = i
        BY <2>2, <3>4
      <4>2. u[i - 1] = s[i]
        BY <2>1, <4>1
      <4> QED
        BY <2>1, <3>1, <4>1, <4>2 DEF Contains
    <3> QED
      BY <2>2, <3>2, <3>3, <3>4
  <2> QED
    BY <1>2, <2>1, <2>3, <2>4 DEF u
<1> QED
  BY <1>1, <1>2

\* A list without repetitions stays one, and loses e.
LEMMA RemoveFirstInjective ==
  ASSUME NEW X, NEW s \in Seq(X), IsInjective(s), NEW e
  PROVE  IsInjective(RemoveFirst(s, e)) /\ ~Contains(RemoveFirst(s, e), e)
<1>1. CASE ~Contains(s, e)
  BY <1>1, RemoveFirstList
<1>2. CASE Contains(s, e)
  <2> DEFINE u == RemoveFirst(s, e)
  <2>1. PICK n \in 1..Len(s) :
            /\ s[n] = e /\ \A i \in 1..n - 1 : s[i] # e
            /\ u \in Seq(X) /\ Len(u) = Len(s) - 1
            /\ \A i \in 1..Len(s) - 1 : u[i] = IF i < n THEN s[i] ELSE s[i + 1]
    BY <1>2, RemoveFirstIs
  <2> HIDE DEF u
  <2>2. Len(s) \in Nat /\ n \in Nat /\ DOMAIN s = 1..Len(s) /\ DOMAIN u = 1..Len(s) - 1
    BY <2>1
  <2> DEFINE at(i) == IF i < n THEN i ELSE i + 1
  <2>3. \A i \in 1..Len(s) - 1 : u[i] = s[at(i)] /\ at(i) \in DOMAIN s /\ at(i) # n
    BY <2>1, <2>2
  <2>4. \A i, j \in 1..Len(s) - 1 : at(i) = at(j) => i = j
    BY <2>2
  <2> HIDE DEF at
  <2>5. IsInjective(u)
    BY <2>2, <2>3, <2>4 DEF IsInjective
  <2>6. ~Contains(u, e)
    BY <2>1, <2>2, <2>3 DEF Contains, IsInjective
  <2> QED
    BY <2>5, <2>6 DEF u
<1> QED
  BY <1>1, <1>2

LEMMA HeadTailIs ==
  ASSUME NEW X, NEW s \in Seq(X), s # Empty
  PROVE  /\ Head(s) \in X /\ Tail(s) \in Seq(X) /\ Len(Tail(s)) = Len(s) - 1 /\ Len(s) \in Nat \ {0}
         /\ Contains(s, Head(s)) /\ Head(s) = s[1]
         /\ \A x : Contains(s, x) <=> x = Head(s) \/ Contains(Tail(s), x)
         /\ \A i \in 1..Len(s) - 1 : Tail(s)[i] = s[i + 1]
<1>1. Len(s) \in Nat \ {0} /\ Head(s) = s[1] /\ s[1] \in X
  BY DEF Empty
<1>2. Tail(s) \in Seq(X) /\ Len(Tail(s)) = Len(s) - 1 /\ \A i \in 1..Len(s) - 1 : Tail(s)[i] = s[i + 1]
  BY DEF Empty
<1> DEFINE t == Tail(s)
<1> HIDE DEF t
<1>3. ASSUME NEW x, Contains(s, x), x # Head(s) PROVE Contains(t, x)
  <2>1. PICK i \in 1..Len(s) : s[i] = x
    BY <1>3 DEF Contains
  <2>2. i - 1 \in 1..Len(s) - 1 /\ (i - 1) + 1 = i
    BY <1>1, <1>3, <2>1
  <2> QED
    BY <1>2, <2>1, <2>2 DEF Contains, t
<1>4. ASSUME NEW x, Contains(t, x) PROVE Contains(s, x)
  <2>1. PICK i \in 1..Len(s) - 1 : t[i] = x
    BY <1>2, <1>4 DEF Contains, t
  <2>2. i + 1 \in 1..Len(s) /\ s[i + 1] = x
    BY <1>1, <1>2, <2>1 DEF t
  <2> QED
    BY <2>2 DEF Contains
<1>5. Contains(s, Head(s))
  BY <1>1 DEF Contains
<1> QED
  BY <1>1, <1>2, <1>3, <1>4, <1>5 DEF t

LEMMA TailInjective ==
  ASSUME NEW X, NEW s \in Seq(X), s # Empty, IsInjective(s)
  PROVE  IsInjective(Tail(s)) /\ ~Contains(Tail(s), Head(s))
<1> DEFINE t == Tail(s)
<1>1. Len(s) \in Nat \ {0} /\ Head(s) = s[1] /\ t \in Seq(X) /\ Len(t) = Len(s) - 1
      /\ \A i \in 1..Len(s) - 1 : t[i] = s[i + 1]
  BY HeadTailIs
<1> HIDE DEF t
<1>2. DOMAIN t = 1..Len(s) - 1 /\ DOMAIN s = 1..Len(s) /\ 1 \in DOMAIN s
  BY <1>1
<1>3. \A i \in 1..Len(s) - 1 : i + 1 \in DOMAIN s /\ i + 1 # 1
  BY <1>1, <1>2
<1>4. IsInjective(t)
  BY <1>1, <1>2, <1>3 DEF IsInjective
<1>5. ~Contains(t, Head(s))
  BY <1>1, <1>2, <1>3 DEF IsInjective, Contains
<1> QED
  BY <1>4, <1>5 DEF t

\* Who comes before whom.
Precedes(s, c, d) == \E i, j \in 1..Len(s) : i < j /\ s[i] = c /\ s[j] = d

LEMMA AppendPrecedes ==
  ASSUME NEW X, NEW s \in Seq(X), NEW e \in X, NEW c, NEW d, Precedes(s, c, d)
  PROVE  Precedes(Append(s, e), c, d)
<1> DEFINE u == Append(s, e)
<1>1. Len(s) \in Nat /\ Len(u) = Len(s) + 1 /\ \A i \in 1..Len(s) : u[i] = s[i]
  OBVIOUS
<1> HIDE DEF u
<1> QED
  BY <1>1 DEF Precedes, u

LEMMA RemoveFirstPrecedes ==
  ASSUME NEW X, NEW s \in Seq(X), NEW e, NEW c, NEW d, Precedes(s, c, d), e # c, e # d
  PROVE  Precedes(RemoveFirst(s, e), c, d)
<1>1. CASE ~Contains(s, e)
  BY <1>1, RemoveFirstList
<1>2. CASE Contains(s, e)
  <2> DEFINE u == RemoveFirst(s, e)
  <2>1. PICK n \in 1..Len(s) :
            /\ s[n] = e /\ \A i \in 1..n - 1 : s[i] # e
            /\ u \in Seq(X) /\ Len(u) = Len(s) - 1
            /\ \A i \in 1..Len(s) - 1 : u[i] = IF i < n THEN s[i] ELSE s[i + 1]
    BY <1>2, RemoveFirstIs
  <2> HIDE DEF u
  <2>2. PICK i, j \in 1..Len(s) : i < j /\ s[i] = c /\ s[j] = d
    BY DEF Precedes
  <2>3. i # n /\ j # n /\ Len(s) \in Nat /\ n \in Nat
    BY <2>1, <2>2
  <2> DEFINE at(m) == IF m < n THEN m ELSE m - 1
  <2>4. at(i) \in 1..Len(s) - 1 /\ at(j) \in 1..Len(s) - 1 /\ at(i) < at(j)
    BY <2>2, <2>3
  <2>5. \A m \in 1..Len(s) : m # n /\ at(m) \in 1..Len(s) - 1 =>
                                  s[m] = IF at(m) < n THEN s[at(m)] ELSE s[at(m) + 1]
    BY <2>3
  <2>6. u[at(i)] = c /\ u[at(j)] = d
    BY <2>1, <2>2, <2>3, <2>4, <2>5
  <2> HIDE DEF at
  <2> QED
    BY <2>1, <2>4, <2>6 DEF Precedes, u
<1> QED
  BY <1>1, <1>2

\* The first of a list without repetitions comes before nobody who comes after somebody.
LEMMA HeadPrecedes ==
  ASSUME NEW X, NEW s \in Seq(X), IsInjective(s), NEW c, NEW d, Precedes(s, c, d)
  PROVE  s # Empty /\ Head(s) # d /\ Contains(s, c) /\ Contains(s, d)
<1>1. PICK i, j \in 1..Len(s) : i < j /\ s[i] = c /\ s[j] = d
  BY DEF Precedes
<1>2. Len(s) \in Nat \ {0} /\ j # 1 /\ DOMAIN s = 1..Len(s) /\ 1 \in 1..Len(s)
  BY <1>1
<1>3. s # Empty
  BY <1>2, EmptyIs
<1>4. Head(s) = s[1]
  BY <1>3, HeadTailIs
<1>5. Head(s) # d
  BY <1>1, <1>2, <1>4 DEF IsInjective
<1> QED
  BY <1>1, <1>3, <1>5 DEF Contains

----------------------------------------------------------------------------
\* The tables: an index lists, for each key, the clients F says.
IndexOk(index, F) ==
    /\ \A k \in DOMAIN index : index[k] \in Seq(Clients) /\ index[k] # Empty /\ IsInjective(index[k])
    /\ \A c \in Clients : \A k : k \in F[c] <=> k \in DOMAIN index /\ Contains(index[k], c)

\* No list loses its order.
Keeps(index, J) ==
    \A k \in DOMAIN index : k \in DOMAIN J /\ \A a, b : Precedes(index[k], a, b) => Precedes(J[k], a, b)

LEMMA JoinOk ==
  ASSUME NEW index, NEW F, IndexOk(index, F), NEW c \in Clients, NEW ks, \A k \in ks : k \notin F[c],
         NEW G, G[c] = F[c] \cup ks, \A d \in Clients \ {c} : G[d] = F[d]
  PROVE  IndexOk(Join(index, ks, c), G) /\ Keeps(index, Join(index, ks, c))
<1> DEFINE J == Join(index, ks, c)
<1>1. DOMAIN J = DOMAIN index \cup ks
  BY DEF Join
<1>2. \A k \in DOMAIN J :
         J[k] = IF k \notin ks THEN index[k] ELSE IF k \in DOMAIN index THEN Append(index[k], c) ELSE <<c>>
  BY DEF Join
<1> HIDE DEF J
<1>3. ASSUME NEW k \in DOMAIN index, k \in ks
      PROVE  /\ J[k] \in Seq(Clients) /\ J[k] # Empty /\ IsInjective(J[k])
             /\ \A d : Contains(J[k], d) <=> Contains(index[k], d) \/ d = c
             /\ \A a, b : Precedes(index[k], a, b) => Precedes(J[k], a, b)
  <2>1. index[k] \in Seq(Clients) /\ IsInjective(index[k]) /\ ~Contains(index[k], c)
    BY <1>3 DEF IndexOk
  <2>2. J[k] = Append(index[k], c)
    BY <1>1, <1>2, <1>3
  <2> DEFINE l == index[k]
  <2> HIDE DEF l
  <2>3. /\ Append(l, c) \in Seq(Clients) /\ Append(l, c) # Empty /\ IsInjective(Append(l, c))
        /\ \A d : Contains(Append(l, c), d) <=> Contains(l, d) \/ d = c
        /\ \A a, b : Precedes(l, a, b) => Precedes(Append(l, c), a, b)
    BY <2>1, AppendContains, AppendOnce, AppendPrecedes DEF l
  <2> QED
    BY <2>2, <2>3 DEF l
<1>4. ASSUME NEW k \in ks, k \notin DOMAIN index
      PROVE  /\ J[k] \in Seq(Clients) /\ J[k] # Empty /\ IsInjective(J[k])
             /\ \A d : Contains(J[k], d) <=> d = c
  <2>1. J[k] = <<c>>
    BY <1>1, <1>2, <1>4
  <2> QED
    BY ONLY <2>1, c \in Clients, OneIs
<1>5. \A k \in DOMAIN index : k \notin ks => J[k] = index[k]
  BY <1>1, <1>2
<1>6. \A k \in DOMAIN J : J[k] \in Seq(Clients) /\ J[k] # Empty /\ IsInjective(J[k])
  BY <1>1, <1>3, <1>4, <1>5 DEF IndexOk
<1>7. ASSUME NEW d \in Clients, NEW k PROVE k \in G[d] <=> k \in DOMAIN J /\ Contains(J[k], d)
  <2>1. k \in F[d] <=> k \in DOMAIN index /\ Contains(index[k], d)
    BY DEF IndexOk
  <2>2. G[d] = IF d = c THEN F[d] \cup ks ELSE F[d]
    OBVIOUS
  <2>3. CASE k \in DOMAIN index /\ k \in ks
    BY <1>1, <1>3, <2>1, <2>2, <2>3
  <2>4. CASE k \notin DOMAIN index /\ k \in ks
    BY <1>1, <1>4, <2>1, <2>2, <2>4
  <2>5. CASE k \notin ks
    BY <1>1, <1>5, <2>1, <2>2, <2>5
  <2> QED
    BY <2>3, <2>4, <2>5
<1>8. IndexOk(J, G)
  BY <1>6, <1>7 DEF IndexOk
<1>9. \A k \in DOMAIN index : \A a, b : Precedes(index[k], a, b) => Precedes(J[k], a, b)
  BY <1>3, <1>5
<1> QED
  BY <1>1, <1>8, <1>9 DEF J, Keeps

LEMMA LeaveOk ==
  ASSUME NEW index, NEW F, IndexOk(index, F), NEW c \in Clients, NEW ks, ks \subseteq F[c],
         NEW G, G[c] = F[c] \ ks, \A d \in Clients \ {c} : G[d] = F[d]
  PROVE  /\ IndexOk(Leave(index, ks, c), G)
         /\ DOMAIN Leave(index, ks, c) \subseteq DOMAIN index
         /\ \A k \in DOMAIN Leave(index, ks, c) :
               Leave(index, ks, c)[k] = IF k \in ks THEN RemoveFirst(index[k], c) ELSE index[k]
         /\ \A k \in DOMAIN index \ DOMAIN Leave(index, ks, c) : k \in ks /\ RemoveFirst(index[k], c) = Empty
         /\ \A k \in DOMAIN index : \A a, b : Precedes(index[k], a, b) /\ a # c /\ b # c =>
               k \in DOMAIN Leave(index, ks, c) /\ Precedes(Leave(index, ks, c)[k], a, b)
<1> DEFINE L == Leave(index, ks, c)
           left(k) == IF k \in ks THEN RemoveFirst(index[k], c) ELSE index[k]
<1>1. L = [k \in {k \in DOMAIN index : left(k) # Empty} |-> left(k)]
  BY DEF Leave
<1>2. DOMAIN L = {k \in DOMAIN index : left(k) # Empty} /\ \A k \in DOMAIN L : L[k] = left(k)
  BY <1>1
<1> HIDE DEF L
<1>3. ASSUME NEW k \in DOMAIN index
      PROVE  /\ left(k) \in Seq(Clients) /\ IsInjective(left(k))
             /\ \A d \in Clients : Contains(left(k), d) <=> Contains(index[k], d) /\ ~(d = c /\ k \in ks)
             /\ \A a, b : Precedes(index[k], a, b) /\ a # c /\ b # c => Precedes(left(k), a, b)
  <2>1. index[k] \in Seq(Clients) /\ IsInjective(index[k])
    BY DEF IndexOk
  <2> DEFINE l == index[k]
  <2> HIDE DEF l
  <2>2. /\ RemoveFirst(l, c) \in Seq(Clients) /\ IsInjective(RemoveFirst(l, c))
        /\ \A d \in Clients : Contains(RemoveFirst(l, c), d) <=> Contains(l, d) /\ d # c
        /\ \A a, b : Precedes(l, a, b) /\ a # c /\ b # c => Precedes(RemoveFirst(l, c), a, b)
    BY <2>1, RemoveFirstList, RemoveFirstInjective, RemoveFirstPrecedes DEF l
  <2> QED
    BY <2>1, <2>2 DEF l
<1>4. \A k \in DOMAIN index : k \notin ks => left(k) # Empty
  BY DEF IndexOk
<1>5. \A k \in DOMAIN index : \A d : left(k) = Empty => ~Contains(left(k), d)
  BY EmptyIs DEF Contains
<1>6. \A k \in DOMAIN index : k \in ks => left(k) = RemoveFirst(index[k], c)
  OBVIOUS
<1>7. \A k \in DOMAIN index \ DOMAIN L : k \in ks /\ RemoveFirst(index[k], c) = Empty
  BY <1>2, <1>4
<1>8. \A k \in DOMAIN L : L[k] = IF k \in ks THEN RemoveFirst(index[k], c) ELSE index[k]
  BY <1>2
<1> HIDE DEF left
<1>9. \A k \in DOMAIN L : L[k] \in Seq(Clients) /\ L[k] # Empty /\ IsInjective(L[k])
  BY <1>2, <1>3
<1>10. ASSUME NEW d \in Clients, NEW k PROVE k \in G[d] <=> k \in DOMAIN L /\ Contains(L[k], d)
  <2>1. k \in F[d] <=> k \in DOMAIN index /\ Contains(index[k], d)
    BY DEF IndexOk
  <2>2. k \in G[d] <=> k \in F[d] /\ ~(d = c /\ k \in ks)
    OBVIOUS
  <2>3. CASE k \in DOMAIN index
    <3>1. Contains(left(k), d) <=> Contains(index[k], d) /\ ~(d = c /\ k \in ks)
      BY <1>3, <2>3
    <3> QED
      BY <1>2, <1>5, <2>1, <2>2, <2>3, <3>1
  <2>4. CASE k \notin DOMAIN index
    BY <1>2, <2>1, <2>2, <2>4
  <2> QED
    BY <2>3, <2>4
<1>11. IndexOk(L, G)
  BY <1>9, <1>10 DEF IndexOk
<1>12. \A k \in DOMAIN index : \A a, b : Precedes(index[k], a, b) /\ a # c /\ b # c =>
               k \in DOMAIN L /\ Precedes(L[k], a, b)
  <2>1. \A k \in DOMAIN index : \A a, b : Precedes(left(k), a, b) => left(k) # Empty
    BY EmptyIs DEF Precedes
  <2> QED
    BY <1>2, <1>3, <2>1
<1> QED
  BY <1>2, <1>7, <1>8, <1>11, <1>12 DEF L

----------------------------------------------------------------------------
\* The server between two of its steps.
Fields == {"dict", "cl", "blocking_keys", "watched_keys", "channels", "patterns", "ready", "unblocked",
           "toclose", "link", "maxidletime", "counted"}
Attributes == {"alive", "authenticated", "flags", "querybuf", "commands", "keys", "left", "target", "where",
               "watched", "seen", "subs", "pats", "buf", "list", "soft", "idle"}

Shape(W) ==
    /\ DOMAIN W = Fields /\ DOMAIN W.cl = Clients
    /\ \A c \in Clients : DOMAIN W.cl[c] = Attributes

\* The commands a transaction may hold.
Queued == {q \in Command : Name(q) \notin {"EXEC", "DISCARD", "MULTI", "WATCH", "QUIT", "BOGUS"}}

ClientOk(me, slow) ==
    /\ me.flags \subseteq AllFlags /\ me.alive \in BOOLEAN /\ (~me.alive => me = NoClient)
    /\ me.querybuf \in Seq(Command) /\ me.commands \in Seq(Queued)
    /\ me.keys \subseteq Keys /\ ((me.keys # {}) <=> ("BLOCKED" \in me.flags))
    /\ IsFiniteSet(me.subs) /\ IsFiniteSet(me.pats) /\ me.pats \subseteq DOMAIN Matches
    /\ DOMAIN me.seen = me.watched
    /\ me.target \in Keys \cup {Nil} /\ me.where \in Where
    /\ me.buf \in Nat /\ me.list \in Nat /\ (slow \/ me.list = 0)

KeysOf(W) == [c \in Clients |-> W.cl[c].keys]
WatchedOf(W) == [c \in Clients |-> W.cl[c].watched]
SubsOf(W) == [c \in Clients |-> W.cl[c].subs]

Tables(W) ==
    /\ IndexOk(W.blocking_keys, KeysOf(W)) /\ IndexOk(W.watched_keys, WatchedOf(W))
    /\ IndexOk(W.channels, SubsOf(W))
    /\ W.patterns \in Seq(Clients \X DOMAIN Matches) /\ IsInjective(W.patterns)
    /\ \A c \in Clients : \A p : (p \in W.cl[c].pats) <=> Contains(W.patterns, <<c, p>>)

Queues(W) ==
    /\ W.unblocked \in Seq(Clients)
    /\ \A c \in Clients : "UNBLOCKED" \in W.cl[c].flags => Contains(W.unblocked, c)

\* The dataset, and the lists that were made since the last client was served.
Values(d) ==
    \A k \in DOMAIN d : /\ DOMAIN d[k] = {"type", "enc", "v"} /\ d[k].type \in {"string", "list"}
                        /\ d[k].type = "list" => d[k].v \in Seq(Elems)
Full(d, ks) == \A k \in DOMAIN d \ ks : d[k].type = "list" => d[k].v # Empty
Pending(W, ks) == \A k \in DOMAIN W.blocking_keys : k \in ks \/ (IsList(W, k) => Contains(W.ready, k))
Fresh(W) ==
    \A c \in Clients : "DIRTY_CAS" \in W.cl[c].flags
                          \/ \A k \in W.cl[c].watched : Content(W.dict, k) = W.cl[c].seen[k]
ReadyDirty(W) ==
    \A c \in Clients : "DIRTY_CAS" \in W.cl[c].flags \/ \A k \in W.cl[c].watched : ~Contains(W.ready, k)
Data(W, ks) ==
    /\ Values(W.dict) /\ Full(W.dict, ks)
    /\ W.ready \in Seq(Keys) /\ W.link \in Seq(Command) /\ Pending(W, ks) /\ Fresh(W) /\ ReadyDirty(W)

CoreBut(W, ks) ==
    /\ Shape(W)
    /\ \A c \in Clients : ClientOk(W.cl[c], c \in W.counted)
    /\ Tables(W) /\ Queues(W) /\ Data(W, ks)
Core(W) == CoreBut(W, {})

\* Who is to be closed, and why.
Closing(W) ==
    /\ W.toclose \in Seq(Clients) /\ IsInjective(W.toclose)
    /\ \A c \in Clients : Contains(W.toclose, c) <=> "CLOSE_ASAP" \in W.cl[c].flags
Limit(W, c) ==
    Reached(HardLimit[getClientLimitClass(W, c)], W.cl[c].list) =>
        W.cl[c].flags \cap {"CLOSE_ASAP", "CLOSE_AFTER_REPLY"} # {}
GoodBut(W, ks, cs) == CoreBut(W, ks) /\ \A c \in Clients \ cs : Limit(W, c)
Good(W) == GoodBut(W, {}, {}) /\ Closing(W)

----------------------------------------------------------------------------
\* From W to V: nobody overtakes, and nobody new waits or is queued.
Ahead(W, k, c, d) ==
    /\ k \in DOMAIN W.blocking_keys /\ Precedes(W.blocking_keys[k], c, d)
    /\ W.cl[d].keys = {k} /\ ~Contains(W.unblocked, d)
Settled(W, c, d) ==
    \/ Contains(W.unblocked, c) \/ ~W.cl[c].alive
    \/ ~W.cl[d].alive /\ ~Contains(W.unblocked, d)
InOrder(W, k, c, d) == Ahead(W, k, c, d) \/ Settled(W, c, d)
Orderly(W, V) == \A k : \A c, d \in Clients : InOrder(W, k, c, d) => InOrder(V, k, c, d)

Load(W) == Len(W.unblocked) + Cardinality(Waiting(W))

Goes(W, V) ==
    /\ Orderly(W, V) /\ Load(V) <= Load(W)
    /\ V.counted = W.counted /\ (Closing(W) => Closing(V))
    /\ \A d \in Clients : /\ V.cl[d].querybuf = W.cl[d].querybuf \/ V.cl[d].querybuf = Empty
                          /\ V.cl[d].alive => W.cl[d].alive

\* Nothing changes of who waits.
Quiet(W, V) ==
    /\ V.blocking_keys = W.blocking_keys /\ V.unblocked = W.unblocked /\ V.counted = W.counted
    /\ (Closing(W) => Closing(V))
    /\ \A d \in Clients :
        /\ V.cl[d].keys = W.cl[d].keys /\ V.cl[d].alive = W.cl[d].alive
        /\ V.cl[d].querybuf = W.cl[d].querybuf
        /\ "BLOCKED" \in V.cl[d].flags <=> "BLOCKED" \in W.cl[d].flags

LEMMA LoadNat == ASSUME NEW W, Queues(W) PROVE Load(W) \in Nat /\ IsFiniteSet(Waiting(W))
<1>1. Waiting(W) \subseteq Clients
  BY DEF Waiting
<1>2. IsFiniteSet(Waiting(W))
  BY <1>1, FS_Subset, ConnectionsBound
<1>3. Cardinality(Waiting(W)) \in Nat
  BY <1>2, FS_CardinalityType
<1>4. Len(W.unblocked) \in Nat
  BY DEF Queues
<1> QED
  BY <1>2, <1>3, <1>4 DEF Load

LEMMA GoesTrans ==
  ASSUME NEW U, NEW V, NEW W, Queues(U), Queues(V), Queues(W), Goes(U, V), Goes(V, W)
  PROVE  Goes(U, W)
<1>1. Load(W) <= Load(U)
  <2>1. Load(U) \in Nat /\ Load(V) \in Nat /\ Load(W) \in Nat
    BY LoadNat
  <2>2. Load(V) <= Load(U) /\ Load(W) <= Load(V)
    BY DEF Goes
  <2> QED
    BY ONLY <2>1, <2>2
<1>2. Orderly(U, W)
  BY DEF Goes, Orderly
<1> QED
  BY <1>1, <1>2 DEF Goes

LEMMA GoesRefl == ASSUME NEW W, Queues(W) PROVE Goes(W, W)
<1>1. Load(W) <= Load(W)
  BY LoadNat
<1> QED
  BY <1>1 DEF Goes, Orderly

LEMMA QuietGoes == ASSUME NEW W, NEW V, Queues(W), Quiet(W, V) PROVE Goes(W, V)
<1>1. Waiting(V) = Waiting(W)
  BY DEF Quiet, Waiting, Has
<1>2. Load(V) <= Load(W)
  BY <1>1, LoadNat DEF Load, Quiet
<1>3. ASSUME NEW k, NEW c \in Clients, NEW d \in Clients PROVE InOrder(W, k, c, d) <=> InOrder(V, k, c, d)
  BY DEF Quiet, InOrder, Ahead, Settled
<1> QED
  BY <1>2, <1>3 DEF Goes, Orderly, Quiet

LEMMA QuietTrans == ASSUME NEW U, NEW V, NEW W, Quiet(U, V), Quiet(V, W) PROVE Quiet(U, W)
BY DEF Quiet

----------------------------------------------------------------------------
\* The record of one client is replaced.
Put(W, c, r) == [W EXCEPT !.cl[c] = r]

LEMMA PutIs ==
  ASSUME NEW W, Shape(W), NEW c \in Clients, NEW r, DOMAIN r = Attributes
  PROVE  /\ Shape(Put(W, c, r)) /\ Put(W, c, r).cl[c] = r
         /\ \A d \in Clients : d # c => Put(W, c, r).cl[d] = W.cl[d]
         /\ Put(W, c, r).dict = W.dict /\ Put(W, c, r).blocking_keys = W.blocking_keys
         /\ Put(W, c, r).watched_keys = W.watched_keys /\ Put(W, c, r).channels = W.channels
         /\ Put(W, c, r).patterns = W.patterns /\ Put(W, c, r).ready = W.ready
         /\ Put(W, c, r).unblocked = W.unblocked /\ Put(W, c, r).toclose = W.toclose
         /\ Put(W, c, r).link = W.link /\ Put(W, c, r).counted = W.counted
         /\ Put(W, c, r).maxidletime = W.maxidletime
BY DEF Put, Shape, Fields

\* What may change of a client without the tables of the server noticing.
Tame(me, r) ==
    /\ DOMAIN r = Attributes /\ r.alive = me.alive
    /\ r.keys = me.keys /\ r.watched = me.watched /\ r.seen = me.seen /\ r.subs = me.subs /\ r.pats = me.pats
    /\ "BLOCKED" \in r.flags <=> "BLOCKED" \in me.flags
    /\ "UNBLOCKED" \in r.flags => "UNBLOCKED" \in me.flags
    /\ "DIRTY_CAS" \in me.flags => "DIRTY_CAS" \in r.flags

LEMMA PutTables ==
  ASSUME NEW W, Shape(W), NEW c \in Clients, NEW r, DOMAIN r = Attributes,
         LET me == W.cl[c] IN r.keys = me.keys /\ r.watched = me.watched /\ r.subs = me.subs /\ r.pats = me.pats,
         Tables(W)
  PROVE  Tables(Put(W, c, r))
<1> DEFINE V == Put(W, c, r)
<1>1. \A d \in Clients : V.cl[d].keys = W.cl[d].keys /\ V.cl[d].watched = W.cl[d].watched
                         /\ V.cl[d].subs = W.cl[d].subs /\ V.cl[d].pats = W.cl[d].pats
  BY PutIs
<1>2. /\ V.blocking_keys = W.blocking_keys /\ V.watched_keys = W.watched_keys /\ V.channels = W.channels
      /\ V.patterns = W.patterns
  BY PutIs
<1> HIDE DEF V
<1>3. KeysOf(V) = KeysOf(W) /\ WatchedOf(V) = WatchedOf(W) /\ SubsOf(V) = SubsOf(W)
  BY <1>1 DEF KeysOf, WatchedOf, SubsOf
<1>4. \A d \in Clients : \A p : p \in V.cl[d].pats <=> Contains(V.patterns, <<d, p>>)
  BY <1>1, <1>2 DEF Tables
<1> QED
  BY <1>2, <1>3, <1>4 DEF Tables, V

LEMMA PutCore ==
  ASSUME NEW W, NEW ks, CoreBut(W, ks), NEW c \in Clients, NEW r, Tame(W.cl[c], r), ClientOk(r, c \in W.counted)
  PROVE  CoreBut(Put(W, c, r), ks)
<1> DEFINE V == Put(W, c, r)
<1>1. Shape(W) /\ DOMAIN r = Attributes
  BY DEF CoreBut, Tame
<1>2. /\ Shape(V) /\ V.cl[c] = r /\ \A d \in Clients : d # c => V.cl[d] = W.cl[d]
      /\ V.dict = W.dict /\ V.blocking_keys = W.blocking_keys /\ V.ready = W.ready
      /\ V.unblocked = W.unblocked /\ V.counted = W.counted /\ V.link = W.link
  BY <1>1, PutIs
<1>3. Tables(V)
  BY <1>1, PutTables DEF CoreBut, Tame
<1> HIDE DEF V
<1>4. \A d \in Clients : ClientOk(V.cl[d], d \in V.counted)
  BY <1>2 DEF CoreBut
<1>5. Queues(V)
  BY <1>2 DEF CoreBut, Queues, Tame
<1>6. Fresh(V) /\ ReadyDirty(V)
  BY <1>2 DEF CoreBut, Data, Fresh, ReadyDirty, Tame
<1>7. Data(V, ks)
  BY <1>2, <1>6 DEF CoreBut, Data, Pending, IsList
<1> QED
  BY <1>2, <1>3, <1>4, <1>5, <1>7 DEF CoreBut, V

LEMMA PutGood ==
  ASSUME NEW W, NEW ks, NEW cs, GoodBut(W, ks, cs), NEW c \in Clients, NEW r, Tame(W.cl[c], r),
         ClientOk(r, c \in W.counted),
         "CLOSE_ASAP" \in r.flags <=> "CLOSE_ASAP" \in W.cl[c].flags,
         "CLOSE_AFTER_REPLY" \in W.cl[c].flags => "CLOSE_AFTER_REPLY" \in r.flags,
         r.list <= W.cl[c].list
  PROVE  GoodBut(Put(W, c, r), ks, cs)
<1> DEFINE V == Put(W, c, r)
           me == W.cl[c]
<1>1. CoreBut(V, ks)
  BY PutCore DEF GoodBut
<1>2. Shape(W) /\ DOMAIN r = Attributes
  BY DEF CoreBut, Tame, GoodBut
<1>3. V.cl[c] = r /\ (\A d \in Clients : d # c => V.cl[d] = W.cl[d]) /\ V.toclose = W.toclose
  BY <1>2, PutIs
<1> HIDE DEF V
<1>5. ASSUME NEW d \in Clients \ cs PROVE Limit(V, d)
  <2>1. Limit(W, d)
    BY DEF GoodBut
  <2>2. CASE d # c
    BY <1>3, <2>1, <2>2 DEF Limit, getClientLimitClass, Subscribed
  <2>3. CASE d = c
    <3>1. getClientLimitClass(V, c) = getClientLimitClass(W, c)
      BY <1>3 DEF getClientLimitClass, Subscribed, Tame
    <3> DEFINE n == HardLimit[getClientLimitClass(W, c)]
               new == r.list
               old == me.list
    <3>2. n \in Nat
      <4>1. getClientLimitClass(W, c) \in {"normal", "pubsub"}
        BY DEF getClientLimitClass
      <4> QED
        BY <4>1, LimitsBound
    <3>3. new \in Nat /\ old \in Nat /\ new <= old
      BY DEF GoodBut, CoreBut, ClientOk
    <3> HIDE DEF n, new, old
    <3>4. Reached(n, new) => Reached(n, old)
      BY <3>2, <3>3 DEF Reached
    <3> QED
      BY <1>3, <2>1, <2>3, <3>1, <3>4 DEF Limit, n, new, old
  <2> QED
    BY <2>2, <2>3
<1> QED
  BY <1>1, <1>5 DEF GoodBut, V

\* The queue of those to close, and the flag that says so, stay.
LEMMA ClosingSame ==
  ASSUME NEW W, NEW V, V.toclose = W.toclose,
         \A d \in Clients : "CLOSE_ASAP" \in V.cl[d].flags <=> "CLOSE_ASAP" \in W.cl[d].flags
  PROVE  Closing(W) => Closing(V)
BY DEF Closing

LEMMA PutQuiet ==
  ASSUME NEW W, Shape(W), NEW c \in Clients, NEW r, Tame(W.cl[c], r), r.querybuf = W.cl[c].querybuf,
         "CLOSE_ASAP" \in r.flags <=> "CLOSE_ASAP" \in W.cl[c].flags
  PROVE  Quiet(W, Put(W, c, r))
<1> DEFINE V == Put(W, c, r)
<1>1. /\ V.cl[c] = r /\ \A d \in Clients : d # c => V.cl[d] = W.cl[d]
      /\ V.blocking_keys = W.blocking_keys /\ V.unblocked = W.unblocked /\ V.counted = W.counted
      /\ V.toclose = W.toclose
  BY PutIs DEF Tame
<1> HIDE DEF V
<1>2. Closing(W) => Closing(V)
  BY <1>1, ClosingSame
<1> QED
  BY <1>1, <1>2 DEF Quiet, Tame, V

----------------------------------------------------------------------------
\* A reply, or the wait for one to be written, changes nothing that others see.
Replied(W, V) ==
    /\ Quiet(W, V)
    /\ V.dict = W.dict /\ V.watched_keys = W.watched_keys /\ V.channels = W.channels
    /\ V.patterns = W.patterns /\ V.ready = W.ready /\ V.link = W.link
    /\ \A d \in Clients :
        /\ V.cl[d].watched = W.cl[d].watched /\ V.cl[d].subs = W.cl[d].subs /\ V.cl[d].pats = W.cl[d].pats
        /\ V.cl[d].commands = W.cl[d].commands /\ V.cl[d].target = W.cl[d].target
        /\ W.cl[d].flags \subseteq V.cl[d].flags /\ V.cl[d].flags \subseteq W.cl[d].flags \cup {"CLOSE_ASAP"}

LEMMA RepliedRefl == ASSUME NEW W PROVE Replied(W, W)
BY DEF Replied, Quiet

LEMMA RepliedTrans == ASSUME NEW U, NEW V, NEW W, Replied(U, V), Replied(V, W) PROVE Replied(U, W)
<1>1. Quiet(U, W)
  BY QuietTrans DEF Replied
<1>2. ASSUME NEW d \in Clients
      PROVE  /\ U.cl[d].flags \subseteq W.cl[d].flags
             /\ W.cl[d].flags \subseteq U.cl[d].flags \cup {"CLOSE_ASAP"}
  BY DEF Replied
<1> QED
  BY <1>1, <1>2 DEF Replied

\* A client is put on the list of those to close.
Doom(W, c, r) == [Put(W, c, r) EXCEPT !.toclose = Append(W.toclose, c)]

LEMMA DoomGood ==
  ASSUME NEW W, NEW ks, NEW cs, GoodBut(W, ks, cs), NEW c \in Clients, NEW r, Tame(W.cl[c], r),
         ClientOk(r, c \in W.counted), "CLOSE_ASAP" \notin W.cl[c].flags, "CLOSE_ASAP" \in r.flags,
         r.commands = W.cl[c].commands, r.target = W.cl[c].target, r.querybuf = W.cl[c].querybuf,
         W.cl[c].flags \subseteq r.flags, r.flags \subseteq W.cl[c].flags \cup {"CLOSE_ASAP"}
  PROVE  GoodBut(Doom(W, c, r), ks, cs \ {c}) /\ Replied(W, Doom(W, c, r))
<1> DEFINE U == Put(W, c, r)
           V == Doom(W, c, r)
<1>1. CoreBut(U, ks)
  BY PutCore DEF GoodBut
<1>2. Shape(W) /\ DOMAIN r = Attributes
  BY DEF CoreBut, Tame, GoodBut
<1>3. /\ Shape(U) /\ U.cl[c] = r /\ \A d \in Clients : d # c => U.cl[d] = W.cl[d]
      /\ U.dict = W.dict /\ U.blocking_keys = W.blocking_keys /\ U.watched_keys = W.watched_keys
      /\ U.channels = W.channels /\ U.patterns = W.patterns /\ U.ready = W.ready /\ U.unblocked = W.unblocked
      /\ U.link = W.link /\ U.counted = W.counted
  BY <1>2, PutIs
<1>4. V = [U EXCEPT !.toclose = Append(W.toclose, c)]
  BY DEF Doom
<1> HIDE DEF U, V
<1>5. /\ Shape(V) /\ V.cl = U.cl /\ V.dict = U.dict /\ V.blocking_keys = U.blocking_keys
      /\ V.watched_keys = U.watched_keys /\ V.channels = U.channels /\ V.patterns = U.patterns
      /\ V.ready = U.ready /\ V.unblocked = U.unblocked /\ V.link = U.link /\ V.counted = U.counted
      /\ V.toclose = Append(W.toclose, c)
  BY <1>3, <1>4 DEF Shape, Fields
<1>6. CoreBut(V, ks)
  BY <1>1, <1>5 DEF CoreBut, Tables, Queues, Data, Pending, IsList, Fresh, ReadyDirty, KeysOf, WatchedOf, SubsOf
<1>9. ASSUME Closing(W) PROVE Closing(V)
  <2>1. W.toclose \in Seq(Clients) /\ IsInjective(W.toclose) /\ ~Contains(W.toclose, c)
        /\ \A d \in Clients : Contains(W.toclose, d) <=> "CLOSE_ASAP" \in W.cl[d].flags
    BY <1>9 DEF Closing
  <2> DEFINE t == W.toclose
  <2>2. /\ Append(t, c) \in Seq(Clients) /\ IsInjective(Append(t, c))
        /\ \A d : Contains(Append(t, c), d) <=> Contains(t, d) \/ d = c
    <3> HIDE DEF t
    <3> QED
      BY <2>1, AppendContains, AppendOnce DEF t
  <2> QED
    BY <1>3, <1>5, <2>1, <2>2 DEF Closing
<1>10. ASSUME NEW d \in Clients \ (cs \ {c}) PROVE Limit(V, d)
  <2>1. CASE d # c
    <3>1. Limit(W, d)
      BY <2>1 DEF GoodBut
    <3> QED
      BY <1>3, <1>5, <2>1, <3>1 DEF Limit, getClientLimitClass, Subscribed
  <2>2. CASE d = c
    BY <1>3, <1>5, <2>2 DEF Limit
  <2> QED
    BY <2>1, <2>2
<1>11. Quiet(W, V)
  BY <1>3, <1>5, <1>9 DEF Quiet, Tame
<1>12. Replied(W, V)
  BY <1>3, <1>5, <1>11 DEF Replied, Tame
<1> QED
  BY <1>6, <1>10, <1>12 DEF GoodBut, V

LEMMA PutReplied ==
  ASSUME NEW W, Shape(W), NEW c \in Clients, NEW r, Tame(W.cl[c], r), r.querybuf = W.cl[c].querybuf,
         r.commands = W.cl[c].commands, r.target = W.cl[c].target, r.flags = W.cl[c].flags
  PROVE  Replied(W, Put(W, c, r))
<1> DEFINE V == Put(W, c, r)
<1>1. Quiet(W, V)
  BY PutQuiet
<1>2. /\ V.cl[c] = r /\ \A d \in Clients : d # c => V.cl[d] = W.cl[d]
      /\ V.dict = W.dict /\ V.watched_keys = W.watched_keys /\ V.channels = W.channels
      /\ V.patterns = W.patterns /\ V.ready = W.ready /\ V.link = W.link
  BY PutIs DEF Tame
<1> HIDE DEF V
<1> QED
  BY <1>1, <1>2 DEF Replied, Tame, V

\* Whatever the class of the client has become, it is within the limit after a reply, or to
\* be closed.
LEMMA AddReplyGood ==
  ASSUME NEW W, NEW ks, NEW cs, GoodBut(W, ks, cs), NEW c \in Clients, W.cl[c].alive
  PROVE  GoodBut(addReply(W, c), ks, cs \ {c}) /\ Replied(W, addReply(W, c))
<1> DEFINE me == W.cl[c]
           V == addReply(W, c)
           class == getClientLimitClass(W, c)
<1>1. Shape(W) /\ DOMAIN me = Attributes /\ ClientOk(me, c \in W.counted)
  BY DEF GoodBut, CoreBut, Shape
<1>2. me.flags \subseteq AllFlags /\ me.buf \in Nat /\ me.list \in Nat /\ (c \in W.counted \/ me.list = 0)
  BY <1>1 DEF ClientOk
<1>3. HardLimit[class] \in Nat
  <2>1. class \in {"normal", "pubsub"}
    BY DEF getClientLimitClass
  <2> QED
    BY <2>1, LimitsBound
<1>4. ~Reached(HardLimit[class], 0)
  BY <1>3 DEF Reached
<1>5. \A d \in Clients \ cs : Limit(W, d)
  BY DEF GoodBut
<1>6. CASE c \notin W.counted \/ "CLOSE_AFTER_REPLY" \in me.flags
  <2>1. V = W
    BY <1>6 DEF addReply, Has
  <2>2. Limit(W, c)
    BY <1>2, <1>4, <1>6 DEF Limit
  <2>3. GoodBut(W, ks, cs \ {c})
    BY <1>5, <2>2 DEF GoodBut
  <2> QED
    BY <2>1, <2>3, RepliedRefl
<1>7. CASE c \in W.counted /\ "CLOSE_AFTER_REPLY" \notin me.flags /\ me.list = 0 /\ me.buf < Buffer
  <2> DEFINE r == [me EXCEPT !.buf = me.buf + 1]
  <2>1. V = Put(W, c, r)
    BY <1>1, <1>7 DEF addReply, Has, Put
  <2>2. Tame(me, r) /\ r.querybuf = me.querybuf /\ r.commands = me.commands /\ r.target = me.target
        /\ r.flags = me.flags /\ r.list = me.list
    BY <1>1 DEF Tame, Attributes
  <2>3. r.alive /\ r.buf \in Nat /\ r.keys = me.keys /\ r.subs = me.subs /\ r.pats = me.pats
        /\ r.seen = me.seen /\ r.watched = me.watched /\ r.where = me.where
    BY <1>1, <1>2 DEF Attributes
  <2> HIDE DEF r
  <2>30. ClientOk(r, c \in W.counted)
    BY <1>1, <2>2, <2>3 DEF ClientOk
  <2>4. r.list <= me.list
    BY <1>2, <2>2
  <2>5. GoodBut(Put(W, c, r), ks, cs) /\ Replied(W, Put(W, c, r))
    BY <1>1, <2>2, <2>30, <2>4, PutGood, PutReplied
  <2>6. Limit(Put(W, c, r), c)
    <3>1. Put(W, c, r).cl[c] = r
      BY <1>1, <2>2, PutIs DEF Tame
    <3>2. getClientLimitClass(Put(W, c, r), c) = class
      BY <2>2, <3>1 DEF getClientLimitClass, Subscribed, Tame
    <3> QED
      BY <1>4, <1>7, <2>2, <3>1, <3>2 DEF Limit
  <2>7. GoodBut(Put(W, c, r), ks, cs \ {c})
    BY <2>5, <2>6 DEF GoodBut
  <2> QED
    BY <2>1, <2>5, <2>7
<1>8. CASE c \in W.counted /\ "CLOSE_AFTER_REPLY" \notin me.flags /\ ~(me.list = 0 /\ me.buf < Buffer)
  <2> DEFINE q == [me EXCEPT !.list = me.list + 1]
             B == Put(W, c, q)
             s == IF ~Reached(SoftLimit[class], q.list) THEN Never ELSE IF q.soft = Never THEN 0 ELSE q.soft
             r == [q EXCEPT !.soft = s]
             t == [r EXCEPT !.flags = r.flags \cup {"CLOSE_ASAP"}]
  <2>1. DOMAIN q = Attributes /\ q.list = me.list + 1 /\ q.flags = me.flags /\ Tame(me, q)
        /\ q.querybuf = me.querybuf /\ q.commands = me.commands /\ q.target = me.target
    BY <1>1 DEF Tame, Attributes
  <2>2. V = asyncCloseClientOnOutputBufferLimitReached(B, c)
    BY <1>1, <1>8 DEF addReply, Has, Put
  <2>30. q.alive /\ q.list \in Nat /\ q.buf = me.buf /\ q.keys = me.keys /\ q.subs = me.subs
        /\ q.pats = me.pats /\ q.seen = me.seen /\ q.watched = me.watched /\ q.where = me.where
    BY <1>1, <1>2 DEF Attributes
  <2>3. ClientOk(q, c \in W.counted)
    <3> HIDE DEF q
    <3> QED
      BY <1>1, <1>8, <2>1, <2>30 DEF ClientOk
  <2>4. Shape(B) /\ B.cl[c] = q /\ B.toclose = W.toclose /\ getClientLimitClass(B, c) = class
    <3>1. Shape(B) /\ B.cl[c] = q /\ B.toclose = W.toclose
      BY <1>1, <2>1, PutIs
    <3> HIDE DEF B, q
    <3> QED
      BY <2>1, <3>1 DEF getClientLimitClass, Subscribed, Tame
  <2>5. q.list # 0
    BY <1>2, <2>1
  <2>6. B = Put(W, c, q)
    OBVIOUS
  <2> HIDE DEF q, B
  <2>7. DOMAIN r = Attributes /\ r.list = q.list /\ r.flags = me.flags /\ Tame(me, r)
        /\ r.querybuf = me.querybuf /\ r.commands = me.commands /\ r.target = me.target
        /\ ClientOk(r, c \in W.counted)
    BY <2>1, <2>3 DEF Tame, Attributes, ClientOk
  <2>8. Put(B, c, r) = Put(W, c, r) /\ [B EXCEPT !.cl[c].soft = s] = Put(W, c, r)
    BY <1>1, <2>1, <2>4, <2>6 DEF Put, Shape
  <2>9. CASE "CLOSE_ASAP" \in me.flags
    <3>1. V = B
      BY <2>1, <2>2, <2>4, <2>9 DEF asyncCloseClientOnOutputBufferLimitReached, Has
    <3>2. CoreBut(B, ks)
      BY <2>1, <2>3, <2>6, PutCore DEF GoodBut
    <3>3. Replied(W, B)
      BY <1>1, <2>1, <2>6, PutReplied
    <3>4. \A d \in Clients : d # c => B.cl[d] = W.cl[d]
      BY <1>1, <2>1, <2>6, PutIs
    <3>6. ASSUME NEW d \in Clients \ (cs \ {c}) PROVE Limit(B, d)
      BY <1>5, <2>1, <2>4, <2>9, <3>4 DEF Limit, getClientLimitClass, Subscribed
    <3> QED
      BY <3>1, <3>2, <3>3, <3>6 DEF GoodBut
  <2>10. CASE "CLOSE_ASAP" \notin me.flags
    <3> DEFINE over == Reached(HardLimit[class], q.list) \/ (Reached(SoftLimit[class], q.list) /\ q.soft > SoftSeconds)
    <3>1. V = IF over THEN freeClientAsync(Put(W, c, r), c) ELSE Put(W, c, r)
      BY <2>1, <2>2, <2>4, <2>5, <2>8, <2>10
         DEF asyncCloseClientOnOutputBufferLimitReached, Has, checkClientOutputBufferLimits
    <3>2. Put(W, c, r).cl[c] = r /\ Put(W, c, r).toclose = W.toclose
      BY <1>1, <2>7, PutIs
    <3>3. CASE over
      <4>1. "CLOSE_ASAP" \notin r.flags
        BY <2>7, <2>10
      <4>2. Shape(Put(W, c, r))
        BY <1>1, <2>7, PutIs
      <4>3. t.flags = me.flags \cup {"CLOSE_ASAP"} /\ Tame(me, t) /\ t.querybuf = me.querybuf
            /\ t.commands = me.commands /\ t.target = me.target /\ ClientOk(t, c \in W.counted)
        <5> HIDE DEF r
        <5> QED
          BY <2>7, <4>1 DEF Tame, ClientOk, Attributes, AllFlags
      <4> HIDE DEF r
      <4>4. freeClientAsync(Put(W, c, r), c) = Doom(W, c, t)
        BY <1>1, <3>2, <4>1, <4>2 DEF freeClientAsync, Has, SetFlags, Doom, Put, Shape
      <4> HIDE DEF t
      <4>5. GoodBut(Doom(W, c, t), ks, cs \ {c}) /\ Replied(W, Doom(W, c, t))
        BY <2>10, <4>3, DoomGood
      <4> QED
        BY <3>1, <3>3, <4>4, <4>5
    <3>4. CASE ~over
      <4> DEFINE U == Put(W, c, r)
      <4>1. V = U
        BY <3>1, <3>4
      <4>2. CoreBut(U, ks) /\ Replied(W, U)
        BY <1>1, <2>7, PutCore, PutReplied DEF GoodBut
      <4>3. \A d \in Clients : d # c => U.cl[d] = W.cl[d]
        BY <1>1, <2>7, PutIs
      <4>4. U.cl[c] = r /\ U.toclose = W.toclose
        BY <3>2
      <4>5. ~Reached(HardLimit[class], r.list)
        BY <2>7, <3>4
      <4> HIDE DEF U, r
      <4>7. getClientLimitClass(U, c) = class
        BY <2>7, <4>4 DEF getClientLimitClass, Subscribed, Tame
      <4>8. ASSUME NEW d \in Clients \ (cs \ {c}) PROVE Limit(U, d)
        <5>1. CASE d = c
          BY <4>4, <4>5, <4>7, <5>1 DEF Limit
        <5>2. CASE d # c
          BY <1>5, <4>3, <5>2 DEF Limit, getClientLimitClass, Subscribed
        <5> QED
          BY <5>1, <5>2
      <4> QED
        BY <4>1, <4>2, <4>8 DEF GoodBut
    <3> QED
      BY <3>3, <3>4
  <2> QED
    BY <2>9, <2>10
<1> QED
  BY <1>6, <1>7, <1>8

\* The dataset and what the slave is sent stay too.
Calm(W, V) == Quiet(W, V) /\ V.dict = W.dict /\ V.link = W.link /\ V.ready = W.ready

LEMMA CalmTrans == ASSUME NEW U, NEW V, NEW W, Calm(U, V), Calm(V, W) PROVE Calm(U, W)
BY QuietTrans DEF Calm

LEMMA RepliedCalm == ASSUME NEW W, NEW V, Replied(W, V) PROVE Calm(W, V)
BY DEF Replied, Calm

LEMMA GoodParts ==
  ASSUME NEW W, NEW ks, NEW cs, GoodBut(W, ks, cs)
  PROVE  /\ Shape(W) /\ CoreBut(W, ks) /\ Queues(W) /\ Tables(W) /\ Data(W, ks) /\ W.link \in Seq(Command)
         /\ \A c \in Clients : ClientOk(W.cl[c], c \in W.counted) /\ DOMAIN W.cl[c] = Attributes
BY DEF GoodBut, CoreBut, Shape, Data

LEMMA CalmGoes ==
  ASSUME NEW W, NEW V, NEW ks, NEW cs, GoodBut(W, ks, cs), Calm(W, V)
  PROVE  Goes(W, V)
BY GoodParts, QuietGoes DEF Calm

LEMMA PutCalm ==
  ASSUME NEW W, Shape(W), NEW c \in Clients, NEW r, Tame(W.cl[c], r), r.querybuf = W.cl[c].querybuf,
         "CLOSE_ASAP" \in r.flags <=> "CLOSE_ASAP" \in W.cl[c].flags
  PROVE  Calm(W, Put(W, c, r))
BY PutQuiet, PutIs DEF Calm, Tame

----------------------------------------------------------------------------
\* The flags that mean nothing to the tables.
LEMMA SetFlagsGood ==
  ASSUME NEW W, NEW ks, NEW cs, GoodBut(W, ks, cs), NEW c \in Clients, W.cl[c].alive,
         NEW fs, fs \subseteq {"MULTI", "DIRTY_EXEC", "CLOSE_AFTER_REPLY"}
  PROVE  /\ GoodBut(SetFlags(W, c, fs), ks, cs) /\ Calm(W, SetFlags(W, c, fs))
         /\ SetFlags(W, c, fs).cl[c].flags = W.cl[c].flags \cup fs
<1> DEFINE me == W.cl[c]
           r == [me EXCEPT !.flags = me.flags \cup fs]
<1>1. Shape(W) /\ DOMAIN me = Attributes /\ ClientOk(me, c \in W.counted)
  BY GoodParts
<1>2. SetFlags(W, c, fs) = Put(W, c, r)
  BY <1>1 DEF SetFlags, Put
<1>3. /\ Tame(me, r) /\ r.flags = me.flags \cup fs /\ r.list = me.list /\ r.querybuf = me.querybuf
      /\ r.commands = me.commands /\ r.target = me.target /\ r.where = me.where /\ r.buf = me.buf
  BY <1>1 DEF Tame, Attributes
<1> HIDE DEF r
<1>4. ClientOk(r, c \in W.counted)
  BY <1>1, <1>3 DEF ClientOk, Tame, AllFlags
<1>5. r.list <= me.list
  BY <1>1, <1>3 DEF ClientOk
<1>6. GoodBut(Put(W, c, r), ks, cs)
  BY <1>3, <1>4, <1>5, PutGood
<1>7. Calm(W, Put(W, c, r)) /\ Put(W, c, r).cl[c] = r
  <2>1. DOMAIN r = Attributes
    BY <1>3 DEF Tame
  <2> QED
    BY <1>1, <1>3, <2>1, PutCalm, PutIs
<1> QED
  BY <1>2, <1>3, <1>6, <1>7

LEMMA UnblockedFlagGood ==
  ASSUME NEW W, NEW ks, NEW cs, GoodBut(W, ks, cs), NEW c \in Clients
  PROVE  GoodBut(ClearFlags(W, c, {"UNBLOCKED"}), ks, cs) /\ Calm(W, ClearFlags(W, c, {"UNBLOCKED"}))
<1> DEFINE me == W.cl[c]
           r == [me EXCEPT !.flags = me.flags \ {"UNBLOCKED"}]
<1>1. Shape(W) /\ DOMAIN me = Attributes /\ ClientOk(me, c \in W.counted)
  BY GoodParts
<1>2. ClearFlags(W, c, {"UNBLOCKED"}) = Put(W, c, r)
  BY <1>1 DEF ClearFlags, Put
<1>3. /\ Tame(me, r) /\ r.flags = me.flags \ {"UNBLOCKED"} /\ r.list = me.list /\ r.querybuf = me.querybuf
      /\ r.commands = me.commands /\ r.target = me.target /\ r.where = me.where /\ r.buf = me.buf
  BY <1>1 DEF Tame, Attributes
<1>4. ~me.alive => r = NoClient
  <2>1. ASSUME ~me.alive PROVE r = me
    <3>1. me = NoClient
      BY <1>1, <2>1 DEF ClientOk
    <3>2. me.flags = {}
      BY <3>1 DEF NoClient, NewClient
    <3> QED
      BY <3>1, <3>2 DEF NoClient, NewClient
  <2> QED
    BY <1>1, <2>1 DEF ClientOk
<1> HIDE DEF r
<1>5. ClientOk(r, c \in W.counted)
  BY <1>1, <1>3, <1>4 DEF ClientOk, Tame
<1>6. r.list <= me.list
  BY <1>1, <1>3 DEF ClientOk
<1>7. GoodBut(Put(W, c, r), ks, cs)
  BY <1>3, <1>5, <1>6, PutGood
<1>8. Calm(W, Put(W, c, r))
  BY <1>1, <1>3, PutCalm
<1> QED
  BY <1>2, <1>7, <1>8

LEMMA QueueGood ==
  ASSUME NEW W, NEW ks, NEW cs, GoodBut(W, ks, cs), NEW c \in Clients, W.cl[c].alive, NEW q \in Queued
  PROVE  GoodBut(queueMultiCommand(W, c, q), ks, cs) /\ Calm(W, queueMultiCommand(W, c, q))
<1> DEFINE me == W.cl[c]
           qs == Append(me.commands, q)
           r == [me EXCEPT !.commands = qs]
<1>1. Shape(W) /\ DOMAIN me = Attributes /\ ClientOk(me, c \in W.counted)
  BY GoodParts
<1>2. queueMultiCommand(W, c, q) = Put(W, c, r)
  BY <1>1 DEF queueMultiCommand, Put
<1>0. qs \in Seq(Queued)
  <2> DEFINE s == me.commands
  <2>1. s \in Seq(Queued)
    BY <1>1 DEF ClientOk
  <2> HIDE DEF s
  <2>2. Append(s, q) \in Seq(Queued)
    BY ONLY <2>1, q \in Queued
  <2> QED
    BY <2>2 DEF s
<1> HIDE DEF qs
<1>3. /\ Tame(me, r) /\ r.flags = me.flags /\ r.list = me.list /\ r.querybuf = me.querybuf
      /\ r.commands = qs /\ r.target = me.target /\ r.where = me.where /\ r.buf = me.buf
  BY <1>1 DEF Tame, Attributes
<1> HIDE DEF r
<1>4. ClientOk(r, c \in W.counted)
  BY <1>0, <1>1, <1>3 DEF ClientOk, Tame
<1>5. r.list <= me.list
  BY <1>1, <1>3 DEF ClientOk
<1>6. GoodBut(Put(W, c, r), ks, cs)
  BY <1>3, <1>4, <1>5, PutGood
<1>7. Calm(W, Put(W, c, r))
  BY <1>1, <1>3, PutCalm
<1> QED
  BY <1>2, <1>6, <1>7

LEMMA AuthGood ==
  ASSUME NEW W, NEW ks, NEW cs, GoodBut(W, ks, cs), NEW c \in Clients, W.cl[c].alive, NEW right
  PROVE  GoodBut([W EXCEPT !.cl[c].authenticated = right], ks, cs)
         /\ Calm(W, [W EXCEPT !.cl[c].authenticated = right])
<1> DEFINE me == W.cl[c]
           r == [me EXCEPT !.authenticated = right]
<1>1. Shape(W) /\ DOMAIN me = Attributes /\ ClientOk(me, c \in W.counted)
  BY GoodParts
<1>2. [W EXCEPT !.cl[c].authenticated = right] = Put(W, c, r)
  BY <1>1 DEF Put
<1>3. /\ Tame(me, r) /\ r.flags = me.flags /\ r.list = me.list /\ r.querybuf = me.querybuf
      /\ r.commands = me.commands /\ r.target = me.target /\ r.where = me.where /\ r.buf = me.buf
  BY <1>1 DEF Tame, Attributes
<1> HIDE DEF r
<1>4. ClientOk(r, c \in W.counted)
  BY <1>1, <1>3 DEF ClientOk, Tame
<1>5. r.list <= me.list
  BY <1>1, <1>3 DEF ClientOk
<1>6. GoodBut(Put(W, c, r), ks, cs)
  BY <1>3, <1>4, <1>5, PutGood
<1>7. Calm(W, Put(W, c, r))
  BY <1>1, <1>3, PutCalm
<1> QED
  BY <1>2, <1>6, <1>7

\* The input of a client, and the time of its last interaction.
Given(W, V, c, buf) ==
    /\ V.dict = W.dict /\ V.link = W.link /\ V.ready = W.ready
    /\ V.cl[c].querybuf = buf /\ V.cl[c].alive /\ (\A d \in Clients : d # c => V.cl[d] = W.cl[d])
    /\ V.cl[c].flags = W.cl[c].flags
    /\ Orderly(W, V) /\ Load(V) = Load(W) /\ V.counted = W.counted /\ V.toclose = W.toclose

LEMMA InputGood ==
  ASSUME NEW W, NEW ks, NEW cs, GoodBut(W, ks, cs), NEW c \in Clients, W.cl[c].alive,
         NEW buf \in Seq(Command), NEW idle
  PROVE  LET V == Put(W, c, [W.cl[c] EXCEPT !.querybuf = buf, !.idle = idle]) IN
         GoodBut(V, ks, cs) /\ Given(W, V, c, buf)
<1> DEFINE me == W.cl[c]
           r == [me EXCEPT !.querybuf = buf, !.idle = idle]
           V == Put(W, c, r)
<1>1. Shape(W) /\ DOMAIN me = Attributes /\ ClientOk(me, c \in W.counted)
  BY GoodParts
<1>3. /\ Tame(me, r) /\ r.flags = me.flags /\ r.list = me.list /\ r.querybuf = buf
      /\ r.commands = me.commands /\ r.target = me.target /\ r.where = me.where /\ r.buf = me.buf
  BY <1>1 DEF Tame, Attributes
<1> HIDE DEF r
<1>4. ClientOk(r, c \in W.counted)
  BY <1>1, <1>3 DEF ClientOk, Tame
<1>5. r.list <= me.list
  BY <1>1, <1>3 DEF ClientOk
<1>6. GoodBut(Put(W, c, r), ks, cs)
  BY <1>3, <1>4, <1>5, PutGood
<1>7. /\ V.cl[c] = r /\ (\A d \in Clients : d # c => V.cl[d] = W.cl[d])
      /\ V.dict = W.dict /\ V.link = W.link /\ V.ready = W.ready /\ V.toclose = W.toclose
      /\ V.blocking_keys = W.blocking_keys /\ V.unblocked = W.unblocked /\ V.counted = W.counted
  BY <1>1, <1>3, PutIs DEF Tame
<1> HIDE DEF V
<1>8. \A d \in Clients : V.cl[d].keys = W.cl[d].keys /\ V.cl[d].alive = W.cl[d].alive
                         /\ V.cl[d].flags = W.cl[d].flags
  BY <1>3, <1>7 DEF Tame
<1>9. Load(V) = Load(W)
  <2>1. Waiting(V) = Waiting(W)
    BY <1>8 DEF Waiting, Has
  <2> QED
    BY <1>7, <2>1 DEF Load
<1>10. Orderly(W, V)
  BY <1>7, <1>8 DEF Orderly, InOrder, Ahead, Settled
<1> QED
  BY <1>3, <1>6, <1>7, <1>8, <1>9, <1>10 DEF Given, V, r

\* One client and the tables it is in change.
LEMMA ChangeGood ==
  ASSUME NEW W, NEW ks, NEW cs, GoodBut(W, ks, cs), NEW c \in Clients, NEW V, Shape(V),
         \A d \in Clients : d # c => V.cl[d] = W.cl[d],
         V.dict = W.dict, V.ready = W.ready, V.toclose = W.toclose, V.link = W.link, V.counted = W.counted,
         Tables(V), Queues(V), Pending(V, ks), ClientOk(V.cl[c], c \in W.counted),
         "CLOSE_ASAP" \in V.cl[c].flags <=> "CLOSE_ASAP" \in W.cl[c].flags,
         "DIRTY_CAS" \in V.cl[c].flags \/ \A k \in V.cl[c].watched :
              Content(W.dict, k) = V.cl[c].seen[k] /\ ~Contains(W.ready, k),
         NEW ds, cs \subseteq ds, c \in ds \/ Limit(V, c)
  PROVE  GoodBut(V, ks, ds)
<1>1. \A d \in Clients : ClientOk(V.cl[d], d \in V.counted)
  BY DEF GoodBut, CoreBut
<1>2. Fresh(V) /\ ReadyDirty(V)
  BY DEF GoodBut, CoreBut, Data, Fresh, ReadyDirty
<1>3. Data(V, ks)
  BY <1>2 DEF GoodBut, CoreBut, Data
<1>5. ASSUME NEW d \in Clients \ ds PROVE Limit(V, d)
  <2>1. CASE d = c
    BY <2>1
  <2>2. CASE d # c
    <3>1. Limit(W, d)
      BY DEF GoodBut
    <3> QED
      BY <2>2, <3>1 DEF Limit, getClientLimitClass, Subscribed
  <2> QED
    BY <2>1, <2>2
<1> QED
  BY <1>1, <1>3, <1>5 DEF GoodBut, CoreBut

\* The limit of a client whose class, list and close flags stay.
LEMMA LimitSame ==
  ASSUME NEW W, NEW V, NEW c, Limit(W, c), V.cl[c].list = W.cl[c].list,
         V.cl[c].subs = W.cl[c].subs, V.cl[c].pats = W.cl[c].pats,
         W.cl[c].flags \cap {"CLOSE_ASAP", "CLOSE_AFTER_REPLY"} \subseteq V.cl[c].flags
  PROVE  Limit(V, c)
BY DEF Limit, getClientLimitClass, Subscribed

----------------------------------------------------------------------------
\* Watched keys.
Unwatched(W, c, r) == [Put(W, c, r) EXCEPT !.watched_keys = Leave(W.watched_keys, W.cl[c].watched, c)]

\* Of the clients only c changed, and is r now.
Only(W, V, c, r) ==
    V.cl[c] = r /\ (\A d \in Clients : d # c => V.cl[d] = W.cl[d]) /\ V.toclose = W.toclose

LEMMA UnwatchedGood ==
  ASSUME NEW W, NEW ks, NEW cs, GoodBut(W, ks, cs), NEW c \in Clients, NEW r, DOMAIN r = Attributes,
         ClientOk(r, c \in W.counted), r.watched = {},
         LET me == W.cl[c] IN
         /\ r.alive = me.alive /\ r.keys = me.keys /\ r.subs = me.subs /\ r.pats = me.pats
         /\ r.querybuf = me.querybuf /\ r.list = me.list
         /\ r.flags \subseteq me.flags /\ me.flags \ {"MULTI", "DIRTY_CAS", "DIRTY_EXEC"} \subseteq r.flags
  PROVE  /\ GoodBut(Unwatched(W, c, r), ks, cs) /\ Calm(W, Unwatched(W, c, r))
         /\ Only(W, Unwatched(W, c, r), c, r)
<1> DEFINE U == Put(W, c, r)
           V == Unwatched(W, c, r)
           me == W.cl[c]
           index == Leave(W.watched_keys, me.watched, c)
<1>1. Shape(W) /\ Tables(W) /\ Queues(W) /\ Data(W, ks)
  BY GoodParts
<1>2. V = [U EXCEPT !.watched_keys = index]
  BY DEF Unwatched
<1>3. /\ Shape(U) /\ U.cl[c] = r /\ \A d \in Clients : d # c => U.cl[d] = W.cl[d]
      /\ U.dict = W.dict /\ U.blocking_keys = W.blocking_keys
      /\ U.channels = W.channels /\ U.patterns = W.patterns /\ U.ready = W.ready
      /\ U.unblocked = W.unblocked /\ U.toclose = W.toclose /\ U.link = W.link /\ U.counted = W.counted
  BY <1>1, PutIs
<1> HIDE DEF U, V, index
<1>4. /\ Shape(V) /\ V.cl = U.cl /\ V.dict = U.dict /\ V.blocking_keys = U.blocking_keys
      /\ V.channels = U.channels /\ V.patterns = U.patterns /\ V.ready = U.ready
      /\ V.unblocked = U.unblocked /\ V.toclose = U.toclose /\ V.link = U.link /\ V.counted = U.counted
      /\ V.watched_keys = index
  BY <1>2, <1>3 DEF Shape, Fields
<1>5. IndexOk(index, WatchedOf(V))
  <2>1. IndexOk(W.watched_keys, WatchedOf(W))
    BY <1>1 DEF Tables
  <2>2. WatchedOf(W)[c] = me.watched /\ WatchedOf(V)[c] = me.watched \ me.watched
        /\ \A d \in Clients \ {c} : WatchedOf(V)[d] = WatchedOf(W)[d]
    BY <1>3, <1>4 DEF WatchedOf
  <2> DEFINE F == WatchedOf(W)
             G == WatchedOf(V)
             i == W.watched_keys
             w == me.watched
  <2> HIDE DEF F, G, i, w
  <2>3. IndexOk(Leave(i, w, c), G)
    BY <2>1, <2>2, LeaveOk DEF F, G, i, w
  <2> QED
    BY <2>3 DEF F, G, i, w, index
<1>6. KeysOf(V) = KeysOf(W) /\ SubsOf(V) = SubsOf(W)
  BY <1>3, <1>4 DEF KeysOf, SubsOf
<1>7. \A d \in Clients : \A p : (p \in V.cl[d].pats) <=> Contains(V.patterns, <<d, p>>)
  BY <1>1, <1>3, <1>4 DEF Tables
<1>8. Tables(V)
  BY <1>1, <1>3, <1>4, <1>5, <1>6, <1>7 DEF Tables
<1>9. Queues(V)
  BY <1>1, <1>3, <1>4 DEF Queues
<1>10. Pending(V, ks)
  BY <1>1, <1>3, <1>4 DEF Data, Pending, IsList
<1>11. me.flags \cap {"CLOSE_ASAP", "CLOSE_AFTER_REPLY"} \subseteq r.flags
       /\ ("CLOSE_ASAP" \in r.flags <=> "CLOSE_ASAP" \in me.flags)
       /\ ("BLOCKED" \in r.flags <=> "BLOCKED" \in me.flags)
  OBVIOUS
<1>12. c \in cs \/ Limit(V, c)
  <2>1. c \in cs \/ Limit(W, c)
    BY DEF GoodBut
  <2> QED
    BY <1>3, <1>4, <1>11, <2>1, LimitSame
<1>13. GoodBut(V, ks, cs)
  BY <1>3, <1>4, <1>8, <1>9, <1>10, <1>11, <1>12, ChangeGood
<1>14. Calm(W, V)
  BY <1>3, <1>4, <1>11, ClosingSame DEF Calm, Quiet
<1> QED
  BY <1>3, <1>4, <1>13, <1>14 DEF V, Only

LEMMA UnwatchGood ==
  ASSUME NEW W, NEW ks, NEW cs, GoodBut(W, ks, cs), NEW c \in Clients, W.cl[c].alive
  PROVE  LET V == unwatchAllKeys(W, c) IN
         /\ GoodBut(V, ks, cs) /\ Calm(W, V) /\ V.cl[c].watched = {}
         /\ V.cl[c].flags = W.cl[c].flags /\ V.cl[c].subs = W.cl[c].subs /\ V.cl[c].pats = W.cl[c].pats
         /\ \A d \in Clients : d # c => V.cl[d] = W.cl[d]
         /\ V.toclose = W.toclose
<1> DEFINE me == W.cl[c]
           r == [me EXCEPT !.watched = {}, !.seen = Empty]
<1>1. Shape(W) /\ DOMAIN me = Attributes /\ ClientOk(me, c \in W.counted)
  BY GoodParts
<1>2. unwatchAllKeys(W, c) = Unwatched(W, c, r)
  BY <1>1 DEF unwatchAllKeys, Unwatched, Put, Shape, Fields
<1>3. /\ DOMAIN r = Attributes /\ r.watched = {} /\ r.seen = Empty /\ r.alive = me.alive
      /\ r.keys = me.keys /\ r.subs = me.subs /\ r.pats = me.pats /\ r.querybuf = me.querybuf
      /\ r.list = me.list /\ r.flags = me.flags /\ r.commands = me.commands /\ r.target = me.target
      /\ r.where = me.where /\ r.buf = me.buf
  BY <1>1 DEF Attributes
<1> HIDE DEF r
<1>4. DOMAIN Empty = {}
  BY DEF Empty
<1>5. ClientOk(r, c \in W.counted)
  BY <1>1, <1>3, <1>4 DEF ClientOk
<1> DEFINE V == Unwatched(W, c, r)
<1>60. r.flags \subseteq me.flags /\ me.flags \ {"MULTI", "DIRTY_CAS", "DIRTY_EXEC"} \subseteq r.flags
  BY <1>3
<1>6. GoodBut(V, ks, cs) /\ Calm(W, V) /\ Only(W, V, c, r)
  BY <1>3, <1>5, <1>60, UnwatchedGood
<1> HIDE DEF V
<1> QED
  BY <1>2, <1>3, <1>6 DEF V, Only

LEMMA DiscardGood ==
  ASSUME NEW W, NEW ks, NEW cs, GoodBut(W, ks, cs), NEW c \in Clients, W.cl[c].alive
  PROVE  GoodBut(discardTransaction(W, c), ks, cs) /\ Calm(W, discardTransaction(W, c))
<1> DEFINE me == W.cl[c]
           r == [me EXCEPT !.commands = Empty, !.flags = me.flags \ {"MULTI", "DIRTY_CAS", "DIRTY_EXEC"},
                           !.watched = {}, !.seen = Empty]
           A == [W EXCEPT !.cl[c].commands = Empty]
           B == ClearFlags(A, c, {"MULTI", "DIRTY_CAS", "DIRTY_EXEC"})
<1>1. Shape(W) /\ DOMAIN me = Attributes /\ ClientOk(me, c \in W.counted)
  BY GoodParts
<1>2. discardTransaction(W, c) = Unwatched(W, c, r)
  <2>1. A.cl[c] = [me EXCEPT !.commands = Empty] /\ A = Put(W, c, [me EXCEPT !.commands = Empty])
    BY <1>1 DEF Shape, Put, Fields
  <2> DEFINE q == [me EXCEPT !.commands = Empty, !.flags = me.flags \ {"MULTI", "DIRTY_CAS", "DIRTY_EXEC"}]
  <2>2. B = Put(W, c, q)
    BY <1>1, <2>1 DEF Shape, Put, ClearFlags, Attributes, Fields
  <2>30. DOMAIN q = Attributes /\ q.watched = me.watched /\ r = [q EXCEPT !.watched = {}, !.seen = Empty]
    BY <1>1 DEF Attributes
  <2> HIDE DEF q, r
  <2>3. Put(W, c, q).cl[c] = q /\ Put(W, c, q).watched_keys = W.watched_keys /\ Shape(Put(W, c, q))
    BY <1>1, <2>30, PutIs
  <2>31. Put(Put(W, c, q), c, r) = Put(W, c, r)
    BY <1>1 DEF Put, Shape, Fields
  <2> HIDE DEF B
  <2>4. discardTransaction(W, c) = unwatchAllKeys(B, c)
    BY DEF discardTransaction, B
  <2> DEFINE Q == Put(W, c, q)
  <2> HIDE DEF Q
  <2>5. unwatchAllKeys(Q, c) = [Put(Q, c, [Q.cl[c] EXCEPT !.watched = {}, !.seen = Empty])
                                EXCEPT !.watched_keys = Leave(Q.watched_keys, Q.cl[c].watched, c)]
    BY <2>3 DEF unwatchAllKeys, Put, Shape, Fields, Q
  <2> QED
    BY <2>2, <2>3, <2>30, <2>31, <2>4, <2>5 DEF Unwatched, Q
<1>3. /\ DOMAIN r = Attributes /\ r.watched = {} /\ r.seen = Empty /\ r.alive = me.alive
      /\ r.keys = me.keys /\ r.subs = me.subs /\ r.pats = me.pats /\ r.querybuf = me.querybuf
      /\ r.list = me.list /\ r.flags = me.flags \ {"MULTI", "DIRTY_CAS", "DIRTY_EXEC"} /\ r.commands = Empty
      /\ r.target = me.target /\ r.where = me.where /\ r.buf = me.buf
  BY <1>1 DEF Attributes
<1> HIDE DEF r
<1>4. DOMAIN Empty = {} /\ Empty \in Seq(Queued)
  BY DEF Empty
<1>5. ClientOk(r, c \in W.counted)
  BY <1>1, <1>3, <1>4 DEF ClientOk
<1>6. GoodBut(Unwatched(W, c, r), ks, cs) /\ Calm(W, Unwatched(W, c, r))
  BY <1>3, <1>5, UnwatchedGood
<1> QED
  BY <1>2, <1>6

\* A client with the list or the table it enters or leaves.
WithWatched(W, c, r, index) == [Put(W, c, r) EXCEPT !.watched_keys = index]
WithChannels(W, c, r, index) == [Put(W, c, r) EXCEPT !.channels = index]
WithPatterns(W, c, r, index) == [Put(W, c, r) EXCEPT !.patterns = index]
Tabled(W, V, c, r) ==
    /\ Shape(V) /\ Only(W, V, c, r)
    /\ V.dict = W.dict /\ V.ready = W.ready /\ V.unblocked = W.unblocked /\ V.link = W.link
    /\ V.counted = W.counted

LEMMA PutWatched ==
  ASSUME NEW W, Shape(W), NEW c \in Clients, NEW r, DOMAIN r = Attributes, NEW index
  PROVE  LET V == WithWatched(W, c, r, index) IN
         /\ Tabled(W, V, c, r) /\ V.watched_keys = index
         /\ V.blocking_keys = W.blocking_keys /\ V.channels = W.channels /\ V.patterns = W.patterns
<1> DEFINE U == Put(W, c, r)
<1>1. /\ Shape(U) /\ U.cl[c] = r /\ \A d \in Clients : d # c => U.cl[d] = W.cl[d]
      /\ U.dict = W.dict /\ U.blocking_keys = W.blocking_keys /\ U.watched_keys = W.watched_keys
      /\ U.channels = W.channels /\ U.patterns = W.patterns /\ U.ready = W.ready
      /\ U.unblocked = W.unblocked /\ U.toclose = W.toclose /\ U.link = W.link /\ U.counted = W.counted
  BY PutIs
<1> HIDE DEF U
<1> DEFINE V == WithWatched(W, c, r, index)
<1>2. V = [U EXCEPT !.watched_keys = index]
  BY DEF U, WithWatched
<1> HIDE DEF V
<1> QED
  BY <1>1, <1>2 DEF Shape, Fields, Tabled, Only, V

LEMMA PutChannels ==
  ASSUME NEW W, Shape(W), NEW c \in Clients, NEW r, DOMAIN r = Attributes, NEW index
  PROVE  LET V == WithChannels(W, c, r, index) IN
         /\ Tabled(W, V, c, r) /\ V.channels = index
         /\ V.blocking_keys = W.blocking_keys /\ V.watched_keys = W.watched_keys /\ V.patterns = W.patterns
<1> DEFINE U == Put(W, c, r)
<1>1. /\ Shape(U) /\ U.cl[c] = r /\ \A d \in Clients : d # c => U.cl[d] = W.cl[d]
      /\ U.dict = W.dict /\ U.blocking_keys = W.blocking_keys /\ U.watched_keys = W.watched_keys
      /\ U.channels = W.channels /\ U.patterns = W.patterns /\ U.ready = W.ready
      /\ U.unblocked = W.unblocked /\ U.toclose = W.toclose /\ U.link = W.link /\ U.counted = W.counted
  BY PutIs
<1> HIDE DEF U
<1> DEFINE V == WithChannels(W, c, r, index)
<1>2. V = [U EXCEPT !.channels = index]
  BY DEF U, WithChannels
<1> HIDE DEF V
<1> QED
  BY <1>1, <1>2 DEF Shape, Fields, Tabled, Only, V

LEMMA PutPatterns ==
  ASSUME NEW W, Shape(W), NEW c \in Clients, NEW r, DOMAIN r = Attributes, NEW index
  PROVE  LET V == WithPatterns(W, c, r, index) IN
         /\ Tabled(W, V, c, r) /\ V.patterns = index
         /\ V.blocking_keys = W.blocking_keys /\ V.watched_keys = W.watched_keys /\ V.channels = W.channels
<1> DEFINE U == Put(W, c, r)
<1>1. /\ Shape(U) /\ U.cl[c] = r /\ \A d \in Clients : d # c => U.cl[d] = W.cl[d]
      /\ U.dict = W.dict /\ U.blocking_keys = W.blocking_keys /\ U.watched_keys = W.watched_keys
      /\ U.channels = W.channels /\ U.patterns = W.patterns /\ U.ready = W.ready
      /\ U.unblocked = W.unblocked /\ U.toclose = W.toclose /\ U.link = W.link /\ U.counted = W.counted
  BY PutIs
<1> HIDE DEF U
<1> DEFINE V == WithPatterns(W, c, r, index)
<1>2. V = [U EXCEPT !.patterns = index]
  BY DEF U, WithPatterns
<1> HIDE DEF V
<1> QED
  BY <1>1, <1>2 DEF Shape, Fields, Tabled, Only, V

----------------------------------------------------------------------------
\* Keys are watched when no list is ready.
LEMMA WatchGood ==
  ASSUME NEW W, NEW bs, NEW cs, GoodBut(W, bs, cs), NEW c \in Clients, W.cl[c].alive, W.ready = Empty,
         NEW ks, ks \subseteq Keys
  PROVE  GoodBut(watchForKey(W, c, ks), bs, cs) /\ Calm(W, watchForKey(W, c, ks))
<1> DEFINE me == W.cl[c]
           new == ks \ me.watched
           seen == [k \in DOMAIN me.seen \cup new |-> IF k \in new THEN Content(W.dict, k) ELSE me.seen[k]]
           r == [me EXCEPT !.watched = me.watched \cup new, !.seen = seen]
           index == Join(W.watched_keys, new, c)
           V == watchForKey(W, c, ks)
<1>1. Shape(W) /\ Tables(W) /\ Queues(W) /\ Data(W, bs) /\ DOMAIN me = Attributes /\ ClientOk(me, c \in W.counted)
  BY GoodParts
<1>2. V = WithWatched(W, c, r, index)
  BY <1>1 DEF WithWatched, watchForKey, Put, Shape, Fields, Attributes
<1>3. /\ DOMAIN r = Attributes /\ r.watched = me.watched \cup new /\ r.seen = seen /\ r.alive = me.alive
      /\ r.keys = me.keys /\ r.subs = me.subs /\ r.pats = me.pats /\ r.querybuf = me.querybuf
      /\ r.list = me.list /\ r.flags = me.flags /\ r.commands = me.commands /\ r.target = me.target
      /\ r.where = me.where /\ r.buf = me.buf
  BY <1>1 DEF Attributes
<1>4. /\ DOMAIN seen = me.watched \cup new /\ \A k \in new : seen[k] = Content(W.dict, k)
      /\ \A k \in me.watched \ new : seen[k] = me.seen[k]
  BY <1>1 DEF ClientOk
<1> HIDE DEF r, seen, index, V
<1>5. ClientOk(r, c \in W.counted)
  BY <1>1, <1>3, <1>4 DEF ClientOk
<1>6. /\ Shape(V) /\ Only(W, V, c, r) /\ V.watched_keys = index
      /\ V.blocking_keys = W.blocking_keys /\ V.channels = W.channels /\ V.patterns = W.patterns
      /\ V.dict = W.dict /\ V.ready = W.ready /\ V.unblocked = W.unblocked /\ V.link = W.link
      /\ V.counted = W.counted
  BY <1>1, <1>2, <1>3, PutWatched DEF Tabled
<1>7. V.cl[c] = r /\ (\A d \in Clients : d # c => V.cl[d] = W.cl[d]) /\ V.toclose = W.toclose
  BY <1>6 DEF Only
<1>8. IndexOk(index, WatchedOf(V))
  <2>1. IndexOk(W.watched_keys, WatchedOf(W))
    BY <1>1 DEF Tables
  <2>2. WatchedOf(W)[c] = me.watched /\ WatchedOf(V)[c] = me.watched \cup new
        /\ \A d \in Clients \ {c} : WatchedOf(V)[d] = WatchedOf(W)[d]
    BY <1>3, <1>7 DEF WatchedOf
  <2> DEFINE F == WatchedOf(W)
             G == WatchedOf(V)
             i == W.watched_keys
  <2>3. /\ IndexOk(i, F) /\ (\A k \in new : k \notin F[c]) /\ G[c] = F[c] \cup new
        /\ \A d \in Clients \ {c} : G[d] = F[d]
    BY <2>1, <2>2
  <2> HIDE DEF F, G, i, new
  <2>4. IndexOk(Join(i, new, c), G)
    BY ONLY <2>3, JoinOk, c \in Clients
  <2> QED
    BY <2>4 DEF F, G, i, index
<1>9. KeysOf(V) = KeysOf(W) /\ SubsOf(V) = SubsOf(W)
  BY <1>3, <1>7 DEF KeysOf, SubsOf
<1>10. \A d \in Clients : \A p : (p \in V.cl[d].pats) <=> Contains(V.patterns, <<d, p>>)
  BY <1>1, <1>3, <1>6, <1>7 DEF Tables
<1>11. Tables(V)
  BY <1>1, <1>6, <1>8, <1>9, <1>10 DEF Tables
<1>12. Queues(V) /\ Pending(V, bs)
  BY <1>1, <1>3, <1>6, <1>7 DEF Queues, Data, Pending, IsList
<1>13. c \in cs \/ Limit(V, c)
  <2>1. c \in cs \/ Limit(W, c)
    BY DEF GoodBut
  <2> QED
    BY <1>3, <1>7, <2>1, LimitSame
<1>14. "DIRTY_CAS" \in r.flags \/ \A k \in r.watched : Content(W.dict, k) = r.seen[k] /\ ~Contains(W.ready, k)
  <2>1. \A k : ~Contains(W.ready, k)
    BY EmptyIs DEF Contains
  <2>2. "DIRTY_CAS" \in me.flags \/ \A k \in me.watched : Content(W.dict, k) = me.seen[k]
    BY <1>1 DEF Data, Fresh
  <2> QED
    BY <1>3, <1>4, <2>1, <2>2
<1>15. GoodBut(V, bs, cs)
  BY <1>3, <1>5, <1>6, <1>7, <1>11, <1>12, <1>13, <1>14, ChangeGood
<1>160. Closing(W) => Closing(V)
  <2>1. \A d \in Clients : "CLOSE_ASAP" \in V.cl[d].flags <=> "CLOSE_ASAP" \in W.cl[d].flags
    BY <1>3, <1>7
  <2> QED
    BY <1>7, <2>1, ClosingSame
<1>16. Calm(W, V)
  BY <1>3, <1>6, <1>7, <1>160 DEF Calm, Quiet
<1> QED
  BY <1>15, <1>16 DEF V

----------------------------------------------------------------------------
\* Subscriptions: whoever changes them may be over the limit of its new class, until its reply.
LEMMA SubscribedGood ==
  ASSUME NEW W, NEW bs, NEW cs, GoodBut(W, bs, cs), NEW c \in Clients, W.cl[c].alive, NEW ch, ch \notin W.cl[c].subs
  PROVE  LET V == [W EXCEPT !.cl[c].subs = @ \cup {ch}, !.channels = Join(@, {ch}, c)] IN
         /\ GoodBut(V, bs, cs \cup {c}) /\ Calm(W, V)
         /\ Only(W, V, c, [W.cl[c] EXCEPT !.subs = @ \cup {ch}])
<1> DEFINE me == W.cl[c]
           r == [me EXCEPT !.subs = me.subs \cup {ch}]
           index == Join(W.channels, {ch}, c)
           V == [W EXCEPT !.cl[c].subs = @ \cup {ch}, !.channels = Join(@, {ch}, c)]
<1>1. Shape(W) /\ Tables(W) /\ Queues(W) /\ Data(W, bs) /\ DOMAIN me = Attributes /\ ClientOk(me, c \in W.counted)
  BY GoodParts
<1>2. V = WithChannels(W, c, r, index)
  BY <1>1 DEF WithChannels, Put, Shape, Fields, Attributes
<1>3. /\ DOMAIN r = Attributes /\ r.watched = me.watched /\ r.seen = me.seen /\ r.alive = me.alive
      /\ r.keys = me.keys /\ r.subs = me.subs \cup {ch} /\ r.pats = me.pats /\ r.querybuf = me.querybuf
      /\ r.list = me.list /\ r.flags = me.flags /\ r.commands = me.commands /\ r.target = me.target
      /\ r.where = me.where /\ r.buf = me.buf
  BY <1>1 DEF Attributes
<1> HIDE DEF r, index, V
<1>4. IsFiniteSet(me.subs \cup {ch})
  <2>1. IsFiniteSet(me.subs)
    BY <1>1 DEF ClientOk
  <2> QED
    BY <2>1, FS_AddElement, FS_RemoveElement
<1>5. ClientOk(r, c \in W.counted)
  BY <1>1, <1>3, <1>4 DEF ClientOk
<1>6. /\ Shape(V) /\ Only(W, V, c, r) /\ V.channels = index
      /\ V.blocking_keys = W.blocking_keys /\ V.watched_keys = W.watched_keys /\ V.patterns = W.patterns
      /\ V.dict = W.dict /\ V.ready = W.ready /\ V.unblocked = W.unblocked /\ V.link = W.link
      /\ V.counted = W.counted
  BY <1>1, <1>2, <1>3, PutChannels DEF Tabled
<1>7. V.cl[c] = r /\ (\A d \in Clients : d # c => V.cl[d] = W.cl[d]) /\ V.toclose = W.toclose
  BY <1>6 DEF Only
<1>8. IndexOk(index, SubsOf(V))
  <2>1. IndexOk(W.channels, SubsOf(W))
    BY <1>1 DEF Tables
  <2>2. SubsOf(W)[c] = me.subs /\ SubsOf(V)[c] = me.subs \cup {ch}
        /\ \A d \in Clients \ {c} : SubsOf(V)[d] = SubsOf(W)[d]
    BY <1>3, <1>7 DEF SubsOf
  <2> DEFINE F == SubsOf(W)
             G == SubsOf(V)
             i == W.channels
             new == {ch}
  <2>3. IndexOk(i, F) /\ (\A k \in new : k \notin F[c]) /\ G[c] = F[c] \cup new /\ \A d \in Clients \ {c} : G[d] = F[d]
    BY <2>1, <2>2
  <2> HIDE DEF F, G, i, new
  <2>4. IndexOk(Join(i, new, c), G)
    BY ONLY <2>3, JoinOk, c \in Clients
  <2> QED
    BY <2>4 DEF F, G, i, index, new
<1>9. KeysOf(V) = KeysOf(W) /\ WatchedOf(V) = WatchedOf(W)
  BY <1>3, <1>7 DEF KeysOf, WatchedOf
<1>10. \A d \in Clients : \A p : (p \in V.cl[d].pats) <=> Contains(V.patterns, <<d, p>>)
  BY <1>1, <1>3, <1>6, <1>7 DEF Tables
<1>11. Tables(V)
  BY <1>1, <1>6, <1>8, <1>9, <1>10 DEF Tables
<1>12. Queues(V) /\ Pending(V, bs)
  BY <1>1, <1>3, <1>6, <1>7 DEF Queues, Data, Pending, IsList
<1>14. "DIRTY_CAS" \in r.flags \/ \A k \in r.watched : Content(W.dict, k) = r.seen[k] /\ ~Contains(W.ready, k)
  BY <1>1, <1>3 DEF Data, Fresh, ReadyDirty
<1>15. GoodBut(V, bs, cs \cup {c})
  BY <1>3, <1>5, <1>6, <1>7, <1>11, <1>12, <1>14, ChangeGood
<1>160. Closing(W) => Closing(V)
  <2>1. \A d \in Clients : "CLOSE_ASAP" \in V.cl[d].flags <=> "CLOSE_ASAP" \in W.cl[d].flags
    BY <1>3, <1>7
  <2> QED
    BY <1>7, <2>1, ClosingSame
<1>16. Calm(W, V)
  BY <1>3, <1>6, <1>7, <1>160 DEF Calm, Quiet
<1> QED
  BY <1>6, <1>15, <1>16 DEF V, r

LEMMA UnsubscribedGood ==
  ASSUME NEW W, NEW bs, NEW cs, GoodBut(W, bs, cs), NEW c \in Clients, W.cl[c].alive, NEW ch, ch \in W.cl[c].subs
  PROVE  LET V == [W EXCEPT !.cl[c].subs = @ \ {ch}, !.channels = Leave(@, {ch}, c)] IN
         /\ GoodBut(V, bs, cs \cup {c}) /\ Calm(W, V)
         /\ Only(W, V, c, [W.cl[c] EXCEPT !.subs = @ \ {ch}])
<1> DEFINE me == W.cl[c]
           r == [me EXCEPT !.subs = me.subs \ {ch}]
           index == Leave(W.channels, {ch}, c)
           V == [W EXCEPT !.cl[c].subs = @ \ {ch}, !.channels = Leave(@, {ch}, c)]
<1>1. Shape(W) /\ Tables(W) /\ Queues(W) /\ Data(W, bs) /\ DOMAIN me = Attributes /\ ClientOk(me, c \in W.counted)
  BY GoodParts
<1>2. V = WithChannels(W, c, r, index)
  BY <1>1 DEF WithChannels, Put, Shape, Fields, Attributes
<1>3. /\ DOMAIN r = Attributes /\ r.watched = me.watched /\ r.seen = me.seen /\ r.alive = me.alive
      /\ r.keys = me.keys /\ r.subs = me.subs \ {ch} /\ r.pats = me.pats /\ r.querybuf = me.querybuf
      /\ r.list = me.list /\ r.flags = me.flags /\ r.commands = me.commands /\ r.target = me.target
      /\ r.where = me.where /\ r.buf = me.buf
  BY <1>1 DEF Attributes
<1> HIDE DEF r, index, V
<1>4. IsFiniteSet(me.subs \ {ch})
  <2>1. IsFiniteSet(me.subs)
    BY <1>1 DEF ClientOk
  <2> QED
    BY <2>1, FS_AddElement, FS_RemoveElement
<1>5. ClientOk(r, c \in W.counted)
  BY <1>1, <1>3, <1>4 DEF ClientOk
<1>6. /\ Shape(V) /\ Only(W, V, c, r) /\ V.channels = index
      /\ V.blocking_keys = W.blocking_keys /\ V.watched_keys = W.watched_keys /\ V.patterns = W.patterns
      /\ V.dict = W.dict /\ V.ready = W.ready /\ V.unblocked = W.unblocked /\ V.link = W.link
      /\ V.counted = W.counted
  BY <1>1, <1>2, <1>3, PutChannels DEF Tabled
<1>7. V.cl[c] = r /\ (\A d \in Clients : d # c => V.cl[d] = W.cl[d]) /\ V.toclose = W.toclose
  BY <1>6 DEF Only
<1>8. IndexOk(index, SubsOf(V))
  <2>1. IndexOk(W.channels, SubsOf(W))
    BY <1>1 DEF Tables
  <2>2. SubsOf(W)[c] = me.subs /\ SubsOf(V)[c] = me.subs \ {ch}
        /\ \A d \in Clients \ {c} : SubsOf(V)[d] = SubsOf(W)[d]
    BY <1>3, <1>7 DEF SubsOf
  <2> DEFINE F == SubsOf(W)
             G == SubsOf(V)
             i == W.channels
             new == {ch}
  <2>3. IndexOk(i, F) /\ new \subseteq F[c] /\ G[c] = F[c] \ new /\ \A d \in Clients \ {c} : G[d] = F[d]
    BY <2>1, <2>2
  <2> HIDE DEF F, G, i, new
  <2>4. IndexOk(Leave(i, new, c), G)
    BY ONLY <2>3, LeaveOk, c \in Clients
  <2> QED
    BY <2>4 DEF F, G, i, index, new
<1>9. KeysOf(V) = KeysOf(W) /\ WatchedOf(V) = WatchedOf(W)
  BY <1>3, <1>7 DEF KeysOf, WatchedOf
<1>10. \A d \in Clients : \A p : (p \in V.cl[d].pats) <=> Contains(V.patterns, <<d, p>>)
  BY <1>1, <1>3, <1>6, <1>7 DEF Tables
<1>11. Tables(V)
  BY <1>1, <1>6, <1>8, <1>9, <1>10 DEF Tables
<1>12. Queues(V) /\ Pending(V, bs)
  BY <1>1, <1>3, <1>6, <1>7 DEF Queues, Data, Pending, IsList
<1>14. "DIRTY_CAS" \in r.flags \/ \A k \in r.watched : Content(W.dict, k) = r.seen[k] /\ ~Contains(W.ready, k)
  BY <1>1, <1>3 DEF Data, Fresh, ReadyDirty
<1>15. GoodBut(V, bs, cs \cup {c})
  BY <1>3, <1>5, <1>6, <1>7, <1>11, <1>12, <1>14, ChangeGood
<1>160. Closing(W) => Closing(V)
  <2>1. \A d \in Clients : "CLOSE_ASAP" \in V.cl[d].flags <=> "CLOSE_ASAP" \in W.cl[d].flags
    BY <1>3, <1>7
  <2> QED
    BY <1>7, <2>1, ClosingSame
<1>16. Calm(W, V)
  BY <1>3, <1>6, <1>7, <1>160 DEF Calm, Quiet
<1> QED
  BY <1>6, <1>15, <1>16 DEF V, r

\* A list of a finite set has every member.
LEMMA ListOfSet ==
  ASSUME NEW X, IsFiniteSet(X)
  PROVE  /\ SetToSeq(X) \in Seq(X) /\ Len(SetToSeq(X)) \in Nat
         /\ \A x \in X : \E n \in 1..Len(SetToSeq(X)) : SetToSeq(X)[n] = x
<1>1. PICK n \in Nat : ExistsBijection(1..n, X)
  BY FS_NatBijection
<1>2. Cardinality(X) = n
  BY <1>1, FS_CountingElements
<1>3. \E f \in [1..Cardinality(X) -> X] : IsInjective(f)
  BY <1>1, <1>2 DEF ExistsBijection, Bijection, Injection
<1> DEFINE s == SetToSeq(X)
<1>4. s \in [1..n -> X] /\ IsInjective(s)
  BY <1>2, <1>3 DEF SetToSeq
<1> HIDE DEF s
<1>5. Len(s) = n /\ s \in Seq(X)
  BY <1>4
<1>6. s \in Injection(1..n, X)
  BY <1>4 DEF Injection, IsInjective
<1>7. IsFiniteSet(1..n) /\ Cardinality(1..n) = n
  BY FS_Interval
<1>8. s \in Surjection(1..n, X)
  BY <1>2, <1>6, <1>7, FS_Injection
<1>9. \A x \in X : \E i \in 1..n : s[i] = x
  BY <1>8 DEF Surjection
<1> QED
  BY <1>5, <1>9 DEF s

LEMMA GoodMore ==
  ASSUME NEW W, NEW ks, NEW cs, GoodBut(W, ks, cs), NEW ds, cs \subseteq ds
  PROVE  GoodBut(W, ks, ds)
BY DEF GoodBut

LEMMA AddReplyMore ==
  ASSUME NEW W, NEW ks, NEW cs, NEW c \in Clients, GoodBut(W, ks, cs \cup {c}), W.cl[c].alive
  PROVE  GoodBut(addReply(W, c), ks, cs) /\ Replied(W, addReply(W, c)) /\ Calm(W, addReply(W, c))
<1>1. GoodBut(addReply(W, c), ks, (cs \cup {c}) \ {c}) /\ Replied(W, addReply(W, c))
  BY AddReplyGood
<1> QED
  BY <1>1, GoodMore, RepliedCalm

----------------------------------------------------------------------------
\* Patterns.
LEMMA PSubscribedGood ==
  ASSUME NEW W, NEW bs, NEW cs, GoodBut(W, bs, cs), NEW c \in Clients, W.cl[c].alive,
         NEW p \in DOMAIN Matches, p \notin W.cl[c].pats
  PROVE  LET V == [W EXCEPT !.cl[c].pats = @ \cup {p}, !.patterns = Append(@, <<c, p>>)] IN
         /\ GoodBut(V, bs, cs \cup {c}) /\ Calm(W, V)
         /\ Only(W, V, c, [W.cl[c] EXCEPT !.pats = @ \cup {p}])
<1> DEFINE me == W.cl[c]
           r == [me EXCEPT !.pats = me.pats \cup {p}]
           index == Append(W.patterns, <<c, p>>)
           V == [W EXCEPT !.cl[c].pats = @ \cup {p}, !.patterns = Append(@, <<c, p>>)]
<1>1. Shape(W) /\ Tables(W) /\ Queues(W) /\ Data(W, bs) /\ DOMAIN me = Attributes /\ ClientOk(me, c \in W.counted)
  BY GoodParts
<1>2. V = WithPatterns(W, c, r, index)
  BY <1>1 DEF WithPatterns, Put, Shape, Fields, Attributes
<1>3. /\ DOMAIN r = Attributes /\ r.watched = me.watched /\ r.seen = me.seen /\ r.alive = me.alive
      /\ r.keys = me.keys /\ r.pats = me.pats \cup {p} /\ r.subs = me.subs /\ r.querybuf = me.querybuf
      /\ r.list = me.list /\ r.flags = me.flags /\ r.commands = me.commands /\ r.target = me.target
      /\ r.where = me.where /\ r.buf = me.buf
  BY <1>1 DEF Attributes
<1> HIDE DEF r, V, index
<1>4. IsFiniteSet(me.pats \cup {p})
  <2>1. IsFiniteSet(me.pats)
    BY <1>1 DEF ClientOk
  <2> QED
    BY <2>1, FS_AddElement, FS_RemoveElement
<1>5. ClientOk(r, c \in W.counted)
  BY <1>1, <1>3, <1>4 DEF ClientOk
<1>6. /\ Shape(V) /\ Only(W, V, c, r) /\ V.patterns = index
      /\ V.blocking_keys = W.blocking_keys /\ V.watched_keys = W.watched_keys /\ V.channels = W.channels
      /\ V.dict = W.dict /\ V.ready = W.ready /\ V.unblocked = W.unblocked /\ V.link = W.link
      /\ V.counted = W.counted
  BY <1>1, <1>2, <1>3, PutPatterns DEF Tabled
<1>7. V.cl[c] = r /\ (\A d \in Clients : d # c => V.cl[d] = W.cl[d]) /\ V.toclose = W.toclose
  BY <1>6 DEF Only
<1>8. /\ index \in Seq(Clients \X DOMAIN Matches) /\ IsInjective(index)
      /\ \A x : Contains(index, x) <=> Contains(W.patterns, x) \/ x = <<c, p>>
  <2> DEFINE s == W.patterns
             e == <<c, p>>
             X == Clients \X DOMAIN Matches
  <2>1. s \in Seq(X) /\ IsInjective(s) /\ e \in X /\ ~Contains(s, e)
    BY <1>1 DEF Tables
  <2> HIDE DEF s, e, X
  <2>2. /\ Append(s, e) \in Seq(X) /\ IsInjective(Append(s, e))
        /\ \A x : Contains(Append(s, e), x) <=> Contains(s, x) \/ x = e
    BY <2>1, AppendContains, AppendOnce
  <2> QED
    BY <2>2 DEF s, e, X, index
<1>9. KeysOf(V) = KeysOf(W) /\ WatchedOf(V) = WatchedOf(W) /\ SubsOf(V) = SubsOf(W)
  BY <1>3, <1>7 DEF KeysOf, WatchedOf, SubsOf
<1>10. \A d \in Clients : \A x : (x \in V.cl[d].pats) <=> Contains(V.patterns, <<d, x>>)
  <2> SUFFICES ASSUME NEW d \in Clients, NEW x PROVE (x \in V.cl[d].pats) <=> Contains(V.patterns, <<d, x>>)
    OBVIOUS
  <2>1. x \in W.cl[d].pats <=> Contains(W.patterns, <<d, x>>)
    BY <1>1 DEF Tables
  <2>2. Contains(V.patterns, <<d, x>>) <=> Contains(W.patterns, <<d, x>>) \/ (d = c /\ x = p)
    BY <1>6, <1>8
  <2> QED
    BY <1>3, <1>7, <2>1, <2>2
<1>11. Tables(V)
  BY <1>1, <1>6, <1>8, <1>9, <1>10 DEF Tables
<1>12. Queues(V) /\ Pending(V, bs)
  BY <1>1, <1>3, <1>6, <1>7 DEF Queues, Data, Pending, IsList
<1>14. "DIRTY_CAS" \in r.flags \/ \A k \in r.watched : Content(W.dict, k) = r.seen[k] /\ ~Contains(W.ready, k)
  BY <1>1, <1>3 DEF Data, Fresh, ReadyDirty
<1>15. GoodBut(V, bs, cs \cup {c})
  BY <1>3, <1>5, <1>6, <1>7, <1>11, <1>12, <1>14, ChangeGood
<1>160. Closing(W) => Closing(V)
  <2>1. \A d \in Clients : "CLOSE_ASAP" \in V.cl[d].flags <=> "CLOSE_ASAP" \in W.cl[d].flags
    BY <1>3, <1>7
  <2> QED
    BY <1>7, <2>1, ClosingSame
<1>16. Calm(W, V)
  BY <1>3, <1>6, <1>7, <1>160 DEF Calm, Quiet
<1> QED
  BY <1>6, <1>15, <1>16 DEF V, r

LEMMA PUnsubscribedGood ==
  ASSUME NEW W, NEW bs, NEW cs, GoodBut(W, bs, cs), NEW c \in Clients, W.cl[c].alive,
         NEW p, p \in W.cl[c].pats
  PROVE  LET V == [W EXCEPT !.cl[c].pats = @ \ {p}, !.patterns = RemoveFirst(@, <<c, p>>)] IN
         /\ GoodBut(V, bs, cs \cup {c}) /\ Calm(W, V)
         /\ Only(W, V, c, [W.cl[c] EXCEPT !.pats = @ \ {p}])
<1> DEFINE me == W.cl[c]
           r == [me EXCEPT !.pats = me.pats \ {p}]
           index == RemoveFirst(W.patterns, <<c, p>>)
           V == [W EXCEPT !.cl[c].pats = @ \ {p}, !.patterns = RemoveFirst(@, <<c, p>>)]
<1>1. Shape(W) /\ Tables(W) /\ Queues(W) /\ Data(W, bs) /\ DOMAIN me = Attributes /\ ClientOk(me, c \in W.counted)
  BY GoodParts
<1>2. V = WithPatterns(W, c, r, index)
  BY <1>1 DEF WithPatterns, Put, Shape, Fields, Attributes
<1>3. /\ DOMAIN r = Attributes /\ r.watched = me.watched /\ r.seen = me.seen /\ r.alive = me.alive
      /\ r.keys = me.keys /\ r.pats = me.pats \ {p} /\ r.subs = me.subs /\ r.querybuf = me.querybuf
      /\ r.list = me.list /\ r.flags = me.flags /\ r.commands = me.commands /\ r.target = me.target
      /\ r.where = me.where /\ r.buf = me.buf
  BY <1>1 DEF Attributes
<1> HIDE DEF r, V, index
<1>4. IsFiniteSet(me.pats \ {p})
  <2>1. IsFiniteSet(me.pats)
    BY <1>1 DEF ClientOk
  <2> QED
    BY <2>1, FS_AddElement, FS_RemoveElement
<1>5. ClientOk(r, c \in W.counted)
  BY <1>1, <1>3, <1>4 DEF ClientOk
<1>6. /\ Shape(V) /\ Only(W, V, c, r) /\ V.patterns = index
      /\ V.blocking_keys = W.blocking_keys /\ V.watched_keys = W.watched_keys /\ V.channels = W.channels
      /\ V.dict = W.dict /\ V.ready = W.ready /\ V.unblocked = W.unblocked /\ V.link = W.link
      /\ V.counted = W.counted
  BY <1>1, <1>2, <1>3, PutPatterns DEF Tabled
<1>7. V.cl[c] = r /\ (\A d \in Clients : d # c => V.cl[d] = W.cl[d]) /\ V.toclose = W.toclose
  BY <1>6 DEF Only
<1>8. /\ index \in Seq(Clients \X DOMAIN Matches) /\ IsInjective(index)
      /\ \A x : Contains(index, x) <=> Contains(W.patterns, x) /\ x # <<c, p>>
  <2> DEFINE s == W.patterns
             e == <<c, p>>
             X == Clients \X DOMAIN Matches
  <2>1. s \in Seq(X) /\ IsInjective(s)
    BY <1>1 DEF Tables
  <2> HIDE DEF s, e, X
  <2>2. /\ RemoveFirst(s, e) \in Seq(X) /\ IsInjective(RemoveFirst(s, e)) /\ ~Contains(RemoveFirst(s, e), e)
        /\ \A x : x # e => (Contains(RemoveFirst(s, e), x) <=> Contains(s, x))
    BY <2>1, RemoveFirstList, RemoveFirstInjective
  <2>3. \A x : Contains(RemoveFirst(s, e), x) <=> Contains(s, x) /\ x # e
    BY <2>2
  <2> QED
    BY <2>2, <2>3 DEF s, e, X, index
<1>9. KeysOf(V) = KeysOf(W) /\ WatchedOf(V) = WatchedOf(W) /\ SubsOf(V) = SubsOf(W)
  BY <1>3, <1>7 DEF KeysOf, WatchedOf, SubsOf
<1>10. \A d \in Clients : \A x : (x \in V.cl[d].pats) <=> Contains(V.patterns, <<d, x>>)
  <2> SUFFICES ASSUME NEW d \in Clients, NEW x PROVE (x \in V.cl[d].pats) <=> Contains(V.patterns, <<d, x>>)
    OBVIOUS
  <2>1. x \in W.cl[d].pats <=> Contains(W.patterns, <<d, x>>)
    BY <1>1 DEF Tables
  <2>2. Contains(V.patterns, <<d, x>>) <=> Contains(W.patterns, <<d, x>>) /\ ~(d = c /\ x = p)
    BY <1>6, <1>8
  <2> QED
    BY <1>3, <1>7, <2>1, <2>2
<1>11. Tables(V)
  BY <1>1, <1>6, <1>8, <1>9, <1>10 DEF Tables
<1>12. Queues(V) /\ Pending(V, bs)
  BY <1>1, <1>3, <1>6, <1>7 DEF Queues, Data, Pending, IsList
<1>14. "DIRTY_CAS" \in r.flags \/ \A k \in r.watched : Content(W.dict, k) = r.seen[k] /\ ~Contains(W.ready, k)
  BY <1>1, <1>3 DEF Data, Fresh, ReadyDirty
<1>15. GoodBut(V, bs, cs \cup {c})
  BY <1>3, <1>5, <1>6, <1>7, <1>11, <1>12, <1>14, ChangeGood
<1>160. Closing(W) => Closing(V)
  <2>1. \A d \in Clients : "CLOSE_ASAP" \in V.cl[d].flags <=> "CLOSE_ASAP" \in W.cl[d].flags
    BY <1>3, <1>7
  <2> QED
    BY <1>7, <2>1, ClosingSame
<1>16. Calm(W, V)
  BY <1>3, <1>6, <1>7, <1>160 DEF Calm, Quiet
<1> QED
  BY <1>6, <1>15, <1>16 DEF V, r

\* A client leaves channels or patterns; nothing else of it changes.
Shed(W, V, c) ==
    /\ Calm(W, V) /\ V.toclose = W.toclose /\ \A d \in Clients : d # c => V.cl[d] = W.cl[d]
    /\ V.cl[c].flags = W.cl[c].flags /\ V.cl[c].watched = W.cl[c].watched
    /\ V.cl[c].subs \subseteq W.cl[c].subs /\ V.cl[c].pats \subseteq W.cl[c].pats

\* The first n of x are not in S.
Out(S, x, n) == \A i \in 1..n : x[i] \notin S

LEMMA ShedRefl == ASSUME NEW W, NEW c PROVE Shed(W, W, c)
BY DEF Shed, Calm, Quiet

LEMMA ShedTrans == ASSUME NEW U, NEW V, NEW W, NEW c, Shed(U, V, c), Shed(V, W, c) PROVE Shed(U, W, c)
<1>1. Calm(U, W)
  BY CalmTrans DEF Shed
<1> QED
  BY <1>1 DEF Shed

LEMMA CalmRefl == ASSUME NEW W PROVE Calm(W, W)
BY DEF Calm, Quiet

LEMMA CalmAlive == ASSUME NEW W, NEW V, NEW c \in Clients, Calm(W, V) PROVE V.cl[c].alive = W.cl[c].alive
BY DEF Calm, Quiet

LEMMA LeaveChannelShed ==
  ASSUME NEW W, NEW bs, NEW cs, GoodBut(W, bs, cs), NEW c \in Clients, W.cl[c].alive, NEW x
  PROVE  LET V == pubsubUnsubscribeChannel(W, c, x, FALSE) IN
         GoodBut(V, bs, cs \cup {c}) /\ Shed(W, V, c) /\ x \notin V.cl[c].subs
<1> DEFINE me == W.cl[c]
           r == [me EXCEPT !.subs = @ \ {x}]
           U == [W EXCEPT !.cl[c].subs = @ \ {x}, !.channels = Leave(@, {x}, c)]
           V == pubsubUnsubscribeChannel(W, c, x, FALSE)
<1>0. Shape(W) /\ DOMAIN me = Attributes
  BY GoodParts
<1>1. CASE x \notin me.subs
  <2>1. V = W
    BY <1>1 DEF pubsubUnsubscribeChannel
  <2> QED
    BY <1>1, <2>1, ShedRefl, GoodMore
<1>2. CASE x \in me.subs
  <2>1. V = U
    BY <1>2 DEF pubsubUnsubscribeChannel
  <2> HIDE DEF V
  <2>2. GoodBut(U, bs, cs \cup {c}) /\ Calm(W, U) /\ Only(W, U, c, r)
    BY <1>2, UnsubscribedGood
  <2>3. r.subs = me.subs \ {x} /\ r.flags = me.flags /\ r.watched = me.watched /\ r.pats = me.pats
    BY <1>0 DEF Attributes
  <2> HIDE DEF r, U
  <2>4. Shed(W, U, c) /\ x \notin U.cl[c].subs
    BY <2>2, <2>3 DEF Only, Shed
  <2> QED
    BY <2>1, <2>2, <2>4 DEF V
<1> QED
  BY <1>1, <1>2

LEMMA LeaveChannelGood ==
  ASSUME NEW W, NEW bs, NEW cs, GoodBut(W, bs, cs), NEW c \in Clients, W.cl[c].alive, NEW x
  PROVE  GoodBut(pubsubUnsubscribeChannel(W, c, x, TRUE), bs, cs) /\ Calm(W, pubsubUnsubscribeChannel(W, c, x, TRUE))
<1> DEFINE U == pubsubUnsubscribeChannel(W, c, x, FALSE)
<1>1. pubsubUnsubscribeChannel(W, c, x, TRUE) = addReply(U, c)
  BY DEF pubsubUnsubscribeChannel
<1>2. GoodBut(U, bs, cs \cup {c}) /\ Calm(W, U)
  BY LeaveChannelShed DEF Shed
<1>3. U.cl[c].alive
  BY <1>2, CalmAlive
<1> HIDE DEF U
<1>4. GoodBut(addReply(U, c), bs, cs) /\ Calm(U, addReply(U, c))
  BY <1>2, <1>3, AddReplyMore
<1> QED
  BY <1>1, <1>2, <1>4, CalmTrans

LEMMA LeavePatternShed ==
  ASSUME NEW W, NEW bs, NEW cs, GoodBut(W, bs, cs), NEW c \in Clients, W.cl[c].alive, NEW x
  PROVE  LET V == pubsubUnsubscribePattern(W, c, x, FALSE) IN
         GoodBut(V, bs, cs \cup {c}) /\ Shed(W, V, c) /\ x \notin V.cl[c].pats
<1> DEFINE me == W.cl[c]
           r == [me EXCEPT !.pats = @ \ {x}]
           U == [W EXCEPT !.cl[c].pats = @ \ {x}, !.patterns = RemoveFirst(@, <<c, x>>)]
           V == pubsubUnsubscribePattern(W, c, x, FALSE)
<1>0. Shape(W) /\ DOMAIN me = Attributes
  BY GoodParts
<1>1. CASE x \notin me.pats
  <2>1. V = W
    BY <1>1 DEF pubsubUnsubscribePattern
  <2> QED
    BY <1>1, <2>1, ShedRefl, GoodMore
<1>2. CASE x \in me.pats
  <2>1. V = U
    BY <1>2 DEF pubsubUnsubscribePattern
  <2> HIDE DEF V
  <2>2. GoodBut(U, bs, cs \cup {c}) /\ Calm(W, U) /\ Only(W, U, c, r)
    BY <1>2, PUnsubscribedGood
  <2>3. r.pats = me.pats \ {x} /\ r.flags = me.flags /\ r.watched = me.watched /\ r.subs = me.subs
    BY <1>0 DEF Attributes
  <2> HIDE DEF r, U
  <2>4. Shed(W, U, c) /\ x \notin U.cl[c].pats
    BY <2>2, <2>3 DEF Only, Shed
  <2> QED
    BY <2>1, <2>2, <2>4 DEF V
<1> QED
  BY <1>1, <1>2

LEMMA LeavePatternGood ==
  ASSUME NEW W, NEW bs, NEW cs, GoodBut(W, bs, cs), NEW c \in Clients, W.cl[c].alive, NEW x
  PROVE  GoodBut(pubsubUnsubscribePattern(W, c, x, TRUE), bs, cs) /\ Calm(W, pubsubUnsubscribePattern(W, c, x, TRUE))
<1> DEFINE U == pubsubUnsubscribePattern(W, c, x, FALSE)
<1>1. pubsubUnsubscribePattern(W, c, x, TRUE) = addReply(U, c)
  BY DEF pubsubUnsubscribePattern
<1>2. GoodBut(U, bs, cs \cup {c}) /\ Calm(W, U)
  BY LeavePatternShed DEF Shed
<1>3. U.cl[c].alive
  BY <1>2, CalmAlive
<1> HIDE DEF U
<1>4. GoodBut(addReply(U, c), bs, cs) /\ Calm(U, addReply(U, c))
  BY <1>2, <1>3, AddReplyMore
<1> QED
  BY <1>1, <1>2, <1>4, CalmTrans

LEMMA LeaveChannelsShed ==
  ASSUME NEW W, NEW bs, NEW cs, GoodBut(W, bs, cs), NEW c \in Clients, W.cl[c].alive, NEW X, NEW x \in Seq(X)
  PROVE  LET V == UnsubscribeChannels(W, c, x, FALSE) IN
         GoodBut(V, bs, cs \cup {c}) /\ Shed(W, V, c) /\ Out(V.cl[c].subs, x, Len(x))
<1> DEFINE N == Len(x)
           zero == W
           step(A, n) == pubsubUnsubscribeChannel(A, c, x[n], FALSE)
           run[n \in 0..Len(x)] == IF n = 0 THEN zero ELSE step(run[n - 1], n)
<1>1. UnsubscribeChannels(W, c, x, FALSE) = run[N]
  BY DEF UnsubscribeChannels
<1>2. N \in Nat
  OBVIOUS
<1>3. ASSUME NEW A, NEW n \in 0..N - 1, GoodBut(A, bs, cs \cup {c}) /\ Shed(W, A, c) /\ Out(A.cl[c].subs, x, n)
      PROVE  GoodBut(step(A, n + 1), bs, cs \cup {c}) /\ Shed(W, step(A, n + 1), c) /\ Out(step(A, n + 1).cl[c].subs, x, n + 1)
  <2> DEFINE B == step(A, n + 1)
  <2>1. A.cl[c].alive
    BY <1>3, CalmAlive DEF Shed
  <2>2. GoodBut(B, bs, (cs \cup {c}) \cup {c}) /\ Shed(A, B, c) /\ x[n + 1] \notin B.cl[c].subs
    BY <1>3, <2>1, LeaveChannelShed
  <2> HIDE DEF B
  <2>3. GoodBut(B, bs, cs \cup {c})
    BY <2>2, GoodMore
  <2>4. Shed(W, B, c) /\ B.cl[c].subs \subseteq A.cl[c].subs
    BY <1>3, <2>2, ShedTrans DEF Shed
  <2>5. \A i \in 1..n + 1 : i = n + 1 \/ i \in 1..n
    BY <1>2
  <2> QED
    BY <1>3, <2>2, <2>3, <2>4, <2>5 DEF B, Out
<1> HIDE DEF step, zero
<1>4. run = [n \in 0..N |-> IF n = 0 THEN zero ELSE step(run[n - 1], n)]
  <2> HIDE DEF N, zero, step
  <2> DEFINE P == {m \in Nat : \E f : f = [n \in 0..m |-> IF n = 0 THEN zero ELSE step(f[n - 1], n)]}
  <2>1. 0 \in P
    <3> DEFINE f == [n \in 0..0 |-> zero]
    <3>1. f = [n \in 0..0 |-> IF n = 0 THEN zero ELSE step(f[n - 1], n)]
      OBVIOUS
    <3> HIDE DEF f
    <3> QED
      BY <3>1
  <2>2. ASSUME NEW m \in Nat, m \in P PROVE m + 1 \in P
    <3>1. PICK f : f = [n \in 0..m |-> IF n = 0 THEN zero ELSE step(f[n - 1], n)]
      BY <2>2
    <3> DEFINE g == [n \in 0..m + 1 |-> IF n = m + 1 THEN step(f[m], n) ELSE f[n]]
    <3>2. \A n \in 0..m + 1 : g[n] = IF n = 0 THEN zero ELSE step(g[n - 1], n)
      <4> SUFFICES ASSUME NEW n \in 0..m + 1 PROVE g[n] = IF n = 0 THEN zero ELSE step(g[n - 1], n)
        OBVIOUS
      <4>1. CASE n = m + 1
        BY <4>1
      <4>2. CASE n # m + 1
        BY <3>1, <4>2
      <4> QED
        BY <4>1, <4>2
    <3>3. g = [n \in 0..m + 1 |-> IF n = 0 THEN zero ELSE step(g[n - 1], n)]
      BY <3>2
    <3> HIDE DEF g
    <3> QED
      BY <3>3
  <2>3. N \in P
    BY <1>2, <2>1, <2>2, NatSetInduction
  <2> QED
    BY <2>3 DEF N
<1> HIDE DEF run
<1>5. GoodBut(zero, bs, cs \cup {c}) /\ Shed(W, zero, c) /\ Out(zero.cl[c].subs, x, 0)
  BY GoodMore, ShedRefl DEF zero, Out
<1>6. GoodBut(run[N], bs, cs \cup {c}) /\ Shed(W, run[N], c) /\ Out(run[N].cl[c].subs, x, N)
  <2> HIDE DEF N, zero, step
  <2> DEFINE P == {n \in Nat : n <= N => GoodBut(run[n], bs, cs \cup {c}) /\ Shed(W, run[n], c) /\ Out(run[n].cl[c].subs, x, n)}
  <2>1. 0 \in P
    <3>1. run[0] = zero
      BY <1>2, <1>4
    <3> QED
      BY <3>1, <1>5
  <2>2. ASSUME NEW n \in Nat, n \in P PROVE n + 1 \in P
    <3> SUFFICES ASSUME n + 1 <= N PROVE GoodBut(run[n + 1], bs, cs \cup {c}) /\ Shed(W, run[n + 1], c) /\ Out(run[n + 1].cl[c].subs, x, n + 1)
      OBVIOUS
    <3>1. n \in 0..N - 1 /\ n <= N /\ (n + 1) - 1 = n
      BY <1>2
    <3>2. run[n + 1] = step(run[n], n + 1)
      BY <1>2, <1>4
    <3>3. GoodBut(run[n], bs, cs \cup {c}) /\ Shed(W, run[n], c) /\ Out(run[n].cl[c].subs, x, n)
      BY <2>2, <3>1
    <3> HIDE DEF P
    <3>4. GoodBut(step(run[n], n + 1), bs, cs \cup {c}) /\ Shed(W, step(run[n], n + 1), c) /\ Out(step(run[n], n + 1).cl[c].subs, x, n + 1)
      BY <1>3, <3>1, <3>3
    <3> QED
      BY <3>2, <3>4
  <2>3. N \in P
    BY <1>2, <2>1, <2>2, NatSetInduction
  <2> QED
    BY <1>2, <2>3
<1> QED
  BY <1>1, <1>6

LEMMA LeavePatternsShed ==
  ASSUME NEW W, NEW bs, NEW cs, GoodBut(W, bs, cs), NEW c \in Clients, W.cl[c].alive, NEW X, NEW x \in Seq(X)
  PROVE  LET V == UnsubscribePatterns(W, c, x, FALSE) IN
         GoodBut(V, bs, cs \cup {c}) /\ Shed(W, V, c) /\ Out(V.cl[c].pats, x, Len(x))
<1> DEFINE N == Len(x)
           zero == W
           step(A, n) == pubsubUnsubscribePattern(A, c, x[n], FALSE)
           run[n \in 0..Len(x)] == IF n = 0 THEN zero ELSE step(run[n - 1], n)
<1>1. UnsubscribePatterns(W, c, x, FALSE) = run[N]
  BY DEF UnsubscribePatterns
<1>2. N \in Nat
  OBVIOUS
<1>3. ASSUME NEW A, NEW n \in 0..N - 1, GoodBut(A, bs, cs \cup {c}) /\ Shed(W, A, c) /\ Out(A.cl[c].pats, x, n)
      PROVE  GoodBut(step(A, n + 1), bs, cs \cup {c}) /\ Shed(W, step(A, n + 1), c) /\ Out(step(A, n + 1).cl[c].pats, x, n + 1)
  <2> DEFINE B == step(A, n + 1)
  <2>1. A.cl[c].alive
    BY <1>3, CalmAlive DEF Shed
  <2>2. GoodBut(B, bs, (cs \cup {c}) \cup {c}) /\ Shed(A, B, c) /\ x[n + 1] \notin B.cl[c].pats
    BY <1>3, <2>1, LeavePatternShed
  <2> HIDE DEF B
  <2>3. GoodBut(B, bs, cs \cup {c})
    BY <2>2, GoodMore
  <2>4. Shed(W, B, c) /\ B.cl[c].pats \subseteq A.cl[c].pats
    BY <1>3, <2>2, ShedTrans DEF Shed
  <2>5. \A i \in 1..n + 1 : i = n + 1 \/ i \in 1..n
    BY <1>2
  <2> QED
    BY <1>3, <2>2, <2>3, <2>4, <2>5 DEF B, Out
<1> HIDE DEF step, zero
<1>4. run = [n \in 0..N |-> IF n = 0 THEN zero ELSE step(run[n - 1], n)]
  <2> HIDE DEF N, zero, step
  <2> DEFINE P == {m \in Nat : \E f : f = [n \in 0..m |-> IF n = 0 THEN zero ELSE step(f[n - 1], n)]}
  <2>1. 0 \in P
    <3> DEFINE f == [n \in 0..0 |-> zero]
    <3>1. f = [n \in 0..0 |-> IF n = 0 THEN zero ELSE step(f[n - 1], n)]
      OBVIOUS
    <3> HIDE DEF f
    <3> QED
      BY <3>1
  <2>2. ASSUME NEW m \in Nat, m \in P PROVE m + 1 \in P
    <3>1. PICK f : f = [n \in 0..m |-> IF n = 0 THEN zero ELSE step(f[n - 1], n)]
      BY <2>2
    <3> DEFINE g == [n \in 0..m + 1 |-> IF n = m + 1 THEN step(f[m], n) ELSE f[n]]
    <3>2. \A n \in 0..m + 1 : g[n] = IF n = 0 THEN zero ELSE step(g[n - 1], n)
      <4> SUFFICES ASSUME NEW n \in 0..m + 1 PROVE g[n] = IF n = 0 THEN zero ELSE step(g[n - 1], n)
        OBVIOUS
      <4>1. CASE n = m + 1
        BY <4>1
      <4>2. CASE n # m + 1
        BY <3>1, <4>2
      <4> QED
        BY <4>1, <4>2
    <3>3. g = [n \in 0..m + 1 |-> IF n = 0 THEN zero ELSE step(g[n - 1], n)]
      BY <3>2
    <3> HIDE DEF g
    <3> QED
      BY <3>3
  <2>3. N \in P
    BY <1>2, <2>1, <2>2, NatSetInduction
  <2> QED
    BY <2>3 DEF N
<1> HIDE DEF run
<1>5. GoodBut(zero, bs, cs \cup {c}) /\ Shed(W, zero, c) /\ Out(zero.cl[c].pats, x, 0)
  BY GoodMore, ShedRefl DEF zero, Out
<1>6. GoodBut(run[N], bs, cs \cup {c}) /\ Shed(W, run[N], c) /\ Out(run[N].cl[c].pats, x, N)
  <2> HIDE DEF N, zero, step
  <2> DEFINE P == {n \in Nat : n <= N => GoodBut(run[n], bs, cs \cup {c}) /\ Shed(W, run[n], c) /\ Out(run[n].cl[c].pats, x, n)}
  <2>1. 0 \in P
    <3>1. run[0] = zero
      BY <1>2, <1>4
    <3> QED
      BY <3>1, <1>5
  <2>2. ASSUME NEW n \in Nat, n \in P PROVE n + 1 \in P
    <3> SUFFICES ASSUME n + 1 <= N PROVE GoodBut(run[n + 1], bs, cs \cup {c}) /\ Shed(W, run[n + 1], c) /\ Out(run[n + 1].cl[c].pats, x, n + 1)
      OBVIOUS
    <3>1. n \in 0..N - 1 /\ n <= N /\ (n + 1) - 1 = n
      BY <1>2
    <3>2. run[n + 1] = step(run[n], n + 1)
      BY <1>2, <1>4
    <3>3. GoodBut(run[n], bs, cs \cup {c}) /\ Shed(W, run[n], c) /\ Out(run[n].cl[c].pats, x, n)
      BY <2>2, <3>1
    <3> HIDE DEF P
    <3>4. GoodBut(step(run[n], n + 1), bs, cs \cup {c}) /\ Shed(W, step(run[n], n + 1), c) /\ Out(step(run[n], n + 1).cl[c].pats, x, n + 1)
      BY <1>3, <3>1, <3>3
    <3> QED
      BY <3>2, <3>4
  <2>3. N \in P
    BY <1>2, <2>1, <2>2, NatSetInduction
  <2> QED
    BY <1>2, <2>3
<1> QED
  BY <1>1, <1>6

LEMMA LeaveChannelsGood ==
  ASSUME NEW W, NEW bs, NEW cs, GoodBut(W, bs, cs), NEW c \in Clients, W.cl[c].alive, NEW X, NEW x \in Seq(X)
  PROVE  GoodBut(UnsubscribeChannels(W, c, x, TRUE), bs, cs) /\ Calm(W, UnsubscribeChannels(W, c, x, TRUE))
<1> DEFINE N == Len(x)
           zero == W
           step(A, n) == pubsubUnsubscribeChannel(A, c, x[n], TRUE)
           run[n \in 0..Len(x)] == IF n = 0 THEN zero ELSE step(run[n - 1], n)
<1>1. UnsubscribeChannels(W, c, x, TRUE) = run[N]
  BY DEF UnsubscribeChannels
<1>2. N \in Nat
  OBVIOUS
<1>3. ASSUME NEW A, NEW n \in 1..N, GoodBut(A, bs, cs) /\ Calm(W, A)
      PROVE  GoodBut(step(A, n), bs, cs) /\ Calm(W, step(A, n))
  <2> DEFINE B == step(A, n)
  <2>1. A.cl[c].alive
    BY <1>3, CalmAlive
  <2>2. GoodBut(B, bs, cs) /\ Calm(A, B)
    BY <1>3, <2>1, LeaveChannelGood
  <2> HIDE DEF B
  <2> QED
    BY <1>3, <2>2, CalmTrans DEF B
<1> HIDE DEF step, zero
<1>4. run = [n \in 0..N |-> IF n = 0 THEN zero ELSE step(run[n - 1], n)]
  <2> HIDE DEF N, zero, step
  <2> DEFINE P == {m \in Nat : \E f : f = [n \in 0..m |-> IF n = 0 THEN zero ELSE step(f[n - 1], n)]}
  <2>1. 0 \in P
    <3> DEFINE f == [n \in 0..0 |-> zero]
    <3>1. f = [n \in 0..0 |-> IF n = 0 THEN zero ELSE step(f[n - 1], n)]
      OBVIOUS
    <3> HIDE DEF f
    <3> QED
      BY <3>1
  <2>2. ASSUME NEW m \in Nat, m \in P PROVE m + 1 \in P
    <3>1. PICK f : f = [n \in 0..m |-> IF n = 0 THEN zero ELSE step(f[n - 1], n)]
      BY <2>2
    <3> DEFINE g == [n \in 0..m + 1 |-> IF n = m + 1 THEN step(f[m], n) ELSE f[n]]
    <3>2. \A n \in 0..m + 1 : g[n] = IF n = 0 THEN zero ELSE step(g[n - 1], n)
      <4> SUFFICES ASSUME NEW n \in 0..m + 1 PROVE g[n] = IF n = 0 THEN zero ELSE step(g[n - 1], n)
        OBVIOUS
      <4>1. CASE n = m + 1
        BY <4>1
      <4>2. CASE n # m + 1
        BY <3>1, <4>2
      <4> QED
        BY <4>1, <4>2
    <3>3. g = [n \in 0..m + 1 |-> IF n = 0 THEN zero ELSE step(g[n - 1], n)]
      BY <3>2
    <3> HIDE DEF g
    <3> QED
      BY <3>3
  <2>3. N \in P
    BY <1>2, <2>1, <2>2, NatSetInduction
  <2> QED
    BY <2>3 DEF N
<1> HIDE DEF run
<1>5. GoodBut(zero, bs, cs) /\ Calm(W, zero)
  BY CalmRefl DEF zero
<1>6. GoodBut(run[N], bs, cs) /\ Calm(W, run[N])
  <2> HIDE DEF N, zero, step
  <2> DEFINE P == {n \in Nat : n <= N => GoodBut(run[n], bs, cs) /\ Calm(W, run[n])}
  <2>1. 0 \in P
    <3>1. run[0] = zero
      BY <1>2, <1>4
    <3> QED
      BY <3>1, <1>5
  <2>2. ASSUME NEW n \in Nat, n \in P PROVE n + 1 \in P
    <3> SUFFICES ASSUME n + 1 <= N PROVE GoodBut(run[n + 1], bs, cs) /\ Calm(W, run[n + 1])
      OBVIOUS
    <3>1. n + 1 \in 1..N /\ n <= N /\ (n + 1) - 1 = n
      BY <1>2
    <3>2. run[n + 1] = step(run[n], n + 1)
      BY <1>2, <1>4
    <3>3. GoodBut(run[n], bs, cs) /\ Calm(W, run[n])
      BY <2>2, <3>1
    <3> HIDE DEF P
    <3>4. GoodBut(step(run[n], n + 1), bs, cs) /\ Calm(W, step(run[n], n + 1))
      BY <1>3, <3>1, <3>3
    <3> QED
      BY <3>2, <3>4
  <2>3. N \in P
    BY <1>2, <2>1, <2>2, NatSetInduction
  <2> QED
    BY <1>2, <2>3
<1> QED
  BY <1>1, <1>6

LEMMA LeavePatternsGood ==
  ASSUME NEW W, NEW bs, NEW cs, GoodBut(W, bs, cs), NEW c \in Clients, W.cl[c].alive, NEW X, NEW x \in Seq(X)
  PROVE  GoodBut(UnsubscribePatterns(W, c, x, TRUE), bs, cs) /\ Calm(W, UnsubscribePatterns(W, c, x, TRUE))
<1> DEFINE N == Len(x)
           zero == W
           step(A, n) == pubsubUnsubscribePattern(A, c, x[n], TRUE)
           run[n \in 0..Len(x)] == IF n = 0 THEN zero ELSE step(run[n - 1], n)
<1>1. UnsubscribePatterns(W, c, x, TRUE) = run[N]
  BY DEF UnsubscribePatterns
<1>2. N \in Nat
  OBVIOUS
<1>3. ASSUME NEW A, NEW n \in 1..N, GoodBut(A, bs, cs) /\ Calm(W, A)
      PROVE  GoodBut(step(A, n), bs, cs) /\ Calm(W, step(A, n))
  <2> DEFINE B == step(A, n)
  <2>1. A.cl[c].alive
    BY <1>3, CalmAlive
  <2>2. GoodBut(B, bs, cs) /\ Calm(A, B)
    BY <1>3, <2>1, LeavePatternGood
  <2> HIDE DEF B
  <2> QED
    BY <1>3, <2>2, CalmTrans DEF B
<1> HIDE DEF step, zero
<1>4. run = [n \in 0..N |-> IF n = 0 THEN zero ELSE step(run[n - 1], n)]
  <2> HIDE DEF N, zero, step
  <2> DEFINE P == {m \in Nat : \E f : f = [n \in 0..m |-> IF n = 0 THEN zero ELSE step(f[n - 1], n)]}
  <2>1. 0 \in P
    <3> DEFINE f == [n \in 0..0 |-> zero]
    <3>1. f = [n \in 0..0 |-> IF n = 0 THEN zero ELSE step(f[n - 1], n)]
      OBVIOUS
    <3> HIDE DEF f
    <3> QED
      BY <3>1
  <2>2. ASSUME NEW m \in Nat, m \in P PROVE m + 1 \in P
    <3>1. PICK f : f = [n \in 0..m |-> IF n = 0 THEN zero ELSE step(f[n - 1], n)]
      BY <2>2
    <3> DEFINE g == [n \in 0..m + 1 |-> IF n = m + 1 THEN step(f[m], n) ELSE f[n]]
    <3>2. \A n \in 0..m + 1 : g[n] = IF n = 0 THEN zero ELSE step(g[n - 1], n)
      <4> SUFFICES ASSUME NEW n \in 0..m + 1 PROVE g[n] = IF n = 0 THEN zero ELSE step(g[n - 1], n)
        OBVIOUS
      <4>1. CASE n = m + 1
        BY <4>1
      <4>2. CASE n # m + 1
        BY <3>1, <4>2
      <4> QED
        BY <4>1, <4>2
    <3>3. g = [n \in 0..m + 1 |-> IF n = 0 THEN zero ELSE step(g[n - 1], n)]
      BY <3>2
    <3> HIDE DEF g
    <3> QED
      BY <3>3
  <2>3. N \in P
    BY <1>2, <2>1, <2>2, NatSetInduction
  <2> QED
    BY <2>3 DEF N
<1> HIDE DEF run
<1>5. GoodBut(zero, bs, cs) /\ Calm(W, zero)
  BY CalmRefl DEF zero
<1>6. GoodBut(run[N], bs, cs) /\ Calm(W, run[N])
  <2> HIDE DEF N, zero, step
  <2> DEFINE P == {n \in Nat : n <= N => GoodBut(run[n], bs, cs) /\ Calm(W, run[n])}
  <2>1. 0 \in P
    <3>1. run[0] = zero
      BY <1>2, <1>4
    <3> QED
      BY <3>1, <1>5
  <2>2. ASSUME NEW n \in Nat, n \in P PROVE n + 1 \in P
    <3> SUFFICES ASSUME n + 1 <= N PROVE GoodBut(run[n + 1], bs, cs) /\ Calm(W, run[n + 1])
      OBVIOUS
    <3>1. n + 1 \in 1..N /\ n <= N /\ (n + 1) - 1 = n
      BY <1>2
    <3>2. run[n + 1] = step(run[n], n + 1)
      BY <1>2, <1>4
    <3>3. GoodBut(run[n], bs, cs) /\ Calm(W, run[n])
      BY <2>2, <3>1
    <3> HIDE DEF P
    <3>4. GoodBut(step(run[n], n + 1), bs, cs) /\ Calm(W, step(run[n], n + 1))
      BY <1>3, <3>1, <3>3
    <3> QED
      BY <3>2, <3>4
  <2>3. N \in P
    BY <1>2, <2>1, <2>2, NatSetInduction
  <2> QED
    BY <1>2, <2>3
<1> QED
  BY <1>1, <1>6

LEMMA LeaveAllChannelsShed ==
  ASSUME NEW W, NEW bs, NEW cs, GoodBut(W, bs, cs), NEW c \in Clients, W.cl[c].alive
  PROVE  LET V == pubsubUnsubscribeAllChannels(W, c, FALSE) IN
         GoodBut(V, bs, cs \cup {c}) /\ Shed(W, V, c) /\ V.cl[c].subs = {}
<1> DEFINE X == W.cl[c].subs
           x == SetToSeq(X)
           V == pubsubUnsubscribeAllChannels(W, c, FALSE)
<1>1. IsFiniteSet(X)
  BY GoodParts DEF ClientOk
<1>2. x \in Seq(X) /\ \A e \in X : \E n \in 1..Len(x) : x[n] = e
  BY <1>1, ListOfSet
<1>3. CASE X = {}
  <2>1. V = W
    BY <1>3 DEF pubsubUnsubscribeAllChannels
  <2> QED
    BY <1>3, <2>1, ShedRefl, GoodMore
<1>4. CASE X # {}
  <2>1. V = UnsubscribeChannels(W, c, x, FALSE)
    BY <1>4 DEF pubsubUnsubscribeAllChannels
  <2> HIDE DEF V, x
  <2>2. GoodBut(V, bs, cs \cup {c}) /\ Shed(W, V, c) /\ Out(V.cl[c].subs, x, Len(x))
    BY <1>2, <2>1, LeaveChannelsShed
  <2>3. V.cl[c].subs = {}
    BY <1>2, <2>2 DEF Shed, Out
  <2> QED
    BY <2>2, <2>3 DEF V
<1> QED
  BY <1>3, <1>4

LEMMA LeaveAllChannelsGood ==
  ASSUME NEW W, NEW bs, NEW cs, GoodBut(W, bs, cs), NEW c \in Clients, W.cl[c].alive
  PROVE  GoodBut(pubsubUnsubscribeAllChannels(W, c, TRUE), bs, cs) /\ Calm(W, pubsubUnsubscribeAllChannels(W, c, TRUE))
<1> DEFINE X == W.cl[c].subs
           x == SetToSeq(X)
           V == pubsubUnsubscribeAllChannels(W, c, TRUE)
<1>1. IsFiniteSet(X)
  BY GoodParts DEF ClientOk
<1>2. x \in Seq(X)
  BY <1>1, ListOfSet
<1>3. CASE X = {}
  <2>1. V = addReply(W, c)
    BY <1>3 DEF pubsubUnsubscribeAllChannels
  <2>2. GoodBut(W, bs, cs \cup {c})
    BY GoodMore
  <2> QED
    BY <2>1, <2>2, AddReplyMore
<1>4. CASE X # {}
  <2>1. V = UnsubscribeChannels(W, c, x, TRUE)
    BY <1>4 DEF pubsubUnsubscribeAllChannels
  <2> HIDE DEF V, x
  <2>2. GoodBut(V, bs, cs) /\ Calm(W, V)
    BY <1>2, <2>1, LeaveChannelsGood
  <2> QED
    BY <2>2 DEF V
<1> QED
  BY <1>3, <1>4

LEMMA LeaveAllPatternsShed ==
  ASSUME NEW W, NEW bs, NEW cs, GoodBut(W, bs, cs), NEW c \in Clients, W.cl[c].alive
  PROVE  LET V == pubsubUnsubscribeAllPatterns(W, c, FALSE) IN
         GoodBut(V, bs, cs \cup {c}) /\ Shed(W, V, c) /\ V.cl[c].pats = {}
<1> DEFINE X == W.cl[c].pats
           x == SetToSeq(X)
           V == pubsubUnsubscribeAllPatterns(W, c, FALSE)
<1>1. IsFiniteSet(X)
  BY GoodParts DEF ClientOk
<1>2. x \in Seq(X) /\ \A e \in X : \E n \in 1..Len(x) : x[n] = e
  BY <1>1, ListOfSet
<1>3. CASE X = {}
  <2>1. V = W
    BY <1>3 DEF pubsubUnsubscribeAllPatterns
  <2> QED
    BY <1>3, <2>1, ShedRefl, GoodMore
<1>4. CASE X # {}
  <2>1. V = UnsubscribePatterns(W, c, x, FALSE)
    BY <1>4 DEF pubsubUnsubscribeAllPatterns
  <2> HIDE DEF V, x
  <2>2. GoodBut(V, bs, cs \cup {c}) /\ Shed(W, V, c) /\ Out(V.cl[c].pats, x, Len(x))
    BY <1>2, <2>1, LeavePatternsShed
  <2>3. V.cl[c].pats = {}
    BY <1>2, <2>2 DEF Shed, Out
  <2> QED
    BY <2>2, <2>3 DEF V
<1> QED
  BY <1>3, <1>4

LEMMA LeaveAllPatternsGood ==
  ASSUME NEW W, NEW bs, NEW cs, GoodBut(W, bs, cs), NEW c \in Clients, W.cl[c].alive
  PROVE  GoodBut(pubsubUnsubscribeAllPatterns(W, c, TRUE), bs, cs) /\ Calm(W, pubsubUnsubscribeAllPatterns(W, c, TRUE))
<1> DEFINE X == W.cl[c].pats
           x == SetToSeq(X)
           V == pubsubUnsubscribeAllPatterns(W, c, TRUE)
<1>1. IsFiniteSet(X)
  BY GoodParts DEF ClientOk
<1>2. x \in Seq(X)
  BY <1>1, ListOfSet
<1>3. CASE X = {}
  <2>1. V = addReply(W, c)
    BY <1>3 DEF pubsubUnsubscribeAllPatterns
  <2>2. GoodBut(W, bs, cs \cup {c})
    BY GoodMore
  <2> QED
    BY <2>1, <2>2, AddReplyMore
<1>4. CASE X # {}
  <2>1. V = UnsubscribePatterns(W, c, x, TRUE)
    BY <1>4 DEF pubsubUnsubscribeAllPatterns
  <2> HIDE DEF V, x
  <2>2. GoodBut(V, bs, cs) /\ Calm(W, V)
    BY <1>2, <2>1, LeavePatternsGood
  <2> QED
    BY <2>2 DEF V
<1> QED
  BY <1>3, <1>4

LEMMA JoinChannelGood ==
  ASSUME NEW W, NEW bs, NEW cs, GoodBut(W, bs, cs), NEW c \in Clients, W.cl[c].alive, NEW x
  PROVE  GoodBut(pubsubSubscribeChannel(W, c, x), bs, cs) /\ Calm(W, pubsubSubscribeChannel(W, c, x))
<1> DEFINE J == [W EXCEPT !.cl[c].subs = @ \cup {x}, !.channels = Join(@, {x}, c)]
           U == IF x \in W.cl[c].subs THEN W ELSE J
<1>1. pubsubSubscribeChannel(W, c, x) = addReply(U, c)
  BY DEF pubsubSubscribeChannel
<1>2. GoodBut(U, bs, cs \cup {c}) /\ Calm(W, U)
  <2>1. CASE x \in W.cl[c].subs
    BY <2>1, GoodMore, CalmRefl
  <2>2. CASE x \notin W.cl[c].subs
    <3>1. GoodBut(J, bs, cs \cup {c}) /\ Calm(W, J)
      BY <2>2, SubscribedGood
    <3> HIDE DEF J
    <3> QED
      BY <2>2, <3>1
  <2> QED
    BY <2>1, <2>2
<1> HIDE DEF U
<1>3. U.cl[c].alive
  BY <1>2, CalmAlive
<1>4. GoodBut(addReply(U, c), bs, cs) /\ Calm(U, addReply(U, c))
  BY <1>2, <1>3, AddReplyMore
<1> QED
  BY <1>1, <1>2, <1>4, CalmTrans

LEMMA JoinPatternGood ==
  ASSUME NEW W, NEW bs, NEW cs, GoodBut(W, bs, cs), NEW c \in Clients, W.cl[c].alive, NEW x \in DOMAIN Matches
  PROVE  GoodBut(pubsubSubscribePattern(W, c, x), bs, cs) /\ Calm(W, pubsubSubscribePattern(W, c, x))
<1> DEFINE J == [W EXCEPT !.cl[c].pats = @ \cup {x}, !.patterns = Append(@, <<c, x>>)]
           U == IF x \in W.cl[c].pats THEN W ELSE J
<1>1. pubsubSubscribePattern(W, c, x) = addReply(U, c)
  BY DEF pubsubSubscribePattern
<1>2. GoodBut(U, bs, cs \cup {c}) /\ Calm(W, U)
  <2>1. CASE x \in W.cl[c].pats
    BY <2>1, GoodMore, CalmRefl
  <2>2. CASE x \notin W.cl[c].pats
    <3>1. GoodBut(J, bs, cs \cup {c}) /\ Calm(W, J)
      BY <2>2, PSubscribedGood
    <3> HIDE DEF J
    <3> QED
      BY <2>2, <3>1
  <2> QED
    BY <2>1, <2>2
<1> HIDE DEF U
<1>3. U.cl[c].alive
  BY <1>2, CalmAlive
<1>4. GoodBut(addReply(U, c), bs, cs) /\ Calm(U, addReply(U, c))
  BY <1>2, <1>3, AddReplyMore
<1> QED
  BY <1>1, <1>2, <1>4, CalmTrans

LEMMA SubscribeGood ==
  ASSUME NEW W, NEW bs, NEW cs, GoodBut(W, bs, cs), NEW c \in Clients, W.cl[c].alive, NEW X, NEW x \in Seq(X)
  PROVE  GoodBut(subscribeCommand(W, c, x), bs, cs) /\ Calm(W, subscribeCommand(W, c, x))
<1> DEFINE N == Len(x)
           zero == W
           step(A, n) == pubsubSubscribeChannel(A, c, x[n])
           run[n \in 0..Len(x)] == IF n = 0 THEN zero ELSE step(run[n - 1], n)
<1>1. subscribeCommand(W, c, x) = run[N]
  BY DEF subscribeCommand
<1>2. N \in Nat
  OBVIOUS
<1>3. ASSUME NEW A, NEW n \in 1..N, GoodBut(A, bs, cs) /\ Calm(W, A)
      PROVE  GoodBut(step(A, n), bs, cs) /\ Calm(W, step(A, n))
  <2> DEFINE B == step(A, n)
  <2>1. A.cl[c].alive
    BY <1>3, CalmAlive
  <2>2. GoodBut(B, bs, cs) /\ Calm(A, B)
    BY <1>3, <2>1, JoinChannelGood
  <2> HIDE DEF B
  <2> QED
    BY <1>3, <2>2, CalmTrans DEF B
<1> HIDE DEF step, zero
<1>4. run = [n \in 0..N |-> IF n = 0 THEN zero ELSE step(run[n - 1], n)]
  <2> HIDE DEF N, zero, step
  <2> DEFINE P == {m \in Nat : \E f : f = [n \in 0..m |-> IF n = 0 THEN zero ELSE step(f[n - 1], n)]}
  <2>1. 0 \in P
    <3> DEFINE f == [n \in 0..0 |-> zero]
    <3>1. f = [n \in 0..0 |-> IF n = 0 THEN zero ELSE step(f[n - 1], n)]
      OBVIOUS
    <3> HIDE DEF f
    <3> QED
      BY <3>1
  <2>2. ASSUME NEW m \in Nat, m \in P PROVE m + 1 \in P
    <3>1. PICK f : f = [n \in 0..m |-> IF n = 0 THEN zero ELSE step(f[n - 1], n)]
      BY <2>2
    <3> DEFINE g == [n \in 0..m + 1 |-> IF n = m + 1 THEN step(f[m], n) ELSE f[n]]
    <3>2. \A n \in 0..m + 1 : g[n] = IF n = 0 THEN zero ELSE step(g[n - 1], n)
      <4> SUFFICES ASSUME NEW n \in 0..m + 1 PROVE g[n] = IF n = 0 THEN zero ELSE step(g[n - 1], n)
        OBVIOUS
      <4>1. CASE n = m + 1
        BY <4>1
      <4>2. CASE n # m + 1
        BY <3>1, <4>2
      <4> QED
        BY <4>1, <4>2
    <3>3. g = [n \in 0..m + 1 |-> IF n = 0 THEN zero ELSE step(g[n - 1], n)]
      BY <3>2
    <3> HIDE DEF g
    <3> QED
      BY <3>3
  <2>3. N \in P
    BY <1>2, <2>1, <2>2, NatSetInduction
  <2> QED
    BY <2>3 DEF N
<1> HIDE DEF run
<1>5. GoodBut(zero, bs, cs) /\ Calm(W, zero)
  BY CalmRefl DEF zero
<1>6. GoodBut(run[N], bs, cs) /\ Calm(W, run[N])
  <2> HIDE DEF N, zero, step
  <2> DEFINE P == {n \in Nat : n <= N => GoodBut(run[n], bs, cs) /\ Calm(W, run[n])}
  <2>1. 0 \in P
    <3>1. run[0] = zero
      BY <1>2, <1>4
    <3> QED
      BY <3>1, <1>5
  <2>2. ASSUME NEW n \in Nat, n \in P PROVE n + 1 \in P
    <3> SUFFICES ASSUME n + 1 <= N PROVE GoodBut(run[n + 1], bs, cs) /\ Calm(W, run[n + 1])
      OBVIOUS
    <3>1. n + 1 \in 1..N /\ n <= N /\ (n + 1) - 1 = n
      BY <1>2
    <3>2. run[n + 1] = step(run[n], n + 1)
      BY <1>2, <1>4
    <3>3. GoodBut(run[n], bs, cs) /\ Calm(W, run[n])
      BY <2>2, <3>1
    <3> HIDE DEF P
    <3>4. GoodBut(step(run[n], n + 1), bs, cs) /\ Calm(W, step(run[n], n + 1))
      BY <1>3, <3>1, <3>3
    <3> QED
      BY <3>2, <3>4
  <2>3. N \in P
    BY <1>2, <2>1, <2>2, NatSetInduction
  <2> QED
    BY <1>2, <2>3
<1> QED
  BY <1>1, <1>6

LEMMA PSubscribeGood ==
  ASSUME NEW W, NEW bs, NEW cs, GoodBut(W, bs, cs), NEW c \in Clients, W.cl[c].alive, NEW x \in Seq(DOMAIN Matches)
  PROVE  GoodBut(psubscribeCommand(W, c, x), bs, cs) /\ Calm(W, psubscribeCommand(W, c, x))
<1> DEFINE N == Len(x)
           zero == W
           step(A, n) == pubsubSubscribePattern(A, c, x[n])
           run[n \in 0..Len(x)] == IF n = 0 THEN zero ELSE step(run[n - 1], n)
<1>1. psubscribeCommand(W, c, x) = run[N]
  BY DEF psubscribeCommand
<1>2. N \in Nat
  OBVIOUS
<1>3. ASSUME NEW A, NEW n \in 1..N, GoodBut(A, bs, cs) /\ Calm(W, A)
      PROVE  GoodBut(step(A, n), bs, cs) /\ Calm(W, step(A, n))
  <2> DEFINE B == step(A, n)
  <2>1. A.cl[c].alive
    BY <1>3, CalmAlive
  <2>3. x[n] \in DOMAIN Matches
    OBVIOUS
  <2>2. GoodBut(B, bs, cs) /\ Calm(A, B)
    BY <1>3, <2>1, <2>3, JoinPatternGood
  <2> HIDE DEF B
  <2> QED
    BY <1>3, <2>2, CalmTrans DEF B
<1> HIDE DEF step, zero
<1>4. run = [n \in 0..N |-> IF n = 0 THEN zero ELSE step(run[n - 1], n)]
  <2> HIDE DEF N, zero, step
  <2> DEFINE P == {m \in Nat : \E f : f = [n \in 0..m |-> IF n = 0 THEN zero ELSE step(f[n - 1], n)]}
  <2>1. 0 \in P
    <3> DEFINE f == [n \in 0..0 |-> zero]
    <3>1. f = [n \in 0..0 |-> IF n = 0 THEN zero ELSE step(f[n - 1], n)]
      OBVIOUS
    <3> HIDE DEF f
    <3> QED
      BY <3>1
  <2>2. ASSUME NEW m \in Nat, m \in P PROVE m + 1 \in P
    <3>1. PICK f : f = [n \in 0..m |-> IF n = 0 THEN zero ELSE step(f[n - 1], n)]
      BY <2>2
    <3> DEFINE g == [n \in 0..m + 1 |-> IF n = m + 1 THEN step(f[m], n) ELSE f[n]]
    <3>2. \A n \in 0..m + 1 : g[n] = IF n = 0 THEN zero ELSE step(g[n - 1], n)
      <4> SUFFICES ASSUME NEW n \in 0..m + 1 PROVE g[n] = IF n = 0 THEN zero ELSE step(g[n - 1], n)
        OBVIOUS
      <4>1. CASE n = m + 1
        BY <4>1
      <4>2. CASE n # m + 1
        BY <3>1, <4>2
      <4> QED
        BY <4>1, <4>2
    <3>3. g = [n \in 0..m + 1 |-> IF n = 0 THEN zero ELSE step(g[n - 1], n)]
      BY <3>2
    <3> HIDE DEF g
    <3> QED
      BY <3>3
  <2>3. N \in P
    BY <1>2, <2>1, <2>2, NatSetInduction
  <2> QED
    BY <2>3 DEF N
<1> HIDE DEF run
<1>5. GoodBut(zero, bs, cs) /\ Calm(W, zero)
  BY CalmRefl DEF zero
<1>6. GoodBut(run[N], bs, cs) /\ Calm(W, run[N])
  <2> HIDE DEF N, zero, step
  <2> DEFINE P == {n \in Nat : n <= N => GoodBut(run[n], bs, cs) /\ Calm(W, run[n])}
  <2>1. 0 \in P
    <3>1. run[0] = zero
      BY <1>2, <1>4
    <3> QED
      BY <3>1, <1>5
  <2>2. ASSUME NEW n \in Nat, n \in P PROVE n + 1 \in P
    <3> SUFFICES ASSUME n + 1 <= N PROVE GoodBut(run[n + 1], bs, cs) /\ Calm(W, run[n + 1])
      OBVIOUS
    <3>1. n + 1 \in 1..N /\ n <= N /\ (n + 1) - 1 = n
      BY <1>2
    <3>2. run[n + 1] = step(run[n], n + 1)
      BY <1>2, <1>4
    <3>3. GoodBut(run[n], bs, cs) /\ Calm(W, run[n])
      BY <2>2, <3>1
    <3> HIDE DEF P
    <3>4. GoodBut(step(run[n], n + 1), bs, cs) /\ Calm(W, step(run[n], n + 1))
      BY <1>3, <3>1, <3>3
    <3> QED
      BY <3>2, <3>4
  <2>3. N \in P
    BY <1>2, <2>1, <2>2, NatSetInduction
  <2> QED
    BY <1>2, <2>3
<1> QED
  BY <1>1, <1>6

LEMMA UnsubscribeGood ==
  ASSUME NEW W, NEW bs, NEW cs, GoodBut(W, bs, cs), NEW c \in Clients, W.cl[c].alive, NEW X, NEW x \in Seq(X)
  PROVE  /\ GoodBut(unsubscribeCommand(W, c, x), bs, cs) /\ Calm(W, unsubscribeCommand(W, c, x))
         /\ GoodBut(punsubscribeCommand(W, c, x), bs, cs) /\ Calm(W, punsubscribeCommand(W, c, x))
<1>1. CASE x = Empty
  BY <1>1, LeaveAllChannelsGood, LeaveAllPatternsGood DEF unsubscribeCommand, punsubscribeCommand
<1>2. CASE x # Empty
  BY <1>2, LeaveChannelsGood, LeavePatternsGood DEF unsubscribeCommand, punsubscribeCommand
<1> QED
  BY <1>1, <1>2

LEMMA AddReplyKeeps ==
  ASSUME NEW W, NEW ks, NEW cs, GoodBut(W, ks, cs), NEW c \in Clients, W.cl[c].alive
  PROVE  GoodBut(addReply(W, c), ks, cs) /\ Replied(W, addReply(W, c)) /\ Calm(W, addReply(W, c))
<1>1. GoodBut(addReply(W, c), ks, cs \ {c}) /\ Replied(W, addReply(W, c))
  BY AddReplyGood
<1> QED
  BY <1>1, GoodMore, RepliedCalm

\* Whoever is in a table is there.
LEMMA NobodyIs ==
  ASSUME NEW W, NEW bs, NEW cs, GoodBut(W, bs, cs), NEW c \in Clients, ~W.cl[c].alive
  PROVE  LET me == W.cl[c] IN
         me.subs = {} /\ me.pats = {} /\ me.keys = {} /\ me.watched = {} /\ me.flags = {} /\ me.querybuf = Empty
<1>1. W.cl[c] = NoClient
  BY GoodParts DEF ClientOk
<1> QED
  BY <1>1 DEF NoClient, NewClient

LEMMA PublishGood ==
  ASSUME NEW W, NEW bs, NEW cs, GoodBut(W, bs, cs), NEW ch
  PROVE  GoodBut(pubsubPublishMessage(W, ch), bs, cs) /\ Replied(W, pubsubPublishMessage(W, ch))
<1> DEFINE direct == IF ch \in DOMAIN W.channels THEN W.channels[ch] ELSE Empty
           Match(A, s) == IF ch \in Matches[s[2]] THEN addReply(A, s[1]) ELSE A
           D == Len(direct)
           N == Len(W.patterns)
           tell(A, n) == addReply(A, direct[n])
           first == W
           told[n \in 0..Len(direct)] == IF n = 0 THEN first ELSE tell(told[n - 1], n)
           zero == told[Len(direct)]
           step(A, n) == Match(A, W.patterns[n])
           run[n \in 0..Len(W.patterns)] == IF n = 0 THEN zero ELSE step(run[n - 1], n)
<1>1. pubsubPublishMessage(W, ch) = run[N]
  BY DEF pubsubPublishMessage
<1>2. Tables(W)
  BY GoodParts
<1>3. direct \in Seq(Clients) /\ \A n \in 1..D : direct[n] \in Clients /\ W.cl[direct[n]].alive
  <2>1. CASE ch \in DOMAIN W.channels
    <3>1. direct = W.channels[ch]
      BY <2>1
    <3> HIDE DEF direct
    <3>2. direct \in Seq(Clients)
      BY <1>2, <2>1, <3>1 DEF Tables, IndexOk
    <3>3. ASSUME NEW n \in 1..D PROVE direct[n] \in Clients /\ W.cl[direct[n]].alive
      <4>1. direct[n] \in Clients /\ Contains(direct, direct[n])
        BY <3>2 DEF Contains
      <4>2. ch \in SubsOf(W)[direct[n]]
        BY <1>2, <2>1, <3>1, <4>1 DEF Tables, IndexOk
      <4> QED
        BY <4>1, <4>2, NobodyIs DEF SubsOf
    <3> QED
      BY <3>2, <3>3
  <2>2. CASE ch \notin DOMAIN W.channels
    BY <2>2, EmptyIs
  <2> QED
    BY <2>1, <2>2
<1>4. /\ N \in Nat /\ D \in Nat
      /\ \A n \in 1..N : W.patterns[n][1] \in Clients /\ W.cl[W.patterns[n][1]].alive
  <2> DEFINE ps == W.patterns
  <2>1. ps \in Seq(Clients \X DOMAIN Matches)
    BY <1>2 DEF Tables
  <2>2. ASSUME NEW n \in 1..N PROVE ps[n][1] \in Clients /\ W.cl[ps[n][1]].alive
    <3>1. ps[n] \in Clients \X DOMAIN Matches
      BY <2>1
    <3>2. ps[n] = <<ps[n][1], ps[n][2]>> /\ ps[n][1] \in Clients /\ ps[n][2] \in DOMAIN Matches
      BY <3>1
    <3>3. Contains(ps, ps[n])
      BY <2>1 DEF Contains
    <3>4. ps[n][2] \in W.cl[ps[n][1]].pats
      BY <1>2, <3>2, <3>3 DEF Tables
    <3> QED
      BY <3>2, <3>4, NobodyIs
  <2> QED
    BY <1>3, <2>1, <2>2
<1>5. ASSUME NEW A, GoodBut(A, bs, cs) /\ Replied(W, A), NEW d \in Clients, W.cl[d].alive
      PROVE  GoodBut(addReply(A, d), bs, cs) /\ Replied(W, addReply(A, d))
  <2>1. A.cl[d].alive
    BY <1>5, RepliedCalm, CalmAlive
  <2> QED
    BY <1>5, <2>1, AddReplyKeeps, RepliedTrans
<1>6. ASSUME NEW A, NEW n \in 1..D, GoodBut(A, bs, cs) /\ Replied(W, A)
      PROVE  GoodBut(tell(A, n), bs, cs) /\ Replied(W, tell(A, n))
  BY <1>3, <1>5, <1>6
<1>7. ASSUME NEW A, NEW n \in 1..N, GoodBut(A, bs, cs) /\ Replied(W, A)
      PROVE  GoodBut(step(A, n), bs, cs) /\ Replied(W, step(A, n))
  <2>1. CASE ch \in Matches[W.patterns[n][2]]
    BY <1>4, <1>5, <1>7, <2>1
  <2>2. CASE ch \notin Matches[W.patterns[n][2]]
    BY <1>7, <2>2
  <2> QED
    BY <2>1, <2>2
<1>8. N \in Nat
  BY <1>4
<1>9. D \in Nat
  BY <1>4
<1> HIDE DEF step, zero, tell, first
<1>10. told = [n \in 0..D |-> IF n = 0 THEN first ELSE tell(told[n - 1], n)]
  <2> HIDE DEF D, first, tell
  <2> DEFINE P == {m \in Nat : \E f : f = [n \in 0..m |-> IF n = 0 THEN first ELSE tell(f[n - 1], n)]}
  <2>1. 0 \in P
    <3> DEFINE f == [n \in 0..0 |-> first]
    <3>1. f = [n \in 0..0 |-> IF n = 0 THEN first ELSE tell(f[n - 1], n)]
      OBVIOUS
    <3> HIDE DEF f
    <3> QED
      BY <3>1
  <2>2. ASSUME NEW m \in Nat, m \in P PROVE m + 1 \in P
    <3>1. PICK f : f = [n \in 0..m |-> IF n = 0 THEN first ELSE tell(f[n - 1], n)]
      BY <2>2
    <3> DEFINE g == [n \in 0..m + 1 |-> IF n = m + 1 THEN tell(f[m], n) ELSE f[n]]
    <3>2. \A n \in 0..m + 1 : g[n] = IF n = 0 THEN first ELSE tell(g[n - 1], n)
      <4> SUFFICES ASSUME NEW n \in 0..m + 1 PROVE g[n] = IF n = 0 THEN first ELSE tell(g[n - 1], n)
        OBVIOUS
      <4>1. CASE n = m + 1
        BY <4>1
      <4>2. CASE n # m + 1
        BY <3>1, <4>2
      <4> QED
        BY <4>1, <4>2
    <3>3. g = [n \in 0..m + 1 |-> IF n = 0 THEN first ELSE tell(g[n - 1], n)]
      BY <3>2
    <3> HIDE DEF g
    <3> QED
      BY <3>3
  <2>3. D \in P
    BY <1>9, <2>1, <2>2, NatSetInduction
  <2> QED
    BY <2>3 DEF D
<1> HIDE DEF told
<1>11. GoodBut(first, bs, cs) /\ Replied(W, first)
  BY RepliedRefl DEF first
<1>12. GoodBut(told[D], bs, cs) /\ Replied(W, told[D])
  <2> HIDE DEF D, first, tell
  <2> DEFINE P == {n \in Nat : n <= D => GoodBut(told[n], bs, cs) /\ Replied(W, told[n])}
  <2>1. 0 \in P
    <3>1. told[0] = first
      BY <1>9, <1>10
    <3> QED
      BY <3>1, <1>11
  <2>2. ASSUME NEW n \in Nat, n \in P PROVE n + 1 \in P
    <3> SUFFICES ASSUME n + 1 <= D PROVE GoodBut(told[n + 1], bs, cs) /\ Replied(W, told[n + 1])
      OBVIOUS
    <3>1. n + 1 \in 1..D /\ n <= D /\ (n + 1) - 1 = n
      BY <1>9
    <3>2. told[n + 1] = tell(told[n], n + 1)
      BY <1>9, <1>10
    <3>3. GoodBut(told[n], bs, cs) /\ Replied(W, told[n])
      BY <2>2, <3>1
    <3> HIDE DEF P
    <3>4. GoodBut(tell(told[n], n + 1), bs, cs) /\ Replied(W, tell(told[n], n + 1))
      BY <1>6, <3>1, <3>3
    <3> QED
      BY <3>2, <3>4
  <2>3. D \in P
    BY <1>9, <2>1, <2>2, NatSetInduction
  <2> QED
    BY <1>9, <2>3
<1>13. run = [n \in 0..N |-> IF n = 0 THEN zero ELSE step(run[n - 1], n)]
  <2> HIDE DEF N, zero, step
  <2> DEFINE P == {m \in Nat : \E f : f = [n \in 0..m |-> IF n = 0 THEN zero ELSE step(f[n - 1], n)]}
  <2>1. 0 \in P
    <3> DEFINE f == [n \in 0..0 |-> zero]
    <3>1. f = [n \in 0..0 |-> IF n = 0 THEN zero ELSE step(f[n - 1], n)]
      OBVIOUS
    <3> HIDE DEF f
    <3> QED
      BY <3>1
  <2>2. ASSUME NEW m \in Nat, m \in P PROVE m + 1 \in P
    <3>1. PICK f : f = [n \in 0..m |-> IF n = 0 THEN zero ELSE step(f[n - 1], n)]
      BY <2>2
    <3> DEFINE g == [n \in 0..m + 1 |-> IF n = m + 1 THEN step(f[m], n) ELSE f[n]]
    <3>2. \A n \in 0..m + 1 : g[n] = IF n = 0 THEN zero ELSE step(g[n - 1], n)
      <4> SUFFICES ASSUME NEW n \in 0..m + 1 PROVE g[n] = IF n = 0 THEN zero ELSE step(g[n - 1], n)
        OBVIOUS
      <4>1. CASE n = m + 1
        BY <4>1
      <4>2. CASE n # m + 1
        BY <3>1, <4>2
      <4> QED
        BY <4>1, <4>2
    <3>3. g = [n \in 0..m + 1 |-> IF n = 0 THEN zero ELSE step(g[n - 1], n)]
      BY <3>2
    <3> HIDE DEF g
    <3> QED
      BY <3>3
  <2>3. N \in P
    BY <1>8, <2>1, <2>2, NatSetInduction
  <2> QED
    BY <2>3 DEF N
<1> HIDE DEF run
<1>14. GoodBut(zero, bs, cs) /\ Replied(W, zero)
  BY <1>12 DEF zero
<1>15. GoodBut(run[N], bs, cs) /\ Replied(W, run[N])
  <2> HIDE DEF N, zero, step
  <2> DEFINE P == {n \in Nat : n <= N => GoodBut(run[n], bs, cs) /\ Replied(W, run[n])}
  <2>1. 0 \in P
    <3>1. run[0] = zero
      BY <1>8, <1>13
    <3> QED
      BY <3>1, <1>14
  <2>2. ASSUME NEW n \in Nat, n \in P PROVE n + 1 \in P
    <3> SUFFICES ASSUME n + 1 <= N PROVE GoodBut(run[n + 1], bs, cs) /\ Replied(W, run[n + 1])
      OBVIOUS
    <3>1. n + 1 \in 1..N /\ n <= N /\ (n + 1) - 1 = n
      BY <1>8
    <3>2. run[n + 1] = step(run[n], n + 1)
      BY <1>8, <1>13
    <3>3. GoodBut(run[n], bs, cs) /\ Replied(W, run[n])
      BY <2>2, <3>1
    <3> HIDE DEF P
    <3>4. GoodBut(step(run[n], n + 1), bs, cs) /\ Replied(W, step(run[n], n + 1))
      BY <1>7, <3>1, <3>3
    <3> QED
      BY <3>2, <3>4
  <2>3. N \in P
    BY <1>8, <2>1, <2>2, NatSetInduction
  <2> QED
    BY <1>8, <2>3
<1> QED
  BY <1>1, <1>15

\* A client with the lists of those who wait.
WithBlocking(W, c, r, index) == [Put(W, c, r) EXCEPT !.blocking_keys = index]
WithUnblocked(W, c, r, index) == [WithBlocking(W, c, r, index) EXCEPT !.unblocked = Append(W.unblocked, c)]

\* The rest of the server stays.
Kept(W, V, c, r) ==
    /\ Shape(V) /\ Only(W, V, c, r)
    /\ V.dict = W.dict /\ V.ready = W.ready /\ V.link = W.link /\ V.counted = W.counted
    /\ V.watched_keys = W.watched_keys /\ V.channels = W.channels /\ V.patterns = W.patterns

LEMMA PutBlocking ==
  ASSUME NEW W, Shape(W), NEW c \in Clients, NEW r, DOMAIN r = Attributes, NEW index
  PROVE  LET V == WithBlocking(W, c, r, index) IN
         Kept(W, V, c, r) /\ V.blocking_keys = index /\ V.unblocked = W.unblocked
<1> DEFINE U == Put(W, c, r)
<1>1. /\ Shape(U) /\ U.cl[c] = r /\ \A d \in Clients : d # c => U.cl[d] = W.cl[d]
      /\ U.dict = W.dict /\ U.blocking_keys = W.blocking_keys /\ U.watched_keys = W.watched_keys
      /\ U.channels = W.channels /\ U.patterns = W.patterns /\ U.ready = W.ready
      /\ U.unblocked = W.unblocked /\ U.toclose = W.toclose /\ U.link = W.link /\ U.counted = W.counted
  BY PutIs
<1> HIDE DEF U
<1> DEFINE V == WithBlocking(W, c, r, index)
<1>2. V = [U EXCEPT !.blocking_keys = index]
  BY DEF U, WithBlocking
<1> HIDE DEF V
<1> QED
  BY <1>1, <1>2 DEF Shape, Fields, Kept, Only, V

LEMMA PutUnblocked ==
  ASSUME NEW W, Shape(W), NEW c \in Clients, NEW r, DOMAIN r = Attributes, NEW index
  PROVE  LET V == WithUnblocked(W, c, r, index) IN
         Kept(W, V, c, r) /\ V.blocking_keys = index /\ V.unblocked = Append(W.unblocked, c)
<1> DEFINE U == WithBlocking(W, c, r, index)
<1>1. Kept(W, U, c, r) /\ U.blocking_keys = index
  BY PutBlocking
<1> HIDE DEF U
<1> DEFINE V == WithUnblocked(W, c, r, index)
<1>2. V = [U EXCEPT !.unblocked = Append(W.unblocked, c)]
  BY DEF U, WithUnblocked
<1> HIDE DEF V
<1> QED
  BY <1>1, <1>2 DEF Shape, Fields, Kept, Only, V

\* A client waits for keys that hold nothing, behind those who wait already.
BlockedBy(W, V, c) ==
    /\ Orderly(W, V) /\ Load(V) = Load(W) + 1 /\ V.counted = W.counted /\ (Closing(W) => Closing(V))
    /\ V.dict = W.dict /\ V.link = W.link /\ V.ready = W.ready
    /\ V.unblocked = W.unblocked
    /\ \A d \in Clients : V.cl[d].querybuf = W.cl[d].querybuf /\ V.cl[d].alive = W.cl[d].alive

LEMMA BlockGood ==
  ASSUME NEW W, NEW bs, NEW cs, GoodBut(W, bs, cs), NEW c \in Clients, W.cl[c].alive,
         "BLOCKED" \notin W.cl[c].flags,
         NEW ks, ks \subseteq Keys, ks # {}, \A k \in ks : k \notin DOMAIN W.dict,
         NEW timeout, NEW target \in Keys \cup {Nil}, NEW where \in Where
  PROVE  LET V == blockForKeys(W, c, ks, timeout, target, where) IN GoodBut(V, bs, cs) /\ BlockedBy(W, V, c)
<1> DEFINE me == W.cl[c]
           r == [me EXCEPT !.keys = ks, !.left = timeout, !.target = target, !.where = where,
                           !.flags = me.flags \cup {"BLOCKED"}]
           index == Join(W.blocking_keys, ks, c)
           V == blockForKeys(W, c, ks, timeout, target, where)
<1>1. Shape(W) /\ Tables(W) /\ Queues(W) /\ Data(W, bs) /\ DOMAIN me = Attributes /\ ClientOk(me, c \in W.counted)
  BY GoodParts
<1>2. V = WithBlocking(W, c, r, index)
  <2> DEFINE q == [me EXCEPT !.keys = ks, !.left = timeout, !.target = target, !.where = where]
             B == WithBlocking(W, c, q, index)
  <2>1. V = SetFlags(B, c, {"BLOCKED"})
    <3>1. [W EXCEPT !.blocking_keys = Join(@, ks, c),
                    !.cl[c] = [@ EXCEPT !.keys = ks, !.left = timeout, !.target = target, !.where = where]] = B
      BY <1>1 DEF WithBlocking, Put, Shape, Fields
    <3> HIDE DEF B
    <3> QED
      BY <3>1 DEF blockForKeys
  <2>2. B.cl[c] = q /\ q.flags = me.flags
    BY <1>1 DEF WithBlocking, Put, Shape, Fields, Attributes
  <2>3. SetFlags(B, c, {"BLOCKED"}) = [B EXCEPT !.cl[c] = [q EXCEPT !.flags = me.flags \cup {"BLOCKED"}]]
    <3> HIDE DEF q, B
    <3> QED
      BY <2>2 DEF SetFlags
  <2>4. [q EXCEPT !.flags = me.flags \cup {"BLOCKED"}] = r
    BY <1>1 DEF Attributes
  <2> HIDE DEF q, r, V
  <2>5. [B EXCEPT !.cl[c] = r] = WithBlocking(W, c, r, index)
    BY <1>1 DEF WithBlocking, Put, Shape, Fields
  <2> QED
    BY <2>1, <2>3, <2>4, <2>5
<1>3. /\ DOMAIN r = Attributes /\ r.watched = me.watched /\ r.seen = me.seen /\ r.alive = me.alive
      /\ r.keys = ks /\ r.subs = me.subs /\ r.pats = me.pats /\ r.querybuf = me.querybuf
      /\ r.list = me.list /\ r.flags = me.flags \cup {"BLOCKED"} /\ r.commands = me.commands /\ r.target = target
      /\ r.where = where /\ r.buf = me.buf
  BY <1>1 DEF Attributes
<1> HIDE DEF r, index, V
<1>4. me.keys = {}
  BY <1>1 DEF ClientOk
<1>5. ClientOk(r, c \in W.counted)
  BY <1>1, <1>3 DEF ClientOk, AllFlags
<1>6. Kept(W, V, c, r) /\ V.blocking_keys = index /\ V.unblocked = W.unblocked
  BY <1>1, <1>2, <1>3, PutBlocking
<1>7. V.cl[c] = r /\ (\A d \in Clients : d # c => V.cl[d] = W.cl[d]) /\ V.toclose = W.toclose
      /\ Shape(V) /\ V.dict = W.dict /\ V.ready = W.ready /\ V.link = W.link /\ V.counted = W.counted
      /\ V.watched_keys = W.watched_keys /\ V.channels = W.channels /\ V.patterns = W.patterns
  BY <1>6 DEF Kept, Only
<1>8. IndexOk(index, KeysOf(V)) /\ Keeps(W.blocking_keys, index)
  <2> DEFINE F == KeysOf(W)
             G == KeysOf(V)
             i == W.blocking_keys
  <2>1. IndexOk(i, F)
    BY <1>1 DEF Tables
  <2>2. F[c] = {} /\ G[c] = ks /\ \A d \in Clients \ {c} : G[d] = F[d]
    BY <1>3, <1>4, <1>7 DEF KeysOf
  <2>3. (\A k \in ks : k \notin F[c]) /\ G[c] = F[c] \cup ks
    BY <2>2
  <2> HIDE DEF F, G, i
  <2>4. IndexOk(Join(i, ks, c), G) /\ Keeps(i, Join(i, ks, c))
    BY ONLY <2>1, <2>2, <2>3, JoinOk, c \in Clients
  <2> QED
    BY <2>4 DEF F, G, i, index
<1>9. WatchedOf(V) = WatchedOf(W) /\ SubsOf(V) = SubsOf(W)
  BY <1>3, <1>7 DEF WatchedOf, SubsOf
<1>10. \A d \in Clients : \A p : (p \in V.cl[d].pats) <=> Contains(V.patterns, <<d, p>>)
  BY <1>1, <1>3, <1>7 DEF Tables
<1>11. Tables(V)
  BY <1>1, <1>6, <1>7, <1>8, <1>9, <1>10 DEF Tables
<1>12. Queues(V)
  BY <1>1, <1>3, <1>6, <1>7 DEF Queues
<1>13. Pending(V, bs)
  <2>1. DOMAIN index = DOMAIN W.blocking_keys \cup ks
    BY DEF index, Join
  <2> QED
    BY <1>1, <1>6, <1>7, <2>1 DEF Data, Pending, IsList
<1>14. "DIRTY_CAS" \in r.flags \/ \A k \in r.watched : Content(W.dict, k) = r.seen[k] /\ ~Contains(W.ready, k)
  BY <1>1, <1>3 DEF Data, Fresh, ReadyDirty
<1>15. c \in cs \/ Limit(V, c)
  <2>1. c \in cs \/ Limit(W, c)
    BY DEF GoodBut
  <2>2. me.flags \cap {"CLOSE_ASAP", "CLOSE_AFTER_REPLY"} \subseteq r.flags
    BY <1>3
  <2> QED
    BY <1>3, <1>7, <2>1, <2>2, LimitSame
<1>16. GoodBut(V, bs, cs)
  BY <1>3, <1>5, <1>7, <1>11, <1>12, <1>13, <1>14, <1>15, ChangeGood
<1>17. Closing(W) => Closing(V)
  <2>1. \A d \in Clients : "CLOSE_ASAP" \in V.cl[d].flags <=> "CLOSE_ASAP" \in W.cl[d].flags
    BY <1>3, <1>7
  <2> QED
    BY <1>7, <2>1, ClosingSame
<1>18. Orderly(W, V)
  <2> SUFFICES ASSUME NEW k, NEW x \in Clients, NEW d \in Clients, InOrder(W, k, x, d) PROVE InOrder(V, k, x, d)
    BY DEF Orderly
  <2>1. CASE Settled(W, x, d)
    <3>1. V.cl[x].alive = W.cl[x].alive /\ V.cl[d].alive = W.cl[d].alive
      BY <1>3, <1>7
    <3> QED
      BY <1>6, <2>1, <3>1 DEF Settled, InOrder
  <2>2. CASE Ahead(W, k, x, d)
    <3>1. d # c
      BY <1>4, <2>2 DEF Ahead
    <3>2. V.cl[d].keys = W.cl[d].keys
      BY <1>7, <3>1
    <3> QED
      BY <1>6, <1>8, <2>2, <3>2 DEF Ahead, InOrder, Keeps
  <2> QED
    BY <2>1, <2>2 DEF InOrder
<1>19. Load(V) = Load(W) + 1
  <2>1. Waiting(V) = Waiting(W) \cup {c} /\ c \notin Waiting(W)
    BY <1>3, <1>7 DEF Waiting, Has
  <2>2. IsFiniteSet(Waiting(W)) /\ Len(W.unblocked) \in Nat
    BY <1>1, LoadNat DEF Queues
  <2>3. Cardinality(Waiting(W)) \in Nat
    BY <2>2, FS_CardinalityType
  <2>4. Cardinality(Waiting(V)) = Cardinality(Waiting(W)) + 1
    BY <2>1, <2>2, FS_AddElement
  <2> QED
    BY <1>6, <2>2, <2>3, <2>4 DEF Load
<1>20. \A d \in Clients : V.cl[d].querybuf = W.cl[d].querybuf /\ V.cl[d].alive = W.cl[d].alive
  BY <1>3, <1>7
<1> QED
  BY <1>6, <1>7, <1>16, <1>17, <1>18, <1>19, <1>20 DEF BlockedBy, V

\* A client stops waiting and is queued for beforeSleep.
Released(W, V, c) ==
    /\ V.dict = W.dict /\ V.link = W.link /\ V.ready = W.ready /\ V.counted = W.counted /\ V.toclose = W.toclose
    /\ V.blocking_keys = Leave(W.blocking_keys, W.cl[c].keys, c) /\ V.unblocked = Append(W.unblocked, c)
    /\ \A d \in Clients : d # c => V.cl[d] = W.cl[d]
    /\ V.cl[c].keys = {} /\ V.cl[c].alive = W.cl[c].alive /\ V.cl[c].querybuf = W.cl[c].querybuf
    /\ V.cl[c].watched = W.cl[c].watched
    /\ V.cl[c].flags = (W.cl[c].flags \ {"BLOCKED"}) \cup {"UNBLOCKED"}

LEMMA UnblockGood ==
  ASSUME NEW W, NEW bs, NEW cs, GoodBut(W, bs, cs), NEW c \in Clients, "BLOCKED" \in W.cl[c].flags
  PROVE  LET V == unblockClientWaitingData(W, c) IN GoodBut(V, bs, cs) /\ Released(W, V, c)
<1> DEFINE me == W.cl[c]
           q == [me EXCEPT !.keys = {}, !.left = Never, !.target = Nil, !.where = "head"]
           r == [q EXCEPT !.flags = (me.flags \ {"BLOCKED"}) \cup {"UNBLOCKED"}]
           index == Leave(W.blocking_keys, me.keys, c)
           V == unblockClientWaitingData(W, c)
<1>1. Shape(W) /\ Tables(W) /\ Queues(W) /\ Data(W, bs) /\ DOMAIN me = Attributes /\ ClientOk(me, c \in W.counted)
  BY GoodParts
<1>2. V = WithUnblocked(W, c, r, index)
  <2> DEFINE B == WithUnblocked(W, c, q, index)
             p == [q EXCEPT !.flags = me.flags \ {"BLOCKED"}]
             C == [B EXCEPT !.cl[c] = p]
  <2>1. [W EXCEPT !.blocking_keys = Leave(@, W.cl[c].keys, c), !.unblocked = Append(@, c),
                  !.cl[c] = [@ EXCEPT !.keys = {}, !.left = Never, !.target = Nil, !.where = "head"]] = B
    BY <1>1 DEF WithUnblocked, WithBlocking, Put, Shape, Fields
  <2>2. B.cl[c] = q /\ q.flags = me.flags /\ DOMAIN B.cl = Clients /\ DOMAIN B = Fields
    BY <1>1 DEF WithUnblocked, WithBlocking, Put, Shape, Fields, Attributes
  <2>3. p.flags = me.flags \ {"BLOCKED"} /\ [p EXCEPT !.flags = (me.flags \ {"BLOCKED"}) \cup {"UNBLOCKED"}] = r
    BY <1>1 DEF Attributes
  <2>4. V = SetFlags(ClearFlags(B, c, {"BLOCKED"}), c, {"UNBLOCKED"})
    <3> HIDE DEF B
    <3> QED
      BY <2>1 DEF unblockClientWaitingData
  <2>9. [B EXCEPT !.cl[c] = r] = WithUnblocked(W, c, r, index)
    <3> HIDE DEF q, r, p, index
    <3> QED
      BY <1>1 DEF WithUnblocked, WithBlocking, Put, Shape, Fields
  <2> HIDE DEF B, q, r, V
  <2>5. ClearFlags(B, c, {"BLOCKED"}) = C
    BY <2>2 DEF ClearFlags
  <2> HIDE DEF p
  <2>6. C.cl[c] = p /\ DOMAIN C.cl = Clients /\ DOMAIN C = Fields
    BY <2>2 DEF Fields
  <2>7. SetFlags(C, c, {"UNBLOCKED"}) = [C EXCEPT !.cl[c] = r]
    <3> HIDE DEF C
    <3> QED
      BY <2>3, <2>6 DEF SetFlags
  <2>8. [C EXCEPT !.cl[c] = r] = [B EXCEPT !.cl[c] = r]
    BY <2>2
  <2> QED
    BY <2>4, <2>5, <2>7, <2>8, <2>9
<1>3. /\ DOMAIN r = Attributes /\ r.watched = me.watched /\ r.seen = me.seen /\ r.alive = me.alive
      /\ r.keys = {} /\ r.subs = me.subs /\ r.pats = me.pats /\ r.querybuf = me.querybuf
      /\ r.list = me.list /\ r.flags = (me.flags \ {"BLOCKED"}) \cup {"UNBLOCKED"} /\ r.commands = me.commands
      /\ r.target = Nil /\ r.where = "head" /\ r.buf = me.buf
  BY <1>1 DEF Attributes
<1> HIDE DEF q, r, index, V
<1>4. me.alive
  BY NobodyIs
<1>5. ClientOk(r, c \in W.counted)
  BY <1>1, <1>3, <1>4 DEF ClientOk, AllFlags, Where
<1>6. Kept(W, V, c, r) /\ V.blocking_keys = index /\ V.unblocked = Append(W.unblocked, c)
  BY <1>1, <1>2, <1>3, PutUnblocked
<1>7. V.cl[c] = r /\ (\A d \in Clients : d # c => V.cl[d] = W.cl[d]) /\ V.toclose = W.toclose
      /\ Shape(V) /\ V.dict = W.dict /\ V.ready = W.ready /\ V.link = W.link /\ V.counted = W.counted
      /\ V.watched_keys = W.watched_keys /\ V.channels = W.channels /\ V.patterns = W.patterns
  BY <1>6 DEF Kept, Only
<1>8. IndexOk(index, KeysOf(V)) /\ DOMAIN index \subseteq DOMAIN W.blocking_keys
  <2> DEFINE F == KeysOf(W)
             G == KeysOf(V)
             i == W.blocking_keys
             ks == me.keys
  <2>1. IndexOk(i, F)
    BY <1>1 DEF Tables
  <2>2. F[c] = ks /\ G[c] = F[c] \ ks /\ \A d \in Clients \ {c} : G[d] = F[d]
    BY <1>3, <1>7 DEF KeysOf
  <2>3. ks \subseteq F[c]
    BY <2>2
  <2> HIDE DEF F, G, i, ks
  <2>4. IndexOk(Leave(i, ks, c), G) /\ DOMAIN Leave(i, ks, c) \subseteq DOMAIN i
    BY <2>1, <2>2, <2>3, LeaveOk
  <2> QED
    BY <2>4 DEF F, G, i, index, ks
<1>9. WatchedOf(V) = WatchedOf(W) /\ SubsOf(V) = SubsOf(W)
  BY <1>3, <1>7 DEF WatchedOf, SubsOf
<1>10. \A d \in Clients : \A p : (p \in V.cl[d].pats) <=> Contains(V.patterns, <<d, p>>)
  BY <1>1, <1>3, <1>7 DEF Tables
<1>11. Tables(V)
  BY <1>1, <1>6, <1>7, <1>8, <1>9, <1>10 DEF Tables
<1> DEFINE u == W.unblocked
<1>12. u \in Seq(Clients)
  BY <1>1 DEF Queues
<1>13. Append(u, c) \in Seq(Clients) /\ \A d : Contains(Append(u, c), d) <=> Contains(u, d) \/ d = c
  <2> HIDE DEF u
  <2> QED
    BY <1>12, AppendContains
<1> DEFINE v == Append(u, c)
<1> HIDE DEF v
<1>14. Queues(V)
  <2>1. V.unblocked = v /\ v \in Seq(Clients) /\ \A d : Contains(v, d) <=> Contains(W.unblocked, d) \/ d = c
    BY <1>6, <1>13 DEF v
  <2> QED
    BY <1>1, <1>3, <1>7, <2>1 DEF Queues
<1>15. Pending(V, bs)
  BY <1>1, <1>6, <1>7, <1>8 DEF Data, Pending, IsList
<1>16. "DIRTY_CAS" \in r.flags \/ \A k \in r.watched : Content(W.dict, k) = r.seen[k] /\ ~Contains(W.ready, k)
  BY <1>1, <1>3 DEF Data, Fresh, ReadyDirty
<1>17. c \in cs \/ Limit(V, c)
  <2>1. c \in cs \/ Limit(W, c)
    BY DEF GoodBut
  <2>2. me.flags \cap {"CLOSE_ASAP", "CLOSE_AFTER_REPLY"} \subseteq r.flags
    BY <1>3
  <2> QED
    BY <1>3, <1>7, <2>1, <2>2, LimitSame
<1>18. GoodBut(V, bs, cs)
  BY <1>3, <1>5, <1>7, <1>11, <1>14, <1>15, <1>16, <1>17, ChangeGood
<1> QED
  BY <1>3, <1>6, <1>7, <1>18 DEF Released, V, index

\* Of the others nobody loses his place; nor does who was the first for all he waited for.
LEMMA ReleasedOrder ==
  ASSUME NEW W, NEW V, NEW bs, NEW cs, GoodBut(W, bs, cs), GoodBut(V, bs, cs), NEW c \in Clients,
         W.cl[c].alive, Released(W, V, c),
         NEW k, NEW x \in Clients, NEW d \in Clients, InOrder(W, k, x, d), d # c \/ ~Ahead(W, k, x, c)
  PROVE  InOrder(V, k, x, d)
<1> DEFINE u == W.unblocked
           index == Leave(W.blocking_keys, W.cl[c].keys, c)
<1>0. Tables(W) /\ Queues(W)
  BY GoodParts
<1>1. \A e : Contains(V.unblocked, e) <=> Contains(u, e) \/ e = c
  <2>1. u \in Seq(Clients) /\ V.unblocked = Append(u, c)
    BY <1>0 DEF Queues, Released
  <2> HIDE DEF u
  <2> QED
    BY <2>1, AppendContains
<1>2. CASE Settled(W, x, d)
  <2>1. V.cl[x].alive = W.cl[x].alive /\ V.cl[d].alive = W.cl[d].alive
    BY DEF Released
  <2> QED
    BY <1>1, <1>2, <2>1 DEF Settled, InOrder
<1>3. CASE Ahead(W, k, x, d)
  <2>1. d # c
    BY <1>3
  <2>2. CASE x = c
    BY <1>1, <2>2 DEF InOrder, Settled
  <2>3. CASE x # c
    <3>1. IndexOk(W.blocking_keys, KeysOf(W)) /\ W.cl[c].keys \subseteq KeysOf(W)[c]
      BY <1>0 DEF Tables, KeysOf
    <3>2. KeysOf(V)[c] = KeysOf(W)[c] \ W.cl[c].keys /\ \A e \in Clients \ {c} : KeysOf(V)[e] = KeysOf(W)[e]
      BY DEF KeysOf, Released
    <3> DEFINE F == KeysOf(W)
               G == KeysOf(V)
               i == W.blocking_keys
               ks == W.cl[c].keys
    <3> HIDE DEF F, G, i, ks
    <3>3. \A e \in DOMAIN i : \A a, b : Precedes(i[e], a, b) /\ a # c /\ b # c =>
              e \in DOMAIN Leave(i, ks, c) /\ Precedes(Leave(i, ks, c)[e], a, b)
      BY <3>1, <3>2, LeaveOk DEF F, G, i, ks
    <3>4. k \in DOMAIN i /\ Precedes(i[k], x, d)
      BY <1>3 DEF Ahead, i
    <3>5. k \in DOMAIN V.blocking_keys /\ Precedes(V.blocking_keys[k], x, d)
      BY <2>1, <2>3, <3>3, <3>4 DEF Released, i, ks
    <3>6. V.cl[d].keys = {k} /\ ~Contains(V.unblocked, d)
      BY <1>1, <1>3, <2>1 DEF Ahead, Released
    <3> QED
      BY <3>5, <3>6 DEF Ahead, InOrder
  <2> QED
    BY <2>2, <2>3
<1> QED
  BY <1>2, <1>3 DEF InOrder

LEMMA ReleasedLoad ==
  ASSUME NEW W, NEW V, Queues(W), NEW c \in Clients, "BLOCKED" \in W.cl[c].flags, Released(W, V, c)
  PROVE  Load(V) = Load(W) /\ (Closing(W) => Closing(V)) /\ Cardinality(Waiting(V)) = Cardinality(Waiting(W)) - 1
<1>1. Waiting(V) = Waiting(W) \ {c} /\ c \in Waiting(W)
  BY DEF Waiting, Has, Released
<1>2. IsFiniteSet(Waiting(W))
  BY LoadNat
<1>3. Cardinality(Waiting(W)) \in Nat /\ Cardinality(Waiting(V)) = Cardinality(Waiting(W)) - 1
  BY <1>1, <1>2, FS_RemoveElement, FS_CardinalityType
<1> DEFINE u == W.unblocked
<1>4. u \in Seq(Clients) /\ V.unblocked = Append(u, c)
  BY DEF Queues, Released
<1>5. Len(Append(u, c)) = Len(u) + 1 /\ Len(u) \in Nat
  <2> HIDE DEF u
  <2> QED
    BY <1>4, AppendContains
<1>6. Load(V) = Load(W)
  BY <1>3, <1>4, <1>5 DEF Load
<1>7. \A d \in Clients : "CLOSE_ASAP" \in V.cl[d].flags <=> "CLOSE_ASAP" \in W.cl[d].flags
  BY DEF Released
<1> QED
  BY <1>3, <1>6, <1>7, ClosingSame DEF Released

\* A client that waits for nothing, watches nothing and is subscribed to nothing.
Bare(W, Z, c) ==
    /\ Z.dict = W.dict /\ Z.link = W.link /\ Z.ready = W.ready /\ Z.counted = W.counted /\ Z.toclose = W.toclose
    /\ \A d \in Clients : d # c => Z.cl[d] = W.cl[d]
    /\ Z.cl[c].keys = {} /\ Z.cl[c].watched = {} /\ Z.cl[c].subs = {} /\ Z.cl[c].pats = {}
    /\ IF "BLOCKED" \in W.cl[c].flags
       THEN /\ Z.unblocked = Append(W.unblocked, c)
            /\ Z.cl[c].flags = (W.cl[c].flags \ {"BLOCKED"}) \cup {"UNBLOCKED"}
       ELSE Z.unblocked = W.unblocked /\ Z.cl[c].flags = W.cl[c].flags

LEMMA DetachedGood ==
  ASSUME NEW W, NEW bs, NEW cs, NEW c \in Clients, GoodBut(W, bs, cs \cup {c}), W.cl[c].alive
  PROVE  /\ GoodBut(Detached(W, c), bs, cs \cup {c}) /\ Bare(W, Detached(W, c), c)
         /\ \A k : \A x, d \in Clients : x # c /\ d # c /\ InOrder(W, k, x, d) => InOrder(Detached(W, c), k, x, d)
<1> DEFINE U == IF Has(W, c, "BLOCKED") THEN unblockClientWaitingData(W, c) ELSE W
           A == unwatchAllKeys(U, c)
           B == pubsubUnsubscribeAllChannels(A, c, FALSE)
           Z == pubsubUnsubscribeAllPatterns(B, c, FALSE)
           es == cs \cup {c}
<1>1. Detached(W, c) = Z
  BY DEF Detached
<1>2. GoodBut(W, bs, es)
  OBVIOUS
<1>3. "BLOCKED" \in W.cl[c].flags => Released(W, U, c)
  BY <1>2, UnblockGood DEF Has
<1>4. "BLOCKED" \notin W.cl[c].flags => U = W
  BY DEF Has
<1>5. GoodBut(U, bs, es)
  BY <1>2, UnblockGood DEF Has
<1> HIDE DEF U
<1>6. U.cl[c].alive
  BY <1>3, <1>4 DEF Released
<1>7. /\ GoodBut(A, bs, es) /\ Calm(U, A) /\ A.cl[c].watched = {}
      /\ A.cl[c].flags = U.cl[c].flags /\ A.cl[c].subs = U.cl[c].subs /\ A.cl[c].pats = U.cl[c].pats
      /\ \A d \in Clients : d # c => A.cl[d] = U.cl[d]
      /\ A.toclose = U.toclose
  BY <1>5, <1>6, UnwatchGood
<1> HIDE DEF A
<1>8. A.cl[c].alive
  BY <1>6, <1>7, CalmAlive
<1>9. es \cup {c} = es
  OBVIOUS
<1> HIDE DEF es
<1>100. GoodBut(B, bs, es \cup {c}) /\ Shed(A, B, c) /\ B.cl[c].subs = {}
  BY <1>7, <1>8, LeaveAllChannelsShed
<1> HIDE DEF B
<1>10. GoodBut(B, bs, es) /\ Shed(A, B, c) /\ B.cl[c].subs = {}
  BY <1>9, <1>100
<1>11. B.cl[c].alive
  BY <1>8, <1>10, CalmAlive DEF Shed
<1>120. GoodBut(Z, bs, es \cup {c}) /\ Shed(B, Z, c) /\ Z.cl[c].pats = {}
  BY <1>10, <1>11, LeaveAllPatternsShed
<1> HIDE DEF Z
<1>12. GoodBut(Z, bs, es) /\ Shed(B, Z, c) /\ Z.cl[c].pats = {}
  BY <1>9, <1>120
<1>13. Shed(A, Z, c)
  BY <1>10, <1>12, ShedTrans
<1>14. Z.cl[c].subs = {} /\ Z.cl[c].watched = {} /\ Z.cl[c].flags = U.cl[c].flags
  BY <1>7, <1>10, <1>12, <1>13 DEF Shed
<1>15. Calm(U, Z)
  BY <1>7, <1>13, CalmTrans DEF Shed
<1>16. (\A d \in Clients : d # c => Z.cl[d] = U.cl[d]) /\ Z.toclose = U.toclose
  BY <1>7, <1>13 DEF Shed
<1>17. Z.dict = U.dict /\ Z.link = U.link /\ Z.ready = U.ready /\ Z.counted = U.counted /\ Z.unblocked = U.unblocked
       /\ Z.cl[c].keys = U.cl[c].keys
  BY <1>15 DEF Calm, Quiet
<1>18. U.cl[c].keys = {}
  <2>1. CASE "BLOCKED" \in W.cl[c].flags
    BY <1>3, <2>1 DEF Released
  <2>2. CASE "BLOCKED" \notin W.cl[c].flags
    <3>1. ClientOk(W.cl[c], c \in W.counted)
      BY <1>2, GoodParts
    <3> QED
      BY <1>4, <2>2, <3>1 DEF ClientOk
  <2> QED
    BY <2>1, <2>2
<1>19. Bare(W, Z, c)
  <2>1. CASE "BLOCKED" \in W.cl[c].flags
    BY <1>3, <1>12, <1>14, <1>16, <1>17, <1>18, <2>1 DEF Released, Bare
  <2>2. CASE "BLOCKED" \notin W.cl[c].flags
    BY <1>4, <1>12, <1>14, <1>16, <1>17, <1>18, <2>2 DEF Bare
  <2> QED
    BY <2>1, <2>2
<1>20. ASSUME NEW k, NEW x \in Clients, NEW d \in Clients, x # c, d # c, InOrder(W, k, x, d)
       PROVE  InOrder(Z, k, x, d)
  <2>1. InOrder(U, k, x, d)
    BY <1>2, <1>3, <1>4, <1>5, <1>20, ReleasedOrder
  <2>2. Orderly(U, Z)
    BY <1>5, <1>15, GoodParts, QuietGoes DEF Calm, Goes
  <2> QED
    BY <2>1, <2>2 DEF Orderly
<1> QED
  BY <1>1, <1>12, <1>19, <1>20 DEF es

----------------------------------------------------------------------------
\* What is put behind a list that does not have it, and taken out, is not there.
LEMMA AppendedOut ==
  ASSUME NEW X, NEW s \in Seq(X), NEW e \in X, ~Contains(s, e)
  PROVE  ~Contains(RemoveFirst(Append(s, e), e), e)
<1> DEFINE t == Append(s, e)
           u == RemoveFirst(t, e)
<1>1. t \in Seq(X) /\ Len(t) = Len(s) + 1 /\ Contains(t, e) /\ \A i \in 1..Len(s) : t[i] = s[i]
  BY AppendContains
<1> HIDE DEF t
<1>2. PICK n \in 1..Len(t) :
          /\ t[n] = e /\ u \in Seq(X) /\ Len(u) = Len(t) - 1
          /\ \A i \in 1..Len(t) - 1 : u[i] = IF i < n THEN t[i] ELSE t[i + 1]
  BY <1>1, RemoveFirstIs
<1> HIDE DEF u
<1>3. Len(s) \in Nat /\ \A i \in 1..Len(s) : s[i] # e
  BY DEF Contains
<1>4. n = Len(s) + 1
  BY <1>1, <1>2, <1>3
<1>5. \A i \in 1..Len(s) : u[i] = s[i]
  BY <1>1, <1>2, <1>3, <1>4
<1>6. Len(u) = Len(s)
  BY <1>1, <1>2, <1>3
<1> QED
  BY <1>2, <1>3, <1>5, <1>6 DEF Contains, u, t

----------------------------------------------------------------------------
\* A client is gone, and nothing points to it any more.
Freed(W, V, c) ==
    /\ V.dict = W.dict /\ V.link = W.link /\ V.ready = W.ready /\ V.counted = W.counted
    /\ V.toclose = (IF "CLOSE_ASAP" \in W.cl[c].flags THEN RemoveFirst(W.toclose, c) ELSE W.toclose)
    /\ V.cl[c] = NoClient /\ \A d \in Clients : d # c => V.cl[d] = W.cl[d]
    /\ Orderly(W, V) /\ Load(V) <= Load(W)

LEMMA NoClientIs ==
  /\ DOMAIN NoClient = Attributes /\ ~NoClient.alive /\ NoClient.flags = {} /\ NoClient.keys = {}
  /\ NoClient.watched = {} /\ NoClient.subs = {} /\ NoClient.pats = {} /\ NoClient.list = 0 /\ NoClient.buf = 0
  /\ NoClient.querybuf = Empty /\ \A slow : ClientOk(NoClient, slow)
<1>1. /\ DOMAIN NoClient = Attributes /\ NoClient.alive = FALSE /\ NoClient.flags = {} /\ NoClient.keys = {}
      /\ NoClient.watched = {} /\ NoClient.subs = {} /\ NoClient.pats = {} /\ NoClient.list = 0 /\ NoClient.buf = 0
      /\ NoClient.querybuf = Empty /\ NoClient.commands = Empty /\ NoClient.seen = Empty
      /\ NoClient.target = Nil /\ NoClient.where = "head"
  BY DEF NoClient, NewClient, Attributes
<1>2. Empty \in Seq(Command) /\ Empty \in Seq(Queued) /\ DOMAIN Empty = {} /\ IsFiniteSet({})
  BY FS_EmptySet DEF Empty
<1>3. ASSUME NEW slow PROVE ClientOk(NoClient, slow)
  <2> DEFINE n == NoClient
  <2>1. n.flags \subseteq AllFlags /\ n.alive \in BOOLEAN /\ n = NoClient
    BY <1>1
  <2>2. n.querybuf \in Seq(Command) /\ n.commands \in Seq(Queued) /\ n.keys \subseteq Keys
        /\ ((n.keys # {}) <=> ("BLOCKED" \in n.flags))
    BY <1>1, <1>2
  <2>3. IsFiniteSet(n.subs) /\ IsFiniteSet(n.pats) /\ n.pats \subseteq DOMAIN Matches /\ DOMAIN n.seen = n.watched
    BY <1>1, <1>2
  <2>4. n.target \in Keys \cup {Nil} /\ n.where \in Where /\ n.buf \in Nat /\ n.list \in Nat /\ n.list = 0
    BY <1>1 DEF Where
  <2> HIDE DEF n
  <2>5. ClientOk(n, slow)
    BY <2>1, <2>2, <2>3, <2>4 DEF ClientOk
  <2> QED
    BY <2>5 DEF n
<1> QED
  BY <1>1, <1>3

\* But for the queues.
Unqueued(Z, V) ==
    /\ Shape(V) /\ V.cl = Z.cl /\ V.dict = Z.dict /\ V.ready = Z.ready /\ V.link = Z.link
    /\ V.counted = Z.counted /\ V.watched_keys = Z.watched_keys /\ V.channels = Z.channels
    /\ V.patterns = Z.patterns /\ V.blocking_keys = Z.blocking_keys

LEMMA NotUnblockedIs ==
  ASSUME NEW Z, Shape(Z), NEW c \in Clients
  PROVE  LET V == NotUnblocked(Z, c) IN
         /\ Unqueued(Z, V) /\ V.toclose = Z.toclose
         /\ V.unblocked = (IF Has(Z, c, "UNBLOCKED") THEN RemoveFirst(Z.unblocked, c) ELSE Z.unblocked)
BY DEF NotUnblocked, Unqueued, Shape, Fields

LEMMA NotToCloseIs ==
  ASSUME NEW Z, Shape(Z), NEW c \in Clients
  PROVE  LET V == NotToClose(Z, c) IN
         /\ Unqueued(Z, V) /\ V.unblocked = Z.unblocked
         /\ V.toclose = (IF Has(Z, c, "CLOSE_ASAP") THEN RemoveFirst(Z.toclose, c) ELSE Z.toclose)
BY DEF NotToClose, Unqueued, Shape, Fields

LEMMA FreeGood ==
  ASSUME NEW W, NEW bs, NEW cs, NEW c \in Clients, GoodBut(W, bs, cs \cup {c}), W.cl[c].alive
  PROVE  GoodBut(freeClient(W, c), bs, cs) /\ Freed(W, freeClient(W, c), c)
<1> DEFINE Z == Detached(W, c)
           queue == IF Has(Z, c, "UNBLOCKED") THEN RemoveFirst(Z.unblocked, c) ELSE Z.unblocked
           close == IF Has(Z, c, "CLOSE_ASAP") THEN RemoveFirst(Z.toclose, c) ELSE Z.toclose
           V == freeClient(W, c)
<1>1. GoodBut(Z, bs, cs \cup {c}) /\ Bare(W, Z, c)
  BY DetachedGood
<1>2. ASSUME NEW k, NEW x \in Clients, NEW d \in Clients, x # c, d # c, InOrder(W, k, x, d)
      PROVE  InOrder(Z, k, x, d)
  BY <1>2, DetachedGood
<1>20. freeClient(W, c) = [NotToClose(NotUnblocked(Z, c), c) EXCEPT !.cl[c] = NoClient]
  BY DEF freeClient
<1> HIDE DEF Z
<1>3. Shape(Z) /\ Tables(Z) /\ Queues(Z) /\ Data(Z, bs) /\ ClientOk(Z.cl[c], c \in Z.counted)
      /\ \A d \in Clients : ClientOk(Z.cl[d], d \in Z.counted)
  BY <1>1, GoodParts
<1> DEFINE B == NotUnblocked(Z, c)
           C == NotToClose(B, c)
<1>4. Unqueued(Z, B) /\ B.toclose = Z.toclose /\ B.unblocked = queue
  BY <1>3, NotUnblockedIs
<1>41. V = Put(C, c, NoClient)
  BY <1>20 DEF Put
<1> HIDE DEF B, queue
<1>42. Unqueued(B, C) /\ C.unblocked = B.unblocked /\ C.toclose = close
  <2>1. Shape(B) /\ B.cl = Z.cl
    BY <1>4 DEF Unqueued
  <2> QED
    BY <1>4, <2>1, NotToCloseIs DEF Has
<1> HIDE DEF C, close, V
<1>5. /\ Shape(V) /\ V.cl[c] = NoClient /\ \A d \in Clients : d # c => V.cl[d] = Z.cl[d]
      /\ V.dict = Z.dict /\ V.ready = Z.ready /\ V.link = Z.link /\ V.counted = Z.counted
      /\ V.watched_keys = Z.watched_keys /\ V.channels = Z.channels /\ V.patterns = Z.patterns
      /\ V.blocking_keys = Z.blocking_keys /\ V.unblocked = queue /\ V.toclose = close
  <2>1. Shape(C) /\ DOMAIN NoClient = Attributes
    BY <1>42, NoClientIs DEF Unqueued
  <2> QED
    BY <1>4, <1>41, <1>42, <2>1, PutIs DEF Unqueued
<1>6. Z.cl[c].keys = {} /\ Z.cl[c].watched = {} /\ Z.cl[c].subs = {} /\ Z.cl[c].pats = {}
  BY <1>1 DEF Bare
<1>7. KeysOf(V) = KeysOf(Z) /\ WatchedOf(V) = WatchedOf(Z) /\ SubsOf(V) = SubsOf(Z)
  BY <1>5, <1>6, NoClientIs DEF KeysOf, WatchedOf, SubsOf
<1>8. \A d \in Clients : \A p : (p \in V.cl[d].pats) <=> Contains(V.patterns, <<d, p>>)
  BY <1>3, <1>5, <1>6, NoClientIs DEF Tables
<1>9. Tables(V)
  BY <1>3, <1>5, <1>7, <1>8 DEF Tables
<1> DEFINE u == Z.unblocked
<1>10. u \in Seq(Clients)
  BY <1>3 DEF Queues
<1>11. RemoveFirst(u, c) \in Seq(Clients) /\ (\A d : d # c => (Contains(RemoveFirst(u, c), d) <=> Contains(u, d)))
       /\ (Contains(u, c) => Len(RemoveFirst(u, c)) = Len(u) - 1) /\ (~Contains(u, c) => RemoveFirst(u, c) = u)
  <2> HIDE DEF u
  <2> QED
    BY <1>10, RemoveFirstList
<1>12. queue \in Seq(Clients) /\ (\A d : d # c => (Contains(queue, d) <=> Contains(Z.unblocked, d)))
       /\ Len(queue) <= Len(Z.unblocked)
  <2>1. Len(u) \in Nat
    BY <1>10
  <2> DEFINE v == RemoveFirst(u, c)
  <2>2. queue = v \/ queue = u
    BY DEF queue
  <2>3. Len(v) <= Len(u)
    <3> HIDE DEF v
    <3> QED
      BY <1>11, <2>1 DEF v
  <2> HIDE DEF v
  <2>4. Len(u) <= Len(u)
    BY <2>1
  <2> QED
    BY <1>10, <1>11, <2>2, <2>3, <2>4 DEF v
<1>13. Queues(V)
  BY <1>3, <1>5, <1>12, NoClientIs DEF Queues
<1>14. Pending(V, bs)
  BY <1>3, <1>5 DEF Data, Pending, IsList
<1>15. \A d \in Clients : ClientOk(V.cl[d], d \in V.counted)
  BY <1>3, <1>5, NoClientIs
<1>16. Fresh(V) /\ ReadyDirty(V)
  BY <1>3, <1>5, NoClientIs DEF Data, Fresh, ReadyDirty
<1>17. Data(V, bs)
  BY <1>3, <1>5, <1>14, <1>16 DEF Data
<1>18. ASSUME NEW d \in Clients \ cs PROVE Limit(V, d)
  <2>1. CASE d = c
    <3> DEFINE n == HardLimit[getClientLimitClass(V, c)]
    <3>1. n \in Nat
      <4>1. getClientLimitClass(V, c) \in {"normal", "pubsub"}
        BY DEF getClientLimitClass
      <4> QED
        BY <4>1, LimitsBound
    <3> HIDE DEF n
    <3>2. ~Reached(n, 0)
      BY <3>1 DEF Reached
    <3> QED
      BY <1>5, <2>1, <3>2, NoClientIs DEF Limit, n
  <2>2. CASE d # c
    <3>1. Limit(Z, d)
      BY <1>1, <2>2 DEF GoodBut
    <3> QED
      BY <1>5, <2>2, <3>1 DEF Limit, getClientLimitClass, Subscribed
  <2> QED
    BY <2>1, <2>2
<1>19. GoodBut(V, bs, cs)
  BY <1>5, <1>9, <1>13, <1>15, <1>17, <1>18 DEF GoodBut, CoreBut
<1>21. Z.cl[c].flags \ {"BLOCKED", "UNBLOCKED"} = W.cl[c].flags \ {"BLOCKED", "UNBLOCKED"} /\ Z.toclose = W.toclose
  BY <1>1 DEF Bare
<1>22. V.toclose = (IF "CLOSE_ASAP" \in W.cl[c].flags THEN RemoveFirst(W.toclose, c) ELSE W.toclose)
  BY <1>5, <1>21 DEF close, Has
<1>23. ClientOk(W.cl[c], c \in W.counted) /\ Queues(W)
  BY GoodParts
<1>24. Orderly(W, V)
  <2> SUFFICES ASSUME NEW k, NEW x \in Clients, NEW d \in Clients, InOrder(W, k, x, d) PROVE InOrder(V, k, x, d)
    BY DEF Orderly
  <2>1. CASE x = c
    BY <1>5, <2>1, NoClientIs DEF InOrder, Settled
  <2>2. CASE x # c /\ d # c
    <3>1. InOrder(Z, k, x, d)
      BY <1>2, <2>2
    <3>2. \A e \in {x, d} : V.cl[e] = Z.cl[e] /\ (Contains(V.unblocked, e) <=> Contains(Z.unblocked, e))
      BY <1>5, <1>12, <2>2
    <3> QED
      BY <1>5, <3>1, <3>2 DEF InOrder, Ahead, Settled
  <2>3. CASE x # c /\ d = c
    <3>1. CASE Settled(W, x, c)
      <4>1. CASE ~W.cl[x].alive
        <5>1. V.cl[x] = W.cl[x]
          BY <1>1, <1>5, <2>3 DEF Bare
        <5> QED
          BY <4>1, <5>1 DEF InOrder, Settled
      <4>2. CASE Contains(W.unblocked, x)
        <5>1. Contains(Z.unblocked, x)
          <6> DEFINE w == W.unblocked
          <6>1. w \in Seq(Clients) /\ Contains(w, x)
            BY <1>23, <4>2 DEF Queues
          <6>2. Contains(Append(w, c), x)
            <7> HIDE DEF w
            <7> QED
              BY <6>1, AppendContains
          <6> QED
            BY <1>1, <6>1, <6>2 DEF Bare
        <5> QED
          BY <1>5, <1>12, <2>3, <5>1 DEF InOrder, Settled
      <4> QED
        BY <3>1, <4>1, <4>2 DEF Settled
    <3>2. CASE Ahead(W, k, x, c)
      <4>1. "BLOCKED" \in W.cl[c].flags /\ ~Contains(W.unblocked, c)
        BY <1>23, <3>2 DEF Ahead, ClientOk
      <4>2. Z.unblocked = Append(W.unblocked, c) /\ "UNBLOCKED" \in Z.cl[c].flags
        BY <1>1, <4>1 DEF Bare
      <4>3. queue = RemoveFirst(Append(W.unblocked, c), c)
        BY <4>2 DEF queue, Has
      <4> DEFINE w == W.unblocked
      <4>4. w \in Seq(Clients) /\ ~Contains(w, c)
        BY <1>23, <4>1 DEF Queues
      <4>5. ~Contains(RemoveFirst(Append(w, c), c), c)
        <5> HIDE DEF w
        <5> QED
          BY <4>4, AppendedOut
      <4> QED
        BY <1>5, <2>3, <4>3, <4>5, NoClientIs DEF InOrder, Settled
    <3> QED
      BY <2>3, <3>1, <3>2 DEF InOrder
  <2> QED
    BY <2>1, <2>2, <2>3
<1>25. Load(V) <= Load(W)
  <2>1. Waiting(V) = Waiting(W) \ {c}
    <3>1. \A d \in Clients : d # c => V.cl[d] = W.cl[d]
      BY <1>1, <1>5 DEF Bare
    <3> QED
      BY <1>5, <3>1, NoClientIs DEF Waiting, Has
  <2>2. IsFiniteSet(Waiting(W)) /\ Cardinality(Waiting(W)) \in Nat
    BY <1>23, LoadNat, FS_CardinalityType
  <2>3. Len(Z.unblocked) \in Nat /\ Len(queue) \in Nat /\ Len(W.unblocked) \in Nat
    BY <1>10, <1>12, <1>23 DEF Queues
  <2>4. CASE "BLOCKED" \in W.cl[c].flags
    <3>1. Cardinality(Waiting(V)) = Cardinality(Waiting(W)) - 1
      BY <2>1, <2>2, <2>4, FS_RemoveElement DEF Waiting, Has
    <3>2. Len(Z.unblocked) = Len(W.unblocked) + 1
      <4> DEFINE w == W.unblocked
      <4>1. w \in Seq(Clients) /\ Z.unblocked = Append(w, c)
        BY <1>1, <1>23, <2>4 DEF Bare, Queues
      <4>2. Len(Append(w, c)) = Len(w) + 1
        <5> HIDE DEF w
        <5> QED
          BY <4>1, AppendContains
      <4> QED
        BY <4>1, <4>2
    <3> QED
      BY <1>5, <1>12, <2>2, <2>3, <3>1, <3>2 DEF Load
  <2>5. CASE "BLOCKED" \notin W.cl[c].flags
    <3>1. Waiting(V) = Waiting(W)
      BY <2>1, <2>5 DEF Waiting, Has
    <3>2. Z.unblocked = W.unblocked
      BY <1>1, <2>5 DEF Bare
    <3> QED
      BY <1>5, <1>12, <2>2, <2>3, <3>1, <3>2 DEF Load
  <2> QED
    BY <2>4, <2>5
<1>26. /\ V.dict = W.dict /\ V.link = W.link /\ V.ready = W.ready /\ V.counted = W.counted
       /\ \A d \in Clients : d # c => V.cl[d] = W.cl[d]
  BY <1>1, <1>5 DEF Bare
<1> QED
  BY <1>5, <1>19, <1>22, <1>24, <1>25, <1>26 DEF Freed, V

LEMMA FreedGoes ==
  ASSUME NEW W, NEW V, NEW c \in Clients, Freed(W, V, c), W.cl[c].alive
  PROVE  Goes(W, V)
<1>1. ASSUME Closing(W) PROVE Closing(V)
  <2> DEFINE t == W.toclose
  <2>1. t \in Seq(Clients) /\ IsInjective(t) /\ \A d \in Clients : Contains(t, d) <=> "CLOSE_ASAP" \in W.cl[d].flags
    BY <1>1 DEF Closing
  <2>2. /\ RemoveFirst(t, c) \in Seq(Clients) /\ IsInjective(RemoveFirst(t, c)) /\ ~Contains(RemoveFirst(t, c), c)
        /\ \A d : d # c => (Contains(RemoveFirst(t, c), d) <=> Contains(t, d))
    <3> HIDE DEF t
    <3> QED
      BY <2>1, RemoveFirstList, RemoveFirstInjective
  <2>3. \A d \in Clients : "CLOSE_ASAP" \in V.cl[d].flags <=> "CLOSE_ASAP" \in W.cl[d].flags /\ d # c
    BY NoClientIs DEF Freed
  <2>4. CASE "CLOSE_ASAP" \in W.cl[c].flags
    <3> DEFINE v == RemoveFirst(t, c)
    <3>1. V.toclose = v
      BY <2>4 DEF Freed
    <3> HIDE DEF v
    <3>2. \A d \in Clients : Contains(v, d) <=> Contains(t, d) /\ d # c
      BY <2>2 DEF v
    <3>3. v \in Seq(Clients) /\ IsInjective(v)
      BY <2>2 DEF v
    <3> QED
      BY <2>1, <2>3, <3>1, <3>2, <3>3 DEF Closing
  <2>5. CASE "CLOSE_ASAP" \notin W.cl[c].flags
    <3>1. V.toclose = t
      BY <2>5 DEF Freed
    <3> QED
      BY <2>1, <2>3, <2>5, <3>1 DEF Closing
  <2> QED
    BY <2>4, <2>5
<1>2. \A d \in Clients : (V.cl[d].querybuf = W.cl[d].querybuf \/ V.cl[d].querybuf = Empty)
                         /\ (V.cl[d].alive => W.cl[d].alive)
  BY NoClientIs DEF Freed
<1> QED
  BY <1>1, <1>2 DEF Freed, Goes

\* The dataset, what the slave is sent and who is to be closed.
Idles(W, V) ==
    V.dict = W.dict /\ V.link = W.link /\ V.ready = W.ready /\ V.counted = W.counted /\ (Closing(W) => Closing(V))

LEMMA CalmIdles == ASSUME NEW W, NEW V, Calm(W, V) PROVE Idles(W, V)
BY DEF Calm, Quiet, Idles

LEMMA IdlesTrans == ASSUME NEW U, NEW V, NEW W, Idles(U, V), Idles(V, W) PROVE Idles(U, W)
BY DEF Idles

LEMMA FreedIdles ==
  ASSUME NEW W, NEW V, NEW c \in Clients, NEW ks, NEW cs, GoodBut(W, ks, cs), Freed(W, V, c), W.cl[c].alive
  PROVE  Goes(W, V) /\ Idles(W, V)
<1>1. Goes(W, V)
  BY FreedGoes
<1> QED
  BY <1>1 DEF Freed, Idles, Goes

\* A client that is there and not to be closed.
LEMMA FreeNow ==
  ASSUME NEW W, NEW bs, NEW cs, GoodBut(W, bs, cs), NEW c \in Clients, W.cl[c].alive
  PROVE  LET V == freeClient(W, c) IN GoodBut(V, bs, cs) /\ Freed(W, V, c) /\ Goes(W, V) /\ Idles(W, V)
<1>1. GoodBut(W, bs, cs \cup {c})
  BY GoodMore
<1> QED
  BY <1>1, FreeGood, FreedIdles

----------------------------------------------------------------------------
\* A connection is accepted.
LEMMA AcceptGood ==
  ASSUME NEW W, NEW bs, NEW cs, GoodBut(W, bs, cs), NEW c \in Clients, ~W.cl[c].alive
  PROVE  LET V == acceptCommonHandler(W, c) IN
         /\ GoodBut(V, bs, cs) /\ Idles(W, V)
         /\ \A k : \A x, d \in Clients : x # c /\ d # c /\ InOrder(W, k, x, d) => InOrder(V, k, x, d)
<1> DEFINE U == Put(W, c, NewClient)
           V == acceptCommonHandler(W, c)
<1>1. Shape(W) /\ Tables(W) /\ Queues(W) /\ Data(W, bs) /\ \A d \in Clients : ClientOk(W.cl[d], d \in W.counted)
  BY GoodParts
<1>2. /\ DOMAIN NewClient = Attributes /\ NewClient.alive /\ NewClient.flags = {} /\ NewClient.keys = {}
      /\ NewClient.watched = {} /\ NewClient.subs = {} /\ NewClient.pats = {} /\ NewClient.list = 0
      /\ NewClient.buf = 0 /\ NewClient.querybuf = Empty /\ NewClient.commands = Empty /\ NewClient.seen = Empty
      /\ NewClient.target = Nil /\ NewClient.where = "head"
  BY DEF NewClient, Attributes
<1>3. W.cl[c] = NoClient
  BY <1>1 DEF ClientOk
<1>4. ClientOk(NewClient, c \in W.counted)
  <2>1. Empty \in Seq(Command) /\ Empty \in Seq(Queued) /\ DOMAIN Empty = {} /\ IsFiniteSet({})
    BY FS_EmptySet DEF Empty
  <2> DEFINE n == NewClient
  <2>2. n.flags \subseteq AllFlags /\ n.alive \in BOOLEAN /\ n.alive
    BY <1>2 DEF NewClient
  <2>3. n.querybuf \in Seq(Command) /\ n.commands \in Seq(Queued) /\ n.keys \subseteq Keys
        /\ ((n.keys # {}) <=> ("BLOCKED" \in n.flags))
    BY <1>2, <2>1
  <2>4. IsFiniteSet(n.subs) /\ IsFiniteSet(n.pats) /\ n.pats \subseteq DOMAIN Matches /\ DOMAIN n.seen = n.watched
    BY <1>2, <2>1
  <2>5. n.target \in Keys \cup {Nil} /\ n.where \in Where /\ n.buf \in Nat /\ n.list \in Nat /\ n.list = 0
    BY <1>2 DEF Where
  <2> HIDE DEF n
  <2>6. ClientOk(n, c \in W.counted)
    BY <2>2, <2>3, <2>4, <2>5 DEF ClientOk
  <2> QED
    BY <2>6 DEF n
<1>5. /\ Shape(U) /\ U.cl[c] = NewClient /\ \A d \in Clients : d # c => U.cl[d] = W.cl[d]
      /\ U.dict = W.dict /\ U.blocking_keys = W.blocking_keys /\ U.watched_keys = W.watched_keys
      /\ U.channels = W.channels /\ U.patterns = W.patterns /\ U.ready = W.ready
      /\ U.unblocked = W.unblocked /\ U.toclose = W.toclose /\ U.link = W.link /\ U.counted = W.counted
  BY <1>1, <1>2, PutIs
<1>6. V = IF Cardinality({d \in Clients : U.cl[d].alive}) > MaxClients THEN freeClient(U, c) ELSE U
  BY DEF acceptCommonHandler, Put
<1>61. Tables(U)
  BY <1>1, <1>2, <1>3, NoClientIs, PutTables
<1> HIDE DEF U, V
<1>7. Queues(U) /\ Pending(U, bs)
  BY <1>1, <1>2, <1>5 DEF Queues, Data, Pending, IsList
<1>8. Limit(U, c)
  <2> DEFINE n == HardLimit[getClientLimitClass(U, c)]
  <2>1. n \in Nat
    <3>1. getClientLimitClass(U, c) \in {"normal", "pubsub"}
      BY DEF getClientLimitClass
    <3> QED
      BY <3>1, LimitsBound
  <2> HIDE DEF n
  <2>2. ~Reached(n, 0)
    BY <2>1 DEF Reached
  <2> QED
    BY <1>2, <1>5, <2>2 DEF Limit, n
<1>9. "CLOSE_ASAP" \in U.cl[c].flags <=> "CLOSE_ASAP" \in W.cl[c].flags
  BY <1>2, <1>3, <1>5, NoClientIs
<1>10. GoodBut(U, bs, cs)
  <2> DEFINE n == NewClient
  <2> HIDE DEF n
  <2>1. ClientOk(n, c \in W.counted) /\ n.watched = {} /\ U.cl[c] = n
    BY <1>2, <1>4, <1>5 DEF n
  <2> QED
    BY <1>5, <1>61, <1>7, <1>8, <1>9, <2>1, ChangeGood
<1>11. Idles(W, U)
  <2>1. \A d \in Clients : "CLOSE_ASAP" \in U.cl[d].flags <=> "CLOSE_ASAP" \in W.cl[d].flags
    BY <1>5, <1>9
  <2> QED
    BY <1>5, <2>1, ClosingSame DEF Idles
<1>12. ASSUME NEW k, NEW x \in Clients, NEW d \in Clients, x # c, d # c, InOrder(W, k, x, d)
       PROVE  InOrder(U, k, x, d)
  BY <1>5, <1>12 DEF InOrder, Ahead, Settled
<1>13. CASE V = U
  BY <1>10, <1>11, <1>12, <1>13 DEF V
<1>14. CASE V = freeClient(U, c)
  <2>1. U.cl[c].alive
    BY <1>2, <1>5
  <2>2. GoodBut(V, bs, cs) /\ Goes(U, V) /\ Idles(U, V)
    BY <1>10, <1>14, <2>1, FreeNow
  <2> QED
    BY <1>11, <1>12, <2>2, IdlesTrans DEF Goes, Orderly, V
<1> QED
  BY <1>6, <1>13, <1>14

----------------------------------------------------------------------------
\* Replies leave.
LEMMA SendGood ==
  ASSUME NEW W, NEW bs, NEW cs, GoodBut(W, bs, cs), NEW c \in Clients, W.cl[c].alive,
         NEW n \in Nat, n <= W.cl[c].buf + W.cl[c].list
  PROVE  LET V == sendReplyToClient(W, c, n) IN GoodBut(V, bs, cs) /\ Goes(W, V) /\ Idles(W, V)
<1> DEFINE me == W.cl[c]
           b == Min({n, me.buf})
           r == [me EXCEPT !.buf = me.buf - b, !.list = me.list - (n - b), !.idle = 0]
           U == Put(W, c, r)
           V == sendReplyToClient(W, c, n)
<1>1. Shape(W) /\ DOMAIN me = Attributes /\ ClientOk(me, c \in W.counted)
  BY GoodParts
<1>2. me.buf \in Nat /\ me.list \in Nat
  BY <1>1 DEF ClientOk
<1>3. b \in Nat /\ b <= n /\ b <= me.buf /\ (b = n \/ b = me.buf)
  <2> DEFINE N == {n, me.buf}
  <2>1. N \in SUBSET Nat /\ N # {}
    BY <1>2
  <2>2. Min(N) \in N /\ \A y \in N : Min(N) <= y
    BY <2>1, NatMin
  <2> QED
    BY <1>2, <2>2
<1> HIDE DEF b
<1>4. U = [W EXCEPT !.cl[c].buf = @ - b, !.cl[c].list = @ - (n - b), !.cl[c].idle = 0]
  BY <1>1 DEF Put, Shape, Fields, Attributes
<1>5. /\ DOMAIN r = Attributes /\ r.watched = me.watched /\ r.seen = me.seen /\ r.alive = me.alive
      /\ r.keys = me.keys /\ r.subs = me.subs /\ r.pats = me.pats /\ r.querybuf = me.querybuf
      /\ r.flags = me.flags /\ r.commands = me.commands
      /\ r.target = me.target /\ r.where = me.where /\ r.buf = me.buf - b /\ r.list = me.list - (n - b)
  BY <1>1 DEF Attributes
<1> DEFINE x == me.buf
           y == me.list
<1>6. r.buf \in Nat /\ r.list \in Nat /\ r.list <= me.list /\ (me.list = 0 => r.list = 0)
  <2>1. x - b \in Nat /\ y - (n - b) \in Nat /\ y - (n - b) <= y /\ (y = 0 => y - (n - b) = 0)
    <3>1. x \in Nat /\ y \in Nat /\ b \in Nat /\ b <= n /\ b <= x /\ (b = n \/ b = x) /\ n <= x + y
      BY <1>2, <1>3
    <3> HIDE DEF x, y
    <3> QED
      BY <3>1
  <2> QED
    BY <1>5, <2>1
<1>7. V = IF n = me.buf + me.list /\ Has(U, c, "CLOSE_AFTER_REPLY") THEN freeClient(U, c) ELSE U
  BY <1>4 DEF sendReplyToClient, b
<1> HIDE DEF r
<1>8. ClientOk(r, c \in W.counted)
  BY <1>1, <1>5, <1>6 DEF ClientOk
<1>9. Tame(me, r)
  BY <1>5 DEF Tame
<1>10. GoodBut(U, bs, cs)
  BY <1>5, <1>6, <1>8, <1>9, PutGood
<1>11. Calm(W, U)
  BY <1>1, <1>5, <1>9, PutCalm
<1>12. U.cl[c].alive
  BY <1>11, CalmAlive
<1> HIDE DEF U
<1>13. Goes(W, U) /\ Idles(W, U)
  BY <1>11, CalmGoes, CalmIdles
<1>14. CASE V = U
  BY <1>10, <1>13, <1>14
<1>15. CASE V = freeClient(U, c)
  <2> HIDE DEF V
  <2>1. GoodBut(V, bs, cs) /\ Goes(U, V) /\ Idles(U, V)
    BY <1>10, <1>12, <1>15, FreeNow
  <2>2. Goes(W, V)
    BY <1>10, <1>13, <2>1, GoesTrans, GoodParts
  <2> QED
    BY <1>13, <2>1, <2>2, IdlesTrans DEF V
<1> QED
  BY <1>7, <1>14, <1>15

----------------------------------------------------------------------------
\* serverCron.
LEMMA TimeoutGood ==
  ASSUME NEW W, NEW bs, NEW cs, GoodBut(W, bs, cs), NEW c \in Clients, W.cl[c].alive
  PROVE  LET V == clientsCronHandleTimeout(W, c) IN GoodBut(V, bs, cs) /\ Idles(W, V)
<1> DEFINE V == clientsCronHandleTimeout(W, c)
           A == addReply(W, c)
           U == unblockClientWaitingData(A, c)
<1>1. V = W \/ V = freeClient(W, c) \/ ("BLOCKED" \in W.cl[c].flags /\ V = U)
  BY DEF clientsCronHandleTimeout, Has
<1>2. CASE V = W
  BY <1>2 DEF Idles
<1>3. CASE V = freeClient(W, c)
  BY <1>3, FreeNow
<1>4. CASE "BLOCKED" \in W.cl[c].flags /\ V = U
  <2>1. GoodBut(A, bs, cs) /\ Replied(W, A) /\ Calm(W, A)
    BY AddReplyKeeps
  <2> HIDE DEF A
  <2>2. "BLOCKED" \in A.cl[c].flags
    BY <1>4, <2>1 DEF Replied
  <2>3. GoodBut(U, bs, cs) /\ Released(A, U, c)
    BY <2>1, <2>2, UnblockGood
  <2> HIDE DEF U
  <2>4. Idles(A, U)
    BY <2>1, <2>2, <2>3, ReleasedLoad, GoodParts DEF Released, Idles
  <2> QED
    BY <1>4, <2>1, <2>3, <2>4, CalmIdles, IdlesTrans DEF U, A
<1> QED
  BY <1>1, <1>2, <1>3, <1>4

LEMMA CronGood ==
  ASSUME NEW W, NEW bs, NEW cs, GoodBut(W, bs, cs)
  PROVE  GoodBut(clientsCron(W), bs, cs) /\ Idles(W, clientsCron(W))
<1> DEFINE order == SetToSeq(Clients)
           Handle(A, c) == IF A.cl[c].alive THEN clientsCronHandleTimeout(A, c) ELSE A
           N == Len(order)
           zero == W
           step(A, n) == Handle(A, order[n])
           run[n \in 0..Len(order)] == IF n = 0 THEN zero ELSE step(run[n - 1], n)
<1>1. clientsCron(W) = run[N]
  BY DEF clientsCron
<1>2. order \in Seq(Clients) /\ N \in Nat
  BY ConnectionsBound, ListOfSet
<1>3. ASSUME NEW A, NEW n \in 1..N, GoodBut(A, bs, cs) /\ Idles(W, A)
      PROVE  GoodBut(step(A, n), bs, cs) /\ Idles(W, step(A, n))
  <2>1. order[n] \in Clients
    BY <1>2
  <2> HIDE DEF order
  <2>2. CASE A.cl[order[n]].alive
    <3>1. step(A, n) = clientsCronHandleTimeout(A, order[n])
      BY <2>2
    <3> QED
      BY <1>3, <2>1, <2>2, <3>1, TimeoutGood, IdlesTrans
  <2>3. CASE ~A.cl[order[n]].alive
    BY <1>3, <2>3
  <2> QED
    BY <2>2, <2>3
<1> HIDE DEF step, zero
<1>4. run = [n \in 0..N |-> IF n = 0 THEN zero ELSE step(run[n - 1], n)]
  <2> HIDE DEF N, zero, step
  <2> DEFINE P == {m \in Nat : \E f : f = [n \in 0..m |-> IF n = 0 THEN zero ELSE step(f[n - 1], n)]}
  <2>1. 0 \in P
    <3> DEFINE f == [n \in 0..0 |-> zero]
    <3>1. f = [n \in 0..0 |-> IF n = 0 THEN zero ELSE step(f[n - 1], n)]
      OBVIOUS
    <3> HIDE DEF f
    <3> QED
      BY <3>1
  <2>2. ASSUME NEW m \in Nat, m \in P PROVE m + 1 \in P
    <3>1. PICK f : f = [n \in 0..m |-> IF n = 0 THEN zero ELSE step(f[n - 1], n)]
      BY <2>2
    <3> DEFINE g == [n \in 0..m + 1 |-> IF n = m + 1 THEN step(f[m], n) ELSE f[n]]
    <3>2. \A n \in 0..m + 1 : g[n] = IF n = 0 THEN zero ELSE step(g[n - 1], n)
      <4> SUFFICES ASSUME NEW n \in 0..m + 1 PROVE g[n] = IF n = 0 THEN zero ELSE step(g[n - 1], n)
        OBVIOUS
      <4>1. CASE n = m + 1
        BY <4>1
      <4>2. CASE n # m + 1
        BY <3>1, <4>2
      <4> QED
        BY <4>1, <4>2
    <3>3. g = [n \in 0..m + 1 |-> IF n = 0 THEN zero ELSE step(g[n - 1], n)]
      BY <3>2
    <3> HIDE DEF g
    <3> QED
      BY <3>3
  <2>3. N \in P
    BY <1>2, <2>1, <2>2, NatSetInduction
  <2> QED
    BY <2>3 DEF N
<1> HIDE DEF run
<1>5. GoodBut(zero, bs, cs) /\ Idles(W, zero)
  BY DEF zero, Idles
<1>6. GoodBut(run[N], bs, cs) /\ Idles(W, run[N])
  <2> HIDE DEF N, zero, step
  <2> DEFINE P == {n \in Nat : n <= N => GoodBut(run[n], bs, cs) /\ Idles(W, run[n])}
  <2>1. 0 \in P
    <3>1. run[0] = zero
      BY <1>2, <1>4
    <3> QED
      BY <3>1, <1>5
  <2>2. ASSUME NEW n \in Nat, n \in P PROVE n + 1 \in P
    <3> SUFFICES ASSUME n + 1 <= N PROVE GoodBut(run[n + 1], bs, cs) /\ Idles(W, run[n + 1])
      OBVIOUS
    <3>1. n + 1 \in 1..N /\ n <= N /\ (n + 1) - 1 = n
      BY <1>2
    <3>2. run[n + 1] = step(run[n], n + 1)
      BY <1>2, <1>4
    <3>3. GoodBut(run[n], bs, cs) /\ Idles(W, run[n])
      BY <2>2, <3>1
    <3> HIDE DEF P
    <3>4. GoodBut(step(run[n], n + 1), bs, cs) /\ Idles(W, step(run[n], n + 1))
      BY <1>3, <3>1, <3>3
    <3> QED
      BY <3>2, <3>4
  <2>3. N \in P
    BY <1>2, <2>1, <2>2, NatSetInduction
  <2> QED
    BY <1>2, <2>3
<1> QED
  BY <1>1, <1>6

\* The clients on the queue are closed, one after the other, before the queue is emptied.
ToClose(W, A, n) ==
    /\ GoodBut(A, {}, {}) /\ A.toclose = W.toclose
    /\ A.dict = W.dict /\ A.link = W.link /\ A.ready = W.ready /\ A.counted = W.counted
    /\ \A d \in Clients : "CLOSE_ASAP" \in A.cl[d].flags <=> \E i \in n + 1..Len(W.toclose) : W.toclose[i] = d

LEMMA CloseOne ==
  ASSUME NEW W, Closing(W), NEW n \in 0..Len(W.toclose) - 1, NEW A, ToClose(W, A, n)
  PROVE  LET c == W.toclose[n + 1] IN ToClose(W, freeClient(ClearFlags(A, c, {"CLOSE_ASAP"}), c), n + 1)
<1> DEFINE t == W.toclose
           c == t[n + 1]
           me == A.cl[c]
           r == [me EXCEPT !.flags = me.flags \ {"CLOSE_ASAP"}]
           B == Put(A, c, r)
           V == freeClient(B, c)
<1>1. t \in Seq(Clients) /\ IsInjective(t) /\ Len(t) \in Nat
  BY DEF Closing
<1>2. c \in Clients /\ n \in Nat /\ n + 1 \in 1..Len(t)
  BY <1>1
<1>3. GoodBut(A, {}, {}) /\ A.toclose = t /\ "CLOSE_ASAP" \in me.flags
  BY <1>1, <1>2 DEF ToClose
<1> HIDE DEF t, c
<1>4. Shape(A) /\ Tables(A) /\ Queues(A) /\ Data(A, {}) /\ DOMAIN me = Attributes /\ ClientOk(me, c \in A.counted)
  BY <1>2, <1>3, GoodParts
<1>5. me.alive
  BY <1>2, <1>3, NobodyIs
<1>6. ClearFlags(A, c, {"CLOSE_ASAP"}) = B
  BY <1>4 DEF ClearFlags, Put
<1>7. /\ DOMAIN r = Attributes /\ r.watched = me.watched /\ r.seen = me.seen /\ r.alive = me.alive
      /\ r.keys = me.keys /\ r.subs = me.subs /\ r.pats = me.pats /\ r.querybuf = me.querybuf
      /\ r.list = me.list /\ r.flags = me.flags \ {"CLOSE_ASAP"} /\ r.commands = me.commands
      /\ r.target = me.target /\ r.where = me.where /\ r.buf = me.buf
  BY <1>4 DEF Attributes
<1> HIDE DEF r
<1>8. Tame(me, r) /\ ClientOk(r, c \in A.counted)
  BY <1>4, <1>5, <1>7 DEF Tame, ClientOk
<1>9. CoreBut(B, {})
  BY <1>2, <1>3, <1>8, PutCore DEF GoodBut
<1>10. /\ Shape(B) /\ B.cl[c] = r /\ \A d \in Clients : d # c => B.cl[d] = A.cl[d]
       /\ B.dict = A.dict /\ B.ready = A.ready /\ B.toclose = A.toclose /\ B.link = A.link /\ B.counted = A.counted
  BY <1>2, <1>4, <1>7, PutIs
<1> HIDE DEF B
<1>11. GoodBut(B, {}, {} \cup {c})
  <2>1. ASSUME NEW d \in Clients, d # c PROVE Limit(B, d)
    <3>1. Limit(A, d)
      BY <1>3 DEF GoodBut
    <3> QED
      BY <1>10, <2>1, <3>1 DEF Limit, getClientLimitClass, Subscribed
  <2> QED
    BY <1>9, <2>1 DEF GoodBut
<1>12. B.cl[c].alive
  BY <1>5, <1>7, <1>10
<1>13. GoodBut(V, {}, {}) /\ Freed(B, V, c)
  BY <1>2, <1>11, <1>12, FreeGood
<1> HIDE DEF V
<1>14. V.toclose = t
  BY <1>3, <1>7, <1>10, <1>13 DEF Freed
<1>15. V.cl[c] = NoClient /\ \A d \in Clients : d # c => V.cl[d] = A.cl[d]
  BY <1>10, <1>13 DEF Freed
<1>16. ASSUME NEW d \in Clients
       PROVE  "CLOSE_ASAP" \in V.cl[d].flags <=> \E i \in (n + 1) + 1..Len(t) : t[i] = d
  <2>0. "CLOSE_ASAP" \in A.cl[d].flags <=> \E i \in n + 1..Len(t) : t[i] = d
    BY DEF ToClose, t
  <2>00. t[n + 1] = c /\ DOMAIN t = 1..Len(t)
    BY <1>1 DEF c
  <2>1. CASE d = c
    <3>1. "CLOSE_ASAP" \notin V.cl[c].flags
      BY <1>15, NoClientIs
    <3>2. ASSUME NEW i \in (n + 1) + 1..Len(t), t[i] = c PROVE FALSE
      <4>1. i \in 1..Len(t) /\ i # n + 1
        BY <1>1, <1>2
      <4> QED
        BY <1>1, <1>2, <2>00, <3>2, <4>1 DEF IsInjective
    <3> QED
      BY <2>1, <3>1, <3>2
  <2>2. CASE d # c
    <3>1. (\E i \in n + 1..Len(t) : t[i] = d) <=> \E i \in (n + 1) + 1..Len(t) : t[i] = d
      <4>1. \A i \in n + 1..Len(t) : i = n + 1 \/ i \in (n + 1) + 1..Len(t)
        BY <1>1, <1>2
      <4>2. \A i \in (n + 1) + 1..Len(t) : i \in n + 1..Len(t)
        BY <1>1, <1>2
      <4> QED
        BY <2>00, <2>2, <4>1, <4>2
    <3> QED
      BY <1>15, <2>0, <2>2, <3>1
  <2> QED
    BY <2>1, <2>2
<1>17. V.dict = W.dict /\ V.link = W.link /\ V.ready = W.ready /\ V.counted = W.counted
  BY <1>10, <1>13 DEF Freed, ToClose
<1>18. ToClose(W, V, n + 1)
  BY <1>13, <1>14, <1>16, <1>17 DEF ToClose, t
<1> QED
  BY <1>6, <1>18 DEF V, c, t

LEMMA AsyncGood ==
  ASSUME NEW W, Good(W)
  PROVE  LET V == freeClientsInAsyncFreeQueue(W) IN Good(V) /\ Idles(W, V)
<1> DEFINE Close(A, c) == freeClient(ClearFlags(A, c, {"CLOSE_ASAP"}), c)
           N == Len(W.toclose)
           zero == W
           step(A, n) == Close(A, W.toclose[n])
           run[n \in 0..Len(W.toclose)] == IF n = 0 THEN zero ELSE step(run[n - 1], n)
           R == run[N]
           V == freeClientsInAsyncFreeQueue(W)
<1>0. GoodBut(W, {}, {}) /\ Closing(W)
  BY DEF Good
<1>1. V = [R EXCEPT !.toclose = Empty]
  BY DEF freeClientsInAsyncFreeQueue
<1>2. N \in Nat
  BY <1>0 DEF Closing
<1>3. ASSUME NEW A, NEW n \in 0..N - 1, ToClose(W, A, n)
      PROVE  ToClose(W, step(A, n + 1), n + 1)
  BY <1>0, <1>3, CloseOne
<1> HIDE DEF step, zero, R
<1>4. run = [n \in 0..N |-> IF n = 0 THEN zero ELSE step(run[n - 1], n)]
  <2> HIDE DEF N, zero, step
  <2> DEFINE P == {m \in Nat : \E f : f = [n \in 0..m |-> IF n = 0 THEN zero ELSE step(f[n - 1], n)]}
  <2>1. 0 \in P
    <3> DEFINE f == [n \in 0..0 |-> zero]
    <3>1. f = [n \in 0..0 |-> IF n = 0 THEN zero ELSE step(f[n - 1], n)]
      OBVIOUS
    <3> HIDE DEF f
    <3> QED
      BY <3>1
  <2>2. ASSUME NEW m \in Nat, m \in P PROVE m + 1 \in P
    <3>1. PICK f : f = [n \in 0..m |-> IF n = 0 THEN zero ELSE step(f[n - 1], n)]
      BY <2>2
    <3> DEFINE g == [n \in 0..m + 1 |-> IF n = m + 1 THEN step(f[m], n) ELSE f[n]]
    <3>2. \A n \in 0..m + 1 : g[n] = IF n = 0 THEN zero ELSE step(g[n - 1], n)
      <4> SUFFICES ASSUME NEW n \in 0..m + 1 PROVE g[n] = IF n = 0 THEN zero ELSE step(g[n - 1], n)
        OBVIOUS
      <4>1. CASE n = m + 1
        BY <4>1
      <4>2. CASE n # m + 1
        BY <3>1, <4>2
      <4> QED
        BY <4>1, <4>2
    <3>3. g = [n \in 0..m + 1 |-> IF n = 0 THEN zero ELSE step(g[n - 1], n)]
      BY <3>2
    <3> HIDE DEF g
    <3> QED
      BY <3>3
  <2>3. N \in P
    BY <1>2, <2>1, <2>2, NatSetInduction
  <2> QED
    BY <2>3 DEF N
<1> HIDE DEF run
<1>5. ToClose(W, zero, 0)
  <2> DEFINE t == W.toclose
  <2>1. t \in Seq(Clients) /\ \A d \in Clients : Contains(t, d) <=> "CLOSE_ASAP" \in W.cl[d].flags
    BY <1>0 DEF Closing
  <2>2. \A d \in Clients : Contains(t, d) <=> \E i \in 0 + 1..Len(t) : t[i] = d
    <3> HIDE DEF t
    <3> QED
      BY <2>1 DEF Contains
  <2> QED
    BY <1>0, <2>1, <2>2 DEF zero, ToClose
<1>6. ToClose(W, run[N], N)
  <2> HIDE DEF N, zero, step
  <2> DEFINE P == {n \in Nat : n <= N => ToClose(W, run[n], n)}
  <2>1. 0 \in P
    <3>1. run[0] = zero
      BY <1>2, <1>4
    <3> QED
      BY <3>1, <1>5
  <2>2. ASSUME NEW n \in Nat, n \in P PROVE n + 1 \in P
    <3> SUFFICES ASSUME n + 1 <= N PROVE ToClose(W, run[n + 1], n + 1)
      OBVIOUS
    <3>1. n \in 0..N - 1 /\ n <= N /\ (n + 1) - 1 = n
      BY <1>2
    <3>2. run[n + 1] = step(run[n], n + 1)
      BY <1>2, <1>4
    <3>3. ToClose(W, run[n], n)
      BY <2>2, <3>1
    <3> HIDE DEF P
    <3>4. ToClose(W, step(run[n], n + 1), n + 1)
      BY <1>3, <3>1, <3>3
    <3> QED
      BY <3>2, <3>4
  <2>3. N \in P
    BY <1>2, <2>1, <2>2, NatSetInduction
  <2> QED
    BY <1>2, <2>3
<1>7. ToClose(W, R, N)
  BY <1>6 DEF R
<1>8. \A d \in Clients : "CLOSE_ASAP" \notin R.cl[d].flags
  <2>1. N + 1..N = {}
    BY <1>2
  <2> QED
    BY <1>7, <2>1 DEF ToClose
<1>9. Shape(R) /\ Tables(R) /\ Queues(R) /\ Data(R, {})
  BY <1>7, GoodParts DEF ToClose
<1> HIDE DEF V
<1>10. /\ Shape(V) /\ V.cl = R.cl /\ V.dict = R.dict /\ V.blocking_keys = R.blocking_keys
       /\ V.watched_keys = R.watched_keys /\ V.channels = R.channels /\ V.patterns = R.patterns
       /\ V.ready = R.ready /\ V.unblocked = R.unblocked /\ V.link = R.link /\ V.counted = R.counted
       /\ V.toclose = Empty
  BY <1>1, <1>9 DEF Shape, Fields
<1>11. CoreBut(V, {})
  BY <1>7, <1>10
     DEF ToClose, GoodBut, CoreBut, Tables, Queues, Data, Pending, IsList, Fresh, ReadyDirty, KeysOf, WatchedOf, SubsOf
<1>12. GoodBut(V, {}, {})
  BY <1>7, <1>10, <1>11 DEF ToClose, GoodBut, Limit, getClientLimitClass, Subscribed
<1>13. Closing(V)
  <2>1. Empty \in Seq(Clients) /\ IsInjective(Empty) /\ \A d : ~Contains(Empty, d)
    BY DEF Empty, IsInjective, Contains
  <2> QED
    BY <1>8, <1>10, <2>1 DEF Closing
<1> QED
  BY <1>7, <1>10, <1>12, <1>13 DEF Good, Idles, ToClose, V

----------------------------------------------------------------------------
\* Time passes.
LEMMA ElapseGood ==
  ASSUME NEW W, NEW bs, NEW cs, GoodBut(W, bs, cs), NEW dt
  PROVE  GoodBut(Elapse(W, dt), bs, cs) /\ Idles(W, Elapse(W, dt))
<1> DEFINE aged(c) == [W.cl[c] EXCEPT !.idle = IF W.maxidletime = 0 THEN 0 ELSE Min({@ + dt, W.maxidletime + 1}),
                                      !.left = IF @ = Never THEN Never ELSE Max({@ - dt, 0}),
                                      !.soft = IF @ = Never THEN Never ELSE Min({@ + dt, SoftSeconds + 1})]
           new == [c \in Clients |-> IF ~W.cl[c].alive THEN W.cl[c] ELSE aged(c)]
           V == [W EXCEPT !.cl = new]
           Like(r, me) ==
             /\ DOMAIN r = Attributes /\ r.watched = me.watched /\ r.seen = me.seen /\ r.alive = me.alive
             /\ r.keys = me.keys /\ r.subs = me.subs /\ r.pats = me.pats /\ r.querybuf = me.querybuf
             /\ r.list = me.list /\ r.flags = me.flags /\ r.commands = me.commands
             /\ r.target = me.target /\ r.where = me.where /\ r.buf = me.buf /\ (~r.alive => r = me)
<1>1. Shape(W) /\ Tables(W) /\ Queues(W) /\ Data(W, bs)
      /\ \A c \in Clients : ClientOk(W.cl[c], c \in W.counted) /\ DOMAIN W.cl[c] = Attributes
  BY GoodParts
<1>2. Elapse(W, dt) = V
  BY DEF Elapse
<1>3. ASSUME NEW c \in Clients PROVE Like(new[c], W.cl[c])
  <2> DEFINE me == W.cl[c]
             a == IF W.maxidletime = 0 THEN 0 ELSE Min({me.idle + dt, W.maxidletime + 1})
             b == IF me.left = Never THEN Never ELSE Max({me.left - dt, 0})
             s == IF me.soft = Never THEN Never ELSE Min({me.soft + dt, SoftSeconds + 1})
             r == [me EXCEPT !.idle = a, !.left = b, !.soft = s]
  <2>0. new[c] = IF ~me.alive THEN me ELSE r
    OBVIOUS
  <2> HIDE DEF a, b, s, new
  <2>1. DOMAIN me = Attributes
    BY <1>1
  <2>2. CASE me.alive
    <3>1. /\ DOMAIN r = Attributes /\ r.watched = me.watched /\ r.seen = me.seen /\ r.alive = me.alive
          /\ r.keys = me.keys /\ r.subs = me.subs /\ r.pats = me.pats /\ r.querybuf = me.querybuf
          /\ r.list = me.list /\ r.flags = me.flags /\ r.commands = me.commands
          /\ r.target = me.target /\ r.where = me.where /\ r.buf = me.buf
      BY <2>1 DEF Attributes
    <3> HIDE DEF r
    <3> QED
      BY <2>0, <2>2, <3>1
  <2>3. CASE ~me.alive
    BY <2>0, <2>1, <2>3
  <2> QED
    BY <2>2, <2>3
<1> HIDE DEF new
<1>4. /\ Shape(V) /\ V.cl = new /\ V.dict = W.dict /\ V.blocking_keys = W.blocking_keys
      /\ V.watched_keys = W.watched_keys /\ V.channels = W.channels /\ V.patterns = W.patterns
      /\ V.ready = W.ready /\ V.unblocked = W.unblocked /\ V.link = W.link /\ V.counted = W.counted
      /\ V.toclose = W.toclose
  <2>1. DOMAIN new = Clients
    BY DEF new
  <2> QED
    BY <1>1, <1>3, <2>1 DEF Shape, Fields
<1> HIDE DEF V
<1>5. \A c \in Clients : Like(V.cl[c], W.cl[c])
  BY <1>3, <1>4
<1>6. \A c \in Clients : ClientOk(V.cl[c], c \in V.counted)
  BY <1>1, <1>4, <1>5 DEF ClientOk
<1>7. KeysOf(V) = KeysOf(W) /\ WatchedOf(V) = WatchedOf(W) /\ SubsOf(V) = SubsOf(W)
  BY <1>5 DEF KeysOf, WatchedOf, SubsOf
<1>8. \A d \in Clients : \A p : (p \in V.cl[d].pats) <=> Contains(V.patterns, <<d, p>>)
  BY <1>1, <1>4, <1>5 DEF Tables
<1>9. Tables(V)
  BY <1>1, <1>4, <1>7, <1>8 DEF Tables
<1>10. Queues(V)
  BY <1>1, <1>4, <1>5 DEF Queues
<1>11. Fresh(V) /\ ReadyDirty(V)
  BY <1>1, <1>4, <1>5 DEF Data, Fresh, ReadyDirty
<1>12. Data(V, bs)
  BY <1>1, <1>4, <1>11 DEF Data, Pending, IsList
<1>13. \A d \in Clients \ cs : Limit(V, d)
  BY <1>5 DEF GoodBut, Limit, getClientLimitClass, Subscribed
<1>14. Closing(W) => Closing(V)
  BY <1>4, <1>5, ClosingSame
<1> QED
  BY <1>2, <1>4, <1>6, <1>9, <1>10, <1>12, <1>13, <1>14 DEF GoodBut, CoreBut, Idles

----------------------------------------------------------------------------
\* The commands of the dataset: what one of them leaves in T of the dataset d.
ServerFields == {"dict", "expires", "other", "now", "dirty", "touched", "argv", "ready", "dels", "reply",
                 "master", "loading"}

\* A command q that starts on d, or has only answered.
Untouched(d, S, q) ==
    /\ DOMAIN S = ServerFields /\ S.dict = d /\ DOMAIN S.expires = {}
    /\ S.touched = {} /\ S.ready = Empty /\ S.dels = Empty /\ S.argv = q

\* Only touched keys change, and every list is an old one or ready.
Changes(d, T) ==
    /\ Values(T.dict) /\ Full(T.dict, {}) /\ T.ready \in Seq(Keys)
    /\ \A k : Contains(T.ready, k) => k \in T.touched
    /\ \A k : k \notin T.touched => /\ (k \in DOMAIN T.dict) <=> (k \in DOMAIN d)
                                    /\ k \in DOMAIN d => T.dict[k] = d[k]
    /\ \A k \in DOMAIN T.dict :
          T.dict[k].type = "list" => (k \in DOMAIN d /\ d[k].type = "list") \/ Contains(T.ready, k)

Commanded(d, T, q) == Changes(d, T) /\ T.dels = Empty /\ T.argv = q

LEMMA NothingReady == \A k : ~Contains(Empty, k)
BY DEF Contains, Empty

LEMMA UntouchedCommanded ==
  ASSUME NEW d, Values(d), Full(d, {}), NEW S, NEW q, Untouched(d, S, q)
  PROVE  Commanded(d, S, q)
BY NothingReady, EmptyIs DEF Untouched, Commanded, Changes

LEMMA AnswerUntouched ==
  ASSUME NEW d, NEW S, NEW q, Untouched(d, S, q), NEW r
  PROVE  Untouched(d, Answer(S, r), q)
BY DEF Untouched, Answer, ServerFields

LEMMA NotExpired ==
  ASSUME NEW d, NEW S, NEW q, Untouched(d, S, q), NEW k
  PROVE  expireIfNeeded(S, k) = S
BY DEF Untouched, expireIfNeeded, IsExpired, getExpire

LEMMA StartUntouched ==
  ASSUME NEW d, NEW q, NEW master
  PROVE  Untouched(d, Start(ServerOf(d, master), q), q)
<1> DEFINE A == ServerOf(d, master)
           S == Start(A, q)
<1>1. DOMAIN A = ServerFields /\ A.dict = d /\ A.expires = Empty
  BY DEF ServerOf, EmptyServer, ServerFields
<1> HIDE DEF A
<1>2. DOMAIN S = ServerFields /\ S.dict = d /\ S.expires = Empty
      /\ S.touched = {} /\ S.ready = <<>> /\ S.dels = <<>> /\ S.argv = q
  BY <1>1 DEF Start, ServerFields
<1> HIDE DEF S
<1>3. Empty = <<>> /\ DOMAIN Empty = {}
  BY DEF Empty
<1> QED
  BY <1>2, <1>3 DEF Untouched, S, A

\* A command that sets one key.
LEMMA OneChanges ==
  ASSUME NEW d, Values(d), Full(d, {}), NEW q, NEW k \in Keys, NEW val,
         DOMAIN val = {"type", "enc", "v"}, val.type \in {"string", "list"},
         val.type = "list" => val.v \in Some(Elems),
         NEW T, DOMAIN T.dict = DOMAIN d \cup {k}, T.dict[k] = val, \A x \in DOMAIN d : x # k => T.dict[x] = d[x],
         T.touched = {k}, T.ready = Empty \/ T.ready = <<k>>,
         val.type = "list" => (k \in DOMAIN d /\ d[k].type = "list") \/ T.ready = <<k>>,
         T.dels = Empty, T.argv = q
  PROVE  Commanded(d, T, q)
<1>1. Values(T.dict)
  BY DEF Values, Some
<1>2. Full(T.dict, {})
  BY DEF Full, Some
<1>3. T.ready \in Seq(Keys) /\ \A x : Contains(T.ready, x) => x = k
  <2>1. CASE T.ready = Empty
    <3>1. Empty \in Seq(Keys)
      BY EmptyIs
    <3> QED
      BY <2>1, <3>1, NothingReady
  <2>2. CASE T.ready = <<k>>
    <3>1. <<k>> \in Seq(Keys) /\ \A x : Contains(<<k>>, x) <=> x = k
      BY OneIs
    <3> QED
      BY <2>2, <3>1
  <2> QED
    BY <2>1, <2>2
<1>4. T.ready = <<k>> => Contains(T.ready, k)
  BY OneIs
<1> QED
  BY <1>1, <1>2, <1>3, <1>4 DEF Commanded, Changes

\* A command that takes keys away.
LEMMA GoneChanges ==
  ASSUME NEW d, Values(d), Full(d, {}), NEW q, NEW ks, NEW T,
         DOMAIN T.dict = DOMAIN d \ ks, \A x \in DOMAIN d : x \notin ks => T.dict[x] = d[x],
         \A k \in ks : k \in DOMAIN d => k \in T.touched, T.ready = Empty, T.dels = Empty, T.argv = q
  PROVE  Commanded(d, T, q)
<1>1. Values(T.dict) /\ Full(T.dict, {})
  BY DEF Values, Full
<1>2. T.ready \in Seq(Keys) /\ \A x : ~Contains(T.ready, x)
  BY NothingReady, EmptyIs
<1> QED
  BY <1>1, <1>2 DEF Commanded, Changes

LEMMA SetChanges ==
  ASSUME NEW d, Values(d), Full(d, {}), NEW q, NEW S, Untouched(d, S, q), NEW k \in Keys, NEW s, NEW flag
  PROVE  Commanded(d, setCommand(S, k, s, Nil, flag), q)
<1> DEFINE val == tryObjectEncoding(s)
           U == [setKey(S, k, val) EXCEPT !.dirty = @ + 1]
           T == setCommand(S, k, s, Nil, flag)
<1>1. expireIfNeeded(S, k) = S
  BY NotExpired
<1>2. DOMAIN val = {"type", "enc", "v"} /\ val.type = "string"
  BY DEF tryObjectEncoding, Str
<1> HIDE DEF val
<1>3. T = Answer(S, Nil) \/ T = Answer(U, OK)
  BY <1>1 DEF setCommand, setGenericCommand, val
<1>4. CASE T = Answer(S, Nil)
  BY <1>4, AnswerUntouched, UntouchedCommanded
<1>5. CASE T = Answer(U, OK)
  <2> DEFINE A == IF dbExists(S, k) THEN dbOverwrite(S, k, val) ELSE dbAdd(S, k, val)
             B == signalModifiedKey(removeExpire(A, k), k)
  <2>1. /\ DOMAIN A = ServerFields /\ DOMAIN A.dict = DOMAIN d \cup {k} /\ A.dict[k] = val
        /\ \A x \in DOMAIN d : x # k => A.dict[x] = d[x]
        /\ A.touched = {} /\ A.ready = Empty /\ A.dels = Empty /\ A.argv = q
    <3>1. CASE k \in DOMAIN d
      BY <3>1 DEF Untouched, dbExists, dbOverwrite, ServerFields
    <3>2. CASE k \notin DOMAIN d
      BY <3>2 DEF Untouched, dbExists, dbAdd, With, ServerFields
    <3> QED
      BY <3>1, <3>2
  <2>2. setKey(S, k, val) = B
    BY <1>1 DEF setKey
  <2> HIDE DEF A
  <2>3. /\ DOMAIN B = ServerFields /\ B.dict = A.dict /\ B.touched = {k} /\ B.ready = Empty /\ B.dels = Empty
        /\ B.argv = q
    BY <2>1 DEF removeExpire, signalModifiedKey, ServerFields
  <2> HIDE DEF B
  <2>4. /\ T.dict = A.dict /\ T.touched = {k} /\ T.ready = Empty /\ T.dels = Empty /\ T.argv = q
    BY <1>5, <2>2, <2>3 DEF Answer, ServerFields
  <2> HIDE DEF T
  <2>5. val.type = "string" /\ "string" # "list"
    BY <1>2
  <2> QED
    BY <1>2, <2>1, <2>4, <2>5, OneChanges DEF T
<1> QED
  BY <1>3, <1>4, <1>5

\* The value a command goes on with, if any.
Found(d, S, k, type, at, new, q) ==
    \/ Untouched(d, at.S, q) /\ at.o = Nil
    \/ at.S = S /\ k \in DOMAIN d /\ at.o = d[k] /\ d[k].type = type
    \/ at.S = S /\ k \notin DOMAIN d /\ at.o = new

LEMMA LookupFound ==
  ASSUME NEW d, NEW S, NEW q, Untouched(d, S, q), NEW k, NEW type, NEW absent
  PROVE  Found(d, S, k, type, Lookup(S, k, type, absent), Nil, q)
<1>1. expireIfNeeded(S, k) = S /\ S.dict = d
  BY NotExpired DEF Untouched
<1>2. Untouched(d, Answer(S, absent), q) /\ Untouched(d, Answer(S, WrongType), q)
  BY AnswerUntouched
<1> QED
  BY <1>1, <1>2 DEF Found, Lookup, LookupIn, Checked, dbExists

LEMMA LookupOrNewFound ==
  ASSUME NEW d, NEW S, NEW q, Untouched(d, S, q), NEW k, NEW type, NEW new
  PROVE  Found(d, S, k, type, LookupOrNew(S, k, type, new), new, q)
<1>1. expireIfNeeded(S, k) = S /\ S.dict = d
  BY NotExpired DEF Untouched
<1>2. Untouched(d, Answer(S, WrongType), q)
  BY AnswerUntouched
<1> QED
  BY <1>1, <1>2 DEF Found, LookupOrNew, LookupOrNewIn, Checked, dbExists

LEMMA GetChanges ==
  ASSUME NEW d, Values(d), Full(d, {}), NEW q, NEW S, Untouched(d, S, q), NEW k
  PROVE  Commanded(d, getGenericCommand(S, k), q)
<1> DEFINE at == Lookup(S, k, "string", Nil)
<1>1. Found(d, S, k, "string", at, Nil, q)
  BY LookupFound
<1>2. getGenericCommand(S, k) = Then(at, Answer(at.S, at.o.v))
  BY DEF getGenericCommand
<1> HIDE DEF at
<1>3. Untouched(d, at.S, q)
  BY <1>1 DEF Found
<1>4. Untouched(d, Answer(at.S, at.o.v), q)
  BY <1>3, AnswerUntouched
<1> QED
  BY <1>2, <1>3, <1>4, UntouchedCommanded DEF Then

\* What Changed leaves when k holds val.
Readied(d, A, q, ready) ==
    /\ DOMAIN A = ServerFields /\ A.dict = d /\ A.touched = {} /\ A.ready = ready /\ A.dels = Empty /\ A.argv = q

LEMMA UntouchedReadied == ASSUME NEW d, NEW S, NEW q, Untouched(d, S, q) PROVE Readied(d, S, q, Empty)
BY DEF Untouched, Readied

LEMMA AddChanges ==
  ASSUME NEW d, Values(d), Full(d, {}), NEW q, NEW k \in Keys, NEW val,
         DOMAIN val = {"type", "enc", "v"}, val.type \in {"string", "list"},
         val.type = "list" => val.v \in Some(Elems),
         NEW ready, ready \in {Empty, <<k>>}, NEW A, Readied(d, A, q, ready),
         val.type = "list" => (k \in DOMAIN d /\ d[k].type = "list") \/ ready = <<k>>,
         NEW n, NEW r
  PROVE  Commanded(d, Answer(Changed(dbAdd(A, k, val), k, n), r), q)
<1> DEFINE T == Answer(Changed(dbAdd(A, k, val), k, n), r)
<1>1. /\ DOMAIN A = ServerFields /\ A.dict = d /\ A.touched = {} /\ A.ready = ready /\ A.dels = Empty /\ A.argv = q
  BY DEF Readied
<1>2. /\ T.dict = With(d, k, val) /\ T.touched = {k} /\ T.ready = ready /\ T.dels = Empty /\ T.argv = q
  BY <1>1 DEF dbAdd, Changed, signalModifiedKey, Answer, ServerFields
<1> HIDE DEF T
<1>3. DOMAIN T.dict = DOMAIN d \cup {k} /\ T.dict[k] = val /\ \A x \in DOMAIN d : x # k => T.dict[x] = d[x]
  BY <1>2 DEF With
<1>4. ready = Empty \/ ready = <<k>>
  OBVIOUS
<1> QED
  BY <1>2, <1>3, <1>4, OneChanges DEF T

LEMMA IncrChanges ==
  ASSUME NEW d, Values(d), Full(d, {}), NEW q, NEW S, Untouched(d, S, q), NEW k \in Keys, NEW n
  PROVE  Commanded(d, incrDecrCommand(S, k, n), q)
<1> DEFINE at == LookupOrNew(S, k, "string", Str(Empty))
           old == getLongLongFromObject(at.o.v)
           val == createStringObjectFromLongLong(old + n)
           U == Answer(Changed(dbAdd(at.S, k, val), k, 1), old + n)
           T == incrDecrCommand(S, k, n)
<1>1. Found(d, S, k, "string", at, Str(Empty), q)
  BY LookupOrNewFound
<1>2. T = Then(at, Answer(at.S, Err)) \/ T = Then(at, U)
  BY DEF incrDecrCommand
<1>3. DOMAIN val = {"type", "enc", "v"} /\ val.type = "string"
  BY DEF createStringObjectFromLongLong, tryObjectEncoding, Str
<1> HIDE DEF at, val, T
<1>4. Untouched(d, at.S, q)
  BY <1>1 DEF Found
<1>5. Commanded(d, at.S, q) /\ Commanded(d, Answer(at.S, Err), q)
  BY <1>4, AnswerUntouched, UntouchedCommanded
<1>6. Commanded(d, U, q)
  <2>1. Empty \in {Empty, <<k>>} /\ Readied(d, at.S, q, Empty) /\ val.type \in {"string", "list"}
        /\ val.type # "list"
    BY <1>3, <1>4, UntouchedReadied
  <2> QED
    BY <1>3, <2>1, AddChanges
<1> QED
  BY <1>2, <1>5, <1>6 DEF Then, T

----------------------------------------------------------------------------
\* Lists.
ListOk(o) == DOMAIN o = {"type", "enc", "v"} /\ o.type = "list" /\ o.v \in Seq(Elems)

LEMMA PushOk ==
  ASSUME NEW o, ListOk(o), NEW e \in Elems, NEW where
  PROVE  ListOk(listTypePush(o, e, where)) /\ listTypePush(o, e, where).v # Empty
<1> DEFINE p == listTypeTryConversion(o, e)
           q == IF Len(p.v) >= ListMaxZiplist THEN listTypeConvert(p) ELSE p
           v == o.v
           w == IF where = "head" THEN <<e>> \o v ELSE Append(v, e)
           r == listTypePush(o, e, where)
<1>1. DOMAIN p = {"type", "enc", "v"} /\ p.type = "list" /\ p.v = v
  BY DEF listTypeTryConversion, listTypeConvert, ListOk
<1> HIDE DEF p
<1>2. DOMAIN q = {"type", "enc", "v"} /\ q.type = "list" /\ q.v = v
  BY <1>1 DEF listTypeConvert
<1>3. r = [q EXCEPT !.v = w]
  BY <1>2 DEF listTypePush, p
<1> HIDE DEF q
<1>4. w \in Seq(Elems) /\ w # Empty
  <2>1. v \in Seq(Elems)
    BY DEF ListOk
  <2> HIDE DEF v
  <2>2. <<e>> \o v \in Seq(Elems) /\ Len(<<e>> \o v) = Len(v) + 1 /\ Len(v) \in Nat
    BY <2>1
  <2>3. Append(v, e) \in Seq(Elems) /\ Append(v, e) # Empty
    BY <2>1, AppendContains
  <2>4. Len(Empty) = 0
    BY DEF Empty
  <2>5. <<e>> \o v # Empty
    BY <2>2, <2>4
  <2> QED
    BY <2>2, <2>3, <2>5
<1> HIDE DEF w, r
<1> QED
  BY <1>2, <1>3, <1>4 DEF ListOk, r

LEMMA PopOk ==
  ASSUME NEW o, ListOk(o), o.v # Empty, NEW where
  PROVE  ListOk(listTypePop(o, where)) /\ Popped(o, where) \in Elems
<1> DEFINE v == o.v
           w == IF where = "head" THEN Tail(v) ELSE Front(v)
<1>1. w \in Seq(Elems) /\ Head(v) \in Elems /\ Last(v) \in Elems
  <2>1. v \in Seq(Elems) /\ v # <<>>
    BY DEF ListOk, Empty
  <2> HIDE DEF v
  <2> QED
    BY <2>1 DEF Front, Last
<1> HIDE DEF w
<1>2. DOMAIN listTypePop(o, where) = {"type", "enc", "v"} /\ listTypePop(o, where).type = "list"
      /\ listTypePop(o, where).v = w
  BY DEF ListOk, listTypePop, w
<1>3. Popped(o, where) \in Elems
  BY <1>1 DEF Popped
<1> QED
  BY <1>1, <1>2, <1>3 DEF ListOk

Filled(o, n) == ListOk(o) /\ (n > 0 => o.v # Empty)

LEMMA PushAllOk ==
  ASSUME NEW o, ListOk(o), NEW es \in Some(Elems), NEW where
  PROVE  ListOk(listTypePushAll(o, es, where)) /\ listTypePushAll(o, es, where).v # Empty
<1> DEFINE N == Len(es)
           zero == o
           step(A, n) == listTypePush(A, es[n], where)
           run[n \in 0..Len(es)] == IF n = 0 THEN zero ELSE step(run[n - 1], n)
<1>1. listTypePushAll(o, es, where) = run[N]
  BY DEF listTypePushAll
<1>2. N \in Nat /\ N > 0 /\ \A n \in 1..N : es[n] \in Elems
  BY DEF Some, Empty
<1>3. N \in Nat
  BY <1>2
<1>4. ASSUME NEW A, NEW n \in 0..N - 1, Filled(A, n) PROVE Filled(step(A, n + 1), n + 1)
  <2>1. es[n + 1] \in Elems
    BY <1>2
  <2> QED
    BY <1>4, <2>1, PushOk DEF Filled
<1>5. Filled(zero, 0)
  BY DEF Filled
<1> HIDE DEF step, zero
<1>6. run = [n \in 0..N |-> IF n = 0 THEN zero ELSE step(run[n - 1], n)]
  <2> HIDE DEF N, zero, step
  <2> DEFINE P == {m \in Nat : \E f : f = [n \in 0..m |-> IF n = 0 THEN zero ELSE step(f[n - 1], n)]}
  <2>1. 0 \in P
    <3> DEFINE f == [n \in 0..0 |-> zero]
    <3>1. f = [n \in 0..0 |-> IF n = 0 THEN zero ELSE step(f[n - 1], n)]
      OBVIOUS
    <3> HIDE DEF f
    <3> QED
      BY <3>1
  <2>2. ASSUME NEW m \in Nat, m \in P PROVE m + 1 \in P
    <3>1. PICK f : f = [n \in 0..m |-> IF n = 0 THEN zero ELSE step(f[n - 1], n)]
      BY <2>2
    <3> DEFINE g == [n \in 0..m + 1 |-> IF n = m + 1 THEN step(f[m], n) ELSE f[n]]
    <3>2. \A n \in 0..m + 1 : g[n] = IF n = 0 THEN zero ELSE step(g[n - 1], n)
      <4> SUFFICES ASSUME NEW n \in 0..m + 1 PROVE g[n] = IF n = 0 THEN zero ELSE step(g[n - 1], n)
        OBVIOUS
      <4>1. CASE n = m + 1
        BY <4>1
      <4>2. CASE n # m + 1
        BY <3>1, <4>2
      <4> QED
        BY <4>1, <4>2
    <3>3. g = [n \in 0..m + 1 |-> IF n = 0 THEN zero ELSE step(g[n - 1], n)]
      BY <3>2
    <3> HIDE DEF g
    <3> QED
      BY <3>3
  <2>3. N \in P
    BY <1>3, <2>1, <2>2, NatSetInduction
  <2> QED
    BY <2>3 DEF N
<1> HIDE DEF run
<1>7. Filled(run[N], N)
  <2> HIDE DEF N, zero, step
  <2> DEFINE P == {n \in Nat : n <= N => Filled(run[n], n)}
  <2>1. 0 \in P
    <3>1. run[0] = zero
      BY <1>3, <1>6
    <3> QED
      BY <3>1, <1>5
  <2>2. ASSUME NEW n \in Nat, n \in P PROVE n + 1 \in P
    <3> SUFFICES ASSUME n + 1 <= N PROVE Filled(run[n + 1], n + 1)
      OBVIOUS
    <3>1. n \in 0..N - 1 /\ n <= N /\ (n + 1) - 1 = n
      BY <1>3
    <3>2. run[n + 1] = step(run[n], n + 1)
      BY <1>3, <1>6
    <3>3. Filled(run[n], n)
      BY <2>2, <3>1
    <3> HIDE DEF P
    <3>4. Filled(step(run[n], n + 1), n + 1)
      BY <1>4, <3>1, <3>3
    <3> QED
      BY <3>2, <3>4
  <2>3. N \in P
    BY <1>3, <2>1, <2>2, NatSetInduction
  <2> QED
    BY <1>3, <2>3
<1> QED
  BY <1>1, <1>2, <1>7 DEF Filled

LEMMA SignalReadied ==
  ASSUME NEW d, NEW S, NEW q, Readied(d, S, q, Empty), NEW k
  PROVE  Readied(d, signalListAsReady(S, k), q, <<k>>)
<1>1. Append(Empty, k) = <<k>>
  BY DEF Empty
<1> QED
  BY <1>1, NothingReady DEF Readied, signalListAsReady, ServerFields

LEMMA ListsOk ==
  ASSUME NEW d, Values(d), NEW k \in DOMAIN d, d[k].type = "list"
  PROVE  ListOk(d[k]) /\ (Full(d, {}) => d[k].v # Empty)
BY DEF Values, Full, ListOk

LEMMA PushChanges ==
  ASSUME NEW d, Values(d), Full(d, {}), NEW q, NEW S, Untouched(d, S, q), NEW k \in Keys,
         NEW es \in Some(Elems), NEW where
  PROVE  Commanded(d, pushGenericCommand(S, k, es, where), q)
<1> DEFINE at == LookupOrNew(S, k, "list", NewList)
           new == listTypePushAll(at.o, es, where)
           U == IF dbExists(at.S, k) THEN at.S ELSE signalListAsReady(at.S, k)
           ready == IF k \in DOMAIN d THEN Empty ELSE <<k>>
           V == Answer(Changed(dbAdd(U, k, new), k, Len(es)), Len(new.v))
<1>1. Found(d, S, k, "list", at, NewList, q)
  BY LookupOrNewFound
<1>2. pushGenericCommand(S, k, es, where) = Then(at, V)
  BY DEF pushGenericCommand
<1> HIDE DEF at
<1>3. Untouched(d, at.S, q)
  BY <1>1 DEF Found
<1>4. Commanded(d, at.S, q)
  BY <1>3, UntouchedCommanded
<1>5. ASSUME at.o # Nil PROVE Commanded(d, V, q)
  <2>1. ListOk(at.o)
    <3>1. CASE k \in DOMAIN d /\ at.o = d[k] /\ d[k].type = "list"
      BY <3>1, ListsOk
    <3>2. CASE at.o = NewList
      BY <3>2 DEF NewList, ListOk, Empty
    <3> QED
      BY <1>1, <1>5, <3>1, <3>2 DEF Found
  <2>2. DOMAIN new = {"type", "enc", "v"} /\ new.type \in {"string", "list"} /\ new.v \in Some(Elems)
    <3>1. ListOk(new) /\ new.v # Empty
      BY <2>1, PushAllOk
    <3> QED
      BY <3>1 DEF ListOk, Some
  <2> HIDE DEF new
  <2>3. Readied(d, at.S, q, Empty) /\ at.S.dict = d
    BY <1>3, UntouchedReadied DEF Untouched
  <2>4. ready \in {Empty, <<k>>} /\ Readied(d, U, q, ready)
    BY <2>3, SignalReadied DEF dbExists
  <2>5. (k \in DOMAIN d /\ d[k].type = "list") \/ ready = <<k>>
    BY <1>1, <1>5 DEF Found
  <2> HIDE DEF U, ready
  <2> QED
    BY <2>2, <2>4, <2>5, AddChanges
<1> QED
  BY <1>2, <1>4, <1>5 DEF Then

\* What the removal of an element leaves.
LEMMA StoreIs ==
  ASSUME NEW d, NEW S, NEW q, Untouched(d, S, q), NEW k, NEW val, ListOk(val), NEW n, NEW r
  PROVE  LET T == Answer(Changed(Store(S, k, val), k, n), r) IN
         /\ T.touched = {k} /\ T.ready = Empty /\ T.dels = Empty /\ T.argv = q
         /\ T.dict = IF val.v = Empty THEN Without(d, k) ELSE With(d, k, val)
<1>1. IsEmpty(val) <=> val.v = Empty
  <2> DEFINE v == val.v
  <2>1. v \in Seq(Elems) /\ val.type # "set"
    BY DEF ListOk
  <2>2. DOMAIN v = {} <=> v = Empty
    <3> HIDE DEF v
    <3> QED
      BY <2>1 DEF Empty
  <2> QED
    BY <2>1, <2>2 DEF IsEmpty
<1> DEFINE A == Store(S, k, val)
           T == Answer(Changed(A, k, n), r)
<1>2. /\ DOMAIN A = ServerFields /\ A.touched = {} /\ A.ready = Empty /\ A.dels = Empty /\ A.argv = q
      /\ A.dict = IF val.v = Empty THEN Without(d, k) ELSE With(d, k, val)
  BY <1>1 DEF Untouched, Store, dbDelete, dbAdd, ServerFields
<1> HIDE DEF A
<1>3. T.touched = {k} /\ T.ready = Empty /\ T.dels = Empty /\ T.argv = q /\ T.dict = A.dict
  BY <1>2 DEF Changed, signalModifiedKey, Answer, ServerFields
<1> QED
  BY <1>2, <1>3 DEF A

LEMMA PopChanges ==
  ASSUME NEW d, Values(d), Full(d, {}), NEW q, NEW S, Untouched(d, S, q), NEW k \in Keys, NEW where
  PROVE  Commanded(d, popGenericCommand(S, k, where), q)
<1> DEFINE at == Lookup(S, k, "list", Nil)
           val == listTypePop(at.o, where)
           V == Answer(Changed(Store(at.S, k, val), k, 1), Popped(at.o, where))
<1>1. Found(d, S, k, "list", at, Nil, q)
  BY LookupFound
<1>2. popGenericCommand(S, k, where) = Then(at, V)
  BY DEF popGenericCommand
<1> HIDE DEF at
<1>3. Untouched(d, at.S, q)
  BY <1>1 DEF Found
<1>4. Commanded(d, at.S, q)
  BY <1>3, UntouchedCommanded
<1>5. ASSUME at.o # Nil PROVE Commanded(d, V, q)
  <2>1. k \in DOMAIN d /\ at.o = d[k] /\ d[k].type = "list"
    BY <1>1, <1>5 DEF Found
  <2>2. ListOk(at.o) /\ at.o.v # Empty
    BY <2>1, ListsOk
  <2>3. ListOk(val)
    BY <2>2, PopOk
  <2> HIDE DEF val
  <2>4. /\ V.touched = {k} /\ V.ready = Empty /\ V.dels = Empty /\ V.argv = q
        /\ V.dict = IF val.v = Empty THEN Without(d, k) ELSE With(d, k, val)
    BY <1>3, <2>3, StoreIs
  <2> HIDE DEF V
  <2>5. CASE val.v = Empty
    <3>1. DOMAIN V.dict = DOMAIN d \ {k} /\ \A x \in DOMAIN d : x \notin {k} => V.dict[x] = d[x]
      BY <2>4, <2>5 DEF Without, WithoutAll
    <3> QED
      BY <2>4, <3>1, GoneChanges
  <2>6. CASE val.v # Empty
    <3>1. DOMAIN V.dict = DOMAIN d \cup {k} /\ V.dict[k] = val /\ \A x \in DOMAIN d : x # k => V.dict[x] = d[x]
      BY <2>4, <2>6 DEF With
    <3>2. DOMAIN val = {"type", "enc", "v"} /\ val.type \in {"string", "list"} /\ val.v \in Some(Elems)
      BY <2>3, <2>6 DEF ListOk, Some
    <3> QED
      BY <2>1, <2>4, <3>1, <3>2, OneChanges
  <2> QED
    BY <2>5, <2>6
<1> QED
  BY <1>2, <1>4, <1>5 DEF Then

\* An element pushed on dst, where a list or nothing is.
Handled(d, T, dst, q) ==
    /\ DOMAIN T = ServerFields /\ DOMAIN T.expires = {}
    /\ DOMAIN T.dict = DOMAIN d \cup {dst} /\ ListOk(T.dict[dst]) /\ T.dict[dst].v # Empty
    /\ \A x \in DOMAIN d : x # dst => T.dict[x] = d[x]
    /\ T.touched = {dst} /\ T.ready = IF dst \in DOMAIN d THEN Empty ELSE <<dst>>
    /\ T.dels = Empty /\ T.argv = q

LEMMA HandlePushIs ==
  ASSUME NEW d, NEW S, NEW q, Untouched(d, S, q), NEW dst, NEW e \in Elems, dst \in DOMAIN d => ListOk(d[dst])
  PROVE  Handled(d, rpoplpushHandlePush(S, dst, e), dst, q)
<1> DEFINE A == IF dbExists(S, dst) THEN S ELSE signalListAsReady(S, dst)
           o == IF dbExists(S, dst) THEN S.dict[dst] ELSE NewList
           val == listTypePush(o, e, "head")
           T == rpoplpushHandlePush(S, dst, e)
           ready == IF dst \in DOMAIN d THEN Empty ELSE <<dst>>
<1>1. T = Answer(signalModifiedKey(dbAdd(A, dst, val), dst), e)
  BY DEF rpoplpushHandlePush
<1>2. Readied(d, A, q, ready) /\ DOMAIN A.expires = {}
  <2>1. S.dict = d /\ Readied(d, S, q, Empty) /\ DOMAIN S.expires = {}
    BY UntouchedReadied DEF Untouched
  <2>2. DOMAIN signalListAsReady(S, dst).expires = {}
    BY <2>1 DEF signalListAsReady, Untouched, ServerFields
  <2> QED
    BY <2>1, <2>2, SignalReadied DEF dbExists
<1>3. ListOk(o)
  BY DEF dbExists, Untouched, NewList, ListOk, Empty
<1>4. ListOk(val) /\ val.v # Empty
  BY <1>3, PushOk
<1> HIDE DEF A, val, ready
<1>5. /\ DOMAIN T = ServerFields /\ DOMAIN T.expires = {} /\ T.dict = With(d, dst, val)
      /\ T.touched = {dst} /\ T.ready = ready /\ T.dels = Empty /\ T.argv = q
  BY <1>1, <1>2 DEF Readied, dbAdd, signalModifiedKey, Answer, ServerFields
<1>6. DOMAIN T.dict = DOMAIN d \cup {dst} /\ T.dict[dst] = val /\ \A x \in DOMAIN d : x # dst => T.dict[x] = d[x]
  BY <1>5 DEF With
<1> QED
  BY <1>4, <1>5, <1>6 DEF ready, Handled

LEMMA RotateChanges ==
  ASSUME NEW d, Values(d), Full(d, {}), NEW q, NEW S, Untouched(d, S, q), NEW src \in Keys, NEW dst \in Keys
  PROVE  Commanded(d, rpoplpushCommand(S, src, dst), q)
<1> DEFINE at == Lookup(S, src, "list", Nil)
           U == expireIfNeeded(at.S, dst)
           e == Popped(at.o, "tail")
           val == listTypePop(at.o, "tail")
           A == dbAdd(U, src, val)
           P == rpoplpushHandlePush(A, dst, e)
           V == Changed(Store(P, src, P.dict[src]), src, 1)
           Z == IF dbExists(U, dst) /\ U.dict[dst].type # "list" THEN Answer(U, WrongType) ELSE V
<1>1. Found(d, S, src, "list", at, Nil, q)
  BY LookupFound
<1>2. rpoplpushCommand(S, src, dst) = Then(at, Z)
  BY DEF rpoplpushCommand
<1> HIDE DEF at
<1>3. Untouched(d, at.S, q) /\ U = at.S
  <2>1. Untouched(d, at.S, q)
    BY <1>1 DEF Found
  <2> QED
    BY <2>1, NotExpired
<1>4. Commanded(d, at.S, q) /\ Commanded(d, Answer(at.S, WrongType), q)
  BY <1>3, AnswerUntouched, UntouchedCommanded
<1>5. ASSUME at.o # Nil, dst \in DOMAIN d => d[dst].type = "list" PROVE Commanded(d, V, q)
  <2>1. src \in DOMAIN d /\ at.o = d[src] /\ d[src].type = "list"
    BY <1>1, <1>5 DEF Found
  <2>2. ListOk(at.o) /\ at.o.v # Empty
    BY <2>1, ListsOk
  <2>3. ListOk(val) /\ e \in Elems
    BY <2>2, PopOk
  <2> HIDE DEF e, val, U
  <2> DEFINE b == With(d, src, val)
  <2>4. Untouched(b, A, q)
    BY <1>3 DEF Untouched, dbAdd, ServerFields
  <2>5. DOMAIN b = DOMAIN d /\ b[src] = val /\ \A x \in DOMAIN d : x # src => b[x] = d[x]
    BY <2>1 DEF With
  <2> HIDE DEF b, A
  <2>6. dst \in DOMAIN b => ListOk(b[dst])
    <3>1. CASE dst = src
      BY <2>3, <2>5, <3>1
    <3>2. ASSUME dst # src, dst \in DOMAIN b PROVE ListOk(b[dst])
      BY <1>5, <2>5, <3>2, ListsOk
    <3> QED
      BY <3>1, <3>2
  <2>7. /\ DOMAIN P = ServerFields /\ DOMAIN P.expires = {}
        /\ DOMAIN P.dict = DOMAIN b \cup {dst} /\ ListOk(P.dict[dst]) /\ P.dict[dst].v # Empty
        /\ \A x \in DOMAIN b : x # dst => P.dict[x] = b[x]
        /\ P.touched = {dst} /\ P.ready = IF dst \in DOMAIN b THEN Empty ELSE <<dst>>
        /\ P.dels = Empty /\ P.argv = q
    BY <2>3, <2>4, <2>6, HandlePushIs DEF Handled
  <2> HIDE DEF P
  <2> DEFINE p == P.dict
             w == p[src]
  <2>8. DOMAIN p = DOMAIN d \cup {dst} /\ ListOk(w) /\ (dst = src => w.v # Empty)
        /\ \A x \in DOMAIN d : x # src /\ x # dst => p[x] = d[x]
    <3>1. DOMAIN p = DOMAIN d \cup {dst} /\ \A x \in DOMAIN d : x # src /\ x # dst => p[x] = d[x]
      BY <2>5, <2>7
    <3>2. CASE dst = src
      BY <2>7, <3>1, <3>2
    <3>3. CASE dst # src
      BY <2>1, <2>3, <2>5, <2>7, <3>1, <3>3
    <3> QED
      BY <3>1, <3>2, <3>3
  <2>9. ListOk(p[dst]) /\ p[dst].v # Empty
    BY <2>7
  <2> DEFINE B == Store(P, src, w)
             z == B.dict
  <2>10. IsEmpty(w) <=> w.v = Empty
    <3> DEFINE v == w.v
    <3>1. v \in Seq(Elems) /\ w.type # "set"
      BY <2>8 DEF ListOk
    <3>2. DOMAIN v = {} <=> v = Empty
      <4> HIDE DEF v
      <4> QED
        BY <3>1 DEF Empty
    <3> QED
      BY <3>1, <3>2 DEF IsEmpty
  <2>11. /\ DOMAIN B = ServerFields /\ B.touched = {dst} /\ B.ready = P.ready /\ B.dels = Empty /\ B.argv = q
         /\ z = IF w.v = Empty THEN Without(p, src) ELSE With(p, src, w)
    BY <2>7, <2>10 DEF Store, dbDelete, dbAdd, ServerFields
  <2>12. V.touched = {dst, src} /\ V.ready = P.ready /\ V.dels = Empty /\ V.argv = q /\ V.dict = z
    <3>1. V = Changed(B, src, 1)
      OBVIOUS
    <3> HIDE DEF B, V
    <3> QED
      BY <2>11, <3>1 DEF Changed, signalModifiedKey, ServerFields
  <2>13. DOMAIN z \subseteq DOMAIN d \cup {dst} /\ \A x \in DOMAIN d \cup {dst} : x # src => x \in DOMAIN z /\ z[x] = p[x]
    <3>1. z = Without(p, src) \/ z = With(p, src, w)
      BY <2>11
    <3>2. src \in DOMAIN p /\ DOMAIN p = DOMAIN d \cup {dst}
      BY <2>1, <2>8
    <3> HIDE DEF z, p, w
    <3>3. CASE z = Without(p, src)
      BY <3>2, <3>3 DEF Without, WithoutAll
    <3>4. CASE z = With(p, src, w)
      BY <3>2, <3>4 DEF With
    <3> QED
      BY <3>1, <3>3, <3>4
  <2>14. src \in DOMAIN z => z[src] = w /\ w.v # Empty
    <3>1. z = IF w.v = Empty THEN Without(p, src) ELSE With(p, src, w)
      BY <2>11
    <3> HIDE DEF z, p, w
    <3>2. CASE w.v = Empty
      BY <3>1, <3>2 DEF Without, WithoutAll
    <3>3. CASE w.v # Empty
      BY <3>1, <3>3 DEF With
    <3> QED
      BY <3>2, <3>3
  <2> HIDE DEF V, B, z, p, w
  <2>15. ASSUME NEW x \in DOMAIN z
         PROVE  /\ x = src \/ x = dst => ListOk(z[x]) /\ z[x].v # Empty
                /\ x # src /\ x # dst => x \in DOMAIN d /\ z[x] = d[x]
    <3>1. CASE x = src
      BY <2>8, <2>9, <2>14, <3>1
    <3>2. CASE x # src /\ x = dst
      BY <2>9, <2>13, <3>2
    <3>3. CASE x # src /\ x # dst
      BY <2>8, <2>13, <3>3
    <3> QED
      BY <3>1, <3>2, <3>3
  <2>16. Values(z) /\ Full(z, {})
    <3>1. ASSUME NEW x \in DOMAIN z
          PROVE  /\ DOMAIN z[x] = {"type", "enc", "v"} /\ z[x].type \in {"string", "list"}
                 /\ z[x].type = "list" => z[x].v \in Seq(Elems) /\ z[x].v # Empty
      <4>1. CASE x = src \/ x = dst
        BY <2>15, <4>1 DEF ListOk
      <4>2. CASE x # src /\ x # dst
        BY <2>15, <4>2 DEF Values, Full
      <4> QED
        BY <4>1, <4>2
    <3> QED
      BY <3>1 DEF Values, Full
  <2>17. V.ready \in Seq(Keys) /\ \A x : Contains(V.ready, x) <=> x = dst /\ dst \notin DOMAIN d
    <3>1. CASE dst \in DOMAIN d
      BY <2>5, <2>7, <2>12, <3>1, NothingReady, EmptyIs
    <3>2. CASE dst \notin DOMAIN d
      BY <2>5, <2>7, <2>12, <3>2, OneIs
    <3> QED
      BY <3>1, <3>2
  <2>18. ASSUME NEW x, x \notin V.touched
         PROVE  ((x \in DOMAIN z) <=> (x \in DOMAIN d)) /\ (x \in DOMAIN d => z[x] = d[x])
    BY <2>8, <2>12, <2>13, <2>18
  <2>19. ASSUME NEW x \in DOMAIN z, z[x].type = "list"
         PROVE  (x \in DOMAIN d /\ d[x].type = "list") \/ Contains(V.ready, x)
    BY <1>5, <2>1, <2>15, <2>17, <2>19
  <2>20. \A x : Contains(V.ready, x) => x \in V.touched
    BY <2>12, <2>17
  <2>21. Changes(d, V)
    BY <2>12, <2>16, <2>17, <2>18, <2>19, <2>20 DEF Changes
  <2> QED
    BY <2>12, <2>21 DEF Commanded
<1>6. ASSUME at.o # Nil PROVE Commanded(d, Z, q)
  <2>1. at.S.dict = d
    BY <1>3 DEF Untouched
  <2>2. CASE dst \in DOMAIN d /\ d[dst].type # "list"
    <3>1. Z = Answer(at.S, WrongType)
      BY <1>3, <2>1, <2>2 DEF dbExists
    <3> QED
      BY <1>4, <3>1
  <2>3. CASE ~(dst \in DOMAIN d /\ d[dst].type # "list")
    <3>1. Z = V
      BY <1>3, <2>1, <2>3 DEF dbExists
    <3> HIDE DEF Z, V
    <3> QED
      BY <1>5, <1>6, <2>3, <3>1
  <2> QED
    BY <2>2, <2>3
<1> QED
  BY <1>2, <1>4, <1>6 DEF Then

LEMMA DelChanges ==
  ASSUME NEW d, Values(d), Full(d, {}), NEW q, NEW S, Untouched(d, S, q), NEW ks
  PROVE  Commanded(d, delCommand(S, ks), q)
<1> DEFINE gone == ToSet(ks) \cap DOMAIN S.dict
           T == delCommand(S, ks)
<1>1. /\ T.dict = WithoutAll(d, gone) /\ T.touched = gone /\ T.ready = Empty /\ T.dels = Empty /\ T.argv = q
  BY DEF Untouched, delCommand, Answer, ServerFields
<1> HIDE DEF T, gone
<1>2. DOMAIN T.dict = DOMAIN d \ gone /\ \A x \in DOMAIN d : x \notin gone => T.dict[x] = d[x]
  BY <1>1 DEF WithoutAll
<1> QED
  BY <1>1, <1>2, GoneChanges DEF T

LEMMA FlushChanges ==
  ASSUME NEW d, Values(d), Full(d, {}), NEW q, NEW S, Untouched(d, S, q)
  PROVE  Commanded(d, flushallCommand(S), q)
<1> DEFINE T == flushallCommand(S)
<1>1. /\ T.dict = Empty /\ T.touched = DOMAIN d /\ T.ready = Empty /\ T.dels = Empty /\ T.argv = q
  BY DEF Untouched, flushallCommand, emptyDb, Answer, ServerFields
<1> HIDE DEF T
<1>2. DOMAIN T.dict = DOMAIN d \ DOMAIN d
  BY <1>1 DEF Empty
<1>3. \A k \in DOMAIN d : k \in T.touched
  BY <1>1
<1>4. \A x \in DOMAIN d : x \notin DOMAIN d => T.dict[x] = d[x]
  OBVIOUS
<1> QED
  BY <1>1, <1>2, <1>3, <1>4, GoneChanges DEF T

\* The shapes of the commands.
LEMMA CommandIs ==
  ASSUME NEW q \in Command
  PROVE  /\ Name(q) = "SET" => q[2] \in Keys /\ q[4] = Nil
         /\ Name(q) \in {"GET", "INCRBY"} => q[2] \in Keys
         /\ Name(q) = "PUSH" => q[2] \in Keys /\ q[3] \in Some(Elems) /\ q[4] \in Where
         /\ Name(q) = "POP" => q[2] \in Keys /\ q[3] \in Where
         /\ Name(q) = "RPOPLPUSH" => q[2] \in Keys /\ q[3] \in Keys
         /\ Name(q) = "DEL" => q[2] \in Some(Keys)
         /\ Name(q) = "BPOP" => q[2] \in Some(Keys) /\ q[3] \in Where /\ q[4] \in Nat
         /\ Name(q) = "BRPOPLPUSH" => q[2] \in Keys /\ q[3] \in Keys /\ q[4] \in Nat
         /\ Name(q) = "WATCH" => q[2] \in Some(Keys)
         /\ Name(q) = "PUBLISH" => q[2] \in Channels
         /\ Name(q) = "SUBSCRIBE" => q[2] \in Some(Channels)
         /\ Name(q) = "UNSUBSCRIBE" => q[2] \in Seq(Channels)
         /\ Name(q) = "PSUBSCRIBE" => q[2] \in Some(DOMAIN Matches)
         /\ Name(q) = "PUNSUBSCRIBE" => q[2] \in Seq(DOMAIN Matches)
         /\ Name(q) = "KILL" => q[2] \in Clients
         /\ Name(q) \in OfDataset \cup {"BPOP", "BRPOPLPUSH", "WATCH", "PUBLISH", "SUBSCRIBE", "UNSUBSCRIBE",
                "PSUBSCRIBE", "PUNSUBSCRIBE", "KILL", "AUTH", "MULTI", "EXEC", "DISCARD", "UNWATCH", "QUIT", "BOGUS"}
<1>1. CASE q \in {"SET"} \X Keys \X Seq(Byte) \X {Nil} \X {"", "NX", "XX"}
  BY <1>1 DEF Name, OfDataset
<1>2. CASE q \in {"GET"} \X Keys
  BY <1>2 DEF Name, OfDataset
<1>3. CASE q \in {"INCRBY"} \X Keys \X Int
  BY <1>3 DEF Name, OfDataset
<1>4. CASE q \in {"PUSH"} \X Keys \X Some(Elems) \X Where
  BY <1>4 DEF Name, OfDataset
<1>5. CASE q \in {"POP"} \X Keys \X Where
  BY <1>5 DEF Name, OfDataset
<1>6. CASE q \in {"RPOPLPUSH"} \X Keys \X Keys
  BY <1>6 DEF Name, OfDataset
<1>7. CASE q \in {"DEL"} \X Some(Keys)
  BY <1>7 DEF Name, OfDataset
<1>8. CASE q \in {"BPOP"} \X Some(Keys) \X Where \X Nat
  BY <1>8 DEF Name, OfDataset
<1>9. CASE q \in {"BRPOPLPUSH"} \X Keys \X Keys \X Nat
  BY <1>9 DEF Name, OfDataset
<1>10. CASE q \in {"WATCH"} \X Some(Keys)
  BY <1>10 DEF Name, OfDataset
<1>11. CASE q \in {"PUBLISH"} \X Channels
  BY <1>11 DEF Name, OfDataset
<1>12. CASE q \in {"SUBSCRIBE"} \X Some(Channels)
  BY <1>12 DEF Name, OfDataset
<1>13. CASE q \in {"UNSUBSCRIBE"} \X Seq(Channels)
  BY <1>13 DEF Name, OfDataset
<1>14. CASE q \in {"PSUBSCRIBE"} \X Some(DOMAIN Matches)
  BY <1>14 DEF Name, OfDataset
<1>15. CASE q \in {"PUNSUBSCRIBE"} \X Seq(DOMAIN Matches)
  BY <1>15 DEF Name, OfDataset
<1>16. CASE q \in {"KILL"} \X Clients
  BY <1>16 DEF Name, OfDataset
<1>17. CASE q \in {"AUTH"} \X BOOLEAN
  BY <1>17 DEF Name, OfDataset
<1>18. CASE q \in {<<name>> : name \in {"FLUSHALL", "MULTI", "EXEC", "DISCARD", "UNWATCH", "QUIT", "BOGUS"}}
  BY <1>18 DEF Name, OfDataset
<1> QED
  BY <1>1, <1>2, <1>3, <1>4, <1>5, <1>6, <1>7, <1>8, <1>9, <1>10, <1>11, <1>12, <1>13, <1>14, <1>15, <1>16, <1>17, <1>18 DEF Command

LEMMA DatasetChanges ==
  ASSUME NEW d, Values(d), Full(d, {}), NEW q \in Command, Name(q) \in OfDataset
  PROVE  Commanded(d, Dataset(Start(ServerOf(d, TRUE), q), q), q)
<1> DEFINE S == Start(ServerOf(d, TRUE), q)
<1>1. Untouched(d, S, q)
  BY StartUntouched
<1> HIDE DEF S
<1>2. CASE Name(q) = "SET"
  <2>1. Dataset(S, q) = setCommand(S, q[2], q[3], Nil, q[5])
    BY <1>2, CommandIs DEF Dataset
  <2> QED
    BY <1>1, <1>2, <2>1, CommandIs, SetChanges DEF S
<1>3. CASE Name(q) = "GET"
  BY <1>1, <1>3, GetChanges DEF Dataset, S
<1>4. CASE Name(q) = "INCRBY"
  BY <1>1, <1>4, CommandIs, IncrChanges DEF Dataset, S
<1>5. CASE Name(q) = "PUSH"
  BY <1>1, <1>5, CommandIs, PushChanges DEF Dataset, S
<1>6. CASE Name(q) = "POP"
  BY <1>1, <1>6, CommandIs, PopChanges DEF Dataset, S
<1>7. CASE Name(q) = "RPOPLPUSH"
  BY <1>1, <1>7, CommandIs, RotateChanges DEF Dataset, S
<1>8. CASE Name(q) = "DEL"
  BY <1>1, <1>8, DelChanges DEF Dataset, S
<1>9. CASE Name(q) = "FLUSHALL"
  BY <1>1, <1>9, FlushChanges DEF Dataset, S
<1> QED
  BY <1>2, <1>3, <1>4, <1>5, <1>6, <1>7, <1>8, <1>9 DEF OfDataset

----------------------------------------------------------------------------
\* A command has written: the clients are where they were, some have become dirty.
Around(W, V) ==
    /\ Shape(V) /\ V.blocking_keys = W.blocking_keys /\ V.watched_keys = W.watched_keys
    /\ V.channels = W.channels /\ V.patterns = W.patterns /\ V.unblocked = W.unblocked
    /\ V.toclose = W.toclose /\ V.counted = W.counted
Dirtied(W, V) ==
    \A c \in Clients :
        \/ V.cl[c] = W.cl[c]
        \/ W.cl[c].alive /\ V.cl[c] = [W.cl[c] EXCEPT !.flags = W.cl[c].flags \cup {"DIRTY_CAS"}]
DirtyOn(V, ks) == \A c \in Clients : "DIRTY_CAS" \in V.cl[c].flags \/ V.cl[c].watched \cap ks = {}

LEMMA DirtiedIs ==
  ASSUME NEW W, Shape(W), NEW V, Dirtied(W, V), NEW c \in Clients
  PROVE  LET me == W.cl[c]
             r == V.cl[c]
         IN  /\ DOMAIN r = Attributes /\ r.alive = me.alive /\ r.authenticated = me.authenticated
             /\ r.querybuf = me.querybuf
             /\ r.commands = me.commands /\ r.keys = me.keys /\ r.left = me.left /\ r.target = me.target
             /\ r.where = me.where /\ r.watched = me.watched /\ r.seen = me.seen /\ r.subs = me.subs
             /\ r.pats = me.pats /\ r.buf = me.buf /\ r.list = me.list
             /\ r.flags \in {me.flags, me.flags \cup {"DIRTY_CAS"}} /\ (~me.alive => r = me)
BY DEF Dirtied, Shape, Attributes

LEMMA WroteGood ==
  ASSUME NEW W, NEW as, NEW cs, GoodBut(W, as, cs), NEW V, Around(W, V), Dirtied(W, V), NEW ks, DirtyOn(V, ks),
         NEW bs, Values(V.dict), Full(V.dict, bs), V.ready \in Seq(Keys), V.link \in Seq(Command),
         \A k : k \notin ks => ((k \in DOMAIN V.dict) <=> (k \in DOMAIN W.dict)),
         \A k : k \notin ks => (k \in DOMAIN W.dict => V.dict[k] = W.dict[k]),
         \A k : Contains(V.ready, k) => Contains(W.ready, k) \/ k \in ks,
         Pending(V, bs)
  PROVE  GoodBut(V, bs, cs) /\ Quiet(W, V)
<1>1. Shape(W) /\ Tables(W) /\ Queues(W) /\ Data(W, as) /\ Shape(V)
  BY GoodParts DEF Around
<1>2. \A c \in Clients : V.cl[c].keys = W.cl[c].keys /\ V.cl[c].watched = W.cl[c].watched
                         /\ V.cl[c].subs = W.cl[c].subs /\ V.cl[c].pats = W.cl[c].pats
                         /\ V.cl[c].seen = W.cl[c].seen
                         /\ V.cl[c].flags \in {W.cl[c].flags, W.cl[c].flags \cup {"DIRTY_CAS"}}
  BY <1>1, DirtiedIs
<1>3. ASSUME NEW c \in Clients PROVE ClientOk(V.cl[c], c \in V.counted)
  <2>1. ClientOk(W.cl[c], c \in W.counted) /\ V.counted = W.counted
    BY GoodParts DEF Around
  <2> DEFINE me == W.cl[c]
             r == V.cl[c]
  <2>2. /\ r.alive = me.alive /\ r.querybuf = me.querybuf
        /\ r.commands = me.commands /\ r.keys = me.keys /\ r.target = me.target
        /\ r.where = me.where /\ r.watched = me.watched /\ r.seen = me.seen /\ r.subs = me.subs
        /\ r.pats = me.pats /\ r.buf = me.buf /\ r.list = me.list
        /\ r.flags \in {me.flags, me.flags \cup {"DIRTY_CAS"}} /\ (~me.alive => r = me)
    BY <1>1, DirtiedIs
  <2> HIDE DEF me, r
  <2>3. r.flags \subseteq AllFlags /\ ("BLOCKED" \in r.flags <=> "BLOCKED" \in me.flags)
    BY <2>1, <2>2 DEF ClientOk, AllFlags, me
  <2>4. ClientOk(r, c \in W.counted)
    BY <2>1, <2>2, <2>3 DEF ClientOk, me
  <2> QED
    BY <2>1, <2>4 DEF r
<1>4. Tables(V)
  <2>1. KeysOf(V) = KeysOf(W) /\ WatchedOf(V) = WatchedOf(W) /\ SubsOf(V) = SubsOf(W)
    BY <1>2 DEF KeysOf, WatchedOf, SubsOf
  <2>2. \A c \in Clients : \A p : (p \in V.cl[c].pats) <=> Contains(V.patterns, <<c, p>>)
    BY <1>1, <1>2 DEF Tables, Around
  <2> QED
    BY <1>1, <2>1, <2>2 DEF Tables, Around
<1>5. Queues(V)
  <2>1. \A c \in Clients : "UNBLOCKED" \in V.cl[c].flags => "UNBLOCKED" \in W.cl[c].flags
    BY <1>2
  <2> QED
    BY <1>1, <2>1 DEF Queues, Around
<1>6. Fresh(V)
  <2> SUFFICES ASSUME NEW c \in Clients, "DIRTY_CAS" \notin V.cl[c].flags, NEW k \in V.cl[c].watched
               PROVE  Content(V.dict, k) = V.cl[c].seen[k]
    BY DEF Fresh
  <2>1. k \notin ks
    BY DEF DirtyOn
  <2>2. Content(V.dict, k) = Content(W.dict, k)
    BY <2>1 DEF Content
  <2>3. "DIRTY_CAS" \notin W.cl[c].flags
    BY <1>2
  <2>4. Content(W.dict, k) = W.cl[c].seen[k]
    BY <1>1, <1>2, <2>3 DEF Data, Fresh
  <2> QED
    BY <1>2, <2>2, <2>4
<1>7. ReadyDirty(V)
  <2> SUFFICES ASSUME NEW c \in Clients, "DIRTY_CAS" \notin V.cl[c].flags, NEW k \in V.cl[c].watched
               PROVE  ~Contains(V.ready, k)
    BY DEF ReadyDirty
  <2>1. k \notin ks
    BY DEF DirtyOn
  <2>2. ~Contains(W.ready, k)
    BY <1>1, <1>2 DEF Data, ReadyDirty
  <2> QED
    BY <2>1, <2>2
<1>8. Data(V, bs)
  BY <1>6, <1>7 DEF Data
<1>9. CoreBut(V, bs)
  BY <1>1, <1>3, <1>4, <1>5, <1>8 DEF CoreBut
<1>10. ASSUME NEW c \in Clients \ cs PROVE Limit(V, c)
  <2>1. Limit(W, c)
    BY DEF GoodBut
  <2>2. V.cl[c].list = W.cl[c].list
    BY <1>1, DirtiedIs
  <2>3. W.cl[c].flags \cap {"CLOSE_ASAP", "CLOSE_AFTER_REPLY"} \subseteq V.cl[c].flags
    BY <1>2
  <2> QED
    BY <1>2, <2>1, <2>2, <2>3, LimitSame
<1>11. Quiet(W, V)
  <2>1. \A d \in Clients :
          /\ V.cl[d].keys = W.cl[d].keys /\ V.cl[d].alive = W.cl[d].alive
          /\ V.cl[d].querybuf = W.cl[d].querybuf
    BY <1>1, DirtiedIs
  <2>2. \A d \in Clients : /\ "BLOCKED" \in V.cl[d].flags <=> "BLOCKED" \in W.cl[d].flags
                           /\ "CLOSE_ASAP" \in V.cl[d].flags <=> "CLOSE_ASAP" \in W.cl[d].flags
    BY <1>2
  <2>3. Closing(W) => Closing(V)
    BY <2>2, ClosingSame DEF Around
  <2> QED
    BY <2>1, <2>2, <2>3 DEF Quiet, Around
<1> QED
  BY <1>9, <1>10, <1>11 DEF GoodBut

\* Some clients become dirty.
LEMMA DirtyIs ==
  ASSUME NEW W, Shape(W), NEW ds, \A c \in ds : c \in Clients /\ W.cl[c].alive
  PROVE  LET V == Dirty(W, ds) IN
         /\ Around(W, V) /\ Dirtied(W, V) /\ V.dict = W.dict /\ V.ready = W.ready /\ V.link = W.link
         /\ \A c \in ds : "DIRTY_CAS" \in V.cl[c].flags
<1> DEFINE f == [c \in Clients |-> IF c \in ds THEN [W.cl[c] EXCEPT !.flags = @ \cup {"DIRTY_CAS"}] ELSE W.cl[c]]
           V == Dirty(W, ds)
<1>1. V = [W EXCEPT !.cl = f]
  BY DEF Dirty
<1>2. DOMAIN f = Clients /\ \A c \in Clients : f[c] = IF c \in ds
          THEN [W.cl[c] EXCEPT !.flags = W.cl[c].flags \cup {"DIRTY_CAS"}] ELSE W.cl[c]
  OBVIOUS
<1>3. \A c \in Clients : DOMAIN f[c] = Attributes
  BY <1>2 DEF Shape
<1>4. \A c \in ds : "DIRTY_CAS" \in f[c].flags
  BY <1>2 DEF Shape, Attributes
<1> HIDE DEF f, V
<1>5. /\ DOMAIN V = Fields /\ V.cl = f /\ V.dict = W.dict /\ V.ready = W.ready /\ V.link = W.link
      /\ V.blocking_keys = W.blocking_keys /\ V.watched_keys = W.watched_keys
      /\ V.channels = W.channels /\ V.patterns = W.patterns /\ V.unblocked = W.unblocked
      /\ V.toclose = W.toclose /\ V.counted = W.counted
  BY <1>1 DEF Shape, Fields
<1>6. Around(W, V)
  BY <1>2, <1>3, <1>5 DEF Around, Shape
<1>7. Dirtied(W, V)
  BY <1>2, <1>5 DEF Dirtied
<1> QED
  BY <1>4, <1>5, <1>6, <1>7 DEF V

\* The watchers of ks are told of a dataset d.
Rewritten(W, d) == [W EXCEPT !.dict = d]

LEMMA TouchIs ==
  ASSUME NEW W, NEW as, NEW cs, GoodBut(W, as, cs), NEW d, NEW ks
  PROVE  LET V == touchWatchedKey(Rewritten(W, d), ks) IN
         /\ Around(W, V) /\ Dirtied(W, V) /\ DirtyOn(V, ks) /\ V.dict = d /\ V.ready = W.ready /\ V.link = W.link
<1> DEFINE A == Rewritten(W, d)
           ds == {c \in Clients : \E k \in ks \cap DOMAIN A.watched_keys : Contains(A.watched_keys[k], c)}
           V == touchWatchedKey(A, ks)
<1>1. Shape(W) /\ Tables(W)
  BY GoodParts
<1>2. /\ Shape(A) /\ A.cl = W.cl /\ A.dict = d /\ A.ready = W.ready /\ A.link = W.link
      /\ A.blocking_keys = W.blocking_keys /\ A.watched_keys = W.watched_keys
      /\ A.channels = W.channels /\ A.patterns = W.patterns /\ A.unblocked = W.unblocked
      /\ A.toclose = W.toclose /\ A.counted = W.counted
  BY <1>1 DEF Shape, Fields, Rewritten
<1>3. V = Dirty(A, ds)
  BY DEF touchWatchedKey
<1> HIDE DEF A
<1>4. \A c \in Clients : \A k : (k \in DOMAIN W.watched_keys /\ Contains(W.watched_keys[k], c)) <=> k \in W.cl[c].watched
  BY <1>1 DEF Tables, IndexOk, WatchedOf
<1>5. \A c \in Clients : c \in ds <=> W.cl[c].watched \cap ks # {}
  BY <1>2, <1>4
<1>6. \A c \in ds : c \in Clients /\ A.cl[c].alive
  BY <1>2, <1>5, NobodyIs
<1> HIDE DEF ds, V
<1>7. /\ Around(A, V) /\ Dirtied(A, V) /\ V.dict = A.dict /\ V.ready = A.ready /\ V.link = A.link
      /\ \A c \in ds : "DIRTY_CAS" \in V.cl[c].flags
  BY <1>2, <1>3, <1>6, DirtyIs
<1>8. Around(W, V) /\ Dirtied(W, V)
  BY <1>2, <1>7 DEF Around, Dirtied
<1>9. DirtyOn(V, ks)
  <2> SUFFICES ASSUME NEW c \in Clients, V.cl[c].watched \cap ks # {} PROVE "DIRTY_CAS" \in V.cl[c].flags
    BY DEF DirtyOn
  <2>1. V.cl[c].watched = W.cl[c].watched
    BY <1>1, <1>8, DirtiedIs
  <2> QED
    BY <1>5, <1>7, <2>1
<1> QED
  BY <1>2, <1>7, <1>8, <1>9 DEF V, A

----------------------------------------------------------------------------
\* Keys are signalled as ready.
Signalled(U, A, s, n) ==
    /\ Around(U, A) /\ A.cl = U.cl /\ A.dict = U.dict /\ A.link = U.link /\ A.ready \in Seq(Keys)
    /\ \A k : Contains(A.ready, k) <=>
          (Contains(U.ready, k) \/ (k \in DOMAIN U.blocking_keys /\ \E i \in 1..n : s[i] = k))

LEMMA SignalIs ==
  ASSUME NEW W, Shape(W), W.ready \in Seq(Keys), NEW k \in Keys
  PROVE  LET V == SignalReady(W, k) IN
         /\ Around(W, V) /\ V.cl = W.cl /\ V.dict = W.dict /\ V.link = W.link /\ V.ready \in Seq(Keys)
         /\ \A x : Contains(V.ready, x) <=> Contains(W.ready, x) \/ (x = k /\ k \in DOMAIN W.blocking_keys)
         /\ Len(V.ready) <= Len(W.ready) + 1
<1> DEFINE r == W.ready
           V == SignalReady(W, k)
<1>1. /\ Append(r, k) \in Seq(Keys) /\ Len(Append(r, k)) = Len(r) + 1 /\ Len(r) \in Nat
      /\ \A x : Contains(Append(r, k), x) <=> Contains(r, x) \/ x = k
  <2> HIDE DEF r
  <2>1. r \in Seq(Keys)
    BY DEF r
  <2>2. Len(r) \in Nat
    BY <2>1
  <2> QED
    BY <2>1, <2>2, AppendContains
<1>2. CASE k \in DOMAIN W.blocking_keys /\ ~Contains(r, k)
  <2> DEFINE u == Append(r, k)
  <2>1. V = [W EXCEPT !.ready = u]
    BY <1>2 DEF SignalReady
  <2> HIDE DEF u, V
  <2>2. /\ Around(W, V) /\ V.cl = W.cl /\ V.dict = W.dict /\ V.link = W.link /\ V.ready = u
    BY <2>1 DEF Around, Shape, Fields
  <2> QED
    BY <1>1, <1>2, <2>2 DEF u, V
<1>3. CASE ~(k \in DOMAIN W.blocking_keys /\ ~Contains(r, k))
  <2>1. V = W
    BY <1>3 DEF SignalReady
  <2> QED
    BY <1>1, <1>3, <2>1 DEF Around
<1> QED
  BY <1>2, <1>3

SignalEach(U, s) ==
    LET run[n \in 0..Len(s)] == IF n = 0 THEN U ELSE SignalReady(run[n - 1], s[n]) IN run[Len(s)]

LEMMA SignalAll ==
  ASSUME NEW U, Shape(U), U.ready \in Seq(Keys), NEW s \in Seq(Keys)
  PROVE  Signalled(U, SignalEach(U, s), s, Len(s))
<1> DEFINE N == Len(s)
           zero == U
           step(A, n) == SignalReady(A, s[n])
           run[n \in 0..Len(s)] == IF n = 0 THEN zero ELSE step(run[n - 1], n)
<1>1. SignalEach(U, s) = run[N]
  BY DEF SignalEach
<1>2. N \in Nat
  OBVIOUS
<1>3. ASSUME NEW A, NEW n \in 0..N - 1, Signalled(U, A, s, n) PROVE Signalled(U, step(A, n + 1), s, n + 1)
  <2> DEFINE B == step(A, n + 1)
  <2>1. n + 1 \in 1..N /\ s[n + 1] \in Keys /\ B = SignalReady(A, s[n + 1])
    BY <1>2
  <2>2. Shape(A) /\ A.ready \in Seq(Keys) /\ A.blocking_keys = U.blocking_keys
    BY <1>3 DEF Signalled, Around
  <2>3. /\ Around(A, B) /\ B.cl = A.cl /\ B.dict = A.dict /\ B.link = A.link /\ B.ready \in Seq(Keys)
        /\ \A x : Contains(B.ready, x) <=> Contains(A.ready, x) \/ (x = s[n + 1] /\ s[n + 1] \in DOMAIN A.blocking_keys)
    BY <2>1, <2>2, SignalIs
  <2> HIDE DEF B
  <2>4. \A k : (\E i \in 1..n + 1 : s[i] = k) <=> (\E i \in 1..n : s[i] = k) \/ s[n + 1] = k
    <3>1. \A i : i \in 1..n + 1 <=> i \in 1..n \/ i = n + 1
      BY <1>2
    <3> QED
      BY <3>1
  <2>5. \A k : Contains(B.ready, k) <=>
          (Contains(U.ready, k) \/ (k \in DOMAIN U.blocking_keys /\ \E i \in 1..n + 1 : s[i] = k))
    BY <1>3, <2>2, <2>3, <2>4 DEF Signalled
  <2> QED
    BY <1>3, <2>3, <2>5 DEF Signalled, Around, B
<1>4. Signalled(U, zero, s, 0)
  BY DEF Signalled, Around
<1> HIDE DEF step, zero
<1>5. run = [n \in 0..N |-> IF n = 0 THEN zero ELSE step(run[n - 1], n)]
  <2> HIDE DEF N, zero, step
  <2> DEFINE P == {m \in Nat : \E f : f = [n \in 0..m |-> IF n = 0 THEN zero ELSE step(f[n - 1], n)]}
  <2>1. 0 \in P
    <3> DEFINE f == [n \in 0..0 |-> zero]
    <3>1. f = [n \in 0..0 |-> IF n = 0 THEN zero ELSE step(f[n - 1], n)]
      OBVIOUS
    <3> HIDE DEF f
    <3> QED
      BY <3>1
  <2>2. ASSUME NEW m \in Nat, m \in P PROVE m + 1 \in P
    <3>1. PICK f : f = [n \in 0..m |-> IF n = 0 THEN zero ELSE step(f[n - 1], n)]
      BY <2>2
    <3> DEFINE g == [n \in 0..m + 1 |-> IF n = m + 1 THEN step(f[m], n) ELSE f[n]]
    <3>2. \A n \in 0..m + 1 : g[n] = IF n = 0 THEN zero ELSE step(g[n - 1], n)
      <4> SUFFICES ASSUME NEW n \in 0..m + 1 PROVE g[n] = IF n = 0 THEN zero ELSE step(g[n - 1], n)
        OBVIOUS
      <4>1. CASE n = m + 1
        BY <4>1
      <4>2. CASE n # m + 1
        BY <3>1, <4>2
      <4> QED
        BY <4>1, <4>2
    <3>3. g = [n \in 0..m + 1 |-> IF n = 0 THEN zero ELSE step(g[n - 1], n)]
      BY <3>2
    <3> HIDE DEF g
    <3> QED
      BY <3>3
  <2>3. N \in P
    BY <1>2, <2>1, <2>2, NatSetInduction
  <2> QED
    BY <2>3 DEF N
<1> HIDE DEF run
<1>6. Signalled(U, run[N], s, N)
  <2> HIDE DEF N, zero, step
  <2> DEFINE P == {n \in Nat : n <= N => Signalled(U, run[n], s, n)}
  <2>1. 0 \in P
    <3>1. run[0] = zero
      BY <1>2, <1>5
    <3> QED
      BY <3>1, <1>4
  <2>2. ASSUME NEW n \in Nat, n \in P PROVE n + 1 \in P
    <3> SUFFICES ASSUME n + 1 <= N PROVE Signalled(U, run[n + 1], s, n + 1)
      OBVIOUS
    <3>1. n \in 0..N - 1 /\ n <= N /\ (n + 1) - 1 = n
      BY <1>2
    <3>2. run[n + 1] = step(run[n], n + 1)
      BY <1>2, <1>5
    <3>3. Signalled(U, run[n], s, n)
      BY <2>2, <3>1
    <3> HIDE DEF P
    <3>4. Signalled(U, step(run[n], n + 1), s, n + 1)
      BY <1>3, <3>1, <3>3
    <3> QED
      BY <3>2, <3>4
  <2>3. N \in P
    BY <1>2, <2>1, <2>2, NatSetInduction
  <2> QED
    BY <1>2, <2>3
<1> QED
  BY <1>1, <1>6

----------------------------------------------------------------------------
\* A command of the dataset.
Linked(A, x) == [A EXCEPT !.link = A.link \o x]

LEMMA ToldGood ==
  ASSUME NEW W, NEW cs, GoodBut(W, {}, cs), NEW q \in Command, NEW T, Commanded(W.dict, T, q)
  PROVE  GoodBut(Told(W, T), {}, cs) /\ Quiet(W, Told(W, T))
<1> DEFINE U == touchWatchedKey(Rewritten(W, T.dict), T.touched)
           A == SignalEach(U, T.ready)
           x == Propagated(T)
           V == Linked(A, x)
<1>1. Told(W, T) = V
  BY DEF Told, SignalEach, Rewritten, Linked
<1>2. /\ Around(W, U) /\ Dirtied(W, U) /\ DirtyOn(U, T.touched) /\ U.dict = T.dict /\ U.ready = W.ready
      /\ U.link = W.link
  BY TouchIs
<1>3. /\ Shape(W) /\ Data(W, {}) /\ Shape(U) /\ W.ready \in Seq(Keys) /\ Changes(W.dict, T) /\ T.ready \in Seq(Keys)
  BY <1>2, GoodParts DEF Data, Around, Commanded, Changes
<1> HIDE DEF U
<1>4. Signalled(U, A, T.ready, Len(T.ready))
  BY <1>2, <1>3, SignalAll
<1>5. x \in Seq(Command)
  <2>1. T.dels = <<>> /\ T.argv \in Command
    BY DEF Commanded, Empty
  <2>2. <<T.argv>> \in Seq(Command) /\ <<>> \in Seq(Command)
    BY <2>1
  <2>3. \A y \in Seq(Command) : <<>> \o y \in Seq(Command)
    OBVIOUS
  <2> QED
    BY <2>1, <2>2, <2>3 DEF Propagated
<1> HIDE DEF A, x, V
<1>6. V.link \in Seq(Command)
  <2> DEFINE l == A.link
  <2>1. l \in Seq(Command)
    BY <1>2, <1>3, <1>4 DEF Signalled, Data
  <2>2. V.link = l \o x
    BY <1>4 DEF Signalled, Around, Shape, Fields, V, Linked
  <2> HIDE DEF l
  <2> QED
    BY <1>5, <2>1, <2>2
<1>7. /\ Around(A, V) /\ V.cl = A.cl /\ V.dict = A.dict /\ V.ready = A.ready
  BY <1>4 DEF Signalled, Around, Shape, Fields, V, Linked
<1>8. /\ Around(W, V) /\ V.cl = U.cl /\ V.dict = T.dict /\ V.ready = A.ready /\ V.ready \in Seq(Keys)
  BY <1>2, <1>4, <1>7 DEF Signalled, Around
<1>9. Dirtied(W, V) /\ DirtyOn(V, T.touched)
  BY <1>2, <1>8 DEF Dirtied, DirtyOn
<1>10. \A k : Contains(V.ready, k) <=>
          (Contains(W.ready, k) \/ (k \in DOMAIN W.blocking_keys /\ Contains(T.ready, k)))
  <2>1. \A k : Contains(T.ready, k) <=> \E i \in 1..Len(T.ready) : T.ready[i] = k
    BY DEF Contains
  <2>2. U.ready = W.ready /\ U.blocking_keys = W.blocking_keys /\ V.ready = A.ready
    BY <1>2, <1>8 DEF Around
  <2> QED
    BY <1>4, <2>1, <2>2 DEF Signalled
<1>11. \A k : Contains(V.ready, k) => Contains(W.ready, k) \/ k \in T.touched
  BY <1>3, <1>10 DEF Changes
<1>12. Pending(V, {})
  <2> SUFFICES ASSUME NEW k \in DOMAIN V.blocking_keys, IsList(V, k) PROVE Contains(V.ready, k)
    BY DEF Pending
  <2>1. k \in DOMAIN W.blocking_keys /\ k \in DOMAIN T.dict /\ T.dict[k].type = "list"
    BY <1>8 DEF Around, IsList
  <2>2. CASE Contains(T.ready, k)
    BY <1>10, <2>1, <2>2
  <2>3. CASE k \in DOMAIN W.dict /\ W.dict[k].type = "list"
    <3>1. Contains(W.ready, k)
      BY <1>3, <2>1, <2>3 DEF Data, Pending, IsList
    <3> QED
      BY <1>10, <3>1
  <2> QED
    BY <1>3, <2>1, <2>2, <2>3 DEF Changes
<1>13. Values(V.dict) /\ Full(V.dict, {})
  BY <1>3, <1>8 DEF Changes
<1>14. \A k : k \notin T.touched => ((k \in DOMAIN V.dict) <=> (k \in DOMAIN W.dict))
  BY <1>3, <1>8 DEF Changes
<1>15. \A k : k \notin T.touched => (k \in DOMAIN W.dict => V.dict[k] = W.dict[k])
  BY <1>3, <1>8 DEF Changes
<1>16. GoodBut(V, {}, cs) /\ Quiet(W, V)
  BY <1>6, <1>8, <1>9, <1>11, <1>12, <1>13, <1>14, <1>15, WroteGood
<1> QED
  BY <1>1, <1>16

LEMMA FlushTouchGood ==
  ASSUME NEW W, NEW cs, GoodBut(W, {}, cs)
  PROVE  LET V == touchWatchedKeysOnFlush(W) IN GoodBut(V, {}, cs) /\ Quiet(W, V) /\ V.dict = W.dict
<1> DEFINE ds == {c \in Clients : W.cl[c].watched \cap DOMAIN W.dict # {}}
           V == touchWatchedKeysOnFlush(W)
<1>1. V = Dirty(W, ds)
  BY DEF touchWatchedKeysOnFlush
<1>2. Shape(W) /\ Data(W, {})
  BY GoodParts
<1>3. \A c \in ds : c \in Clients /\ W.cl[c].alive
  BY NobodyIs
<1> HIDE DEF ds, V
<1>4. /\ Around(W, V) /\ Dirtied(W, V) /\ V.dict = W.dict /\ V.ready = W.ready /\ V.link = W.link
  BY <1>1, <1>2, <1>3, DirtyIs
<1>5. DirtyOn(V, {})
  BY DEF DirtyOn
<1>6. Pending(V, {})
  BY <1>2, <1>4 DEF Data, Pending, IsList, Around
<1>7. Values(V.dict) /\ Full(V.dict, {}) /\ V.ready \in Seq(Keys) /\ V.link \in Seq(Command)
  BY <1>2, <1>4 DEF Data
<1>8. GoodBut(V, {}, cs) /\ Quiet(W, V)
  BY <1>4, <1>5, <1>6, <1>7, WroteGood
<1> QED
  BY <1>4, <1>8 DEF V

LEMMA RunGood ==
  ASSUME NEW W, NEW cs, GoodBut(W, {}, cs), NEW q \in Command, Name(q) \in OfDataset
  PROVE  GoodBut(Run(W, q), {}, cs) /\ Quiet(W, Run(W, q))
<1> DEFINE d == W.dict
           T == Dataset(Start(ServerOf(d, TRUE), q), q)
           U == IF Name(q) = "FLUSHALL" THEN touchWatchedKeysOnFlush(W) ELSE W
<1>1. Run(W, q) = Told(U, T)
  BY DEF Run
<1>2. Values(d) /\ Full(d, {})
  BY GoodParts DEF Data
<1>3. Commanded(d, T, q)
  BY <1>2, DatasetChanges
<1>4. GoodBut(U, {}, cs) /\ Quiet(W, U) /\ U.dict = d
  BY FlushTouchGood DEF Quiet
<1> HIDE DEF U, T, d
<1>5. GoodBut(Told(U, T), {}, cs) /\ Quiet(U, Told(U, T))
  BY <1>3, <1>4, ToldGood
<1> QED
  BY <1>1, <1>4, <1>5, QuietTrans

----------------------------------------------------------------------------
\* While the clients that wait for k are served, its list may be empty.
Serving(W, k, cs) == GoodBut(W, {k}, cs) /\ IsList(W, k) /\ k \in Keys /\ DirtyOn(W, {k})

LEMMA ServerUntouched == ASSUME NEW d, NEW master PROVE Untouched(d, ServerOf(d, master), NoCommand)
<1> DEFINE S == ServerOf(d, master)
<1>1. /\ DOMAIN S = ServerFields /\ S.dict = d /\ S.expires = Empty
      /\ S.touched = {} /\ S.ready = <<>> /\ S.dels = <<>> /\ S.argv = NoCommand
  BY DEF ServerOf, EmptyServer, ServerFields
<1> HIDE DEF S
<1>2. Empty = <<>> /\ DOMAIN Empty = {}
  BY DEF Empty
<1> QED
  BY <1>1, <1>2 DEF Untouched, S

LEMMA PropagateIs ==
  ASSUME NEW W, Shape(W), W.link \in Seq(Command), NEW q \in Command
  PROVE  LET V == propagate(W, q) IN
         /\ Around(W, V) /\ V.cl = W.cl /\ V.dict = W.dict /\ V.ready = W.ready /\ V.link \in Seq(Command)
<1> DEFINE l == W.link
           u == Append(l, q)
<1>1. u \in Seq(Command)
  <2>1. l \in Seq(Command)
    OBVIOUS
  <2> HIDE DEF l
  <2> QED
    BY <2>1
<1>2. propagate(W, q) = [W EXCEPT !.link = u]
  BY DEF propagate
<1> HIDE DEF u
<1> QED
  BY <1>1, <1>2 DEF Around, Shape, Fields

LEMMA PropagateGood ==
  ASSUME NEW W, NEW bs, NEW cs, GoodBut(W, bs, cs), NEW q \in Command
  PROVE  LET V == propagate(W, q) IN
         GoodBut(V, bs, cs) /\ Quiet(W, V) /\ V.dict = W.dict /\ V.ready = W.ready /\ V.cl = W.cl
<1> DEFINE V == propagate(W, q)
<1>1. Shape(W) /\ Data(W, bs)
  BY GoodParts
<1>2. Around(W, V) /\ V.cl = W.cl /\ V.dict = W.dict /\ V.ready = W.ready /\ V.link \in Seq(Command)
  BY <1>1, PropagateIs DEF Data
<1> HIDE DEF V
<1>3. Dirtied(W, V) /\ DirtyOn(V, {})
  BY <1>2 DEF Dirtied, DirtyOn
<1>4. Values(V.dict) /\ Full(V.dict, bs) /\ V.ready \in Seq(Keys) /\ Pending(V, bs)
  BY <1>1, <1>2 DEF Data, Pending, IsList, Around
<1>5. GoodBut(V, bs, cs) /\ Quiet(W, V)
  BY <1>2, <1>3, <1>4, WroteGood
<1> QED
  BY <1>2, <1>5 DEF V

LEMMA ServingReplied ==
  ASSUME NEW W, NEW k, NEW cs, Serving(W, k, cs), NEW c \in Clients, W.cl[c].alive
  PROVE  LET V == addReply(W, c) IN Serving(V, k, cs) /\ Quiet(W, V) /\ V.ready = W.ready /\ V.dict = W.dict
<1> DEFINE V == addReply(W, c)
<1>1. GoodBut(V, {k}, cs) /\ Replied(W, V)
  BY AddReplyKeeps DEF Serving
<1> HIDE DEF V
<1>2. DirtyOn(V, {k})
  BY <1>1 DEF Replied, DirtyOn, Serving
<1> QED
  BY <1>1, <1>2 DEF Serving, Replied, IsList, V

\* The list of k gets another value.
LEMMA RewriteGood ==
  ASSUME NEW W, NEW k, NEW cs, Serving(W, k, cs), NEW o, ListOk(o)
  PROVE  LET V == [W EXCEPT !.dict[k] = o] IN
         /\ Serving(V, k, cs) /\ Quiet(W, V) /\ V.ready = W.ready /\ V.dict = [W.dict EXCEPT ![k] = o]
         /\ V.cl = W.cl
<1> DEFINE d == [W.dict EXCEPT ![k] = o]
           V == [W EXCEPT !.dict[k] = o]
<1>1. Shape(W) /\ Data(W, {k}) /\ k \in DOMAIN W.dict
  BY GoodParts DEF Serving, IsList
<1>2. V = Rewritten(W, d)
  BY <1>1 DEF Rewritten, Shape, Fields
<1>3. DOMAIN d = DOMAIN W.dict /\ d[k] = o /\ \A x \in DOMAIN d : x # k => d[x] = W.dict[x]
  BY <1>1
<1> HIDE DEF d, V
<1>4. Around(W, V) /\ V.cl = W.cl /\ V.dict = d /\ V.ready = W.ready /\ V.link = W.link
  BY <1>1, <1>2 DEF Rewritten, Around, Shape, Fields
<1>5. Dirtied(W, V) /\ DirtyOn(V, {k})
  BY <1>4 DEF Dirtied, DirtyOn, Serving
<1>6. Values(d) /\ Full(d, {k})
  <2>1. \A x \in DOMAIN d : /\ DOMAIN d[x] = {"type", "enc", "v"} /\ d[x].type \in {"string", "list"}
                            /\ d[x].type = "list" => d[x].v \in Seq(Elems)
    <3> SUFFICES ASSUME NEW x \in DOMAIN d
                 PROVE  /\ DOMAIN d[x] = {"type", "enc", "v"} /\ d[x].type \in {"string", "list"}
                        /\ d[x].type = "list" => d[x].v \in Seq(Elems)
      OBVIOUS
    <3>1. CASE x = k
      BY <1>3, <3>1 DEF ListOk
    <3>2. CASE x # k
      BY <1>1, <1>3, <3>2 DEF Data, Values
    <3> QED
      BY <3>1, <3>2
  <2> QED
    BY <1>1, <1>3, <2>1 DEF Data, Values, Full
<1>7. Pending(V, {k})
  BY <1>1, <1>3, <1>4 DEF Data, Pending, IsList, Around
<1>8. V.ready \in Seq(Keys) /\ V.link \in Seq(Command)
  BY <1>1, <1>4 DEF Data
<1>9. \A x : x \notin {k} => ((x \in DOMAIN V.dict) <=> (x \in DOMAIN W.dict))
  BY <1>3, <1>4
<1>10. \A x : x \notin {k} => (x \in DOMAIN W.dict => V.dict[x] = W.dict[x])
  BY <1>3, <1>4
<1>11. GoodBut(V, {k}, cs) /\ Quiet(W, V)
  BY <1>4, <1>5, <1>6, <1>7, <1>8, <1>9, <1>10, WroteGood DEF Serving
<1>12. IsList(V, k)
  BY <1>1, <1>3, <1>4 DEF IsList, ListOk
<1> QED
  BY <1>4, <1>5, <1>11, <1>12 DEF Serving, V, d

\* The element goes on to another list.
LEMMA TargetGood ==
  ASSUME NEW W, NEW k, NEW cs, Serving(W, k, cs), NEW target \in Keys, target \in DOMAIN W.dict => IsList(W, target),
         NEW e \in Elems
  PROVE  LET T == rpoplpushHandlePush(ServerOf(W.dict, TRUE), target, e)
             touched == touchWatchedKey([W EXCEPT !.dict = T.dict], {target})
             V == IF T.ready = Empty THEN touched ELSE SignalReady(touched, target)
         IN  Serving(V, k, cs) /\ Quiet(W, V) /\ Len(V.ready) <= Len(W.ready) + 1
<1> DEFINE d == W.dict
           T == rpoplpushHandlePush(ServerOf(d, TRUE), target, e)
           U == touchWatchedKey(Rewritten(W, T.dict), {target})
           V == IF T.ready = Empty THEN U ELSE SignalReady(U, target)
<1>1. Shape(W) /\ Data(W, {k}) /\ k \in DOMAIN d /\ d[k].type = "list"
  BY GoodParts DEF Serving, IsList
<1>2. /\ DOMAIN T.dict = DOMAIN d \cup {target} /\ ListOk(T.dict[target]) /\ T.dict[target].v # Empty
      /\ \A x \in DOMAIN d : x # target => T.dict[x] = d[x]
      /\ T.ready = IF target \in DOMAIN d THEN Empty ELSE <<target>>
  <2>1. Untouched(d, ServerOf(d, TRUE), NoCommand)
    BY ServerUntouched
  <2>2. target \in DOMAIN d => ListOk(d[target])
    BY <1>1, ListsOk DEF IsList, Data
  <2>3. Handled(d, T, target, NoCommand)
    BY <2>1, <2>2, HandlePushIs
  <2> HIDE DEF T, d
  <2> QED
    BY <2>3 DEF Handled
<1>3. /\ Around(W, U) /\ Dirtied(W, U) /\ DirtyOn(U, {target}) /\ U.dict = T.dict /\ U.ready = W.ready
      /\ U.link = W.link
  <2> DEFINE z == T.dict
             t == {target}
  <2>1. GoodBut(W, {k}, cs)
    BY DEF Serving
  <2> HIDE DEF z, t
  <2>2. LET A == touchWatchedKey(Rewritten(W, z), t) IN
        Around(W, A) /\ Dirtied(W, A) /\ DirtyOn(A, t) /\ A.dict = z /\ A.ready = W.ready /\ A.link = W.link
    BY <2>1, TouchIs
  <2> QED
    BY <2>2 DEF z, t
<1>4. U = touchWatchedKey([W EXCEPT !.dict = T.dict], {target})
  BY DEF Rewritten
<1> HIDE DEF T, U
<1>5. /\ Around(W, V) /\ V.cl = U.cl /\ V.dict = T.dict /\ V.link = W.link /\ V.ready \in Seq(Keys)
      /\ \A x : Contains(V.ready, x) <=>
            (Contains(W.ready, x) \/ (x = target /\ target \notin DOMAIN d /\ target \in DOMAIN W.blocking_keys))
      /\ Len(V.ready) <= Len(W.ready) + 1
  <2>1. W.ready \in Seq(Keys) /\ Shape(U)
    BY <1>1, <1>3 DEF Data, Around
  <2>2. CASE target \in DOMAIN d
    <3>1. V = U
      BY <1>2, <2>2
    <3>2. Len(W.ready) <= Len(W.ready) + 1
      BY <2>1
    <3> QED
      BY <1>3, <2>1, <2>2, <3>1, <3>2
  <2>3. CASE target \notin DOMAIN d
    <3>1. V = SignalReady(U, target)
      <4>1. <<target>> # Empty
        BY OneIs
      <4> QED
        BY <1>2, <2>3, <4>1
    <3> HIDE DEF V
    <3>2. /\ Around(U, V) /\ V.cl = U.cl /\ V.dict = U.dict /\ V.link = U.link /\ V.ready \in Seq(Keys)
          /\ \A x : Contains(V.ready, x) <=> Contains(U.ready, x) \/ (x = target /\ target \in DOMAIN U.blocking_keys)
          /\ Len(V.ready) <= Len(U.ready) + 1
      BY <1>3, <2>1, <3>1, SignalIs
    <3> QED
      BY <1>3, <2>3, <3>2 DEF Around
  <2> QED
    BY <2>2, <2>3
<1>6. V = LET touched == touchWatchedKey([W EXCEPT !.dict = T.dict], {target})
          IN  IF T.ready = Empty THEN touched ELSE SignalReady(touched, target)
  BY <1>4
<1> HIDE DEF V
<1>7. Dirtied(W, V) /\ DirtyOn(V, {target})
  BY <1>3, <1>5 DEF Dirtied, DirtyOn
<1>8. Values(V.dict) /\ Full(V.dict, {k})
  <2>1. \A x \in DOMAIN V.dict : /\ DOMAIN V.dict[x] = {"type", "enc", "v"} /\ V.dict[x].type \in {"string", "list"}
                                 /\ V.dict[x].type = "list" => V.dict[x].v \in Seq(Elems)
                                 /\ x # k /\ V.dict[x].type = "list" => V.dict[x].v # Empty
    <3> SUFFICES ASSUME NEW x \in DOMAIN V.dict
                 PROVE  /\ DOMAIN V.dict[x] = {"type", "enc", "v"} /\ V.dict[x].type \in {"string", "list"}
                        /\ V.dict[x].type = "list" => V.dict[x].v \in Seq(Elems)
                        /\ x # k /\ V.dict[x].type = "list" => V.dict[x].v # Empty
      OBVIOUS
    <3>1. CASE x = target
      BY <1>2, <1>5, <3>1 DEF ListOk
    <3>2. CASE x # target
      BY <1>1, <1>2, <1>5, <3>2 DEF Data, Values, Full
    <3> QED
      BY <3>1, <3>2
  <2> QED
    BY <2>1 DEF Values, Full
<1>9. Pending(V, {k})
  <2> SUFFICES ASSUME NEW x \in DOMAIN V.blocking_keys, x # k, IsList(V, x) PROVE Contains(V.ready, x)
    BY DEF Pending
  <2>1. x \in DOMAIN W.blocking_keys
    BY <1>5 DEF Around
  <2>2. CASE x = target /\ target \notin DOMAIN d
    BY <1>5, <2>1, <2>2
  <2>3. CASE ~(x = target /\ target \notin DOMAIN d)
    <3>1. x \in DOMAIN d
      BY <1>2, <1>5, <2>3 DEF IsList
    <3>2. IsList(W, x)
      BY <1>2, <1>5, <3>1 DEF IsList
    <3>3. Contains(W.ready, x)
      BY <1>1, <2>1, <3>2 DEF Data, Pending
    <3> QED
      BY <1>5, <3>3
  <2> QED
    BY <2>2, <2>3
<1>10. \A x : x \notin {target} => ((x \in DOMAIN V.dict) <=> (x \in DOMAIN W.dict))
  BY <1>2, <1>5
<1>11. \A x : x \notin {target} => (x \in DOMAIN W.dict => V.dict[x] = W.dict[x])
  BY <1>2, <1>5
<1>12. V.link \in Seq(Command) /\ \A x : Contains(V.ready, x) => Contains(W.ready, x) \/ x \in {target}
  BY <1>1, <1>5 DEF Data
<1>13. GoodBut(V, {k}, cs) /\ Quiet(W, V)
  BY <1>5, <1>7, <1>8, <1>9, <1>10, <1>11, <1>12, WroteGood DEF Serving
<1>14. IsList(V, k)
  BY <1>1, <1>2, <1>5 DEF IsList, ListOk
<1>15. DirtyOn(V, {k})
  <2>1. \A c \in Clients : V.cl[c].watched = W.cl[c].watched /\ W.cl[c].flags \subseteq V.cl[c].flags
    BY <1>1, <1>7, DirtiedIs
  <2> QED
    BY <2>1 DEF Serving, DirtyOn
<1>16. Serving(V, k, cs)
  BY <1>13, <1>14, <1>15 DEF Serving
<1> QED
  BY <1>5, <1>6, <1>13, <1>16 DEF T, d

LEMMA PopCommand == ASSUME NEW k \in Keys, NEW where \in Where PROVE <<"POP", k, where>> \in Command
BY DEF Command

LEMMA PushCommand == ASSUME NEW k \in Keys, NEW e \in Elems PROVE <<"PUSH", k, <<e>>, "head">> \in Command
<1>1. <<e>> \in Some(Elems)
  BY OneIs DEF Some
<1> DEFINE s == <<e>>
<1> HIDE DEF s
<1>2. <<"PUSH", k, s, "head">> \in {"PUSH"} \X Keys \X Some(Elems) \X Where
  BY <1>1 DEF Where, s
<1> QED
  BY <1>2 DEF Command, s

LEMMA ServingPropagated ==
  ASSUME NEW W, NEW k, NEW cs, Serving(W, k, cs), NEW q \in Command
  PROVE  LET V == propagate(W, q) IN
         Serving(V, k, cs) /\ Quiet(W, V) /\ V.ready = W.ready /\ V.dict = W.dict /\ V.cl = W.cl
<1> DEFINE V == propagate(W, q)
<1>1. GoodBut(W, {k}, cs)
  BY DEF Serving
<1>2. GoodBut(V, {k}, cs) /\ Quiet(W, V) /\ V.dict = W.dict /\ V.ready = W.ready /\ V.cl = W.cl
  <2> DEFINE bs == {k}
  <2> HIDE DEF bs
  <2> QED
    BY <1>1, PropagateGood DEF bs
<1> HIDE DEF V
<1>3. Serving(V, k, cs)
  BY <1>2 DEF Serving, IsList, DirtyOn
<1> QED
  BY <1>2, <1>3 DEF V

\* The client is answered, and the rest of the server follows.
LEMMA ServeClientGood ==
  ASSUME NEW W, NEW k, NEW cs, Serving(W, k, cs), NEW c \in Clients, W.cl[c].alive,
         NEW target \in Keys \cup {Nil}, NEW e \in Elems, NEW where \in Where
  PROVE  LET V == serveClientBlockedOnList(W, c, k, target, e, where) IN
         Serving(V, k, cs) /\ Quiet(W, V) /\ Len(V.ready) <= Len(W.ready) + 1
<1> DEFINE V == serveClientBlockedOnList(W, c, k, target, e, where)
           popped == propagate(W, <<"POP", k, where>>)
<1>1. k \in Keys /\ W.ready \in Seq(Keys)
  BY GoodParts DEF Serving, Data
<1>2. /\ Serving(popped, k, cs) /\ Quiet(W, popped) /\ popped.ready = W.ready /\ popped.dict = W.dict
      /\ popped.cl = W.cl
  <2> DEFINE q == <<"POP", k, where>>
  <2>1. q \in Command
    BY <1>1, PopCommand
  <2> HIDE DEF q
  <2>2. LET Z == propagate(W, q) IN
        Serving(Z, k, cs) /\ Quiet(W, Z) /\ Z.ready = W.ready /\ Z.dict = W.dict /\ Z.cl = W.cl
    BY <2>1, ServingPropagated
  <2> QED
    BY <2>2 DEF q
<1>3. Len(W.ready) \in Nat
  BY <1>1
<1>4. CASE target = Nil
  <2>1. V = addReply(popped, c)
    BY <1>4 DEF serveClientBlockedOnList
  <2> HIDE DEF V, popped
  <2>2. Serving(V, k, cs) /\ Quiet(popped, V) /\ V.ready = popped.ready
    BY <1>2, <2>1, ServingReplied
  <2>3. Len(V.ready) <= Len(W.ready) + 1
    BY <1>2, <1>3, <2>2
  <2> QED
    BY <1>2, <2>2, <2>3, QuietTrans DEF V
<1>5. CASE target # Nil /\ target \in DOMAIN W.dict /\ ~IsList(W, target)
  <2> DEFINE o == listTypePush(W.dict[k], e, where)
             Z == [W EXCEPT !.dict[k] = o]
  <2>1. V = addReply(Z, c)
    BY <1>5 DEF serveClientBlockedOnList
  <2>2. ListOk(o)
    <3>1. ListOk(W.dict[k])
      BY GoodParts, ListsOk DEF Serving, IsList, Data
    <3> QED
      BY <3>1, PushOk
  <2> HIDE DEF V, o
  <2>3. Serving(Z, k, cs) /\ Quiet(W, Z) /\ Z.ready = W.ready /\ Z.cl = W.cl
    BY <2>2, RewriteGood
  <2> HIDE DEF Z
  <2>4. Serving(V, k, cs) /\ Quiet(Z, V) /\ V.ready = Z.ready
    BY <2>1, <2>3, ServingReplied
  <2>5. Len(V.ready) <= Len(W.ready) + 1
    BY <1>3, <2>3, <2>4
  <2> QED
    BY <2>3, <2>4, <2>5, QuietTrans DEF V
<1>6. CASE target # Nil /\ ~(target \in DOMAIN W.dict /\ ~IsList(W, target))
  <2> DEFINE T == rpoplpushHandlePush(ServerOf(popped.dict, TRUE), target, e)
             touched == touchWatchedKey([popped EXCEPT !.dict = T.dict], {target})
             pushed == IF T.ready = Empty THEN touched ELSE SignalReady(touched, target)
             q == <<"PUSH", target, <<e>>, "head">>
             Z == propagate(pushed, q)
  <2>1. target \in Keys
    BY <1>6
  <2>2. q \in Command
    BY <2>1, PushCommand
  <2>3. V = addReply(Z, c)
    <3> DEFINE T1 == rpoplpushHandlePush(ServerOf(W.dict, TRUE), target, e)
               A1 == touchWatchedKey([popped EXCEPT !.dict = T1.dict], {target})
               P1 == IF T1.ready = Empty THEN A1 ELSE SignalReady(A1, target)
    <3>1. V = addReply(propagate(P1, q), c)
      BY <1>6 DEF serveClientBlockedOnList
    <3>2. T1 = T
      <4> HIDE DEF popped
      <4> QED
        BY <1>2
    <3> HIDE DEF T1, T
    <3>3. P1 = pushed
      BY <3>2
    <3> HIDE DEF P1, pushed, V
    <3> QED
      BY <3>1, <3>3
  <2>4. target \in DOMAIN popped.dict => IsList(popped, target)
    <3> HIDE DEF popped
    <3> QED
      BY <1>2, <1>6 DEF IsList
  <2> HIDE DEF V, popped
  <2>5. Serving(pushed, k, cs) /\ Quiet(popped, pushed) /\ Len(pushed.ready) <= Len(popped.ready) + 1
    BY <1>2, <2>1, <2>4, TargetGood
  <2> HIDE DEF pushed, q
  <2>6. Serving(Z, k, cs) /\ Quiet(pushed, Z) /\ Z.ready = pushed.ready
    BY <2>2, <2>5, ServingPropagated
  <2>7. Z.cl[c].alive
    BY <1>2, <2>5, <2>6 DEF Quiet
  <2> HIDE DEF Z
  <2>8. Serving(V, k, cs) /\ Quiet(Z, V) /\ V.ready = Z.ready
    BY <2>3, <2>6, <2>7, ServingReplied
  <2>9. Len(V.ready) <= Len(W.ready) + 1
    BY <1>2, <2>5, <2>6, <2>8
  <2>10. Quiet(W, V)
    BY <1>2, <2>5, <2>6, <2>8, QuietTrans
  <2> QED
    BY <2>8, <2>9, <2>10 DEF V
<1> QED
  BY <1>4, <1>5, <1>6

\* How many wait for k, and how much there is left to serve.
Left(W, k) == IF k \in DOMAIN W.blocking_keys THEN Len(W.blocking_keys[k]) ELSE 0
ToServe(W) == Len(W.ready) + Cardinality(Waiting(W))

LEMMA ToServeNat == ASSUME NEW W, NEW bs, NEW cs, GoodBut(W, bs, cs) PROVE ToServe(W) \in Nat
<1>1. Queues(W) /\ W.ready \in Seq(Keys)
  BY GoodParts DEF Data
<1>2. Cardinality(Waiting(W)) \in Nat
  BY <1>1, LoadNat, FS_CardinalityType
<1>3. Len(W.ready) \in Nat
  BY <1>1
<1> QED
  BY <1>2, <1>3 DEF ToServe

\* What the first of those who wait for k finds.
LEMMA HeadWaits ==
  ASSUME NEW W, NEW bs, NEW cs, GoodBut(W, bs, cs), NEW k \in DOMAIN W.blocking_keys
  PROVE  LET c == Head(W.blocking_keys[k]) IN
         /\ c \in Clients /\ k \in W.cl[c].keys /\ "BLOCKED" \in W.cl[c].flags /\ W.cl[c].alive
         /\ W.cl[c].target \in Keys \cup {Nil} /\ W.cl[c].where \in Where
         /\ \A x \in Clients : \A y : ~Ahead(W, y, x, c) 
<1> DEFINE c == Head(W.blocking_keys[k])
           s == W.blocking_keys[k]
<1>1. IndexOk(W.blocking_keys, KeysOf(W))
  BY GoodParts DEF Tables
<1>2. s \in Seq(Clients) /\ s # Empty /\ IsInjective(s)
  BY <1>1 DEF IndexOk
<1>3. c \in Clients /\ Contains(s, c)
  <2> HIDE DEF s
  <2>1. Head(s) \in Clients /\ Contains(s, Head(s))
    BY <1>2, HeadTailIs
  <2> QED
    BY <2>1 DEF s
<1>4. c = Head(s)
  OBVIOUS
<1> HIDE DEF c
<1>5. k \in W.cl[c].keys
  <2>1. k \in KeysOf(W)[c]
    BY <1>1, <1>3 DEF IndexOk
  <2> QED
    BY <1>3, <2>1 DEF KeysOf
<1>6. ClientOk(W.cl[c], c \in W.counted)
  BY <1>3, GoodParts
<1>7. "BLOCKED" \in W.cl[c].flags /\ W.cl[c].target \in Keys \cup {Nil} /\ W.cl[c].where \in Where
  BY <1>5, <1>6 DEF ClientOk
<1>8. W.cl[c].alive
  BY <1>3, <1>5, NobodyIs
<1>9. ASSUME NEW x \in Clients, NEW y, Ahead(W, y, x, c) PROVE FALSE
  <2>1. y = k
    BY <1>5, <1>9 DEF Ahead
  <2>2. Precedes(s, x, c)
    BY <1>9, <2>1 DEF Ahead
  <2> HIDE DEF s
  <2> QED
    BY <1>2, <1>4, <2>2, HeadPrecedes
<1> QED
  BY <1>3, <1>5, <1>7, <1>8, <1>9 DEF c

\* The first client is out of the list of k.
LEMMA ReleasedLeft ==
  ASSUME NEW W, NEW V, NEW bs, NEW cs, GoodBut(W, bs, cs), NEW k \in DOMAIN W.blocking_keys,
         Released(W, V, Head(W.blocking_keys[k]))
  PROVE  Left(V, k) = Left(W, k) - 1 /\ Left(W, k) \in Nat
<1> DEFINE c == Head(W.blocking_keys[k])
           i == W.blocking_keys
           ks == W.cl[c].keys
           s == i[k]
<1>1. /\ c \in Clients /\ k \in ks
  BY HeadWaits
<1>2. i[k] \in Seq(Clients) /\ s # Empty
  BY GoodParts DEF Tables, IndexOk
<1>3. Contains(s, c) /\ Len(s) \in Nat
  <2> HIDE DEF i, s
  <2>1. Contains(s, Head(s)) /\ Len(s) \in Nat
    BY <1>2, HeadTailIs DEF s
  <2> QED
    BY <2>1 DEF s, i
<1>4. V.blocking_keys = Leave(i, ks, c)
  BY DEF Released
<1> HIDE DEF ks, c
<1>5. RemoveFirst(s, c) \in Seq(Clients) /\ Len(RemoveFirst(s, c)) = Len(s) - 1
  <2> HIDE DEF i
  <2>1. s \in Seq(Clients)
    BY <1>2
  <2> HIDE DEF s
  <2> QED
    BY <1>3, <2>1, RemoveFirstList
<1> HIDE DEF s
<1>6. Left(W, k) = Len(s) /\ s = i[k]
  BY DEF Left, s
<1> DEFINE J == Leave(i, ks, c)
           t == RemoveFirst(s, c)
<1>7. k \in DOMAIN J <=> t # Empty
  BY <1>1, <1>6 DEF Leave
<1>8. k \in DOMAIN J => J[k] = t
  BY <1>1, <1>6 DEF Leave
<1>9. t = Empty <=> Len(t) = 0
  <2>1. t \in Seq(Clients)
    BY <1>5
  <2> HIDE DEF t
  <2> QED
    BY <2>1, EmptyIs DEF Empty
<1> HIDE DEF J, t
<1>10. Left(V, k) = IF k \in DOMAIN J THEN Len(J[k]) ELSE 0
  BY <1>4 DEF Left, J
<1>11. Left(V, k) = Len(t)
  BY <1>7, <1>8, <1>9, <1>10
<1> QED
  BY <1>3, <1>5, <1>6, <1>11 DEF t

\* From W to V clients were served.
Alike(W, V) == \A d \in Clients : V.cl[d].alive = W.cl[d].alive
Served(W, V, k, cs) ==
    Serving(V, k, cs) /\ Goes(W, V) /\ Alike(W, V) /\ ToServe(V) <= ToServe(W)

LEMMA ServeFirstGood ==
  ASSUME NEW W, NEW k, NEW cs, Serving(W, k, cs), k \in DOMAIN W.blocking_keys, W.dict[k].v # Empty
  PROVE  LET V == ServeFirst(W, k) IN Served(W, V, k, cs) /\ Left(V, k) = Left(W, k) - 1
<1> DEFINE c == Head(W.blocking_keys[k])
           where == W.cl[c].where
           target == W.cl[c].target
           o == W.dict[k]
           e == Popped(o, where)
           p == listTypePop(o, where)
           A == [W EXCEPT !.dict[k] = p]
           U == unblockClientWaitingData(A, c)
           V == ServeFirst(W, k)
<1>0. GoodBut(W, {k}, cs) /\ IsList(W, k) /\ DirtyOn(W, {k})
  BY DEF Serving
<1>1. /\ c \in Clients /\ k \in W.cl[c].keys /\ "BLOCKED" \in W.cl[c].flags /\ W.cl[c].alive
      /\ target \in Keys \cup {Nil} /\ where \in Where /\ \A x \in Clients : \A y : ~Ahead(W, y, x, c)
  BY <1>0, HeadWaits
<1>2. ListOk(p) /\ e \in Elems
  <2>1. ListOk(o)
    BY <1>0, GoodParts, ListsOk DEF IsList, Data
  <2> HIDE DEF o
  <2>2. o.v # Empty
    BY DEF o
  <2> QED
    BY <2>1, <2>2, PopOk
<1>3. V = serveClientBlockedOnList(U, c, k, target, e, where)
  BY DEF ServeFirst
<1>4. Serving(A, k, cs) /\ Quiet(W, A) /\ A.ready = W.ready /\ A.cl = W.cl
  <2> HIDE DEF p
  <2> QED
    BY <1>2, RewriteGood
<1>5. A.blocking_keys = W.blocking_keys
  BY <1>4 DEF Quiet
<1> HIDE DEF V, A
<1>6. GoodBut(A, {k}, cs) /\ "BLOCKED" \in A.cl[c].flags /\ A.cl[c].alive
  BY <1>1, <1>4 DEF Serving
<1>7. GoodBut(U, {k}, cs) /\ Released(A, U, c)
  <2> DEFINE bs == {k}
  <2>1. GoodBut(A, bs, cs)
    BY <1>6
  <2> HIDE DEF bs
  <2>2. GoodBut(U, bs, cs) /\ Released(A, U, c)
    BY <1>1, <1>6, <2>1, UnblockGood
  <2> QED
    BY <2>2 DEF bs
<1> HIDE DEF U
<1>8. Serving(U, k, cs) /\ U.cl[c].alive
  <2>1. \A d \in Clients : U.cl[d].watched = A.cl[d].watched
    BY <1>7 DEF Released
  <2>2. \A d \in Clients : "DIRTY_CAS" \in A.cl[d].flags => "DIRTY_CAS" \in U.cl[d].flags
    BY <1>7 DEF Released
  <2>3. DirtyOn(U, {k})
    BY <1>4, <2>1, <2>2 DEF DirtyOn, Serving
  <2>4. IsList(U, k)
    BY <1>4, <1>7 DEF Released, IsList, Serving
  <2>5. U.cl[c].alive
    BY <1>6, <1>7 DEF Released
  <2> QED
    BY <1>4, <1>7, <2>3, <2>4, <2>5 DEF Serving
<1> HIDE DEF e, p
<1>9. Serving(V, k, cs) /\ Quiet(U, V) /\ Len(V.ready) <= Len(U.ready) + 1
  <2> HIDE DEF c, where, target
  <2> QED
    BY <1>1, <1>2, <1>3, <1>8, ServeClientGood
<1> HIDE DEF c, where, target, o
<1>10. GoodBut(V, {k}, cs)
  BY <1>9 DEF Serving
<1>11. Queues(W) /\ Queues(A) /\ Queues(U) /\ Queues(V)
  BY <1>0, <1>6, <1>7, <1>10, GoodParts
<1>12. Goes(A, U)
  <2>1. Load(U) = Load(A) /\ (Closing(A) => Closing(U))
    BY <1>1, <1>6, <1>7, <1>11, ReleasedLoad
  <2>2. Load(U) <= Load(A)
    BY <1>11, <2>1, LoadNat
  <2>3. ASSUME NEW y, NEW x \in Clients, NEW d \in Clients, InOrder(A, y, x, d) PROVE InOrder(U, y, x, d)
    <3>1. ~Ahead(A, y, x, c)
      <4>1. ~Ahead(W, y, x, c)
        BY <1>1
      <4>2. A.unblocked = W.unblocked
        BY <1>4 DEF Quiet
      <4> QED
        BY <1>4, <1>5, <4>1, <4>2 DEF Ahead
    <3> QED
      BY <1>1, <1>6, <1>7, <2>3, <3>1, ReleasedOrder
  <2>4. \A d \in Clients : U.cl[d].querybuf = A.cl[d].querybuf /\ U.cl[d].alive = A.cl[d].alive
    BY <1>7 DEF Released
  <2>5. U.counted = A.counted
    BY <1>7 DEF Released
  <2> QED
    BY <2>1, <2>2, <2>3, <2>4, <2>5 DEF Goes, Orderly
<1>13. Goes(W, V)
  <2>1. Goes(W, A) /\ Goes(U, V)
    BY <1>4, <1>9, <1>11, QuietGoes
  <2>2. Goes(W, U)
    BY <1>11, <1>12, <2>1, GoesTrans
  <2> QED
    BY <1>11, <2>1, <2>2, GoesTrans
<1>14. ToServe(V) <= ToServe(W)
  <2>1. Waiting(A) = Waiting(W) /\ Waiting(V) = Waiting(U)
    BY <1>4, <1>9 DEF Quiet, Waiting, Has
  <2>2. Cardinality(Waiting(U)) = Cardinality(Waiting(A)) - 1
    BY <1>1, <1>6, <1>7, <1>11, ReleasedLoad
  <2>3. U.ready = W.ready
    BY <1>4, <1>7 DEF Released
  <2>4. Cardinality(Waiting(A)) \in Nat /\ Len(U.ready) \in Nat /\ Len(V.ready) \in Nat
    <3>1. V.ready \in Seq(Keys) /\ U.ready \in Seq(Keys)
      BY <1>7, <1>10, GoodParts DEF Data
    <3> QED
      BY <1>11, <3>1, LoadNat, FS_CardinalityType
  <2> HIDE DEF V
  <2> QED
    BY <1>9, <2>1, <2>2, <2>3, <2>4 DEF ToServe
<1>15. Left(V, k) = Left(W, k) - 1
  <2>1. Left(W, k) = Left(A, k) /\ Left(V, k) = Left(U, k) /\ k \in DOMAIN A.blocking_keys
    BY <1>5, <1>9 DEF Left, Quiet
  <2>2. c = Head(A.blocking_keys[k])
    BY <1>5 DEF c
  <2>3. Left(U, k) = Left(A, k) - 1
    BY <1>6, <1>7, <2>1, <2>2, ReleasedLeft
  <2> QED
    BY <2>1, <2>3
<1>16. Alike(W, V)
  <2>1. \A d \in Clients : U.cl[d].alive = A.cl[d].alive
    BY <1>7 DEF Released
  <2> QED
    BY <1>4, <1>9, <2>1 DEF Quiet, Alike
<1> QED
  BY <1>9, <1>13, <1>14, <1>15, <1>16 DEF Served, V

ServingOn(W, A, k, cs, m) == Served(W, A, k, cs) /\ (A.dict[k].v = Empty \/ Left(A, k) = m)

LEMMA LeftIs ==
  ASSUME NEW W, NEW bs, NEW cs, GoodBut(W, bs, cs), NEW k
  PROVE  Left(W, k) \in Nat /\ (Left(W, k) = 0 <=> k \notin DOMAIN W.blocking_keys)
<1>1. CASE k \in DOMAIN W.blocking_keys
  <2> DEFINE s == W.blocking_keys[k]
  <2>1. s \in Seq(Clients) /\ s # Empty
    BY <1>1, GoodParts DEF Tables, IndexOk
  <2>2. Len(s) \in Nat \ {0}
    <3> HIDE DEF s
    <3> QED
      BY <2>1, HeadTailIs
  <2> QED
    BY <1>1, <2>2 DEF Left
<1>2. CASE k \notin DOMAIN W.blocking_keys
  BY <1>2 DEF Left
<1> QED
  BY <1>1, <1>2

LEMMA ServedRefl == ASSUME NEW W, NEW k, NEW cs, Serving(W, k, cs) PROVE Served(W, W, k, cs)
<1>1. GoodBut(W, {k}, cs)
  BY DEF Serving
<1>2. Goes(W, W)
  BY <1>1, GoodParts, GoesRefl
<1>3. ToServe(W) <= ToServe(W)
  BY <1>1, ToServeNat
<1> QED
  BY <1>2, <1>3 DEF Served, Alike

LEMMA ServedTrans ==
  ASSUME NEW U, NEW V, NEW W, NEW k, NEW cs, Serving(U, k, cs), Served(U, V, k, cs), Served(V, W, k, cs)
  PROVE  Served(U, W, k, cs)
<1>1. GoodBut(U, {k}, cs) /\ GoodBut(V, {k}, cs) /\ GoodBut(W, {k}, cs)
  BY DEF Served, Serving
<1>2. Goes(U, W)
  BY <1>1, GoodParts, GoesTrans DEF Served
<1>3. ToServe(W) <= ToServe(U)
  <2>1. ToServe(U) \in Nat /\ ToServe(V) \in Nat /\ ToServe(W) \in Nat
    BY <1>1, ToServeNat
  <2>2. ToServe(V) <= ToServe(U) /\ ToServe(W) <= ToServe(V)
    BY DEF Served
  <2> QED
    BY ONLY <2>1, <2>2
<1> QED
  BY <1>2, <1>3 DEF Served, Alike

\* Nobody waits any more for a list that has elements.
LEMMA ServingDone ==
  ASSUME NEW W, NEW k, NEW cs, GoodBut(W, {k}, cs), IsList(W, k) => W.dict[k].v # Empty /\ k \notin DOMAIN W.blocking_keys
  PROVE  GoodBut(W, {}, cs)
<1>1. Shape(W) /\ Data(W, {k})
  BY GoodParts
<1>2. Around(W, W) /\ Dirtied(W, W) /\ DirtyOn(W, {})
  BY <1>1 DEF Around, Dirtied, DirtyOn
<1>3. Full(W.dict, {}) /\ Pending(W, {})
  BY <1>1 DEF Data, Full, Pending, IsList
<1>4. Values(W.dict) /\ W.ready \in Seq(Keys) /\ W.link \in Seq(Command)
  BY <1>1 DEF Data
<1> QED
  BY <1>2, <1>3, <1>4, WroteGood

\* A list that was emptied goes.
LEMMA EmptiedGood ==
  ASSUME NEW W, NEW k, NEW cs, Serving(W, k, cs)
  PROVE  LET V == [W EXCEPT !.dict = Without(@, k)] IN GoodBut(V, {}, cs) /\ Quiet(W, V) /\ V.ready = W.ready
<1> DEFINE d == Without(W.dict, k)
           V == [W EXCEPT !.dict = Without(@, k)]
<1>1. Shape(W) /\ Data(W, {k}) /\ GoodBut(W, {k}, cs)
  BY GoodParts DEF Serving
<1>2. V = Rewritten(W, d)
  BY DEF Rewritten
<1>3. DOMAIN d = DOMAIN W.dict \ {k} /\ \A x \in DOMAIN d : d[x] = W.dict[x]
  BY DEF Without, WithoutAll
<1> HIDE DEF d, V
<1>4. Around(W, V) /\ V.cl = W.cl /\ V.dict = d /\ V.ready = W.ready /\ V.link = W.link
  BY <1>1, <1>2 DEF Rewritten, Around, Shape, Fields
<1>5. Dirtied(W, V) /\ DirtyOn(V, {k})
  BY <1>4 DEF Dirtied, DirtyOn, Serving
<1>6. Values(d) /\ Full(d, {})
  BY <1>1, <1>3 DEF Data, Values, Full
<1>7. Pending(V, {})
  BY <1>1, <1>3, <1>4 DEF Data, Pending, IsList, Around
<1>8. V.ready \in Seq(Keys) /\ V.link \in Seq(Command)
  BY <1>1, <1>4 DEF Data
<1>9. \A x : x \notin {k} => ((x \in DOMAIN V.dict) <=> (x \in DOMAIN W.dict))
  BY <1>3, <1>4
<1>10. \A x : x \notin {k} => (x \in DOMAIN W.dict => V.dict[x] = W.dict[x])
  BY <1>3, <1>4
<1>11. GoodBut(V, {}, cs) /\ Quiet(W, V)
  BY <1>1, <1>4, <1>5, <1>6, <1>7, <1>8, <1>9, <1>10, WroteGood
<1> QED
  BY <1>4, <1>11 DEF V

LEMMA ServeKeyGood ==
  ASSUME NEW W, NEW k \in Keys, NEW cs, GoodBut(W, {k}, cs), DirtyOn(W, {k})
  PROVE  LET V == ServeKey(W, k) IN GoodBut(V, {}, cs) /\ Goes(W, V) /\ Alike(W, V) /\ ToServe(V) <= ToServe(W)
<1> DEFINE N == Left(W, k)
           zero == W
           step(A, n) == ServeFirst(A, k)
           run[n \in 0..N] == IF n = 0 THEN zero ELSE step(run[n - 1], n)
           U == run[N]
           V == ServeKey(W, k)
<1>1. V = IF ~IsList(W, k) THEN W ELSE IF U.dict[k].v = Empty THEN [U EXCEPT !.dict = Without(@, k)] ELSE U
  BY DEF ServeKey, Left, DropEmpty, Rounds
<1>2. N \in Nat
  BY LeftIs
<1>3. CASE ~IsList(W, k)
  <2>1. GoodBut(W, {}, cs)
    BY <1>3, ServingDone
  <2>2. Goes(W, W) /\ Alike(W, W) /\ ToServe(W) <= ToServe(W)
    BY GoodParts, GoesRefl, ToServeNat DEF Alike
  <2>3. V = W
    BY <1>1, <1>3
  <2> HIDE DEF V
  <2> QED
    BY <2>1, <2>2, <2>3 DEF V
<1>4. CASE IsList(W, k)
  <2>0. V = IF U.dict[k].v = Empty THEN [U EXCEPT !.dict = Without(@, k)] ELSE U
    BY <1>1, <1>4
  <2> HIDE DEF V
  <2>1. Serving(W, k, cs)
    BY <1>4 DEF Serving
  <2>2. run = [n \in 0..N |-> IF n = 0 THEN zero ELSE step(run[n - 1], n)]
    <3> HIDE DEF N, zero, step
    <3> DEFINE P == {m \in Nat : \E f : f = [n \in 0..m |-> IF n = 0 THEN zero ELSE step(f[n - 1], n)]}
    <3>1. 0 \in P
      <4> DEFINE f == [n \in 0..0 |-> zero]
      <4>1. f = [n \in 0..0 |-> IF n = 0 THEN zero ELSE step(f[n - 1], n)]
        OBVIOUS
      <4> HIDE DEF f
      <4> QED
        BY <4>1
    <3>2. ASSUME NEW m \in Nat, m \in P PROVE m + 1 \in P
      <4>1. PICK f : f = [n \in 0..m |-> IF n = 0 THEN zero ELSE step(f[n - 1], n)]
        BY <3>2
      <4> DEFINE g == [n \in 0..m + 1 |-> IF n = m + 1 THEN step(f[m], n) ELSE f[n]]
      <4>2. \A n \in 0..m + 1 : g[n] = IF n = 0 THEN zero ELSE step(g[n - 1], n)
        <5> SUFFICES ASSUME NEW n \in 0..m + 1 PROVE g[n] = IF n = 0 THEN zero ELSE step(g[n - 1], n)
          OBVIOUS
        <5>1. CASE n = m + 1
          BY <5>1
        <5>2. CASE n # m + 1
          BY <4>1, <5>2
        <5> QED
          BY <5>1, <5>2
      <4>3. g = [n \in 0..m + 1 |-> IF n = 0 THEN zero ELSE step(g[n - 1], n)]
        BY <4>2
      <4> HIDE DEF g
      <4> QED
        BY <4>3
    <3>3. N \in P
      BY <1>2, <3>1, <3>2, NatSetInduction
    <3> QED
      BY <3>3 DEF N
  <2> HIDE DEF run
  <2>3. ServingOn(W, zero, k, cs, N - 0)
    BY <1>2, <2>1, ServedRefl DEF ServingOn
  <2>4. ASSUME NEW A, NEW n \in 0..N - 1, ServingOn(W, A, k, cs, N - n) PROVE ServingOn(W, step(A, n + 1), k, cs, N - (n + 1))
    <3>1. Served(W, A, k, cs) /\ Serving(A, k, cs)
      BY <2>4 DEF ServingOn, Served
    <3>2. CASE A.dict[k].v = Empty
      BY <3>1, <3>2 DEF ServingOn, ServeFirst
    <3>3. CASE A.dict[k].v # Empty
      <4>1. Left(A, k) = N - n
        BY <2>4, <3>3 DEF ServingOn
      <4>2. k \in DOMAIN A.blocking_keys
        <5>1. GoodBut(A, {k}, cs)
          BY <3>1 DEF Serving
        <5>2. Left(A, k) # 0
          BY <1>2, <4>1
        <5> QED
          BY <5>1, <5>2, LeftIs
      <4> DEFINE B == ServeFirst(A, k)
      <4>3. Served(A, B, k, cs) /\ Left(B, k) = Left(A, k) - 1
        BY <3>1, <3>3, <4>2, ServeFirstGood
      <4> HIDE DEF B
      <4>4. Served(W, B, k, cs)
        BY <2>1, <3>1, <4>3, ServedTrans
      <4>5. Left(B, k) = N - (n + 1)
        <5> HIDE DEF N
        <5> QED
          BY <1>2, <4>1, <4>3
      <4> HIDE DEF N
      <4>6. ServingOn(W, B, k, cs, N - (n + 1))
        BY <4>4, <4>5 DEF ServingOn
      <4> QED
        BY <4>6 DEF B
    <3> QED
      BY <3>2, <3>3
  <2>5. ServingOn(W, run[N], k, cs, N - (N))
    <3> HIDE DEF N, zero, step
    <3> DEFINE P == {n \in Nat : n <= N => ServingOn(W, run[n], k, cs, N - (n))}
    <3>1. 0 \in P
      <4>1. run[0] = zero
        BY <1>2, <2>2
      <4> QED
        BY <4>1, <2>3
    <3>2. ASSUME NEW n \in Nat, n \in P PROVE n + 1 \in P
      <4> SUFFICES ASSUME n + 1 <= N PROVE ServingOn(W, run[n + 1], k, cs, N - (n + 1))
        OBVIOUS
      <4>1. n \in 0..N - 1 /\ n <= N /\ (n + 1) - 1 = n
        BY <1>2
      <4>2. run[n + 1] = step(run[n], n + 1)
        BY <1>2, <2>2
      <4>3. ServingOn(W, run[n], k, cs, N - (n))
        BY <3>2, <4>1
      <4> HIDE DEF P
      <4>4. ServingOn(W, step(run[n], n + 1), k, cs, N - (n + 1))
        BY <2>4, <4>1, <4>3
      <4> QED
        BY <4>2, <4>4
    <3>3. N \in P
      BY <1>2, <3>1, <3>2, NatSetInduction
    <3> QED
      BY <1>2, <3>3
  <2> HIDE DEF U, zero, step
  <2>6. Served(W, U, k, cs) /\ (U.dict[k].v = Empty \/ Left(U, k) = 0)
    <3> HIDE DEF N
    <3>1. N - (N) = 0
      BY <1>2
    <3> QED
      BY <2>5, <3>1 DEF ServingOn, U
  <2> HIDE DEF U
  <2>7. Serving(U, k, cs) /\ GoodBut(U, {k}, cs) /\ Goes(W, U) /\ Alike(W, U) /\ ToServe(U) <= ToServe(W)
    BY <2>6 DEF Served, Serving
  <2>8. CASE U.dict[k].v = Empty
    <3>1. V = [U EXCEPT !.dict = Without(@, k)]
      BY <2>0, <2>8
    <3>2. GoodBut(V, {}, cs) /\ Quiet(U, V) /\ V.ready = U.ready
      BY <2>7, <3>1, EmptiedGood
    <3>3. Waiting(V) = Waiting(U)
      BY <3>2 DEF Quiet, Waiting, Has
    <3>4. ToServe(V) = ToServe(U)
      BY <3>2, <3>3 DEF ToServe
    <3>5. Goes(W, V)
      BY <2>7, <3>2, GoodParts, QuietGoes, GoesTrans
    <3>6. Alike(W, V)
      BY <2>7, <3>2 DEF Quiet, Alike
    <3> QED
      BY <2>7, <3>2, <3>4, <3>5, <3>6 DEF V
  <2>9. CASE U.dict[k].v # Empty
    <3>1. V = U
      BY <2>0, <2>9
    <3>2. k \notin DOMAIN U.blocking_keys
      BY <2>6, <2>7, <2>9, LeftIs
    <3>3. GoodBut(U, {}, cs)
      BY <2>7, <2>9, <3>2, ServingDone
    <3> QED
      BY <2>7, <3>1, <3>3 DEF V
  <2> QED
    BY <2>8, <2>9
<1> QED
  BY <1>3, <1>4

Handling(W, A, cs, m) ==
    GoodBut(A, {}, cs) /\ Goes(W, A) /\ Alike(W, A) /\ (A.ready = Empty \/ ToServe(A) <= m)

\* The next list that is ready.
LEMMA NextGood ==
  ASSUME NEW W, NEW cs, GoodBut(W, {}, cs), W.ready # Empty
  PROVE  LET V == [W EXCEPT !.ready = Tail(@)]
             k == Head(W.ready)
         IN  /\ GoodBut(V, {k}, cs) /\ Goes(W, V) /\ Alike(W, V) /\ k \in Keys /\ DirtyOn(V, {k})
             /\ ToServe(V) = ToServe(W) - 1
<1> DEFINE r == W.ready
           k == Head(r)
           t == Tail(r)
           V == [W EXCEPT !.ready = Tail(@)]
<1>1. Shape(W) /\ Data(W, {}) /\ Queues(W)
  BY GoodParts
<1>2. r \in Seq(Keys) /\ r # Empty
  BY <1>1 DEF Data
<1>3. /\ k \in Keys /\ t \in Seq(Keys) /\ Len(t) = Len(r) - 1 /\ Len(r) \in Nat \ {0}
      /\ Contains(r, k) /\ \A x : Contains(r, x) <=> x = k \/ Contains(t, x)
  <2> HIDE DEF r
  <2> QED
    BY <1>2, HeadTailIs
<1>4. V = [W EXCEPT !.ready = t]
  OBVIOUS
<1> HIDE DEF V, t, k
<1>5. Around(W, V) /\ V.cl = W.cl /\ V.dict = W.dict /\ V.ready = t /\ V.link = W.link
  BY <1>1, <1>4 DEF Around, Shape, Fields
<1>6. Dirtied(W, V) /\ DirtyOn(V, {})
  BY <1>5 DEF Dirtied, DirtyOn
<1>7. Values(V.dict) /\ Full(V.dict, {k}) /\ V.ready \in Seq(Keys) /\ V.link \in Seq(Command)
  BY <1>1, <1>3, <1>5 DEF Data, Full
<1>8. Pending(V, {k})
  BY <1>1, <1>3, <1>5 DEF Data, Pending, IsList, Around, r
<1>9. \A x : Contains(V.ready, x) => Contains(W.ready, x)
  BY <1>3, <1>5 DEF r
<1>10. GoodBut(V, {k}, cs) /\ Quiet(W, V)
  BY <1>5, <1>6, <1>7, <1>8, <1>9, WroteGood
<1>11. DirtyOn(V, {k})
  BY <1>1, <1>3, <1>5 DEF Data, ReadyDirty, DirtyOn, r
<1>12. Goes(W, V) /\ Alike(W, V)
  BY <1>1, <1>10, QuietGoes DEF Quiet, Alike
<1>13. ToServe(V) = ToServe(W) - 1
  <2>1. Waiting(V) = Waiting(W)
    BY <1>5 DEF Waiting, Has
  <2>2. Cardinality(Waiting(W)) \in Nat
    BY <1>1, LoadNat, FS_CardinalityType
  <2> QED
    BY <1>3, <1>5, <2>1, <2>2 DEF ToServe, r
<1> QED
  BY <1>3, <1>10, <1>11, <1>12, <1>13 DEF V, k, r

\* Once a command is done no list is ready any more.
LEMMA HandleGood ==
  ASSUME NEW W, NEW cs, GoodBut(W, {}, cs)
  PROVE  LET V == handleClientsBlockedOnLists(W) IN
         GoodBut(V, {}, cs) /\ Goes(W, V) /\ Alike(W, V) /\ V.ready = Empty
<1> DEFINE N == ToServe(W)
           zero == W
           step(A, n) == IF A.ready = Empty THEN A ELSE ServeKey([A EXCEPT !.ready = Tail(@)], Head(A.ready))
           run[n \in 0..N] == IF n = 0 THEN zero ELSE step(run[n - 1], n)
           V == handleClientsBlockedOnLists(W)
<1>1. V = run[N]
  BY DEF handleClientsBlockedOnLists, ServeReady, ToServe, Rounds
<1> HIDE DEF V
<1>2. N \in Nat
  BY ToServeNat
<1>3. run = [n \in 0..N |-> IF n = 0 THEN zero ELSE step(run[n - 1], n)]
  <2> HIDE DEF N, zero, step
  <2> DEFINE P == {m \in Nat : \E f : f = [n \in 0..m |-> IF n = 0 THEN zero ELSE step(f[n - 1], n)]}
  <2>1. 0 \in P
    <3> DEFINE f == [n \in 0..0 |-> zero]
    <3>1. f = [n \in 0..0 |-> IF n = 0 THEN zero ELSE step(f[n - 1], n)]
      OBVIOUS
    <3> HIDE DEF f
    <3> QED
      BY <3>1
  <2>2. ASSUME NEW m \in Nat, m \in P PROVE m + 1 \in P
    <3>1. PICK f : f = [n \in 0..m |-> IF n = 0 THEN zero ELSE step(f[n - 1], n)]
      BY <2>2
    <3> DEFINE g == [n \in 0..m + 1 |-> IF n = m + 1 THEN step(f[m], n) ELSE f[n]]
    <3>2. \A n \in 0..m + 1 : g[n] = IF n = 0 THEN zero ELSE step(g[n - 1], n)
      <4> SUFFICES ASSUME NEW n \in 0..m + 1 PROVE g[n] = IF n = 0 THEN zero ELSE step(g[n - 1], n)
        OBVIOUS
      <4>1. CASE n = m + 1
        BY <4>1
      <4>2. CASE n # m + 1
        BY <3>1, <4>2
      <4> QED
        BY <4>1, <4>2
    <3>3. g = [n \in 0..m + 1 |-> IF n = 0 THEN zero ELSE step(g[n - 1], n)]
      BY <3>2
    <3> HIDE DEF g
    <3> QED
      BY <3>3
  <2>3. N \in P
    BY <1>2, <2>1, <2>2, NatSetInduction
  <2> QED
    BY <2>3 DEF N
<1> HIDE DEF run
<1>4. Handling(W, zero, cs, N - 0)
  <2>1. Goes(W, W) /\ Alike(W, W)
    BY GoodParts, GoesRefl DEF Alike
  <2>2. ToServe(W) <= N - 0
    BY <1>2
  <2> HIDE DEF N
  <2> QED
    BY <2>1, <2>2 DEF Handling
<1>5. ASSUME NEW A, NEW n \in 0..N - 1, Handling(W, A, cs, N - n) PROVE Handling(W, step(A, n + 1), cs, N - (n + 1))
  <2> HIDE DEF N
  <2>1. GoodBut(A, {}, cs) /\ Goes(W, A) /\ Alike(W, A)
    BY <1>5 DEF Handling
  <2>2. CASE A.ready = Empty
    BY <2>1, <2>2 DEF Handling
  <2>3. CASE A.ready # Empty
    <3> DEFINE B == [A EXCEPT !.ready = Tail(@)]
               k == Head(A.ready)
               C == ServeKey(B, k)
    <3>1. /\ GoodBut(B, {k}, cs) /\ Goes(A, B) /\ Alike(A, B) /\ k \in Keys /\ DirtyOn(B, {k})
          /\ ToServe(B) = ToServe(A) - 1
      BY <2>1, <2>3, NextGood
    <3>2. step(A, n + 1) = C
      BY <2>3
    <3> HIDE DEF B, k, step
    <3>3. GoodBut(C, {}, cs) /\ Goes(B, C) /\ Alike(B, C) /\ ToServe(C) <= ToServe(B)
      BY <3>1, ServeKeyGood
    <3> HIDE DEF C
    <3>4. Goes(W, C) /\ Alike(W, C)
      <4>1. Queues(W) /\ Queues(A) /\ Queues(B) /\ Queues(C)
        BY <2>1, <3>1, <3>3, GoodParts
      <4>2. Goes(W, B)
        BY <2>1, <3>1, <4>1, GoesTrans
      <4> QED
        BY <2>1, <3>1, <3>3, <4>1, <4>2, GoesTrans DEF Alike
    <3>5. ToServe(C) <= N - (n + 1)
      <4>1. ToServe(A) <= N - n
        BY <1>5, <2>3 DEF Handling
      <4>2. ToServe(A) \in Nat /\ ToServe(B) \in Nat /\ ToServe(C) \in Nat
        BY <2>1, <3>1, <3>3, ToServeNat
      <4> QED
        BY <1>2, <3>1, <3>3, <4>1, <4>2
    <3> QED
      BY <3>2, <3>3, <3>4, <3>5 DEF Handling
  <2> QED
    BY <2>2, <2>3
<1>6. Handling(W, run[N], cs, N - (N))
  <2> HIDE DEF N, zero, step
  <2> DEFINE P == {n \in Nat : n <= N => Handling(W, run[n], cs, N - (n))}
  <2>1. 0 \in P
    <3>1. run[0] = zero
      BY <1>2, <1>3
    <3> QED
      BY <3>1, <1>4
  <2>2. ASSUME NEW n \in Nat, n \in P PROVE n + 1 \in P
    <3> SUFFICES ASSUME n + 1 <= N PROVE Handling(W, run[n + 1], cs, N - (n + 1))
      OBVIOUS
    <3>1. n \in 0..N - 1 /\ n <= N /\ (n + 1) - 1 = n
      BY <1>2
    <3>2. run[n + 1] = step(run[n], n + 1)
      BY <1>2, <1>3
    <3>3. Handling(W, run[n], cs, N - (n))
      BY <2>2, <3>1
    <3> HIDE DEF P
    <3>4. Handling(W, step(run[n], n + 1), cs, N - (n + 1))
      BY <1>5, <3>1, <3>3
    <3> QED
      BY <3>2, <3>4
  <2>3. N \in P
    BY <1>2, <2>1, <2>2, NatSetInduction
  <2> QED
    BY <1>2, <2>3
<1> HIDE DEF zero, step
<1>7. GoodBut(V, {}, cs) /\ Goes(W, V) /\ Alike(W, V)
  BY <1>1, <1>6 DEF Handling
<1>8. V.ready = Empty
  <2> SUFFICES ASSUME V.ready # Empty PROVE FALSE
    OBVIOUS
  <2>1. ToServe(V) <= N - (N)
    BY <1>1, <1>6 DEF Handling
  <2> HIDE DEF N
  <2>2. Len(V.ready) \in Nat \ {0}
    <3>1. V.ready \in Seq(Keys)
      BY <1>7, GoodParts DEF Data
    <3> DEFINE r == V.ready
    <3>2. r \in Seq(Keys) /\ r # Empty
      BY <3>1
    <3> HIDE DEF r
    <3>3. Len(r) \in Nat \ {0}
      BY <3>2, HeadTailIs
    <3> QED
      BY <3>3 DEF r
  <2>3. Cardinality(Waiting(V)) \in Nat
    BY <1>7, GoodParts, LoadNat, FS_CardinalityType
  <2> QED
    BY <1>2, <2>1, <2>2, <2>3 DEF ToServe
<1> QED
  BY <1>7, <1>8 DEF V

----------------------------------------------------------------------------
\* c has executed a command, and waits now if it was not in a transaction.
Obeyed(W, V, c, cs, inmulti) ==
    /\ GoodBut(V, {}, cs) /\ V.cl[c].alive
    /\ Goes(W, V) \/ (~inmulti /\ BlockedBy(W, V, c))

LEMMA QuietObeyed ==
  ASSUME NEW W, NEW V, NEW cs, GoodBut(W, {}, cs), GoodBut(V, {}, cs), Quiet(W, V), NEW c \in Clients, W.cl[c].alive,
         NEW inmulti
  PROVE  Obeyed(W, V, c, cs, inmulti)
<1>1. Goes(W, V)
  BY GoodParts, QuietGoes
<1>2. V.cl[c].alive
  BY DEF Quiet
<1> QED
  BY <1>1, <1>2 DEF Obeyed

\* The reply is the last thing.
LEMMA ReplyObeyed ==
  ASSUME NEW W, NEW V, NEW cs, GoodBut(W, {}, cs), GoodBut(V, {}, cs), Quiet(W, V), NEW c \in Clients, W.cl[c].alive,
         NEW inmulti
  PROVE  Obeyed(W, addReply(V, c), c, cs, inmulti)
<1>1. V.cl[c].alive
  BY DEF Quiet
<1> DEFINE R == addReply(V, c)
<1>2. GoodBut(R, {}, cs) /\ Calm(V, R)
  BY <1>1, AddReplyKeeps
<1> HIDE DEF R
<1>3. Quiet(W, R)
  BY <1>2, QuietTrans DEF Calm
<1>4. Obeyed(W, R, c, cs, inmulti)
  BY <1>2, <1>3, QuietObeyed
<1> QED
  BY <1>4 DEF R

LEMMA QuietRefl == ASSUME NEW W PROVE Quiet(W, W)
BY DEF Quiet

\* A client that watches nothing is not dirty any more.
LEMMA CleanGood ==
  ASSUME NEW W, NEW bs, NEW cs, GoodBut(W, bs, cs), NEW c \in Clients, W.cl[c].alive, W.cl[c].watched = {}
  PROVE  LET V == ClearFlags(W, c, {"DIRTY_CAS"}) IN GoodBut(V, bs, cs) /\ Calm(W, V)
<1> DEFINE me == W.cl[c]
           r == [me EXCEPT !.flags = me.flags \ {"DIRTY_CAS"}]
           V == ClearFlags(W, c, {"DIRTY_CAS"})
<1>1. Shape(W) /\ DOMAIN me = Attributes /\ ClientOk(me, c \in W.counted) /\ Tables(W) /\ Queues(W) /\ Data(W, bs)
  BY GoodParts
<1>2. V = Put(W, c, r)
  BY <1>1 DEF ClearFlags, Put, Shape, Fields, Attributes
<1>3. /\ DOMAIN r = Attributes /\ r.watched = {} /\ r.seen = me.seen /\ r.alive = me.alive
      /\ r.keys = me.keys /\ r.subs = me.subs /\ r.pats = me.pats /\ r.querybuf = me.querybuf
      /\ r.list = me.list /\ r.flags = me.flags \ {"DIRTY_CAS"} /\ r.commands = me.commands
      /\ r.target = me.target /\ r.where = me.where /\ r.buf = me.buf /\ me.watched = {}
  BY <1>1 DEF Attributes
<1> HIDE DEF r, V
<1>4. ClientOk(r, c \in W.counted)
  BY <1>1, <1>3 DEF ClientOk
<1>5. /\ Shape(V) /\ V.cl[c] = r /\ \A d \in Clients : d # c => V.cl[d] = W.cl[d]
      /\ V.dict = W.dict /\ V.blocking_keys = W.blocking_keys /\ V.unblocked = W.unblocked
      /\ V.ready = W.ready /\ V.toclose = W.toclose /\ V.link = W.link /\ V.counted = W.counted
  BY <1>1, <1>2, <1>3, PutIs
<1>6. Tables(V)
  BY <1>1, <1>2, <1>3, PutTables
<1>7. Queues(V) /\ Pending(V, bs)
  BY <1>1, <1>3, <1>5 DEF Queues, Data, Pending, IsList
<1>8. c \in cs \/ Limit(V, c)
  <2>1. c \in cs \/ Limit(W, c)
    BY DEF GoodBut
  <2>2. me.flags \cap {"CLOSE_ASAP", "CLOSE_AFTER_REPLY"} \subseteq r.flags
    BY <1>3
  <2> QED
    BY <1>3, <1>5, <2>1, <2>2, LimitSame
<1>9. GoodBut(V, bs, cs)
  BY <1>3, <1>4, <1>5, <1>6, <1>7, <1>8, ChangeGood
<1>10. \A d \in Clients : "CLOSE_ASAP" \in V.cl[d].flags <=> "CLOSE_ASAP" \in W.cl[d].flags
  BY <1>3, <1>5
<1>11. Closing(W) => Closing(V)
  BY <1>5, <1>10, ClosingSame
<1>12. Calm(W, V)
  BY <1>3, <1>5, <1>11 DEF Calm, Quiet
<1> QED
  BY <1>9, <1>12 DEF V

LEMMA MultiGood ==
  ASSUME NEW W, NEW cs, GoodBut(W, {}, cs), NEW c \in Clients, W.cl[c].alive, NEW inmulti
  PROVE  /\ Obeyed(W, multiCommand(W, c), c, cs, inmulti) /\ Obeyed(W, discardCommand(W, c), c, cs, inmulti)
         /\ Obeyed(W, unwatchCommand(W, c), c, cs, inmulti)
<1>1. Obeyed(W, addReply(W, c), c, cs, inmulti)
  BY QuietRefl, ReplyObeyed
<1>2. Obeyed(W, addReply(SetFlags(W, c, {"MULTI"}), c), c, cs, inmulti)
  BY SetFlagsGood, ReplyObeyed DEF Calm
<1>3. Obeyed(W, addReply(discardTransaction(W, c), c), c, cs, inmulti)
  BY DiscardGood, ReplyObeyed DEF Calm
<1>4. Obeyed(W, unwatchCommand(W, c), c, cs, inmulti)
  <2> DEFINE U == unwatchAllKeys(W, c)
             V == ClearFlags(U, c, {"DIRTY_CAS"})
  <2>1. GoodBut(U, {}, cs) /\ Calm(W, U) /\ U.cl[c].watched = {}
    BY UnwatchGood
  <2>2. U.cl[c].alive
    BY <2>1 DEF Calm, Quiet
  <2> HIDE DEF U
  <2>3. GoodBut(V, {}, cs) /\ Calm(U, V)
    BY <2>1, <2>2, CleanGood
  <2> HIDE DEF V
  <2>4. Obeyed(W, addReply(V, c), c, cs, inmulti)
    BY <2>1, <2>3, QuietTrans, ReplyObeyed DEF Calm
  <2> QED
    BY <2>4 DEF unwatchCommand, U, V
<1> QED
  BY <1>1, <1>2, <1>3, <1>4 DEF multiCommand, discardCommand

LEMMA WatchObeyed ==
  ASSUME NEW W, NEW cs, GoodBut(W, {}, cs), NEW c \in Clients, W.cl[c].alive, W.ready = Empty, NEW s \in Seq(Keys),
         NEW inmulti
  PROVE  Obeyed(W, watchCommand(W, c, s), c, cs, inmulti)
<1>1. ToSet(s) \subseteq Keys
  BY DEF ToSet
<1>2. Obeyed(W, addReply(W, c), c, cs, inmulti)
  BY QuietRefl, ReplyObeyed
<1>3. Obeyed(W, addReply(watchForKey(W, c, ToSet(s)), c), c, cs, inmulti)
  <2> DEFINE V == watchForKey(W, c, ToSet(s))
  <2>1. GoodBut(V, {}, cs) /\ Calm(W, V)
    BY <1>1, WatchGood
  <2> HIDE DEF V
  <2>2. Obeyed(W, addReply(V, c), c, cs, inmulti)
    BY <2>1, ReplyObeyed DEF Calm
  <2> QED
    BY <2>2 DEF V
<1> QED
  BY <1>2, <1>3 DEF watchCommand

LEMMA PublishObeyed ==
  ASSUME NEW W, NEW cs, GoodBut(W, {}, cs), NEW c \in Clients, W.cl[c].alive, NEW ch \in Channels, NEW inmulti
  PROVE  Obeyed(W, publishCommand(W, c, ch), c, cs, inmulti)
<1> DEFINE A == pubsubPublishMessage(W, ch)
           B == addReply(A, c)
           q == <<"PUBLISH", ch>>
           V == propagate(B, q)
<1>1. GoodBut(A, {}, cs) /\ Quiet(W, A)
  BY PublishGood DEF Replied
<1>2. q \in Command
  BY DEF Command
<1>3. V = publishCommand(W, c, ch)
  BY DEF publishCommand
<1> HIDE DEF A
<1>4. GoodBut(B, {}, cs) /\ Quiet(A, B)
  BY <1>1, AddReplyKeeps DEF Quiet, Calm
<1> HIDE DEF B, q
<1>5. GoodBut(V, {}, cs) /\ Quiet(B, V)
  BY <1>2, <1>4, PropagateGood
<1> HIDE DEF V
<1>6. Quiet(W, V)
  BY <1>1, <1>4, <1>5, QuietTrans
<1> QED
  BY <1>3, <1>5, <1>6, QuietObeyed

LEMMA KillObeyed ==
  ASSUME NEW W, NEW cs, GoodBut(W, {}, cs), NEW c \in Clients, W.cl[c].alive, NEW d \in Clients, NEW inmulti
  PROVE  Obeyed(W, clientKill(W, c, d), c, cs, inmulti)
<1> DEFINE A == addReply(W, c)
<1>1. GoodBut(A, {}, cs) /\ Quiet(W, A) /\ Obeyed(W, A, c, cs, inmulti)
  BY AddReplyKeeps, QuietRefl, ReplyObeyed DEF Calm
<1>2. A.cl[c].alive /\ A.cl[d].alive = W.cl[d].alive
  BY <1>1 DEF Quiet
<1>3. clientKill(W, c, d) = IF ~W.cl[d].alive THEN A ELSE IF d = c THEN SetFlags(A, c, {"CLOSE_AFTER_REPLY"}) ELSE freeClient(A, d)
  BY DEF clientKill
<1> HIDE DEF A
<1>4. CASE ~W.cl[d].alive
  BY <1>1, <1>3, <1>4
<1>5. CASE W.cl[d].alive /\ d = c
  <2> DEFINE V == SetFlags(A, c, {"CLOSE_AFTER_REPLY"})
  <2>1. GoodBut(V, {}, cs) /\ Quiet(A, V)
    BY <1>1, <1>2, SetFlagsGood DEF Calm
  <2>2. V = clientKill(W, c, d)
    BY <1>3, <1>5
  <2> HIDE DEF V
  <2> QED
    BY <1>1, <2>1, <2>2, QuietTrans, QuietObeyed
<1>6. CASE W.cl[d].alive /\ d # c
  <2> DEFINE V == freeClient(A, d)
  <2>1. GoodBut(V, {}, cs) /\ Freed(A, V, d) /\ Goes(A, V)
    BY <1>1, <1>2, <1>6, FreeNow
  <2>2. V = clientKill(W, c, d)
    BY <1>3, <1>6
  <2> HIDE DEF V
  <2>3. Goes(W, V)
    BY <1>1, <2>1, GoodParts, QuietGoes, GoesTrans
  <2>4. V.cl[c].alive
    BY <1>2, <1>6, <2>1 DEF Freed
  <2> QED
    BY <2>1, <2>2, <2>3, <2>4 DEF Obeyed
<1> QED
  BY <1>4, <1>5, <1>6

LEMMA AuthObeyed ==
  ASSUME NEW W, NEW cs, GoodBut(W, {}, cs), NEW c \in Clients, W.cl[c].alive, NEW right, NEW inmulti
  PROVE  Obeyed(W, authCommand(W, c, right), c, cs, inmulti)
<1> DEFINE V == [W EXCEPT !.cl[c].authenticated = right]
<1>1. GoodBut(V, {}, cs) /\ Quiet(W, V)
  BY AuthGood DEF Calm
<1> HIDE DEF V
<1>2. Obeyed(W, addReply(V, c), c, cs, inmulti)
  BY <1>1, ReplyObeyed
<1> QED
  BY <1>2 DEF authCommand, V

LEMMA RunObeyed ==
  ASSUME NEW W, NEW cs, GoodBut(W, {}, cs), NEW c \in Clients, W.cl[c].alive, NEW q \in Command, Name(q) \in OfDataset,
         NEW inmulti
  PROVE  Obeyed(W, addReply(Run(W, q), c), c, cs, inmulti) /\ Obeyed(W, Run(addReply(W, c), q), c, cs, inmulti)
<1>1. Obeyed(W, addReply(Run(W, q), c), c, cs, inmulti)
  BY RunGood, ReplyObeyed
<1>2. Obeyed(W, Run(addReply(W, c), q), c, cs, inmulti)
  <2> DEFINE A == addReply(W, c)
             V == Run(A, q)
  <2>1. GoodBut(A, {}, cs) /\ Quiet(W, A)
    BY AddReplyKeeps DEF Calm
  <2> HIDE DEF A
  <2>2. GoodBut(V, {}, cs) /\ Quiet(A, V)
    BY <2>1, RunGood
  <2> HIDE DEF V
  <2>3. Obeyed(W, V, c, cs, inmulti)
    BY <2>1, <2>2, QuietTrans, QuietObeyed
  <2> QED
    BY <2>3 DEF V, A
<1> QED
  BY <1>1, <1>2

LEMMA FirstOfIs ==
  ASSUME NEW S, S \subseteq Nat \ {0}
  PROVE  IF S = {} THEN FirstOf(S) = 0 ELSE FirstOf(S) \in S /\ FirstOf(S) # 0
<1>1. CASE S = {}
  BY <1>1 DEF FirstOf
<1>2. CASE S # {}
  <2>1. Min(S) \in S
    BY <1>2, NatMin
  <2>2. FirstOf(S) = Min(S)
    BY <1>2 DEF FirstOf
  <2> QED
    BY <1>2, <2>1, <2>2
<1> QED
  BY <1>1, <1>2

\* The wait itself.
LEMMA BlockObeyed ==
  ASSUME NEW W, NEW cs, GoodBut(W, {}, cs), NEW c \in Clients, W.cl[c].alive, "BLOCKED" \notin W.cl[c].flags,
         NEW ks, ks \subseteq Keys, ks # {}, \A k \in ks : k \notin DOMAIN W.dict,
         NEW timeout, NEW target \in Keys \cup {Nil}, NEW where \in Where
  PROVE  Obeyed(W, blockForKeys(W, c, ks, timeout, target, where), c, cs, FALSE)
<1> DEFINE V == blockForKeys(W, c, ks, timeout, target, where)
<1>1. GoodBut(V, {}, cs) /\ BlockedBy(W, V, c)
  BY BlockGood
<1> HIDE DEF V
<1>2. V.cl[c].alive
  BY <1>1 DEF BlockedBy
<1>3. Obeyed(W, V, c, cs, FALSE)
  BY <1>1, <1>2 DEF Obeyed
<1> QED
  BY <1>3 DEF V

LEMMA PopObeyed ==
  ASSUME NEW W, NEW cs, GoodBut(W, {}, cs), NEW c \in Clients, W.cl[c].alive, NEW ks \in Some(Keys),
         NEW where \in Where, NEW timeout \in Nat, NEW inmulti \in BOOLEAN,
         inmulti \/ "BLOCKED" \notin W.cl[c].flags
  PROVE  Obeyed(W, blockingPopGenericCommand(W, c, ks, where, timeout, inmulti), c, cs, inmulti)
<1> DEFINE S == {i \in DOMAIN ks : ks[i] \in DOMAIN W.dict}
           there == FirstOf(S)
           V == blockingPopGenericCommand(W, c, ks, where, timeout, inmulti)
<1>0. ks \in Seq(Keys) /\ ks # Empty /\ DOMAIN ks = 1..Len(ks) /\ Len(ks) \in Nat
  BY DEF Some
<1>1. IF S = {} THEN there = 0 ELSE there \in S /\ there # 0
  <2>1. S \subseteq Nat \ {0}
    BY <1>0
  <2> HIDE DEF S
  <2> QED
    BY <2>1, FirstOfIs
<1>2. V = IF there # 0
          THEN IF IsList(W, ks[there]) THEN Run(addReply(W, c), <<"POP", ks[there], where>>) ELSE addReply(W, c)
          ELSE IF inmulti THEN addReply(W, c)
          ELSE blockForKeys(W, c, ToSet(ks), Timeout(timeout), Nil, where)
  BY DEF blockingPopGenericCommand
<1>3. Obeyed(W, addReply(W, c), c, cs, inmulti)
  BY QuietRefl, ReplyObeyed
<1> HIDE DEF V
<1>4. CASE there # 0
  <2>1. ks[there] \in Keys
    BY <1>0, <1>1, <1>4
  <2> DEFINE k == ks[there]
             q == <<"POP", k, where>>
  <2> HIDE DEF k, there
  <2>2. k \in Keys
    BY <2>1 DEF k
  <2>3. q \in Command /\ Name(q) \in OfDataset
    BY <2>2, PopCommand DEF Name, OfDataset
  <2>4. V = IF IsList(W, k) THEN Run(addReply(W, c), q) ELSE addReply(W, c)
    BY <1>2, <1>4 DEF k
  <2> HIDE DEF q
  <2>5. Obeyed(W, Run(addReply(W, c), q), c, cs, inmulti)
    BY <2>3, RunObeyed
  <2>6. Obeyed(W, V, c, cs, inmulti)
    BY <1>3, <2>4, <2>5
  <2> QED
    BY <2>6 DEF V
<1>5. CASE there = 0 /\ inmulti
  <2>1. V = addReply(W, c)
    BY <1>2, <1>5
  <2> QED
    BY <1>3, <2>1 DEF V
<1>6. CASE there = 0 /\ ~inmulti
  <2>1. S = {}
    BY <1>1, <1>6
  <2>2. ToSet(ks) \subseteq Keys /\ ToSet(ks) # {} /\ \A k \in ToSet(ks) : k \notin DOMAIN W.dict
    <3>1. ks[1] \in ToSet(ks)
      <4>1. Len(ks) \in Nat \ {0}
        BY <1>0, HeadTailIs
      <4>2. 1 \in DOMAIN ks
        BY <1>0, <4>1
      <4> QED
        BY <4>2 DEF ToSet
    <3>2. \A k \in ToSet(ks) : \E i \in DOMAIN ks : ks[i] = k
      BY DEF ToSet
    <3>3. \A k \in ToSet(ks) : k \notin DOMAIN W.dict
      BY <2>1, <3>2
    <3>4. \A k \in ToSet(ks) : k \in Keys
      BY <1>0, <3>2
    <3> QED
      BY <3>1, <3>3, <3>4
  <2>3. V = blockForKeys(W, c, ToSet(ks), Timeout(timeout), Nil, where)
    BY <1>2, <1>6
  <2> DEFINE s == ToSet(ks)
             t == Timeout(timeout)
             A == blockForKeys(W, c, s, t, Nil, where)
  <2> HIDE DEF s, t
  <2>4. Obeyed(W, A, c, cs, FALSE)
    BY <1>6, <2>2, BlockObeyed DEF s
  <2>5. V = A
    BY <2>3 DEF s, t
  <2> HIDE DEF A
  <2>6. Obeyed(W, V, c, cs, FALSE)
    BY <2>4, <2>5
  <2> QED
    BY <1>6, <2>6 DEF V, Obeyed
<1> QED
  BY <1>4, <1>5, <1>6

LEMMA PopPushObeyed ==
  ASSUME NEW W, NEW cs, GoodBut(W, {}, cs), NEW c \in Clients, W.cl[c].alive, NEW k \in Keys, NEW target \in Keys,
         NEW timeout \in Nat, NEW inmulti \in BOOLEAN, inmulti \/ "BLOCKED" \notin W.cl[c].flags
  PROVE  Obeyed(W, brpoplpushCommand(W, c, k, target, timeout, inmulti), c, cs, inmulti)
<1> DEFINE q == <<"RPOPLPUSH", k, target>>
           V == brpoplpushCommand(W, c, k, target, timeout, inmulti)
<1>1. V = IF k \in DOMAIN W.dict
          THEN IF IsList(W, k) THEN Run(addReply(W, c), q) ELSE addReply(W, c)
          ELSE IF inmulti THEN addReply(W, c)
          ELSE blockForKeys(W, c, {k}, Timeout(timeout), target, "tail")
  BY DEF brpoplpushCommand
<1>2. q \in Command /\ Name(q) \in OfDataset
  BY DEF Command, Name, OfDataset
<1>3. Obeyed(W, addReply(W, c), c, cs, inmulti)
  BY QuietRefl, ReplyObeyed
<1> HIDE DEF V, q
<1>4. Obeyed(W, Run(addReply(W, c), q), c, cs, inmulti)
  BY <1>2, RunObeyed
<1>5. CASE k \in DOMAIN W.dict \/ inmulti
  <2>1. Obeyed(W, V, c, cs, inmulti)
    BY <1>1, <1>3, <1>4, <1>5
  <2> QED
    BY <2>1 DEF V
<1>6. CASE k \notin DOMAIN W.dict /\ ~inmulti
  <2> DEFINE s == {k}
             t == Timeout(timeout)
             tail == "tail"
             A == blockForKeys(W, c, s, t, target, tail)
  <2>1. V = A
    BY <1>1, <1>6
  <2>2. s \subseteq Keys /\ s # {} /\ (\A x \in s : x \notin DOMAIN W.dict) /\ tail \in Where
    BY <1>6 DEF Where
  <2>3. Obeyed(W, A, c, cs, FALSE)
    <3> HIDE DEF s, t, tail
    <3> QED
      BY <1>6, <2>2, BlockObeyed
  <2> HIDE DEF A
  <2>4. Obeyed(W, V, c, cs, inmulti)
    BY <1>6, <2>1, <2>3 DEF Obeyed
  <2> QED
    BY <2>4 DEF V
<1> QED
  BY <1>5, <1>6

LEMMA CallGood ==
  ASSUME NEW W, NEW cs, GoodBut(W, {}, cs), NEW c \in Clients, W.cl[c].alive, NEW q \in Command,
         Name(q) \notin {"EXEC", "QUIT", "BOGUS"}, NEW inmulti \in BOOLEAN,
         inmulti \/ "BLOCKED" \notin W.cl[c].flags, Name(q) = "WATCH" => W.ready = Empty
  PROVE  Obeyed(W, callCommand(W, c, q, inmulti), c, cs, inmulti)
<1> DEFINE V == callCommand(W, c, q, inmulti)
<1>1. CASE Name(q) = "BPOP"
  <2>1. V = blockingPopGenericCommand(W, c, q[2], q[3], q[4], inmulti)
    BY <1>1 DEF callCommand, OfDataset
  <2>2. q[2] \in Some(Keys) /\ q[3] \in Where /\ q[4] \in Nat
    BY <1>1, CommandIs
  <2> QED
    BY <2>1, <2>2, PopObeyed
<1>2. CASE Name(q) = "BRPOPLPUSH"
  <2>1. V = brpoplpushCommand(W, c, q[2], q[3], q[4], inmulti)
    BY <1>2 DEF callCommand, OfDataset
  <2>2. q[2] \in Keys /\ q[3] \in Keys /\ q[4] \in Nat
    BY <1>2, CommandIs
  <2> QED
    BY <2>1, <2>2, PopPushObeyed
<1>3. CASE Name(q) \in {"MULTI", "DISCARD", "UNWATCH"}
  <2>1. V = multiCommand(W, c) \/ V = discardCommand(W, c) \/ V = unwatchCommand(W, c)
    BY <1>3 DEF callCommand, OfDataset
  <2> HIDE DEF V
  <2>2. Obeyed(W, V, c, cs, inmulti)
    BY <2>1, MultiGood
  <2> QED
    BY <2>2 DEF V
<1>4. CASE Name(q) = "WATCH"
  <2>1. V = watchCommand(W, c, q[2])
    BY <1>4 DEF callCommand, OfDataset
  <2>2. q[2] \in Seq(Keys)
    BY <1>4, CommandIs DEF Some
  <2> QED
    BY <1>4, <2>1, <2>2, WatchObeyed
<1>5. CASE Name(q) = "SUBSCRIBE"
  <2>1. V = subscribeCommand(W, c, q[2])
    BY <1>5 DEF callCommand, OfDataset
  <2>2. q[2] \in Seq(Channels)
    BY <1>5, CommandIs DEF Some
  <2> QED
    BY <2>1, <2>2, SubscribeGood, QuietObeyed DEF Calm
<1>6. CASE Name(q) = "UNSUBSCRIBE"
  <2>1. V = unsubscribeCommand(W, c, q[2])
    BY <1>6 DEF callCommand, OfDataset
  <2>2. q[2] \in Seq(Channels)
    BY <1>6, CommandIs
  <2> QED
    BY <2>1, <2>2, UnsubscribeGood, QuietObeyed DEF Calm
<1>7. CASE Name(q) = "PSUBSCRIBE"
  <2>1. V = psubscribeCommand(W, c, q[2])
    BY <1>7 DEF callCommand, OfDataset
  <2>2. q[2] \in Seq(DOMAIN Matches)
    BY <1>7, CommandIs DEF Some
  <2> QED
    BY <2>1, <2>2, PSubscribeGood, QuietObeyed DEF Calm
<1>8. CASE Name(q) = "PUNSUBSCRIBE"
  <2>1. V = punsubscribeCommand(W, c, q[2])
    BY <1>8 DEF callCommand, OfDataset
  <2>2. q[2] \in Seq(DOMAIN Matches)
    BY <1>8, CommandIs
  <2> QED
    BY <2>1, <2>2, UnsubscribeGood, QuietObeyed DEF Calm
<1>9. CASE Name(q) = "PUBLISH"
  <2>1. V = publishCommand(W, c, q[2])
    BY <1>9 DEF callCommand, OfDataset
  <2>2. q[2] \in Channels
    BY <1>9, CommandIs
  <2> QED
    BY <2>1, <2>2, PublishObeyed
<1>10. CASE Name(q) = "KILL"
  <2>1. V = clientKill(W, c, q[2])
    BY <1>10 DEF callCommand, OfDataset
  <2>2. q[2] \in Clients
    BY <1>10, CommandIs
  <2> QED
    BY <2>1, <2>2, KillObeyed
<1>11. CASE Name(q) = "AUTH"
  <2>1. V = authCommand(W, c, q[2])
    BY <1>11 DEF callCommand, OfDataset
  <2> QED
    BY <2>1, AuthObeyed
<1>12. CASE Name(q) \in OfDataset
  <2>1. V = addReply(Run(W, q), c)
    BY <1>12 DEF callCommand, OfDataset
  <2> QED
    BY <1>12, <2>1, RunObeyed
<1>13. Name(q) \in OfDataset \cup {"BPOP", "BRPOPLPUSH", "WATCH", "PUBLISH", "SUBSCRIBE", "UNSUBSCRIBE",
          "PSUBSCRIBE", "PUNSUBSCRIBE", "KILL", "AUTH", "MULTI", "EXEC", "DISCARD", "UNWATCH", "QUIT", "BOGUS"}
  BY CommandIs
<1> HIDE DEF V
<1> QED
  BY <1>1, <1>2, <1>3, <1>4, <1>5, <1>6, <1>7, <1>8, <1>9, <1>10, <1>11, <1>12, <1>13 DEF V

\* A transaction: what c queued is executed without a stop.
Executing(W, A, c, cs) == GoodBut(A, {}, cs) /\ Goes(W, A) /\ A.cl[c].alive

LEMMA QuietExecuting ==
  ASSUME NEW W, NEW A, NEW V, NEW c \in Clients, NEW cs, GoodBut(W, {}, cs), Executing(W, A, c, cs), GoodBut(V, {}, cs),
         Quiet(A, V)
  PROVE  Executing(W, V, c, cs)
<1>1. GoodBut(A, {}, cs) /\ Goes(W, A)
  BY DEF Executing
<1>2. Goes(A, V)
  BY <1>1, GoodParts, QuietGoes
<1>3. Goes(W, V)
  BY <1>1, <1>2, GoodParts, GoesTrans
<1>4. V.cl[c].alive
  BY DEF Quiet, Executing
<1> QED
  BY <1>3, <1>4 DEF Executing

LEMMA MarkCommand == <<"MULTI">> \in Command /\ <<"EXEC">> \in Command
BY DEF Command

LEMMA ExecutedGood ==
  ASSUME NEW W, NEW c \in Clients, NEW cs, GoodBut(W, {}, cs), W.cl[c].alive
  PROVE  Executing(W, Executed(W, c), c, cs)
<1> DEFINE qs == W.cl[c].commands
           first == FirstOf({i \in DOMAIN qs : "readonly" \notin Flags(qs[i])})
           N == Len(qs)
           zero == unwatchAllKeys(W, c)
           step(A, n) == callCommand(IF n = first THEN propagate(A, <<"MULTI">>) ELSE A, c, qs[n], TRUE)
           run[n \in 0..N] == IF n = 0 THEN zero ELSE step(run[n - 1], n)
           U == discardTransaction(addReply(run[N], c), c)
           V == Executed(W, c)
<1>1. V = IF first # 0 THEN propagate(U, <<"EXEC">>) ELSE U
  BY DEF Executed
<1>0. qs \in Seq(Queued)
  BY GoodParts DEF ClientOk
<1> HIDE DEF V, first
<1>2. N \in Nat /\ \A i \in 1..N : qs[i] \in Queued
  <2> HIDE DEF qs
  <2> QED
    BY <1>0
<1>3. run = [n \in 0..N |-> IF n = 0 THEN zero ELSE step(run[n - 1], n)]
  <2> HIDE DEF N, zero, step
  <2> DEFINE P == {m \in Nat : \E f : f = [n \in 0..m |-> IF n = 0 THEN zero ELSE step(f[n - 1], n)]}
  <2>1. 0 \in P
    <3> DEFINE f == [n \in 0..0 |-> zero]
    <3>1. f = [n \in 0..0 |-> IF n = 0 THEN zero ELSE step(f[n - 1], n)]
      OBVIOUS
    <3> HIDE DEF f
    <3> QED
      BY <3>1
  <2>2. ASSUME NEW m \in Nat, m \in P PROVE m + 1 \in P
    <3>1. PICK f : f = [n \in 0..m |-> IF n = 0 THEN zero ELSE step(f[n - 1], n)]
      BY <2>2
    <3> DEFINE g == [n \in 0..m + 1 |-> IF n = m + 1 THEN step(f[m], n) ELSE f[n]]
    <3>2. \A n \in 0..m + 1 : g[n] = IF n = 0 THEN zero ELSE step(g[n - 1], n)
      <4> SUFFICES ASSUME NEW n \in 0..m + 1 PROVE g[n] = IF n = 0 THEN zero ELSE step(g[n - 1], n)
        OBVIOUS
      <4>1. CASE n = m + 1
        BY <4>1
      <4>2. CASE n # m + 1
        BY <3>1, <4>2
      <4> QED
        BY <4>1, <4>2
    <3>3. g = [n \in 0..m + 1 |-> IF n = 0 THEN zero ELSE step(g[n - 1], n)]
      BY <3>2
    <3> HIDE DEF g
    <3> QED
      BY <3>3
  <2>3. N \in P
    BY <1>2, <2>1, <2>2, NatSetInduction
  <2> QED
    BY <2>3 DEF N
<1> HIDE DEF run
<1>4. Executing(W, zero, c, cs)
  <2>1. GoodBut(zero, {}, cs) /\ Quiet(W, zero)
    BY UnwatchGood DEF Calm
  <2> HIDE DEF zero
  <2>2. Goes(W, zero) /\ zero.cl[c].alive
    BY <2>1, GoodParts, QuietGoes DEF Quiet
  <2> QED
    BY <2>1, <2>2 DEF Executing
<1>5. ASSUME NEW A, NEW n \in 1..N, Executing(W, A, c, cs) PROVE Executing(W, step(A, n), c, cs)
  <2> DEFINE B == IF n = first THEN propagate(A, <<"MULTI">>) ELSE A
             q == qs[n]
             C == callCommand(B, c, q, TRUE)
  <2>1. q \in Command /\ Name(q) \notin {"EXEC", "QUIT", "BOGUS", "WATCH"}
    BY <1>2 DEF Queued
  <2>2. Executing(W, B, c, cs)
    <3>1. CASE n = first
      <4> DEFINE m == <<"MULTI">>
                 D == propagate(A, m)
      <4>1. B = D
        BY <3>1
      <4>2. m \in Command /\ GoodBut(A, {}, cs)
        BY <1>5, MarkCommand DEF Executing
      <4> HIDE DEF B, m
      <4>3. GoodBut(D, {}, cs) /\ Quiet(A, D)
        BY <4>2, PropagateGood
      <4> HIDE DEF D
      <4> QED
        BY <1>5, <4>1, <4>3, QuietExecuting
    <3>2. CASE n # first
      BY <1>5, <3>2
    <3> QED
      BY <3>1, <3>2
  <2> HIDE DEF B, q
  <2>3. GoodBut(B, {}, cs) /\ B.cl[c].alive /\ Goes(W, B)
    BY <2>2 DEF Executing
  <2>4. Obeyed(B, C, c, cs, TRUE)
    BY <2>1, <2>3, CallGood
  <2> HIDE DEF C
  <2>5. GoodBut(C, {}, cs) /\ C.cl[c].alive /\ Goes(B, C)
    BY <2>4 DEF Obeyed
  <2>6. Goes(W, C)
    BY <2>3, <2>5, GoodParts, GoesTrans
  <2>7. Executing(W, C, c, cs)
    BY <2>5, <2>6 DEF Executing
  <2> QED
    BY <2>7 DEF C, B, q
<1>6. Executing(W, run[N], c, cs)
  <2> HIDE DEF N, zero, step
  <2> DEFINE P == {n \in Nat : n <= N => Executing(W, run[n], c, cs)}
  <2>1. 0 \in P
    <3>1. run[0] = zero
      BY <1>2, <1>3
    <3> QED
      BY <3>1, <1>4
  <2>2. ASSUME NEW n \in Nat, n \in P PROVE n + 1 \in P
    <3> SUFFICES ASSUME n + 1 <= N PROVE Executing(W, run[n + 1], c, cs)
      OBVIOUS
    <3>1. n + 1 \in 1..N /\ n <= N /\ (n + 1) - 1 = n
      BY <1>2
    <3>2. run[n + 1] = step(run[n], n + 1)
      BY <1>2, <1>3
    <3>3. Executing(W, run[n], c, cs)
      BY <2>2, <3>1
    <3> HIDE DEF P
    <3>4. Executing(W, step(run[n], n + 1), c, cs)
      BY <1>5, <3>1, <3>3
    <3> QED
      BY <3>2, <3>4
  <2>3. N \in P
    BY <1>2, <2>1, <2>2, NatSetInduction
  <2> QED
    BY <1>2, <2>3
<1> DEFINE A == run[N]
           R == addReply(A, c)
<1> HIDE DEF zero, step, N, qs
<1>7. Executing(W, A, c, cs)
  BY <1>6
<1> HIDE DEF A
<1>8. GoodBut(A, {}, cs) /\ A.cl[c].alive
  BY <1>7 DEF Executing
<1>9. GoodBut(R, {}, cs) /\ Quiet(A, R) /\ R.cl[c].alive
  BY <1>8, AddReplyKeeps DEF Calm, Quiet
<1>10. U = discardTransaction(R, c)
  BY DEF A
<1> HIDE DEF R, U
<1>11. GoodBut(U, {}, cs) /\ Quiet(R, U)
  BY <1>9, <1>10, DiscardGood DEF Calm
<1>12. Executing(W, U, c, cs)
  BY <1>7, <1>9, <1>11, QuietExecuting, QuietTrans
<1> DEFINE m == <<"EXEC">>
           D == propagate(U, m)
<1>13. m \in Command
  BY MarkCommand
<1>14. V = IF first # 0 THEN D ELSE U
  BY <1>1
<1> HIDE DEF m
<1>15. GoodBut(D, {}, cs) /\ Quiet(U, D)
  BY <1>11, <1>13, PropagateGood
<1> HIDE DEF D
<1>16. Executing(W, D, c, cs)
  BY <1>12, <1>15, QuietExecuting
<1>17. Executing(W, V, c, cs)
  BY <1>12, <1>14, <1>16
<1> QED
  BY <1>17 DEF V

LEMMA ExecObeyed ==
  ASSUME NEW W, NEW cs, GoodBut(W, {}, cs), NEW c \in Clients, W.cl[c].alive, NEW inmulti
  PROVE  Obeyed(W, execCommand(W, c), c, cs, inmulti)
<1> DEFINE V == execCommand(W, c)
<1>1. Obeyed(W, addReply(W, c), c, cs, inmulti)
  BY QuietRefl, ReplyObeyed
<1>2. Obeyed(W, discardTransaction(addReply(W, c), c), c, cs, inmulti)
  <2> DEFINE A == addReply(W, c)
             B == discardTransaction(A, c)
  <2>1. GoodBut(A, {}, cs) /\ Quiet(W, A) /\ A.cl[c].alive
    BY AddReplyKeeps DEF Calm, Quiet
  <2> HIDE DEF A
  <2>2. GoodBut(B, {}, cs) /\ Quiet(A, B)
    BY <2>1, DiscardGood DEF Calm
  <2> HIDE DEF B
  <2>3. Obeyed(W, B, c, cs, inmulti)
    BY <2>1, <2>2, QuietTrans, QuietObeyed
  <2> QED
    BY <2>3 DEF B, A
<1>3. Obeyed(W, Executed(W, c), c, cs, inmulti)
  BY ExecutedGood DEF Executing, Obeyed
<1>4. V = addReply(W, c) \/ V = discardTransaction(addReply(W, c), c) \/ V = Executed(W, c)
  BY DEF execCommand
<1> HIDE DEF V
<1>5. Obeyed(W, V, c, cs, inmulti)
  BY <1>1, <1>2, <1>3, <1>4
<1> QED
  BY <1>5 DEF V

----------------------------------------------------------------------------
\* A command of c was processed: c may wait now, or may have waited and been served.
Turned(W, V, c) ==
    /\ Orderly(W, V) /\ Load(V) <= Load(W) + 1 /\ V.counted = W.counted /\ (Closing(W) => Closing(V))
    /\ V.cl[c].alive
    /\ \A d \in Clients : /\ V.cl[d].querybuf = W.cl[d].querybuf \/ V.cl[d].querybuf = Empty
                          /\ V.cl[d].alive => W.cl[d].alive

LEMMA ObeyedTurned ==
  ASSUME NEW W, NEW V, NEW cs, GoodBut(W, {}, cs), NEW c \in Clients, NEW inmulti, Obeyed(W, V, c, cs, inmulti)
  PROVE  GoodBut(V, {}, cs) /\ Turned(W, V, c)
<1>1. GoodBut(V, {}, cs) /\ V.cl[c].alive
  BY DEF Obeyed
<1>2. Load(V) \in Nat /\ Load(W) \in Nat
  BY <1>1, GoodParts, LoadNat
<1>3. CASE Goes(W, V)
  <2>1. Load(V) <= Load(W)
    BY <1>3 DEF Goes
  <2>2. Load(V) <= Load(W) + 1
    BY <1>2, <2>1
  <2> QED
    BY <1>1, <1>3, <2>2 DEF Goes, Turned
<1>4. CASE BlockedBy(W, V, c)
  <2>1. Load(V) = Load(W) + 1
    BY <1>4 DEF BlockedBy
  <2>2. Load(V) <= Load(W) + 1
    BY <1>2, <2>1
  <2> QED
    BY <1>1, <1>4, <2>2 DEF BlockedBy, Turned
<1> QED
  BY <1>3, <1>4 DEF Obeyed

LEMMA TurnedGoes ==
  ASSUME NEW U, NEW V, NEW W, NEW c \in Clients, Turned(U, V, c), Goes(V, W), Alike(V, W), Queues(U), Queues(V), Queues(W)
  PROVE  Turned(U, W, c)
<1>1. Load(W) <= Load(U) + 1
  <2>1. Load(U) \in Nat /\ Load(V) \in Nat /\ Load(W) \in Nat
    BY LoadNat
  <2>2. Load(V) <= Load(U) + 1 /\ Load(W) <= Load(V)
    BY DEF Turned, Goes
  <2> QED
    BY ONLY <2>1, <2>2
<1>2. Orderly(U, W)
  BY DEF Turned, Goes, Orderly
<1> QED
  BY <1>1, <1>2 DEF Turned, Goes, Alike

LEMMA ProcessGood ==
  ASSUME NEW W, NEW cs, GoodBut(W, {}, cs), W.ready = Empty, NEW c \in Clients, W.cl[c].alive,
         "BLOCKED" \notin W.cl[c].flags, NEW q \in Command
  PROVE  LET V == processCommand(W, c, q) IN GoodBut(V, {}, cs) /\ V.ready = Empty /\ Turned(W, V, c)
<1> DEFINE V == processCommand(W, c, q)
           A == addReply(W, c)
           E == IF Name(q) = "EXEC" THEN execCommand(W, c) ELSE callCommand(W, c, q, FALSE)
           refusal == Refusal(W, c, q)
<1>1. V = IF Name(q) = "QUIT" THEN SetFlags(A, c, {"CLOSE_AFTER_REPLY"})
          ELSE IF refusal = "flags" THEN addReply(flagTransaction(W, c), c)
          ELSE IF refusal = "silent" THEN A
          ELSE IF Has(W, c, "MULTI") /\ Name(q) \notin {"EXEC", "DISCARD", "MULTI", "WATCH"}
          THEN addReply(queueMultiCommand(W, c, q), c)
          ELSE handleClientsBlockedOnLists(E)
  BY DEF processCommand
<1>2. Name(q) = "BOGUS" => refusal = "flags"
  BY DEF Refusal
<1>3. ASSUME NEW B, GoodBut(B, {}, cs), Calm(W, B) PROVE GoodBut(B, {}, cs) /\ B.ready = Empty /\ Turned(W, B, c)
  <2>1. Obeyed(W, B, c, cs, FALSE)
    BY <1>3, QuietObeyed DEF Calm
  <2> QED
    BY <1>3, <2>1, ObeyedTurned DEF Calm
<1>4. ASSUME NEW B, GoodBut(B, {}, cs), Calm(W, B)
      PROVE  LET C == addReply(B, c) IN GoodBut(C, {}, cs) /\ C.ready = Empty /\ Turned(W, C, c)
  <2> DEFINE C == addReply(B, c)
  <2>1. B.cl[c].alive
    BY <1>4 DEF Calm, Quiet
  <2>2. GoodBut(C, {}, cs) /\ Calm(B, C)
    BY <1>4, <2>1, AddReplyKeeps
  <2> HIDE DEF C
  <2>3. Calm(W, C)
    BY <1>4, <2>2, CalmTrans
  <2> QED
    BY <1>3, <2>2, <2>3 DEF C
<1>5. GoodBut(A, {}, cs) /\ Calm(W, A)
  BY AddReplyKeeps
<1> HIDE DEF V, A, E, refusal
<1> DEFINE Q(X) == GoodBut(X, {}, cs) /\ X.ready = Empty /\ Turned(W, X, c)
<1>6. Q(SetFlags(A, c, {"CLOSE_AFTER_REPLY"}))
  <2> DEFINE B == SetFlags(A, c, {"CLOSE_AFTER_REPLY"})
  <2>1. A.cl[c].alive
    BY <1>5 DEF Calm, Quiet
  <2>2. GoodBut(B, {}, cs) /\ Calm(A, B)
    BY <1>5, <2>1, SetFlagsGood
  <2> HIDE DEF B
  <2>3. Q(B)
    BY <1>3, <1>5, <2>2, CalmTrans
  <2> QED
    BY <2>3 DEF B
<1>7. Q(addReply(flagTransaction(W, c), c))
  <2> DEFINE B == flagTransaction(W, c)
  <2>1. GoodBut(B, {}, cs) /\ Calm(W, B)
    <3>1. B = W \/ B = SetFlags(W, c, {"DIRTY_EXEC"})
      BY DEF flagTransaction
    <3>2. GoodBut(SetFlags(W, c, {"DIRTY_EXEC"}), {}, cs) /\ Calm(W, SetFlags(W, c, {"DIRTY_EXEC"}))
      BY SetFlagsGood
    <3> HIDE DEF B
    <3> QED
      BY <3>1, <3>2, CalmRefl
  <2> HIDE DEF B
  <2>2. Q(addReply(B, c))
    BY <1>4, <2>1
  <2> QED
    BY <2>2 DEF B
<1>8. Q(A)
  BY <1>3, <1>5
<1>9. ASSUME q \in Queued PROVE Q(addReply(queueMultiCommand(W, c, q), c))
  <2> DEFINE B == queueMultiCommand(W, c, q)
  <2>1. GoodBut(B, {}, cs) /\ Calm(W, B)
    BY <1>9, QueueGood
  <2> HIDE DEF B
  <2>2. Q(addReply(B, c))
    BY <1>4, <2>1
  <2> QED
    BY <2>2 DEF B
<1>10. ASSUME Name(q) \notin {"QUIT", "BOGUS"} PROVE Q(handleClientsBlockedOnLists(E))
  <2> DEFINE B == handleClientsBlockedOnLists(E)
  <2>1. Obeyed(W, E, c, cs, FALSE)
    <3>1. CASE Name(q) = "EXEC"
      BY <3>1, ExecObeyed DEF E
    <3>2. CASE Name(q) # "EXEC"
      <4>1. Obeyed(W, callCommand(W, c, q, FALSE), c, cs, FALSE)
        BY <1>10, <3>2, CallGood
      <4> QED
        BY <3>2, <4>1 DEF E
    <3> QED
      BY <3>1, <3>2
  <2>2. GoodBut(E, {}, cs) /\ Turned(W, E, c)
    BY <2>1, ObeyedTurned
  <2>3. GoodBut(B, {}, cs) /\ Goes(E, B) /\ Alike(E, B) /\ B.ready = Empty
    BY <2>2, HandleGood
  <2> HIDE DEF B
  <2>4. Turned(W, B, c)
    BY <2>2, <2>3, GoodParts, TurnedGoes
  <2> QED
    BY <2>3, <2>4 DEF B
<1>11. CASE Name(q) = "QUIT"
  <2>1. Q(V)
    BY <1>1, <1>6, <1>11
  <2> QED
    BY <2>1 DEF V
<1>12. CASE Name(q) # "QUIT" /\ refusal \in {"flags", "silent"}
  <2>1. Q(V)
    BY <1>1, <1>7, <1>8, <1>12
  <2> QED
    BY <2>1 DEF V
<1>13. CASE Name(q) # "QUIT" /\ refusal \notin {"flags", "silent"}
  <2>1. Name(q) \notin {"QUIT", "BOGUS"}
    BY <1>2, <1>13
  <2>2. Has(W, c, "MULTI") /\ Name(q) \notin {"EXEC", "DISCARD", "MULTI", "WATCH"} => q \in Queued
    BY <2>1 DEF Queued
  <2>3. Q(V)
    BY <1>1, <1>9, <1>10, <1>13, <2>1, <2>2
  <2> QED
    BY <2>3 DEF V
<1> QED
  BY <1>11, <1>12, <1>13

\* What has not been read yet.
Work(W) == Load(W) + Cardinality(Unread(W))

LEMMA UnreadFinite ==
  ASSUME NEW W, NEW bs, NEW cs, GoodBut(W, bs, cs)
  PROVE  IsFiniteSet(Unread(W)) /\ Cardinality(Unread(W)) \in Nat /\ Work(W) \in Nat
<1> DEFINE f == [c \in Clients |-> {c} \X DOMAIN W.cl[c].querybuf]
           T == {{c} \X DOMAIN W.cl[c].querybuf : c \in Clients}
<1>1. f \in Surjection(Clients, T)
  BY DEF Surjection
<1>2. IsFiniteSet(T)
  <2> HIDE DEF f, T
  <2> QED
    BY <1>1, ConnectionsBound, FS_Surjection
<1>3. ASSUME NEW c \in Clients PROVE IsFiniteSet({c} \X DOMAIN W.cl[c].querybuf)
  <2> DEFINE s == W.cl[c].querybuf
  <2>1. s \in Seq(Command)
    BY GoodParts DEF ClientOk
  <2>2. DOMAIN s = 1..Len(s) /\ Len(s) \in Int /\ 1 \in Int
    <3> HIDE DEF s
    <3> QED
      BY <2>1
  <2>3. IsFiniteSet(1..Len(s))
    <3> HIDE DEF s
    <3> QED
      BY <2>2, FS_Interval
  <2>4. IsFiniteSet({c})
    BY FS_Singleton
  <2> DEFINE D == DOMAIN s
  <2>5. IsFiniteSet(D)
    BY <2>2, <2>3
  <2> HIDE DEF D
  <2>6. IsFiniteSet({c} \X D)
    BY <2>4, <2>5, FS_Product
  <2> QED
    BY <2>6 DEF D
<1>4. IsFiniteSet(UNION T)
  BY <1>2, <1>3, FS_UNION
<1>5. Unread(W) = UNION T
  BY DEF Unread
<1>6. Cardinality(Unread(W)) \in Nat /\ IsFiniteSet(Unread(W))
  BY <1>4, <1>5, FS_CardinalityType
<1>7. Load(W) \in Nat
  BY GoodParts, LoadNat
<1> QED
  BY <1>6, <1>7 DEF Work

\* Nobody has more to read.
LEMMA UnreadLess ==
  ASSUME NEW W, NEW V, NEW bs, NEW cs, GoodBut(W, bs, cs),
         \A d \in Clients : V.cl[d].querybuf = W.cl[d].querybuf \/ V.cl[d].querybuf = Empty
  PROVE  Cardinality(Unread(V)) <= Cardinality(Unread(W)) /\ Cardinality(Unread(V)) \in Nat
<1>1. DOMAIN Empty = {}
  BY DEF Empty
<1>2. Unread(V) \subseteq Unread(W)
  BY <1>1 DEF Unread
<1>3. IsFiniteSet(Unread(W))
  BY UnreadFinite
<1> HIDE DEF Unread
<1>4. Unread(V) \in SUBSET Unread(W)
  BY <1>2
<1> DEFINE A == Unread(W)
           B == Unread(V)
<1> HIDE DEF A, B
<1>5. IsFiniteSet(B) /\ Cardinality(B) <= Cardinality(A)
  BY <1>3, <1>4, FS_Subset DEF A, B
<1>6. Cardinality(B) \in Nat
  BY <1>5, FS_CardinalityType
<1> QED
  BY <1>5, <1>6 DEF A, B

\* The first command is taken.
LEMMA TakeGood ==
  ASSUME NEW W, NEW bs, NEW cs, GoodBut(W, bs, cs), NEW c \in Clients, W.cl[c].alive, W.cl[c].querybuf # Empty
  PROVE  LET V == [W EXCEPT !.cl[c].querybuf = Tail(@)] IN
         /\ GoodBut(V, bs, cs) /\ V.ready = W.ready /\ V.cl[c].alive /\ V.cl[c].flags = W.cl[c].flags
         /\ Head(W.cl[c].querybuf) \in Command
         /\ Orderly(W, V) /\ Load(V) = Load(W) /\ V.counted = W.counted /\ (Closing(W) => Closing(V))
         /\ Cardinality(Unread(V)) = Cardinality(Unread(W)) - 1
<1> DEFINE me == W.cl[c]
           s == me.querybuf
           t == Tail(s)
           V == [W EXCEPT !.cl[c].querybuf = Tail(@)]
           Z == Put(W, c, [me EXCEPT !.querybuf = t, !.idle = me.idle])
<1>1. Shape(W) /\ DOMAIN me = Attributes /\ s \in Seq(Command) /\ s # Empty
  BY GoodParts DEF ClientOk
<1>2. /\ Head(s) \in Command /\ t \in Seq(Command) /\ Len(t) = Len(s) - 1 /\ Len(s) \in Nat \ {0}
  <2> HIDE DEF s
  <2> QED
    BY <1>1, HeadTailIs
<1>3. V = Z
  BY <1>1 DEF Put, Shape, Fields, Attributes
<1> HIDE DEF t
<1>4. /\ GoodBut(Z, bs, cs) /\ Z.ready = W.ready
      /\ Z.cl[c].querybuf = t /\ Z.cl[c].alive /\ \A d \in Clients : d # c => Z.cl[d] = W.cl[d]
      /\ Z.cl[c].flags = W.cl[c].flags
      /\ Orderly(W, Z) /\ Load(Z) = Load(W) /\ Z.counted = W.counted /\ Z.toclose = W.toclose
  <2> DEFINE i == me.idle
  <2>0. t \in Seq(Command)
    BY <1>2
  <2> HIDE DEF i
  <2>1. LET X == Put(W, c, [W.cl[c] EXCEPT !.querybuf = t, !.idle = i]) IN
        GoodBut(X, bs, cs) /\ Given(W, X, c, t)
    BY <2>0, InputGood
  <2>2. GoodBut(Z, bs, cs) /\ Given(W, Z, c, t)
    BY <2>1 DEF i
  <2> HIDE DEF Z
  <2> QED
    BY <2>2 DEF Given
<1> HIDE DEF Z, V
<1>5. Closing(W) => Closing(Z)
  <2>1. \A d \in Clients : "CLOSE_ASAP" \in Z.cl[d].flags <=> "CLOSE_ASAP" \in W.cl[d].flags
    BY <1>4
  <2> QED
    BY <1>4, <2>1, ClosingSame
<1>6. Cardinality(Unread(Z)) = Cardinality(Unread(W)) - 1
  <2> DEFINE x == <<c, Len(s)>>
             A == Unread(W)
             B == Unread(Z)
  <2>0. DOMAIN s = 1..Len(s) /\ DOMAIN t = 1..Len(t)
    <3> HIDE DEF s
    <3> QED
      BY <1>1, <1>2
  <2>1. B = A \ {x}
    <3>1. ASSUME NEW y PROVE y \in B <=> y \in A \ {x}
      <4>1. y \in B <=> \E d \in Clients : \E i \in DOMAIN Z.cl[d].querybuf : y = <<d, i>>
        BY DEF Unread
      <4>2. y \in A <=> \E d \in Clients : \E i \in DOMAIN W.cl[d].querybuf : y = <<d, i>>
        BY DEF Unread
      <4>3. \A i : i \in DOMAIN t <=> i \in DOMAIN s /\ i # Len(s)
        <5> HIDE DEF s
        <5> QED
          BY <1>2, <2>0
      <4> HIDE DEF s, A, B
      <4>4. DOMAIN Z.cl[c].querybuf = DOMAIN t /\ DOMAIN W.cl[c].querybuf = DOMAIN s
        BY <1>4 DEF s
      <4>5. \A d \in Clients : d # c => DOMAIN Z.cl[d].querybuf = DOMAIN W.cl[d].querybuf
        BY <1>4
      <4> QED
        BY <4>1, <4>2, <4>3, <4>4, <4>5
    <3> HIDE DEF A, B, x
    <3> QED
      BY <3>1
  <2>2. x \in A
    <3>1. Len(s) \in DOMAIN s
      BY <1>2, <2>0
    <3> QED
      BY <3>1 DEF Unread
  <2>3. IsFiniteSet(A)
    BY UnreadFinite
  <2> HIDE DEF A, B, x
  <2>4. Cardinality(B) = Cardinality(A) - 1
    BY <2>1, <2>2, <2>3, FS_RemoveElement
  <2> QED
    BY <2>4 DEF A, B
<1> QED
  BY <1>2, <1>3, <1>4, <1>5, <1>6 DEF V

\* Some commands of c were processed.
Read(W, A, c, cs) ==
    /\ GoodBut(A, {}, cs) /\ A.ready = Empty /\ A.cl[c].alive
    /\ Orderly(W, A) /\ Work(A) <= Work(W) /\ A.counted = W.counted /\ (Closing(W) => Closing(A))

LEMMA ReadOne ==
  ASSUME NEW W, NEW cs, GoodBut(W, {}, cs), W.ready = Empty, NEW c \in Clients, W.cl[c].alive,
         "BLOCKED" \notin W.cl[c].flags, W.cl[c].querybuf # Empty
  PROVE  Read(W, processCommand([W EXCEPT !.cl[c].querybuf = Tail(@)], c, Head(W.cl[c].querybuf)), c, cs)
<1> DEFINE A == [W EXCEPT !.cl[c].querybuf = Tail(@)]
           q == Head(W.cl[c].querybuf)
           V == processCommand(A, c, q)
<1>1. /\ GoodBut(A, {}, cs) /\ A.ready = Empty /\ A.cl[c].alive /\ "BLOCKED" \notin A.cl[c].flags /\ q \in Command
      /\ Orderly(W, A) /\ Load(A) = Load(W) /\ A.counted = W.counted /\ (Closing(W) => Closing(A))
      /\ Cardinality(Unread(A)) = Cardinality(Unread(W)) - 1
  BY TakeGood
<1> HIDE DEF A, q
<1>2. GoodBut(V, {}, cs) /\ V.ready = Empty /\ Turned(A, V, c)
  BY <1>1, ProcessGood
<1> HIDE DEF V
<1>3. Work(V) <= Work(W)
  <2>1. Cardinality(Unread(V)) <= Cardinality(Unread(A)) /\ Cardinality(Unread(V)) \in Nat
    BY <1>1, <1>2, UnreadLess DEF Turned
  <2>2. Cardinality(Unread(W)) \in Nat /\ Load(W) \in Nat /\ Load(V) \in Nat
    BY <1>2, UnreadFinite, GoodParts, LoadNat
  <2>3. Load(V) <= Load(A) + 1
    BY <1>2 DEF Turned
  <2> QED
    BY <1>1, <2>1, <2>2, <2>3 DEF Work
<1>4. Orderly(W, V)
  BY <1>1, <1>2 DEF Turned, Orderly
<1>5. Read(W, V, c, cs)
  BY <1>1, <1>2, <1>3, <1>4 DEF Read, Turned
<1> QED
  BY <1>5 DEF V, A, q

LEMMA ReadRefl ==
  ASSUME NEW W, NEW cs, GoodBut(W, {}, cs), W.ready = Empty, NEW c, W.cl[c].alive
  PROVE  Read(W, W, c, cs)
<1>1. Work(W) <= Work(W)
  BY UnreadFinite
<1> QED
  BY <1>1 DEF Read, Orderly

LEMMA ReadTrans ==
  ASSUME NEW U, NEW V, NEW W, NEW c, NEW cs, GoodBut(U, {}, cs), Read(U, V, c, cs), Read(V, W, c, cs)
  PROVE  Read(U, W, c, cs)
<1>1. Work(U) \in Nat /\ Work(V) \in Nat /\ Work(W) \in Nat
  BY UnreadFinite DEF Read
<1>2. Work(V) <= Work(U) /\ Work(W) <= Work(V)
  BY DEF Read
<1>3. Work(W) <= Work(U)
  BY ONLY <1>1, <1>2
<1>4. Orderly(U, W)
  BY DEF Read, Orderly
<1> QED
  BY <1>3, <1>4 DEF Read

LEMMA InputRead ==
  ASSUME NEW W, NEW cs, GoodBut(W, {}, cs), W.ready = Empty, NEW c \in Clients, W.cl[c].alive
  PROVE  Read(W, processInputBuffer(W, c), c, cs)
<1> DEFINE N == Len(W.cl[c].querybuf)
           zero == W
           step(A, n) ==
             IF A.cl[c].querybuf = Empty \/ Has(A, c, "BLOCKED") \/ Has(A, c, "CLOSE_AFTER_REPLY") THEN A
             ELSE processCommand([A EXCEPT !.cl[c].querybuf = Tail(@)], c, Head(A.cl[c].querybuf))
           run[n \in 0..N] == IF n = 0 THEN zero ELSE step(run[n - 1], n)
<1>1. processInputBuffer(W, c) = run[N]
  BY DEF processInputBuffer, ProcessNext, Rounds
<1> DEFINE V == processInputBuffer(W, c)
<1> HIDE DEF V
<1>2. N \in Nat
  <2> DEFINE s == W.cl[c].querybuf
  <2>1. s \in Seq(Command)
    BY GoodParts DEF ClientOk
  <2> HIDE DEF s
  <2>2. Len(s) \in Nat
    BY <2>1
  <2> QED
    BY <2>2 DEF s
<1>3. run = [n \in 0..N |-> IF n = 0 THEN zero ELSE step(run[n - 1], n)]
  <2> HIDE DEF N, zero, step
  <2> DEFINE P == {m \in Nat : \E f : f = [n \in 0..m |-> IF n = 0 THEN zero ELSE step(f[n - 1], n)]}
  <2>1. 0 \in P
    <3> DEFINE f == [n \in 0..0 |-> zero]
    <3>1. f = [n \in 0..0 |-> IF n = 0 THEN zero ELSE step(f[n - 1], n)]
      OBVIOUS
    <3> HIDE DEF f
    <3> QED
      BY <3>1
  <2>2. ASSUME NEW m \in Nat, m \in P PROVE m + 1 \in P
    <3>1. PICK f : f = [n \in 0..m |-> IF n = 0 THEN zero ELSE step(f[n - 1], n)]
      BY <2>2
    <3> DEFINE g == [n \in 0..m + 1 |-> IF n = m + 1 THEN step(f[m], n) ELSE f[n]]
    <3>2. \A n \in 0..m + 1 : g[n] = IF n = 0 THEN zero ELSE step(g[n - 1], n)
      <4> SUFFICES ASSUME NEW n \in 0..m + 1 PROVE g[n] = IF n = 0 THEN zero ELSE step(g[n - 1], n)
        OBVIOUS
      <4>1. CASE n = m + 1
        BY <4>1
      <4>2. CASE n # m + 1
        BY <3>1, <4>2
      <4> QED
        BY <4>1, <4>2
    <3>3. g = [n \in 0..m + 1 |-> IF n = 0 THEN zero ELSE step(g[n - 1], n)]
      BY <3>2
    <3> HIDE DEF g
    <3> QED
      BY <3>3
  <2>3. N \in P
    BY <1>2, <2>1, <2>2, NatSetInduction
  <2> QED
    BY <2>3 DEF N
<1> HIDE DEF run
<1>4. Read(W, zero, c, cs)
  BY ReadRefl
<1>5. ASSUME NEW A, NEW n \in 1..N, Read(W, A, c, cs) PROVE Read(W, step(A, n), c, cs)
  <2>1. GoodBut(A, {}, cs) /\ A.ready = Empty /\ A.cl[c].alive
    BY <1>5 DEF Read
  <2> DEFINE B == processCommand([A EXCEPT !.cl[c].querybuf = Tail(@)], c, Head(A.cl[c].querybuf))
  <2>2. ASSUME A.cl[c].querybuf # Empty, "BLOCKED" \notin A.cl[c].flags PROVE Read(W, B, c, cs)
    <3>1. Read(A, B, c, cs)
      BY <2>1, <2>2, ReadOne
    <3> HIDE DEF B
    <3> QED
      BY <1>5, <3>1, ReadTrans
  <2>3. step(A, n) = A \/ (step(A, n) = B /\ A.cl[c].querybuf # Empty /\ "BLOCKED" \notin A.cl[c].flags)
    BY DEF Has
  <2> HIDE DEF B, step
  <2> QED
    BY <1>5, <2>2, <2>3
<1>6. Read(W, run[N], c, cs)
  <2> HIDE DEF N, zero, step
  <2> DEFINE P == {n \in Nat : n <= N => Read(W, run[n], c, cs)}
  <2>1. 0 \in P
    <3>1. run[0] = zero
      BY <1>2, <1>3
    <3> QED
      BY <3>1, <1>4
  <2>2. ASSUME NEW n \in Nat, n \in P PROVE n + 1 \in P
    <3> SUFFICES ASSUME n + 1 <= N PROVE Read(W, run[n + 1], c, cs)
      OBVIOUS
    <3>1. n + 1 \in 1..N /\ n <= N /\ (n + 1) - 1 = n
      BY <1>2
    <3>2. run[n + 1] = step(run[n], n + 1)
      BY <1>2, <1>3
    <3>3. Read(W, run[n], c, cs)
      BY <2>2, <3>1
    <3> HIDE DEF P
    <3>4. Read(W, step(run[n], n + 1), c, cs)
      BY <1>5, <3>1, <3>3
    <3> QED
      BY <3>2, <3>4
  <2>3. N \in P
    BY <1>2, <2>1, <2>2, NatSetInduction
  <2> QED
    BY <1>2, <2>3
<1>7. Read(W, V, c, cs)
  <2> HIDE DEF N, zero, step
  <2> QED
    BY <1>1, <1>6 DEF V
<1> QED
  BY <1>7 DEF V

\* The first of the queue is taken out.
LEMMA DequeueGood ==
  ASSUME NEW W, NEW cs, GoodBut(W, {}, cs), W.unblocked # Empty
  PROVE  LET c == Head(W.unblocked)
             V == ClearFlags([W EXCEPT !.unblocked = Tail(@)], c, {"UNBLOCKED"})
         IN  /\ c \in Clients /\ GoodBut(V, {}, cs) /\ V.ready = W.ready /\ V.cl[c].alive = W.cl[c].alive
             /\ V.cl[c].querybuf = W.cl[c].querybuf
             /\ V.counted = W.counted /\ (Closing(W) => Closing(V)) /\ Work(V) = Work(W) - 1
<1> DEFINE u == W.unblocked
           c == Head(u)
           t == Tail(u)
           A == [W EXCEPT !.unblocked = t]
           me == W.cl[c]
           r == [me EXCEPT !.flags = me.flags \ {"UNBLOCKED"}]
           V == ClearFlags(A, c, {"UNBLOCKED"})
<1>0. Shape(W) /\ Queues(W) /\ Tables(W) /\ Data(W, {})
  BY GoodParts
<1>1. /\ u \in Seq(Clients) /\ u # Empty
  BY <1>0 DEF Queues
<1>2. /\ c \in Clients /\ t \in Seq(Clients) /\ Len(t) = Len(u) - 1 /\ Len(u) \in Nat \ {0}
      /\ \A x : Contains(u, x) <=> x = c \/ Contains(t, x)
  <2> HIDE DEF u
  <2> QED
    BY <1>1, HeadTailIs
<1> HIDE DEF c, t
<1>3. DOMAIN me = Attributes /\ ClientOk(me, c \in W.counted)
  BY <1>2, GoodParts
<1>4. Shape(A) /\ A.cl = W.cl
  BY <1>0 DEF Shape, Fields
<1>5. V = Put(A, c, r)
  BY <1>0, <1>2, <1>3, <1>4 DEF ClearFlags, Put, Shape, Attributes
<1>6. /\ DOMAIN r = Attributes /\ r.watched = me.watched /\ r.seen = me.seen /\ r.alive = me.alive
      /\ r.keys = me.keys /\ r.subs = me.subs /\ r.pats = me.pats /\ r.querybuf = me.querybuf
      /\ r.list = me.list /\ r.flags = me.flags \ {"UNBLOCKED"} /\ r.commands = me.commands
      /\ r.target = me.target /\ r.where = me.where /\ r.buf = me.buf
      /\ ~me.alive => r = me
  <2>1. ~me.alive => me = NoClient
    BY <1>3 DEF ClientOk
  <2>2. NoClient.flags \ {"UNBLOCKED"} = NoClient.flags /\ [NoClient EXCEPT !.flags = NoClient.flags] = NoClient
    BY DEF NoClient, NewClient
  <2>3. ~me.alive => r = me
    BY <2>1, <2>2
  <2> QED
    BY <1>3, <2>3 DEF Attributes
<1> HIDE DEF r
<1> HIDE DEF A, V
<1>7. /\ Shape(V) /\ V.cl[c] = r /\ \A d \in Clients : d # c => V.cl[d] = W.cl[d]
      /\ V.dict = A.dict /\ V.blocking_keys = A.blocking_keys /\ V.watched_keys = A.watched_keys
      /\ V.channels = A.channels /\ V.patterns = A.patterns
      /\ V.ready = A.ready /\ V.unblocked = A.unblocked /\ V.toclose = A.toclose /\ V.link = A.link
      /\ V.counted = A.counted
  <2>1. DOMAIN r = Attributes
    BY <1>6
  <2> DEFINE P == Put(A, c, r)
  <2>2. /\ Shape(P) /\ P.cl[c] = r /\ \A d \in Clients : d # c => P.cl[d] = A.cl[d]
        /\ P.dict = A.dict /\ P.blocking_keys = A.blocking_keys /\ P.watched_keys = A.watched_keys
        /\ P.channels = A.channels /\ P.patterns = A.patterns
        /\ P.ready = A.ready /\ P.unblocked = A.unblocked /\ P.toclose = A.toclose /\ P.link = A.link
        /\ P.counted = A.counted
    BY <1>2, <1>4, <2>1, PutIs
  <2> HIDE DEF P
  <2>3. V = P
    BY <1>5 DEF P
  <2> QED
    BY <1>4, <2>2, <2>3
<1>8. /\ A.dict = W.dict /\ A.blocking_keys = W.blocking_keys /\ A.watched_keys = W.watched_keys
      /\ A.channels = W.channels /\ A.patterns = W.patterns
      /\ A.ready = W.ready /\ A.unblocked = t /\ A.toclose = W.toclose /\ A.link = W.link /\ A.counted = W.counted
  BY <1>0 DEF Shape, Fields, A
<1> HIDE DEF A, V
<1>9. ClientOk(r, c \in W.counted)
  <2>1. /\ me.flags \subseteq AllFlags /\ me.alive \in BOOLEAN /\ (~me.alive => me = NoClient)
        /\ me.querybuf \in Seq(Command) /\ me.commands \in Seq(Queued)
        /\ me.keys \subseteq Keys /\ ((me.keys # {}) <=> ("BLOCKED" \in me.flags))
        /\ IsFiniteSet(me.subs) /\ IsFiniteSet(me.pats) /\ me.pats \subseteq DOMAIN Matches
        /\ DOMAIN me.seen = me.watched
        /\ me.target \in Keys \cup {Nil} /\ me.where \in Where
        /\ me.buf \in Nat /\ me.list \in Nat /\ ((c \in W.counted) \/ me.list = 0)
    BY <1>3 DEF ClientOk
  <2> HIDE DEF me
  <2> QED
    BY <1>6, <2>1 DEF ClientOk
<1>10. Tables(V)
  <2>1. KeysOf(V) = KeysOf(W) /\ WatchedOf(V) = WatchedOf(W) /\ SubsOf(V) = SubsOf(W)
    BY <1>6, <1>7 DEF KeysOf, WatchedOf, SubsOf
  <2>2. \A d \in Clients : V.cl[d].pats = W.cl[d].pats
    BY <1>6, <1>7
  <2> QED
    BY <1>0, <1>7, <1>8, <2>1, <2>2 DEF Tables
<1>11. Queues(V) /\ Pending(V, {})
  <2>1. \A d \in Clients : "UNBLOCKED" \in V.cl[d].flags => Contains(t, d)
    <3> SUFFICES ASSUME NEW d \in Clients, "UNBLOCKED" \in V.cl[d].flags PROVE Contains(t, d)
      OBVIOUS
    <3>1. d # c
      BY <1>6, <1>7
    <3>2. Contains(u, d)
      BY <1>0, <1>7, <3>1 DEF Queues
    <3> QED
      BY <1>2, <3>1, <3>2
  <2> QED
    BY <1>0, <1>2, <1>7, <1>8, <2>1 DEF Queues, Data, Pending, IsList
<1>12. Limit(V, c)  \/ c \in cs
  <2>1. c \in cs \/ Limit(W, c)
    BY <1>2 DEF GoodBut
  <2>2. me.flags \cap {"CLOSE_ASAP", "CLOSE_AFTER_REPLY"} \subseteq r.flags
    BY <1>6
  <2> QED
    BY <1>6, <1>7, <2>1, <2>2, LimitSame
<1>13. "DIRTY_CAS" \in r.flags \/ \A k \in r.watched : Content(W.dict, k) = r.seen[k] /\ ~Contains(W.ready, k)
  BY <1>0, <1>2, <1>6 DEF Data, Fresh, ReadyDirty
<1>14. GoodBut(V, {}, cs)
  BY <1>2, <1>6, <1>7, <1>8, <1>9, <1>10, <1>11, <1>12, <1>13, ChangeGood
<1>15. Closing(W) => Closing(V)
  <2>1. \A d \in Clients : "CLOSE_ASAP" \in V.cl[d].flags <=> "CLOSE_ASAP" \in W.cl[d].flags
    BY <1>6, <1>7
  <2> QED
    BY <1>7, <1>8, <2>1, ClosingSame
<1>16. Work(V) = Work(W) - 1
  <2>1. Waiting(V) = Waiting(W)
    BY <1>6, <1>7 DEF Waiting, Has
  <2>2. Unread(V) = Unread(W)
    <3>1. \A d \in Clients : V.cl[d].querybuf = W.cl[d].querybuf
      BY <1>6, <1>7
    <3> QED
      BY <3>1 DEF Unread
  <2>3. Cardinality(Waiting(W)) \in Nat /\ Cardinality(Unread(W)) \in Nat
    BY <1>0, LoadNat, UnreadFinite, FS_CardinalityType
  <2>4. Len(V.unblocked) = Len(W.unblocked) - 1 /\ Len(W.unblocked) \in Nat
    BY <1>2, <1>7, <1>8
  <2> QED
    BY <2>1, <2>2, <2>3, <2>4 DEF Work, Load
<1> QED
  BY <1>2, <1>6, <1>7, <1>8, <1>14, <1>15, <1>16 DEF V, A, t, c, u

\* The queue of the unblocked clients is worked off.
Drained(W, A, cs) ==
    GoodBut(A, {}, cs) /\ A.ready = Empty /\ A.counted = W.counted /\ (Closing(W) => Closing(A))
Draining(W, A, cs, m) == Drained(W, A, cs) /\ (A.unblocked = Empty \/ Work(A) <= m)

LEMMA DrainOne ==
  ASSUME NEW W, NEW A, NEW cs, Drained(W, A, cs), A.unblocked # Empty
  PROVE  LET c == Head(A.unblocked)
             V == processInputBuffer(ClearFlags([A EXCEPT !.unblocked = Tail(@)], c, {"UNBLOCKED"}), c)
         IN  Drained(W, V, cs) /\ Work(V) <= Work(A) - 1
<1> DEFINE c == Head(A.unblocked)
           B == ClearFlags([A EXCEPT !.unblocked = Tail(@)], c, {"UNBLOCKED"})
           V == processInputBuffer(B, c)
<1>1. GoodBut(A, {}, cs)
  BY DEF Drained
<1>2. /\ c \in Clients /\ GoodBut(B, {}, cs) /\ B.ready = A.ready /\ B.cl[c].alive = A.cl[c].alive
      /\ B.cl[c].querybuf = A.cl[c].querybuf
      /\ B.counted = A.counted /\ (Closing(A) => Closing(B)) /\ Work(B) = Work(A) - 1
  BY <1>1, DequeueGood
<1> HIDE DEF B, c
<1>3. Drained(W, B, cs)
  BY <1>2 DEF Drained
<1>4. Work(B) \in Nat /\ Work(A) \in Nat
  BY <1>1, <1>2, UnreadFinite
<1>5. CASE B.cl[c].alive
  <2>1. Read(B, V, c, cs)
    BY <1>2, <1>3, <1>5, InputRead DEF Drained
  <2> HIDE DEF V
  <2>2. Drained(W, V, cs)
    BY <1>3, <2>1 DEF Drained, Read
  <2>3. Work(V) <= Work(A) - 1
    BY <1>2, <1>4, <2>1 DEF Read
  <2> QED
    BY <2>2, <2>3 DEF V, B, c
<1>6. CASE ~B.cl[c].alive
  <2>1. B.cl[c].querybuf = Empty
    BY <1>2, <1>6, NobodyIs
  <2>2. V = B
    <3> DEFINE N == Len(B.cl[c].querybuf)
               zero == B
               step(X, n) ==
                 IF X.cl[c].querybuf = Empty \/ Has(X, c, "BLOCKED") \/ Has(X, c, "CLOSE_AFTER_REPLY") THEN X
                 ELSE processCommand([X EXCEPT !.cl[c].querybuf = Tail(@)], c, Head(X.cl[c].querybuf))
               run[n \in 0..N] == IF n = 0 THEN zero ELSE step(run[n - 1], n)
    <3>1. V = run[N]
      BY DEF processInputBuffer, ProcessNext, Rounds
    <3>2. N = 0
      BY <2>1, EmptyIs
    <3>3. N \in Nat
      BY <3>2
    <3>4. run = [n \in 0..N |-> IF n = 0 THEN zero ELSE step(run[n - 1], n)]
      <4> HIDE DEF N, zero, step
      <4> DEFINE P == {m \in Nat : \E f : f = [n \in 0..m |-> IF n = 0 THEN zero ELSE step(f[n - 1], n)]}
      <4>1. 0 \in P
        <5> DEFINE f == [n \in 0..0 |-> zero]
        <5>1. f = [n \in 0..0 |-> IF n = 0 THEN zero ELSE step(f[n - 1], n)]
          OBVIOUS
        <5> HIDE DEF f
        <5> QED
          BY <5>1
      <4>2. ASSUME NEW m \in Nat, m \in P PROVE m + 1 \in P
        <5>1. PICK f : f = [n \in 0..m |-> IF n = 0 THEN zero ELSE step(f[n - 1], n)]
          BY <4>2
        <5> DEFINE g == [n \in 0..m + 1 |-> IF n = m + 1 THEN step(f[m], n) ELSE f[n]]
        <5>2. \A n \in 0..m + 1 : g[n] = IF n = 0 THEN zero ELSE step(g[n - 1], n)
          <6> SUFFICES ASSUME NEW n \in 0..m + 1 PROVE g[n] = IF n = 0 THEN zero ELSE step(g[n - 1], n)
            OBVIOUS
          <6>1. CASE n = m + 1
            BY <6>1
          <6>2. CASE n # m + 1
            BY <5>1, <6>2
          <6> QED
            BY <6>1, <6>2
        <5>3. g = [n \in 0..m + 1 |-> IF n = 0 THEN zero ELSE step(g[n - 1], n)]
          BY <5>2
        <5> HIDE DEF g
        <5> QED
          BY <5>3
      <4>3. N \in P
        BY <3>3, <4>1, <4>2, NatSetInduction
      <4> QED
        BY <4>3 DEF N
    <3> HIDE DEF run
    <3>5. run[0] = B
      BY <3>3, <3>4
    <3> HIDE DEF V, N
    <3> QED
      BY <3>1, <3>2, <3>5
  <2> HIDE DEF V
  <2>3. Work(V) <= Work(A) - 1
    BY <1>2, <1>4, <2>2
  <2> QED
    BY <1>3, <2>2, <2>3 DEF V, B, c
<1> QED
  BY <1>5, <1>6

LEMMA DrainGood ==
  ASSUME NEW W, NEW cs, GoodBut(W, {}, cs), W.ready = Empty
  PROVE  LET V == ProcessUnblocked(W) IN Drained(W, V, cs) /\ V.unblocked = Empty
<1> DEFINE N == Work(W)
           zero == W
           Serve(A, c) == processInputBuffer(ClearFlags([A EXCEPT !.unblocked = Tail(@)], c, {"UNBLOCKED"}), c)
           step(A, n) == IF A.unblocked = Empty THEN A ELSE Serve(A, Head(A.unblocked))
           run[n \in 0..N] == IF n = 0 THEN zero ELSE step(run[n - 1], n)
           V == ProcessUnblocked(W)
<1>1. V = run[N]
  BY DEF ProcessUnblocked, ReadFirst, ReadAgain, Work, Load, Rounds
<1> HIDE DEF V
<1>2. N \in Nat
  BY UnreadFinite
<1>3. run = [n \in 0..N |-> IF n = 0 THEN zero ELSE step(run[n - 1], n)]
  <2> HIDE DEF N, zero, step
  <2> DEFINE P == {m \in Nat : \E f : f = [n \in 0..m |-> IF n = 0 THEN zero ELSE step(f[n - 1], n)]}
  <2>1. 0 \in P
    <3> DEFINE f == [n \in 0..0 |-> zero]
    <3>1. f = [n \in 0..0 |-> IF n = 0 THEN zero ELSE step(f[n - 1], n)]
      OBVIOUS
    <3> HIDE DEF f
    <3> QED
      BY <3>1
  <2>2. ASSUME NEW m \in Nat, m \in P PROVE m + 1 \in P
    <3>1. PICK f : f = [n \in 0..m |-> IF n = 0 THEN zero ELSE step(f[n - 1], n)]
      BY <2>2
    <3> DEFINE g == [n \in 0..m + 1 |-> IF n = m + 1 THEN step(f[m], n) ELSE f[n]]
    <3>2. \A n \in 0..m + 1 : g[n] = IF n = 0 THEN zero ELSE step(g[n - 1], n)
      <4> SUFFICES ASSUME NEW n \in 0..m + 1 PROVE g[n] = IF n = 0 THEN zero ELSE step(g[n - 1], n)
        OBVIOUS
      <4>1. CASE n = m + 1
        BY <4>1
      <4>2. CASE n # m + 1
        BY <3>1, <4>2
      <4> QED
        BY <4>1, <4>2
    <3>3. g = [n \in 0..m + 1 |-> IF n = 0 THEN zero ELSE step(g[n - 1], n)]
      BY <3>2
    <3> HIDE DEF g
    <3> QED
      BY <3>3
  <2>3. N \in P
    BY <1>2, <2>1, <2>2, NatSetInduction
  <2> QED
    BY <2>3 DEF N
<1> HIDE DEF run
<1>4. Draining(W, zero, cs, N - 0)
  <2>1. Work(W) <= N - 0
    BY <1>2
  <2> HIDE DEF N
  <2> QED
    BY <2>1 DEF Draining, Drained
<1>5. ASSUME NEW A, NEW n \in 0..N - 1, Draining(W, A, cs, N - n) PROVE Draining(W, step(A, n + 1), cs, N - (n + 1))
  <2> HIDE DEF N
  <2>1. CASE A.unblocked = Empty
    BY <1>5, <2>1 DEF Draining
  <2>2. CASE A.unblocked # Empty
    <3> DEFINE B == Serve(A, Head(A.unblocked))
    <3>1. step(A, n + 1) = B
      BY <2>2
    <3>2. Drained(W, B, cs) /\ Work(B) <= Work(A) - 1
      BY <1>5, <2>2, DrainOne DEF Draining
    <3> HIDE DEF B, step
    <3>3. Work(B) <= N - (n + 1)
      <4>1. Work(A) <= N - n
        BY <1>5, <2>2 DEF Draining
      <4>2. Work(A) \in Nat /\ Work(B) \in Nat
        BY <1>5, <3>2, UnreadFinite DEF Draining, Drained
      <4> QED
        BY <1>2, <3>2, <4>1, <4>2
    <3> QED
      BY <3>1, <3>2, <3>3 DEF Draining
  <2> QED
    BY <2>1, <2>2
<1>6. Draining(W, run[N], cs, N - (N))
  <2> HIDE DEF N, zero, step
  <2> DEFINE P == {n \in Nat : n <= N => Draining(W, run[n], cs, N - (n))}
  <2>1. 0 \in P
    <3>1. run[0] = zero
      BY <1>2, <1>3
    <3> QED
      BY <3>1, <1>4
  <2>2. ASSUME NEW n \in Nat, n \in P PROVE n + 1 \in P
    <3> SUFFICES ASSUME n + 1 <= N PROVE Draining(W, run[n + 1], cs, N - (n + 1))
      OBVIOUS
    <3>1. n \in 0..N - 1 /\ n <= N /\ (n + 1) - 1 = n
      BY <1>2
    <3>2. run[n + 1] = step(run[n], n + 1)
      BY <1>2, <1>3
    <3>3. Draining(W, run[n], cs, N - (n))
      BY <2>2, <3>1
    <3> HIDE DEF P
    <3>4. Draining(W, step(run[n], n + 1), cs, N - (n + 1))
      BY <1>5, <3>1, <3>3
    <3> QED
      BY <3>2, <3>4
  <2>3. N \in P
    BY <1>2, <2>1, <2>2, NatSetInduction
  <2> QED
    BY <1>2, <2>3
<1> HIDE DEF zero, step
<1>7. Drained(W, V, cs)
  BY <1>1, <1>6 DEF Draining
<1>8. V.unblocked = Empty
  <2> SUFFICES ASSUME V.unblocked # Empty PROVE FALSE
    OBVIOUS
  <2>1. Work(V) <= N - (N)
    BY <1>1, <1>6 DEF Draining
  <2> HIDE DEF N
  <2>0. GoodBut(V, {}, cs)
    BY <1>7 DEF Drained
  <2> DEFINE r == V.unblocked
  <2>2. r \in Seq(Clients) /\ r # Empty
    BY <2>0, GoodParts DEF Queues
  <2>3. Len(r) \in Nat \ {0}
    <3> HIDE DEF r
    <3> QED
      BY <2>2, HeadTailIs
  <2>4. Cardinality(Waiting(V)) \in Nat /\ Cardinality(Unread(V)) \in Nat
    BY <2>0, GoodParts, LoadNat, UnreadFinite, FS_CardinalityType
  <2> QED
    BY <1>2, <2>1, <2>3, <2>4 DEF Work, Load
<1> QED
  BY <1>7, <1>8 DEF V

----------------------------------------------------------------------------
\* The variables of the server, and the record its steps compute.
Same(W, V) ==
    /\ DOMAIN W = Fields
    /\ W.dict = V.dict /\ W.cl = V.cl /\ W.blocking_keys = V.blocking_keys /\ W.watched_keys = V.watched_keys
    /\ W.channels = V.channels /\ W.patterns = V.patterns /\ W.ready = V.ready /\ W.unblocked = V.unblocked
    /\ W.toclose = V.toclose /\ W.link = V.link /\ W.counted = V.counted

LEMMA SameGood == ASSUME NEW W, NEW V, Same(W, V), Good(V) PROVE Good(W)
<1>1. GoodBut(V, {}, {}) /\ Closing(V)
  BY DEF Good
<1>2. Shape(V) /\ Tables(V) /\ Queues(V) /\ Data(V, {})
      /\ \A c \in Clients : ClientOk(V.cl[c], c \in V.counted)
  BY <1>1, GoodParts
<1>3. \A c \in Clients : Limit(V, c)
  BY <1>1 DEF GoodBut
<1>4. Shape(W) /\ \A c \in Clients : ClientOk(W.cl[c], c \in W.counted)
  BY <1>2 DEF Same, Shape
<1>5. Tables(W)
  BY <1>2 DEF Same, Tables, KeysOf, WatchedOf, SubsOf
<1>6. Queues(W)
  BY <1>2 DEF Same, Queues
<1>7. Data(W, {})
  BY <1>2 DEF Same, Data, Pending, Fresh, ReadyDirty, IsList
<1>8. Closing(W)
  BY <1>1 DEF Same, Closing
<1>9. \A c \in Clients : Limit(W, c)
  <2> SUFFICES ASSUME NEW c \in Clients PROVE Limit(W, c)
    OBVIOUS
  <2>1. W.cl = V.cl
    BY DEF Same
  <2> QED
    BY <1>3, <2>1, LimitSame
<1> QED
  BY <1>4, <1>5, <1>6, <1>7, <1>8, <1>9 DEF Good, GoodBut, CoreBut

LEMMA SameOrder ==
  ASSUME NEW W, NEW V, Same(W, V), NEW k, NEW c, NEW d
  PROVE  InOrder(W, k, c, d) <=> InOrder(V, k, c, d)
BY DEF Same, InOrder, Ahead, Settled

LEMMA WorldIs ==
  /\ World.dict = dict /\ World.cl = cl /\ World.blocking_keys = blocking_keys
  /\ World.watched_keys = watched_keys /\ World.channels = channels /\ World.patterns = patterns
  /\ World.ready = Empty /\ World.unblocked = unblocked /\ World.toclose = toclose /\ World.link = link
  /\ World.counted = Slow[family] /\ DOMAIN World = Fields
BY DEF World, Fields

LEMMA BecomeSame ==
  ASSUME NEW V, V.ready = Empty, V.counted = Slow[family], Become(V), family' = family
  PROVE  Same(World', V)
<1>1. /\ dict' = V.dict /\ cl' = V.cl /\ blocking_keys' = V.blocking_keys /\ watched_keys' = V.watched_keys
      /\ channels' = V.channels /\ patterns' = V.patterns /\ unblocked' = V.unblocked /\ toclose' = V.toclose
      /\ link' = V.link
  BY DEF Become
<1> QED
  BY <1>1 DEF Same, World, Fields

\* Nobody who is there is overtaken.
InTurn(W, V) ==
    \A k : \A x, d \in Clients : W.cl[x].alive /\ W.cl[d].alive /\ InOrder(W, k, x, d) => InOrder(V, k, x, d)

\* What the handler of a file event of c makes of the server.
Event(V, c) == Good(V) /\ V.ready = Empty /\ V.counted = Slow[family] /\ FileEvent(V, c) /\ InTurn(World, V)

LEMMA AcceptEvent ==
  ASSUME Good(World), NEW c \in Clients, Accept(c)
  PROVE  \E V : Event(V, c)
<1> DEFINE W == World
           V == acceptCommonHandler(W, c)
<1>1. FileEvent(V, c) /\ ~cl[c].alive
  BY DEF Accept
<1>2. GoodBut(W, {}, {}) /\ Closing(W) /\ ~W.cl[c].alive /\ W.ready = Empty /\ W.counted = Slow[family]
  BY <1>1, WorldIs DEF Good
<1>3. W = World
  OBVIOUS
<1> HIDE DEF W
<1>4. /\ GoodBut(V, {}, {}) /\ Idles(W, V)
      /\ \A k : \A x, d \in Clients : x # c /\ d # c /\ InOrder(W, k, x, d) => InOrder(V, k, x, d)
  BY <1>2, AcceptGood
<1> HIDE DEF V
<1>5. Good(V) /\ V.ready = Empty /\ V.counted = Slow[family]
  BY <1>2, <1>4 DEF Idles, Good
<1>6. InTurn(W, V)
  BY <1>2, <1>4 DEF InTurn
<1> QED
  BY <1>1, <1>3, <1>5, <1>6 DEF Event

LEMMA GoesTurn == ASSUME NEW W, NEW V, Orderly(W, V) PROVE InTurn(W, V)
BY DEF Orderly, InTurn

LEMMA DisconnectEvent ==
  ASSUME Good(World), NEW c \in Clients, Disconnect(c)
  PROVE  \E V : Event(V, c)
<1> DEFINE W == World
           V == freeClient(W, c)
<1>1. FileEvent(V, c) /\ cl[c].alive
  BY DEF Disconnect
<1>2. GoodBut(W, {}, {}) /\ Closing(W) /\ W.cl[c].alive /\ W.ready = Empty /\ W.counted = Slow[family]
  BY <1>1, WorldIs DEF Good
<1>3. W = World
  OBVIOUS
<1> HIDE DEF W
<1>4. GoodBut(V, {}, {}) /\ Goes(W, V) /\ Idles(W, V)
  BY <1>2, FreeNow
<1> HIDE DEF V
<1>5. Good(V) /\ V.ready = Empty /\ V.counted = Slow[family]
  BY <1>2, <1>4 DEF Idles, Good
<1>6. InTurn(W, V)
  BY <1>4, GoesTurn DEF Goes
<1> QED
  BY <1>1, <1>3, <1>5, <1>6 DEF Event

LEMMA SendEvent ==
  ASSUME Good(World), NEW c \in Clients, SendReply(c)
  PROVE  \E V : Event(V, c)
<1> DEFINE W == World
           waiting == W.cl[c].buf + W.cl[c].list
<1>1. PICK n \in {Min({1, cl[c].buf + cl[c].list}), cl[c].buf + cl[c].list} :
           FileEvent(sendReplyToClient(World, c, n), c)
  BY DEF SendReply
<1>2. cl[c].alive
  BY DEF SendReply
<1> DEFINE V == sendReplyToClient(W, c, n)
<1>3. GoodBut(W, {}, {}) /\ Closing(W) /\ W.cl[c].alive /\ W.ready = Empty /\ W.counted = Slow[family]
  BY <1>2, WorldIs DEF Good
<1>4. FileEvent(V, c) /\ n \in {Min({1, waiting}), waiting}
  BY <1>1, WorldIs
<1>5. W = World
  OBVIOUS
<1> HIDE DEF W
<1>6. waiting \in Nat
  <2>1. ClientOk(W.cl[c], c \in W.counted)
    BY <1>3, GoodParts
  <2> QED
    BY <2>1 DEF ClientOk
<1>7. n \in Nat /\ n <= waiting
  <2> HIDE DEF waiting
  <2>1. {1, waiting} \in SUBSET Nat /\ {1, waiting} # {}
    BY <1>6
  <2>2. Min({1, waiting}) \in {1, waiting} /\ Min({1, waiting}) <= waiting
    BY <2>1, NatMin
  <2> QED
    BY <1>4, <1>6, <2>2
<1>8. GoodBut(V, {}, {}) /\ Goes(W, V) /\ Idles(W, V)
  BY <1>3, <1>7, SendGood
<1> HIDE DEF V
<1>9. Good(V) /\ V.ready = Empty /\ V.counted = Slow[family]
  BY <1>3, <1>8 DEF Idles, Good
<1>10. InTurn(W, V)
  BY <1>8, GoesTurn DEF Goes
<1> QED
  BY <1>4, <1>5, <1>9, <1>10 DEF Event

LEMMA ReadEvent ==
  ASSUME Good(World), family \in DOMAIN Asked, NEW c \in Clients, readQueryFromClient(c)
  PROVE  \E V : Event(V, c)
<1> DEFINE W == World
<1>1. PICK batch \in Asked[family][c] :
        FileEvent(processInputBuffer([World EXCEPT !.cl[c].querybuf = @ \o batch, !.cl[c].idle = 0], c), c)
  BY DEF readQueryFromClient
<1>2. cl[c].alive
  BY DEF readQueryFromClient
<1>3. GoodBut(W, {}, {}) /\ Closing(W) /\ W.cl[c].alive /\ W.ready = Empty /\ W.counted = Slow[family]
  BY <1>2, WorldIs DEF Good
<1>4. W = World
  OBVIOUS
<1> DEFINE B == [W EXCEPT !.cl[c].querybuf = @ \o batch, !.cl[c].idle = 0]
           V == processInputBuffer(B, c)
<1>5. FileEvent(V, c)
  BY <1>1
<1> HIDE DEF W
<1> DEFINE buf == W.cl[c].querybuf \o batch
<1>6. Shape(W) /\ ClientOk(W.cl[c], c \in W.counted)
  BY <1>3, GoodParts
<1>7. B = Put(W, c, [W.cl[c] EXCEPT !.querybuf = buf, !.idle = 0])
  BY <1>6 DEF Put, Shape, Fields, Attributes
<1>8. buf \in Seq(Command)
  <2> DEFINE s == W.cl[c].querybuf
  <2>1. s \in Seq(Command)
    BY <1>6 DEF ClientOk
  <2>2. batch \in Seq(Command)
    BY FamiliesBound
  <2> HIDE DEF s
  <2>3. s \o batch \in Seq(Command)
    BY <2>1, <2>2
  <2> QED
    BY <2>3 DEF s
<1> HIDE DEF buf, B
<1>9. GoodBut(B, {}, {}) /\ Given(W, B, c, buf)
  BY <1>3, <1>7, <1>8, InputGood
<1>10. Closing(B)
  <2>1. \A d \in Clients : "CLOSE_ASAP" \in B.cl[d].flags <=> "CLOSE_ASAP" \in W.cl[d].flags
    BY <1>9 DEF Given
  <2> QED
    BY <1>3, <1>9, <2>1, ClosingSame DEF Given
<1>11. B.ready = Empty /\ B.cl[c].alive /\ B.counted = W.counted /\ Orderly(W, B)
  BY <1>3, <1>9 DEF Given
<1>12. Read(B, V, c, {})
  BY <1>9, <1>11, InputRead
<1> HIDE DEF V
<1>13. Good(V) /\ V.ready = Empty /\ V.counted = Slow[family]
  BY <1>3, <1>10, <1>11, <1>12 DEF Read, Good
<1>14. InTurn(W, V)
  <2>1. Orderly(W, V)
    BY <1>11, <1>12 DEF Read, Orderly
  <2> QED
    BY <2>1, GoesTurn
<1> QED
  BY <1>4, <1>5, <1>13, <1>14 DEF Event

\* Before it sleeps the server has nobody left who was unblocked.
LEMMA SleepGood ==
  ASSUME NEW W, Good(W), W.ready = Empty, W.counted = Slow[family], beforeSleep(W)
  PROVE  Good(World') /\ unblocked' = Empty /\ family' = family /\ mode' = mode /\ slave' = slave
<1> DEFINE V == ProcessUnblocked(W)
<1>1. Become(V) /\ family' = family /\ mode' = mode /\ slave' = slave
  BY DEF beforeSleep
<1>2. GoodBut(W, {}, {}) /\ Closing(W)
  BY DEF Good
<1>3. Drained(W, V, {}) /\ V.unblocked = Empty
  BY <1>2, DrainGood
<1> HIDE DEF V
<1>4. Good(V) /\ V.ready = Empty /\ V.counted = Slow[family]
  BY <1>2, <1>3 DEF Drained, Good
<1>5. Same(World', V)
  BY <1>1, <1>4, BecomeSame
<1>6. Good(World')
  BY <1>4, <1>5, SameGood
<1>7. unblocked' = Empty
  BY <1>1, <1>3 DEF Become
<1> QED
  BY <1>1, <1>6, <1>7

LEMMA CronSleeps ==
  ASSUME Good(World), NEW dt, serverCron(dt)
  PROVE  Good(World') /\ unblocked' = Empty /\ family' = family /\ mode' = mode /\ slave' = slave
<1> DEFINE W == World
           A == Elapse(W, dt)
           B == clientsCron(A)
           V == freeClientsInAsyncFreeQueue(B)
<1>1. beforeSleep(V)
  BY DEF serverCron
<1>2. GoodBut(W, {}, {}) /\ Closing(W) /\ W.ready = Empty /\ W.counted = Slow[family]
  BY WorldIs DEF Good
<1> HIDE DEF W
<1>3. GoodBut(A, {}, {}) /\ Idles(W, A)
  BY <1>2, ElapseGood
<1> HIDE DEF A
<1>4. GoodBut(B, {}, {}) /\ Idles(A, B)
  BY <1>3, CronGood
<1> HIDE DEF B
<1>5. Good(B)
  BY <1>2, <1>3, <1>4 DEF Idles, Good
<1>6. Good(V) /\ Idles(B, V)
  BY <1>5, AsyncGood
<1> HIDE DEF V
<1>7. V.ready = Empty /\ V.counted = Slow[family]
  BY <1>2, <1>3, <1>4, <1>6 DEF Idles
<1> QED
  BY <1>1, <1>6, <1>7, SleepGood

----------------------------------------------------------------------------
\* What holds of the server between two of its steps.
ClientsInv ==
    /\ family \in DOMAIN Asked /\ mode \in Modes[family]
    /\ DOMAIN slave = {"dict", "multi", "commands"}
    /\ slave.multi \in BOOLEAN /\ (~slave.multi => slave.commands = Empty)
    /\ Good(World)

LEMMA InitInv == Init => ClientsInv
<1> SUFFICES ASSUME Init PROVE ClientsInv
  OBVIOUS
<1> DEFINE W == World
<1>1. /\ dict = Empty /\ cl = [c \in Clients |-> NoClient]
      /\ blocking_keys = Empty /\ watched_keys = Empty /\ channels = Empty /\ patterns = Empty
      /\ unblocked = Empty /\ toclose = Empty /\ link = Empty
  BY DEF Init
<1>2. /\ W.dict = Empty /\ W.blocking_keys = Empty /\ W.watched_keys = Empty /\ W.channels = Empty
      /\ W.patterns = Empty /\ W.ready = Empty /\ W.unblocked = Empty /\ W.toclose = Empty /\ W.link = Empty
      /\ DOMAIN W = Fields /\ DOMAIN W.cl = Clients
  BY <1>1, WorldIs
<1>3. \A c \in Clients : W.cl[c] = NoClient
  BY <1>1, WorldIs
<1> HIDE DEF W
<1>4. DOMAIN Empty = {} /\ (\A X : Empty \in Seq(X)) /\ Len(Empty) = 0 /\ IsInjective(Empty)
      /\ \A x : ~Contains(Empty, x)
  BY EmptyIs, NothingReady DEF Empty, IsInjective
<1>5. /\ DOMAIN NoClient = Attributes /\ ~NoClient.alive /\ NoClient.flags = {} /\ NoClient.keys = {}
      /\ NoClient.watched = {} /\ NoClient.subs = {} /\ NoClient.pats = {} /\ NoClient.list = 0
      /\ \A slow : ClientOk(NoClient, slow)
  BY NoClientIs
<1>6. Shape(W) /\ \A c \in Clients : ClientOk(W.cl[c], c \in W.counted)
  BY <1>2, <1>3, <1>5 DEF Shape
<1>7. Tables(W)
  <2>1. IndexOk(W.blocking_keys, KeysOf(W)) /\ IndexOk(W.watched_keys, WatchedOf(W))
        /\ IndexOk(W.channels, SubsOf(W))
    BY <1>2, <1>3, <1>4, <1>5 DEF IndexOk, KeysOf, WatchedOf, SubsOf
  <2> QED
    BY <1>2, <1>3, <1>4, <1>5, <2>1 DEF Tables
<1>8. Queues(W)
  BY <1>2, <1>3, <1>4, <1>5 DEF Queues
<1>9. Data(W, {})
  BY <1>2, <1>3, <1>4, <1>5 DEF Data, Values, Full, Pending, Fresh, ReadyDirty
<1>10. Closing(W)
  BY <1>2, <1>3, <1>4, <1>5 DEF Closing
<1>11. ASSUME NEW c \in Clients PROVE Limit(W, c)
  <2>1. W.cl[c].list = 0
    BY <1>3, <1>5
  <2> DEFINE n == HardLimit[getClientLimitClass(W, c)]
  <2>2. n \in Nat
    BY LimitsBound DEF getClientLimitClass
  <2> HIDE DEF n
  <2>3. ~Reached(n, 0)
    BY <2>2 DEF Reached
  <2> QED
    BY <2>1, <2>3 DEF Limit, n
<1>12. Good(W)
  BY <1>6, <1>7, <1>8, <1>9, <1>10, <1>11 DEF Good, GoodBut, CoreBut
<1> QED
  BY <1>12 DEF W, Init, ClientsInv

\* A step is the handler of a file event, the end of an iteration, or nothing the server does.
LEMMA StepKinds ==
  ASSUME ClientsInv, [Next]_vars
  PROVE  \/ \E c \in Clients : \E V : Event(V, c)
         \/ Good(World') /\ unblocked' = Empty /\ family' = family /\ mode' = mode /\ slave' = slave
         \/ SlaveReads
         \/ ModeChange
         \/ UNCHANGED vars
<1>0. Good(World) /\ family \in DOMAIN Asked
  BY DEF ClientsInv
<1>1. ASSUME NEW c \in Clients, Accept(c) PROVE \E V : Event(V, c)
  BY <1>0, <1>1, AcceptEvent
<1>2. ASSUME NEW c \in Clients, readQueryFromClient(c) PROVE \E V : Event(V, c)
  BY <1>0, <1>2, ReadEvent
<1>3. ASSUME NEW c \in Clients, Disconnect(c) PROVE \E V : Event(V, c)
  BY <1>0, <1>3, DisconnectEvent
<1>4. ASSUME NEW c \in Clients, SendReply(c) PROVE \E V : Event(V, c)
  BY <1>0, <1>4, SendEvent
<1>5. CASE Sleep
  <2> DEFINE W == World
  <2>1. Good(W) /\ W.ready = Empty /\ W.counted = Slow[family]
    BY <1>0, WorldIs
  <2>2. beforeSleep(W)
    BY <1>5 DEF Sleep
  <2> HIDE DEF W
  <2> QED
    BY <2>1, <2>2, SleepGood
<1>6. CASE Cron
  <2>1. PICK dt \in {0, 1} : serverCron(dt)
    BY <1>6 DEF Cron
  <2> QED
    BY <1>0, <2>1, CronSleeps
<1> QED
  BY <1>1, <1>2, <1>3, <1>4, <1>5, <1>6 DEF Next

LEMMA EventInv ==
  ASSUME ClientsInv, NEW c \in Clients, NEW V, Event(V, c)
  PROVE  ClientsInv' /\ Same(World', V)
<1>1. Good(V) /\ V.ready = Empty /\ V.counted = Slow[family] /\ FileEvent(V, c)
  BY DEF Event
<1>2. Become(V) /\ family' = family /\ mode' = mode /\ slave' = slave
  BY <1>1 DEF FileEvent
<1>3. Same(World', V)
  BY <1>1, <1>2, BecomeSame
<1>4. Good(World')
  BY <1>1, <1>3, SameGood
<1> QED
  BY <1>2, <1>3, <1>4 DEF ClientsInv

LEMMA NextInv == ClientsInv /\ [Next]_vars => ClientsInv'
<1> SUFFICES ASSUME ClientsInv, [Next]_vars PROVE ClientsInv'
  OBVIOUS
<1>1. CASE \E c \in Clients : \E V : Event(V, c)
  BY <1>1, EventInv
<1>2. CASE Good(World') /\ unblocked' = Empty /\ family' = family /\ mode' = mode /\ slave' = slave
  BY <1>2 DEF ClientsInv
<1>3. CASE SlaveReads
  <2> DEFINE q == Head(link)
             multi == [slave EXCEPT !.multi = TRUE]
             done == [dict |-> ApplyAll(slave.dict, slave.commands), multi |-> FALSE, commands |-> Empty]
             more == [slave EXCEPT !.commands = Append(@, q)]
             now == [slave EXCEPT !.dict = Apply(@, q)]
  <2>1. /\ link # Empty /\ link' = Tail(link) /\ family' = family /\ mode' = mode
        /\ dict' = dict /\ cl' = cl /\ blocking_keys' = blocking_keys /\ watched_keys' = watched_keys
        /\ channels' = channels /\ patterns' = patterns /\ unblocked' = unblocked /\ toclose' = toclose
    BY <1>3 DEF SlaveReads
  <2>2. slave' = IF Name(q) = "MULTI" THEN multi ELSE IF Name(q) = "EXEC" THEN done
                 ELSE IF slave.multi THEN more ELSE now
    BY <1>3 DEF SlaveReads
  <2>3. /\ DOMAIN slave = {"dict", "multi", "commands"} /\ slave.multi \in BOOLEAN
        /\ (~slave.multi => slave.commands = Empty)
    BY DEF ClientsInv
  <2>4. /\ DOMAIN slave' = {"dict", "multi", "commands"} /\ slave'.multi \in BOOLEAN
        /\ (~slave'.multi => slave'.commands = Empty)
    BY <2>2, <2>3
  <2> DEFINE V == [World EXCEPT !.link = Tail(link)]
  <2>5. Same(World', V)
    BY <2>1 DEF Same, World, Fields
  <2>6. Good(V)
    <3> DEFINE W == World
    <3>1. Good(W) /\ W.link = link
      BY WorldIs DEF ClientsInv
    <3>2. V = [W EXCEPT !.link = Tail(link)]
      OBVIOUS
    <3> HIDE DEF W, V
    <3>3. GoodBut(W, {}, {}) /\ Closing(W)
      BY <3>1 DEF Good
    <3>4. Shape(W) /\ Tables(W) /\ Queues(W) /\ Data(W, {}) /\ W.link \in Seq(Command)
          /\ \A d \in Clients : ClientOk(W.cl[d], d \in W.counted)
      BY <3>3, GoodParts
    <3> DEFINE l == link
    <3>5. l \in Seq(Command) /\ l # Empty
      BY <2>1, <3>1, <3>4
    <3> HIDE DEF l
    <3>6. Tail(l) \in Seq(Command)
      BY <3>5, HeadTailIs
    <3>7. /\ DOMAIN V = Fields /\ V.link = Tail(link)
          /\ V.dict = W.dict /\ V.cl = W.cl /\ V.blocking_keys = W.blocking_keys
          /\ V.watched_keys = W.watched_keys /\ V.channels = W.channels /\ V.patterns = W.patterns
          /\ V.ready = W.ready /\ V.unblocked = W.unblocked /\ V.toclose = W.toclose /\ V.counted = W.counted
      BY <3>2, <3>4 DEF Shape, Fields
    <3>8. Shape(V) /\ \A d \in Clients : ClientOk(V.cl[d], d \in V.counted)
      BY <3>4, <3>7 DEF Shape
    <3>9. Tables(V) /\ Queues(V)
      BY <3>4, <3>7 DEF Tables, Queues, KeysOf, WatchedOf, SubsOf
    <3>10. Data(V, {})
      BY <3>4, <3>6, <3>7 DEF Data, Pending, Fresh, ReadyDirty, IsList, l
    <3>11. Closing(V)
      BY <3>3, <3>7 DEF Closing
    <3>12. ASSUME NEW d \in Clients PROVE Limit(V, d)
      BY <3>3, <3>7, LimitSame DEF GoodBut
    <3> QED
      BY <3>8, <3>9, <3>10, <3>11, <3>12 DEF Good, GoodBut, CoreBut
  <2>7. Good(World')
    BY <2>5, <2>6, SameGood
  <2> QED
    BY <2>1, <2>4, <2>7 DEF ClientsInv
<1>4. CASE ModeChange
  <2>1. World' = World /\ family' = family /\ slave' = slave /\ mode' \in Modes[family]
    BY <1>4 DEF ModeChange, World
  <2> QED
    BY <2>1 DEF ClientsInv
<1>5. CASE UNCHANGED vars
  <2>1. World' = World /\ family' = family /\ slave' = slave /\ mode' = mode
    BY <1>5 DEF vars, World
  <2> QED
    BY <2>1 DEF ClientsInv
<1> QED
  BY <1>1, <1>2, <1>3, <1>4, <1>5, StepKinds

\* The invariant: what the records of the clients say and what the tables and queues of the server say is the same
\* (freeClient, blockForKeys, watchForKey, the subscriptions), whatever the handlers did in between.
THEOREM ClientsCorrect == Spec => []ClientsInv
<1>1. Init => ClientsInv
  BY InitInv
<1>2. ClientsInv /\ [Next]_vars => ClientsInv'
  BY NextInv
<1> QED
  BY <1>1, <1>2, PTL DEF Spec

----------------------------------------------------------------------------
LEMMA InvParts ==
  ASSUME ClientsInv
  PROVE  /\ TypeOK /\ IndexOk(blocking_keys, KeysOf(World)) /\ IndexOk(watched_keys, WatchedOf(World))
         /\ IndexOk(channels, SubsOf(World)) /\ IsInjective(patterns)
         /\ \A c \in Clients : \A p : (p \in cl[c].pats) <=> Contains(patterns, <<c, p>>)
         /\ \A c \in Clients : (cl[c].keys # {}) <=> ("BLOCKED" \in cl[c].flags)
         /\ \A c \in Clients : cl[c].pats \subseteq DOMAIN Matches /\ DOMAIN cl[c].seen = cl[c].watched
         /\ Data(World, {}) /\ \A c \in Clients : Limit(World, c)
<1> DEFINE W == World
<1>1. /\ W.dict = dict /\ W.cl = cl /\ W.blocking_keys = blocking_keys /\ W.watched_keys = watched_keys
      /\ W.channels = channels /\ W.patterns = patterns /\ W.ready = Empty /\ W.unblocked = unblocked
      /\ W.toclose = toclose
  BY WorldIs
<1>2. Good(W)
  BY DEF ClientsInv
<1>3. W = World
  OBVIOUS
<1> HIDE DEF W
<1>4. GoodBut(W, {}, {}) /\ Closing(W)
  BY <1>2 DEF Good
<1>5. Tables(W) /\ Queues(W) /\ Data(W, {}) /\ \A c \in Clients : ClientOk(W.cl[c], c \in W.counted)
  BY <1>4, GoodParts
<1>6. \A c \in Clients : Limit(W, c)
  BY <1>4 DEF GoodBut
<1>7. /\ IndexOk(blocking_keys, KeysOf(W)) /\ IndexOk(watched_keys, WatchedOf(W))
      /\ IndexOk(channels, SubsOf(W)) /\ IsInjective(patterns)
      /\ \A c \in Clients : \A p : (p \in cl[c].pats) <=> Contains(patterns, <<c, p>>)
  BY <1>1, <1>5 DEF Tables
<1>8. \A c \in Clients : /\ (cl[c].keys # {}) <=> ("BLOCKED" \in cl[c].flags)
                         /\ cl[c].pats \subseteq DOMAIN Matches /\ DOMAIN cl[c].seen = cl[c].watched
                         /\ cl[c].flags \subseteq AllFlags /\ (~cl[c].alive => cl[c] = NoClient)
  BY <1>1, <1>5 DEF ClientOk
<1>9. TypeOK
  BY <1>1, <1>4, <1>5, <1>8 DEF TypeOK, ClientsInv, Queues, Closing
<1> QED
  BY <1>3, <1>5, <1>6, <1>7, <1>8, <1>9

\* What a client waits for, watches and is subscribed to is what the tables of the server say, with no empty list
\* and nobody who is gone, and nobody waits for a list that has elements (freeClient, handleClientsBlockedOnLists).
THEOREM IndexesAgreeCorrect == Spec => []IndexesAgree
<1>1. ASSUME ClientsInv PROVE IndexesAgree
  <2> DEFINE W == World
  <2>1. /\ TypeOK /\ IndexOk(blocking_keys, KeysOf(W)) /\ IndexOk(watched_keys, WatchedOf(W))
        /\ IndexOk(channels, SubsOf(W)) /\ IsInjective(patterns) /\ Data(W, {})
        /\ \A c \in Clients : \A p : (p \in cl[c].pats) <=> Contains(patterns, <<c, p>>)
        /\ \A c \in Clients : (cl[c].keys # {}) <=> ("BLOCKED" \in cl[c].flags)
        /\ \A c \in Clients : cl[c].pats \subseteq DOMAIN Matches
    BY <1>1, InvParts
  <2>2. W.cl = cl /\ W.blocking_keys = blocking_keys /\ W.ready = Empty /\ W = World
    BY WorldIs
  <2> HIDE DEF W
  <2>3. \A c \in Clients : {k \in DOMAIN blocking_keys : Contains(blocking_keys[k], c)} = cl[c].keys
    BY <2>1, <2>2 DEF IndexOk, KeysOf
  <2>4. \A c \in Clients : {k \in DOMAIN watched_keys : Contains(watched_keys[k], c)} = cl[c].watched
    BY <2>1, <2>2 DEF IndexOk, WatchedOf
  <2>5. \A c \in Clients : {ch \in DOMAIN channels : Contains(channels[ch], c)} = cl[c].subs
    BY <2>1, <2>2 DEF IndexOk, SubsOf
  <2>6. \A c \in Clients : {p \in DOMAIN Matches : Contains(patterns, <<c, p>>)} = cl[c].pats
    BY <2>1
  <2>7. \A index \in {blocking_keys, watched_keys, channels} :
           \A k \in DOMAIN index : index[k] # Empty /\ IsInjective(index[k])
    BY <2>1 DEF IndexOk
  <2>8. NobodyWaitsForNothing
    BY <2>1, <2>2, NothingReady DEF Data, Pending, NobodyWaitsForNothing
  <2> QED
    BY <2>1, <2>3, <2>4, <2>5, <2>6, <2>7, <2>8 DEF IndexesAgree
<1>2. ClientsInv => IndexesAgree
  BY <1>1
<1> QED
  BY <1>2, ClientsCorrect, PTL

\* While EXEC would run, every watched key holds what it held when it was watched: touchWatchedKey and
\* touchWatchedKeysOnFlush miss no change, whoever makes it.
THEOREM WatchSoundCorrect == Spec => []WatchSound
<1>1. ASSUME ClientsInv PROVE WatchSound
  BY <1>1, InvParts, WorldIs DEF Data, Fresh, WatchSound
<1>2. ClientsInv => WatchSound
  BY <1>1
<1> QED
  BY <1>2, ClientsCorrect, PTL

\* A client over the hard limit of its class is to be closed (asyncCloseClientOnOutputBufferLimitReached), also
\* when it moved to another class with less room.
THEOREM OverLimitClosesCorrect == Spec => []OverLimitCloses
<1>1. ASSUME ClientsInv PROVE OverLimitCloses
  BY <1>1, InvParts, WorldIs DEF Limit, OverLimitCloses
<1>2. ClientsInv => OverLimitCloses
  BY <1>1
<1> QED
  BY <1>2, ClientsCorrect, PTL

\* Nobody is served past a client that blocked for the same key before (handleClientsBlockedOnLists takes the
\* first of the queue, and no step reorders a queue).
THEOREM NoOvertakingCorrect == Spec => NoOvertaking
<1>1. ASSUME ClientsInv, Next, ~UNCHANGED vars, NEW k \in DOMAIN blocking_keys,
             NEW i \in DOMAIN blocking_keys[k], NEW j \in DOMAIN blocking_keys[k],
             i < j, cl[blocking_keys[k][j]].keys = {k}, ~Contains(unblocked, blocking_keys[k][j]),
             Contains(unblocked', blocking_keys[k][j])
      PROVE  Contains(unblocked', blocking_keys[k][i]) \/ ~cl'[blocking_keys[k][i]].alive
  <2> DEFINE s == blocking_keys[k]
             c == blocking_keys[k][i]
             d == blocking_keys[k][j]
  <2>1. unblocked' # Empty /\ unblocked' # unblocked
    BY <1>1, NothingReady
  <2>0. \E e \in Clients : \E V : Event(V, e)
    BY <1>1, <2>1, StepKinds DEF SlaveReads, ModeChange
  <2>13. PICK e \in Clients : \E V : Event(V, e)
    BY <2>0
  <2>2. PICK V : Event(V, e)
    BY <2>13
  <2>3. IndexOk(blocking_keys, KeysOf(World)) /\ TypeOK
    BY <1>1, InvParts
  <2>4. s \in Seq(Clients)
    BY <2>3 DEF IndexOk
  <2>5. i \in 1..Len(s) /\ j \in 1..Len(s)
    BY <1>1, <2>4
  <2>6. c \in Clients /\ d \in Clients /\ Precedes(s, c, d) /\ Contains(s, c) /\ Contains(s, d)
    <3>1. s[i] = c /\ s[j] = d
      OBVIOUS
    <3> HIDE DEF s, c, d
    <3> QED
      BY <1>1, <2>4, <2>5, <3>1 DEF Precedes, Contains
  <2> HIDE DEF c, d
  <2>7. cl[c].alive /\ cl[d].alive
    <3>1. k \in KeysOf(World)[c] /\ k \in KeysOf(World)[d]
      BY <2>3, <2>6 DEF IndexOk
    <3>2. k \in cl[c].keys /\ k \in cl[d].keys
      BY <2>6, <3>1, WorldIs DEF KeysOf
    <3>3. NoClient.keys = {}
      BY NoClientIs
    <3> QED
      BY <2>3, <2>6, <3>2, <3>3 DEF TypeOK
  <2>8. Ahead(World, k, c, d)
    <3>1. cl[d].keys = {k} /\ ~Contains(unblocked, d)
      BY <1>1 DEF d
    <3> QED
      BY <2>6, <3>1, WorldIs DEF Ahead
  <2>9. InOrder(V, k, c, d)
    BY <2>2, <2>6, <2>7, <2>8, WorldIs DEF Event, InTurn, InOrder
  <2>10. unblocked' = V.unblocked /\ cl' = V.cl
    BY <2>2 DEF Event, FileEvent, Become
  <2>11. Contains(V.unblocked, d)
    BY <1>1, <2>10 DEF d
  <2>12. Contains(V.unblocked, c) \/ ~V.cl[c].alive
    BY <2>9, <2>11 DEF InOrder, Ahead, Settled
  <2> QED
    BY <2>10, <2>12 DEF c
<1>2. ClientsInv /\ [Next]_vars =>
        [\A k \in DOMAIN blocking_keys : \A i, j \in DOMAIN blocking_keys[k] :
           LET c == blocking_keys[k][i]
               d == blocking_keys[k][j]
           IN  (i < j /\ cl[d].keys = {k} /\ ~Contains(unblocked, d) /\ Contains(unblocked', d))
                   => Contains(unblocked', c) \/ ~cl'[c].alive]_vars
  BY <1>1
<1> QED
  BY <1>2, ClientsCorrect, PTL DEF Spec, NoOvertaking
=============================================================================
