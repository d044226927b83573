------------------------ MODULE AllianceRanks_proofs ------------------------
(***************************************************************************)
(* Proofs about AllianceRanks, for any users and alliances, from pages     *)
(* that are up to date or old.                                             *)
(***************************************************************************)
EXTENDS AllianceRanks, SumTheorems

\* What keeps the primary keys of the ranks apart, and the founder's ranks from
\* the standard ones.
RanksNumbered ==
  \A r \in ranks : /\ r.id < nextRank
                   /\ r.standard => ~ r.founder
                   /\ \A s \in ranks : r.id = s.id => r = s

\* The inductive invariant: none of its parts is kept without the others.
RankInv ==
  /\ TypeOK
  /\ RanksNumbered
  /\ RankOfAlliance
  /\ OneFounder
  /\ DefaultRanksExist
  /\ mode = "fresh" => offered = {}
  /\ FreshHasFounder

\* The table ranks after some were created.
Grown ==
  /\ ranks \subseteq ranks' /\ ranks' \subseteq Rank
  /\ nextRank <= nextRank' /\ nextRank' \in 0 .. MaxRanks
  /\ RanksNumbered'
  /\ \A r \in ranks' \ ranks : r.id >= nextRank
-----------------------------------------------------------------------------
LEMMA Constants ==
  /\ None \notin User /\ None \notin Alliance /\ None \notin Nat
  /\ MaxRanks \in Nat /\ MaxScore \in Nat /\ NewPerms \subseteq SUBSET Perm
  BY AllianceAssumption

\* `first` finds a rank where there is one.
LEMMA FirstIsOne ==
  ASSUME NEW rs, rs \subseteq Rank, rs # {}
  PROVE  First(rs) \in rs
<1> DEFINE Ids == {r.id : r \in rs}
<1>1. Ids \subseteq Nat /\ Ids # {}
  BY DEF Rank
<1>2. PICK x \in Ids : \A y \in Ids : ~ (<<y, x>> \in OpToRel(<, Nat))
  <2> HIDE DEF Ids
  <2> QED
    BY <1>1, NatLessThanWellFounded, WFMin, Zenon
<1>3. PICK r \in rs : r.id = x
  BY <1>2
<1>4. \A s \in rs : ~ (s.id < x)
  BY <1>1, <1>2 DEF OpToRel
<1>5. \A s \in rs : r.id <= s.id
  BY <1>3, <1>4 DEF Rank
<1> QED
  BY <1>3, <1>5 DEF First

LEMMA StandardFounderRank ==
  ASSUME TypeOK, DefaultRanksExist, NEW a \in alliances
  PROVE  /\ StandardRank(ranks, a) \in ranks
         /\ StandardRank(ranks, a).alliance = a /\ StandardRank(ranks, a).standard
         /\ FounderRank(ranks, a) \in ranks
         /\ FounderRank(ranks, a).alliance = a /\ FounderRank(ranks, a).founder
<1> DEFINE St == {r \in RanksOf(ranks, a) : r.standard}
<1> DEFINE Fo == {r \in RanksOf(ranks, a) : r.founder}
<1>1. St \subseteq Rank /\ St # {} /\ Fo \subseteq Rank /\ Fo # {}
  BY DEF TypeOK, RanksOf, DefaultRanksExist
<1>2. First(St) \in St /\ First(Fo) \in Fo
  <2> HIDE DEF St, Fo
  <2> QED
    BY <1>1, FirstIsOne
<1> QED
  BY <1>2 DEF StandardRank, FounderRank, RanksOf

\* create_default_ranks hands out the next keys, one for each rank.
LEMMA DefaultRanksAre ==
  ASSUME nextRank \in Nat, NEW a \in Alliance, NEW rs
  PROVE  LET new == DefaultRanks(rs, a)
         IN /\ new \subseteq Rank /\ Cardinality(new) \in Nat
            /\ \A r \in new : /\ r.id \in nextRank .. nextRank + Cardinality(new) - 1
                              /\ r.alliance = a /\ (r.standard => ~ r.founder)
                              /\ \A s \in new : r.id = s.id => r = s
            /\ rs = {} => /\ \E r \in new : r.standard
                          /\ \E r \in new : r.founder
<1> DEFINE taken == {r.name : r \in RanksOf(rs, a)}
<1> DEFINE st == [id |-> nextRank, alliance |-> a, name |-> Applicant,
                  perms |-> {}, standard |-> TRUE, founder |-> FALSE]
<1> DEFINE fo(n) == [id |-> n, alliance |-> a, name |-> Head,
                     perms |-> Perm, standard |-> FALSE, founder |-> TRUE]
<1> DEFINE standard == IF Applicant \in taken THEN {} ELSE {st}
<1> DEFINE new == DefaultRanks(rs, a)
<1>1. new = standard \cup (IF Head \in taken THEN {} ELSE {fo(nextRank + Cardinality(standard))})
  BY DEF DefaultRanks
<1>2. st \in Rank /\ \A n \in Nat : fo(n) \in Rank
  BY DEF Rank, Name, Perm
<1>3. Cardinality({}) = 0 /\ \A x : Cardinality({x}) = 1
  BY FS_EmptySet, FS_Singleton
<1>4. ASSUME NEW x, NEW y, x # y PROVE Cardinality({x} \cup {y}) = 2
  <2>1. IsFiniteSet({x}) /\ Cardinality({x}) = 1
    BY FS_Singleton
  <2>2. y \notin {x}
    BY <1>4
  <2> QED
    BY <2>1, <2>2, FS_AddElement
<1>5. rs = {} => Applicant \notin taken /\ Head \notin taken
  BY DEF RanksOf
<1>6. CASE Applicant \in taken /\ Head \in taken
  <2>1. new = {}
    BY <1>1, <1>6
  <2> QED
    BY <2>1, <1>3, <1>5, <1>6
<1>7. ASSUME NEW r \in Rank, r.id = nextRank, r.alliance = a, r.standard => ~ r.founder,
             new = {r}
      PROVE  /\ new \subseteq Rank /\ Cardinality(new) \in Nat
             /\ \A q \in new : /\ q.id \in nextRank .. nextRank + Cardinality(new) - 1
                               /\ q.alliance = a /\ (q.standard => ~ q.founder)
                               /\ \A s \in new : q.id = s.id => q = s
  <2> HIDE DEF new
  <2>1. Cardinality(new) = 1
    BY <1>3, <1>7
  <2>2. new \subseteq Rank /\ \A q \in new : q = r
    BY <1>7
  <2> QED
    BY <1>7, <2>1, <2>2
<1>8. CASE Applicant \in taken /\ Head \notin taken
  <2>1. new = {fo(nextRank)}
    BY <1>1, <1>3, <1>8
  <2>2. /\ fo(nextRank) \in Rank /\ fo(nextRank).id = nextRank
        /\ fo(nextRank).alliance = a /\ ~ fo(nextRank).standard
    BY <1>2
  <2> HIDE DEF fo, new
  <2> QED
    BY <2>1, <2>2, <1>5, <1>7, <1>8 DEF new
<1>9. CASE Applicant \notin taken /\ Head \in taken
  <2>1. new = {st}
    BY <1>1, <1>9
  <2>2. st \in Rank /\ st.id = nextRank /\ st.alliance = a /\ ~ st.founder
    BY <1>2
  <2> HIDE DEF st, new
  <2> QED
    BY <2>1, <2>2, <1>5, <1>7, <1>9 DEF new
<1>10. CASE Applicant \notin taken /\ Head \notin taken
  <2> DEFINE fi == fo(nextRank + 1)
  <2>1. new = {st} \cup {fi}
    BY <1>1, <1>3, <1>10
  <2>2. /\ st \in Rank /\ st.id = nextRank /\ st.alliance = a
        /\ st.standard /\ ~ st.founder
        /\ fi \in Rank /\ fi.id = nextRank + 1 /\ fi.alliance = a
        /\ fi.founder /\ ~ fi.standard
    BY <1>2
  <2> HIDE DEF st, fo, fi, new
  <2>3. st # fi
    BY <2>2
  <2>4. Cardinality(new) = 2
    BY <1>4, <2>1, <2>3
  <2>5. \A r \in new : /\ r.id \in nextRank .. nextRank + Cardinality(new) - 1
                       /\ r.alliance = a /\ (r.standard => ~ r.founder)
                       /\ \A s \in new : r.id = s.id => r = s
    BY <2>1, <2>2, <2>4
  <2> QED
    BY <2>1, <2>2, <2>4, <2>5 DEF new
<1> QED
  BY <1>6, <1>8, <1>9, <1>10

\* Saving an alliance adds ranks and changes none.
LEMMA SaveGrows ==
  ASSUME TypeOK, RanksNumbered, NEW a \in Alliance, SaveAlliance(a)
  PROVE  Grown
<1> DEFINE new == DefaultRanks(ranks, a)
<1>1. nextRank \in Nat
  BY Constants DEF TypeOK
<1>2. /\ new \subseteq Rank /\ Cardinality(new) \in Nat
      /\ \A r \in new : /\ r.id \in nextRank .. nextRank + Cardinality(new) - 1
                        /\ r.standard => ~ r.founder
                        /\ \A s \in new : r.id = s.id => r = s
  BY <1>1, DefaultRanksAre
<1>3. /\ ranks' = ranks \cup new
      /\ nextRank' = nextRank + Cardinality(new) /\ nextRank + Cardinality(new) <= MaxRanks
  BY DEF SaveAlliance
<1> HIDE DEF new
<1>4. \A r \in ranks : r.id \in Nat /\ r.id < nextRank
  BY DEF TypeOK, Rank, RanksNumbered
<1>5. RanksNumbered'
  BY <1>1, <1>2, <1>3, <1>4 DEF RanksNumbered
<1>6. \A r \in ranks' \ ranks : r.id >= nextRank
  BY <1>1, <1>2, <1>3
<1>7. nextRank <= nextRank' /\ nextRank' \in 0 .. MaxRanks
  BY <1>1, <1>2, <1>3, Constants
<1> QED
  BY <1>2, <1>3, <1>5, <1>6, <1>7 DEF Grown, TypeOK

LEMMA SameRanksGrow ==
  ASSUME TypeOK, RanksNumbered, UNCHANGED <<ranks, nextRank>>
  PROVE  Grown
  BY DEF Grown, TypeOK, RanksNumbered

\* Whoever keeps his rank while ranks are added means the same one.
LEMMA GrownKeeps ==
  ASSUME TypeOK, RanksNumbered, RankOfAlliance, Grown,
         NEW u \in User, rank'[u] = rank[u]
  PROVE  RankOf(u)' = RankOf(u) /\ (IsFounder(u)' <=> IsFounder(u))
<1>1. rank[u] = None \/ \E r \in ranks : r.id = rank[u]
  BY DEF RankOfAlliance
<1>2. \A r \in ranks' : r.id \in Nat /\ nextRank \in Nat
  BY Constants DEF Grown, Rank, TypeOK
<1>3. \A r \in ranks' \ ranks : r.id # rank[u]
  <2> TAKE r \in ranks' \ ranks
  <2>1. CASE rank[u] = None
    BY <2>1, <1>2, Constants
  <2>2. CASE \E s \in ranks : s.id = rank[u]
    BY <2>2, <1>2 DEF RanksNumbered, Grown
  <2> QED
    BY <1>1, <2>1, <2>2
<1>4. RankOf(u)' = RankOf(u)
  BY <1>3 DEF RankOf, Grown
<1> QED
  BY <1>4 DEF IsFounder
-----------------------------------------------------------------------------
\* The step of FounderHanded.
Handed ==
  \A u \in User : IsFounder(u)' /\ ~IsFounder(u) /\ member'[u] \in alliances =>
    \E v \in User : member[v] = member'[u] /\ IsFounder(v) /\ ~IsFounder(v)'

\* What every step keeps; a step against a founder is the one that may lose him.
Keeps ==
  /\ RanksNumbered' /\ RankOfAlliance' /\ OneFounder' /\ DefaultRanksExist'
  /\ Handed

\* Ranks are created (create_default_ranks, RanksController#create), and nobody moves.
LEMMA NobodyMoves ==
  ASSUME RankInv, Grown, UNCHANGED <<alliances, member, rank>>
  PROVE  Keeps /\ (HasFounder => HasFounder')
<1>1. \A u \in User : IsFounder(u)' <=> IsFounder(u)
  BY GrownKeeps DEF RankInv
<1>2. RankOfAlliance' /\ DefaultRanksExist'
  BY DEF RankInv, RankOfAlliance, DefaultRanksExist, RanksOf, Grown
<1>3. OneFounder' /\ Handed
  BY <1>1 DEF RankInv, OneFounder, Handed
<1>4. HasFounder => HasFounder'
  BY <1>1 DEF HasFounder, Members
<1> QED
  BY <1>2, <1>3, <1>4 DEF Keeps, Grown

\* Alliance#add_user gives the standard rank, which is no founder's.
LEMMA AddUserKeeps ==
  ASSUME RankInv, NEW a \in alliances, NEW u \in User, AddUser(a, u), UNCHANGED alliances
  PROVE  Keeps /\ Grown /\ (HasFounder => HasFounder')
<1> DEFINE r == StandardRank(ranks, a)
<1>1. a \in Alliance /\ a # None /\ TypeOK /\ member \in [User -> alliances \cup {None}]
      /\ rank \in [User -> Nat \cup {None}]
  BY Constants DEF RankInv, TypeOK
<1>2. Grown
  BY <1>1, SaveGrows DEF RankInv, AddUser
<1>3. r \in ranks /\ r.alliance = a /\ r.standard
  BY <1>1, StandardFounderRank DEF RankInv
<1> HIDE DEF r
<1>4. /\ member[u] = None /\ member' = [member EXCEPT ![u] = a]
      /\ rank' = [rank EXCEPT ![u] = r.id]
  BY DEF AddUser, r
<1>5. \A v \in User : v # u => /\ rank'[v] = rank[v] /\ member'[v] = member[v]
                               /\ IsFounder(v)' <=> IsFounder(v)
  BY <1>1, <1>2, <1>4, GrownKeeps DEF RankInv
<1>6. rank'[u] = r.id /\ member'[u] = a /\ r \in ranks'
  BY <1>1, <1>2, <1>3, <1>4 DEF Grown
<1>7. ~ IsFounder(u)'
  BY <1>2, <1>3, <1>6 DEF Grown, RanksNumbered, IsFounder, RankOf
<1>8. RankOfAlliance'
  <2> SUFFICES ASSUME NEW v \in User
               PROVE  IF member'[v] = None THEN rank'[v] = None
                      ELSE \E q \in ranks' : q.id = rank'[v] /\ q.alliance = member'[v]
    BY DEF RankOfAlliance
  <2>1. CASE v = u
    BY <2>1, <1>1, <1>3, <1>6
  <2>2. CASE v # u
    BY <2>2, <1>2, <1>5 DEF RankInv, RankOfAlliance, Grown
  <2> QED
    BY <2>1, <2>2
<1>9. OneFounder' /\ Handed
  BY <1>5, <1>7 DEF RankInv, OneFounder, Handed
<1>10. DefaultRanksExist'
  BY <1>2 DEF RankInv, DefaultRanksExist, RanksOf, Grown
<1>11. HasFounder => HasFounder'
  <2>1. \A b \in alliances : b # None
    BY Constants DEF RankInv, TypeOK
  <2>2. \A b \in alliances : \A v \in Members(b) : v # u
    BY <2>1, <1>4 DEF Members
  <2> QED
    BY <2>2, <1>5 DEF HasFounder, Members, AddUser
<1> QED
  BY <1>2, <1>8, <1>9, <1>10, <1>11 DEF Keeps, Grown

\* Alliance#remove_user takes alliance and rank together; removing a founder is
\* the way to lose him.
LEMMA RemoveUserKeeps ==
  ASSUME RankInv, NEW a \in alliances, NEW u \in User, RemoveUser(a, u), UNCHANGED alliances
  PROVE  Keeps /\ Grown /\ (~ IsFounder(u) /\ HasFounder => HasFounder')
<1>1. a \in Alliance /\ a # None /\ TypeOK /\ member \in [User -> alliances \cup {None}]
      /\ rank \in [User -> Nat \cup {None}]
  BY Constants DEF RankInv, TypeOK
<1>2. Grown
  BY <1>1, SaveGrows DEF RankInv, RemoveUser
<1>3. /\ member[u] = a /\ member' = [member EXCEPT ![u] = None]
      /\ rank' = [rank EXCEPT ![u] = None]
  BY DEF RemoveUser
<1>4. \A v \in User : v # u => /\ rank'[v] = rank[v] /\ member'[v] = member[v]
                               /\ IsFounder(v)' <=> IsFounder(v)
  BY <1>1, <1>2, <1>3, GrownKeeps DEF RankInv
<1>5. rank'[u] = None /\ member'[u] = None
  BY <1>1, <1>3
<1>6. ~ IsFounder(u)'
  BY <1>2, <1>5, Constants DEF Grown, Rank, IsFounder, RankOf
<1>7. RankOfAlliance'
  BY <1>2, <1>4, <1>5 DEF RankInv, RankOfAlliance, Grown
<1>8. OneFounder' /\ Handed
  BY <1>4, <1>5, <1>6 DEF RankInv, OneFounder, Handed
<1>9. DefaultRanksExist'
  BY <1>2 DEF RankInv, DefaultRanksExist, RanksOf, Grown
<1>10. ~ IsFounder(u) /\ HasFounder => HasFounder'
  BY <1>4 DEF HasFounder, Members
<1> QED
  BY <1>2, <1>7, <1>8, <1>9, <1>10 DEF Keeps, Grown

\* A new alliance has its two ranks and its founder.
LEMMA CreateKeeps ==
  ASSUME RankInv, NEW u \in User, NEW a \in Alliance, Create(u, a)
  PROVE  Keeps /\ Grown /\ (HasFounder => HasFounder')
<1> DEFINE new == DefaultRanks({}, a)
<1> DEFINE fo == {q \in RanksOf(new, a) : q.founder}
<1> DEFINE r == FounderRank(new, a)
<1>1. a # None /\ TypeOK /\ member \in [User -> alliances \cup {None}]
      /\ rank \in [User -> Nat \cup {None}] /\ nextRank \in Nat
  BY Constants DEF RankInv, TypeOK
<1>2. /\ new \subseteq Rank /\ Cardinality(new) \in Nat
      /\ \A q \in new : /\ q.id \in nextRank .. nextRank + Cardinality(new) - 1
                        /\ q.alliance = a /\ (q.standard => ~ q.founder)
                        /\ \A s \in new : q.id = s.id => q = s
      /\ \E q \in new : q.standard
      /\ \E q \in new : q.founder
  BY <1>1, DefaultRanksAre
<1>3. /\ a \notin alliances /\ member[u] = None /\ alliances' = alliances \cup {a}
      /\ ranks' = ranks \cup new
      /\ nextRank' = nextRank + Cardinality(new) /\ nextRank + Cardinality(new) <= MaxRanks
      /\ member' = [member EXCEPT ![u] = a] /\ rank' = [rank EXCEPT ![u] = r.id]
  BY DEF Create
<1> HIDE DEF new
<1>4. fo \subseteq Rank /\ fo # {} /\ fo \subseteq new
  BY <1>2 DEF RanksOf
<1>5. r \in new /\ r.founder
  <2>1. First(fo) \in fo
    <3> HIDE DEF fo
    <3> QED
      BY <1>4, FirstIsOne
  <2> QED
    BY <2>1 DEF FounderRank, RanksOf
<1> HIDE DEF r, fo
<1>6. Grown
  <2>1. \A q \in ranks : q.id \in Nat /\ q.id < nextRank
    BY <1>1 DEF RankInv, TypeOK, Rank, RanksNumbered
  <2>2. RanksNumbered'
    BY <1>1, <1>2, <1>3, <2>1 DEF RankInv, RanksNumbered
  <2>3. \A q \in ranks' \ ranks : q.id >= nextRank
    BY <1>1, <1>2, <1>3
  <2>4. nextRank <= nextRank' /\ nextRank' \in 0 .. MaxRanks
    BY <1>1, <1>2, <1>3, Constants
  <2> QED
    BY <1>1, <1>2, <1>3, <2>2, <2>3, <2>4 DEF Grown, TypeOK
<1>7. \A v \in User : v # u => /\ rank'[v] = rank[v] /\ member'[v] = member[v]
                               /\ IsFounder(v)' <=> IsFounder(v)
  BY <1>1, <1>3, <1>6, GrownKeeps DEF RankInv
<1>8. rank'[u] = r.id /\ member'[u] = a /\ r \in ranks' /\ r.alliance = a
  BY <1>1, <1>2, <1>3, <1>5
<1>9. IsFounder(u)'
  BY <1>5, <1>8 DEF IsFounder, RankOf
<1>10. \A v \in User : v # u => member'[v] # a
  BY <1>1, <1>3, <1>7
<1>11. RankOfAlliance'
  <2> SUFFICES ASSUME NEW v \in User
               PROVE  IF member'[v] = None THEN rank'[v] = None
                      ELSE \E q \in ranks' : q.id = rank'[v] /\ q.alliance = member'[v]
    BY DEF RankOfAlliance
  <2>1. CASE v = u
    BY <2>1, <1>1, <1>8
  <2>2. CASE v # u
    BY <2>2, <1>3, <1>7 DEF RankInv, RankOfAlliance
  <2> QED
    BY <2>1, <2>2
<1>12. OneFounder' /\ Handed
  <2>1. OneFounder'
    BY <1>7, <1>8, <1>10 DEF RankInv, OneFounder
  <2>2. Handed
    BY <1>3, <1>7, <1>8 DEF Handed
  <2> QED
    BY <2>1, <2>2
<1>13. DefaultRanksExist'
  BY <1>2, <1>3 DEF RankInv, DefaultRanksExist, RanksOf
<1>14. HasFounder => HasFounder'
  <2> SUFFICES ASSUME HasFounder, NEW b \in alliances' PROVE \E v \in Members(b)' : IsFounder(v)'
    BY DEF HasFounder
  <2>1. CASE b = a
    BY <2>1, <1>8, <1>9 DEF Members
  <2>2. CASE b \in alliances
    <3>1. PICK v \in Members(b) : IsFounder(v)
      BY <2>2 DEF HasFounder
    <3>2. v # u /\ v \in User
      BY <3>1, <2>2, <1>1, <1>3, Constants DEF Members, TypeOK
    <3> QED
      BY <3>1, <3>2, <1>7 DEF Members
  <2> QED
    BY <2>1, <2>2, <1>3
<1> QED
  BY <1>6, <1>11, <1>12, <1>13, <1>14 DEF Keeps, Grown

\* Alliance#change_user_rank never gives a founder's rank; taking it away from
\* the founder is the other way to lose him.
LEMMA ChangeUserRankKeeps ==
  ASSUME RankInv, NEW v \in User, NEW r \in ranks, ChangeUserRank(v, r)
  PROVE  Keeps /\ (~ IsFounder(v) /\ HasFounder => HasFounder')
<1>1. /\ TypeOK /\ rank \in [User -> Nat \cup {None}]
      /\ member \in [User -> alliances \cup {None}]
  BY DEF RankInv, TypeOK
<1>2. /\ UNCHANGED <<alliances, ranks, nextRank, member>>
      /\ r.alliance = member[v] /\ ~ r.founder /\ rank' = [rank EXCEPT ![v] = r.id]
  BY DEF ChangeUserRank
<1>3. Grown
  BY <1>1, <1>2, SameRanksGrow DEF RankInv
<1>4. \A w \in User : w # v => /\ rank'[w] = rank[w] /\ (IsFounder(w)' <=> IsFounder(w))
  BY <1>1, <1>2, <1>3, GrownKeeps DEF RankInv
<1>5. rank'[v] = r.id
  BY <1>1, <1>2
<1>6. ~ IsFounder(v)'
  BY <1>2, <1>5 DEF RankInv, RanksNumbered, IsFounder, RankOf
<1>7. r.alliance # None
  BY <1>1, Constants DEF TypeOK, Rank
<1>8. RankOfAlliance'
  <2> SUFFICES ASSUME NEW w \in User
               PROVE  IF member'[w] = None THEN rank'[w] = None
                      ELSE \E q \in ranks' : q.id = rank'[w] /\ q.alliance = member'[w]
    BY DEF RankOfAlliance
  <2>1. CASE w = v
    BY <2>1, <1>2, <1>5, <1>7
  <2>2. CASE w # v
    BY <2>2, <1>2, <1>4 DEF RankInv, RankOfAlliance
  <2> QED
    BY <2>1, <2>2
<1>9. OneFounder' /\ Handed
  BY <1>2, <1>4, <1>6 DEF RankInv, OneFounder, Handed
<1>10. DefaultRanksExist'
  BY <1>2 DEF RankInv, DefaultRanksExist, RanksOf
<1>11. ~ IsFounder(v) /\ HasFounder => HasFounder'
  BY <1>2, <1>4 DEF HasFounder, Members
<1> QED
  BY <1>3, <1>8, <1>9, <1>10, <1>11 DEF Keeps, Grown

\* Alliance#set_founder: one founder before, one after.
LEMMA ChangeFounderKeeps ==
  ASSUME RankInv, NEW u \in User, NEW v \in User, ChangeFounder(u, v)
  PROVE  Keeps /\ (HasFounder => HasFounder')
<1> DEFINE a == member[u]
<1> DEFINE r == FounderRank(ranks, a)
<1>1. /\ TypeOK /\ rank \in [User -> Nat \cup {None}]
      /\ member \in [User -> alliances \cup {None}]
  BY DEF RankInv, TypeOK
<1>2. /\ a # None /\ IsFounder(u) /\ v # u /\ member[v] = a
      /\ UNCHANGED <<alliances, ranks, nextRank, member>>
      /\ rank' = [rank EXCEPT ![u] = rank[v], ![v] = r.id]
  BY DEF ChangeFounder, Founder
<1>3. a \in alliances
  BY <1>1, <1>2
<1>4. r \in ranks /\ r.alliance = a /\ r.founder
  BY <1>1, <1>3, StandardFounderRank DEF RankInv
<1> HIDE DEF r
<1>5. Grown
  BY <1>1, <1>2, SameRanksGrow DEF RankInv
<1>6. \A w \in User : w # u /\ w # v => /\ rank'[w] = rank[w]
                                        /\ (IsFounder(w)' <=> IsFounder(w))
  BY <1>1, <1>2, <1>5, GrownKeeps DEF RankInv
<1>7. rank'[u] = rank[v] /\ rank'[v] = r.id
  BY <1>1, <1>2
<1>8. ~ IsFounder(v)
  BY <1>2 DEF RankInv, OneFounder
<1>9. ~ IsFounder(u)'
  BY <1>2, <1>7, <1>8 DEF IsFounder, RankOf
<1>10. IsFounder(v)'
  BY <1>2, <1>4, <1>7 DEF IsFounder, RankOf
<1>11. \A w \in User : member[w] = a /\ IsFounder(w) => w = u
  BY <1>2 DEF RankInv, OneFounder
<1>12. RankOfAlliance'
  <2> SUFFICES ASSUME NEW w \in User
               PROVE  IF member'[w] = None THEN rank'[w] = None
                      ELSE \E q \in ranks' : q.id = rank'[w] /\ q.alliance = member'[w]
    BY DEF RankOfAlliance
  <2>1. CASE w = u
    BY <2>1, <1>2, <1>7 DEF RankInv, RankOfAlliance
  <2>2. CASE w = v
    BY <2>2, <1>2, <1>4, <1>7
  <2>3. CASE w # u /\ w # v
    BY <2>3, <1>2, <1>6 DEF RankInv, RankOfAlliance
  <2> QED
    BY <2>1, <2>2, <2>3
<1>13. OneFounder'
  BY <1>2, <1>6, <1>9, <1>11 DEF RankInv, OneFounder
<1>14. Handed
  BY <1>2, <1>6, <1>9 DEF Handed
<1>15. DefaultRanksExist'
  BY <1>2 DEF RankInv, DefaultRanksExist, RanksOf
<1>16. HasFounder => HasFounder'
  BY <1>2, <1>6, <1>10, <1>11 DEF HasFounder, Members
<1> QED
  BY <1>5, <1>12, <1>13, <1>14, <1>15, <1>16 DEF Keeps, Grown

\* AlliancesController#destroy takes members and ranks of one alliance, and the
\* others have ranks of their own.
LEMMA DestroyKeeps ==
  ASSUME RankInv, NEW u \in User, Destroy(u)
  PROVE  Keeps /\ (HasFounder => HasFounder')
<1> DEFINE a == member[u]
<1>1. /\ TypeOK /\ rank \in [User -> Nat \cup {None}]
      /\ member \in [User -> alliances \cup {None}]
  BY DEF RankInv, TypeOK
<1>2. /\ a # None
      /\ member' = [v \in User |-> IF member[v] = a THEN None ELSE member[v]]
      /\ rank' = [v \in User |-> IF member[v] = a THEN None ELSE rank[v]]
      /\ ranks' = ranks \ RanksOf(ranks, a)
      /\ alliances' = alliances \ {a} /\ nextRank' = nextRank
  BY DEF Destroy
<1> HIDE DEF a
<1>3. RanksNumbered'
  BY <1>2 DEF RankInv, RanksNumbered
<1>4. \A v \in User : member[v] = a => rank'[v] = None /\ member'[v] = None /\ ~ IsFounder(v)'
  BY <1>1, <1>2, Constants DEF IsFounder, RankOf, TypeOK, Rank
<1>5. \A v \in User : member[v] # a => rank'[v] = rank[v] /\ member'[v] = member[v]
  BY <1>2
<1>6. \A q \in ranks : q.alliance # a => q \in ranks'
  BY <1>2 DEF RanksOf
<1>7. RankOfAlliance'
  BY <1>4, <1>5, <1>6 DEF RankInv, RankOfAlliance
<1>8. \A v \in User : IsFounder(v)' => IsFounder(v) /\ member[v] # a
  BY <1>2, <1>4, <1>5 DEF IsFounder, RankOf
<1>9. OneFounder' /\ Handed
  BY <1>5, <1>8 DEF RankInv, OneFounder, Handed
<1>10. DefaultRanksExist'
  BY <1>2, <1>6 DEF RankInv, DefaultRanksExist, RanksOf
<1>11. HasFounder => HasFounder'
  <2> SUFFICES ASSUME HasFounder, NEW b \in alliances, b # a
               PROVE  \E v \in Members(b)' : IsFounder(v)'
    BY <1>2 DEF HasFounder
  <2>1. PICK v \in Members(b) : IsFounder(v)
    BY DEF HasFounder
  <2>2. v \in User /\ member[v] = b /\ b # None
    BY <2>1, <1>1, Constants DEF Members, TypeOK
  <2>3. PICK q \in ranks : q.id = rank[v] /\ q.alliance = b
    BY <2>2 DEF RankInv, RankOfAlliance
  <2>4. q.founder
    BY <2>1, <2>3 DEF IsFounder, RankOf, RankInv, RanksNumbered
  <2>5. q \in ranks' /\ rank'[v] = rank[v] /\ member'[v] = b
    BY <2>2, <2>3, <1>5, <1>6
  <2> QED
    BY <2>2, <2>3, <2>4, <2>5 DEF Members, IsFounder, RankOf
<1> QED
  BY <1>3, <1>7, <1>9, <1>10, <1>11 DEF Keeps

\* RanksController#update changes neither key nor founder's rank.
LEMMA UpdateRankKeeps ==
  ASSUME RankInv, NEW r \in ranks, NEW name \in Name, NEW perms \in NewPerms,
         UpdateRank(r, name, perms)
  PROVE  Keeps /\ (HasFounder => HasFounder') /\ ranks' \subseteq Rank
<1> DEFINE q == [r EXCEPT !.name = name, !.perms = IF r.founder THEN @ ELSE perms]
<1>1. UNCHANGED <<alliances, nextRank, member, rank>> /\ ranks' = (ranks \ {r}) \cup {q}
  BY DEF UpdateRank
<1>2. r \in Rank /\ ranks \subseteq Rank /\ perms \subseteq Perm
  BY Constants DEF RankInv, TypeOK
<1>3. /\ q.id = r.id /\ q.alliance = r.alliance
      /\ q.standard = r.standard /\ q.founder = r.founder
  BY <1>2 DEF Rank
<1>4. q \in Rank
  BY <1>2 DEF Rank
<1> HIDE DEF q
<1>5. RanksNumbered'
  BY <1>1, <1>3 DEF RankInv, RanksNumbered
<1>6. \A v \in User : IsFounder(v)' <=> IsFounder(v)
  BY <1>1, <1>3 DEF IsFounder, RankOf
<1>7. RankOfAlliance'
  BY <1>1, <1>3 DEF RankInv, RankOfAlliance
<1>8. OneFounder' /\ Handed
  BY <1>1, <1>6 DEF RankInv, OneFounder, Handed
<1>9. DefaultRanksExist'
  BY <1>1, <1>3 DEF RankInv, DefaultRanksExist, RanksOf
<1>10. HasFounder => HasFounder'
  BY <1>1, <1>6 DEF HasFounder, Members
<1> QED
  BY <1>1, <1>2, <1>4, <1>5, <1>7, <1>8, <1>9, <1>10 DEF Keeps

\* RanksController#destroy: the users of the rank go to the standard rank.
LEMMA DestroyRankKeeps ==
  ASSUME RankInv, NEW r \in ranks, DestroyRank(r)
  PROVE  Keeps /\ (HasFounder => HasFounder') /\ rank' \in [User -> Nat \cup {None}]
<1> DEFINE a == r.alliance
<1> DEFINE st == StandardRank(ranks, a)
<1>1. /\ TypeOK /\ rank \in [User -> Nat \cup {None}] /\ ranks \subseteq Rank
      /\ member \in [User -> alliances \cup {None}]
  BY DEF RankInv, TypeOK
<1>2. /\ ~ r.standard /\ ~ r.founder
      /\ rank' = [v \in User |-> IF rank[v] = r.id THEN st.id ELSE rank[v]]
      /\ ranks' = ranks \ {r} /\ UNCHANGED <<alliances, nextRank, member>>
  BY DEF DestroyRank
<1>3. PICK w \in User : a # None /\ member[w] = a
  BY DEF DestroyRank, Permitted, Permission
<1>4. a \in alliances
  BY <1>1, <1>3
<1>5. st \in ranks /\ st.alliance = a /\ st.standard
  BY <1>1, <1>4, StandardFounderRank DEF RankInv
<1> HIDE DEF st
<1>6. st \in ranks' /\ ~ st.founder /\ st.id \in Nat /\ r.id \in Nat
  BY <1>1, <1>2, <1>5 DEF RankInv, RanksNumbered, Rank
<1>7. RanksNumbered'
  BY <1>2 DEF RankInv, RanksNumbered
<1>8. \A v \in User : rank[v] = r.id => member[v] = a /\ rank'[v] = st.id
  BY <1>2, <1>6, Constants DEF RankInv, RankOfAlliance, RanksNumbered
<1>9. \A v \in User : rank[v] # r.id => rank'[v] = rank[v]
  BY <1>2
<1>10. \A v \in User : IsFounder(v)' <=> IsFounder(v)
  <2> TAKE v \in User
  <2>1. CASE rank[v] = r.id
    <3>1. ~ IsFounder(v)
      BY <2>1, <1>2 DEF IsFounder, RankOf, RankInv, RanksNumbered
    <3>2. ~ IsFounder(v)'
      BY <2>1, <1>2, <1>5, <1>6, <1>8 DEF IsFounder, RankOf, RankInv, RanksNumbered
    <3> QED
      BY <3>1, <3>2
  <2>2. CASE rank[v] # r.id
    BY <2>2, <1>2, <1>9 DEF IsFounder, RankOf
  <2> QED
    BY <2>1, <2>2
<1>11. RankOfAlliance'
  <2> SUFFICES ASSUME NEW v \in User
               PROVE  IF member'[v] = None THEN rank'[v] = None
                      ELSE \E q \in ranks' : q.id = rank'[v] /\ q.alliance = member'[v]
    BY DEF RankOfAlliance
  <2>1. CASE rank[v] = r.id
    BY <2>1, <1>2, <1>3, <1>5, <1>6, <1>8
  <2>2. CASE rank[v] # r.id
    BY <2>2, <1>2, <1>9 DEF RankInv, RankOfAlliance
  <2> QED
    BY <2>1, <2>2
<1>12. OneFounder' /\ Handed
  BY <1>2, <1>10 DEF RankInv, OneFounder, Handed
<1>13. DefaultRanksExist'
  BY <1>2 DEF RankInv, DefaultRanksExist, RanksOf
<1>14. HasFounder => HasFounder'
  BY <1>2, <1>10 DEF HasFounder, Members
<1>15. rank' \in [User -> Nat \cup {None}]
  BY <1>1, <1>2, <1>6
<1> QED
  BY <1>7, <1>11, <1>12, <1>13, <1>14, <1>15 DEF Keeps
-----------------------------------------------------------------------------
LEMMA TypesOfTables ==
  ASSUME RankInv
  PROVE  /\ member \in [User -> alliances \cup {None}] /\ alliances \subseteq Alliance
         /\ rank \in [User -> Nat \cup {None}] /\ score \in [User -> 0 .. MaxScore]
         /\ total \in [Alliance -> Int] /\ invites \subseteq Invite /\ ranks \subseteq Rank
         /\ nextRank \in 0 .. MaxRanks
         /\ \A a \in Alliance : a # None
         /\ \A u \in User : member[u] # None => member[u] \in alliances
  BY Constants DEF RankInv, TypeOK

\* What Remember keeps of the pages.
LEMMA PagesStep ==
  ASSUME RankInv, Remember
  PROVE  mode' \in {"fresh", "stale"} /\ offered' \subseteq User
         /\ mode' = mode /\ (mode = "fresh" => offered' = {})
<1>1. mode' = mode /\ (mode = "fresh" => offered' = {})
  BY DEF Remember
<1>2. offered' \subseteq User
  BY DEF Remember
<1> QED
  BY <1>1, <1>2 DEF RankInv, TypeOK

\* Each action keeps what the invariant says of the tables; only a removal or a
\* change of rank of the founder himself takes an alliance its founder.
ActionKeeps ==
  /\ TypeOK' /\ Keeps
  /\ offered = {} /\ HasFounder => HasFounder'

LEMMA CreateRankTyped ==
  ASSUME RankInv, NEW a \in Alliance
  PROVE  FounderRank(DefaultRanks({}, a), a).id \in Nat
<1> DEFINE fo == {q \in RanksOf(DefaultRanks({}, a), a) : q.founder}
<1>1. nextRank \in Nat
  BY Constants DEF RankInv, TypeOK
<1>2. fo \subseteq Rank /\ fo # {}
  BY <1>1, DefaultRanksAre DEF RanksOf
<1>3. First(fo) \in Rank
  <2> HIDE DEF fo
  <2> QED
    BY <1>2, FirstIsOne
<1> QED
  BY <1>3 DEF FounderRank, Rank

LEMMA NextKeeps ==
  ASSUME RankInv, Next
  PROVE  ActionKeeps
<1>0. TypeOK /\ RanksNumbered /\ DefaultRanksExist /\ Remember
  BY DEF RankInv, Next
<1> DEFINE Pages == mode' \in {"fresh", "stale"} /\ offered' \subseteq User
<1>1. Pages
  BY <1>0, PagesStep
<1> HIDE DEF Pages
<1> USE TypesOfTables
<1>2. ASSUME Keeps, HasFounder => HasFounder', Grown, UNCHANGED <<alliances, member, rank>>,
             score' \in [User -> 0 .. MaxScore], total' \in [Alliance -> Int],
             invites' \subseteq Invite
      PROVE  ActionKeeps
  BY <1>1, <1>2 DEF ActionKeeps, TypeOK, Grown, Pages
<1>3. ASSUME NEW u \in User, NEW a \in Alliance, Create(u, a) PROVE ActionKeeps
  <2>1. Keeps /\ Grown /\ (HasFounder => HasFounder')
    BY <1>3, CreateKeeps
  <2>2. /\ alliances' = alliances \cup {a} /\ member' = [member EXCEPT ![u] = a]
        /\ total' = [total EXCEPT ![a] = score[u]] /\ score' = score /\ invites' = invites
        /\ rank' = [rank EXCEPT ![u] = FounderRank(DefaultRanks({}, a), a).id]
    BY <1>3 DEF Create
  <2>3. FounderRank(DefaultRanks({}, a), a).id \in Nat
    BY <1>3, CreateRankTyped
  <2>4. TypeOK'
    BY <1>1, <2>1, <2>2, <2>3 DEF TypeOK, Grown, Pages
  <2> QED
    BY <2>1, <2>4 DEF ActionKeeps
<1>4. ASSUME NEW u \in User, NEW a \in alliances, RemoveUser(a, u),
             offered = {} => ~ IsFounder(u),
             UNCHANGED <<alliances, score>>, invites' \subseteq invites
      PROVE  ActionKeeps
  <2>1. Keeps /\ Grown /\ (~ IsFounder(u) /\ HasFounder => HasFounder')
    BY <1>4, RemoveUserKeeps
  <2>2. /\ member' = [member EXCEPT ![u] = None] /\ rank' = [rank EXCEPT ![u] = None]
        /\ total' = [total EXCEPT ![a] = @ - score[u]]
    BY <1>4 DEF RemoveUser
  <2>3. TypeOK'
    BY <1>1, <1>4, <2>1, <2>2 DEF TypeOK, Grown, Pages
  <2> QED
    BY <1>4, <2>1, <2>3 DEF ActionKeeps
<1>5. ASSUME NEW u \in User, Leave(u) PROVE ActionKeeps
  BY <1>4, <1>5 DEF Leave
<1>6. ASSUME NEW u \in User, Kick(u) PROVE ActionKeeps
  <2>1. offered = {} => ~ IsFounder(u)
    BY <1>6 DEF Kick, Offers
  <2>2. member[u] # None
    BY <1>6 DEF Kick, Permitted
  <2> QED
    BY <1>4, <1>6, <2>1, <2>2 DEF Kick
<1>7. ASSUME NEW u \in User, Destroy(u) PROVE ActionKeeps
  <2>1. Keeps /\ (HasFounder => HasFounder')
    BY <1>7, DestroyKeeps
  <2>2. /\ member[u] # None
        /\ member' = [v \in User |-> IF member[v] = member[u] THEN None ELSE member[v]]
        /\ rank' = [v \in User |-> IF member[v] = member[u] THEN None ELSE rank[v]]
        /\ ranks' \subseteq ranks /\ alliances' = alliances \ {member[u]}
        /\ invites' \subseteq invites /\ UNCHANGED <<nextRank, score, total>>
    BY <1>7 DEF Destroy
  <2>3. member' \in [User -> alliances' \cup {None}] /\ rank' \in [User -> Nat \cup {None}]
    BY <2>2
  <2>4. TypeOK'
    BY <1>1, <2>2, <2>3 DEF TypeOK, Pages
  <2> QED
    BY <2>1, <2>4 DEF ActionKeeps
<1>8. ASSUME NEW a \in Alliance, SetDescription(a) PROVE ActionKeeps
  <2>1. Grown
    BY <1>0, <1>8, SaveGrows DEF SetDescription
  <2> QED
    BY <1>2, <1>8, <2>1, NobodyMoves DEF SetDescription
<1>9. ASSUME NEW u \in User, AddScore(u) PROVE ActionKeeps
  <2>1. score' \in [User -> 0 .. MaxScore]
    BY <1>9, Constants DEF AddScore
  <2>2. CASE member[u] = None
    <3>1. Grown
      BY <1>0, <1>9, <2>2, SameRanksGrow DEF AddScore
    <3> QED
      BY <1>2, <1>9, <2>1, <2>2, <3>1, NobodyMoves DEF AddScore
  <2>3. CASE member[u] # None
    <3>1. member[u] \in Alliance
      BY <2>3
    <3>2. Grown
      BY <1>0, <1>9, <2>3, <3>1, SaveGrows DEF AddScore
    <3>3. total' \in [Alliance -> Int]
      BY <1>9, <2>3, <3>1 DEF AddScore
    <3> QED
      BY <1>2, <1>9, <2>1, <3>2, <3>3, NobodyMoves DEF AddScore
  <2> QED
    BY <2>2, <2>3
<1>10. ASSUME NEW u \in User, NEW v \in User, ChangeFounder(u, v) PROVE ActionKeeps
  <2>1. Keeps /\ (HasFounder => HasFounder')
    BY <1>10, ChangeFounderKeeps
  <2>2. member[u] \in alliances
    BY <1>10 DEF ChangeFounder
  <2>3. FounderRank(ranks, member[u]).id \in Nat
    BY <1>0, <2>2, StandardFounderRank DEF Rank
  <2>4. TypeOK'
    BY <1>1, <1>10, <2>3 DEF ChangeFounder, TypeOK, Pages
  <2> QED
    BY <2>1, <2>4 DEF ActionKeeps
<1>11. ASSUME NEW u \in User, NEW v \in User, SendInvite(u, v) PROVE ActionKeeps
  <2>1. Grown
    BY <1>0, <1>11, SameRanksGrow DEF SendInvite
  <2>2. invites' \subseteq Invite
    BY <1>11 DEF SendInvite, Invite
  <2> QED
    BY <1>2, <1>11, <2>1, <2>2, NobodyMoves DEF SendInvite
<1>12. ASSUME NEW v \in User, NEW r \in ranks, ChangeUserRank(v, r) PROVE ActionKeeps
  <2>1. Keeps /\ (~ IsFounder(v) /\ HasFounder => HasFounder')
    BY <1>12, ChangeUserRankKeeps
  <2>2. offered = {} => ~ IsFounder(v)
    BY <1>12 DEF ChangeUserRank, Offers
  <2>3. r.id \in Nat
    BY DEF Rank
  <2>4. TypeOK'
    BY <1>1, <1>12, <2>3 DEF ChangeUserRank, TypeOK, Pages
  <2> QED
    BY <2>1, <2>2, <2>4 DEF ActionKeeps
<1>13. ASSUME NEW a \in Alliance, NEW name \in Name, NEW perms \in NewPerms,
              CreateRank(a, name, perms)
       PROVE  ActionKeeps
  <2> DEFINE r == [id |-> nextRank, alliance |-> a, name |-> name,
                   perms |-> perms, standard |-> FALSE, founder |-> FALSE]
  <2>1. ranks' = ranks \cup {r} /\ nextRank' = nextRank + 1 /\ nextRank < MaxRanks
    BY <1>13 DEF CreateRank
  <2>2. r \in Rank /\ r.id = nextRank /\ ~ r.standard
    BY Constants DEF Rank
  <2> HIDE DEF r
  <2>3. Grown
    <3>1. \A q \in ranks : q.id \in Nat /\ q.id < nextRank
      BY <1>0 DEF RanksNumbered, Rank
    <3>2. RanksNumbered'
      BY <1>0, <2>1, <2>2, <3>1 DEF RanksNumbered
    <3> QED
      BY <2>1, <2>2, <3>2, Constants DEF Grown
  <2> QED
    BY <1>2, <1>13, <2>3, NobodyMoves DEF CreateRank
<1>14. ASSUME NEW r \in ranks, NEW name \in Name, NEW perms \in NewPerms,
              UpdateRank(r, name, perms)
       PROVE  ActionKeeps
  <2>1. Keeps /\ (HasFounder => HasFounder') /\ ranks' \subseteq Rank
    BY <1>14, UpdateRankKeeps
  <2>2. TypeOK'
    BY <1>1, <1>14, <2>1 DEF UpdateRank, TypeOK, Pages
  <2> QED
    BY <2>1, <2>2 DEF ActionKeeps
<1>15. ASSUME NEW r \in ranks, DestroyRank(r) PROVE ActionKeeps
  <2>1. Keeps /\ (HasFounder => HasFounder') /\ rank' \in [User -> Nat \cup {None}]
    BY <1>15, DestroyRankKeeps
  <2>2. TypeOK'
    BY <1>1, <1>15, <2>1 DEF DestroyRank, TypeOK, Pages
  <2> QED
    BY <2>1, <2>2 DEF ActionKeeps
<1>16. ASSUME NEW i \in invites, Accept(i) PROVE ActionKeeps
  <2>1. i.sender \in User /\ i.recipient \in User /\ member[i.sender] \in alliances
    BY <1>16 DEF Invite, Accept
  <2>2. invites' \subseteq Invite
    BY <1>16 DEF Accept
  <2>3. CASE member[i.recipient] = None
    <3> DEFINE a == member[i.sender]
    <3>1. AddUser(a, i.recipient) /\ UNCHANGED <<alliances, score>>
      BY <1>16, <2>3 DEF Accept
    <3>2. Keeps /\ Grown /\ (HasFounder => HasFounder')
      BY <2>1, <3>1, AddUserKeeps
    <3>3. StandardRank(ranks, a).id \in Nat
      BY <1>0, <2>1, StandardFounderRank DEF Rank
    <3>4. TypeOK'
      BY <1>1, <2>1, <2>2, <3>1, <3>2, <3>3 DEF AddUser, TypeOK, Grown, Pages
    <3> QED
      BY <3>2, <3>4 DEF ActionKeeps
  <2>4. CASE member[i.recipient] # None
    <3>1. Grown
      BY <1>0, <1>16, <2>4, SameRanksGrow DEF Accept
    <3> QED
      BY <1>2, <1>16, <2>2, <2>4, <3>1, NobodyMoves DEF Accept
  <2> QED
    BY <2>3, <2>4
<1>17. ASSUME NEW i \in invites, Decline(i) PROVE ActionKeeps
  <2>1. Grown
    BY <1>0, <1>17, SameRanksGrow DEF Decline
  <2> QED
    BY <1>2, <1>17, <2>1, NobodyMoves DEF Decline
<1> QED
  BY <1>3, <1>5, <1>6, <1>7, <1>8, <1>9, <1>10, <1>11, <1>12, <1>13, <1>14, <1>15, <1>16, <1>17
     DEF Next

LEMMA RankInvInit == Init => RankInv
  BY Constants DEF Init, RankInv, TypeOK, RanksNumbered, RankOfAlliance, OneFounder,
     DefaultRanksExist, FreshHasFounder, HasFounder

LEMMA RankInvStep == RankInv /\ [Next]_vars => RankInv' /\ (Handed \/ UNCHANGED vars)
<1> SUFFICES ASSUME RankInv, [Next]_vars PROVE RankInv' /\ (Handed \/ UNCHANGED vars)
  OBVIOUS
<1>1. CASE Next
  <2>1. ActionKeeps
    BY <1>1, NextKeeps
  <2>2. Remember
    BY <1>1 DEF Next
  <2>3. mode' = mode /\ (mode = "fresh" => offered' = {})
    BY <2>2, PagesStep
  <2> QED
    BY <2>1, <2>3 DEF ActionKeeps, Keeps, RankInv, FreshHasFounder
<1>2. CASE UNCHANGED vars
  <2>1. RankInv'
    BY <1>2 DEF vars, RankInv, TypeOK, RanksNumbered, RankOfAlliance, OneFounder,
       DefaultRanksExist, FreshHasFounder, HasFounder, RanksOf, Members, IsFounder, RankOf
  <2> QED
    BY <1>2, <2>1
<1> QED
  BY <1>1, <1>2

LEMMA RankInvCorrect == Spec => []RankInv
  BY RankInvInit, RankInvStep, PTL DEF Spec

\* Members, ranks and alliances have their types, and a rank is never found missing
\* where the code takes the first one (add_user, set_founder).
THEOREM TypeCorrect == Spec => [](TypeOK /\ DefaultRanksExist)
<1>1. RankInv => TypeOK /\ DefaultRanksExist
  BY DEF RankInv
<1> QED
  BY <1>1, RankInvCorrect, PTL

\* What add_user, remove_user, destroy and the ranks' controller keep of
\* users.alliance_id and users.rank_id, in any order and from any page.
THEOREM MembersCorrect == Spec => [](RankOfAlliance /\ OneFounder)
<1>1. RankInv => RankOfAlliance /\ OneFounder
  BY DEF RankInv
<1> QED
  BY <1>1, RankInvCorrect, PTL

\* Pages that are up to date never let an alliance lose its founder.
THEOREM FounderStays == Spec => []FreshHasFounder
<1>1. RankInv => FreshHasFounder
  BY DEF RankInv
<1> QED
  BY <1>1, RankInvCorrect, PTL

\* The right of the founder comes from a founder (change_founder) or with a new
\* alliance; no rank, renamed or created, and no invitation gives it.
THEOREM FounderHandedCorrect == Spec => FounderHanded
<1>1. RankInv /\ [Next]_vars => [Handed]_vars
  BY RankInvStep
<1>2. Spec => [][Handed]_vars
  BY <1>1, RankInvCorrect, PTL DEF Spec
<1> QED
  BY <1>2 DEF Handed, FounderHanded
-----------------------------------------------------------------------------
\* The score of an alliance follows its members and their scores.
LEMMA MembersFinite ==
  ASSUME NEW a PROVE IsFiniteSet(Members(a))
  BY AllianceAssumption, FS_Subset DEF Members

LEMMA ScoreStays ==
  ASSUME ScoreIsSum, UNCHANGED <<alliances, member, score, total>>
  PROVE  ScoreIsSum'
<1>1. \A a : Members(a)' = Members(a)
  BY DEF Members
<1> QED
  BY <1>1 DEF ScoreIsSum

LEMMA ScoreOfJoined ==
  ASSUME RankInv, ScoreIsSum, NEW a \in alliances, NEW u \in User, AddUser(a, u),
         UNCHANGED <<alliances, score>>
  PROVE  ScoreIsSum'
<1>1. /\ u \notin Members(a) /\ Members(a)' = Members(a) \cup {u}
      /\ \A b \in alliances : b # a => Members(b)' = Members(b)
  BY TypesOfTables DEF AddUser, Members
<1>2. SumFunctionOnSet(score, Members(a) \cup {u}) =
        score[u] + SumFunctionOnSet(score, Members(a))
  <2>1. \A v \in Members(a) \cup {u} : score[v] \in Int
    BY TypesOfTables, Constants DEF Members
  <2> QED
    BY <1>1, <2>1, MembersFinite, SumWith
<1>3. total[a] = SumFunctionOnSet(score, Members(a)) /\ total[a] \in Int /\ score[u] \in Int
  BY TypesOfTables, Constants DEF ScoreIsSum
<1>4. total'[a] = total[a] + score[u] /\ \A b \in alliances : b # a => total'[b] = total[b]
  BY TypesOfTables DEF AddUser
<1>5. total'[a] = SumFunctionOnSet(score', Members(a)')
  BY ONLY <1>1, <1>2, <1>3, <1>4, score' = score
<1> QED
  BY <1>1, <1>4, <1>5 DEF ScoreIsSum

LEMMA ScoreOfLeft ==
  ASSUME RankInv, ScoreIsSum, NEW a \in alliances, NEW u \in User, RemoveUser(a, u),
         UNCHANGED <<alliances, score>>
  PROVE  ScoreIsSum'
<1>1. /\ u \in Members(a) /\ Members(a)' = Members(a) \ {u}
      /\ \A b \in alliances : b # a => Members(b)' = Members(b)
  BY TypesOfTables DEF RemoveUser, Members
<1>2. SumFunctionOnSet(score, Members(a)) =
        score[u] + SumFunctionOnSet(score, Members(a) \ {u})
  <2>1. \A v \in Members(a) : score[v] \in Int
    BY TypesOfTables, Constants DEF Members
  <2> QED
    BY <1>1, <2>1, MembersFinite, SumWithout
<1>3. total[a] = SumFunctionOnSet(score, Members(a)) /\ score[u] \in Int
      /\ SumFunctionOnSet(score, Members(a) \ {u}) \in Int
  <2>1. IsFiniteSet(Members(a) \ {u})
    BY MembersFinite, FS_Subset
  <2>2. \A v \in Members(a) \ {u} : score[v] \in Int
    BY TypesOfTables, Constants DEF Members
  <2> QED
    BY <2>1, <2>2, SumInt, TypesOfTables, Constants DEF ScoreIsSum
<1>4. total'[a] = total[a] - score[u] /\ \A b \in alliances : b # a => total'[b] = total[b]
  BY TypesOfTables DEF RemoveUser
<1>5. total'[a] = SumFunctionOnSet(score', Members(a)')
  BY ONLY <1>1, <1>2, <1>3, <1>4, score' = score
<1> QED
  BY <1>1, <1>4, <1>5 DEF ScoreIsSum

LEMMA ScoreOfCreated ==
  ASSUME RankInv, ScoreIsSum, NEW u \in User, NEW a \in Alliance, Create(u, a)
  PROVE  ScoreIsSum'
<1>1. /\ a \notin alliances /\ alliances' = alliances \cup {a} /\ score' = score
      /\ member[u] = None /\ member' = [member EXCEPT ![u] = a]
      /\ total' = [total EXCEPT ![a] = score[u]]
  BY DEF Create
<1>2. Members(a)' = {u} /\ \A b \in alliances : Members(b)' = Members(b)
  BY <1>1, TypesOfTables DEF Members
<1>3. SumFunctionOnSet(score, {u}) = score[u]
  <2>1. score[u] \in Int
    BY TypesOfTables, Constants
  <2> QED
    BY <2>1, SumOne
<1>4. total'[a] = score[u] /\ \A b \in alliances : total'[b] = total[b]
  BY <1>1, TypesOfTables
<1> QED
  BY <1>1, <1>2, <1>3, <1>4 DEF ScoreIsSum

LEMMA ScoreOfRemaining ==
  ASSUME RankInv, ScoreIsSum, NEW u \in User, Destroy(u)
  PROVE  ScoreIsSum'
<1>1. /\ alliances' = alliances \ {member[u]} /\ score' = score /\ total' = total
      /\ member' = [v \in User |-> IF member[v] = member[u] THEN None ELSE member[v]]
  BY DEF Destroy
<1>2. \A b \in alliances' : Members(b)' = Members(b)
  BY <1>1, TypesOfTables DEF Members
<1> QED
  BY <1>1, <1>2 DEF ScoreIsSum

LEMMA ScoreOfScored ==
  ASSUME RankInv, ScoreIsSum, NEW u \in User, AddScore(u)
  PROVE  ScoreIsSum'
<1>1. /\ alliances' = alliances /\ member' = member /\ score' = [score EXCEPT ![u] = @ + 1]
      /\ \A v \in User : score[v] \in Int /\ score'[v] \in Int
      /\ \A v \in User : v # u => score'[v] = score[v]
      /\ score'[u] = score[u] + 1
  BY TypesOfTables, Constants DEF AddScore
<1>2. \A a : Members(a)' = Members(a)
  BY <1>1 DEF Members
<1>3. ASSUME NEW a \in alliances, a # member[u]
      PROVE  total'[a] = SumFunctionOnSet(score', Members(a))
  <2>1. SumFunctionOnSet(score', Members(a)) = SumFunctionOnSet(score, Members(a))
    <3>1. \A v \in Members(a) : score'[v] = score[v]
      BY <1>1, <1>3 DEF Members
    <3> QED
      BY ONLY <3>1, MembersFinite, SumSame
  <2>2. total'[a] = total[a]
    BY <1>3, TypesOfTables DEF AddScore
  <2> QED
    BY <2>1, <2>2 DEF ScoreIsSum
<1>4. ASSUME member[u] \in alliances
      PROVE  total'[member[u]] = SumFunctionOnSet(score', Members(member[u]))
  <2> DEFINE a == member[u]
  <2>1. u \in Members(a) /\ a # None /\ a \in Alliance
    BY <1>4, TypesOfTables DEF Members
  <2>2. SumFunctionOnSet(score', Members(a)) =
          SumFunctionOnSet(score, Members(a)) + score'[u] - score[u]
    <3>1. Members(a) \subseteq User
      BY DEF Members
    <3>2. /\ \A v \in Members(a) : score[v] \in Int /\ score'[v] \in Int
          /\ \A v \in Members(a) \ {u} : score[v] = score'[v]
      BY <1>1, <3>1
    <3> HIDE DEF a
    <3> QED
      BY ONLY <2>1, <3>2, MembersFinite, SumChange
  <2>3. total'[a] = total[a] + 1 /\ total[a] \in Int
    BY <2>1, TypesOfTables DEF AddScore
  <2>4. total[a] = SumFunctionOnSet(score, Members(a))
    BY <1>4 DEF ScoreIsSum
  <2> QED
    BY <1>1, <2>2, <2>3, <2>4
<1> QED
  BY <1>1, <1>2, <1>3, <1>4 DEF ScoreIsSum

LEMMA ScoreStep ==
  ASSUME RankInv, ScoreIsSum, [Next]_vars
  PROVE  ScoreIsSum'
<1> USE TypesOfTables
<1>1. ASSUME NEW u \in User, Leave(u) PROVE ScoreIsSum'
  BY <1>1, ScoreOfLeft DEF Leave
<1>2. ASSUME NEW u \in User, Kick(u) PROVE ScoreIsSum'
  <2>1. member[u] # None
    BY <1>2 DEF Kick, Permitted
  <2> QED
    BY <1>2, <2>1, ScoreOfLeft DEF Kick
<1>3. ASSUME NEW i \in invites, Accept(i) PROVE ScoreIsSum'
  <2>1. i.sender \in User /\ i.recipient \in User /\ member[i.sender] \in alliances
    BY <1>3 DEF Invite, Accept
  <2>2. CASE member[i.recipient] = None
    BY <1>3, <2>1, <2>2, ScoreOfJoined DEF Accept
  <2>3. CASE member[i.recipient] # None
    BY <1>3, <2>3, ScoreStays DEF Accept
  <2> QED
    BY <2>2, <2>3
<1>4. CASE UNCHANGED vars
  BY <1>4, ScoreStays DEF vars
<1>5. CASE \E a \in Alliance : SetDescription(a)
  BY <1>5, ScoreStays DEF SetDescription
<1>6. CASE \E u, v \in User : ChangeFounder(u, v) \/ SendInvite(u, v)
  BY <1>6, ScoreStays DEF ChangeFounder, SendInvite
<1>7. CASE \E v \in User, r \in ranks : ChangeUserRank(v, r)
  BY <1>7, ScoreStays DEF ChangeUserRank
<1>8. CASE \E a \in Alliance, name \in Name, perms \in NewPerms : CreateRank(a, name, perms)
  BY <1>8, ScoreStays DEF CreateRank
<1>9. CASE \E name \in Name, perms \in NewPerms, r \in ranks : UpdateRank(r, name, perms)
  BY <1>9, ScoreStays DEF UpdateRank
<1>10. CASE \E r \in ranks : DestroyRank(r)
  BY <1>10, ScoreStays DEF DestroyRank
<1>11. CASE \E i \in invites : Decline(i)
  BY <1>11, ScoreStays DEF Decline
<1>12. CASE \E u \in User, a \in Alliance : Create(u, a)
  BY <1>12, ScoreOfCreated
<1>13. CASE \E u \in User : Destroy(u)
  BY <1>13, ScoreOfRemaining
<1>14. CASE \E u \in User : AddScore(u)
  BY <1>14, ScoreOfScored
<1> QED
  BY <1>1, <1>2, <1>3, <1>4, <1>5, <1>6, <1>7, <1>8, <1>9, <1>10, <1>11, <1>12, <1>13, <1>14
     DEF Next

\* Members, ranks, founder and score of every alliance agree after any steps of any users
\* (alliance.rb, rank.rb, request.rb), from pages that are up to date or old.
THEOREM AllianceCorrect == Spec => []AllianceAgrees
<1>1. Init => ScoreIsSum
  BY DEF Init, ScoreIsSum
<1>2. RankInv /\ ScoreIsSum /\ [Next]_vars => ScoreIsSum'
  BY ScoreStep
<1>3. RankInv /\ ScoreIsSum => AllianceAgrees
  BY DEF RankInv, AllianceAgrees
<1> QED
  BY <1>1, <1>2, <1>3, RankInvCorrect, PTL DEF Spec
=============================================================================
