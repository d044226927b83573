--------------------------- MODULE AllianceRanks ---------------------------
(***************************************************************************)
(* Alliances, their ranks, their members, and the invitations that bring   *)
(* new ones: alliance.rb, rank.rb, request.rb and their controllers.       *)
(*                                                                         *)
(* A member belongs to an alliance by users.alliance_id and to one of its  *)
(* ranks by users.rank_id; the rows are changed one by one.  Every save of *)
(* an alliance, a change of its score too, runs create_default_ranks.      *)
(*                                                                         *)
(* The pages offer no action against the founder, the handlers do not      *)
(* check it.  In mode "stale" a request may come from a page loaded before *)
(* the member it is about became founder.                                  *)
(***************************************************************************)
EXTENDS Integers, FiniteSetsExt

CONSTANTS
  User,         \* the registered players
  Alliance,     \* the alliances that may be created
  None,         \* the null of a foreign key
  NewPerms,     \* the sets of permissions a form may ask for
  MaxRanks,     \* bound: ranks ever created
  MaxInvites,   \* bound: open invitations
  MaxScore      \* bound: score of a user

Perm == {"kick", "edit_ranks", "change_description"}
Applicant == "Anwärter"
Head == "Oberhaupt"
Name == {Applicant, Head, "Other"}

ASSUME AllianceAssumption ==
  /\ IsFiniteSet(User)
  /\ None \notin User \cup Alliance \cup Nat
  /\ NewPerms \subseteq SUBSET Perm
  /\ MaxRanks \in Nat /\ MaxInvites \in Nat /\ MaxScore \in Nat

VARIABLES
  mode,         \* "fresh", or "stale" when pages may be old; fixed at the start
  alliances,    \* the table alliances
  ranks,        \* the table ranks
  nextRank,     \* its next primary key
  member,       \* users.alliance_id
  rank,         \* users.rank_id
  score,        \* users.score
  total,        \* alliances.score
  invites,      \* the table requests, alliance_invite only
  offered       \* history: members some old page shows as ordinary members

vars ==
  <<mode, alliances, ranks, nextRank, member, rank, score, total, invites, offered>>

Rank == [id : Nat, alliance : Alliance, name : Name, perms : SUBSET Perm,
         standard : BOOLEAN, founder : BOOLEAN]
Invite == [sender : User, recipient : User]

TypeOK ==
  /\ mode \in {"fresh", "stale"}
  /\ alliances \subseteq Alliance
  /\ ranks \subseteq Rank
  /\ nextRank \in 0 .. MaxRanks
  /\ member \in [User -> alliances \cup {None}]
  /\ rank \in [User -> Nat \cup {None}]
  /\ score \in [User -> 0 .. MaxScore]
  /\ total \in [Alliance -> Int]
  /\ invites \subseteq Invite
  /\ offered \subseteq User

Init ==
  /\ mode \in {"fresh", "stale"}
  /\ alliances = {}
  /\ ranks = {}
  /\ nextRank = 0
  /\ member = [u \in User |-> None]
  /\ rank = [u \in User |-> None]
  /\ score = [u \in User |-> 0]
  /\ total = [a \in Alliance |-> 0]
  /\ invites = {}
  /\ offered = {}
-----------------------------------------------------------------------------
RanksOf(rs, a) == {r \in rs : r.alliance = a}
First(rs) == CHOOSE r \in rs : \A s \in rs : r.id <= s.id
StandardRank(rs, a) == First({r \in RanksOf(rs, a) : r.standard})
FounderRank(rs, a) == First({r \in RanksOf(rs, a) : r.founder})

Members(a) == {u \in User : member[u] = a}
RankOf(u) == {r \in ranks : r.id = rank[u]}
IsFounder(u) == \E r \in RankOf(u) : r.founder

\* Alliance#permission?: the user is a member and his rank allows it.
Permission(u, a, perm) == member[u] = a /\ \E r \in RankOf(u) : perm \in r.perms
Founder(u, a) == member[u] = a /\ IsFounder(u)

\* Which of the permitted users sends a request makes no difference to its effect.
Permitted(a, perm) == {u \in User : a # None /\ Permission(u, a, perm)}

\* The list of members offers kick and change of rank for other users than the
\* founder; the page may have been loaded when the founder was not yet founder.
Offers(u, v) == u # v /\ (~IsFounder(v) \/ v \in offered)
Remember ==
  /\ offered' = IF mode = "stale"
                THEN {u \in User : \/ member'[u] # None /\ ~IsFounder(u)'
                                   \/ u \in offered /\ member'[u] = member[u]}
                ELSE {}
  /\ UNCHANGED mode

\* create_default_ranks: each rank is created unless its name is taken.
DefaultRanks(rs, a) ==
  LET taken == {r.name : r \in RanksOf(rs, a)}
      standard == IF Applicant \in taken THEN {}
                  ELSE {[id |-> nextRank, alliance |-> a, name |-> Applicant,
                         perms |-> {}, standard |-> TRUE, founder |-> FALSE]}
      head == IF Head \in taken THEN {}
              ELSE {[id |-> nextRank + Cardinality(standard), alliance |-> a, name |-> Head,
                     perms |-> Perm, standard |-> FALSE, founder |-> TRUE]}
  IN standard \cup head

\* after_save :create_default_ranks, at every save of the alliance.
SaveAlliance(a) ==
  LET new == DefaultRanks(ranks, a)
  IN /\ nextRank + Cardinality(new) <= MaxRanks
     /\ ranks' = ranks \cup new
     /\ nextRank' = nextRank + Cardinality(new)

\* Alliance#add_user: alliance, standard rank, score.
AddUser(a, u) ==
  /\ member[u] = None
  /\ SaveAlliance(a)
  /\ member' = [member EXCEPT ![u] = a]
  /\ rank' = [rank EXCEPT ![u] = StandardRank(ranks, a).id]
  /\ total' = [total EXCEPT ![a] = @ + score[u]]

\* Mutant: the rank is kept.
RemoveUserKeepsRank(a, u) ==
  /\ member[u] = a
  /\ SaveAlliance(a)
  /\ member' = [member EXCEPT ![u] = None]
  /\ total' = [total EXCEPT ![a] = @ - score[u]]
  /\ UNCHANGED rank
\* Alliance#remove_user, without a look at the founder.
RemoveUser(a, u) ==
  /\ member[u] = a
  /\ SaveAlliance(a)
  /\ member' = [member EXCEPT ![u] = None]
  /\ rank' = [rank EXCEPT ![u] = None]
  /\ total' = [total EXCEPT ![a] = @ - score[u]]

\* AlliancesController#create: the alliance and its ranks, the user as a member
\* of the standard rank, then as the founder.
Create(u, a) ==
  LET new == DefaultRanks({}, a)
  IN /\ a \notin alliances /\ RanksOf(ranks, a) = {}
     /\ member[u] = None /\ rank[u] = None
     /\ nextRank + Cardinality(new) <= MaxRanks
     /\ alliances' = alliances \cup {a}
     /\ ranks' = ranks \cup new
     /\ nextRank' = nextRank + Cardinality(new)
     /\ member' = [member EXCEPT ![u] = a]
     /\ rank' = [rank EXCEPT ![u] = FounderRank(new, a).id]
     /\ total' = [total EXCEPT ![a] = score[u]]
     /\ UNCHANGED <<score, invites>>

\* AlliancesController#leave: anybody but the founder.
Leave(u) ==
  /\ member[u] # None /\ ~IsFounder(u)
  /\ RemoveUser(member[u], u)
  /\ invites' = {i \in invites : i.sender # u}
  /\ UNCHANGED <<alliances, score>>

\* AlliancesController#remove_user; the page offers other users than the
\* founder and oneself, the handler takes any member.
Kick(v) ==
  /\ {u \in Permitted(member[v], "kick") : Offers(u, v)} # {}
  /\ RemoveUser(member[v], v)
  /\ UNCHANGED <<alliances, score, invites>>

\* Mutant: a founder's rank may be given.
ChangeUserRankAny(v, r) ==
  /\ {u \in Permitted(member[v], "edit_ranks") : Offers(u, v)} # {}
  /\ r.alliance = member[v]
  /\ rank' = [rank EXCEPT ![v] = r.id]
  /\ UNCHANGED <<alliances, ranks, nextRank, member, score, total, invites>>
\* Alliance#change_user_rank: not to a founder's rank, but away from one.
ChangeUserRank(v, r) ==
  /\ {u \in Permitted(member[v], "edit_ranks") : Offers(u, v)} # {}
  /\ r.alliance = member[v]
  /\ ~r.founder
  /\ rank' = [rank EXCEPT ![v] = r.id]
  /\ UNCHANGED <<alliances, ranks, nextRank, member, score, total, invites>>

\* Alliance#set_founder: the founder gets the rank of his successor, the
\* successor the first founder's rank of the alliance.
ChangeFounder(u, v) ==
  /\ member[u] # None /\ Founder(u, member[u])
  /\ v # u /\ member[v] = member[u]
  /\ rank' = [rank EXCEPT ![u] = rank[v], ![v] = FounderRank(ranks, member[u]).id]
  /\ UNCHANGED <<alliances, ranks, nextRank, member, score, total, invites>>

\* AlliancesController#destroy: members and ranks go one by one, and the
\* invitations the founder himself has sent.
Destroy(u) ==
  LET a == member[u]
  IN /\ a # None /\ Founder(u, a)
     /\ member' = [v \in User |-> IF member[v] = a THEN None ELSE member[v]]
     /\ rank' = [v \in User |-> IF member[v] = a THEN None ELSE rank[v]]
     /\ ranks' = ranks \ RanksOf(ranks, a)
     /\ invites' = {i \in invites : i.sender # u}
     /\ alliances' = alliances \ {a}
     /\ UNCHANGED <<nextRank, score, total>>

\* RanksController#create: the name must be new in the alliance.
CreateRank(a, name, perms) ==
  /\ Permitted(a, "edit_ranks") # {}
  /\ \A r \in RanksOf(ranks, a) : r.name # name
  /\ nextRank < MaxRanks
  /\ ranks' = ranks \cup {[id |-> nextRank, alliance |-> a, name |-> name,
                           perms |-> perms, standard |-> FALSE, founder |-> FALSE]}
  /\ nextRank' = nextRank + 1
  /\ UNCHANGED <<alliances, member, rank, score, total, invites>>

\* RanksController#update: of a founder's rank the name only; no name is checked.
UpdateRank(r, name, perms) ==
  /\ Permitted(r.alliance, "edit_ranks") # {}
  /\ ranks' = (ranks \ {r}) \cup
       {[r EXCEPT !.name = name, !.perms = IF r.founder THEN @ ELSE perms]}
  /\ UNCHANGED <<alliances, nextRank, member, rank, score, total, invites>>

\* RanksController#destroy: its users go to the standard rank.
DestroyRank(r) ==
  /\ Permitted(r.alliance, "edit_ranks") # {}
  /\ ~r.standard /\ ~r.founder
  /\ rank' = [v \in User |-> IF rank[v] = r.id THEN StandardRank(ranks, r.alliance).id
                             ELSE rank[v]]
  /\ ranks' = ranks \ {r}
  /\ UNCHANGED <<alliances, nextRank, member, score, total, invites>>

\* AlliancesController#change_description: a save, and so the default ranks.
SetDescription(a) ==
  /\ Permitted(a, "change_description") # {}
  /\ SaveAlliance(a)
  /\ UNCHANGED <<alliances, member, rank, score, total, invites>>

\* User#add_score, by buildings, research and fleets.
AddScore(u) ==
  /\ score[u] < MaxScore
  /\ score' = [score EXCEPT ![u] = @ + 1]
  /\ IF member[u] = None THEN UNCHANGED <<ranks, nextRank, total>>
     ELSE /\ SaveAlliance(member[u])
          /\ total' = [total EXCEPT ![member[u]] = @ + 1]
  /\ UNCHANGED <<alliances, member, rank, invites>>

\* RequestsController#create: any member may invite who has no alliance.
SendInvite(s, u) ==
  /\ member[s] # None /\ member[u] = None
  /\ Cardinality(invites) < MaxInvites
  /\ invites' = invites \cup {[sender |-> s, recipient |-> u]}
  /\ UNCHANGED <<alliances, ranks, nextRank, member, rank, score, total>>

\* RequestsController#reaction, yes: Request#launch_action! adds the recipient to
\* the alliance the sender is in now; it raises if there is none.
Accept(i) ==
  /\ member[i.sender] # None
  /\ invites' = invites \ {i}
  /\ IF member[i.recipient] = None THEN AddUser(member[i.sender], i.recipient)
     ELSE UNCHANGED <<ranks, nextRank, member, rank, total>>
  /\ UNCHANGED <<alliances, score>>

\* RequestsController#reaction, no.
Decline(i) ==
  /\ invites' = invites \ {i}
  /\ UNCHANGED <<alliances, ranks, nextRank, member, rank, score, total>>

Next ==
  \/ \E u \in User, a \in Alliance : Create(u, a) /\ Remember
  \/ \E u \in User : Leave(u) /\ Remember
  \/ \E u \in User : Destroy(u) /\ Remember
  \/ \E a \in Alliance : SetDescription(a) /\ Remember
  \/ \E u \in User : AddScore(u) /\ Remember
  \/ \E v \in User : Kick(v) /\ Remember
  \/ \E u, v \in User : ChangeFounder(u, v) /\ Remember
  \/ \E u, v \in User : SendInvite(u, v) /\ Remember
  \/ \E v \in User, r \in ranks : ChangeUserRank(v, r) /\ Remember
  \/ \E a \in Alliance, name \in Name, perms \in NewPerms :
       CreateRank(a, name, perms) /\ Remember
  \/ \E name \in Name, perms \in NewPerms, r \in ranks :
       UpdateRank(r, name, perms) /\ Remember
  \/ \E r \in ranks : DestroyRank(r) /\ Remember
  \/ \E i \in invites : Accept(i) /\ Remember
  \/ \E i \in invites : Decline(i) /\ Remember

Spec == Init /\ [][Next]_vars
-----------------------------------------------------------------------------
\* Alliance and rank of a user change together, row by row, in add_user,
\* remove_user, destroy and the ranks' own controller: a member always has an
\* existing rank of his own alliance, and nobody else has one.
RankOfAlliance ==
  \A u \in User :
    IF member[u] = None THEN rank[u] = None
    ELSE \E r \in ranks : r.id = rank[u] /\ r.alliance = member[u]

\* The score of an alliance is that of its members, whoever came, went or scored
\* (add_score, add_user, remove_user).
ScoreIsSum ==
  \A a \in alliances : total[a] = SumFunctionOnSet(score, Members(a))

\* Whatever ranks were renamed, created again, given or handed over (set_founder),
\* and from whatever pages: no two members of an alliance are its founder.
OneFounder ==
  \A u, v \in User : member[u] # None /\ member[u] = member[v]
                     /\ IsFounder(u) /\ IsFounder(v) => u = v

\* add_user and show take the first standard and founder's rank without a check.
DefaultRanksExist ==
  \A a \in alliances : /\ \E r \in RanksOf(ranks, a) : r.standard
                       /\ \E r \in RanksOf(ranks, a) : r.founder

\* Nobody becomes founder of an alliance that existed but from the hand of its
\* founder (change_founder): neither ranks nor invitations give that right.
FounderHanded ==
  [][\A u \in User : IsFounder(u)' /\ ~IsFounder(u) /\ member'[u] \in alliances =>
       \E v \in User : member[v] = member'[u] /\ IsFounder(v) /\ ~IsFounder(v)']_vars

\* "unless current_user==user or user.rank.is_founder": an alliance always has
\* its founder, on whom the pages show and overview rely.
HasFounder == \A a \in alliances : \E u \in Members(a) : IsFounder(u)

\* With pages that are up to date their restraint is enough for that.
FreshHasFounder == mode = "fresh" => HasFounder

\* Members, ranks, founder and score of an alliance agree, whatever steps and old pages led to it.
AllianceAgrees ==
  TypeOK /\ RankOfAlliance /\ ScoreIsSum /\ OneFounder /\ DefaultRanksExist /\ FreshHasFounder
=============================================================================
