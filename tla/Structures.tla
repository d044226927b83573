----------------------------- MODULE Structures -----------------------------
(***************************************************************************)
(* The four encodings below the data types, each with the operations its   *)
(* callers use: the hash table, the skip list, the integer set and the     *)
(* packed list.  They share nothing; a behaviour works on one of them,     *)
(* which `kind` names.                                                     *)
(***************************************************************************)
EXTENDS Dict, Skiplist, Intset, Ziplist

CONSTANT Kinds

VARIABLE kind

vars == <<kind, dictVars, zslVars, isVars, zlVars>>

Init ==
    /\ kind \in Kinds
    /\ DictInit
    /\ kind # "dict" => dictLeft = CHOOSE left \in DictBudgets : TRUE
    /\ ZslInit
    /\ IsInit
    /\ ZlInit

DictCalls == kind = "dict" /\ DictActs /\ UNCHANGED <<kind, zslVars, isVars, zlVars>>
ZslCalls == kind = "skiplist" /\ ZslActs /\ UNCHANGED <<kind, dictVars, isVars, zlVars>>
IsCalls == kind = "intset" /\ IsActs /\ UNCHANGED <<kind, dictVars, zslVars, zlVars>>
ZlCalls == kind = "ziplist" /\ ZlActs /\ UNCHANGED <<kind, dictVars, zslVars, isVars>>

Next == DictCalls \/ ZslCalls \/ IsCalls \/ ZlCalls

Others == UNCHANGED <<kind, zslVars, isVars, zlVars>>

(* A command that has begun an iteration ends it, and between two commands  *)
(* the timer comes again and again: serverCron is rescheduled by the event  *)
(* loop after every run (ae.c:241-307), so the steps it makes are strongly  *)
(* fair, and a child ends.                                                  *)
Fairness ==
    /\ WF_vars(IterNext /\ Others)
    /\ WF_vars(ReleaseIterator /\ Others)
    /\ SF_vars(IncrementallyRehash /\ Others)
    /\ SF_vars(ChildDone /\ Others)

Spec == Init /\ [][Next]_vars /\ Fairness

(* What every encoding promises the data type above it: through all its     *)
(* operations it answers like the map, the sorted set, the set of integers  *)
(* and the list it stands for.                                              *)
EncodingsHold ==
    /\ DictHoldsMap
    /\ SkiplistHoldsZset
    /\ IntsetHoldsSet
    /\ ZiplistHoldsList
=============================================================================
