---------------------------- MODULE MCRedisData ----------------------------
(* The values of the keyspace, and below them the structures that encode     *)
(* them.  The two are checked side by side: a behaviour either sends the     *)
(* commands of one family or works on one encoding, and the rest is idle.    *)
EXTENDS MCDataTypes

CONSTANTS DictKeys, Hash, HtInitialSize, ForceResizeRatio, HtMinFill, RehashBatch, DictBudgets,
          ZslMembers, ZslScores, ZslMaxLevel, CellBase, IntValues,
          ByteBase, LenBytes, IntSize, ImmMin, ImmMax, ZipMaxLen, ZipItems, ZipBound, ZipShrink,
          Kinds

VARIABLES dict, dictWant, dictIter, child, dictLeft, zsl, zslWant, is, isWant, zl, zlWant, kind

S == INSTANCE Structures

\* A hash function with collisions at every size.
MCHash == [key \in DictKeys |->
    CASE key = "a" -> 0 [] key = "b" -> 1 [] key = "c" -> 2 [] OTHER -> 5]

\* An iteration, or values and a child.
MCBudgets == {[vals |-> {1}, forks |-> 0, iters |-> 1],
              [vals |-> {1, 2}, forks |-> 1, iters |-> 0]}

\* Cells of base 4, bytes of base 16.
MCValues == {-100, -9, -8, -3, -1, 0, 1, 7, 8, 100}

\* Two integer encodings beside the immediate one.
MCIntSize == [e \in {12, 14} |-> IF e = 12 THEN 2 ELSE 1]

\* Entries of 2 and 3 bytes, one that a longer length before it makes as long as ZipBig,
\* and one that is; their data look like marks.
MCItems == {[int |-> 0], [int |-> -3], [str |-> [i \in 1..10 |-> 15]],
            [str |-> [i \in 1..13 |-> 14]]}

MCFamilies == [f \in DOMAIN MCCalls \cup {"idle"} |-> IF f = "idle" THEN {} ELSE MCCalls[f]]

Encodings == <<dict, dictWant, dictIter, child, dictLeft, zsl, zslWant, is, isWant, zl, zlWant, kind>>

MCInit == Init /\ S!Init /\ (family = "idle" <=> kind # "idle")
MCNext == (Next /\ UNCHANGED Encodings) \/ (S!Next /\ UNCHANGED vars)

MCSpec == MCInit /\ [][MCNext]_<<vars, Encodings>> /\ S!Fairness

EncodingsHold == S!EncodingsHold
IterationShowsAll == S!IterationShowsAll
RehashEnds == S!RehashEnds
ZiplistHoldsList == S!ZiplistHoldsList
=============================================================================
