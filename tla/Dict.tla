-------------------------------- MODULE Dict --------------------------------
(***************************************************************************)
(* dict.c: the hash table behind the keyspace, sets, hashes and sorted     *)
(* sets.  A dictionary owns two tables; while it grows or shrinks, entries *)
(* move from ht[0] to ht[1] one bucket at a time, on every operation (while *)
(* no safe iterator is open) and in the server's timer (while no child     *)
(* saves).  A chain is a sequence, its head the last entry added.          *)
(*                                                                         *)
(* dictWant is what the callers of the dictionary believe it holds, and    *)
(* dictIter the one iterator that may be open between two calls of         *)
(* dictNext, with what it has returned so far.                             *)
(***************************************************************************)
EXTENDS Integers, Sequences, SequencesExt, FiniteSetsExt, Functions, TLC

CONSTANTS DictKeys,
          Hash,              \* dictHashKey, a function on DictKeys
          HtInitialSize,     \* DICT_HT_INITIAL_SIZE
          ForceResizeRatio,  \* dict_force_resize_ratio
          HtMinFill,         \* REDIS_HT_MINFILL
          RehashBatch,       \* the buckets dictRehashMilliseconds moves at a time
          DictBudgets        \* bounds: sets of values, numbers of forks and iterators

VARIABLES dict, dictWant, dictIter, child, dictLeft

dictVars == <<dict, dictWant, dictIter, child, dictLeft>>

NoTable == [size |-> 0, used |-> 0, table |-> <<>>]

DictNew == [ht |-> [t \in 0..1 |-> NoTable], rehashidx |-> -1, iterators |-> 0]

Rehashing(d) == d.rehashidx # -1

(* The tables an operation looks at, in this order *)
Tables(d) == IF Rehashing(d) THEN <<0, 1>> ELSE <<0>>

Bucket(h, key) == Hash[key] % h.size

Chain(h, key) == IF h.size = 0 THEN <<>> ELSE h.table[Bucket(h, key)]

InTable(h, key) == \E n \in DOMAIN Chain(h, key) : Chain(h, key)[n].key = key

NextPower(size) ==
    Min({p \in {HtInitialSize * 2^n : n \in 0..size} : p >= size})

HtNew(size) == [size |-> size, used |-> 0, table |-> [i \in 0..size - 1 |-> <<>>]]

DictExpand(d, size) ==
    IF Rehashing(d) \/ d.ht[0].used > size THEN d
    ELSE IF d.ht[0].size = 0 THEN [d EXCEPT !.ht[0] = HtNew(NextPower(size))]
    ELSE [d EXCEPT !.ht[1] = HtNew(NextPower(size)), !.rehashidx = 0]

DictResize(d, can) ==
    IF ~can \/ Rehashing(d) THEN d
    ELSE DictExpand(d, Max({d.ht[0].used, HtInitialSize}))

(* Moving a chain pushes its entries, one after the other, on their new buckets *)
MovedTo(h, chain) ==
    [h EXCEPT !.used = @ + Len(chain),
              !.table = [j \in DOMAIN @ |->
                  Reverse(SelectSeq(chain, LAMBDA e : Bucket(h, e.key) = j)) \o @[j]]]

RehashDone(d) ==
    [d EXCEPT !.ht = [t \in 0..1 |-> IF t = 0 THEN d.ht[1] ELSE NoTable],
              !.rehashidx = -1]

RehashBucket(d) ==
    LET i == Min({j \in d.rehashidx..d.ht[0].size - 1 : d.ht[0].table[j] # <<>>})
        chain == d.ht[0].table[i]
    IN  [d EXCEPT !.ht[0].table[i] = <<>>, !.ht[0].used = @ - Len(chain),
                  !.ht[1] = MovedTo(@, chain), !.rehashidx = i + 1]

DictRehash(d, n) ==
    LET after[k \in 0..n] ==
          IF k = 0 THEN d
          ELSE LET e == after[k - 1] IN
               CASE ~Rehashing(e) -> e
                 [] Rehashing(e) /\ e.ht[0].used = 0 -> RehashDone(e)
                 [] OTHER -> RehashBucket(e)
    IN  after[n]

\* Mutant: a lookup rehashes although a safe iterator is under way.
RehashStepUnderIterator(d) == DictRehash(d, 1)

RehashStep(d) == IF d.iterators = 0 THEN DictRehash(d, 1) ELSE d

ExpandIfNeeded(d, can) ==
    LET h == d.ht[0] IN
    CASE Rehashing(d) -> d
      [] ~Rehashing(d) /\ h.size = 0 -> DictExpand(d, HtInitialSize)
      [] ~Rehashing(d) /\ h.size # 0 /\ h.used >= h.size
           /\ (can \/ h.used \div h.size > ForceResizeRatio) ->
             DictExpand(d, Max({h.size, h.used}) * 2)
      [] OTHER -> d

(* The entry of a key, or <<>> *)
DictFind(d, key) ==
    LET found == SelectSeq(FlattenSeq([n \in DOMAIN Tables(d) |->
                               Chain(d.ht[Tables(d)[n]], key)]),
                           LAMBDA e : e.key = key)
    IN  IF found = <<>> THEN <<>> ELSE <<found[1]>>

(* _dictKeyIndex refuses a key that is there, in the table it has by then *)
KeyIsFree(d, key) == DictFind(d, key) = <<>>

(* The new entry goes to the second table while there is one *)
AddTo(d, key, val) ==
    LET t == IF Rehashing(d) THEN 1 ELSE 0 IN
    [d EXCEPT !.ht[t].used = @ + 1,
              !.ht[t].table[Bucket(d.ht[t], key)] = <<[key |-> key, val |-> val]>> \o @]

DictAdd(d, can, key, val) ==
    LET e == ExpandIfNeeded(RehashStep(d), can) IN
    IF KeyIsFree(e, key) THEN AddTo(e, key, val) ELSE e

SetVal(d, key, val) ==
    [d EXCEPT !.ht = [t \in 0..1 |->
        [@[t] EXCEPT !.table = [i \in DOMAIN @ |-> [n \in DOMAIN @[i] |->
            IF @[i][n].key = key THEN [@[i][n] EXCEPT !.val = val] ELSE @[i][n]]]]]]

(* dictAdd first; when it refuses, dictFind, which takes a step of its own *)
DictReplace(d, can, key, val) ==
    LET e == ExpandIfNeeded(RehashStep(d), can) IN
    IF KeyIsFree(e, key) THEN AddTo(e, key, val)
    ELSE SetVal(RehashStep(e), key, val)

DictReplaceRaw(d, can, key, val) ==
    LET e == IF d.ht[0].size = 0 THEN d ELSE RehashStep(d) IN
    IF DictFind(e, key) # <<>> THEN SetVal(e, key, val) ELSE DictAdd(e, can, key, val)

(* The first table that holds the key loses it *)
Unlink(d, key) ==
    LET t == IF InTable(d.ht[0], key) THEN 0 ELSE 1 IN
    [d EXCEPT !.ht[t].used = @ - 1,
              !.ht[t].table[Bucket(d.ht[t], key)] = SelectSeq(@, LAMBDA e : e.key # key)]

DictDelete(d, key) ==
    LET e == IF d.ht[0].size = 0 THEN d ELSE RehashStep(d) IN
    IF DictFind(e, key) = <<>> THEN e ELSE Unlink(e, key)

(* Used by dictFind, dictFetchValue and dictGetRandomKey: a read moves a bucket *)
DictRead(d) == IF d.ht[0].size = 0 THEN d ELSE RehashStep(d)

HtUsed(d) == d.ht[0].used + d.ht[1].used
HtSlots(d) == d.ht[0].size + d.ht[1].size

HtNeedsResize(d) ==
    /\ HtSlots(d) > HtInitialSize
    /\ HtUsed(d) # 0
    /\ (HtUsed(d) * 100) \div HtSlots(d) < HtMinFill

----------------------------------------------------------------------------
(* Iterators.  entry and next are the keys of the entries pointed to, None  *)
(* for NULL; shown is what dictNext returned, stay the keys that were there *)
(* when the iterator was made and have not been deleted since.              *)

None == "none"

NoIter == [safe |-> FALSE, open |-> FALSE, over |-> FALSE, shown |-> <<>>, stay |-> {}]

NewIter(safe, keys) ==
    [safe |-> safe, open |-> TRUE, table |-> 0, index |-> -1, entry |-> None,
     next |-> None, over |-> FALSE, shown |-> <<>>, stay |-> keys]

(* An iterator counts from its first dictNext on *)
Started(it) == ~(it.index = -1 /\ it.table = 0)

(* The places dictNext still visits: the rest of its table, then the second *)
(* table if the dictionary is being rehashed                                *)
PlacesLeft(d, it) ==
    {<<it.table, i>> : i \in it.index + 1..d.ht[it.table].size - 1}
      \cup (IF it.table = 0 /\ Rehashing(d)
            THEN {<<1, i>> : i \in 0..d.ht[1].size - 1} ELSE {})

Before(p, q) == p[1] < q[1] \/ (p[1] = q[1] /\ p[2] < q[2])

FilledPlaces(d, it) == {p \in PlacesLeft(d, it) : d.ht[p[1]].table[p[2]] # <<>>}

(* The key after `key` in its chain *)
After(chain, key) ==
    LET n == SelectInSeq(chain, LAMBDA e : e.key = key) IN
    IF n = 0 \/ n = Len(chain) THEN None ELSE chain[n + 1].key

Shows(it, key, next) ==
    [it EXCEPT !.entry = key, !.next = next, !.shown = Append(@, key)]

NextInChain(d, it) ==
    LET chain == d.ht[it.table].table[it.index] IN
    Shows(it, it.next, After(chain, it.next))

NextBucket(d, it) ==
    LET p == CHOOSE q \in FilledPlaces(d, it) :
                 \A r \in FilledPlaces(d, it) : ~Before(r, q)
        chain == d.ht[p[1]].table[p[2]]
    IN  Shows([it EXCEPT !.table = p[1], !.index = p[2]],
              chain[1].key, After(chain, chain[1].key))

(* At the end the index stays past the last bucket *)
NextNull(d, it) ==
    LET t == IF Rehashing(d) THEN 1 ELSE it.table IN
    [it EXCEPT !.table = t, !.index = d.ht[t].size, !.entry = None, !.over = TRUE]

DictNext(d, it) ==
    CASE it.next # None -> NextInChain(d, it)
      [] it.next = None /\ FilledPlaces(d, it) # {} -> NextBucket(d, it)
      [] OTHER -> NextNull(d, it)

----------------------------------------------------------------------------
(* updateDictResizePolicy: no resizing while a child has the pages *)
CanResize == ~child

DictInit ==
    /\ dict = DictNew
    /\ dictWant = <<>>
    /\ dictIter = NoIter
    /\ child = FALSE
    /\ dictLeft \in DictBudgets

(* Only a safe iterator allows other calls before it is released *)
MayCall == dictIter.open => dictIter.safe

Add(key, val) ==
    /\ MayCall
    /\ dict' = DictAdd(dict, CanResize, key, val)
    /\ dictWant' = dictWant @@ (key :> val)
    /\ UNCHANGED <<dictIter, child, dictLeft>>

Replace(key, val) ==
    /\ MayCall
    /\ \/ dict' = DictReplace(dict, CanResize, key, val)
       \/ dict' = DictReplaceRaw(dict, CanResize, key, val)
    /\ dictWant' = (key :> val) @@ dictWant
    /\ UNCHANGED <<dictIter, child, dictLeft>>

(* During an iteration the users delete the entry they were just given *)
Delete(key) ==
    /\ dictIter.open => dictIter.safe /\ dictIter.entry = key
    /\ dict' = DictDelete(dict, key)
    /\ dictWant' = Restrict(dictWant, DOMAIN dictWant \ {key})
    /\ dictIter' = IF dictIter.open THEN [dictIter EXCEPT !.stay = @ \ {key}] ELSE NoIter
    /\ UNCHANGED <<child, dictLeft>>

Read ==
    /\ MayCall
    /\ dict' = DictRead(dict)
    /\ UNCHANGED <<dictWant, dictIter, child, dictLeft>>

Empty ==
    /\ ~dictIter.open
    /\ dict' = DictNew
    /\ dictWant' = <<>>
    /\ UNCHANGED <<dictIter, child, dictLeft>>

GetIterator(safe) ==
    /\ ~dictIter.open /\ dictLeft.iters > 0
    /\ dictIter' = NewIter(safe, DOMAIN dictWant)
    /\ dictLeft' = [dictLeft EXCEPT !.iters = @ - 1]
    /\ UNCHANGED <<dict, dictWant, child>>

IterNext ==
    /\ dictIter.open /\ ~dictIter.over
    /\ LET d == IF dictIter.safe /\ ~Started(dictIter)
                THEN [dict EXCEPT !.iterators = @ + 1] ELSE dict
       IN  dict' = d /\ dictIter' = DictNext(d, dictIter)
    /\ UNCHANGED <<dictWant, child, dictLeft>>

ReleaseIterator ==
    /\ dictIter.open
    /\ dict' = IF dictIter.safe /\ Started(dictIter)
               THEN [dict EXCEPT !.iterators = @ - 1] ELSE dict
    /\ dictIter' = NoIter
    /\ UNCHANGED <<dictWant, child, dictLeft>>

(* databasesCron: between two commands, while no child saves *)
TryResize ==
    /\ ~dictIter.open /\ ~child
    /\ HtNeedsResize(dict)
    /\ dict' = DictResize(dict, CanResize)
    /\ UNCHANGED <<dictWant, dictIter, child, dictLeft>>

\* Mutant: only a table that is empty already is finished.
IncrementallyRehashEmptied ==
    /\ ~dictIter.open /\ ~child
    /\ Rehashing(dict) /\ dict.ht[0].used = 0
    /\ dict' = DictRehash(dict, RehashBatch)
    /\ UNCHANGED <<dictWant, dictIter, child, dictLeft>>

IncrementallyRehash ==
    /\ ~dictIter.open /\ ~child
    /\ Rehashing(dict)
    /\ dict' = DictRehash(dict, RehashBatch)
    /\ UNCHANGED <<dictWant, dictIter, child, dictLeft>>

Fork ==
    /\ ~dictIter.open /\ ~child /\ dictLeft.forks > 0
    /\ child' = TRUE
    /\ dictLeft' = [dictLeft EXCEPT !.forks = @ - 1]
    /\ UNCHANGED <<dict, dictWant, dictIter>>

ChildDone ==
    /\ ~dictIter.open /\ child
    /\ child' = FALSE
    /\ UNCHANGED <<dict, dictWant, dictIter, dictLeft>>

DictActs ==
    \/ \E key \in DictKeys, val \in dictLeft.vals : Add(key, val) \/ Replace(key, val)
    \/ \E key \in DictKeys : Delete(key)
    \/ \E safe \in BOOLEAN : GetIterator(safe)
    \/ Read \/ Empty \/ IterNext \/ ReleaseIterator
    \/ TryResize \/ IncrementallyRehash \/ Fork \/ ChildDone

----------------------------------------------------------------------------
(* The two tables together hold what was put in: every key found where its  *)
(* hash sends it and only there, with its last value, nothing else counted; *)
(* a second table only while entries move, and none left behind the bucket  *)
(* they move from; one iterator counted while one is open (dict.c:243-436). *)
DictHoldsMap ==
    LET Filled(h) == {i \in DOMAIN h.table : h.table[i] # <<>>}
        Stored(h) == UNION {{e.key : e \in Range(h.table[i])} : i \in Filled(h)}
    IN
    /\ \A t \in 0..1 : LET h == dict.ht[t] IN
         /\ h.used = FoldFunction(LAMBDA c, n : Len(c) + n, 0, h.table)
         /\ h.used = Cardinality(Stored(h))
         /\ \A i \in DOMAIN h.table, n \in DictKeys :
              (\E e \in Range(h.table[i]) : e.key = n) => Bucket(h, n) = i
    /\ HtUsed(dict) = Cardinality(DOMAIN dictWant)
    /\ \A key \in DOMAIN dictWant : DictFind(dict, key) = <<[key |-> key, val |-> dictWant[key]]>>
    /\ dict.ht[1].size > 0 <=> Rehashing(dict)
    /\ \A i \in Filled(dict.ht[0]) : i >= dict.rehashidx
    /\ dict.iterators = IF dictIter.open /\ dictIter.safe /\ Started(dictIter) THEN 1 ELSE 0

(* An iteration shows every key that stays in the dictionary once: no       *)
(* entry moves past the iterator, or behind it, while it is open            *)
(* (dict.c:301-311, 528-557).                                               *)
IterationShowsAll ==
    \A key \in dictIter.stay :
       LET times == Cardinality({n \in DOMAIN dictIter.shown : dictIter.shown[n] = key}) IN
       times <= 1 /\ (dictIter.over => times = 1)

(* A rehashing ends: the server does not stay with two tables, though the   *)
(* steps stop while a child saves or an iterator is open (redis.c:580-612). *)
RehashEnds == Rehashing(dict) ~> ~Rehashing(dict)
=============================================================================
