------------------------------- MODULE TZset -------------------------------
(* The sorted set type, t_zset.c; its skip list is in module Skiplist.  The  *)
(* v of a sorted set in a "ziplist" is the sequence of its [ele, score]      *)
(* pairs as they lie there, in a "skiplist" the function (the dict) from its *)
(* elements to their scores.  Only ZUNIONSTORE and ZINTERSTORE make ziplists *)
(* of skip lists.  Scores are whole numbers with Inf and -Inf at their ends. *)
EXTENDS RedisDb

CONSTANTS ZsetMaxZiplist,  \* server.zset_max_ziplist_entries
          Inf              \* a number that stands for infinity
ASSUME ZsetBounds == ZsetMaxZiplist \in Nat /\ Inf \in Nat \ {0}

\* compareStringObjects on elements, which are ordered as they are listed here.
CONSTANT ElemOrder
ASSUME ElemOrderIsOne == ElemOrder \in [1..Cardinality(Elems) -> Elems] /\ Range(ElemOrder) = Elems
ElemRank(e) == CHOOSE i \in DOMAIN ElemOrder : ElemOrder[i] = e
Less(a, b) == ElemRank(a) < ElemRank(b)

NaN == Inf + 1     \* a number that no clipped result is
Clip(x) == Max({-Inf, Min({Inf, x})})
IsInf(x) == x = Inf \/ x = -Inf

\* Additions and products of doubles.
Plus(a, b) == IF IsInf(a) /\ IsInf(b) /\ a # b THEN NaN
              ELSE IF IsInf(a) THEN a ELSE IF IsInf(b) THEN b ELSE Clip(a + b)
Times(a, b) == IF (IsInf(a) /\ b = 0) \/ (IsInf(b) /\ a = 0) THEN NaN ELSE Clip(a * b)

----------------------------------------------------------------------------
\* Ziplists.

Before(a, b) == a.score < b.score \/ (a.score = b.score /\ Less(a.ele, b.ele))

zzlFind(zl, e) == FirstOf({i \in DOMAIN zl : zl[i].ele = e})

zzlDelete(zl, i) == RemoveAt(zl, i)

\* Before the first pair that has a greater score, or the same score and a greater element.
zzlInsert(zl, e, score) ==
    LET new == [ele |-> e, score |-> score]
        i == FirstOf({j \in DOMAIN zl : Before(new, zl[j])})
    IN  IF i = 0 THEN Append(zl, new) ELSE InsertAt(zl, i, new)

\* A range of scores: [min, max, minex, maxex].
zslValueGteMin(x, r) == IF r.minex THEN x > r.min ELSE x >= r.min
zslValueLteMax(x, r) == IF r.maxex THEN x < r.max ELSE x <= r.max
EmptyRange(r) == r.min > r.max \/ (r.min = r.max /\ (r.minex \/ r.maxex))

zzlIsInRange(zl, r) ==
    /\ ~EmptyRange(r)
    /\ zl # Empty
    /\ zslValueGteMin(Last(zl).score, r)
    /\ zslValueLteMax(Head(zl).score, r)

\* The first pair of the range by position, 0 for none.
zzlFirstInRange(zl, r) ==
    LET i == FirstOf({j \in DOMAIN zl : zslValueGteMin(zl[j].score, r)})
    IN  IF zzlIsInRange(zl, r) /\ i # 0 /\ zslValueLteMax(zl[i].score, r) THEN i ELSE 0

zzlLastInRange(zl, r) ==
    LET i == Max({0} \cup {j \in DOMAIN zl : zslValueLteMax(zl[j].score, r)})
    IN  IF zzlIsInRange(zl, r) /\ i # 0 /\ zslValueGteMin(zl[i].score, r) THEN i ELSE 0

zzlDeleteRangeByScore(zl, r) ==
    LET i == zzlFirstInRange(zl, r)
        past == {j \in DOMAIN zl : j >= i /\ ~zslValueLteMax(zl[j].score, r)}
        next == IF past = {} THEN Len(zl) + 1 ELSE Min(past)
    IN  IF i = 0 THEN zl ELSE SubSeq(zl, 1, i - 1) \o SubSeq(zl, next, Len(zl))

zzlDeleteRangeByRank(zl, first, last) == SubSeq(zl, 1, first - 1) \o SubSeq(zl, last + 1, Len(zl))

----------------------------------------------------------------------------
\* Both encodings.

Zset(enc) == [type |-> "zset", enc |-> enc, v |-> Empty]

\* The pairs of a dict in the order of its skip list.
Sorted(d) ==
    LET ps == {[ele |-> e, score |-> d[e]] : e \in DOMAIN d}
    IN  [i \in 1..Cardinality(ps) |-> CHOOSE p \in ps : Cardinality({q \in ps : Before(q, p)}) = i - 1]

\* Every pair of a sorted set, in order; its dict.
Pairs(o) == IF o.enc = "ziplist" THEN o.v ELSE Sorted(o.v)
Dict(o) == IF o.enc = "ziplist" THEN [e \in {p.ele : p \in Range(o.v)} |-> o.v[zzlFind(o.v, e)].score]
           ELSE o.v

zsetConvert(o, enc) ==
    [o EXCEPT !.enc = enc, !.v = IF enc = "skiplist" THEN Dict(o) ELSE Pairs(o)]

\* The score an element has, Nil for none.
ScoreOf(o, e) == IF e \in DOMAIN Dict(o) THEN Dict(o)[e] ELSE Nil

\* The element with a new score, which a ziplist moves or inserts.
SetScore(o, e, score) ==
    LET i == zzlFind(o.v, e)
        zl == zzlInsert(IF i = 0 THEN o.v ELSE zzlDelete(o.v, i), e, score)
    IN  IF o.enc = "ziplist" THEN [o EXCEPT !.v = zl] ELSE [o EXCEPT !.v = With(@, e, score)]

----------------------------------------------------------------------------
\* A new element, by which o became p, may convert the ziplist, after the insertion.
zaddConversion(p, e) ==
    IF p.enc = "ziplist" /\ (Len(p.v) > ZsetMaxZiplist \/ e \in BigElems)
    THEN zsetConvert(p, "skiplist") ELSE p

\* One pair of ZADD, or of ZINCRBY when incr: the object after it.
zaddOne(o, e, score, incr) ==
    LET old == ScoreOf(o, e)
    IN  IF old = Nil THEN zaddConversion(SetScore(o, e, score), e)
        ELSE SetScore(o, e, IF incr THEN Plus(old, score) ELSE score)

\* The object before and after each of the pairs.
zaddSteps(o, pairs, incr) ==
    LET step[i \in 0..Len(pairs)] ==
            IF i = 0 THEN o ELSE zaddOne(step[i - 1], pairs[i][2], pairs[i][1], incr)
    IN  step

\* Every element added or moved counts.
zaddCounted(T, k, step, pairs, incr) ==
    LET old(i) == ScoreOf(step[i - 1], pairs[i][2])
        new(i) == ScoreOf(step[i], pairs[i][2])
        moved == {i \in DOMAIN pairs : old(i) # new(i)}
        added == {i \in DOMAIN pairs : old(i) = Nil}
    IN  Answer([T EXCEPT !.dirty = @ + Cardinality(moved), !.touched = @ \cup {k : i \in moved}],
               IF incr THEN new(1) ELSE Cardinality(added))

\* pairs is a sequence of <<score, element>>.
zaddGenericCommand(S, k, pairs, incr) ==
    LET new == Zset(IF ZsetMaxZiplist = 0 \/ pairs[1][2] \in BigElems THEN "skiplist" ELSE "ziplist")
        at == LookupOrNew(S, k, "zset", new)
        old == ScoreOf(at.o, pairs[1][2])
        step == zaddSteps(at.o, pairs, incr)
    IN  Then(at, IF incr /\ old # Nil /\ Plus(old, pairs[1][1]) = NaN THEN Answer(at.S, Err)
                 ELSE zaddCounted(dbAdd(at.S, k, step[Len(pairs)]), k, step, pairs, incr))

\* o without the elements es, an object of the same encoding.
Dropped(o, es) ==
    [o EXCEPT !.v = IF o.enc = "ziplist" THEN SelectSeq(@, LAMBDA p: p.ele \notin es)
                    ELSE [e \in DOMAIN @ \ es |-> @[e]]]

\* What the three removals do with the object they are left with.
Remains(T, k, o, new) ==
    LET deleted == Len(Pairs(o)) - Len(Pairs(new))
    IN  Answer(IF deleted > 0 THEN Changed(Store(T, k, new), k, deleted) ELSE T, deleted)

zremCommand(S, k, es) ==
    LET at == Lookup(S, k, "zset", 0)
    IN  Then(at, Remains(at.S, k, at.o, Dropped(at.o, Range(es))))

zremrangebyscoreCommand(S, k, r) ==
    LET InRange(o) == {p.ele : p \in {q \in Range(Pairs(o)) :
                                        zslValueGteMin(q.score, r) /\ zslValueLteMax(q.score, r)}}
        Cut(o) == IF o.enc = "ziplist" THEN [o EXCEPT !.v = zzlDeleteRangeByScore(@, r)]
                  ELSE Dropped(o, InRange(o))
        at == Lookup(S, k, "zset", 0)
    IN  Then(at, Remains(at.S, k, at.o, Cut(at.o)))

zremrangebyrankCommand(S, k, start, end) ==
    LET Cut(o) ==
            LET r == Sanitised(start, end, Len(Pairs(o)))
            IN  IF r[1] > r[2] THEN o
                ELSE IF o.enc = "ziplist" THEN [o EXCEPT !.v = zzlDeleteRangeByRank(@, r[1], r[2])]
                ELSE Dropped(o, {p.ele : p \in Range(SubSeq(Sorted(o.v), r[1], r[2]))})
        at == Lookup(S, k, "zset", 0)
    IN  Then(at, Remains(at.S, k, at.o, Cut(at.o)))

\* A source of ZUNIONSTORE and ZINTERSTORE: a missing key, a set (every score is 1), or a
\* sorted set.
Source(o) == IF o = Nil THEN Empty ELSE IF o.type = "set" THEN [e \in o.v |-> 1] ELSE Dict(o)

\* inf + -inf is 0 here, and so is 0 * inf.
zunionInterAggregate(a, b, aggregate) ==
    CASE aggregate = "sum" -> IF Plus(a, b) = NaN THEN 0 ELSE Plus(a, b)
      [] aggregate = "min" -> Min({a, b})
      [] aggregate = "max" -> Max({a, b})

\* The score of e in the result: the sources that have e, from the smallest to the largest,
\* weighted and aggregated.
Aggregated(srcs, e, aggregate) ==
    LET w(s) == IF Times(s.weight, s.dict[e]) = NaN THEN 0 ELSE Times(s.weight, s.dict[e])
        having == SelectSeq(srcs, LAMBDA s: e \in DOMAIN s.dict)
        total[i \in 1..Len(having)] ==
            IF i = 1 THEN w(having[1]) ELSE zunionInterAggregate(total[i - 1], w(having[i]), aggregate)
    IN  total[Len(having)]

\* The result starts as a skip list and becomes a ziplist when it fits in one.
zunionInterGenericCommand(S, dst, ks, weights, aggregate, op) ==
    LET taken == {"none", "set", "zset"}
        T == LookupAll(S, ks, taken)
        srcs == SortSeq([i \in DOMAIN ks |-> [dict |-> Source(lookupKey(T, ks[i])), weight |-> weights[i]]],
                        LAMBDA a, b: Cardinality(DOMAIN a.dict) < Cardinality(DOMAIN b.dict))
        domains == {DOMAIN s.dict : s \in Range(srcs)}
        es == IF op = "inter" THEN {e \in UNION domains : \A d \in domains : e \in d} ELSE UNION domains
        o == [Zset("skiplist") EXCEPT !.v = [e \in es |-> Aggregated(srcs, e, aggregate)]]
        fits == Cardinality(es) <= ZsetMaxZiplist /\ es \cap BigElems = {}
        D == IF dbExists(T, dst) THEN Changed(dbDelete(T, dst), dst, 1) ELSE T
    IN  IF StopsAt(S, ks, taken) # 0 THEN Answer(T, WrongType)
        ELSE IF es = {} THEN Answer(D, 0)
        ELSE Answer(Changed(dbAdd(D, dst, IF fits THEN zsetConvert(o, "ziplist") ELSE o), dst, 1),
                    Cardinality(es))

----------------------------------------------------------------------------
\* Reads.

zrangeGenericCommand(S, k, start, end, reverse) ==
    LET Read(T, o) == LET s == IF reverse THEN Reverse(Pairs(o)) ELSE Pairs(o)
                          r == Sanitised(start, end, Len(s))
                      IN  Answer(T, SubSeq(s, r[1], r[2]))
        at == Lookup(S, k, "zset", Empty)
    IN  Then(at, Read(at.S, at.o))

\* The pairs from the first in range on, from the last one on backwards when reverse.
FromRange(zl, r, reverse) ==
    LET i == IF reverse THEN zzlLastInRange(zl, r) ELSE zzlFirstInRange(zl, r)
    IN  IF i = 0 THEN Empty
        ELSE IF reverse THEN Reverse(SubSeq(zl, 1, i)) ELSE SubSeq(zl, i, Len(zl))

\* Those before the first that has left the range.
WhileInRange(zl, r, reverse) ==
    LET out == FirstOf({j \in DOMAIN zl : IF reverse THEN ~zslValueGteMin(zl[j].score, r)
                                          ELSE ~zslValueLteMax(zl[j].score, r)})
    IN  IF out = 0 THEN zl ELSE SubSeq(zl, 1, out - 1)

Limited(zl, limit) == IF limit < 0 THEN zl ELSE SubSeq(zl, 1, Min({limit, Len(zl)}))

\* offset pairs are skipped without a look at their scores; a negative offset skips them
\* all, a negative limit is none.
genericZrangebyscoreCommand(S, k, r, offset, limit, reverse) ==
    LET Skipped(zl) == IF offset < 0 THEN Empty ELSE SubSeq(zl, offset + 1, Len(zl))
        at == Lookup(S, k, "zset", Empty)
        rest == Skipped(FromRange(Pairs(at.o), r, reverse))
    IN  Then(at, Answer(at.S, Limited(WhileInRange(rest, r, reverse), limit)))

\* A ziplist is walked; a skip list subtracts what lies before the first and after the last.
zcountCommand(S, k, r) ==
    LET Count(T, o) ==
            LET zl == Pairs(o)
                first == zzlFirstInRange(zl, r)
                last == zzlLastInRange(zl, r)
                past == {j \in DOMAIN zl : j >= first /\ ~zslValueLteMax(zl[j].score, r)}
            IN  Answer(T, IF first = 0 THEN 0
                          ELSE IF o.enc = "ziplist"
                               THEN (IF past = {} THEN Len(zl) + 1 ELSE Min(past)) - first
                               ELSE (Len(zl) - (first - 1)) - (Len(zl) - last))
        at == Lookup(S, k, "zset", 0)
    IN  Then(at, Count(at.S, at.o))

zcardCommand(S, k) ==
    LET at == Lookup(S, k, "zset", 0) IN Then(at, Answer(at.S, Len(Pairs(at.o))))

zscoreCommand(S, k, e) ==
    LET at == Lookup(S, k, "zset", Nil) IN Then(at, Answer(at.S, ScoreOf(at.o, e)))

zrankGenericCommand(S, k, e, reverse) ==
    LET Rank(T, o) == LET i == zzlFind(Pairs(o), e)
                      IN  Answer(T, IF i = 0 THEN Nil ELSE IF reverse THEN Len(Pairs(o)) - i ELSE i - 1)
        at == Lookup(S, k, "zset", Nil)
    IN  Then(at, Rank(at.S, at.o))
=============================================================================
