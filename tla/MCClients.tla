----------------------------- MODULE MCClients -----------------------------
(* Three connections, of which two may be open at once in some families; two *)
(* keys, one of which may hold a string; transactions of at most two         *)
(* commands.  One family looks at one thing.                                 *)
EXTENDS Clients

CONSTANTS k1, k2, n1, a, c1, c2, c3, ch1, p1

MCElemOrder == <<n1, a>>
MCSub == [e \in Elems |-> k1]
MCMatches == [p \in {p1} |-> {ch1}]
MCHardLimit == [normal |-> 0, pubsub |-> 2]
MCSoftLimit == [normal |-> 0, pubsub |-> 1]

Alone(qs) == {<<q>> : q \in qs}

Push(k) == <<"PUSH", k, <<a>>, "head">>

Block == <<<<"BPOP", <<k1, k2>>, "head", 1>>>>
BlockAsked(c) ==
    IF c = c1 THEN {Block, <<<<"BRPOPLPUSH", k1, k2, 0>>>>}
    ELSE IF c = c2 THEN {<<<<"BPOP", <<k2, k2>>, "tail", 0>>>>, Block}
    ELSE Alone({Push(k1), Push(k2), <<"SET", k2, <<"x">>, Nil, "">>, <<"DEL", <<k2>>>>})
            \cup {<<<<"MULTI">>, Push(k1), <<"POP", k1, "head">>, <<"EXEC">>>>,
                  <<<<"MULTI">>, Push(k2), Push(k1), <<"EXEC">>>>,
                  <<<<"MULTI">>, <<"KILL", c1>>, Push(k2), <<"EXEC">>>>}

MultiAsked(c) ==
    IF c = c1 THEN Alone({<<"MULTI">>, <<"EXEC">>, <<"DISCARD">>, <<"UNWATCH">>, <<"INCRBY", k1, 1>>, <<"GET", k1>>,
                          <<"WATCH", <<k1, k2, k1>>>>, <<"BOGUS">>})
    ELSE IF c = c2 THEN Alone({<<"INCRBY", k1, 1>>, <<"DEL", <<k1, k2>>>>, <<"FLUSHALL">>, <<"WATCH", <<k1>>>>})
            \cup {<<<<"MULTI">>, <<"INCRBY", k2, 1>>, <<"EXEC">>>>}
    ELSE {}

PubsubAsked(c) ==
    IF c = c3 THEN {}
    ELSE Alone({<<"SUBSCRIBE", <<ch1, ch1>>>>, <<"UNSUBSCRIBE", Empty>>, <<"PSUBSCRIBE", <<p1>>>>,
                <<"PUNSUBSCRIBE", <<p1>>>>})
            \cup (IF c = c1 THEN Alone({<<"QUIT">>, <<"UNSUBSCRIBE", <<ch1>>>>, <<"PUNSUBSCRIBE", Empty>>})
                        \cup {<<<<"MULTI">>, <<"KILL", c1>>, <<"SUBSCRIBE", <<ch1>>>>, <<"EXEC">>>>}
                  ELSE Alone({<<"PUBLISH", ch1>>, <<"KILL", c1>>, <<"KILL", c2>>}))

ModeAsked(c) ==
    IF c # c1 THEN {}
    ELSE Alone({<<"MULTI">>, <<"EXEC">>, <<"INCRBY", k1, 1>>, <<"GET", k1>>, <<"AUTH", TRUE>>, <<"AUTH", FALSE>>,
                <<"SUBSCRIBE", <<ch1>>>>, <<"UNSUBSCRIBE", <<ch1>>>>, <<"BOGUS">>})

MCAsked == [f \in {"block", "multi", "pubsub", "modes"} |-> [c \in Clients |->
    CASE f = "block" -> BlockAsked(c) [] f = "multi" -> MultiAsked(c)
      [] f = "pubsub" -> PubsubAsked(c) [] f = "modes" -> ModeAsked(c)]]

\* A client that blocks again as soon as it is served, and one that closes it.
AgainAsked(c) ==
    IF c = c1 THEN {<<<<"BPOP", <<k1>>, "head", 0>>>>}
    ELSE IF c = c2 THEN Alone({Push(k1)})
    ELSE {<<Push(k1), <<"KILL", c1>>>>}

MCAgain == [f \in {"again"} |-> [c \in Clients |-> AgainAsked(c)]]

MCModes == [f \in DOMAIN MCAsked \cup {"again"} |->
    IF f = "modes" THEN {"normal", "password", "oom", "bgsaveerr", "roslave", "stale", "loading", "slowscript"}
    ELSE {"normal"}]

MCLongMin == -2
MCSlow == [f \in DOMAIN MCAsked \cup {"again"} |-> IF f = "pubsub" THEN {c1} ELSE {}]
MCMaxIdle == [f \in DOMAIN MCAsked \cup {"again"} |-> IF f \in {"modes", "multi"} THEN 1 ELSE 0]
=============================================================================
