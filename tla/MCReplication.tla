--------------------------- MODULE MCReplication ---------------------------
(* A master with two slaves, or with a slave that has a slave.               *)
EXTENDS Replication, TLC

CONSTANTS a, b, c

Nothing == [write |-> 0, slow |-> 0, loading |-> 0, fork |-> 0, laterfork |-> 0, save |-> 0, disk |-> 0, load |-> 0,
            bgsave |-> 0, cut |-> 0, crash |-> 0, slaveof |-> 0]
Happens(faults) == [f \in DOMAIN Nothing |-> IF f \in DOMAIN faults THEN faults[f] ELSE 0]

MCPool == (a :> {5, 6}) @@ (b :> {1, 2}) @@ (c :> {3, 4})

Star == (a :> Nil) @@ (b :> a) @@ (c :> a)
Chain == (a :> Nil) @@ (b :> a) @@ (c :> b)
Pair == (a :> Nil) @@ (b :> a) @@ (c :> Nil)
Family(master, dbs, faults) == [master |-> master, dbs |-> dbs, moves |-> {}, weak |-> {a, b}, pings |-> FALSE, left |-> Happens(faults)]
Moving(master, moves) == [Family(master, {0}, [write |-> 1, slaveof |-> 1]) EXCEPT !.moves = moves]

MCConf ==
    [star  |-> Family(Star, {0}, [write |-> 2, save |-> 1]),
     chain |-> [Family(Chain, {0}, [write |-> 1, cut |-> 1]) EXCEPT !.weak = {b}],
     slow  |-> [Family(Pair, {0}, [write |-> 1, slow |-> 2]) EXCEPT !.pings = TRUE],
     crash |-> Family(Pair, {0}, [crash |-> 1, write |-> 2]),
     dbs   |-> Family(Pair, {0, 1}, [write |-> 2, bgsave |-> 1]),
     saves |-> Family(Pair, {0}, [write |-> 1, bgsave |-> 1, save |-> 1, fork |-> 1]),
     disk  |-> Family(Pair, {0}, [write |-> 1, disk |-> 1, load |-> 1, loading |-> 1]),
     ping  |-> [Family(Chain, {0}, [write |-> 1]) EXCEPT !.pings = TRUE],
     move  |-> Moving(Pair, {<<b, c>>, <<a, b>>}),
     top   |-> Moving(Chain, {<<b, Nil>>})]


\* Two slaves and two databases.
MCBases == [bases |-> Family(Star, {0, 1}, [write |-> 2])]
=============================================================================
