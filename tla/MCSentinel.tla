----------------------------- MODULE MCSentinel -----------------------------
(* A master with one or two slaves; the periods are a few ticks, in the      *)
(* order the real ones have.  A family is a configuration and what happens.  *)
EXTENDS SentinelNet

CONSTANTS r1, r2, r3, p1, p2

MCRank == (r1 :> 1) @@ (r2 :> 2) @@ (r3 :> 3)

MCT == [ping |-> 0, info |-> 1, infoFast |-> 0, publish |-> 1, ask |-> 1, validity |-> 1, down |-> 2, reconnect |-> 2,
        promotion |-> 2, reconf |-> 1, failover |-> 4, many |-> 2, tilt |-> 2, delays |-> {1}]

MCCapOf == [conn |-> 3, pcconn |-> 3, pcact |-> 4, avail |-> 3, pong |-> 2, pub |-> 2, md |-> 2, sdown |-> 7,
            odown |-> 7, info |-> 3, sent |-> 2, fchange |-> 5, mdown |-> 5, tilt |-> 7]

Nothing == [crash |-> 0, reboot |-> 0, disconnect |-> 0, somebody |-> 0, jump |-> 0, silence |-> 0, busy |-> 0, reset |-> 0, forced |-> 0]

Default ==
    [quorum |-> 1, can |-> TRUE, parallel |-> 1, notify |-> FALSE, reconf |-> FALSE, sync |-> TRUE,
     servers |-> {r1, r2}, weak |-> Addr, hellos |-> {}, votes |-> [i \in {p1, p2} |-> {<<TRUE, Me>>}], forks |-> {TRUE},
     prio |-> [a \in Addr |-> 1], slaveof |-> [a \in Addr |-> {First}], left |-> Nothing]

Happens(faults) == [f \in DOMAIN Nothing |-> IF f \in DOMAIN faults THEN faults[f] ELSE 0]

Hello(p, runid, can) == [addr |-> p, runid |-> runid, can |-> can]

MCConf ==
    [crash   |-> [Default EXCEPT !.left = Happens([crash |-> 1, reboot |-> 1])],
     observe |-> [Default EXCEPT !.servers = Addr, !.left = Happens([somebody |-> 1])],
     race    |-> [Default EXCEPT !.left = Happens([somebody |-> 1, forced |-> 1])],
     vote    |-> [Default EXCEPT !.quorum = 2, !.left = Happens([crash |-> 1]),
                                 !.hellos = {Hello(p1, 1, TRUE)},
                                 !.votes = [i \in {p1, p2} |-> BOOLEAN \X {1, 2}]],
     stale   |-> [Default EXCEPT !.quorum = 2, !.servers = {r1}, !.left = Happens([busy |-> 2]),
                                 !.hellos = {Hello(p1, 1, TRUE)}],
     meet    |-> [Default EXCEPT !.hellos = {Hello(p1, 1, TRUE), Hello(p2, 1, FALSE), Hello(p2, 3, TRUE)}],
     slow    |-> [Default EXCEPT !.left = Happens([silence |-> 1, forced |-> 1])],
     sync    |-> [Default EXCEPT !.servers = Addr, !.sync = FALSE, !.weak = {r2}, !.left = Happens([forced |-> 1, crash |-> 1])],
     cut     |-> [Default EXCEPT !.left = Happens([crash |-> 1, disconnect |-> 1])],
     busy    |-> [Default EXCEPT !.servers = {r1}, !.notify = TRUE, !.forks = BOOLEAN, !.left = Happens([busy |-> 1])],
     tilt    |-> [Default EXCEPT !.left = Happens([crash |-> 1, jump |-> 1])],
     script  |-> [Default EXCEPT !.reconf = TRUE, !.left = Happens([forced |-> 1])],
     forced  |-> [Default EXCEPT !.left = Happens([forced |-> 1, reset |-> 1, crash |-> 1])]]
=============================================================================
