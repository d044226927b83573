---------------------------- MODULE Persistence ----------------------------
(* What the Redis server keeps on disk: the append only file of aof.c with   *)
(* its buffer, its background fsync (bio.c) and its rewrite in a child, the  *)
(* dump of rdb.c with its own child, serverCron's handling of both, and what *)
(* a kill, a power failure, a shutdown and a restart make of them.           *)
EXTENDS Rdb

CONSTANTS
    Conf,     \* family -> [appendonly, fsync, nofsync, save, perc], the configuration file
    Calls,    \* family -> the commands of its clients, each a sequence run as one transaction if longer than 1
    Asked,    \* family -> the administrative commands of its clients
    Faults,   \* family -> what may fail
    MaxLog,   \* bound: family -> the most commands in the log and on their way to it
    MaxDirty, \* bound: family -> the most changes counted
    MaxNow,   \* bound: family -> the last second
    MaxSize,  \* bound: the most elements of a value
    MaxJobs,  \* bound: the most fsyncs waiting when a rewrite is asked for
    RetryDelay \* REDIS_BGSAVE_RETRY_DELAY
ASSUME PersistenceBounds == \A f \in DOMAIN Conf : {MaxLog[f], MaxDirty[f], MaxNow[f]} \subseteq Nat

VARIABLES
    family,  \* the family of this behaviour
    life,    \* "running", "stopped" by SHUTDOWN or "crashed"
    phase,   \* where its event loop is: "asleep", "busy" with commands, "timed" after serverCron
    now,     \* server.unixtime, and mstime()
    db,      \* [dict, expires]
    acked,   \* the dataset when replies were last sent, kept for the properties
    aof,     \* server.aof_*: [state, fd, buf, rwbuf, scheduled, base, postponed, last, bio]
    file,    \* the append only file: [log, synced, torn]
    rw,      \* the child that rewrites it: [st, temp]
    rdb,     \* [dirty, before, status, lastsave, lasttry], and the dump on disk
    bg       \* the child that saves a dump: [st, dump]

vars == <<family, life, phase, now, db, acked, aof, file, rw, rdb, bg>>

conf == Conf[family]
NoDb == [dict |-> Empty, expires |-> Empty]
NoTime == -1
NoRewrite == [st |-> "none", temp |-> Empty]
NoSave == [st |-> "none", dump |-> Empty]

\* A server that holds D.
Holding(D, loading) == [EmptyServer EXCEPT !.dict = D.dict, !.expires = D.expires, !.now = now, !.loading = loading]
Held(T) == [dict |-> T.dict, expires |-> T.expires]

\* The commands cs run one after the other on D: the dataset they leave, what they propagate
\* and the changes they count.
Run(D, cs, loading) ==
    LET One(R, T) == [db |-> Held(T), log |-> R.log \o Propagated(T), dirty |-> R.dirty + T.dirty]
        Step(R, c) == One(R, CHOOSE T \in call(Holding(R.db, loading), c) : TRUE)
    IN  FoldLeft(Step, [db |-> D, log |-> Empty, dirty |-> 0], cs)

MULTI == <<"MULTI">>
EXEC  == <<"EXEC">>

\* The files of a server that never ran; initServer creates the log, and then loads nothing.
Init ==
    /\ family \in DOMAIN Conf
    /\ life = "running" /\ phase = "asleep" /\ now = 0
    /\ db = NoDb /\ acked = NoDb
    /\ aof = [state |-> IF conf.appendonly THEN "ON" ELSE "OFF", fd |-> conf.appendonly, buf |-> Empty,
              rwbuf |-> Empty, scheduled |-> FALSE, base |-> 0, postponed |-> NoTime, last |-> 0, bio |-> Empty]
    /\ file = [log |-> Empty, synced |-> 0, torn |-> FALSE]
    /\ rw = NoRewrite /\ bg = NoSave
    /\ rdb = [dirty |-> 0, before |-> 0, status |-> TRUE, lastsave |-> 0, lasttry |-> NoTime, dump |-> Empty]

----------------------------------------------------------------------------
\* Feeding the log.  Relative times become absolute, but for the one SET takes.

Translated(c) ==
    CASE c[1] = "SETEX"  -> <<<<"SET", c[2], c[3], Nil, "">>, <<"EXPIREAT", c[2], now + c[4]>>>>
      [] c[1] = "EXPIRE" -> <<<<"EXPIREAT", c[2], now + c[3]>>>>
      [] OTHER           -> <<c>>

Logged(cs) == FlattenSeq([i \in DOMAIN cs |-> Translated(cs[i])])

\* Mutant: what is fed while a child rewrites the log does not reach the rewrite buffer.
feedDuringNoRewrite(A, cs) ==
    [A EXCEPT !.buf = IF A.state = "ON" THEN @ \o Logged(cs) ELSE @]

\* Not called when the log is off.
feedAppendOnlyFile(A, cs) ==
    IF A.state = "OFF" THEN A
    ELSE [A EXCEPT !.buf = IF A.state = "ON" THEN @ \o Logged(cs) ELSE @,
                   !.rwbuf = IF rw.st # "none" THEN @ \o Logged(cs) ELSE @]

----------------------------------------------------------------------------
\* Flushing the buffer: [aof, file] before and after.

AllSynced(f) == [f EXCEPT !.synced = Len(f.log)]

Busy(A) == conf.fsync = "everysec" /\ A.bio # Empty

\* Mutant: postponed for as long as the fsync takes.
PostponesForever(A, force, t) == conf.fsync = "everysec" /\ ~force /\ Busy(A)

\* A write that would block behind the fsync of the other thread waits less than two seconds.
Postpones(A, force, t) ==
    conf.fsync = "everysec" /\ ~force /\ Busy(A) /\ (A.postponed = NoTime \/ t - A.postponed < 2)

\* The fsync the policy asks for after a write.
SyncedByPolicy(A, f, t) ==
    IF conf.nofsync /\ (rw.st # "none" \/ bg.st # "none") THEN [aof |-> A, file |-> f]
    ELSE IF conf.fsync = "always" THEN [aof |-> [A EXCEPT !.last = t], file |-> AllSynced(f)]
    ELSE IF conf.fsync = "everysec" /\ t > A.last
    THEN [aof |-> [A EXCEPT !.last = t, !.bio = IF Busy(A) THEN @ ELSE Append(@, "current")], file |-> f]
    ELSE [aof |-> A, file |-> f]

flushAppendOnlyFile(A, f, force, t) ==
    IF A.buf = Empty THEN [aof |-> A, file |-> f]
    ELSE IF Postpones(A, force, t)
    THEN [aof |-> [A EXCEPT !.postponed = IF @ = NoTime THEN t ELSE @], file |-> f]
    ELSE SyncedByPolicy([A EXCEPT !.postponed = NoTime, !.buf = Empty],
                        [f EXCEPT !.log = @ \o A.buf], t)

----------------------------------------------------------------------------
\* Children.

ForkRewrite(D, t) == [st |-> "running", temp |-> rewriteAppendOnlyFile(D, t)]
ForkSave(D, t) == [st |-> "running", dump |-> rdbSave(D, t)]

Ended == {"ok", "failed", "killed", "crashed"}

\* A child that has ended already is not hurt by a signal.
Killed(child) == IF child.st = "running" THEN [child EXCEPT !.st = "killed"] ELSE child

\* SAVE, in the process itself.
Saved(R, D, t) == [R EXCEPT !.dump = rdbSave(D, t), !.dirty = 0, !.lastsave = t, !.status = TRUE]

\* A rewrite that runs is killed and waited for; wait3() is content with any child, though: when
\* a save has ended that serverCron has not seen yet, it may be the one waited for, and is lost.
stopAppendOnly ==
    LET F == flushAppendOnlyFile(aof, file, TRUE, now)
    IN  /\ aof.state # "OFF"
        /\ file' = AllSynced(F.file)
        /\ aof' = [F.aof EXCEPT !.state = "OFF", !.fd = FALSE, !.rwbuf = Empty,
                               !.bio = [i \in DOMAIN @ |-> "closed"]]
        /\ rw' = NoRewrite
        /\ bg' \in {bg} \cup (IF rw.st # "none" /\ bg.st \in Ended THEN {[bg EXCEPT !.st = "lost"]} ELSE {})
        /\ UNCHANGED rdb

\* A rewrite already under way, or a fork that fails, leaves the log off and the closed
\* descriptor in aof_fd.
startAppendOnly(forked) ==
    /\ aof.state = "OFF"
    /\ IF rw.st = "none" /\ forked
       THEN rw' = ForkRewrite(db, now) /\ aof' = [aof EXCEPT !.state = "WAIT", !.fd = TRUE, !.last = now, !.scheduled = FALSE]
       ELSE rw' = rw /\ aof' = [aof EXCEPT !.fd = TRUE, !.last = now]
    /\ UNCHANGED <<file, rdb, bg>>

bgrewriteaofCommand(forked) ==
    /\ rw.st = "none" /\ Len(aof.bio) <= MaxJobs
    /\ IF bg.st # "none" THEN rw' = rw /\ aof' = [aof EXCEPT !.scheduled = TRUE]
       ELSE forked /\ rw' = ForkRewrite(db, now) /\ aof' = [aof EXCEPT !.scheduled = FALSE]
    /\ UNCHANGED <<file, rdb, bg>>

\* Refused while the log is rewritten.
bgsaveCommand(forked) ==
    /\ bg.st = "none" /\ rw.st = "none"
    /\ rdb' = [rdb EXCEPT !.before = rdb.dirty, !.lasttry = now]
    /\ bg' = IF forked THEN ForkSave(db, now) ELSE bg
    /\ UNCHANGED <<aof, file, rw>>

saveCommand(written) ==
    /\ bg.st = "none"
    /\ rdb' = IF written THEN Saved(rdb, db, now) ELSE rdb
    /\ UNCHANGED <<aof, file, rw, bg>>

\* A child ends: a save renames its dump onto the file itself, a rewrite leaves its log in a
\* file of its own.
RewriteExits(st) ==
    /\ rw.st = "running"
    /\ st \in {"ok"} \cup (Faults[family] \cap {"failed", "crashed"})
    /\ rw' = [rw EXCEPT !.st = st]
    /\ UNCHANGED <<family, life, phase, now, db, acked, aof, file, rdb, bg>>

SaveExits(st) ==
    /\ bg.st = "running"
    /\ st \in {"ok"} \cup (Faults[family] \cap {"failed", "crashed"})
    /\ bg' = [bg EXCEPT !.st = st]
    /\ rdb' = IF st = "ok" THEN [rdb EXCEPT !.dump = bg.dump] ELSE rdb
    /\ UNCHANGED <<family, life, phase, now, db, acked, aof, file, rw>>

\* The thread of bio.c has done the oldest fsync.
bioProcessBackgroundJobs ==
    /\ aof.bio # Empty
    /\ aof' = [aof EXCEPT !.bio = Tail(@)]
    /\ file' = IF Head(aof.bio) = "current" THEN AllSynced(file) ELSE file
    /\ UNCHANGED <<family, life, phase, now, db, acked, rw, rdb, bg>>

\* Mutant: what changed while the child saved counts as saved.
SaveDoneForgets(R, t) ==
    IF bg.st = "ok" THEN [R EXCEPT !.dirty = 0, !.lastsave = t, !.status = TRUE] ELSE R

\* What serverCron does of the end of a save: the changes counted since it was forked remain.
backgroundSaveDoneHandler(R, t) ==
    CASE bg.st = "ok"     -> [R EXCEPT !.dirty = @ - R.before, !.lastsave = t, !.status = TRUE]
      [] bg.st = "killed" -> R
      [] OTHER            -> [R EXCEPT !.status = FALSE]

\* The end of a rewrite: the new log takes what was executed meanwhile, then the place of the
\* old one, whose buffer is dropped because all of it is in there.  The child had synced its
\* part.
RewriteSucceeded(A) ==
    LET new == rw.temp \o A.rwbuf
        swapped == [log |-> new, synced |-> Len(rw.temp), torn |-> FALSE]
        B == [A EXCEPT !.rwbuf = Empty, !.state = IF @ = "WAIT" THEN "ON" ELSE @]
        old == [i \in DOMAIN A.bio |-> "closed"]
    IN  IF ~A.fd THEN [aof |-> B, file |-> swapped]
        ELSE [aof |-> [B EXCEPT !.buf = Empty, !.base = Len(new),
                                !.bio = IF conf.fsync = "everysec" THEN Append(old, "current") ELSE old],
              file |-> IF conf.fsync = "always" THEN AllSynced(swapped) ELSE swapped]

\* Mutant: a log being switched on waits for nothing.
NotTriedAgain(A) == [A EXCEPT !.rwbuf = Empty]

\* A rewrite that failed is scheduled again for a log being switched on.
RewriteFailed(A) == [A EXCEPT !.rwbuf = Empty, !.scheduled = @ \/ A.state = "WAIT"]

backgroundRewriteDoneHandler(A, f) ==
    IF rw.st = "ok" THEN RewriteSucceeded(A) ELSE [aof |-> RewriteFailed(A), file |-> f]

\* Keys that serverCron expires before anything else.
ExpiredNow(t) == {k \in DOMAIN db.expires : t > db.expires[k]}

\* An automatic save: enough changes, enough seconds, and no failure in the last RetryDelay.
SaveIsDue(t) ==
    /\ conf.save # Empty
    /\ rdb.dirty >= conf.save[1] /\ t - rdb.lastsave > conf.save[2]
    /\ rdb.status \/ t - rdb.lasttry > RetryDelay

\* An automatic rewrite: the log has grown by perc percent since the last one.
RewriteIsDue(f) ==
    LET base == IF aof.base = 0 THEN 1 ELSE aof.base
    IN  conf.perc > 0 /\ Len(f.log) > 1 /\ (Len(f.log) * 100) \div base - 100 >= conf.perc

\* What wait3 gives serverCron: at most one of the children that have ended.
Reaped == (IF rw.st \in Ended THEN {"rw"} ELSE {}) \cup (IF bg.st \in Ended THEN {"bg"} ELSE {})

\* What serverCron does about its children, at second t, with dataset D and log A: the records
\* it may leave.
ChildrenCron(A, D, t, forked) ==
    LET same == [aof |-> A, file |-> file, rw |-> rw, rdb |-> rdb, bg |-> bg]
        done == backgroundRewriteDoneHandler(A, file)
        rewrites == [same EXCEPT !.rw = ForkRewrite(D, t), !.aof.scheduled = FALSE]
        idle == rw.st = "none" /\ bg.st = "none"
    IN  IF idle /\ A.scheduled /\ forked THEN {rewrites}
        ELSE IF idle /\ SaveIsDue(t)
        THEN {[same EXCEPT !.bg = IF forked THEN ForkSave(D, t) ELSE @,
                           !.rdb.before = rdb.dirty, !.rdb.lasttry = t]}
        ELSE IF idle /\ RewriteIsDue(file) /\ forked THEN {rewrites}
        ELSE IF Reaped = {} THEN {same}
        ELSE {IF child = "rw" THEN [same EXCEPT !.rw = NoRewrite, !.aof = done.aof, !.file = done.file]
              ELSE [same EXCEPT !.bg = NoSave, !.rdb = backgroundSaveDoneHandler(rdb, t)] : child \in Reaped}

\* One run of serverCron, dt seconds after the last.  A flush that was postponed is tried again.
serverCron(dt, forked) ==
    LET t == now + dt
        expired == ExpiredNow(t)
        T == FoldSet(LAMBDA k, S: dbDelete(propagateExpire(S, k), k), Holding(db, FALSE), expired)
    IN  /\ life = "running" /\ phase # "timed" /\ t <= MaxNow[family]
        /\ forked \/ "fork" \in Faults[family]
        /\ \E C \in ChildrenCron(feedAppendOnlyFile(aof, T.dels), Held(T), t, forked) :
            \E F \in {IF C.aof.postponed # NoTime THEN flushAppendOnlyFile(C.aof, C.file, FALSE, t)
                      ELSE [aof |-> C.aof, file |-> C.file]} :
                /\ aof' = F.aof /\ file' = F.file
                /\ rw' = C.rw /\ rdb' = C.rdb /\ bg' = C.bg
        /\ now' = t /\ db' = Held(T) /\ phase' = "timed"
        /\ UNCHANGED <<family, life, acked>>

\* Before the loop sleeps the log is written; the replies go out after that.
beforeSleep ==
    \E F \in {flushAppendOnlyFile(aof, file, FALSE, now)} :
        /\ life = "running" /\ phase # "asleep"
        /\ aof' = F.aof /\ file' = F.file
        /\ acked' = db /\ phase' = "asleep"
        /\ UNCHANGED <<family, life, now, db, rw, rdb, bg>>

\* A failed or short write of the log makes the server exit, after it cut off what was written,
\* if it could: n commands, and a piece of the next.
ShortWrite ==
    /\ life = "running" /\ phase # "asleep" /\ "write" \in Faults[family]
    /\ aof.buf # Empty /\ ~Postpones(aof, FALSE, now)
    /\ \/ file' = file
       \/ \E n \in 0..Len(aof.buf) - 1 : file' = [file EXCEPT !.log = @ \o SubSeq(aof.buf, 1, n), !.torn = TRUE]
    /\ life' = "crashed"
    /\ UNCHANGED <<family, phase, now, db, acked, aof, rw, rdb, bg>>

----------------------------------------------------------------------------
\* Commands.  Several in one call are a transaction, logged between MULTI and EXEC, where
\* EXEC counts as a change.

AsTransaction(cs, R) ==
    IF Len(cs) = 1 THEN R ELSE [R EXCEPT !.log = <<MULTI>> \o @ \o <<EXEC>>, !.dirty = @ + 1]
Executed(cs) == AsTransaction(cs, Run(db, cs, FALSE))

Command ==
    \E cs \in Calls[family] : \E R \in {Executed(cs)} :
        /\ life = "running" /\ phase # "timed"
        /\ Len(file.log) + Len(aof.buf) + Len(Logged(R.log)) <= MaxLog[family]
        /\ Len(aof.rwbuf) + Len(Logged(R.log)) <= MaxLog[family]
        /\ rdb.dirty + R.dirty <= MaxDirty[family]
        /\ \A k \in DOMAIN R.db.dict : Size(R.db.dict[k]) <= MaxSize
        /\ db' = R.db
        /\ aof' = feedAppendOnlyFile(aof, R.log)
        /\ rdb' = [rdb EXCEPT !.dirty = @ + R.dirty]
        /\ phase' = "busy"
        /\ UNCHANGED <<family, life, now, acked, file, rw, bg>>

\* FLUSHALL kills the save under way and saves the empty dataset, but still counts as a change.
Flushall ==
    \E T \in {flushallCommand(Start(Holding(db, FALSE), <<"FLUSHALL">>))} :
        /\ life = "running" /\ phase # "timed" /\ "FLUSHALL" \in Asked[family]
        /\ Len(file.log) + Len(aof.buf) < MaxLog[family] /\ Len(aof.rwbuf) < MaxLog[family]
        /\ rdb.dirty + T.dirty <= MaxDirty[family]
        /\ db' = Held(T)
        /\ aof' = feedAppendOnlyFile(aof, Propagated(T))
        /\ bg' = Killed(bg)
        /\ rdb' = [(IF conf.save = Empty THEN rdb ELSE Saved(rdb, Held(T), now))
                       EXCEPT !.dirty = rdb.dirty + T.dirty]
        /\ phase' = "busy"
        /\ UNCHANGED <<family, life, now, acked, file, rw>>

\* The other commands of the administrator, which change no key.
Administration ==
    /\ life = "running" /\ phase # "timed"
    /\ \E well \in {TRUE} \cup (IF "fork" \in Faults[family] THEN {FALSE} ELSE {}) :
        \/ "BGREWRITEAOF" \in Asked[family] /\ bgrewriteaofCommand(well)
        \/ "BGSAVE" \in Asked[family] /\ bgsaveCommand(well)
        \/ "SAVE" \in Asked[family] /\ saveCommand(well)
        \/ "APPENDONLY" \in Asked[family] /\ (startAppendOnly(well) \/ stopAppendOnly)
    /\ phase' = "busy"
    /\ UNCHANGED <<family, life, now, db, acked>>

\* SHUTDOWN, SIGTERM: the log is synced as far as it was written.  The server goes on when the
\* dump it was to save cannot be written.
Shutdown ==
    /\ life = "running" /\ phase # "timed"
    /\ \E how \in {"SHUTDOWN", "SHUTDOWN NOSAVE"} \cap Asked[family] :
        \E written \in {TRUE} \cup (IF "fork" \in Faults[family] THEN {FALSE} ELSE {}) :
            LET saves == conf.save # Empty /\ how = "SHUTDOWN"
                stops == ~saves \/ written
            IN  /\ file' = IF aof.state = "OFF" THEN file ELSE AllSynced(file)
                /\ rdb' = IF saves /\ written THEN Saved(rdb, db, now) ELSE rdb
                /\ rw' = IF stops THEN NoRewrite ELSE IF aof.state = "OFF" THEN rw ELSE Killed(rw)
                /\ bg' = IF stops THEN NoSave ELSE Killed(bg)
                /\ life' = IF stops THEN "stopped" ELSE life
                /\ phase' = IF stops THEN phase ELSE "busy"
    /\ UNCHANGED <<family, now, db, acked, aof>>

\* The process dies; what was written is in the kernel's hands.  A save goes on in its child.
Kill ==
    /\ life = "running" /\ "kill" \in Faults[family]
    /\ life' = "crashed"
    /\ rw' = NoRewrite
    /\ bg' = IF bg.st = "running" THEN bg ELSE NoSave
    /\ UNCHANGED <<family, phase, now, db, acked, aof, file, rdb>>

\* The machine dies: of the log, what was synced is left, and maybe more of it.
PowerFailure ==
    /\ "power" \in Faults[family] /\ life # "stopped"
    /\ life' = "crashed"
    /\ \E n \in file.synced..Len(file.log) :
        \E torn \in {file.torn} \cup (IF n < Len(file.log) THEN {TRUE, FALSE} ELSE {}) :
            file' = [log |-> SubSeq(file.log, 1, n), synced |-> n, torn |-> torn]
    /\ rw' = NoRewrite /\ bg' = NoSave
    /\ UNCHANGED <<family, phase, now, db, acked, aof, rdb>>

----------------------------------------------------------------------------
\* Loading.  The commands of the log run in a client of their own, and nothing expires; a
\* transaction waits for its EXEC, so one that lacks it does nothing.

\* How far redis-check-aof finds the log valid: to the MULTI that lacks its EXEC.
ValidLen(log) ==
    LET open == {i \in DOMAIN log : log[i] = MULTI /\ ~\E j \in i..Len(log) : log[j] = EXEC}
    IN  IF open = {} THEN Len(log) ELSE Min(open) - 1

Replay(log) ==
    Run(NoDb, SelectSeq(SubSeq(log, 1, ValidLen(log)), LAMBDA c: c \notin {MULTI, EXEC}), TRUE)

\* EXEC counts as a change.
Execs(log) == Cardinality({i \in DOMAIN log : log[i] = EXEC})

CheckAofFix ==
    /\ life = "crashed" /\ conf.appendonly
    /\ file.torn \/ ValidLen(file.log) < Len(file.log)
    /\ file' = [log |-> SubSeq(file.log, 1, ValidLen(file.log)), torn |-> FALSE,
                synced |-> Min({file.synced, ValidLen(file.log)})]
    /\ UNCHANGED <<family, life, phase, now, db, acked, aof, rw, rdb, bg>>

\* What a start finds: Nil when it refuses the log.
loadDataFromDisk ==
    CASE ~conf.appendonly -> [db |-> rdbLoad(rdb.dump, now, TRUE), dirty |-> 0]
      [] conf.appendonly /\ (file.torn \/ ValidLen(file.log) < Len(file.log)) -> Nil
      [] OTHER -> [Replay(file.log) EXCEPT !.dirty = @ + Execs(file.log)]

\* A start; an old save that still runs in its child is waited for here.
Restart ==
    /\ life # "running" /\ bg.st # "running"
    /\ \E L \in {loadDataFromDisk} :
        /\ L # Nil
        /\ db' = L.db /\ acked' = L.db
        /\ rdb' = [dirty |-> L.dirty, before |-> 0, status |-> TRUE, lastsave |-> now, lasttry |-> NoTime, dump |-> rdb.dump]
    /\ life' = "running" /\ phase' = "asleep"
    /\ aof' = [state |-> IF conf.appendonly THEN "ON" ELSE "OFF", fd |-> conf.appendonly, buf |-> Empty,
               rwbuf |-> Empty, scheduled |-> FALSE, base |-> IF conf.appendonly THEN Len(file.log) ELSE 0,
               postponed |-> NoTime, last |-> 0, bio |-> Empty]
    /\ rw' = NoRewrite /\ bg' = NoSave
    /\ UNCHANGED <<family, now, file>>

Next ==
    \/ \E dt \in 0..1, forked \in BOOLEAN : serverCron(dt, forked)
    \/ beforeSleep \/ ShortWrite
    \/ Command \/ Flushall \/ Administration \/ Shutdown
    \/ \E st \in {"ok", "failed", "crashed"} : RewriteExits(st) \/ SaveExits(st)
    \/ bioProcessBackgroundJobs
    \/ Kill \/ PowerFailure \/ CheckAofFix \/ Restart

\* The event loop runs on and the other thread works on.  A rewrite that is tried again and
\* again succeeds at last, and so does a fork.
Fairness ==
    /\ WF_vars(beforeSleep)
    /\ WF_vars(bioProcessBackgroundJobs)
    /\ SF_vars(\E dt \in 0..1 : serverCron(dt, TRUE))
    /\ SF_vars(RewriteExits("ok")) /\ WF_vars(\E st \in {"ok", "failed", "crashed"} : SaveExits(st))

Spec == Init /\ [][Next]_vars
FairSpec == Spec /\ Fairness

----------------------------------------------------------------------------
\* The keys of D that have not expired, what they hold and when they will.
Live(D) ==
    LET live == {k \in DOMAIN D.dict : ~(getExpire(D, k) >= 0 /\ now > getExpire(D, k))}
    IN  [k \in live |-> <<Contents(D.dict)[k], getExpire(D, k)>>]

States == {"OFF", "ON", "WAIT"}
ChildStates == {"none", "running", "lost"} \cup Ended

TypeOK ==
    /\ family \in DOMAIN Conf /\ life \in {"running", "stopped", "crashed"}
    /\ phase \in {"asleep", "busy", "timed"} /\ now \in 0..MaxNow[family]
    /\ DOMAIN db.expires \subseteq DOMAIN db.dict /\ DOMAIN db.dict \subseteq Keys
    /\ aof.state \in States /\ (aof.state # "OFF" => aof.fd)
    /\ aof.buf # Empty => aof.state = "ON"
    /\ aof.rwbuf # Empty => rw.st # "none" \/ life # "running"
    /\ rw.st \in ChildStates \ {"lost"} /\ bg.st \in ChildStates
    /\ file.synced \in 0..Len(file.log) /\ file.torn \in BOOLEAN
    /\ rdb.dirty \in 0..MaxDirty[family]

\* The log with its buffer is the dataset: executing it in an empty server, at any time before
\* something more expires, gives what the server holds.
AofHoldsDataset ==
    life = "running" /\ aof.state = "ON" => Live(Replay(file.log \o aof.buf).db) = Live(db)

\* At any time a rewrite could end: the child's log and the changes buffered since it was
\* forked make the dataset, so that the old log can be dropped.
RewriteHoldsDataset ==
    life = "running" /\ aof.state # "OFF" /\ rw.st \in {"running", "ok"} =>
        Live(Replay(rw.temp \o aof.rwbuf).db) = Live(db)

\* The log, and the one that is being written to take its place.
LogsHoldDataset == TypeOK /\ AofHoldsDataset /\ RewriteHoldsDataset

\* A change whose reply may have been sent is on disk (policy always) or in the kernel's hands
\* (no, everysec), but for the less than two seconds everysec may wait.  The file may be one
\* turn of the event loop ahead of the replies.  What a start loaded from a log that was not
\* synced is synced with the next write only.
AcknowledgedWritten ==
    LET synced == conf.fsync = "always" /\ ~conf.nofsync
        kept == IF synced THEN SubSeq(file.log, 1, file.synced) ELSE file.log
    IN  life = "running" /\ aof.state = "ON" =>
        \/ Live(Replay(kept).db) \in {Live(acked), Live(db)}
        \/ conf.fsync = "everysec" /\ aof.postponed # NoTime /\ now - aof.postponed < 2
        \/ synced /\ file.synced < aof.base

\* The count of changes since the last save tells whether the dump is up to date, in a server
\* that loaded it: no change counted, nothing missing; none since the save under way began,
\* nothing will be missing.
DirtyCounts ==
    life = "running" /\ ~conf.appendonly =>
        /\ rdb.dirty = 0 => Live(rdbLoad(rdb.dump, now, TRUE)) = Live(db)
        /\ bg.st \in {"running", "ok"} /\ rdb.dirty = rdb.before => Live(rdbLoad(bg.dump, now, TRUE)) = Live(db)

\* A log that is being switched on is switched on, if nobody switches it off.
AppendOnlyStarts == (life = "running" /\ aof.state = "WAIT") ~> (life # "running" \/ aof.state # "WAIT")
=============================================================================
