----------------------------- MODULE TikTokPool -----------------------------
(* app/crawlers/tiktok/native.py: the pool of warmed identities, its           *)
(* refresher, and search_native, which runs each search in a thread that holds *)
(* the lock of its identity.                                                   *)
(*                                                                             *)
(* Coroutines interleave at their awaits; threads where the interpreter lets   *)
(* another one run: at a call or at the end of a loop's body.  A job here is what *)
(* to_thread hands to the default executor, waiting there for a thread or run by *)
(* one; wait_for gives up on a job that runs, but the job goes on.  Ages stand  *)
(* for differences of time.monotonic() and stop at the bound they are compared *)
(* with.  An identity nothing refers to any more may be warmed anew.           *)
EXTENDS Integers, FiniteSets, SequencesExt

CONSTANTS Idents,       \* the TikTokIdentity objects there may be at a time
          Requests,     \* the callers of search_native
          Jobs,         \* the jobs of searches there may be at a time
          Nobody,       \* no identity, no job, no request
          PoolSize,     \* TIKTOK_POOL_SIZE
          TokenTtl,     \* MSTOKEN_TTL
          RefreshEvery, \* POOL_REFRESH_INTERVAL
          MaxWarm,      \* the longest a refresh takes: proxies, timeouts of the warm-up;
                        \* the executor has a thread for it
          Window        \* the sticky-proxy window

ASSUME ConstantsAssumption ==
    /\ IsFiniteSet(Idents) /\ IsFiniteSet(Jobs)
    /\ Nobody \notin Idents \cup Requests \cup Jobs
    /\ PoolSize \in Nat \ {0} /\ TokenTtl \in Nat \ {0}
    /\ RefreshEvery \in Nat \ {0}
    /\ Window \in Nat /\ MaxWarm \in 0 .. Window

VARIABLES cycle,    \* _pool_cycle: the identities in the order they come round
          hasToken, \* mstoken is not None
          stamp,    \* age of mstoken_ts
          minted,   \* history: age of the token itself, if there is one
          warmed,   \* age of an identity of the pool, from the beginning of its warm-up
          lock,     \* the job that holds the identity's lock
          job,      \* jobs of _search_with_identity and, in the state "warming", of
                    \* _warm_one_identity: [state, ident, owner, token, age]
          req,      \* search_native: [state, ident, job]
          phase,    \* of the refresher: "starting", "sleeping", "warming" or "off"
          timer,    \* time spent in that phase
          raised    \* history: the last refresh raised an exception

identVars == <<hasToken, stamp, minted, warmed, lock>>
refresherVars == <<phase, timer, raised>>
vars == <<cycle, identVars, job, req, refresherVars>>

-----------------------------------------------------------------------------
FreeJob == [state |-> "free", ident |-> Nobody, owner |-> Nobody, token |-> "none", age |-> 0]
IdleReq == [state |-> "idle", ident |-> Nobody, job |-> Nobody]

Older(age, bound) == IF age < bound THEN age + 1 ELSE bound

\* What an identity may be referred to by.
Referenced ==
    ToSet(cycle) \cup {job[j].ident : j \in Jobs} \cup {req[r].ident : r \in Requests}

Unused == Idents \ Referenced

\* A new TikTokIdentity: no token, mstoken_ts 0.0, an open lock.
NewIdentities(new, age) ==
    /\ hasToken' = [i \in Idents |-> hasToken[i] /\ i \notin new]
    /\ stamp' = [i \in Idents |-> IF i \in new THEN TokenTtl ELSE stamp[i]]
    /\ minted' = [i \in Idents |-> IF i \in new THEN 0 ELSE minted[i]]
    /\ warmed' = [i \in Idents |-> IF i \in new THEN age ELSE warmed[i]]
    /\ UNCHANGED lock

\* asyncio.to_thread(_search_with_identity, ident, ...)
Submit(r, i, state) ==
    \E j \in Jobs :
        /\ job[j] = FreeJob
        /\ job' = [job EXCEPT ![j].state = "queued", ![j].ident = i, ![j].owner = r]
        /\ req' = [req EXCEPT ![r] = [state |-> state, ident |-> i, job |-> j]]

-----------------------------------------------------------------------------
Init ==
    /\ cycle = <<>>
    /\ hasToken = [i \in Idents |-> FALSE]
    /\ stamp = [i \in Idents |-> TokenTtl]
    /\ minted = [i \in Idents |-> 0]
    /\ warmed = [i \in Idents |-> 0]
    /\ lock = [i \in Idents |-> Nobody]
    /\ job = [j \in Jobs |-> FreeJob]
    /\ req = [r \in Requests |-> IdleReq]
    /\ phase = "starting" /\ timer = 0 /\ raised = FALSE

-----------------------------------------------------------------------------
(* search_native, in the event loop.                                           *)

\* The application serves nobody before the first warm-up has ended.
Idle(r) == req[r].state = "idle" /\ phase # "starting"

\* _next_identity finds one in the pool.
SearchPooled(r) ==
    /\ Idle(r)
    /\ cycle # <<>>
    /\ cycle' = Append(Tail(cycle), Head(cycle))
    /\ Submit(r, Head(cycle), "first")
    /\ UNCHANGED <<identVars, refresherVars>>

\* The pool is empty: an identity of the request's own is warmed, in a thread that no
\* wait_for bounds.  The proxy comes first; its client has a timeout.
WarmOnDemand(r) ==
    /\ Idle(r)
    /\ cycle = <<>>
    /\ \E j \in Jobs :
          /\ job[j] = FreeJob
          /\ job' = [job EXCEPT ![j].state = "warming", ![j].owner = r]
          /\ req' = [req EXCEPT ![r].state = "warming", ![r].job = j]
    /\ UNCHANGED <<cycle, identVars, refresherVars>>

\* The slot of the warm-up that has ended serves the search.
SearchWarmed(r) ==
    LET j == req[r].job
    IN  /\ req[r].state = "warming" /\ job[j].state = "data"
        /\ job' = [job EXCEPT ![j].state = "queued"]
        /\ req' = [req EXCEPT ![r].state = "first", ![r].ident = job[j].ident]
        /\ UNCHANGED <<cycle, identVars, refresherVars>>

\* raise NativeSearchError, or what the warm-up has raised
WarmFails(r) ==
    LET j == req[r].job
    IN  /\ req[r].state = "warming" /\ job[j].state \in {"empty", "raised"}
        /\ job' = [job EXCEPT ![j] = FreeJob]
        /\ req' = [req EXCEPT ![r] = IdleReq]
        /\ UNCHANGED <<cycle, identVars, refresherVars>>

\* The thread has returned data, or raised, or was the second to return nothing.
Finish(r) ==
    LET j == req[r].job
    IN  /\ \/ req[r].state \in {"first", "retry"} /\ job[j].state \in {"data", "raised"}
           \/ req[r].state = "retry" /\ job[j].state = "empty"
        /\ job' = [job EXCEPT ![j] = FreeJob]
        /\ req' = [req EXCEPT ![r] = IdleReq]
        /\ UNCHANGED <<cycle, identVars, refresherVars>>

\* The first thread has returned nothing: its identity's token is dropped, without
\* the lock, and another identity tried if the pool's next is another one.
EmptyResult(r) ==
    LET j == req[r].job
        i == req[r].ident
    IN  /\ req[r].state = "first" /\ job[j].state = "empty"
        /\ hasToken' = [hasToken EXCEPT ![i] = FALSE]
        /\ minted' = [minted EXCEPT ![i] = 0]
        /\ cycle' = IF cycle = <<>> THEN <<>> ELSE Append(Tail(cycle), Head(cycle))
        /\ IF cycle = <<>> \/ Head(cycle) = i
           THEN /\ job' = [job EXCEPT ![j] = FreeJob]
                /\ req' = [req EXCEPT ![r] = IdleReq]
           ELSE \* the slot of the thread that has ended serves the next one
                /\ job' = [job EXCEPT ![j] = [FreeJob EXCEPT !.state = "queued",
                                                !.ident = Head(cycle), !.owner = r]]
                /\ req' = [req EXCEPT ![r].state = "retry", ![r].ident = Head(cycle)]
        /\ UNCHANGED <<stamp, warmed, lock, refresherVars>>

\* The awaits that asyncio.wait_for bounds; faulty variant: only the first one.
FirstBounded == {"first"}
Bounded == {"first", "retry"}

\* asyncio.wait_for: a job still queued is cancelled, one that runs is left alone.
TimesOut(r) ==
    LET j == req[r].job
    IN  /\ req[r].state \in Bounded
        /\ job[j].state \notin {"data", "empty", "raised"}
        /\ job' = [job EXCEPT ![j] = IF @.state = "queued" THEN FreeJob
                                     ELSE [@ EXCEPT !.owner = Nobody]]
        /\ req' = [req EXCEPT ![r] = IdleReq]
        /\ UNCHANGED <<cycle, identVars, refresherVars>>

-----------------------------------------------------------------------------
(* _warm_one_identity, in a thread.                                            *)

\* It returns a new identity, or None, or raises.
Warms(j) ==
    /\ job[j].state = "warming"
    /\ \E i \in Unused : NewIdentities({i}, 0)
                         /\ job' = [job EXCEPT ![j].state = "data", ![j].ident = i]
    /\ UNCHANGED <<cycle, req, refresherVars>>

WarmsNone(j) ==
    /\ job[j].state = "warming"
    /\ \E result \in {"empty", "raised"} : job' = [job EXCEPT ![j].state = result]
    /\ UNCHANGED <<cycle, identVars, req, refresherVars>>

-----------------------------------------------------------------------------
(* _search_with_identity, in a thread.                                         *)

Starts(j) ==
    /\ job[j].state = "queued"
    /\ job' = [job EXCEPT ![j].state = "locking"]
    /\ UNCHANGED <<cycle, identVars, req, refresherVars>>

\* with ident.lock; faulty variant: the lock is not waited for.
NoWait(j) == TRUE
LockIsFree(j) == lock[job[j].ident] = Nobody

Locks(j) ==
    /\ job[j].state = "locking"
    /\ LockIsFree(j)
    /\ lock' = [lock EXCEPT ![job[j].ident] = j]
    /\ job' = [job EXCEPT ![j].state = "locked"]
    /\ UNCHANGED <<cycle, hasToken, stamp, minted, warmed, req, refresherVars>>

\* The token is read at once with the check of its age: a token is there and
\* now - ident.mstoken_ts < _MSTOKEN_TTL.
TakesToken(j) ==
    LET i == job[j].ident
    IN  /\ job[j].state = "locked"
        /\ hasToken[i] /\ stamp[i] < TokenTtl
        /\ job' = [job EXCEPT ![j].state = "search", ![j].token = "reused",
                              ![j].age = minted[i]]
        /\ UNCHANGED <<cycle, identVars, req, refresherVars>>

\* Otherwise the token is dropped and the search mints one, real or fake; the site
\* may also answer with an empty one.
MintsToken(j) ==
    LET i == job[j].ident
    IN  /\ job[j].state = "locked"
        /\ ~(hasToken[i] /\ stamp[i] < TokenTtl)
        /\ hasToken' = [hasToken EXCEPT ![i] = FALSE]
        /\ stamp' = [stamp EXCEPT ![i] = TokenTtl]
        /\ minted' = [minted EXCEPT ![i] = 0]
        /\ \E token \in {"fresh", "none"} :
              job' = [job EXCEPT ![j].state = "search", ![j].token = token, ![j].age = 0]
        /\ UNCHANGED <<cycle, warmed, lock, req, refresherVars>>

\* A job that ends without anybody waiting for it is gone.
Ended(j, result) ==
    IF job[j].owner = Nobody THEN FreeJob ELSE [job[j] EXCEPT !.state = result]

\* The search has returned: the token it used, if any, is stored with the time of
\* day, and the lock is released.
Returns(j, result) ==
    LET i == job[j].ident
    IN  /\ job[j].state = "search"
        /\ IF job[j].token = "none" THEN UNCHANGED <<hasToken, stamp, minted>>
           ELSE /\ hasToken' = [hasToken EXCEPT ![i] = TRUE]
                /\ stamp' = [stamp EXCEPT ![i] = 0]
                /\ minted' = [minted EXCEPT ![i] = job[j].age]
        /\ lock' = [lock EXCEPT ![i] = Nobody]
        /\ job' = [job EXCEPT ![j] = Ended(j, result)]
        /\ UNCHANGED <<cycle, warmed, req, refresherVars>>

\* The lock after an exception; faulty variant: acquire() and release() in place
\* of the with statement.
StillLocked(i) == lock
Unlocked(i) == [lock EXCEPT ![i] = Nobody]

Raises(j) ==
    /\ job[j].state = "search"
    /\ lock' = Unlocked(job[j].ident)
    /\ job' = [job EXCEPT ![j] = Ended(j, "raised")]
    /\ UNCHANGED <<cycle, hasToken, stamp, minted, warmed, req, refresherVars>>

-----------------------------------------------------------------------------
(* warm_session_pool and session_pool_refresher.                               *)

\* What a refresh leaves in the pool; faulty variant: the old identities, when no
\* new one could be warmed.
OldIfNone(good) == IF good = {} THEN cycle ELSE SetToSeq(good)
NewPool(good) == SetToSeq(good)

\* The pool is replaced by the identities that could be warmed, however few.
Refreshed(good) ==
    /\ phase \in {"starting", "warming"}
    /\ cycle' = NewPool(good)
    /\ NewIdentities(good, timer)
    /\ phase' = "sleeping" /\ timer' = 0 /\ raised' = FALSE
    /\ UNCHANGED <<job, req>>

\* An exception leaves the pool as it is; at startup it leaves it without refresher.
RefreshRaises ==
    /\ phase \in {"starting", "warming"}
    /\ phase' = IF phase = "starting" THEN "off" ELSE "sleeping"
    /\ timer' = 0 /\ raised' = TRUE
    /\ UNCHANGED <<cycle, identVars, job, req>>

RefreshStarts ==
    /\ phase = "sleeping" /\ timer = RefreshEvery
    /\ phase' = "warming" /\ timer' = 0
    /\ UNCHANGED <<cycle, identVars, job, req, raised>>

\* A unit of time passes; a refresh neither starts late nor takes over MaxWarm.
Tick ==
    /\ phase = "off" \/ timer < IF phase = "sleeping" THEN RefreshEvery ELSE MaxWarm
    /\ timer' = IF phase = "off" THEN timer ELSE timer + 1
    /\ stamp' = [i \in Idents |-> Older(stamp[i], TokenTtl)]
    /\ minted' = [i \in Idents |-> IF hasToken[i] THEN Older(minted[i], TokenTtl) ELSE 0]
    /\ warmed' = [i \in Idents |-> IF i \in ToSet(cycle) THEN Older(warmed[i], Window) ELSE 0]
    /\ job' = [j \in Jobs |-> IF job[j].state = "search"
                               THEN [job[j] EXCEPT !.age = Older(@, TokenTtl)] ELSE job[j]]
    /\ UNCHANGED <<cycle, hasToken, lock, req, phase, raised>>

-----------------------------------------------------------------------------
Search(r) == SearchPooled(r) \/ WarmOnDemand(r)

Proceeds(r) ==
    SearchWarmed(r) \/ WarmFails(r) \/ Finish(r) \/ EmptyResult(r) \/ TimesOut(r)

Runs(j) ==
    \/ Warms(j) \/ WarmsNone(j) \/ Starts(j) \/ Locks(j) \/ TakesToken(j) \/ MintsToken(j)
    \/ \E result \in {"data", "empty"} : Returns(j, result)
    \/ Raises(j)

Refresher ==
    \/ RefreshStarts \/ RefreshRaises
    \/ \E good \in SUBSET Unused : Cardinality(good) <= PoolSize /\ Refreshed(good)

Next ==
    \/ \E r \in Requests : Search(r) \/ Proceeds(r)
    \/ \E j \in Jobs : Runs(j)
    \/ Refresher
    \/ Tick

\* The event loop resumes a coroutine whose thread has ended or whose time is up.
\* Nothing is assumed of the jobs: they may wait for a thread of the executor or for
\* a lock, or hang, for ever, those that warm an identity on demand included.
Spec == Init /\ [][Next]_vars /\ \A r \in Requests : WF_vars(Proceeds(r))

-----------------------------------------------------------------------------
(* Properties.                                                                 *)

InSession == {"locked", "search"}
JobStates == {"free", "warming", "queued", "locking", "data", "empty", "raised"}
             \cup InSession

TypeOK ==
    /\ cycle \in Seq(Idents) /\ Len(cycle) <= PoolSize
    /\ hasToken \in [Idents -> BOOLEAN]
    /\ stamp \in [Idents -> 0 .. TokenTtl] /\ minted \in [Idents -> 0 .. TokenTtl]
    /\ warmed \in [Idents -> 0 .. Window]
    /\ lock \in [Idents -> Jobs \cup {Nobody}]
    /\ job \in [Jobs -> [state : JobStates, ident : Idents \cup {Nobody},
                         owner : Requests \cup {Nobody}, age : 0 .. TokenTtl,
                         token : {"none", "reused", "fresh"}]]
    /\ req \in [Requests -> [state : {"idle", "warming", "first", "retry"},
                             ident : Idents \cup {Nobody}, job : Jobs \cup {Nobody}]]
    /\ phase \in {"starting", "sleeping", "warming", "off"}
    /\ timer \in Nat /\ raised \in BOOLEAN
    /\ \A r \in Requests : req[r].state # "idle" => job[req[r].job].owner = r

\* A session, which is not thread-safe, is used by one thread at a time, also by
\* threads nobody waits for any more and over a refresh of the pool; and a thread
\* that has ended, however it ended, has left its identity to the others.
SessionExclusive ==
    /\ \A j \in Jobs : job[j].state \in InSession => lock[job[j].ident] = j
    /\ \A i \in Idents : lock[i] # Nobody =>
          job[lock[i]].state \in InSession /\ job[lock[i]].ident = i

\* session_pool_refresher stays "within the sticky-proxy window": the pool never
\* holds an identity whose proxy may have changed since its warm-up, even when
\* every warm-up of a refresh fails; only an exception that no warm-up caught can
\* keep the old pool longer, until a refresh does not raise.  That a refresh ends
\* in MaxWarm is assumed: it does while the executor has threads for its warm-ups.
WithinWindow == raised \/ \A n \in DOMAIN cycle : warmed[cycle[n]] < Window

\* A search that has an identity, or whose own warm-up has ended, comes to its end,
\* even if its thread, or the one that holds the lock of its identity, never does.
\* No more is true: native.py:253 waits for the warm-up of a search that has found
\* the pool empty as long as that takes, and threads that hang may fill the executor.
OutOfWarmUp(r) ==
    \/ req[r].state \in {"first", "retry"}
    \/ req[r].state = "warming" /\ job[req[r].job].state # "warming"

RequestEnds == \A r \in Requests : OutOfWarmUp(r) ~> req[r].state = "idle"

\* native.py:45: mstoken_ts is the "time.monotonic() when it was minted": a token
\* is not used again once MSTOKEN_TTL has passed since then.
TokensExpire ==
    [][ \A j \in Jobs : TakesToken(j) => minted[job[j].ident] < TokenTtl ]_vars
=============================================================================
